---------------------------- MODULE DocumentJobs ----------------------------
(***************************************************************************)
(* Document jobs in the local database: the document part of Storage       *)
(* (crates/linguamesh-storage/src/lib.rs) and the segments of DocumentJob  *)
(* (crates/linguamesh-document/src/lib.rs).                                *)
(*                                                                         *)
(* Several connections, possibly of several processes, have the database   *)
(* open.  A statement outside a transaction is one step.  A transaction is *)
(* deferred: it reads a snapshot, becomes the one writer with its first    *)
(* write, which fails when the snapshot is outdated, and publishes its     *)
(* work when it commits.  A killed process loses what is not committed.    *)
(*                                                                         *)
(* A document is its sequence of segment kinds; a translated text is only  *)
(* there or not.  Calls that fail their validation change nothing and have *)
(* no step; the snapshot that a successful call reads back for its caller  *)
(* is left out.                                                            *)
(***************************************************************************)
EXTENDS Naturals, Sequences, FiniteSets

CONSTANTS
  Conns,              \* connections (Storage values)
  Jobs,               \* job identifiers
  Access,             \* the connection, job and document of the calls made
  Docs,               \* documents
  Shape,              \* the kinds of a document's segments, in order
  HostStates,         \* states a host stores
  None,               \* no row, no writer
  MAX_DOCUMENT_JOBS

States == {"pending", "running", "paused", "completed", "cancelled", "failed"}
Kinds  == {"prose", "verbatim"}

ASSUME DocumentAssumption ==
  /\ Access \subseteq Conns \X Jobs \X Docs
  /\ Shape \in [Docs -> Seq(Kinds)]
  /\ HostStates \subseteq States
  /\ None \notin Conns
  /\ MAX_DOCUMENT_JOBS \in Nat \ {0}

\* All calls on job j come through one connection.
OneConnection(j) == \A a, b \in Access : a[2] = j /\ b[2] = j => a[1] = b[1]

\* All calls on job j come through one connection or are about one document.
Settled(j) == \A a, b \in Access : a[2] = j /\ b[2] = j => a[1] = b[1] \/ a[3] = b[3]

VARIABLES
  db,      \* the committed tables
  work,    \* the tables as the writer sees them, empty without a writer
  writer,  \* the connection whose transaction writes
  stale,   \* connections whose snapshot is outdated
  pc, op,  \* the call each connection is in
  kept     \* history: translations committed for the present document

vars == <<db, work, writer, stale, pc, op, kept>>

Indexes  == UNION {DOMAIN Shape[d] : d \in Docs}
Segments == {[of |-> d, index |-> i, done |-> b] : d \in Docs, i \in Indexes, b \in BOOLEAN}
NoJob    == [state |-> "none"]
JobRows  == {NoJob} \cup [state : States, doc : Docs]
Tables   == [jobs : [Jobs -> JobRows], segments : [Jobs -> SUBSET Segments],
             options : SUBSET Jobs]

Idle  == [kind |-> "none"]
Saves == [kind : {"save"}, job : Jobs, doc : Docs, rows : SUBSET Segments, state : States]
Updates ==
  [kind : {"update"}, job : Jobs, index : Indexes, doc : Docs \cup {None},
   rows : SUBSET Segments, state : States]

Stored(t) == {j \in Jobs : t.jobs[j] # NoJob}

TypeOK ==
  /\ db \in Tables /\ work \in Tables
  /\ Cardinality(Stored(db)) <= MAX_DOCUMENT_JOBS
  /\ writer \in Conns \cup {None}
  /\ stale \subseteq Conns
  /\ pc \in [Conns -> {"closed", "idle", "metadata", "segments", "begin", "write",
                       "insert", "commit"}]
  /\ op \in [Conns -> {Idle} \cup Saves \cup Updates]
  /\ kept \in [Jobs -> SUBSET Indexes]

EmptyTables ==
  [jobs |-> [j \in Jobs |-> NoJob], segments |-> [j \in Jobs |-> {}], options |-> {}]

Init ==
  /\ db = EmptyTables /\ work = EmptyTables
  /\ writer = None /\ stale = {}
  /\ pc = [c \in Conns |-> "closed"]
  /\ op = [c \in Conns |-> Idle]
  /\ kept = [j \in Jobs |-> {}]

-----------------------------------------------------------------------------
(* DocumentJob.                                                            *)

Prose(d) == {i \in DOMAIN Shape[d] : Shape[d][i] = "prose"}

\* The segments of document d of which those in done are translated.
Rows(d, done) == {[of |-> d, index |-> i, done |-> i \in done] : i \in DOMAIN Shape[d]}

\* pending_count, as the set of what it counts.
Pending(rows) == {r \in rows : Shape[r.of][r.index] = "prose" /\ ~r.done}

\* The state update_document_segment stores.
StateOf(rows) == IF Pending(rows) = {} THEN "completed" ELSE "running"

Translatable(rows, i) == \E r \in rows : r.index = i /\ Shape[r.of][i] = "prose"

\* Mutant: the other segments start again from the source.
apply_translation_restarts(rows, i) == {[r EXCEPT !.done = r.index = i] : r \in rows}

\* apply_translation of a translatable segment.
apply_translation(rows, i) == {[r EXCEPT !.done = @ \/ r.index = i] : r \in rows}

-----------------------------------------------------------------------------
(* Transactions and statements.                                            *)

WorksOn(c, j) == \E d \in Docs : <<c, j, d>> \in Access

Finish(c) == pc' = [pc EXCEPT ![c] = "idle"] /\ op' = [op EXCEPT ![c] = Idle]
Goto(c, label) == pc' = [pc EXCEPT ![c] = label]

\* Connections that hold a snapshot they mean to write to.
Readers == {c \in Conns : pc[c] = "write"}

\* The end of the transaction that writes.
Release == writer' = None /\ work' = EmptyTables

Publish(t) == db' = t /\ stale' = stale \cup Readers

\* A single statement of an idle connection; it waits for the writer, and
\* gives up after the busy timeout with nothing changed.
Statement(c, t) ==
  /\ pc[c] = "idle" /\ writer = None
  /\ Publish(t)
  /\ UNCHANGED <<work, writer, pc, op>>

-----------------------------------------------------------------------------
(* Storage: opening and the end of a process.                              *)

\* finish_open: nothing to migrate, and the WAL is checkpointed, which fails,
\* and the call with it, while another transaction is open.
finish_open(c) ==
  /\ pc[c] = "closed" /\ writer = None /\ Readers = {}
  /\ Goto(c, "idle")
  /\ UNCHANGED <<db, work, writer, stale, op, kept>>

crash(c) ==
  /\ pc[c] # "closed"
  /\ pc' = [pc EXCEPT ![c] = "closed"]
  /\ op' = [op EXCEPT ![c] = Idle]
  /\ stale' = stale \ {c}
  /\ IF writer = c THEN Release ELSE UNCHANGED <<work, writer>>
  /\ UNCHANGED <<db, kept>>

-----------------------------------------------------------------------------
(* Storage: saving a job and updating a segment.                           *)

\* A completed job has nothing left to translate.
Savable(rows, state) == state = "completed" => Pending(rows) = {}

\* save_document_job of a document the host has in memory.
save_document_job(c, j, d, done, state) ==
  /\ pc[c] = "idle" /\ <<c, j, d>> \in Access
  /\ Savable(Rows(d, done), state)
  /\ op' = [op EXCEPT ![c] = [kind |-> "save", job |-> j, doc |-> d,
                              rows |-> Rows(d, done), state |-> state]]
  /\ Goto(c, "begin")
  /\ UNCHANGED <<db, work, writer, stale, kept>>

\* update_document_segment loads the job first ...
update_document_segment(c, j, i) ==
  /\ pc[c] = "idle" /\ WorksOn(c, j)
  /\ op' = [op EXCEPT ![c] = [kind |-> "update", job |-> j, index |-> i, doc |-> None,
                              rows |-> {}, state |-> "running"]]
  /\ Goto(c, "metadata")
  /\ UNCHANGED <<db, work, writer, stale, kept>>

\* ... its row in one statement ...
load_metadata(c) ==
  /\ pc[c] = "metadata"
  /\ LET row == db.jobs[op[c].job] IN
       \/ row = NoJob /\ Finish(c)
       \/ /\ row # NoJob
          /\ op' = [op EXCEPT ![c].doc = row.doc]
          /\ Goto(c, "segments")
  /\ UNCHANGED <<db, work, writer, stale, kept>>

\* Mutant: the state is derived before the translation is applied.
load_segments_state_first(c) ==
  /\ pc[c] = "segments"
  /\ LET rows == db.segments[op[c].job]
         i    == op[c].index
     IN \/ Finish(c)
        \/ /\ Translatable(rows, i)
           /\ op' = [op EXCEPT ![c].rows = apply_translation(rows, i), ![c].state = StateOf(rows)]
           /\ Goto(c, "begin")
  /\ UNCHANGED <<db, work, writer, stale, kept>>

\* ... and its segments in another, applies the translation and derives the
\* state; an unknown or verbatim segment, or too much text, ends the call.
load_segments(c) ==
  /\ pc[c] = "segments"
  /\ LET rows == db.segments[op[c].job]
         i    == op[c].index
         new  == apply_translation(rows, i)
     IN \/ Finish(c)
        \/ /\ Translatable(rows, i)
           /\ op' = [op EXCEPT ![c].rows = new, ![c].state = StateOf(new)]
           /\ Goto(c, "begin")
  /\ UNCHANGED <<db, work, writer, stale, kept>>

\* The transaction of save_document_job: a new job needs a free place ...
save_begin(c) ==
  /\ pc[c] = "begin"
  /\ IF op[c].job \in Stored(db) \/ Cardinality(Stored(db)) < MAX_DOCUMENT_JOBS
       THEN Goto(c, "write") /\ UNCHANGED op
       ELSE Finish(c)
  /\ UNCHANGED <<db, work, writer, stale, kept>>

\* Mutant: the statements are not in a transaction.
save_write_autocommit(c) ==
  LET j == op[c].job
      t == [db EXCEPT !.jobs[j] = [state |-> op[c].state, doc |-> op[c].doc], !.segments[j] = {}]
  IN /\ pc[c] = "write"
     /\ \/ (c \in stale \/ writer # None) /\ Finish(c) /\ UNCHANGED <<db, work, writer>>
        \/ /\ c \notin stale /\ writer = None
           /\ writer' = c /\ work' = t /\ db' = t
           /\ Goto(c, "insert") /\ UNCHANGED op
     /\ stale' = stale \ {c}
     /\ UNCHANGED kept

\* ... the first write makes it the writer, or fails behind a busy or a
\* faster one; the job's row is replaced and its segments are deleted ...
save_write(c) ==
  LET j == op[c].job
      t == [db EXCEPT !.jobs[j] = [state |-> op[c].state, doc |-> op[c].doc], !.segments[j] = {}]
  IN /\ pc[c] = "write"
     /\ \/ (c \in stale \/ writer # None) /\ Finish(c) /\ UNCHANGED <<work, writer>>
        \/ /\ c \notin stale /\ writer = None
           /\ writer' = c /\ work' = t
           /\ Goto(c, "insert") /\ UNCHANGED op
     /\ stale' = stale \ {c}
     /\ UNCHANGED <<db, kept>>

\* ... the segments are inserted, which may fail ...
save_insert(c) ==
  /\ pc[c] = "insert"
  /\ \/ Finish(c) /\ Release
     \/ /\ work' = [work EXCEPT !.segments[op[c].job] = op[c].rows]
        /\ Goto(c, "commit") /\ UNCHANGED <<op, writer>>
  /\ UNCHANGED <<db, stale, kept>>

\* ... and the transaction commits, or is rolled back.
save_commit(c) ==
  LET j == op[c].job IN
  /\ pc[c] = "commit"
  /\ Release /\ Finish(c)
  /\ \/ UNCHANGED <<db, stale, kept>>
     \/ /\ Publish(work)
        /\ kept' = [kept EXCEPT ![j] =
                      IF op[c].kind = "update" THEN @ \cup {op[c].index}
                      ELSE {r.index : r \in {s \in op[c].rows : s.done}}]

-----------------------------------------------------------------------------
(* Storage: the other operations.                                          *)

set_document_job_state(c, j, state) ==
  /\ WorksOn(c, j) /\ j \in Stored(db)
  /\ Statement(c, [db EXCEPT !.jobs[j].state = state])
  /\ UNCHANGED kept

\* The foreign key refuses options without a job.
save_document_job_options(c, j) ==
  /\ WorksOn(c, j) /\ j \in Stored(db)
  /\ Statement(c, [db EXCEPT !.options = @ \cup {j}])
  /\ UNCHANGED kept

\* The tables without some jobs: deletion cascades to segments and options.
Without(t, js) ==
  [jobs |-> [j \in Jobs |-> IF j \in js THEN NoJob ELSE t.jobs[j]],
   segments |-> [j \in Jobs |-> IF j \in js THEN {} ELSE t.segments[j]],
   options |-> t.options \ js]

delete_document_job(c, j) ==
  /\ WorksOn(c, j)
  /\ Statement(c, Without(db, {j}))
  /\ kept' = [kept EXCEPT ![j] = {}]

clear_document_jobs(c) ==
  /\ Statement(c, Without(db, Jobs))
  /\ kept' = [j \in Jobs |-> {}]

-----------------------------------------------------------------------------
Call(c) ==
  \/ load_metadata(c) \/ load_segments(c)
  \/ save_begin(c) \/ save_write(c) \/ save_insert(c) \/ save_commit(c)

Next ==
  \E c \in Conns :
    \/ finish_open(c) \/ crash(c) \/ Call(c) \/ clear_document_jobs(c)
    \/ \E j \in Jobs :
         \/ \E d \in Docs : \E done \in SUBSET Prose(d), state \in HostStates :
              save_document_job(c, j, d, done, state)
         \/ \E i \in Indexes : update_document_segment(c, j, i)
         \/ \E state \in HostStates : set_document_job_state(c, j, state)
         \/ save_document_job_options(c, j) \/ delete_document_job(c, j)

Spec == Init /\ [][Next]_vars

-----------------------------------------------------------------------------
(* Properties.                                                             *)

\* A stored job always has exactly the segments of its own document, unless two
\* connections save different documents under its name, and a job that is not
\* stored has neither segments nor options: no crash, failed commit,
\* replacement or concurrent deletion leaves a part of one document or a
\* mixture of two, and no race of two connections exceeds the limit of jobs.
WholeDocument ==
  /\ TypeOK
  /\ \A j \in Jobs :
       IF j \in Stored(db)
         THEN Settled(j) => \E done \in SUBSET Prose(db.jobs[j].doc) :
                              db.segments[j] = Rows(db.jobs[j].doc, done)
         ELSE db.segments[j] = {} /\ j \notin db.options

\* A translation that was committed to a job of one connection stays until the
\* job is saved anew or deleted, across crashes and whatever other connections
\* do to other jobs.
TranslationsKept ==
  \A j \in Jobs : OneConnection(j) =>
    \A i \in kept[j] : \E r \in db.segments[j] : r.index = i /\ r.done

AtomicUpdate(c) ==
  LET j   == op[c].job
      new == apply_translation(db.segments[j], op[c].index)
  IN pc[c] = "commit" /\ op[c].kind = "update" /\ OneConnection(j) /\ j \in Stored(db) /\ db' # db
       => db' = [db EXCEPT !.jobs[j].state = StateOf(new), !.segments[j] = new]

\* update_document_segment reads the job before its transaction, in two
\* statements; yet for a job of one connection its commit is one atomic update
\* of what is stored at that moment, which adds this translation, derives the
\* state from the result and touches nothing else.
UpdatesAreAtomic == [][\A c \in Conns : AtomicUpdate(c)]_vars
=============================================================================
