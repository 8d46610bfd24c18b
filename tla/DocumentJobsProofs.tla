------------------------- MODULE DocumentJobsProofs -------------------------
(***************************************************************************)
(* Theorems about stored document jobs, for any number of connections,     *)
(* jobs and documents of any length.                                       *)
(***************************************************************************)
EXTENDS DocumentJobs, FiniteSetTheorems, TLAPS

-----------------------------------------------------------------------------
(* The segments of a document.                                             *)

Row(d, k, b) == [of |-> d, index |-> k, done |-> b]

TranslatedRow(r, i) == [r EXCEPT !.done = @ \/ r.index = i]

LEMMA RowFields ==
  ASSUME NEW d, NEW k, NEW b
  PROVE  Row(d, k, b).of = d /\ Row(d, k, b).index = k /\ Row(d, k, b).done = b
  BY DEF Row

LEMMA RowIsSegment ==
  ASSUME NEW d \in Docs, NEW k \in Indexes, NEW b \in BOOLEAN
  PROVE  Row(d, k, b) \in Segments
  BY DEF Row, Segments

LEMMA RowsAsRows ==
  ASSUME NEW d, NEW done
  PROVE  Rows(d, done) = {Row(d, k, k \in done) : k \in DOMAIN Shape[d]}
  BY Zenon DEF Rows, Row

LEMMA RowsAreSegments ==
  ASSUME NEW d \in Docs, NEW done
  PROVE  Rows(d, done) \subseteq Segments
<1>1. ASSUME NEW k \in DOMAIN Shape[d] PROVE Row(d, k, k \in done) \in Segments
  <2>1. k \in Indexes /\ (k \in done) \in BOOLEAN
    BY <1>1 DEF Indexes
  <2>2. QED
    BY <2>1, RowIsSegment, Zenon
<1>2. QED
  BY <1>1, RowsAsRows, Zenon

LEMMA TranslatedRowIs ==
  ASSUME NEW d, NEW k, NEW i, NEW b \in BOOLEAN
  PROVE  TranslatedRow(Row(d, k, b), i) = Row(d, k, b \/ k = i)
  BY DEF TranslatedRow, Row

\* Applying a translation to the segments of a document gives the segments of
\* the same document with one more translation.
LEMMA TranslatedRows ==
  ASSUME NEW d \in Docs, NEW done \in SUBSET Prose(d), NEW i \in Prose(d)
  PROVE  apply_translation(Rows(d, done), i) = Rows(d, done \cup {i})
<1>1. ASSUME NEW k \in DOMAIN Shape[d]
      PROVE  TranslatedRow(Row(d, k, k \in done), i) = Row(d, k, k \in done \cup {i})
  <2>1. (k \in done) \in BOOLEAN /\ ((k \in done \/ k = i) = (k \in done \cup {i}))
    OBVIOUS
  <2>2. TranslatedRow(Row(d, k, k \in done), i) = Row(d, k, k \in done \/ k = i)
    BY <2>1, TranslatedRowIs, ZenonT(40)
  <2>3. QED
    BY <2>1, <2>2, Zenon
<1>2. apply_translation(Rows(d, done), i) = {TranslatedRow(r, i) : r \in Rows(d, done)}
  BY Zenon DEF apply_translation, TranslatedRow
<1>3. ASSUME NEW x \in apply_translation(Rows(d, done), i) PROVE x \in Rows(d, done \cup {i})
  <2>1. PICK r \in Rows(d, done) : x = TranslatedRow(r, i)
    BY <1>2, <1>3, Zenon
  <2>2. PICK k \in DOMAIN Shape[d] : r = Row(d, k, k \in done)
    BY RowsAsRows, Zenon
  <2>3. x = Row(d, k, k \in done \cup {i})
    BY <1>1, <2>1, <2>2, Zenon
  <2>4. QED
    BY <2>3, RowsAsRows, Zenon
<1>4. ASSUME NEW x \in Rows(d, done \cup {i}) PROVE x \in apply_translation(Rows(d, done), i)
  <2>1. PICK k \in DOMAIN Shape[d] : x = Row(d, k, k \in done \cup {i})
    BY RowsAsRows, Zenon
  <2>2. x = TranslatedRow(Row(d, k, k \in done), i) /\ Row(d, k, k \in done) \in Rows(d, done)
    BY <1>1, <2>1, RowsAsRows, Zenon
  <2>3. QED
    BY <1>2, <2>2, Zenon
<1>5. QED
  BY <1>3, <1>4, Zenon

\* Applying a translation to any segments leaves segments.
LEMMA TranslatedSegments ==
  ASSUME NEW rows \in SUBSET Segments, NEW i
  PROVE  apply_translation(rows, i) \subseteq Segments
<1>1. ASSUME NEW r \in rows PROVE TranslatedRow(r, i) \in Segments
  <2>1. PICK d \in Docs, k \in Indexes, b \in BOOLEAN : r = Row(d, k, b)
    BY DEF Segments, Row
  <2>2. TranslatedRow(r, i) = Row(d, k, b \/ k = i) /\ (b \/ k = i) \in BOOLEAN
    BY <2>1, TranslatedRowIs, Zenon
  <2>3. QED
    BY <2>2, RowIsSegment, Zenon
<1>2. apply_translation(rows, i) = {TranslatedRow(r, i) : r \in rows}
  BY Zenon DEF apply_translation, TranslatedRow
<1>3. QED
  BY <1>1, <1>2, Zenon

\* Only a segment of the document itself can be translated.
LEMMA TranslatableIsProse ==
  ASSUME NEW d \in Docs, NEW done, NEW i, Translatable(Rows(d, done), i)
  PROVE  i \in Prose(d)
<1>1. PICK r \in Rows(d, done) : r.index = i /\ Shape[r.of][i] = "prose"
  BY DEF Translatable
<1>2. PICK k \in DOMAIN Shape[d] : r = Row(d, k, k \in done)
  BY <1>1, RowsAsRows, Zenon
<1>3. r.of = d /\ r.index = k
  BY <1>2 DEF Row
<1>4. QED
  BY <1>1, <1>3 DEF Prose

Translated(rows, i) == \E r \in rows : r.index = i /\ r.done

LEMMA TranslatedInRows ==
  ASSUME NEW d \in Docs, NEW done, NEW i
  PROVE  Translated(Rows(d, done), i) <=> i \in done /\ i \in DOMAIN Shape[d]
<1>1. ASSUME Translated(Rows(d, done), i) PROVE i \in done /\ i \in DOMAIN Shape[d]
  <2>1. PICK r \in Rows(d, done) : r.index = i /\ r.done
    BY <1>1 DEF Translated
  <2>2. PICK k \in DOMAIN Shape[d] : r = Row(d, k, k \in done)
    BY RowsAsRows, Zenon
  <2>3. r.index = k /\ r.done = (k \in done)
    BY <2>2 DEF Row
  <2>4. QED
    BY <2>1, <2>3
<1>2. ASSUME i \in done, i \in DOMAIN Shape[d] PROVE Translated(Rows(d, done), i)
  <2>1. Row(d, i, i \in done) \in Rows(d, done)
    BY <1>2, RowsAsRows, Zenon
  <2>2. Row(d, i, i \in done).index = i /\ Row(d, i, i \in done).done
    BY <1>2 DEF Row
  <2>3. QED
    BY <2>1, <2>2 DEF Translated
<1>3. QED
  BY <1>1, <1>2

-----------------------------------------------------------------------------
(***************************************************************************)
(* The inductive invariant.  Of a connection: a call knows its job; of a   *)
(* settled job, what update_document_segment has loaded still belongs to   *)
(* the stored document, and what a transaction is going to write is a      *)
(* whole document; of a job of one connection, it keeps the translations   *)
(* committed so far, and an update is the stored job with one translation  *)
(* more; there is room as long as the snapshot is current.  Of the writer: *)
(* its work differs from the committed tables in its own job only.         *)
(***************************************************************************)
Loading == {"metadata", "segments"}
Saving  == {"begin", "write", "insert", "commit"}
Writing == {"insert", "commit"}

OpTyped(c) ==
  /\ pc[c] \in Loading => op[c] \in Updates
  /\ pc[c] \in Saving => op[c] \in Saves \cup Updates
  /\ pc[c] \in Loading \cup Saving => WorksOn(c, op[c].job)

\* A document that a call on job j is about.
DocumentOf(j, d) == \E c \in Conns : <<c, j, d>> \in Access

Loaded(c) ==
  pc[c] = "segments" =>
    /\ DocumentOf(op[c].job, op[c].doc) /\ op[c].kind = "update"
    /\ Settled(op[c].job) /\ op[c].job \in Stored(db) => db.jobs[op[c].job].doc = op[c].doc

OpWhole(c) ==
  pc[c] \in Saving =>
    /\ DocumentOf(op[c].job, op[c].doc)
    /\ Settled(op[c].job) =>
         \E done \in SUBSET Prose(op[c].doc) : op[c].rows = Rows(op[c].doc, done)

OpKeeps(c) ==
  pc[c] \in Saving /\ op[c].kind = "update" /\ OneConnection(op[c].job) =>
    \A i \in kept[op[c].job] \cup {op[c].index} : Translated(op[c].rows, i)

OpFresh(c) ==
  pc[c] \in Saving /\ op[c].kind = "update" =>
    /\ op[c].state = StateOf(op[c].rows)
    /\ OneConnection(op[c].job) /\ op[c].job \in Stored(db) =>
         /\ db.jobs[op[c].job].doc = op[c].doc
         /\ op[c].rows = apply_translation(db.segments[op[c].job], op[c].index)

Room(c) ==
  pc[c] \in Writing \/ (pc[c] = "write" /\ c \notin stale) =>
    op[c].job \in Stored(db) \/ Cardinality(Stored(db)) < MAX_DOCUMENT_JOBS

ConnInv(c) == OpTyped(c) /\ Loaded(c) /\ OpWhole(c) /\ OpKeeps(c) /\ OpFresh(c) /\ Room(c)

\* The writer's tables.
WorkOf(c) ==
  LET j == op[c].job IN
  /\ \A k \in Jobs \ {j} : work.jobs[k] = db.jobs[k] /\ work.segments[k] = db.segments[k]
  /\ work.options = db.options
  /\ work.jobs[j] = [state |-> op[c].state, doc |-> op[c].doc]
  /\ pc[c] = "commit" => work.segments[j] = op[c].rows

WriterInv ==
  \A c \in Conns : /\ pc[c] \in Writing <=> writer = c
                   /\ writer = c => WorkOf(c)

\* A stored job that is settled has exactly the segments of its document, a job
\* that is not stored has nothing.
WholeJob(t, j) ==
  IF j \in Stored(t)
    THEN /\ DocumentOf(j, t.jobs[j].doc)
         /\ Settled(j) =>
              \E done \in SUBSET Prose(t.jobs[j].doc) : t.segments[j] = Rows(t.jobs[j].doc, done)
    ELSE t.segments[j] = {} /\ j \notin t.options

KeptJob(t, j, ks) == OneConnection(j) => \A i \in ks : Translated(t.segments[j], i)

TablesInv ==
  /\ IsFiniteSet(Stored(db)) /\ Cardinality(Stored(db)) <= MAX_DOCUMENT_JOBS
  /\ \A j \in Jobs : WholeJob(db, j) /\ KeptJob(db, j, kept[j])

Types ==
  /\ db \in Tables /\ work \in Tables
  /\ writer \in Conns \cup {None}
  /\ stale \subseteq Conns
  /\ pc \in [Conns -> {"closed", "idle"} \cup Loading \cup Saving]
  /\ op \in [Conns -> {Idle} \cup Saves \cup Updates]
  /\ kept \in [Jobs -> SUBSET Indexes]

JobsInv == Types /\ TablesInv /\ WriterInv /\ \A c \in Conns : ConnInv(c)

LEMMA EmptyTablesType == EmptyTables \in Tables
  BY DEF EmptyTables, Tables, JobRows

LEMMA JobsInit == Init => JobsInv
<1> SUFFICES ASSUME Init PROVE JobsInv
  OBVIOUS
<1> USE DEF Init
<1>1. Types
  BY EmptyTablesType DEF Types
<1>2. Stored(db) = {}
  BY DEF Stored, EmptyTables
<1>3. \A j \in Jobs : db.segments[j] = {} /\ j \notin db.options /\ kept[j] = {}
  BY DEF EmptyTables
<1>4. TablesInv
  BY <1>2, <1>3, FS_EmptySet, DocumentAssumption DEF TablesInv, WholeJob, KeptJob, DocumentAssumption
<1>5. WriterInv
  BY DocumentAssumption DEF WriterInv, Writing, DocumentAssumption
<1>6. \A c \in Conns : ConnInv(c)
  BY DEF ConnInv, OpTyped, Loaded, OpWhole, OpKeeps, OpFresh, Room, Loading, Saving, Writing
<1>7. QED
  BY <1>1, <1>4, <1>5, <1>6 DEF JobsInv

\* Two connections that work on one job are about the same document, if the
\* job is settled.
LEMMA OtherWorker ==
  ASSUME NEW c \in Conns, NEW d \in Conns, c # d, NEW j, WorksOn(c, j), WorksOn(d, j)
  PROVE  /\ ~OneConnection(j)
         /\ Settled(j) => \A x, y \in Docs : DocumentOf(j, x) /\ DocumentOf(j, y) => x = y
<1>1. PICK x \in Docs, y \in Docs : <<c, j, x>> \in Access /\ <<d, j, y>> \in Access
  BY DEF WorksOn
<1>2. ~OneConnection(j)
  BY <1>1 DEF OneConnection
<1>3. ASSUME Settled(j), NEW z \in Docs, DocumentOf(j, z) PROVE z = x
  <2>1. PICK e \in Conns : <<e, j, z>> \in Access
    BY <1>3 DEF DocumentOf
  <2>2. x = y /\ (e = c \/ z = x) /\ (e = d \/ z = y)
    BY <1>1, <1>3, <2>1 DEF Settled
  <2>3. QED
    BY <2>2
<1>4. QED
  BY <1>2, <1>3

LEMMA OneIsSettled ==
  ASSUME NEW j, OneConnection(j)
  PROVE  Settled(j)
  BY DEF OneConnection, Settled

\* What a published step by another connection may do to job j.
Elsewhere(t, j, ks) ==
  \/ t.jobs[j] = db.jobs[j] /\ t.segments[j] = db.segments[j] /\ ks = kept[j]
  \/ t.jobs[j] = NoJob /\ ks = {}
  \/ /\ ~OneConnection(j)
     /\ Settled(j) => \A x \in Docs : DocumentOf(j, x) => t.jobs[j].doc = x

\* A connection that does not take part in a step keeps its part of the
\* invariant if its job stays as it is, goes away with its translations or is
\* shared, and if its snapshot is outdated when the tables have changed.
LEMMA OtherConn ==
  ASSUME JobsInv, NEW d \in Conns, pc'[d] = pc[d], op'[d] = op[d],
         \/ UNCHANGED <<db, kept>> /\ (pc[d] = "write" /\ d \in stale => d \in stale')
         \/ /\ pc[d] = "write" => d \in stale'
            /\ pc[d] \notin Writing
            /\ \A j \in Jobs : WorksOn(d, j) => Elsewhere(db', j, kept'[j])
  PROVE  ConnInv(d)'
<1> USE DEF JobsInv, ConnInv
<1>0. pc[d] \in Loading \cup Saving =>
        /\ op[d].job \in Jobs /\ WorksOn(d, op[d].job)
        /\ Elsewhere(db', op[d].job, kept'[op[d].job])
  BY DEF OpTyped, Saves, Updates, Elsewhere
<1>1. OpTyped(d)' /\ OpWhole(d)'
  BY DEF OpTyped, OpWhole, WorksOn, DocumentOf, Settled
<1>2. Loaded(d)'
  <2> SUFFICES ASSUME pc[d] = "segments"
               PROVE  /\ DocumentOf(op[d].job, op[d].doc) /\ op[d].kind = "update"
                      /\ Settled(op[d].job) /\ op[d].job \in Stored(db')
                           => db'.jobs[op[d].job].doc = op[d].doc
    BY DEF Loaded, DocumentOf, Settled, Stored
  <2>1. op[d].job \in Jobs /\ Elsewhere(db', op[d].job, kept'[op[d].job]) /\ op[d] \in Updates
    BY <1>0 DEF Loading, OpTyped
  <2>2. DocumentOf(op[d].job, op[d].doc) /\ op[d].kind = "update" /\ op[d].doc \in Docs
    BY DocumentAssumption DEF Loaded, DocumentOf, DocumentAssumption
  <2>3. ASSUME Settled(op[d].job), op[d].job \in Stored(db')
        PROVE  db'.jobs[op[d].job].doc = op[d].doc
    <3>1. db'.jobs[op[d].job] # NoJob
      BY <2>3 DEF Stored
    <3>2. CASE db'.jobs[op[d].job] = db.jobs[op[d].job]
      BY <2>1, <2>3, <3>1, <3>2 DEF Loaded, Stored
    <3>3. CASE ~OneConnection(op[d].job) /\ \A x \in Docs : DocumentOf(op[d].job, x) => db'.jobs[op[d].job].doc = x
      BY <2>2, <3>3
    <3>4. QED
      BY <2>1, <2>3, <3>1, <3>2, <3>3 DEF Elsewhere
  <2>4. QED
    BY <2>2, <2>3
<1>3. OpKeeps(d)'
  <2> SUFFICES ASSUME pc[d] \in Saving, op[d].kind = "update", OneConnection(op[d].job)
               PROVE  \A i \in kept'[op[d].job] \cup {op[d].index} : Translated(op[d].rows, i)
    BY DEF OpKeeps, OneConnection, Translated
  <2>1. kept'[op[d].job] \in {kept[op[d].job], {}}
    BY <1>0 DEF Elsewhere
  <2>2. QED
    BY <2>1 DEF OpKeeps
<1>4. OpFresh(d)'
  <2> SUFFICES ASSUME pc[d] \in Saving, op[d].kind = "update"
               PROVE  /\ op[d].state = StateOf(op[d].rows)
                      /\ OneConnection(op[d].job) /\ op[d].job \in Stored(db') =>
                           /\ db'.jobs[op[d].job].doc = op[d].doc
                           /\ op[d].rows = apply_translation(db'.segments[op[d].job], op[d].index)
    BY DEF OpFresh, OneConnection, StateOf, Pending, apply_translation, Stored
  <2>1. ASSUME OneConnection(op[d].job), op[d].job \in Stored(db')
        PROVE  /\ db'.jobs[op[d].job] = db.jobs[op[d].job]
               /\ db'.segments[op[d].job] = db.segments[op[d].job]
    BY <1>0, <2>1 DEF Elsewhere, Stored
  <2>2. QED
    BY <2>1 DEF OpFresh, Stored
<1>5. Room(d)'
  BY DEF Room, Stored, Writing
<1>6. QED
  BY <1>1, <1>2, <1>3, <1>4, <1>5

\* A step of one connection outside of the writing part of a transaction.
LEMMA LocalStep ==
  ASSUME JobsInv, NEW c \in Conns, UNCHANGED <<db, work, writer, stale, kept>>,
         NEW label \in ({"closed", "idle"} \cup Loading \cup Saving) \ Writing,
         NEW o \in {Idle} \cup Saves \cup Updates,
         pc[c] \notin Writing, pc' = [pc EXCEPT ![c] = label], op' = [op EXCEPT ![c] = o],
         ConnInv(c)'
  PROVE  JobsInv'
<1> USE DEF JobsInv
<1>1. Types'
  BY DEF Types
<1>2. TablesInv'
  BY DEF TablesInv, WholeJob, KeptJob, Stored
<1>3. pc'[c] = label /\ \A d \in Conns \ {c} : pc'[d] = pc[d] /\ op'[d] = op[d]
  BY DEF Types
<1>4. \A d \in Conns : ConnInv(d)'
  BY <1>3, OtherConn
<1>5. writer # c
  BY DEF WriterInv
<1>6. WriterInv'
  BY <1>3, <1>5 DEF WriterInv, WorkOf
<1>7. QED
  BY <1>1, <1>2, <1>4, <1>6

\* A call in its transaction goes on with the same tables.
LEMMA OpStays ==
  ASSUME JobsInv, NEW c \in Conns, pc[c] \in Saving, pc'[c] \in Saving, op'[c] = op[c],
         UNCHANGED <<db, kept>>
  PROVE  OpTyped(c)' /\ Loaded(c)' /\ OpWhole(c)' /\ OpKeeps(c)' /\ OpFresh(c)'
<1>1. OpTyped(c) /\ OpWhole(c) /\ OpKeeps(c) /\ OpFresh(c)
  BY DEF JobsInv, ConnInv
<1>2. OpTyped(c)'
  BY <1>1 DEF OpTyped, WorksOn, Saving, Loading
<1>3. Loaded(c)'
  BY DEF Loaded, Saving
<1>4. OpWhole(c)' /\ OpKeeps(c)'
  BY <1>1 DEF OpWhole, OpKeeps, DocumentOf, Settled, OneConnection, Translated
<1>5. OpFresh(c)'
  BY <1>1 DEF OpFresh, OneConnection, StateOf, Pending, apply_translation, Stored
<1>6. QED
  BY <1>2, <1>3, <1>4, <1>5

\* A call that ends needs nothing.
LEMMA RestConn ==
  ASSUME NEW c \in Conns, pc'[c] \in {"closed", "idle"}
  PROVE  ConnInv(c)'
  BY DEF ConnInv, OpTyped, Loaded, OpWhole, OpKeeps, OpFresh, Room, Loading, Saving, Writing

LEMMA FinishedCall ==
  ASSUME JobsInv, NEW c \in Conns, UNCHANGED <<db, work, writer, stale, kept>>,
         pc[c] \notin Writing, Finish(c)
  PROVE  JobsInv'
<1>1. pc'[c] = "idle"
  BY DEF Finish, JobsInv, Types
<1>2. QED
  BY <1>1, RestConn, LocalStep DEF Finish, Writing, Saving, Loading

LEMMA SaveCall ==
  ASSUME JobsInv, NEW c \in Conns, NEW j \in Jobs, NEW d \in Docs, NEW done \in SUBSET Prose(d),
         NEW state \in HostStates, save_document_job(c, j, d, done, state)
  PROVE  JobsInv'
<1> DEFINE o == [kind |-> "save", job |-> j, doc |-> d, rows |-> Rows(d, done), state |-> state]
<1>1. /\ pc[c] = "idle" /\ <<c, j, d>> \in Access /\ UNCHANGED <<db, work, writer, stale, kept>>
      /\ pc' = [pc EXCEPT ![c] = "begin"] /\ op' = [op EXCEPT ![c] = o]
  BY DEF save_document_job, Goto
<1>2. o \in Saves
  BY RowsAreSegments, DocumentAssumption DEF Saves, DocumentAssumption
<1>3. o.kind = "save" /\ o.job = j /\ o.doc = d /\ o.rows = Rows(d, done)
  OBVIOUS
<1> HIDE DEF o
<1>4. pc'[c] = "begin" /\ op'[c] = o
  BY <1>1 DEF JobsInv, Types
<1>5. OpTyped(c)'
  BY <1>1, <1>2, <1>3, <1>4 DEF OpTyped, WorksOn, Loading
<1>6. Loaded(c)' /\ OpKeeps(c)' /\ OpFresh(c)' /\ Room(c)'
  BY <1>3, <1>4 DEF Loaded, OpKeeps, OpFresh, Room, Saving, Writing
<1>7. OpWhole(c)'
  BY <1>1, <1>3, <1>4 DEF OpWhole, DocumentOf
<1>8. QED
  BY <1>1, <1>2, <1>5, <1>6, <1>7, LocalStep DEF ConnInv, Saving, Writing

LEMMA UpdateCall ==
  ASSUME JobsInv, NEW c \in Conns, NEW j \in Jobs, NEW i \in Indexes, update_document_segment(c, j, i)
  PROVE  JobsInv'
<1> DEFINE o == [kind |-> "update", job |-> j, index |-> i, doc |-> None, rows |-> {},
                 state |-> "running"]
<1>1. /\ pc[c] = "idle" /\ WorksOn(c, j) /\ UNCHANGED <<db, work, writer, stale, kept>>
      /\ pc' = [pc EXCEPT ![c] = "metadata"] /\ op' = [op EXCEPT ![c] = o]
  BY DEF update_document_segment, Goto
<1>2. o \in Updates /\ o.job = j
  BY DEF Updates, States
<1> HIDE DEF o
<1>3. pc'[c] = "metadata" /\ op'[c] = o
  BY <1>1 DEF JobsInv, Types
<1>4. ConnInv(c)'
  BY <1>1, <1>2, <1>3 DEF ConnInv, OpTyped, WorksOn, Loaded, OpWhole, OpKeeps, OpFresh, Room, Loading,
     Saving, Writing
<1>5. QED
  BY <1>1, <1>2, <1>4, LocalStep DEF Loading, Saving, Writing

LEMMA MetadataStep ==
  ASSUME JobsInv, NEW c \in Conns, load_metadata(c)
  PROVE  JobsInv'
<1>1. /\ pc[c] = "metadata" /\ UNCHANGED <<db, work, writer, stale, kept>>
      /\ op[c] \in Updates /\ WorksOn(c, op[c].job) /\ op[c].job \in Jobs
  BY DEF load_metadata, JobsInv, ConnInv, OpTyped, Loading, Updates
<1> DEFINE row == db.jobs[op[c].job]
           o   == [op[c] EXCEPT !.doc = row.doc]
<1>2. CASE Finish(c)
  BY <1>1, <1>2, FinishedCall DEF Writing
<1>3. CASE row # NoJob /\ op' = [op EXCEPT ![c].doc = row.doc] /\ Goto(c, "segments")
  <2>1. row \in [state : States, doc : Docs]
    BY <1>1, <1>3 DEF JobsInv, Types, Tables, JobRows
  <2>2. o \in Updates /\ o.job = op[c].job /\ o.doc = row.doc /\ row.doc \in Docs
    BY <1>1, <2>1 DEF Updates
  <2>3. op' = [op EXCEPT ![c] = o] /\ pc' = [pc EXCEPT ![c] = "segments"]
    BY <1>3 DEF Goto
  <2> HIDE DEF o
  <2>4. pc'[c] = "segments" /\ op'[c] = o
    BY <2>3 DEF JobsInv, Types
  <2>5. OpTyped(c)' /\ OpWhole(c)' /\ OpKeeps(c)' /\ OpFresh(c)' /\ Room(c)'
    BY <1>1, <2>2, <2>4 DEF OpTyped, WorksOn, OpWhole, OpKeeps, OpFresh, Room, Loading, Saving, Writing
  <2>6. Loaded(c)'
    <3>1. op[c].job \in Stored(db)
      BY <1>1, <1>3 DEF Stored
    <3>2. DocumentOf(op[c].job, row.doc)
      BY <1>1, <3>1 DEF JobsInv, TablesInv, WholeJob
    <3>3. o.kind = "update"
      BY <2>2 DEF Updates
    <3>4. QED
      BY <1>1, <2>2, <2>4, <3>2, <3>3 DEF Loaded, DocumentOf, Settled, Stored
  <2>7. QED
    BY <1>1, <2>2, <2>3, <2>5, <2>6, LocalStep DEF ConnInv, Loading, Saving, Writing
<1>4. QED
  BY <1>2, <1>3 DEF load_metadata

LEMMA SegmentsStep ==
  ASSUME JobsInv, NEW c \in Conns, load_segments(c)
  PROVE  JobsInv'
<1> DEFINE j == op[c].job
           rows == db.segments[j]
           i == op[c].index
           new == apply_translation(rows, i)
           state == StateOf(new)
           o == [op[c] EXCEPT !.rows = new, !.state = state]
<1>1. /\ pc[c] = "segments" /\ UNCHANGED <<db, work, writer, stale, kept>>
      /\ op[c] \in Updates /\ WorksOn(c, j) /\ j \in Jobs /\ op[c].kind = "update"
      /\ op[c].doc \in Docs /\ DocumentOf(j, op[c].doc)
      /\ (Settled(j) /\ j \in Stored(db) => db.jobs[j].doc = op[c].doc)
  BY DocumentAssumption DEF load_segments, JobsInv, ConnInv, OpTyped, Loaded, Loading, Updates,
     DocumentOf, DocumentAssumption
<1>2. CASE Finish(c)
  BY <1>1, <1>2, FinishedCall DEF Writing
<1>3. ASSUME Translatable(rows, i), op' = [op EXCEPT ![c].rows = new, ![c].state = state],
             Goto(c, "begin")
      PROVE  JobsInv'
  <2>1. j \in Stored(db)
    BY <1>1, <1>3 DEF JobsInv, TablesInv, WholeJob, Translatable
  <2>2. ASSUME Settled(j)
        PROVE  \E done \in SUBSET Prose(op[c].doc) :
                 /\ rows = Rows(op[c].doc, done) /\ i \in Prose(op[c].doc)
                 /\ new = Rows(op[c].doc, done \cup {i}) /\ done \cup {i} \in SUBSET Prose(op[c].doc)
    <3>1. PICK done \in SUBSET Prose(op[c].doc) : rows = Rows(op[c].doc, done)
      BY <1>1, <2>1, <2>2 DEF JobsInv, TablesInv, WholeJob
    <3>2. i \in Prose(op[c].doc)
      BY <1>1, <1>3, <3>1, TranslatableIsProse
    <3>3. new = Rows(op[c].doc, done \cup {i}) /\ done \cup {i} \in SUBSET Prose(op[c].doc)
      BY <1>1, <3>1, <3>2, TranslatedRows
    <3>4. QED
      BY <3>1, <3>2, <3>3
  <2>3. ASSUME OneConnection(j) PROVE \A k \in kept[j] \cup {i} : Translated(new, k)
    <3>1. PICK done \in SUBSET Prose(op[c].doc) :
            /\ rows = Rows(op[c].doc, done) /\ i \in Prose(op[c].doc)
            /\ new = Rows(op[c].doc, done \cup {i})
      BY <2>2, <2>3, OneIsSettled
    <3>2. \A k \in kept[j] : Translated(rows, k)
      BY <1>1, <2>3 DEF JobsInv, TablesInv, KeptJob
    <3>3. \A k \in kept[j] : k \in done /\ k \in DOMAIN Shape[op[c].doc]
      BY <1>1, <3>1, <3>2, TranslatedInRows
    <3>4. \A k \in kept[j] \cup {i} : k \in done \cup {i} /\ k \in DOMAIN Shape[op[c].doc]
      BY <3>1, <3>3 DEF Prose
    <3>5. QED
      BY <1>1, <3>1, <3>4, TranslatedInRows
  <2>4. new \subseteq Segments
    <3>1. rows \subseteq Segments
      BY <1>1 DEF JobsInv, Types, Tables
    <3>2. QED
      BY <3>1, TranslatedSegments
  <2>5. state \in States
    BY DEF StateOf, States
  <2> HIDE DEF new, state
  <2>7. /\ o \in Updates /\ o.job = j /\ o.doc = op[c].doc /\ o.rows = new /\ o.index = i
        /\ o.kind = "update" /\ o.state = state
    BY <1>1, <2>4, <2>5 DEF Updates
  <2>8. op' = [op EXCEPT ![c] = o] /\ pc' = [pc EXCEPT ![c] = "begin"]
    BY <1>3 DEF Goto
  <2> HIDE DEF o
  <2>9. pc'[c] = "begin" /\ op'[c] = o
    BY <2>8 DEF JobsInv, Types
  <2>10. OpTyped(c)' /\ Loaded(c)' /\ Room(c)'
    BY <1>1, <2>7, <2>9 DEF OpTyped, WorksOn, Loaded, Room, Loading, Saving, Writing
  <2>11. OpWhole(c)'
    BY <1>1, <2>2, <2>7, <2>9, ZenonT(40) DEF OpWhole, DocumentOf, Settled
  <2>12. OpKeeps(c)'
    BY <1>1, <2>3, <2>7, <2>9 DEF OpKeeps, OneConnection, Translated
  <2>13. OpFresh(c)'
    <3>1. o.state = StateOf(o.rows)
      BY <2>7 DEF state
    <3>2. o.rows = apply_translation(db.segments[j], o.index)
      BY <2>7 DEF new
    <3>3. OneConnection(j) /\ j \in Stored(db) => db.jobs[j].doc = o.doc
      BY <1>1, <2>7, OneIsSettled
    <3>4. QED
      BY <1>1, <2>7, <2>9, <3>1, <3>2, <3>3
      DEF OpFresh, OneConnection, StateOf, Pending, apply_translation, Stored
  <2>14. QED
    BY <1>1, <2>7, <2>8, <2>10, <2>11, <2>12, <2>13, LocalStep DEF ConnInv, Saving, Writing
<1>4. QED
  BY <1>2, <1>3 DEF load_segments

LEMMA BeginStep ==
  ASSUME JobsInv, NEW c \in Conns, save_begin(c)
  PROVE  JobsInv'
<1>1. pc[c] = "begin" /\ UNCHANGED <<db, work, writer, stale, kept>>
  BY DEF save_begin
<1>2. CASE Finish(c)
  BY <1>1, <1>2, FinishedCall DEF Writing
<1>3. CASE /\ op[c].job \in Stored(db) \/ Cardinality(Stored(db)) < MAX_DOCUMENT_JOBS
           /\ Goto(c, "write") /\ UNCHANGED op
  <2>1. pc'[c] = "write" /\ op'[c] = op[c] /\ pc' = [pc EXCEPT ![c] = "write"]
    BY <1>3 DEF Goto, JobsInv, Types
  <2>2. op' = [op EXCEPT ![c] = op[c]] /\ op[c] \in Saves \cup Updates
    BY <1>1, <1>3 DEF JobsInv, Types, ConnInv, OpTyped, Saving
  <2>3. OpTyped(c)' /\ Loaded(c)' /\ OpWhole(c)' /\ OpKeeps(c)' /\ OpFresh(c)'
    BY <1>1, <2>1, OpStays DEF JobsInv, ConnInv, Loading, Saving
  <2>4. Room(c)'
    BY <1>1, <1>3, <2>1 DEF Room
  <2>5. QED
    BY <1>1, <2>1, <2>2, <2>3, <2>4, LocalStep DEF ConnInv, Saving, Writing
<1>4. QED
  BY <1>2, <1>3 DEF save_begin

\* A step of a transaction that does not publish, or the end of one.
LEMMA TransactionStep ==
  ASSUME JobsInv, NEW c \in Conns, UNCHANGED <<db, kept>>,
         stale' \in {stale, stale \ {c}}, work' \in Tables,
         NEW label \in {"closed", "idle"} \cup Loading \cup Saving,
         NEW o \in {Idle} \cup Saves \cup Updates,
         pc' = [pc EXCEPT ![c] = label], op' = [op EXCEPT ![c] = o],
         ConnInv(c)',
         \/ label \notin Writing /\ writer \in {c, None} /\ writer' = None
         \/ label \notin Writing /\ writer # c /\ UNCHANGED <<work, writer>>
         \/ label \in Writing /\ writer \in {c, None} /\ writer' = c /\ WorkOf(c)'
  PROVE  JobsInv'
<1> USE DEF JobsInv
<1>1. Types'
  BY DEF Types
<1>2. TablesInv'
  BY DEF TablesInv, WholeJob, KeptJob, Stored
<1>3. pc'[c] = label /\ \A d \in Conns \ {c} : pc'[d] = pc[d] /\ op'[d] = op[d]
  BY DEF Types
<1>4. \A d \in Conns \ {c} : d \in stale => d \in stale'
  OBVIOUS
<1>5. \A d \in Conns : ConnInv(d)'
  BY <1>3, <1>4, OtherConn
<1>6. None \notin Conns
  BY DocumentAssumption DEF DocumentAssumption
<1>7. \A d \in Conns : (pc[d] \in Writing <=> writer = d) /\ (writer = d => WorkOf(d))
  BY DEF WriterInv
<1>8. WriterInv'
  <2>1. CASE label \notin Writing /\ writer \in {c, None} /\ writer' = None
    BY <1>3, <1>6, <1>7, <2>1 DEF WriterInv
  <2>2. CASE label \notin Writing /\ writer # c /\ UNCHANGED <<work, writer>>
    <3>1. \A d \in Conns : pc'[d] \in Writing <=> writer' = d
      BY <1>3, <1>7, <2>2
    <3>2. ASSUME NEW d \in Conns, writer' = d PROVE WorkOf(d)'
      BY <1>3, <1>7, <2>2, <3>2 DEF WorkOf
    <3>3. QED
      BY <3>1, <3>2 DEF WriterInv
  <2>3. CASE label \in Writing /\ writer \in {c, None} /\ writer' = c /\ WorkOf(c)'
    <3>1. \A d \in Conns : pc'[d] \in Writing <=> writer' = d
      BY <1>3, <1>6, <1>7, <2>3
    <3>2. QED
      BY <3>1, <2>3 DEF WriterInv
  <2>4. QED
    BY <2>1, <2>2, <2>3
<1>9. QED
  BY <1>1, <1>2, <1>5, <1>8

LEMMA OpenStep ==
  ASSUME JobsInv, NEW c \in Conns, finish_open(c)
  PROVE  JobsInv'
<1>1. /\ pc[c] = "closed" /\ pc' = [pc EXCEPT ![c] = "idle"]
      /\ UNCHANGED <<db, work, writer, stale, op, kept>>
  BY DEF finish_open, Goto
<1>2. pc'[c] = "idle" /\ op' = [op EXCEPT ![c] = op[c]] /\ op[c] \in {Idle} \cup Saves \cup Updates
  BY <1>1 DEF JobsInv, Types
<1>3. QED
  BY <1>1, <1>2, RestConn, LocalStep DEF Writing, Saving, Loading

LEMMA CrashStep ==
  ASSUME JobsInv, NEW c \in Conns, crash(c)
  PROVE  JobsInv'
<1>1. /\ UNCHANGED <<db, kept>> /\ stale' = stale \ {c}
      /\ pc' = [pc EXCEPT ![c] = "closed"] /\ op' = [op EXCEPT ![c] = Idle]
  BY DEF crash
<1>2. pc'[c] = "closed"
  BY <1>1 DEF JobsInv, Types
<1>3. \/ writer = c /\ writer' = None /\ work' = EmptyTables
      \/ writer # c /\ UNCHANGED <<work, writer>>
  BY DEF crash, Release
<1>4. work' \in Tables
  BY <1>3, EmptyTablesType DEF JobsInv, Types
<1>5. "closed" \in {"closed", "idle"} \cup Loading \cup Saving /\ "closed" \notin Writing
  BY DEF Writing
<1>6. QED
  BY <1>1, <1>2, <1>3, <1>4, <1>5, RestConn, TransactionStep

\* What a call in a transaction is about.
LEMMA SavingOp ==
  ASSUME JobsInv, NEW c \in Conns, pc[c] \in Saving
  PROVE  /\ op[c] \in Saves \cup Updates /\ op[c].job \in Jobs /\ WorksOn(c, op[c].job)
         /\ op[c].doc \in Docs /\ op[c].state \in States /\ op[c].rows \subseteq Segments
         /\ DocumentOf(op[c].job, op[c].doc)
         /\ Settled(op[c].job) =>
              \E done \in SUBSET Prose(op[c].doc) : op[c].rows = Rows(op[c].doc, done)
<1>1. op[c] \in Saves \cup Updates /\ WorksOn(c, op[c].job) /\ OpWhole(c)
  BY DEF JobsInv, ConnInv, OpTyped
<1>2. op[c].doc \in Docs
  BY <1>1, DocumentAssumption DEF OpWhole, DocumentOf, DocumentAssumption
<1>3. op[c].job \in Jobs /\ op[c].state \in States /\ op[c].rows \subseteq Segments
  BY <1>1 DEF Saves, Updates
<1>4. QED
  BY <1>1, <1>2, <1>3 DEF OpWhole

LEMMA WriteStep ==
  ASSUME JobsInv, NEW c \in Conns, save_write(c)
  PROVE  JobsInv'
<1> DEFINE j == op[c].job
           t == [db EXCEPT !.jobs[j] = [state |-> op[c].state, doc |-> op[c].doc], !.segments[j] = {}]
<1>1. pc[c] = "write" /\ UNCHANGED <<db, kept>> /\ stale' = stale \ {c}
  BY DEF save_write
<1>2. /\ op[c] \in Saves \cup Updates /\ j \in Jobs
      /\ op[c].doc \in Docs /\ op[c].state \in States
  BY <1>1, SavingOp DEF Saving
<1>3. pc[c] \notin Writing /\ writer # c
  BY <1>1 DEF JobsInv, WriterInv, Writing
<1>4. CASE Finish(c) /\ UNCHANGED <<work, writer>>
  <2>1. pc'[c] = "idle" /\ work' \in Tables
    BY <1>4 DEF Finish, JobsInv, Types
  <2>2. "idle" \in {"closed", "idle"} \cup Loading \cup Saving /\ "idle" \notin Writing
    BY DEF Writing
  <2>3. QED
    BY <1>1, <1>3, <1>4, <2>1, <2>2, RestConn, TransactionStep DEF Finish
<1>5. ASSUME c \notin stale, writer = None, writer' = c, work' = t, Goto(c, "insert"), UNCHANGED op
      PROVE  JobsInv'
  <2>1. pc'[c] = "insert" /\ op'[c] = op[c] /\ pc' = [pc EXCEPT ![c] = "insert"]
    BY <1>5 DEF Goto, JobsInv, Types
  <2>2. op' = [op EXCEPT ![c] = op[c]] /\ op[c] \in {Idle} \cup Saves \cup Updates
    BY <1>5 DEF JobsInv, Types
  <2>3. /\ t.jobs \in [Jobs -> JobRows] /\ t.segments \in [Jobs -> SUBSET Segments]
        /\ t.options = db.options /\ t.jobs[j] = [state |-> op[c].state, doc |-> op[c].doc]
        /\ \A k \in Jobs \ {j} : t.jobs[k] = db.jobs[k] /\ t.segments[k] = db.segments[k]
        /\ t \in Tables
    BY <1>2 DEF JobsInv, Types, Tables, JobRows
  <2> HIDE DEF t
  <2>4. WorkOf(c)'
    BY <1>1, <1>5, <2>1, <2>3 DEF WorkOf
  <2>5. OpTyped(c)' /\ Loaded(c)' /\ OpWhole(c)' /\ OpKeeps(c)' /\ OpFresh(c)'
    BY <1>1, <2>1, OpStays DEF JobsInv, ConnInv, Loading, Saving
  <2>6. Room(c)'
    BY <1>1, <1>5, <2>1 DEF JobsInv, ConnInv, Room
  <2>7. "insert" \in {"closed", "idle"} \cup Loading \cup Saving /\ "insert" \in Writing
    BY DEF Writing, Saving
  <2>8. QED
    BY <1>1, <1>5, <2>1, <2>2, <2>3, <2>4, <2>5, <2>6, <2>7, TransactionStep DEF ConnInv
<1>6. QED
  BY <1>4, <1>5 DEF save_write

LEMMA InsertStep ==
  ASSUME JobsInv, NEW c \in Conns, save_insert(c)
  PROVE  JobsInv'
<1> DEFINE j == op[c].job
           t == [work EXCEPT !.segments[j] = op[c].rows]
<1>1. pc[c] = "insert" /\ UNCHANGED <<db, stale, kept>>
  BY DEF save_insert
<1>2. op[c] \in Saves \cup Updates /\ j \in Jobs /\ op[c].rows \subseteq Segments
  BY <1>1, SavingOp DEF Saving
<1>3. writer = c /\ WorkOf(c)
  BY <1>1 DEF JobsInv, WriterInv, Writing
<1>4. CASE Finish(c) /\ Release
  <2>1. pc'[c] = "idle" /\ work' \in Tables /\ writer' = None
    BY <1>4, EmptyTablesType DEF Finish, Release, JobsInv, Types
  <2>2. "idle" \in {"closed", "idle"} \cup Loading \cup Saving /\ "idle" \notin Writing
    BY DEF Writing
  <2>3. QED
    BY <1>1, <1>3, <1>4, <2>1, <2>2, RestConn, TransactionStep DEF Finish
<1>5. ASSUME work' = t, Goto(c, "commit"), UNCHANGED <<op, writer>>
      PROVE  JobsInv'
  <2>1. pc'[c] = "commit" /\ op'[c] = op[c] /\ pc' = [pc EXCEPT ![c] = "commit"]
    BY <1>5 DEF Goto, JobsInv, Types
  <2>2. op' = [op EXCEPT ![c] = op[c]] /\ op[c] \in {Idle} \cup Saves \cup Updates
    BY <1>5 DEF JobsInv, Types
  <2>3. /\ t \in Tables /\ t.jobs = work.jobs /\ t.options = work.options
        /\ t.segments[j] = op[c].rows /\ \A k \in Jobs \ {j} : t.segments[k] = work.segments[k]
    BY <1>2 DEF JobsInv, Types, Tables
  <2> HIDE DEF t
  <2>4. WorkOf(c)'
    BY <1>1, <1>3, <1>5, <2>1, <2>3 DEF WorkOf
  <2>5. OpTyped(c)' /\ Loaded(c)' /\ OpWhole(c)' /\ OpKeeps(c)' /\ OpFresh(c)'
    BY <1>1, <2>1, OpStays DEF JobsInv, ConnInv, Loading, Saving
  <2>6. Room(c)'
    BY <1>1, <1>5, <2>1 DEF JobsInv, ConnInv, Room, Writing
  <2>7. "commit" \in {"closed", "idle"} \cup Loading \cup Saving /\ "commit" \in Writing
    BY DEF Writing, Saving
  <2>8. QED
    BY <1>1, <1>3, <1>5, <2>1, <2>2, <2>3, <2>4, <2>5, <2>6, <2>7, TransactionStep DEF ConnInv
<1>6. QED
  BY <1>4, <1>5 DEF save_insert
\* A step that publishes tables leaves the connection idle and no writer.
LEMMA PublishStep ==
  ASSUME JobsInv, NEW c \in Conns, NEW t \in Tables, Publish(t),
         kept' \in [Jobs -> SUBSET Indexes], work' \in Tables,
         IsFiniteSet(Stored(t)), Cardinality(Stored(t)) <= MAX_DOCUMENT_JOBS,
         \A j \in Jobs : WholeJob(t, j) /\ KeptJob(t, j, kept'[j]),
         writer \in {c, None}, writer' = None,
         NEW o \in {Idle} \cup Saves \cup Updates,
         pc' = [pc EXCEPT ![c] = "idle"], op' = [op EXCEPT ![c] = o],
         \A d \in Conns \ {c} : \A j \in Jobs : WorksOn(d, j) => Elsewhere(t, j, kept'[j])
  PROVE  JobsInv'
<1> USE DEF JobsInv
<1>1. db' = t /\ stale' = stale \cup Readers
  BY DEF Publish
<1>2. Types'
  BY <1>1 DEF Types, Readers
<1>3. TablesInv'
  BY <1>1 DEF TablesInv, WholeJob, KeptJob, Stored
<1>4. pc'[c] = "idle" /\ \A d \in Conns \ {c} : pc'[d] = pc[d] /\ op'[d] = op[d]
  BY DEF Types
<1>5. None \notin Conns
  BY DocumentAssumption DEF DocumentAssumption
<1>6. \A d \in Conns \ {c} : pc[d] \notin Writing
  BY <1>5 DEF WriterInv
<1>7. WriterInv'
  BY <1>4, <1>5, <1>6 DEF WriterInv, Writing
<1>8. ASSUME NEW d \in Conns \ {c} PROVE ConnInv(d)'
  <2>1. pc[d] = "write" => d \in stale'
    BY <1>1 DEF Readers
  <2>2. QED
    BY <1>1, <1>4, <1>6, <2>1, OtherConn
<1>9. ConnInv(c)'
  BY <1>4, RestConn
<1>10. QED
  BY <1>2, <1>3, <1>7, <1>8, <1>9

LEMMA CommitStep ==
  ASSUME JobsInv, NEW c \in Conns, save_commit(c)
  PROVE  JobsInv'
<1> DEFINE j == op[c].job
           k == IF op[c].kind = "update" THEN kept[j] \cup {op[c].index}
                ELSE {r.index : r \in {s \in op[c].rows : s.done}}
<1>1. /\ pc[c] = "commit" /\ work' = EmptyTables /\ writer' = None
      /\ pc' = [pc EXCEPT ![c] = "idle"] /\ op' = [op EXCEPT ![c] = Idle]
  BY DEF save_commit, Release, Finish
<1>2. /\ op[c] \in Saves \cup Updates /\ j \in Jobs /\ WorksOn(c, j) /\ op[c].doc \in Docs
      /\ op[c].state \in States
      /\ op[c].rows \subseteq Segments
  BY <1>1, SavingOp DEF Saving
<1>3. writer = c /\ WorkOf(c)
  BY <1>1 DEF JobsInv, WriterInv, Writing
<1>4. CASE UNCHANGED <<db, stale, kept>>
  <2>1. pc'[c] = "idle"
    BY <1>1 DEF JobsInv, Types
  <2>2. "idle" \in {"closed", "idle"} \cup Loading \cup Saving /\ "idle" \notin Writing
    BY DEF Writing
  <2>3. QED
    BY <1>1, <1>3, <1>4, <2>1, <2>2, RestConn, EmptyTablesType, TransactionStep
<1>5. ASSUME Publish(work), kept' = [kept EXCEPT ![j] = k] PROVE JobsInv'
  <2>1. /\ DocumentOf(j, op[c].doc)
        /\ Settled(j) => \E done \in SUBSET Prose(op[c].doc) : op[c].rows = Rows(op[c].doc, done)
    BY <1>1, SavingOp DEF Saving
  <2>2. /\ work.jobs[j] = [state |-> op[c].state, doc |-> op[c].doc]
        /\ work.segments[j] = op[c].rows /\ work.options = db.options
        /\ \A i \in Jobs \ {j} : work.jobs[i] = db.jobs[i] /\ work.segments[i] = db.segments[i]
    BY <1>1, <1>3 DEF WorkOf
  <2>3. work \in Tables /\ work.jobs[j] # NoJob /\ work.jobs[j].doc = op[c].doc
    BY <1>2, <2>2 DEF JobsInv, Types, NoJob, States
  <2>4. Stored(work) = Stored(db) \cup {j}
    BY <1>2, <2>2, <2>3 DEF Stored
  <2>5. IsFiniteSet(Stored(work)) /\ Cardinality(Stored(work)) <= MAX_DOCUMENT_JOBS
    <3>1. /\ IsFiniteSet(Stored(db)) /\ Cardinality(Stored(db)) <= MAX_DOCUMENT_JOBS
          /\ MAX_DOCUMENT_JOBS \in Nat
      BY DocumentAssumption DEF JobsInv, TablesInv, DocumentAssumption
    <3>2. j \in Stored(db) \/ Cardinality(Stored(db)) < MAX_DOCUMENT_JOBS
      BY <1>1 DEF JobsInv, ConnInv, Room, Writing
    <3>3. Cardinality(Stored(db)) \in Nat
      BY <3>1, FS_CardinalityType
    <3>4. /\ IsFiniteSet(Stored(db) \cup {j})
          /\ \/ Cardinality(Stored(db) \cup {j}) = Cardinality(Stored(db))
             \/ j \notin Stored(db) /\ Cardinality(Stored(db) \cup {j}) = Cardinality(Stored(db)) + 1
      BY <3>1, FS_AddElement
    <3>5. QED
      BY <2>4, <3>1, <3>2, <3>3, <3>4
  <2>6. k \subseteq Indexes /\ (OneConnection(j) => \A i \in k : Translated(op[c].rows, i))
    <3>1. CASE op[c].kind = "update"
      <4>1. op[c].index \in Indexes /\ kept[j] \subseteq Indexes
        BY <1>2, <3>1 DEF JobsInv, Types, Saves, Updates
      <4>2. QED
        BY <1>1, <1>2, <3>1, <4>1 DEF JobsInv, ConnInv, OpKeeps, Saving
    <3>2. CASE op[c].kind # "update"
      <4>1. ASSUME NEW i \in k PROVE Translated(op[c].rows, i)
        BY <3>2, <4>1 DEF Translated
      <4>2. \A r \in Segments : r.index \in Indexes
        BY DEF Segments
      <4>3. QED
        BY <1>2, <3>2, <4>1, <4>2
    <3>3. QED
      BY <3>1, <3>2
  <2> HIDE DEF k
  <2>7. /\ kept' \in [Jobs -> SUBSET Indexes] /\ kept'[j] = k
        /\ \A i \in Jobs \ {j} : kept'[i] = kept[i]
    BY <1>2, <1>5, <2>6 DEF JobsInv, Types
  <2>8. ASSUME NEW i \in Jobs PROVE WholeJob(work, i) /\ KeptJob(work, i, kept'[i])
    <3>1. CASE i = j
      <4>1. WholeJob(work, j)
        BY <1>2, <2>1, <2>2, <2>3, <2>4 DEF WholeJob
      <4>2. KeptJob(work, j, kept'[j])
        BY <2>2, <2>6, <2>7 DEF KeptJob
      <4>3. QED
        BY <3>1, <4>1, <4>2
    <3>2. CASE i # j
      <4>1. /\ work.jobs[i] = db.jobs[i] /\ work.segments[i] = db.segments[i]
            /\ kept'[i] = kept[i] /\ (i \in Stored(work) <=> i \in Stored(db))
        BY <2>2, <2>4, <2>7, <3>2
      <4>2. WholeJob(db, i) /\ KeptJob(db, i, kept[i])
        BY DEF JobsInv, TablesInv
      <4>3. QED
        BY <2>2, <4>1, <4>2 DEF WholeJob, KeptJob
    <3>3. QED
      BY <3>1, <3>2
  <2>9. ASSUME NEW d \in Conns \ {c}, NEW i \in Jobs, WorksOn(d, i)
        PROVE  Elsewhere(work, i, kept'[i])
    <3>1. CASE i = j
      BY <1>2, <2>1, <2>3, <2>9, <3>1, OtherWorker DEF Elsewhere
    <3>2. CASE i # j
      BY <2>2, <2>7, <3>2 DEF Elsewhere
    <3>3. QED
      BY <3>1, <3>2
  <2>10. QED
    BY <1>1, <1>3, <1>5, <2>3, <2>5, <2>7, <2>8, <2>9, EmptyTablesType, PublishStep
<1>6. QED
  BY <1>4, <1>5 DEF save_commit

\* A statement, from what it does to the tables.
LEMMA StatementStep ==
  ASSUME JobsInv, NEW c \in Conns, NEW t \in Tables, Statement(c, t),
         Stored(t) \subseteq Stored(db), kept' \in [Jobs -> SUBSET Indexes],
         \A j \in Jobs : WholeJob(t, j) /\ KeptJob(t, j, kept'[j]),
         \A d \in Conns \ {c} : \A j \in Jobs : WorksOn(d, j) => Elsewhere(t, j, kept'[j])
  PROVE  JobsInv'
<1>1. pc[c] = "idle" /\ writer = None /\ Publish(t) /\ UNCHANGED <<work, writer, pc, op>>
  BY DEF Statement
<1>2. pc' = [pc EXCEPT ![c] = "idle"] /\ op' = [op EXCEPT ![c] = op[c]]
  BY <1>1 DEF JobsInv, Types
<1>3. op[c] \in {Idle} \cup Saves \cup Updates /\ work' \in Tables
  BY <1>1 DEF JobsInv, Types
<1>4. IsFiniteSet(Stored(t)) /\ Cardinality(Stored(t)) <= MAX_DOCUMENT_JOBS
  <2>1. /\ IsFiniteSet(Stored(db)) /\ Cardinality(Stored(db)) <= MAX_DOCUMENT_JOBS
        /\ MAX_DOCUMENT_JOBS \in Nat
    BY DocumentAssumption DEF JobsInv, TablesInv, DocumentAssumption
  <2>2. IsFiniteSet(Stored(t)) /\ Cardinality(Stored(t)) <= Cardinality(Stored(db))
    BY <2>1, FS_Subset
  <2>3. Cardinality(Stored(t)) \in Nat /\ Cardinality(Stored(db)) \in Nat
    BY <2>1, <2>2, FS_CardinalityType
  <2>4. QED
    BY <2>1, <2>2, <2>3
<1>5. QED
  BY <1>1, <1>2, <1>3, <1>4, PublishStep
LEMMA SetStateStep ==
  ASSUME JobsInv, NEW c \in Conns, NEW j \in Jobs, NEW state \in HostStates,
         set_document_job_state(c, j, state)
  PROVE  JobsInv'
<1> DEFINE t == [db EXCEPT !.jobs[j].state = state]
<1>1. WorksOn(c, j) /\ j \in Stored(db) /\ Statement(c, t) /\ UNCHANGED kept
  BY DEF set_document_job_state
<1>2. db.jobs[j] \in [state : States, doc : Docs] /\ state \in States
  BY <1>1, DocumentAssumption DEF JobsInv, Types, Tables, JobRows, Stored, DocumentAssumption
<1>3. /\ t.jobs = [db.jobs EXCEPT ![j] = [db.jobs[j] EXCEPT !.state = state]]
      /\ t.segments = db.segments /\ t.options = db.options
  BY DEF JobsInv, Types, Tables
<1>4. [db.jobs[j] EXCEPT !.state = state] \in [state : States, doc : Docs]
  BY <1>2
<1>5. t \in Tables
  BY <1>3, <1>4 DEF JobsInv, Types, Tables, JobRows
<1>6. /\ t.jobs[j].doc = db.jobs[j].doc /\ t.jobs[j] # NoJob
      /\ \A i \in Jobs \ {j} : t.jobs[i] = db.jobs[i]
  BY <1>2, <1>3, <1>4 DEF JobsInv, Types, Tables, NoJob, States
<1> HIDE DEF t
<1>7. Stored(t) = Stored(db)
  BY <1>1, <1>6 DEF Stored
<1>8. ASSUME NEW i \in Jobs PROVE WholeJob(t, i) /\ KeptJob(t, i, kept'[i])
  <2>1. t.jobs[i] = db.jobs[i] \/ (i = j /\ t.jobs[i].doc = db.jobs[i].doc)
    BY <1>6
  <2>2. WholeJob(db, i) /\ KeptJob(db, i, kept[i])
    BY DEF JobsInv, TablesInv
  <2>3. QED
    BY <1>1, <1>3, <1>7, <2>1, <2>2 DEF WholeJob, KeptJob
<1>9. ASSUME NEW d \in Conns \ {c}, NEW i \in Jobs, WorksOn(d, i)
      PROVE  Elsewhere(t, i, kept'[i])
  <2>1. CASE i = j
    <3>1. DocumentOf(j, t.jobs[j].doc) /\ t.jobs[j].doc \in Docs
      BY <1>1, <1>2, <1>6 DEF JobsInv, TablesInv, WholeJob
    <3>2. QED
      BY <1>1, <1>9, <2>1, <3>1, OtherWorker DEF Elsewhere
  <2>2. CASE i # j
    BY <1>1, <1>3, <1>6, <2>2 DEF Elsewhere
  <2>3. QED
    BY <2>1, <2>2
<1>10. kept' \in [Jobs -> SUBSET Indexes]
  BY <1>1 DEF JobsInv, Types
<1>11. QED
  BY <1>1, <1>5, <1>7, <1>8, <1>9, <1>10, StatementStep

LEMMA OptionsStep ==
  ASSUME JobsInv, NEW c \in Conns, NEW j \in Jobs, save_document_job_options(c, j)
  PROVE  JobsInv'
<1> DEFINE t == [db EXCEPT !.options = @ \cup {j}]
<1>1. j \in Stored(db) /\ Statement(c, t) /\ UNCHANGED kept
  BY DEF save_document_job_options
<1>2. t \in Tables /\ t.jobs = db.jobs /\ t.segments = db.segments /\ t.options = db.options \cup {j}
  BY DEF JobsInv, Types, Tables
<1> HIDE DEF t
<1>3. Stored(t) = Stored(db)
  BY <1>2 DEF Stored
<1>4. ASSUME NEW i \in Jobs PROVE WholeJob(t, i) /\ KeptJob(t, i, kept'[i])
  BY <1>1, <1>2, <1>3 DEF WholeJob, KeptJob, JobsInv, TablesInv
<1>5. kept' \in [Jobs -> SUBSET Indexes]
  BY <1>1 DEF JobsInv, Types
<1>6. \A i \in Jobs : Elsewhere(t, i, kept'[i])
  BY <1>1, <1>2 DEF Elsewhere
<1>7. QED
  BY <1>1, <1>2, <1>3, <1>4, <1>5, <1>6, StatementStep

\* Deleting jobs with their translations.
LEMMA WithoutStep ==
  ASSUME JobsInv, NEW c \in Conns, NEW js \in SUBSET Jobs, Statement(c, Without(db, js)),
         kept' = [j \in Jobs |-> IF j \in js THEN {} ELSE kept[j]]
  PROVE  JobsInv'
<1> DEFINE t == Without(db, js)
<1>1. t \in Tables
  BY DEF Without, JobsInv, Types, Tables, JobRows
<1>2. /\ \A j \in js : t.jobs[j] = NoJob /\ t.segments[j] = {} /\ j \notin t.options
      /\ \A j \in Jobs \ js : /\ t.jobs[j] = db.jobs[j] /\ t.segments[j] = db.segments[j]
                              /\ j \in t.options => j \in db.options
  BY DEF Without
<1> HIDE DEF t
<1>3. Stored(t) = Stored(db) \ js
  BY <1>2 DEF Stored
<1>4. ASSUME NEW j \in Jobs PROVE WholeJob(t, j) /\ KeptJob(t, j, kept'[j])
  BY <1>2, <1>3 DEF WholeJob, KeptJob, JobsInv, TablesInv
<1>5. kept' \in [Jobs -> SUBSET Indexes]
  BY DEF JobsInv, Types
<1>6. ASSUME NEW j \in Jobs
      PROVE  Elsewhere(t, j, kept'[j])
  BY <1>2 DEF Elsewhere
<1>7. Statement(c, t)
  BY DEF t
<1>8. QED
  BY <1>1, <1>3, <1>4, <1>5, <1>6, <1>7, StatementStep

LEMMA DeleteStep ==
  ASSUME JobsInv, NEW c \in Conns, NEW j \in Jobs, delete_document_job(c, j)
  PROVE  JobsInv'
<1>1. Statement(c, Without(db, {j})) /\ kept' = [kept EXCEPT ![j] = {}]
  BY DEF delete_document_job
<1>2. kept' = [i \in Jobs |-> IF i \in {j} THEN {} ELSE kept[i]]
  BY <1>1 DEF JobsInv, Types
<1>3. QED
  BY <1>1, <1>2, WithoutStep

LEMMA ClearStep ==
  ASSUME JobsInv, NEW c \in Conns, clear_document_jobs(c)
  PROVE  JobsInv'
<1>1. kept' = [i \in Jobs |-> IF i \in Jobs THEN {} ELSE kept[i]]
  BY DEF clear_document_jobs
<1>2. QED
  BY <1>1, WithoutStep DEF clear_document_jobs

LEMMA JobsStep == JobsInv /\ [Next]_vars => JobsInv'
<1> SUFFICES ASSUME JobsInv, [Next]_vars PROVE JobsInv'
  OBVIOUS
<1>1. CASE UNCHANGED vars
  <2> USE <1>1 DEF vars, JobsInv
  <2>1. Types'
    BY DEF Types
  <2>2. TablesInv'
    BY DEF TablesInv, WholeJob, KeptJob, Stored
  <2>3. WriterInv'
    BY DEF WriterInv, WorkOf
  <2>4. \A c \in Conns : ConnInv(c)'
    BY OtherConn
  <2>5. QED
    BY <2>1, <2>2, <2>3, <2>4
<1>2. CASE Next
  <2>1. PICK c \in Conns :
          \/ finish_open(c) \/ crash(c) \/ Call(c) \/ clear_document_jobs(c)
          \/ \E j \in Jobs :
               \/ \E d \in Docs : \E done \in SUBSET Prose(d), state \in HostStates :
                    save_document_job(c, j, d, done, state)
               \/ \E i \in Indexes : update_document_segment(c, j, i)
               \/ \E state \in HostStates : set_document_job_state(c, j, state)
               \/ save_document_job_options(c, j) \/ delete_document_job(c, j)
    BY <1>2, Zenon DEF Next
  <2>2. CASE Call(c)
    BY <2>2, MetadataStep, SegmentsStep, BeginStep, WriteStep, InsertStep, CommitStep DEF Call
  <2>3. CASE finish_open(c) \/ crash(c) \/ clear_document_jobs(c)
    BY <2>3, OpenStep, CrashStep, ClearStep
  <2>4. ASSUME NEW j \in Jobs,
               \/ \E d \in Docs : \E done \in SUBSET Prose(d), state \in HostStates :
                    save_document_job(c, j, d, done, state)
               \/ \E i \in Indexes : update_document_segment(c, j, i)
               \/ \E state \in HostStates : set_document_job_state(c, j, state)
               \/ save_document_job_options(c, j) \/ delete_document_job(c, j)
        PROVE  JobsInv'
    BY <2>4, SaveCall, UpdateCall, SetStateStep, OptionsStep, DeleteStep, Zenon
  <2>5. QED
    BY <2>1, <2>2, <2>3, <2>4, Zenon
<1>3. QED
  BY <1>1, <1>2

LEMMA JobsInvariant == Spec => []JobsInv
  BY JobsInit, JobsStep, PTL DEF Spec

-----------------------------------------------------------------------------
\* A stored job always has exactly the segments of its own document, unless two
\* connections save different documents under its name; a job that is not
\* stored has none and no options, and the limit of jobs is kept: the save's
\* transaction rolls back with a crash or a failed commit, and a snapshot that
\* another connection has outdated never writes.
THEOREM StoredDocumentsAreWhole == Spec => []WholeDocument
<1>1. JobsInv => WholeDocument
  <2> SUFFICES ASSUME JobsInv PROVE WholeDocument
    OBVIOUS
  <2>1. TypeOK
    BY DEF JobsInv, Types, TablesInv, TypeOK, Loading, Saving
  <2>2. \A j \in Jobs : WholeJob(db, j)
    BY DEF JobsInv, TablesInv
  <2>3. QED
    BY <2>1, <2>2 DEF WholeDocument, WholeJob
<1>2. QED
  BY <1>1, JobsInvariant, PTL

\* A committed translation to a job of one connection stays until the job is
\* saved anew or deleted: what update_document_segment read before its
\* transaction is then still there when it writes it back.
THEOREM CommittedTranslationsStay == Spec => []TranslationsKept
<1>1. JobsInv => TranslationsKept
  BY DEF JobsInv, TablesInv, KeptJob, Translated, TranslationsKept
<1>2. QED
  BY <1>1, JobsInvariant, PTL

-----------------------------------------------------------------------------
\* While a call is about to commit, only its commit changes the tables.
LEMMA OnlyTheWriterPublishes ==
  ASSUME JobsInv, NEW c \in Conns, pc[c] = "commit", Next, db' # db
  PROVE  save_commit(c) /\ db' = work
<1>1. writer = c /\ \A d \in Conns : pc[d] \in Writing => d = c
  BY DocumentAssumption DEF JobsInv, WriterInv, Writing, DocumentAssumption
<1>2. c # None
  BY DocumentAssumption DEF DocumentAssumption
<1>3. PICK d \in Conns :
        \/ finish_open(d) \/ crash(d) \/ Call(d) \/ clear_document_jobs(d)
        \/ \E j \in Jobs :
             \/ \E e \in Docs : \E done \in SUBSET Prose(e), state \in HostStates :
                  save_document_job(d, j, e, done, state)
             \/ \E i \in Indexes : update_document_segment(d, j, i)
             \/ \E state \in HostStates : set_document_job_state(d, j, state)
             \/ save_document_job_options(d, j) \/ delete_document_job(d, j)
  BY Zenon DEF Next
<1>4. \A t : ~Statement(d, t)
  BY <1>1, <1>2 DEF Statement
<1>5. Call(d)
  BY <1>3, <1>4 DEF finish_open, crash, clear_document_jobs, save_document_job,
     update_document_segment, set_document_job_state, save_document_job_options,
     delete_document_job
<1>6. save_commit(d)
  BY <1>5 DEF Call, load_metadata, load_segments, save_begin, save_write, save_insert
<1>7. d = c
  BY <1>1, <1>6 DEF save_commit, Writing
<1>8. QED
  BY <1>6, <1>7 DEF save_commit, Publish

\* The commit of an update is one atomic update of the job as it is stored at
\* that moment, although the job was read in two statements before the
\* transaction.
THEOREM UpdatesActAtOnce == Spec => UpdatesAreAtomic
<1>1. JobsInv /\ [Next]_vars => [\A c \in Conns : AtomicUpdate(c)]_vars
  <2> SUFFICES ASSUME JobsInv, Next, NEW c \in Conns,
                      pc[c] = "commit", op[c].kind = "update", OneConnection(op[c].job),
                      op[c].job \in Stored(db), db' # db
               PROVE  LET j   == op[c].job
                          new == apply_translation(db.segments[j], op[c].index)
                      IN  db' = [db EXCEPT !.jobs[j].state = StateOf(new), !.segments[j] = new]
    BY Zenon DEF AtomicUpdate
  <2> DEFINE j == op[c].job
             n == apply_translation(db.segments[j], op[c].index)
             row == [db.jobs[j] EXCEPT !.state = StateOf(n)]
  <2>1. db' = work
    BY OnlyTheWriterPublishes
  <2>2. WorkOf(c) /\ j \in Jobs /\ op[c].doc \in Docs
    BY SavingOp DEF JobsInv, WriterInv, Writing, Saving
  <2>3. op[c].state = StateOf(n) /\ op[c].rows = n /\ db.jobs[j].doc = op[c].doc
    BY DEF JobsInv, ConnInv, OpFresh, Saving
  <2> HIDE DEF n
  <2>4. db.jobs[j] \in [state : States, doc : Docs]
    BY <2>2 DEF JobsInv, Types, Tables, JobRows, Stored
  <2>5. work.jobs[j] = row
    BY <2>2, <2>3, <2>4 DEF WorkOf
  <2>6. work.segments[j] = n /\ work.options = db.options
    BY <2>2, <2>3 DEF WorkOf
  <2>7. \A k \in Jobs \ {j} : work.jobs[k] = db.jobs[k] /\ work.segments[k] = db.segments[k]
    BY <2>2 DEF WorkOf
  <2>8. db \in Tables /\ work \in Tables
    BY DEF JobsInv, Types
  <2> HIDE DEF row, j
  <2>9. work.jobs = [db.jobs EXCEPT ![j] = row]
    BY <2>5, <2>7, <2>8 DEF Tables
  <2>10. work.segments = [db.segments EXCEPT ![j] = n]
    BY <2>6, <2>7, <2>8 DEF Tables
  <2>11. work = [db EXCEPT !.jobs = [db.jobs EXCEPT ![j] = row], !.segments = [db.segments EXCEPT ![j] = n]]
    BY <2>6, <2>8, <2>9, <2>10 DEF Tables
  <2>12. [db EXCEPT !.jobs = [db.jobs EXCEPT ![j] = row], !.segments = [db.segments EXCEPT ![j] = n]]
           = [db EXCEPT !.jobs[j].state = StateOf(n), !.segments[j] = n]
    BY Zenon DEF row
  <2>13. QED
    BY <2>1, <2>11, <2>12, Zenon DEF j, n
<1>2. QED
  BY <1>1, JobsInvariant, PTL DEF Spec, UpdatesAreAtomic
=============================================================================
