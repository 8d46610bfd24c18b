----------------------------- MODULE LocalStore -----------------------------
(***************************************************************************)
(* The tables of Storage (crates/linguamesh-storage/src/lib.rs) other than *)
(* the document jobs, and the opening of the database with its migrations. *)
(*                                                                         *)
(* Several connections, possibly of several processes, have the database   *)
(* open.  A statement, and a transaction that begins with a write, is one  *)
(* step.  A transaction that reads first holds a snapshot from one step to *)
(* the other; its write fails when somebody else has committed meanwhile.  *)
(* Any write may also give up behind a busy one, and a process may end     *)
(* anywhere; both leave the tables as they are.                            *)
(*                                                                         *)
(* Texts, settings and token counts are left out, and so are calls that    *)
(* fail their validation and the queries.  Operation identifiers and       *)
(* memory keys are numbers, in the order SQLite gives them.  No statement  *)
(* touches tables of two areas, so a behaviour uses those of one workload. *)
(***************************************************************************)
EXTENDS Naturals, FiniteSets

CONSTANTS
  Conns,      \* connections (Storage values)
  Profiles,   \* provider profile identifiers
  Models,     \* model identifiers
  Keys,       \* operation identifiers and translation memory keys
  Libraries,  \* identifiers of routing profiles and of glossaries
  Contents,   \* the terms of a glossary
  None,       \* no row, no argument
  Workloads,  \* the areas a behaviour uses
  MaxTime,    \* largest value of the clock, in seconds
  Versions,   \* schema versions a database is found with, 0 for a new one
  ERASING_VERSION,        \* the migration that erases legacy secrets (2)
  LATEST_SCHEMA_VERSION,
  MAX_ENTRIES,            \* MAX_TRANSLATION_HISTORY_ENTRIES, MAX_TRANSLATION_MEMORY_ENTRIES
  MAX_LIBRARIES           \* MAX_ROUTING_PROFILES, MAX_GLOSSARIES

Areas == {"profiles", "models", "history", "memory", "routing", "glossary"}

ASSUME StoreAssumption ==
  /\ Keys \subseteq Nat \ {0}
  /\ None \notin Profiles \cup Models \cup Libraries \cup Contents
  /\ Workloads \subseteq SUBSET Areas
  /\ MaxTime \in Nat \ {0}
  /\ LATEST_SCHEMA_VERSION \in Nat /\ ERASING_VERSION \in 1..LATEST_SCHEMA_VERSION
  /\ Versions \subseteq 0..LATEST_SCHEMA_VERSION
  /\ MAX_ENTRIES \in Nat \ {0} /\ MAX_LIBRARIES \in Nat \ {0}

VARIABLES
  db,       \* the committed tables
  remains,  \* the database file still holds the pages with legacy secrets
  clock,    \* unixepoch(), which may be set back
  used,     \* the areas this behaviour uses
  stale,    \* connections whose snapshot is outdated
  pc, arg   \* the call each connection is in, and its argument

vars == <<db, remains, clock, used, stale, pc, arg>>

Health   == {"unknown", "ok", "failed"}
Row      == [enabled : BOOLEAN, health : Health, model : BOOLEAN]
NoRow    == [enabled |-> FALSE, health |-> "none", model |-> FALSE]
Tables   ==
  [version  : 0..LATEST_SCHEMA_VERSION,
   profiles : [Profiles -> Row \cup {NoRow}],  \* with provider_model_selection
   active   : Profiles \cup {None},            \* active_provider_selection
   manual   : SUBSET Models,                   \* model_descriptors
   model    : Models \cup {None},              \* active_model_selection
   policy   : BOOLEAN,                         \* translation_history_policy
   history  : [Keys -> 0..MaxTime],            \* created_at, 0 without a row
   usage    : SUBSET Keys,                     \* usage_records
   remember : BOOLEAN,                         \* translation_memory_policy
   memory   : [Keys -> 0..MaxTime],
   routing  : SUBSET Libraries,
   glossary : SUBSET Libraries,
   terms    : [Libraries -> Contents \cup {None}]]

Opening == {"closed", "migrate", "checkpoint"}
Calls   == {"set_active_provider", "set_active_model", "record_history", "record_memory",
            "save_routing_profile", "save_glossary"}

Entries(table)  == {k \in Keys : table[k] # 0}
Stored(t)       == {p \in Profiles : t.profiles[p] # NoRow}

TypeOK ==
  /\ db \in Tables
  /\ Cardinality(Entries(db.history)) <= MAX_ENTRIES
  /\ Cardinality(Entries(db.memory)) <= MAX_ENTRIES
  /\ Cardinality(db.routing) <= MAX_LIBRARIES
  /\ Cardinality(db.glossary) <= MAX_LIBRARIES
  /\ remains \in BOOLEAN /\ clock \in 1..MaxTime /\ used \subseteq Areas
  /\ stale \subseteq Conns
  /\ pc \in [Conns -> Opening \cup {"idle"} \cup Calls]
  /\ arg \in [Conns -> {None} \cup Profiles \cup Models \cup Libraries
                         \cup (Keys \X BOOLEAN) \cup (Libraries \X Contents)]

\* A profile as the first schema has it, with a secret in its row.
LegacyRow == [enabled |-> TRUE, health |-> "unknown", model |-> FALSE]

Init ==
  /\ \E version \in Versions, legacy \in SUBSET Profiles :
       /\ version = 0 => legacy = {}
       /\ db = [version |-> version, active |-> None,
                profiles |-> [p \in Profiles |-> IF p \in legacy THEN LegacyRow ELSE NoRow],
                manual |-> {}, model |-> None,
                policy |-> TRUE, history |-> [k \in Keys |-> 0], usage |-> {},
                remember |-> TRUE, memory |-> [k \in Keys |-> 0],
                routing |-> {}, glossary |-> {}, terms |-> [l \in Libraries |-> None]]
       /\ remains = (version < ERASING_VERSION /\ legacy # {})
  /\ clock = 1 /\ used \in Workloads
  /\ stale = {}
  /\ pc = [c \in Conns |-> "closed"]
  /\ arg = [c \in Conns |-> None]

-----------------------------------------------------------------------------
(* Transactions and statements.                                            *)

\* Connections inside a transaction that has read and not yet written.
Readers == {c \in Conns : pc[c] \in {"migrate", "set_active_provider", "save_routing_profile",
                                     "save_glossary"}}

Goto(c, label) == pc' = [pc EXCEPT ![c] = label] /\ UNCHANGED arg

Begin(c, call, a) ==
  /\ pc[c] = "idle"
  /\ pc' = [pc EXCEPT ![c] = call] /\ arg' = [arg EXCEPT ![c] = a]
  /\ UNCHANGED <<db, remains, clock, used, stale>>

Return(c) == pc' = [pc EXCEPT ![c] = "idle"] /\ arg' = [arg EXCEPT ![c] = None]

Commit(c, t) == db' = t /\ stale' = (stale \cup Readers) \ {c}

\* A call of an idle connection that is one statement, or a transaction that
\* begins with a write.
Statement(c, area, t) ==
  /\ pc[c] = "idle" /\ area \in used
  /\ Commit(c, t)
  /\ UNCHANGED <<remains, clock, used, pc, arg>>

\* The second part of a call; it may fail, and always does on an old snapshot.
Finish(c, call, t) ==
  /\ pc[c] = call
  /\ \/ UNCHANGED db /\ stale' = stale \ {c}
     \/ c \notin stale /\ Commit(c, t)
  /\ Return(c)
  /\ UNCHANGED <<remains, clock, used>>

-----------------------------------------------------------------------------
(* Opening the database.                                                   *)

\* finish_open up to the version that migrate reads in its transaction.
finish_open(c) ==
  /\ pc[c] = "closed"
  /\ Goto(c, "migrate")
  /\ UNCHANGED <<db, remains, clock, used, stale>>

\* Mutant: the log is only copied back after a migration of this call.
migrate_checkpoints_itself(c) ==
  /\ pc[c] = "migrate"
  /\ \/ Goto(c, "closed") /\ UNCHANGED db /\ stale' = stale \ {c}
     \/ db.version = LATEST_SCHEMA_VERSION /\ Goto(c, "idle") /\ UNCHANGED db /\ stale' = stale \ {c}
     \/ /\ db.version < LATEST_SCHEMA_VERSION /\ c \notin stale
        /\ Commit(c, [db EXCEPT !.version = LATEST_SCHEMA_VERSION])
        /\ Goto(c, "checkpoint")
  /\ UNCHANGED <<remains, clock, used>>

\* The missing migrations in one transaction, or none.  What they erase is
\* still in the file: the new pages are in the write-ahead log.
migrate(c) ==
  /\ pc[c] = "migrate"
  /\ \/ Goto(c, "closed") /\ UNCHANGED db /\ stale' = stale \ {c}
     \/ /\ db.version = LATEST_SCHEMA_VERSION
        /\ Goto(c, "checkpoint") /\ UNCHANGED db /\ stale' = stale \ {c}
     \/ /\ db.version < LATEST_SCHEMA_VERSION /\ c \notin stale
        /\ Commit(c, [db EXCEPT !.version = LATEST_SCHEMA_VERSION])
        /\ Goto(c, "checkpoint")
  /\ UNCHANGED <<remains, clock, used>>

\* The log is copied into the file and truncated; while anybody reads an
\* older state the checkpoint is busy and the call fails.
checkpoint_wal(c) ==
  /\ pc[c] = "checkpoint"
  /\ \/ Readers = {} /\ remains' = FALSE /\ Goto(c, "idle")
     \/ Readers # {} /\ Goto(c, "closed") /\ UNCHANGED remains
  /\ UNCHANGED <<db, clock, used, stale>>

\* The connection is closed, or its process ends.
close(c) ==
  /\ pc[c] # "closed"
  /\ pc' = [pc EXCEPT ![c] = "closed"] /\ arg' = [arg EXCEPT ![c] = None]
  /\ stale' = stale \ {c}
  /\ UNCHANGED <<db, remains, clock, used>>

tick ==
  /\ used \cap {"history", "memory"} # {}
  /\ clock' \in 1..MaxTime \ {clock}
  /\ UNCHANGED <<db, remains, used, stale, pc, arg>>

-----------------------------------------------------------------------------
(* Provider profiles.                                                      *)

\* upsert_profile: a profile that is there keeps the health columns it has,
\* whatever the copy in the host's hands says.
upsert_profile(t, p, row) ==
  [t EXCEPT !.profiles[p] =
     IF p \in Stored(t) THEN [row EXCEPT !.health = t.profiles[p].health] ELSE row]

\* Mutant: a disabled profile stays selected.
upsert_provider_profile_keeps_active(c, p, row) ==
  Statement(c, "profiles", upsert_profile(db, p, row))

\* A profile that is disabled is no longer the active one.
upsert_provider_profile(c, p, row) ==
  LET t == upsert_profile(db, p, row) IN
  Statement(c, "profiles",
            [t EXCEPT !.active = IF ~row.enabled /\ @ = p THEN None ELSE @])

save_and_activate_provider(c, p, row) ==
  /\ row.enabled
  /\ Statement(c, "profiles", [upsert_profile(db, p, row) EXCEPT !.active = p])

\* record_provider_health_success and record_provider_health_failure.
record_provider_health(c, p, health) ==
  /\ p \in Stored(db)
  /\ Statement(c, "profiles", [db EXCEPT !.profiles[p].health = health])

\* set_active_provider reads the profile ...
set_active_provider(c, p) ==
  /\ "profiles" \in used
  /\ p \in Stored(db) /\ db.profiles[p].enabled
  /\ Begin(c, "set_active_provider", p)

\* ... and writes the selection in the same transaction.
set_active_provider_write(c) ==
  Finish(c, "set_active_provider", [db EXCEPT !.active = arg[c]])

\* The selection and the recent model go with the profile.
delete_provider_profile(c, p) ==
  Statement(c, "profiles", [db EXCEPT !.profiles[p] = NoRow, !.active = IF @ = p THEN None ELSE @])

-----------------------------------------------------------------------------
(* Models.                                                                 *)

upsert_manual_model(c, m) == Statement(c, "models", [db EXCEPT !.manual = @ \cup {m}])

\* Two statements without a transaction.
set_active_model(c, m) ==
  /\ "models" \in used /\ m \in db.manual
  /\ Begin(c, "set_active_model", m)

set_active_model_write(c) == Finish(c, "set_active_model", [db EXCEPT !.model = arg[c]])

-----------------------------------------------------------------------------
(* History, usage and translation memory.                                  *)

\* ORDER BY created_at DESC, and then by the identifier.
NewerThan(table, a, b) == table[a] > table[b] \/ (table[a] = table[b] /\ a > b)

\* The table without what comes behind the first MAX_ENTRIES rows.
Trimmed(table) ==
  [k \in Keys |->
     IF Cardinality({x \in Entries(table) : NewerThan(table, x, k)}) < MAX_ENTRIES
       THEN table[k] ELSE 0]

\* The policy is read by a statement of its own ...
record_translation_history(c, k, with_usage) ==
  /\ "history" \in used /\ db.policy
  /\ Begin(c, "record_history", <<k, with_usage>>)

\* ... and the entry, its usage and both deletions are one transaction.
record_history_write(c) ==
  LET k     == arg[c][1]
      table == Trimmed([db.history EXCEPT ![k] = clock])
      usage == IF arg[c][2] THEN db.usage \cup {k} ELSE db.usage
  IN Finish(c, "record_history",
            [db EXCEPT !.history = table, !.usage = usage \cap Entries(table)])

clear_translation_history(c) ==
  Statement(c, "history", [db EXCEPT !.history = [k \in Keys |-> 0], !.usage = {}])

delete_translation_history_entry(c, k) ==
  Statement(c, "history", [db EXCEPT !.history[k] = 0, !.usage = @ \ {k}])

set_translation_history_enabled(c, enabled) ==
  Statement(c, "history", [db EXCEPT !.policy = enabled])

record_translation_memory(c, k) ==
  /\ "memory" \in used /\ db.remember
  /\ Begin(c, "record_memory", <<k, FALSE>>)

record_memory_write(c) ==
  Finish(c, "record_memory",
         [db EXCEPT !.memory = Trimmed([@ EXCEPT ![arg[c][1]] = clock])])

clear_translation_memory(c) ==
  Statement(c, "memory", [db EXCEPT !.memory = [k \in Keys |-> 0]])

delete_translation_memory_entry(c, k) == Statement(c, "memory", [db EXCEPT !.memory[k] = 0])

set_translation_memory_enabled(c, enabled) ==
  Statement(c, "memory", [db EXCEPT !.remember = enabled])

-----------------------------------------------------------------------------
(* Routing profiles and glossary libraries.                                *)

\* A new one needs a free place.
HasPlace(table, l) == l \in table \/ Cardinality(table) < MAX_LIBRARIES

save_routing_profile(c, l) ==
  /\ "routing" \in used /\ HasPlace(db.routing, l)
  /\ Begin(c, "save_routing_profile", l)

save_routing_profile_write(c) ==
  Finish(c, "save_routing_profile", [db EXCEPT !.routing = @ \cup {arg[c]}])

delete_routing_profile(c, l) == Statement(c, "routing", [db EXCEPT !.routing = @ \ {l}])

save_glossary(c, l, content) ==
  /\ "glossary" \in used /\ HasPlace(db.glossary, l)
  /\ Begin(c, "save_glossary", <<l, content>>)

\* The old terms are replaced by the new ones.
save_glossary_write(c) ==
  Finish(c, "save_glossary",
         [db EXCEPT !.glossary = @ \cup {arg[c][1]}, !.terms[arg[c][1]] = arg[c][2]])

\* The terms go with their glossary.
delete_glossary(c, l) ==
  Statement(c, "glossary", [db EXCEPT !.glossary = @ \ {l}, !.terms[l] = None])

-----------------------------------------------------------------------------
ProfileCall(c) ==
  \E p \in Profiles :
    \/ \E row \in Row : upsert_provider_profile(c, p, row) \/ save_and_activate_provider(c, p, row)
    \/ \E health \in {"ok", "failed"} : record_provider_health(c, p, health)
    \/ set_active_provider(c, p) \/ delete_provider_profile(c, p)

EntryCall(c) ==
  \/ \E k \in Keys :
       \/ \E with_usage \in BOOLEAN : record_translation_history(c, k, with_usage)
       \/ delete_translation_history_entry(c, k)
       \/ record_translation_memory(c, k) \/ delete_translation_memory_entry(c, k)
  \/ clear_translation_history(c) \/ clear_translation_memory(c)
  \/ \E enabled \in BOOLEAN :
       set_translation_history_enabled(c, enabled) \/ set_translation_memory_enabled(c, enabled)

LibraryCall(c) ==
  \/ \E m \in Models : upsert_manual_model(c, m) \/ set_active_model(c, m)
  \/ \E l \in Libraries :
       \/ save_routing_profile(c, l) \/ delete_routing_profile(c, l) \/ delete_glossary(c, l)
       \/ \E content \in Contents : save_glossary(c, l, content)

Write(c) ==
  \/ set_active_provider_write(c) \/ set_active_model_write(c)
  \/ record_history_write(c) \/ record_memory_write(c)
  \/ save_routing_profile_write(c) \/ save_glossary_write(c)

Next ==
  \/ tick
  \/ \E c \in Conns :
       \/ finish_open(c) \/ migrate(c) \/ checkpoint_wal(c) \/ close(c)
       \/ ProfileCall(c) \/ EntryCall(c) \/ LibraryCall(c) \/ Write(c)

Spec == Init /\ [][Next]_vars

-----------------------------------------------------------------------------
(* Properties.                                                             *)

\* Whoever has the database open finds no legacy secret in its file: also
\* when the process that migrated it ended before the checkpoint, and when
\* other connections kept that checkpoint from running.
OpenIsErased == \A c \in Conns : pc[c] \notin Opening => ~remains

\* No row refers to what is gone: the active provider is stored and enabled
\* whatever other connections disable or delete while it is being selected,
\* usage has its history entry, and exactly the stored glossaries have terms;
\* every table stays within its limit.
ReferencesResolve ==
  /\ TypeOK
  /\ db.active # None => db.active \in Stored(db) /\ db.profiles[db.active].enabled
  /\ db.usage \subseteq Entries(db.history)
  /\ \A l \in Libraries : db.terms[l] # None <=> l \in db.glossary
=============================================================================
