-------------------------- MODULE LocalStoreProofs --------------------------
(***************************************************************************)
(* Theorems about the local database, for any number of connections, rows  *)
(* and areas in use, any limits and any schema version found on opening.   *)
(***************************************************************************)
EXTENDS LocalStore, FiniteSetTheorems, TLAPS

LEMMA Constants ==
  /\ Keys \subseteq Nat \ {0} /\ MaxTime \in Nat \ {0}
  /\ MAX_ENTRIES \in Nat \ {0} /\ MAX_LIBRARIES \in Nat \ {0}
  /\ LATEST_SCHEMA_VERSION \in Nat
  /\ None \notin Profiles \cup Models \cup Libraries \cup Contents
  BY StoreAssumption DEF StoreAssumption

-----------------------------------------------------------------------------
(* Trimming a table of entries.                                            *)

Newer(table, k) == {x \in Entries(table) : NewerThan(table, x, k)}

Times == [Keys -> 0..MaxTime]

\* Of two entries the older one has more entries before it.
LEMMA OlderHasMore ==
  ASSUME NEW table \in Times, IsFiniteSet(Entries(table)),
         NEW a \in Entries(table), NEW b \in Entries(table), NewerThan(table, a, b)
  PROVE  Cardinality(Newer(table, a)) # Cardinality(Newer(table, b))
<1>1. \A k \in Keys : table[k] \in Nat /\ k \in Nat
  BY Constants DEF Times
<1>2. Newer(table, a) \subseteq Newer(table, b)
  BY <1>1 DEF Newer, NewerThan, Entries
<1>3. a \in Newer(table, b) /\ a \notin Newer(table, a)
  BY <1>1 DEF Newer, NewerThan, Entries
<1>4. IsFiniteSet(Newer(table, b))
  BY FS_Subset DEF Newer
<1>5. QED
  BY <1>2, <1>3, <1>4, FS_Subset

\* A trimmed table has some of the entries, at most MAX_ENTRIES.
LEMMA TrimmedTable ==
  ASSUME NEW table \in Times, IsFiniteSet(Entries(table))
  PROVE  /\ Trimmed(table) \in Times
         /\ IsFiniteSet(Entries(Trimmed(table)))
         /\ Cardinality(Entries(Trimmed(table))) <= MAX_ENTRIES
<1> DEFINE S == Entries(Trimmed(table))
           T == 0..(MAX_ENTRIES - 1)
           f == [k \in S |-> Cardinality(Newer(table, k))]
<1>1. Trimmed(table) = [k \in Keys |-> IF Cardinality(Newer(table, k)) < MAX_ENTRIES
                                         THEN table[k] ELSE 0]
  BY Zenon DEF Trimmed, Newer
<1>2. \A k \in Keys : Trimmed(table)[k] \in {table[k], 0} /\ table[k] \in 0..MaxTime
  BY <1>1 DEF Times
<1>3. Trimmed(table) \in Times
  BY <1>1, Constants DEF Times
<1>4. \A k \in S : k \in Entries(table) /\ Cardinality(Newer(table, k)) < MAX_ENTRIES
  BY <1>1 DEF Entries
<1>5. \A k \in S : Cardinality(Newer(table, k)) \in T
  <2>1. TAKE k \in S
  <2>2. IsFiniteSet(Newer(table, k))
    BY FS_Subset DEF Newer
  <2>3. Cardinality(Newer(table, k)) \in Nat
    BY <2>2, FS_CardinalityType
  <2>4. QED
    BY <1>4, <2>3, Constants
<1>6. \A a, b \in S : f[a] = f[b] => a = b
  <2>1. SUFFICES ASSUME NEW a \in S, NEW b \in S, a # b PROVE f[a] # f[b]
    OBVIOUS
  <2>2. a \in Entries(table) /\ b \in Entries(table)
    BY <1>4
  <2>3. NewerThan(table, a, b) \/ NewerThan(table, b, a)
    BY <2>1, <2>2, Constants DEF NewerThan, Entries, Times
  <2>4. QED
    BY <2>2, <2>3, OlderHasMore
<1>7. f \in Injection(S, T)
  BY <1>5, <1>6 DEF Injection, IsInjective
<1>8. IsFiniteSet(T) /\ Cardinality(T) = MAX_ENTRIES
  BY Constants, FS_Interval
<1> HIDE DEF S, T, f
<1>9. IsFiniteSet(S) /\ Cardinality(S) <= MAX_ENTRIES
  BY <1>7, <1>8, FS_Injection
<1>10. QED
  BY <1>3, <1>9 DEF S

-----------------------------------------------------------------------------
(***************************************************************************)
(* The inductive invariant.  Of the tables: their types, their limits with *)
(* finitely many rows, and the references between them.  Of a connection:  *)
(* what the first part of its call has read still holds as long as its     *)
(* snapshot is current, and a model that was registered stays so.          *)
(***************************************************************************)
Limited(rows, limit) == IsFiniteSet(rows) /\ Cardinality(rows) <= limit

Usable(row) == row # NoRow /\ row.enabled

Selectable(t, p) == Usable(t.profiles[p])

Limits(t) ==
  /\ Limited(Entries(t.history), MAX_ENTRIES) /\ Limited(Entries(t.memory), MAX_ENTRIES)
  /\ Limited(t.routing, MAX_LIBRARIES) /\ Limited(t.glossary, MAX_LIBRARIES)

References(t) ==
  /\ t.active # None => Selectable(t, t.active)
  /\ t.usage \subseteq Entries(t.history)
  /\ t.model # None => t.model \in t.manual
  /\ \A l \in Libraries : t.terms[l] # None <=> l \in t.glossary

Sound(t) == t \in Tables /\ Limits(t) /\ References(t)

Args ==
  {None} \cup Profiles \cup Models \cup Libraries \cup (Keys \X BOOLEAN) \cup (Libraries \X Contents)

ConnInv(c) ==
  /\ pc[c] = "set_active_provider" => arg[c] \in Profiles /\ (c \notin stale => Selectable(db, arg[c]))
  /\ pc[c] = "set_active_model" => arg[c] \in Models /\ arg[c] \in db.manual
  /\ pc[c] \in {"record_history", "record_memory"} => arg[c] \in Keys \X BOOLEAN
  /\ pc[c] = "save_routing_profile" =>
       arg[c] \in Libraries /\ (c \notin stale => HasPlace(db.routing, arg[c]))
  /\ pc[c] = "save_glossary" =>
       arg[c] \in Libraries \X Contents /\ (c \notin stale => HasPlace(db.glossary, arg[c][1]))

Types ==
  /\ remains \in BOOLEAN /\ clock \in 1..MaxTime /\ used \subseteq Areas
  /\ stale \subseteq Conns
  /\ pc \in [Conns -> Opening \cup {"idle"} \cup Calls]
  /\ arg \in [Conns -> Args]

StoreInv == Types /\ Sound(db) /\ OpenIsErased /\ \A c \in Conns : ConnInv(c)

LEMMA NoRows == Limited({}, MAX_ENTRIES) /\ Limited({}, MAX_LIBRARIES)
  BY FS_EmptySet, Constants DEF Limited

LEMMA StoreInit == Init => StoreInv
<1> SUFFICES ASSUME Init PROVE StoreInv
  OBVIOUS
<1>1. PICK version \in Versions, legacy \in SUBSET Profiles :
        /\ db = [version |-> version, active |-> None,
                 profiles |-> [p \in Profiles |-> IF p \in legacy THEN LegacyRow ELSE NoRow],
                 manual |-> {}, model |-> None,
                 policy |-> TRUE, history |-> [k \in Keys |-> 0], usage |-> {},
                 remember |-> TRUE, memory |-> [k \in Keys |-> 0],
                 routing |-> {}, glossary |-> {}, terms |-> [l \in Libraries |-> None]]
        /\ remains = (version < ERASING_VERSION /\ legacy # {})
  BY DEF Init
<1>2. /\ db.history = [k \in Keys |-> 0] /\ db.memory = [k \in Keys |-> 0]
      /\ db.routing = {} /\ db.glossary = {} /\ db.usage = {} /\ db.active = None /\ db.model = None
      /\ db.terms = [l \in Libraries |-> None]
  BY <1>1
<1>3. db \in Tables
  <2>1. LegacyRow \in Row /\ version \in 0..LATEST_SCHEMA_VERSION
    BY StoreAssumption DEF StoreAssumption, LegacyRow, Row, Health
  <2>2. [k \in Keys |-> 0] \in [Keys -> 0..MaxTime]
    BY Constants
  <2>3. [p \in Profiles |-> IF p \in legacy THEN LegacyRow ELSE NoRow] \in [Profiles -> Row \cup {NoRow}]
    BY <2>1
  <2>4. [l \in Libraries |-> None] \in [Libraries -> Contents \cup {None}]
    OBVIOUS
  <2>5. QED
    BY <1>1, <2>1, <2>2, <2>3, <2>4 DEF Tables
<1>4. Entries(db.history) = {} /\ Entries(db.memory) = {}
  BY <1>2 DEF Entries
<1>5. Limits(db) /\ References(db)
  BY <1>2, <1>4, NoRows DEF Limits, References
<1>6. Types
  BY StoreAssumption, Constants DEF Init, Types, StoreAssumption, Opening, Args
<1>7. OpenIsErased /\ \A c \in Conns : ConnInv(c)
  BY DEF Init, OpenIsErased, Opening, ConnInv
<1>8. QED
  BY <1>3, <1>5, <1>6, <1>7 DEF StoreInv, Sound

\* A connection that does not take part in a step: a commit outdates what it
\* has read, and no commit takes a registered model away.
LEMMA OtherConn ==
  ASSUME StoreInv, NEW d \in Conns, pc'[d] = pc[d], arg'[d] = arg[d],
         \/ UNCHANGED db /\ (d \in stale => d \in stale')
         \/ (d \in Readers => d \in stale') /\ db.manual \subseteq db'.manual
  PROVE  ConnInv(d)'
<1>1. CASE UNCHANGED db /\ (d \in stale => d \in stale')
  BY <1>1 DEF StoreInv, ConnInv
<1>2. CASE (d \in Readers => d \in stale') /\ db.manual \subseteq db'.manual
  BY <1>2 DEF StoreInv, ConnInv, Readers
<1>3. QED
  BY <1>1, <1>2

\* A step that commits nothing.
LEMMA LocalStep ==
  ASSUME StoreInv, NEW c \in Conns, UNCHANGED <<db, clock, used>>,
         stale' \in {stale, stale \ {c}}, remains' \in {remains, FALSE},
         NEW label \in Opening \cup {"idle"} \cup Calls, NEW a \in Args,
         pc' = [pc EXCEPT ![c] = label], arg' = [arg EXCEPT ![c] = a],
         label \in Opening \/ pc[c] \notin Opening \/ remains' = FALSE,
         ConnInv(c)'
  PROVE  StoreInv'
<1>1. Types'
  BY DEF StoreInv, Types
<1>2. pc'[c] = label /\ \A d \in Conns \ {c} : pc'[d] = pc[d] /\ arg'[d] = arg[d]
  BY DEF StoreInv, Types
<1>3. OpenIsErased'
  BY <1>2 DEF StoreInv, OpenIsErased
<1>4. \A d \in Conns \ {c} : d \in stale => d \in stale'
  OBVIOUS
<1>5. \A d \in Conns : ConnInv(d)'
  BY <1>2, <1>4, OtherConn
<1>6. Sound(db)'
  BY DEF StoreInv, Sound, Limits, References, Selectable, Entries
<1>7. QED
  BY <1>1, <1>3, <1>5, <1>6 DEF StoreInv

LEMMA RestConn ==
  ASSUME NEW c \in Conns, pc'[c] \in Opening \cup {"idle"}
  PROVE  ConnInv(c)'
  BY DEF ConnInv, Opening

\* A step that commits sound tables.
LEMMA CommitStep ==
  ASSUME StoreInv, NEW c \in Conns, NEW t, Sound(t), db.manual \subseteq t.manual, Commit(c, t),
         UNCHANGED <<remains, clock, used>>,
         NEW label \in Opening \cup {"idle"}, NEW a \in Args,
         pc' = [pc EXCEPT ![c] = label], arg' = [arg EXCEPT ![c] = a],
         label \in Opening \/ pc[c] \notin Opening
  PROVE  StoreInv'
<1>1. db' = t /\ stale' = (stale \cup Readers) \ {c}
  BY DEF Commit
<1>2. Types'
  BY <1>1 DEF StoreInv, Types, Readers
<1>3. pc'[c] = label /\ \A d \in Conns \ {c} : pc'[d] = pc[d] /\ arg'[d] = arg[d]
  BY DEF StoreInv, Types
<1>4. OpenIsErased'
  BY <1>3 DEF StoreInv, OpenIsErased
<1>5. \A d \in Conns \ {c} : ConnInv(d)'
  BY <1>1, <1>3, OtherConn
<1>6. ConnInv(c)'
  BY <1>3, RestConn
<1>7. Sound(db)'
  BY <1>1 DEF Sound, Limits, References, Selectable, Entries
<1>8. QED
  BY <1>2, <1>4, <1>5, <1>6, <1>7 DEF StoreInv

\* A call of one statement.
LEMMA StatementStep ==
  ASSUME StoreInv, NEW c \in Conns, NEW area, NEW t, Statement(c, area, t),
         Sound(t), db.manual \subseteq t.manual
  PROVE  StoreInv'
<1>1. pc[c] = "idle" /\ Commit(c, t) /\ UNCHANGED <<remains, clock, used, pc, arg>>
  BY DEF Statement
<1>2. pc' = [pc EXCEPT ![c] = "idle"] /\ arg' = [arg EXCEPT ![c] = arg[c]] /\ arg[c] \in Args
  BY <1>1 DEF StoreInv, Types
<1>3. /\ "idle" \in Opening \cup {"idle"} /\ pc[c] \notin Opening
      /\ UNCHANGED <<remains, clock, used>>
  BY <1>1 DEF Opening
<1>4. QED
  BY <1>1, <1>2, <1>3, CommitStep

\* The second part of a call, from what it writes on a current snapshot.
LEMMA FinishStep ==
  ASSUME StoreInv, NEW c \in Conns, NEW call \in Calls, NEW t, Finish(c, call, t),
         c \notin stale => Sound(t) /\ db.manual \subseteq t.manual
  PROVE  StoreInv'
<1>1. /\ pc[c] = call /\ UNCHANGED <<remains, clock, used>>
      /\ pc' = [pc EXCEPT ![c] = "idle"] /\ arg' = [arg EXCEPT ![c] = None]
  BY DEF Finish, Return
<1>2. "idle" \in Opening \cup {"idle"} /\ call \notin Opening /\ None \in Args
  BY DEF Opening, Calls, Args
<1>3. CASE UNCHANGED db /\ stale' = stale \ {c}
  <2>1. pc'[c] = "idle"
    BY <1>1 DEF StoreInv, Types
  <2>2. ConnInv(c)'
    BY <2>1, RestConn
  <2>3. QED
    BY <1>1, <1>2, <1>3, <2>2, LocalStep
<1>4. CASE c \notin stale /\ Commit(c, t)
  BY <1>1, <1>2, <1>4, CommitStep
<1>5. QED
  BY <1>3, <1>4 DEF Finish

-----------------------------------------------------------------------------
(* What the calls write.                                                   *)

LEMMA Fields ==
  ASSUME StoreInv
  PROVE  /\ db \in Tables /\ Limits(db) /\ References(db)
         /\ db.profiles \in [Profiles -> Row \cup {NoRow}] /\ db.active \in Profiles \cup {None}
         /\ db.history \in Times /\ db.memory \in Times /\ db.usage \subseteq Keys
  BY DEF StoreInv, Sound, Tables, Times

WithProfile(p, row, active) == [db EXCEPT !.profiles[p] = row, !.active = active]

\* Tables that differ in the profiles and the selection only.
LEMMA ProfileTables ==
  ASSUME StoreInv, NEW p \in Profiles, NEW row \in Row \cup {NoRow}, NEW active \in Profiles \cup {None},
         NEW t, t = WithProfile(p, row, active),
         active = p => Usable(row),
         active # p => active \in {db.active, None}
  PROVE  Sound(t) /\ db.manual \subseteq t.manual
<1>1. /\ t \in Tables /\ t.active = active /\ t.profiles[p] = row
      /\ \A q \in Profiles \ {p} : t.profiles[q] = db.profiles[q]
      /\ t.history = db.history /\ t.memory = db.memory /\ t.usage = db.usage
      /\ t.routing = db.routing /\ t.glossary = db.glossary /\ t.terms = db.terms
      /\ t.manual = db.manual /\ t.model = db.model
  BY Fields DEF Tables, WithProfile
<1>2. active # None => Selectable(t, active)
  <2>1. CASE active = p
    BY <1>1, <2>1 DEF Selectable
  <2>2. CASE active # p /\ active # None
    <3>1. active = db.active /\ Selectable(db, active)
      BY <2>2, Fields DEF References
    <3>2. QED
      BY <1>1, <2>2, <3>1 DEF Selectable
  <2>3. QED
    BY <2>1, <2>2
<1>3. QED
  BY <1>1, <1>2, Fields DEF Sound, Limits, References

LEMMA UpsertRow ==
  ASSUME StoreInv, NEW p \in Profiles, NEW row \in Row
  PROVE  \E new \in Row : /\ new # NoRow /\ new.enabled = row.enabled
                          /\ upsert_profile(db, p, row) = [db EXCEPT !.profiles[p] = new]
<1>1. \A r \in Row : r # NoRow
  BY DEF Row, NoRow, Health
<1>2. CASE p \in Stored(db)
  <2>1. db.profiles[p] \in Row
    BY <1>2, Fields DEF Stored
  <2> DEFINE new == [row EXCEPT !.health = db.profiles[p].health]
  <2>2. new \in Row /\ new.enabled = row.enabled
    BY <2>1 DEF Row
  <2>3. upsert_profile(db, p, row) = [db EXCEPT !.profiles[p] = new]
    BY <1>2 DEF upsert_profile
  <2>4. QED
    BY <1>1, <2>2, <2>3, Zenon
<1>3. CASE p \notin Stored(db)
  BY <1>1, <1>3 DEF upsert_profile
<1>4. QED
  BY <1>2, <1>3

LEMMA ProfileCallStep ==
  ASSUME StoreInv, NEW c \in Conns, ProfileCall(c)
  PROVE  StoreInv'
<1>1. PICK p \in Profiles :
        \/ \E row \in Row : upsert_provider_profile(c, p, row) \/ save_and_activate_provider(c, p, row)
        \/ \E health \in {"ok", "failed"} : record_provider_health(c, p, health)
        \/ set_active_provider(c, p) \/ delete_provider_profile(c, p)
  BY DEF ProfileCall
<1>2. ASSUME NEW row \in Row, upsert_provider_profile(c, p, row) PROVE StoreInv'
  <2>1. PICK new \in Row : /\ new # NoRow /\ new.enabled = row.enabled
                           /\ upsert_profile(db, p, row) = [db EXCEPT !.profiles[p] = new]
    BY UpsertRow
  <2> DEFINE active == IF ~row.enabled /\ db.active = p THEN None ELSE db.active
             u == upsert_profile(db, p, row)
             t == [u EXCEPT !.active = IF ~row.enabled /\ @ = p THEN None ELSE @]
  <2>2. t = WithProfile(p, new, active)
    BY <2>1, Fields DEF Tables, WithProfile
  <2>3. active \in Profiles \cup {None} /\ (active = p => new.enabled) /\ active \in {db.active, None}
    BY <2>1, Fields, Constants
  <2>4. Statement(c, "profiles", t)
    BY <1>2 DEF upsert_provider_profile
  <2> HIDE DEF t, active
  <2>5. Sound(t) /\ db.manual \subseteq t.manual
    <3>1. new \in Row \cup {NoRow} /\ (active = p => Usable(new))
      BY <2>1, <2>3 DEF Usable
    <3>2. active \in Profiles \cup {None} /\ active \in {db.active, None}
      BY <2>3
    <3>3. active # p => active \in {db.active, None}
      BY <3>2
    <3>4. QED
      BY <2>2, <3>1, <3>2, <3>3, ProfileTables
  <2>6. QED
    BY <2>4, <2>5, StatementStep
<1>3. ASSUME NEW row \in Row, save_and_activate_provider(c, p, row) PROVE StoreInv'
  <2>1. PICK new \in Row : /\ new # NoRow /\ new.enabled = row.enabled
                           /\ upsert_profile(db, p, row) = [db EXCEPT !.profiles[p] = new]
    BY UpsertRow
  <2> DEFINE u == upsert_profile(db, p, row)
             t == [u EXCEPT !.active = p]
  <2>2. t = WithProfile(p, new, p)
    BY <2>1, Fields DEF Tables, WithProfile
  <2>3. row.enabled /\ Statement(c, "profiles", t)
    BY <1>3 DEF save_and_activate_provider
  <2> HIDE DEF t
  <2>4. Sound(t) /\ db.manual \subseteq t.manual
    BY <2>1, <2>2, <2>3, ProfileTables DEF Usable
  <2>5. QED
    BY <2>3, <2>4, StatementStep
<1>4. ASSUME NEW health \in {"ok", "failed"}, record_provider_health(c, p, health) PROVE StoreInv'
  <2> DEFINE new == [db.profiles[p] EXCEPT !.health = health]
             t == [db EXCEPT !.profiles[p].health = health]
  <2>1. p \in Stored(db) /\ Statement(c, "profiles", t)
    BY <1>4 DEF record_provider_health
  <2>2. db.profiles[p] \in Row
    BY <2>1, Fields DEF Stored
  <2>3. new \in Row /\ new # NoRow /\ new.enabled = db.profiles[p].enabled
    BY <2>2 DEF Row, Health, NoRow
  <2>4. t = WithProfile(p, new, db.active)
    BY Fields DEF Tables, WithProfile
  <2>5. db.active = p => db.profiles[p].enabled
    BY Fields, Constants DEF References, Selectable, Usable
  <2> HIDE DEF t, new
  <2>6. Sound(t) /\ db.manual \subseteq t.manual
    <3>1. new \in Row \cup {NoRow} /\ (db.active = p => Usable(new))
      BY <2>3, <2>5 DEF Usable
    <3>2. db.active \in Profiles \cup {None} /\ db.active \in {db.active, None}
      BY Fields
    <3>3. QED
      BY <2>4, <3>1, <3>2, ProfileTables
  <2>7. QED
    BY <2>1, <2>6, StatementStep
<1>5. CASE delete_provider_profile(c, p)
  <2> DEFINE active == IF db.active = p THEN None ELSE db.active
             t == [db EXCEPT !.profiles[p] = NoRow, !.active = IF @ = p THEN None ELSE @]
  <2>1. Statement(c, "profiles", t) /\ t = WithProfile(p, NoRow, active)
    BY <1>5, Fields DEF delete_provider_profile, Tables, WithProfile
  <2>2. active \in Profiles \cup {None} /\ active # p /\ active \in {db.active, None}
    BY Fields, Constants
  <2> HIDE DEF t, active
  <2>3. Sound(t) /\ db.manual \subseteq t.manual
    BY <2>1, <2>2, ProfileTables
  <2>4. QED
    BY <2>1, <2>3, StatementStep
<1>6. CASE set_active_provider(c, p)
  <2>1. /\ Selectable(db, p) /\ pc[c] = "idle" /\ UNCHANGED <<db, remains, clock, used, stale>>
        /\ pc' = [pc EXCEPT ![c] = "set_active_provider"] /\ arg' = [arg EXCEPT ![c] = p]
    BY <1>6 DEF set_active_provider, Begin, Selectable, Usable, Stored
  <2>2. pc'[c] = "set_active_provider" /\ arg'[c] = p
    BY <2>1 DEF StoreInv, Types
  <2>3. ConnInv(c)'
    BY <2>1, <2>2 DEF ConnInv, Selectable
  <2>4. "set_active_provider" \in Calls /\ p \in Args /\ pc[c] \notin Opening
    BY <2>1 DEF Calls, Args, Opening
  <2>5. QED
    BY <2>1, <2>3, <2>4, LocalStep
<1>7. QED
  BY <1>1, <1>2, <1>3, <1>4, <1>5, <1>6

WithEntries(h, u, m) == [db EXCEPT !.history = h, !.usage = u, !.memory = m]

\* Tables that differ in the entries only.
LEMMA EntryTables ==
  ASSUME StoreInv, NEW h \in Times, NEW m \in Times, NEW u \in SUBSET Entries(h),
         Limited(Entries(h), MAX_ENTRIES), Limited(Entries(m), MAX_ENTRIES),
         NEW t, t = WithEntries(h, u, m)
  PROVE  Sound(t) /\ db.manual \subseteq t.manual
<1>0. u \subseteq Keys
  BY DEF Entries
<1>1. /\ t \in Tables /\ t.history = h /\ t.usage = u /\ t.memory = m /\ t.routing = db.routing
      /\ t.profiles = db.profiles /\ t.active = db.active /\ t.manual = db.manual
      /\ t.model = db.model /\ t.glossary = db.glossary /\ t.terms = db.terms
  BY <1>0, Fields DEF Tables, Times, WithEntries
<1>2. t.active # None => Selectable(t, t.active)
  BY <1>1, Fields DEF References, Selectable
<1>3. QED
  BY <1>1, <1>2, Fields DEF Sound, References, Limits

\* A table that loses entries stays within its limit.
LEMMA FewerRows ==
  ASSUME NEW limit \in Nat, NEW rows, Limited(rows, limit), NEW fewer \in SUBSET rows
  PROVE  Limited(fewer, limit)
<1>1. IsFiniteSet(fewer) /\ Cardinality(fewer) <= Cardinality(rows) /\ Cardinality(rows) <= limit
  BY FS_Subset DEF Limited
<1>2. Cardinality(fewer) \in Nat /\ Cardinality(rows) \in Nat
  BY <1>1, FS_CardinalityType DEF Limited
<1>3. QED
  BY <1>1, <1>2 DEF Limited

\* A new or rewritten entry, and the deletion of what is too old.
LEMMA RecordedEntry ==
  ASSUME StoreInv, NEW table \in Times, IsFiniteSet(Entries(table)), NEW k \in Keys
  PROVE  LET new == Trimmed([table EXCEPT ![k] = clock])
         IN  new \in Times /\ Limited(Entries(new), MAX_ENTRIES)
<1> DEFINE u == [table EXCEPT ![k] = clock]
<1>1. u \in Times
  BY Constants DEF Times, StoreInv, Types
<1>2. Entries(u) \subseteq Entries(table) \cup {k}
  BY DEF Entries, Times
<1>3. IsFiniteSet(Entries(table) \cup {k})
  BY FS_AddElement
<1>4. IsFiniteSet(Entries(u))
  BY <1>2, <1>3, FS_Subset
<1> HIDE DEF u
<1>5. Trimmed(u) \in Times /\ Limited(Entries(Trimmed(u)), MAX_ENTRIES)
  BY <1>1, <1>4, TrimmedTable DEF Limited
<1>6. QED
  BY <1>5 DEF u

LEMMA EntryCallStep ==
  ASSUME StoreInv, NEW c \in Conns, EntryCall(c)
  PROVE  StoreInv'
<1>1. ASSUME NEW k \in Keys, NEW with_usage \in BOOLEAN, record_translation_history(c, k, with_usage)
      PROVE  StoreInv'
  <2>1. /\ pc[c] = "idle" /\ UNCHANGED <<db, remains, clock, used, stale>>
        /\ pc' = [pc EXCEPT ![c] = "record_history"] /\ arg' = [arg EXCEPT ![c] = <<k, with_usage>>]
    BY <1>1 DEF record_translation_history, Begin
  <2>2. pc'[c] = "record_history" /\ arg'[c] = <<k, with_usage>>
    BY <2>1 DEF StoreInv, Types
  <2>3. ConnInv(c)'
    BY <2>2 DEF ConnInv
  <2>4. "record_history" \in Calls /\ <<k, with_usage>> \in Args /\ pc[c] \notin Opening
    BY <2>1 DEF Calls, Args, Opening
  <2>5. QED
    BY <2>1, <2>3, <2>4, LocalStep
<1>2. ASSUME NEW k \in Keys, record_translation_memory(c, k) PROVE StoreInv'
  <2>1. /\ pc[c] = "idle" /\ UNCHANGED <<db, remains, clock, used, stale>>
        /\ pc' = [pc EXCEPT ![c] = "record_memory"] /\ arg' = [arg EXCEPT ![c] = <<k, FALSE>>]
    BY <1>2 DEF record_translation_memory, Begin
  <2>2. pc'[c] = "record_memory" /\ arg'[c] = <<k, FALSE>>
    BY <2>1 DEF StoreInv, Types
  <2>3. <<k, FALSE>> \in Keys \X BOOLEAN
    OBVIOUS
  <2>4. ConnInv(c)' /\ "record_memory" \in Calls /\ <<k, FALSE>> \in Args /\ pc[c] \notin Opening
    <3> DEFINE a == <<k, FALSE>>
    <3>1. arg'[c] = a /\ a \in Keys \X BOOLEAN
      BY <2>2, <2>3
    <3> HIDE DEF a
    <3>2. ConnInv(c)'
      BY <2>2, <3>1 DEF ConnInv
    <3>3. QED
      BY <2>1, <2>3, <3>2 DEF Calls, Args, Opening
  <2>5. QED
    BY <2>1, <2>3, <2>4, LocalStep
<1>3. ASSUME NEW k \in Keys, delete_translation_history_entry(c, k) PROVE StoreInv'
  <2> DEFINE h == [db.history EXCEPT ![k] = 0]
             t == [db EXCEPT !.history[k] = 0, !.usage = @ \ {k}]
  <2>1. Statement(c, "history", t)
    BY <1>3 DEF delete_translation_history_entry
  <2>2. t = WithEntries(h, db.usage \ {k}, db.memory)
    BY Fields DEF Tables, WithEntries
  <2>3. h \in Times /\ Entries(h) = Entries(db.history) \ {k}
    BY Fields, Constants DEF Entries, Times
  <2> HIDE DEF t, h
  <2>4. Limited(Entries(h), MAX_ENTRIES) /\ db.usage \ {k} \subseteq Entries(h)
    BY <2>3, FewerRows, Fields, Constants DEF Limits, References
  <2>5. QED
    BY <2>1, <2>2, <2>3, <2>4, EntryTables, Fields, StatementStep DEF Limits
<1>4. ASSUME NEW k \in Keys, delete_translation_memory_entry(c, k) PROVE StoreInv'
  <2> DEFINE m == [db.memory EXCEPT ![k] = 0]
             t == [db EXCEPT !.memory[k] = 0]
  <2>1. Statement(c, "memory", t)
    BY <1>4 DEF delete_translation_memory_entry
  <2>2. t = WithEntries(db.history, db.usage, m)
    BY Fields DEF Tables, WithEntries
  <2>3. m \in Times /\ Entries(m) = Entries(db.memory) \ {k}
    BY Fields, Constants DEF Entries, Times
  <2> HIDE DEF t, m
  <2>4. Limited(Entries(m), MAX_ENTRIES)
    BY <2>3, FewerRows, Fields, Constants DEF Limits
  <2>5. QED
    BY <2>1, <2>2, <2>3, <2>4, EntryTables, Fields, StatementStep DEF Limits, References
<1>5. CASE clear_translation_history(c)
  <2> DEFINE h == [k \in Keys |-> 0]
             t == [db EXCEPT !.history = h, !.usage = {}]
  <2>1. Statement(c, "history", t)
    BY <1>5 DEF clear_translation_history
  <2>2. t = WithEntries(h, {}, db.memory)
    BY Fields DEF Tables, WithEntries
  <2>3. h \in Times /\ Entries(h) = {}
    BY Constants DEF Entries, Times
  <2> HIDE DEF t, h
  <2>4. QED
    BY <2>1, <2>2, <2>3, NoRows, EntryTables, Fields, StatementStep, ZenonT(40) DEF Limits
<1>6. CASE clear_translation_memory(c)
  <2> DEFINE m == [k \in Keys |-> 0]
             t == [db EXCEPT !.memory = m]
  <2>1. Statement(c, "memory", t)
    BY <1>6 DEF clear_translation_memory
  <2>2. t = WithEntries(db.history, db.usage, m)
    BY Fields DEF Tables, WithEntries
  <2>3. m \in Times /\ Entries(m) = {}
    BY Constants DEF Entries, Times
  <2> HIDE DEF t, m
  <2>4. QED
    BY <2>1, <2>2, <2>3, NoRows, EntryTables, Fields, StatementStep DEF Limits, References
<1>7. ASSUME NEW enabled \in BOOLEAN,
             set_translation_history_enabled(c, enabled) \/ set_translation_memory_enabled(c, enabled)
      PROVE  StoreInv'
  <2>1. PICK t \in {[db EXCEPT !.policy = enabled], [db EXCEPT !.remember = enabled]} :
          Statement(c, "history", t) \/ Statement(c, "memory", t)
    BY <1>7 DEF set_translation_history_enabled, set_translation_memory_enabled
  <2>2. /\ t \in Tables /\ t.memory = db.memory /\ t.usage = db.usage
        /\ t.history = db.history /\ t.routing = db.routing
        /\ t.profiles = db.profiles /\ t.active = db.active /\ t.manual = db.manual
        /\ t.model = db.model /\ t.glossary = db.glossary /\ t.terms = db.terms
    BY <2>1, Fields DEF Tables
  <2>3. t.active # None => Selectable(t, t.active)
    BY <2>2, Fields DEF References, Selectable
  <2>4. Sound(t) /\ db.manual \subseteq t.manual
    BY <2>2, <2>3, Fields DEF Sound, Limits, References
  <2>5. QED
    BY <2>1, <2>4, StatementStep
<1>8. QED
  BY <1>1, <1>2, <1>3, <1>4, <1>5, <1>6, <1>7 DEF EntryCall

WithLibraries(manual, model, routing, glossary, terms) ==
  [db EXCEPT !.manual = manual, !.model = model, !.routing = routing, !.glossary = glossary,
             !.terms = terms]

\* Tables that differ in the models, routing profiles and glossaries only.
LEMMA LibraryTables ==
  ASSUME StoreInv, NEW manual \in SUBSET Models, db.manual \subseteq manual,
         NEW model \in Models \cup {None}, model # None => model \in manual,
         NEW routing \in SUBSET Libraries, Limited(routing, MAX_LIBRARIES),
         NEW glossary \in SUBSET Libraries, Limited(glossary, MAX_LIBRARIES),
         NEW terms \in [Libraries -> Contents \cup {None}],
         \A l \in Libraries : terms[l] # None <=> l \in glossary,
         NEW t, t = WithLibraries(manual, model, routing, glossary, terms)
  PROVE  Sound(t) /\ db.manual \subseteq t.manual
<1>1. /\ t \in Tables /\ t.history = db.history /\ t.usage = db.usage /\ t.memory = db.memory
      /\ t.profiles = db.profiles /\ t.active = db.active /\ t.manual = manual /\ t.model = model
      /\ t.routing = routing /\ t.glossary = glossary /\ t.terms = terms
  BY Fields DEF Tables, WithLibraries
<1>2. t.active # None => Selectable(t, t.active)
  BY <1>1, Fields DEF References, Selectable
<1>3. QED
  BY <1>1, <1>2, Fields DEF Sound, References, Limits

\* What the tables say of models and libraries.
LEMMA LibraryFields ==
  ASSUME StoreInv
  PROVE  /\ db.manual \in SUBSET Models /\ db.model \in Models \cup {None}
         /\ db.model # None => db.model \in db.manual
         /\ db.routing \in SUBSET Libraries /\ Limited(db.routing, MAX_LIBRARIES)
         /\ db.glossary \in SUBSET Libraries /\ Limited(db.glossary, MAX_LIBRARIES)
         /\ db.terms \in [Libraries -> Contents \cup {None}]
         /\ \A l \in Libraries : db.terms[l] # None <=> l \in db.glossary
  BY Fields DEF Tables, Limits, References

\* A library saved while there is a place stays within the limit.
LEMMA OneMoreLibrary ==
  ASSUME NEW table, Limited(table, MAX_LIBRARIES), NEW l, HasPlace(table, l)
  PROVE  Limited(table \cup {l}, MAX_LIBRARIES)
<1>1. IsFiniteSet(table) /\ Cardinality(table) \in Nat /\ Cardinality(table) <= MAX_LIBRARIES
  BY FS_CardinalityType DEF Limited
<1>2. /\ IsFiniteSet(table \cup {l})
      /\ l \in table => Cardinality(table \cup {l}) = Cardinality(table)
      /\ l \notin table => Cardinality(table \cup {l}) = Cardinality(table) + 1
  BY <1>1, FS_AddElement
<1>3. QED
  BY <1>1, <1>2, Constants DEF HasPlace, Limited

LEMMA LibraryCallStep ==
  ASSUME StoreInv, NEW c \in Conns, LibraryCall(c)
  PROVE  StoreInv'
<1>1. ASSUME NEW m \in Models, upsert_manual_model(c, m) PROVE StoreInv'
  <2> DEFINE t == [db EXCEPT !.manual = @ \cup {m}]
  <2>1. Statement(c, "models", t)
    BY <1>1 DEF upsert_manual_model
  <2>2. t = WithLibraries(db.manual \cup {m}, db.model, db.routing, db.glossary, db.terms)
    BY Fields DEF Tables, WithLibraries
  <2> HIDE DEF t
  <2>3. Sound(t) /\ db.manual \subseteq t.manual
    BY <2>2, LibraryTables, LibraryFields
  <2>4. QED
    BY <2>1, <2>3, StatementStep
<1>2. ASSUME NEW m \in Models, set_active_model(c, m) PROVE StoreInv'
  <2>1. /\ pc[c] = "idle" /\ m \in db.manual /\ UNCHANGED <<db, remains, clock, used, stale>>
        /\ pc' = [pc EXCEPT ![c] = "set_active_model"] /\ arg' = [arg EXCEPT ![c] = m]
    BY <1>2 DEF set_active_model, Begin
  <2>2. pc'[c] = "set_active_model" /\ arg'[c] = m
    BY <2>1 DEF StoreInv, Types
  <2>3. ConnInv(c)'
    BY <2>1, <2>2 DEF ConnInv
  <2>4. "set_active_model" \in Calls /\ m \in Args /\ pc[c] \notin Opening
    BY <2>1 DEF Calls, Args, Opening
  <2>5. QED
    BY <2>1, <2>3, <2>4, LocalStep
<1>3. ASSUME NEW l \in Libraries, save_routing_profile(c, l) PROVE StoreInv'
  <2>1. /\ pc[c] = "idle" /\ HasPlace(db.routing, l) /\ UNCHANGED <<db, remains, clock, used, stale>>
        /\ pc' = [pc EXCEPT ![c] = "save_routing_profile"] /\ arg' = [arg EXCEPT ![c] = l]
    BY <1>3 DEF save_routing_profile, Begin
  <2>2. pc'[c] = "save_routing_profile" /\ arg'[c] = l
    BY <2>1 DEF StoreInv, Types
  <2>3. ConnInv(c)'
    BY <2>1, <2>2 DEF ConnInv, HasPlace
  <2>4. "save_routing_profile" \in Calls /\ l \in Args /\ pc[c] \notin Opening
    BY <2>1 DEF Calls, Args, Opening
  <2>5. QED
    BY <2>1, <2>3, <2>4, LocalStep
<1>4. ASSUME NEW l \in Libraries, NEW content \in Contents, save_glossary(c, l, content) PROVE StoreInv'
  <2>1. /\ pc[c] = "idle" /\ HasPlace(db.glossary, l) /\ UNCHANGED <<db, remains, clock, used, stale>>
        /\ pc' = [pc EXCEPT ![c] = "save_glossary"] /\ arg' = [arg EXCEPT ![c] = <<l, content>>]
    BY <1>4 DEF save_glossary, Begin
  <2>2. pc'[c] = "save_glossary" /\ arg'[c] = <<l, content>>
    BY <2>1 DEF StoreInv, Types
  <2>3. <<l, content>> \in Libraries \X Contents /\ <<l, content>>[1] = l
    OBVIOUS
  <2>4. ConnInv(c)'
    BY <2>1, <2>2, <2>3 DEF ConnInv, HasPlace
  <2>5. "save_glossary" \in Calls /\ <<l, content>> \in Args /\ pc[c] \notin Opening
    BY <2>1, <2>3 DEF Calls, Args, Opening
  <2>6. QED
    BY <2>1, <2>4, <2>5, LocalStep
<1>5. ASSUME NEW l \in Libraries, delete_routing_profile(c, l) PROVE StoreInv'
  <2> DEFINE t == [db EXCEPT !.routing = @ \ {l}]
  <2>1. Statement(c, "routing", t)
    BY <1>5 DEF delete_routing_profile
  <2>2. t = WithLibraries(db.manual, db.model, db.routing \ {l}, db.glossary, db.terms)
    BY Fields DEF Tables, WithLibraries
  <2>3. Limited(db.routing \ {l}, MAX_LIBRARIES)
    BY FewerRows, LibraryFields, Constants
  <2> HIDE DEF t
  <2>4. Sound(t) /\ db.manual \subseteq t.manual
    BY <2>2, <2>3, LibraryTables, LibraryFields
  <2>5. QED
    BY <2>1, <2>4, StatementStep
<1>6. ASSUME NEW l \in Libraries, delete_glossary(c, l) PROVE StoreInv'
  <2> DEFINE terms == [db.terms EXCEPT ![l] = None]
             t == [db EXCEPT !.glossary = @ \ {l}, !.terms[l] = None]
  <2>1. Statement(c, "glossary", t)
    BY <1>6 DEF delete_glossary
  <2>2. t = WithLibraries(db.manual, db.model, db.routing, db.glossary \ {l}, terms)
    BY Fields DEF Tables, WithLibraries
  <2>3. Limited(db.glossary \ {l}, MAX_LIBRARIES)
    BY FewerRows, LibraryFields, Constants
  <2>4. /\ terms \in [Libraries -> Contents \cup {None}]
        /\ \A k \in Libraries : terms[k] # None <=> k \in db.glossary \ {l}
    BY LibraryFields
  <2> HIDE DEF t, terms
  <2>5. Sound(t) /\ db.manual \subseteq t.manual
    BY <2>2, <2>3, <2>4, LibraryTables, LibraryFields
  <2>6. QED
    BY <2>1, <2>5, StatementStep
<1>7. QED
  BY <1>1, <1>2, <1>3, <1>4, <1>5, <1>6 DEF LibraryCall

-----------------------------------------------------------------------------
(* The second parts of the calls.                                          *)

LEMMA ActiveProviderWrite ==
  ASSUME StoreInv, NEW c \in Conns, set_active_provider_write(c)
  PROVE  StoreInv'
<1> DEFINE p == arg[c]
           t == [db EXCEPT !.active = p]
<1>1. Finish(c, "set_active_provider", t) /\ pc[c] = "set_active_provider"
  BY DEF set_active_provider_write, Finish
<1>2. p \in Profiles /\ (c \notin stale => Selectable(db, p))
  BY <1>1 DEF StoreInv, ConnInv
<1>3. t = WithProfile(p, db.profiles[p], p) /\ db.profiles[p] \in Row \cup {NoRow}
  BY <1>2, Fields DEF Tables, WithProfile
<1> HIDE DEF t, p
<1>4. ASSUME c \notin stale PROVE Sound(t) /\ db.manual \subseteq t.manual
  BY <1>2, <1>3, <1>4, ProfileTables DEF Selectable
<1>5. QED
  BY <1>1, <1>4, FinishStep DEF Calls

LEMMA ActiveModelWrite ==
  ASSUME StoreInv, NEW c \in Conns, set_active_model_write(c)
  PROVE  StoreInv'
<1> DEFINE t == [db EXCEPT !.model = arg[c]]
<1>1. Finish(c, "set_active_model", t) /\ pc[c] = "set_active_model"
  BY DEF set_active_model_write, Finish
<1>2. arg[c] \in Models /\ arg[c] \in db.manual
  BY <1>1 DEF StoreInv, ConnInv
<1>3. t = WithLibraries(db.manual, arg[c], db.routing, db.glossary, db.terms)
  BY Fields DEF Tables, WithLibraries
<1> HIDE DEF t
<1>4. Sound(t) /\ db.manual \subseteq t.manual
  BY <1>2, <1>3, LibraryTables, LibraryFields
<1>5. QED
  BY <1>1, <1>4, FinishStep DEF Calls

LEMMA HistoryWrite ==
  ASSUME StoreInv, NEW c \in Conns, record_history_write(c)
  PROVE  StoreInv'
<1> DEFINE k     == arg[c][1]
           table == Trimmed([db.history EXCEPT ![k] = clock])
           usage == IF arg[c][2] THEN db.usage \cup {k} ELSE db.usage
           t     == [db EXCEPT !.history = table, !.usage = usage \cap Entries(table)]
<1>1. Finish(c, "record_history", t) /\ pc[c] = "record_history"
  BY DEF record_history_write, Finish
<1>2. k \in Keys
  BY <1>1 DEF StoreInv, ConnInv
<1>3. table \in Times /\ Limited(Entries(table), MAX_ENTRIES)
  BY <1>2, RecordedEntry, Fields DEF Limits, Limited
<1> HIDE DEF table, usage
<1>4. t = WithEntries(table, usage \cap Entries(table), db.memory)
  BY Fields DEF Tables, WithEntries
<1> HIDE DEF t
<1>5. Sound(t) /\ db.manual \subseteq t.manual
  BY <1>3, <1>4, EntryTables, Fields DEF Limits
<1>6. QED
  BY <1>1, <1>5, FinishStep DEF Calls

LEMMA MemoryWrite ==
  ASSUME StoreInv, NEW c \in Conns, record_memory_write(c)
  PROVE  StoreInv'
<1> DEFINE k     == arg[c][1]
           table == Trimmed([db.memory EXCEPT ![k] = clock])
           t     == [db EXCEPT !.memory = table]
<1>1. Finish(c, "record_memory", t) /\ pc[c] = "record_memory"
  BY DEF record_memory_write, Finish
<1>2. k \in Keys
  BY <1>1 DEF StoreInv, ConnInv
<1>3. table \in Times /\ Limited(Entries(table), MAX_ENTRIES)
  BY <1>2, RecordedEntry, Fields DEF Limits, Limited
<1> HIDE DEF table
<1>4. t = WithEntries(db.history, db.usage, table)
  BY Fields DEF Tables, WithEntries
<1> HIDE DEF t
<1>5. Sound(t) /\ db.manual \subseteq t.manual
  BY <1>3, <1>4, EntryTables, Fields DEF Limits, References
<1>6. QED
  BY <1>1, <1>5, FinishStep DEF Calls

LEMMA RoutingProfileWrite ==
  ASSUME StoreInv, NEW c \in Conns, save_routing_profile_write(c)
  PROVE  StoreInv'
<1> DEFINE l == arg[c]
           t == [db EXCEPT !.routing = @ \cup {l}]
<1>1. Finish(c, "save_routing_profile", t) /\ pc[c] = "save_routing_profile"
  BY DEF save_routing_profile_write, Finish
<1>2. l \in Libraries /\ (c \notin stale => HasPlace(db.routing, l))
  BY <1>1 DEF StoreInv, ConnInv
<1>3. t = WithLibraries(db.manual, db.model, db.routing \cup {l}, db.glossary, db.terms)
  BY Fields DEF Tables, WithLibraries
<1> HIDE DEF t, l
<1>4. ASSUME c \notin stale PROVE Sound(t) /\ db.manual \subseteq t.manual
  <2>1. Limited(db.routing \cup {l}, MAX_LIBRARIES) /\ db.routing \cup {l} \in SUBSET Libraries
    BY <1>2, <1>4, OneMoreLibrary, LibraryFields
  <2>2. QED
    BY <1>3, <2>1, LibraryTables, LibraryFields
<1>5. QED
  BY <1>1, <1>4, FinishStep DEF Calls

LEMMA GlossaryWrite ==
  ASSUME StoreInv, NEW c \in Conns, save_glossary_write(c)
  PROVE  StoreInv'
<1> DEFINE l == arg[c][1]
           content == arg[c][2]
           terms == [db.terms EXCEPT ![l] = content]
           t == [db EXCEPT !.glossary = @ \cup {l}, !.terms[l] = content]
<1>1. Finish(c, "save_glossary", t) /\ pc[c] = "save_glossary"
  BY DEF save_glossary_write, Finish
<1>2. l \in Libraries /\ content \in Contents /\ (c \notin stale => HasPlace(db.glossary, l))
  BY <1>1 DEF StoreInv, ConnInv
<1> HIDE DEF l, content
<1>3. t = WithLibraries(db.manual, db.model, db.routing, db.glossary \cup {l}, terms)
  BY Fields DEF Tables, WithLibraries
<1>4. /\ terms \in [Libraries -> Contents \cup {None}]
      /\ \A k \in Libraries : terms[k] # None <=> k \in db.glossary \cup {l}
  BY <1>2, LibraryFields, Constants
<1> HIDE DEF t, terms
<1>5. ASSUME c \notin stale PROVE Sound(t) /\ db.manual \subseteq t.manual
  <2>1. Limited(db.glossary \cup {l}, MAX_LIBRARIES) /\ db.glossary \cup {l} \in SUBSET Libraries
    BY <1>2, <1>5, OneMoreLibrary, LibraryFields
  <2>2. QED
    BY <1>3, <1>4, <2>1, LibraryTables, LibraryFields
<1>6. QED
  BY <1>1, <1>5, FinishStep DEF Calls

-----------------------------------------------------------------------------
(* Opening and closing.                                                    *)

LEMMA OpeningStep ==
  ASSUME StoreInv, NEW c \in Conns, UNCHANGED <<db, clock, used>>, stale' \in {stale, stale \ {c}},
         NEW label \in Opening \cup {"idle"}, Goto(c, label),
         \/ label \in Opening /\ UNCHANGED remains
         \/ remains' = FALSE
  PROVE  StoreInv'
<1>1. /\ pc' = [pc EXCEPT ![c] = label] /\ arg' = [arg EXCEPT ![c] = arg[c]] /\ arg[c] \in Args
      /\ pc'[c] = label
  BY DEF Goto, StoreInv, Types
<1>2. ConnInv(c)'
  BY <1>1, RestConn
<1>3. QED
  BY <1>1, <1>2, LocalStep

LEMMA MigrateStep ==
  ASSUME StoreInv, NEW c \in Conns, migrate(c)
  PROVE  StoreInv'
<1> DEFINE t == [db EXCEPT !.version = LATEST_SCHEMA_VERSION]
<1>1. pc[c] = "migrate" /\ UNCHANGED <<remains, clock, used>>
  BY DEF migrate
<1>2. "closed" \in Opening /\ "checkpoint" \in Opening
  BY DEF Opening
<1>3. CASE UNCHANGED db /\ stale' = stale \ {c} /\ (Goto(c, "closed") \/ Goto(c, "checkpoint"))
  BY <1>1, <1>2, <1>3, OpeningStep
<1>4. CASE Commit(c, t) /\ Goto(c, "checkpoint")
  <2>1. /\ t \in Tables /\ t.memory = db.memory /\ t.usage = db.usage
        /\ t.history = db.history /\ t.routing = db.routing
        /\ t.profiles = db.profiles /\ t.active = db.active /\ t.manual = db.manual
        /\ t.model = db.model /\ t.glossary = db.glossary /\ t.terms = db.terms
    BY Fields, Constants DEF Tables
  <2>2. t.active # None => Selectable(t, t.active)
    BY <2>1, Fields DEF References, Selectable
  <2>3. Sound(t) /\ db.manual \subseteq t.manual
    BY <2>1, <2>2, Fields DEF Sound, Limits, References
  <2> HIDE DEF t
  <2>4. /\ pc' = [pc EXCEPT ![c] = "checkpoint"] /\ arg' = [arg EXCEPT ![c] = arg[c]]
        /\ arg[c] \in Args
    BY <1>4 DEF Goto, StoreInv, Types
  <2>5. QED
    BY <1>1, <1>2, <1>4, <2>3, <2>4, CommitStep
<1>5. QED
  BY <1>3, <1>4 DEF migrate

LEMMA CheckpointStep ==
  ASSUME StoreInv, NEW c \in Conns, checkpoint_wal(c)
  PROVE  StoreInv'
<1>1. UNCHANGED <<db, clock, used>> /\ stale' = stale
  BY DEF checkpoint_wal
<1>2. \/ remains' = FALSE /\ Goto(c, "idle")
      \/ UNCHANGED remains /\ Goto(c, "closed")
  BY DEF checkpoint_wal
<1>3. "closed" \in Opening
  BY DEF Opening
<1>4. QED
  BY <1>1, <1>2, <1>3, OpeningStep

LEMMA CloseStep ==
  ASSUME StoreInv, NEW c \in Conns, close(c)
  PROVE  StoreInv'
<1>1. /\ UNCHANGED <<db, remains, clock, used>> /\ stale' = stale \ {c}
      /\ pc' = [pc EXCEPT ![c] = "closed"] /\ arg' = [arg EXCEPT ![c] = None]
  BY DEF close
<1>2. pc'[c] = "closed" /\ "closed" \in Opening /\ None \in Args
  BY <1>1 DEF StoreInv, Types, Opening, Args
<1>3. ConnInv(c)'
  BY <1>2, RestConn
<1>4. QED
  BY <1>1, <1>2, <1>3, LocalStep

LEMMA SameTables ==
  ASSUME StoreInv, clock' \in 1..MaxTime, UNCHANGED <<db, remains, used, stale, pc, arg>>
  PROVE  StoreInv'
<1>1. Types' /\ OpenIsErased'
  BY DEF StoreInv, Types, OpenIsErased
<1>2. Sound(db)'
  BY DEF StoreInv, Sound, Limits, References, Selectable, Entries
<1>3. \A c \in Conns : ConnInv(c)'
  BY OtherConn
<1>4. QED
  BY <1>1, <1>2, <1>3 DEF StoreInv

LEMMA StoreStep == StoreInv /\ [Next]_vars => StoreInv'
<1> SUFFICES ASSUME StoreInv, [Next]_vars PROVE StoreInv'
  OBVIOUS
<1>1. CASE tick \/ UNCHANGED vars
  BY <1>1, SameTables DEF tick, vars, StoreInv, Types
<1>2. ASSUME NEW c \in Conns, finish_open(c) PROVE StoreInv'
  BY <1>2, OpeningStep DEF finish_open, Opening
<1>3. ASSUME NEW c \in Conns, Write(c) PROVE StoreInv'
  BY <1>3, ActiveProviderWrite, ActiveModelWrite, HistoryWrite, MemoryWrite, RoutingProfileWrite,
     GlossaryWrite DEF Write
<1>4. QED
  BY <1>1, <1>2, <1>3, MigrateStep, CheckpointStep, CloseStep, ProfileCallStep, EntryCallStep,
     LibraryCallStep DEF Next

LEMMA StoreInvariant == Spec => []StoreInv
  BY StoreInit, StoreStep, PTL DEF Spec

-----------------------------------------------------------------------------
\* Whoever has the database open finds no legacy secret in its file, also
\* after a process that migrated and ended before its checkpoint.
THEOREM OpenDatabaseIsErased == Spec => []OpenIsErased
<1>1. StoreInv => OpenIsErased
  BY DEF StoreInv
<1>2. QED
  BY <1>1, StoreInvariant, PTL

\* No row ever refers to what is gone and no table exceeds its limit, however
\* the two parts of the calls of several connections interleave: the part
\* that writes fails on a snapshot that somebody has outdated.
THEOREM ReferencesAlwaysResolve == Spec => []ReferencesResolve
<1>1. StoreInv => ReferencesResolve
  <2> SUFFICES ASSUME StoreInv PROVE ReferencesResolve
    OBVIOUS
  <2>1. TypeOK
    BY DEF StoreInv, Types, Args, Sound, Limits, Limited, TypeOK
  <2>2. db.active # None => db.active \in Stored(db) /\ db.profiles[db.active].enabled
    BY Fields DEF References, Selectable, Usable, Stored
  <2>3. QED
    BY <2>1, <2>2, Fields DEF References, ReferencesResolve
<1>2. QED
  BY <1>1, StoreInvariant, PTL
=============================================================================
