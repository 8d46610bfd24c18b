------------------------ MODULE ProviderManagerProofs ------------------------
(***************************************************************************)
(* Theorems about the connection manager, for any number of attempts, any  *)
(* number of secrets per profile and any capacity of the secret channel.   *)
(***************************************************************************)
EXTENDS ProviderManager, TLAPS

(***************************************************************************)
(* The inductive invariant.  connect holds the manager exclusively, so one *)
(* attempt runs at a time; its secrets were granted one by one and it does *)
(* not build an adapter before it has all of them; the active session is   *)
(* the one of a successful attempt, is open, and stays what it was as long *)
(* as another attempt is running.                                          *)
(***************************************************************************)
OneRunning == \A c, d \in Attempts : pc[c] \in Running /\ pc[d] \in Running => c = d

WaitsForMissing == \A c \in Attempts : pc[c] = "wait" => stage[c] < refs[c]

AnswerIsGranted ==
  \A c \in Attempts : pc[c] = "wait" /\ answer[c] = "provided" => Request(c) \in granted

StagesGranted == \A c \in Attempts : \A k \in 1..stage[c] : <<c, k>> \in granted

AllSecrets == \A c \in Attempts : pc[c] \in {"build", "list", "ok"} => stage[c] = refs[c]

ActiveIsOpen == active # None => active \in open /\ pc[active] = "ok"

ActiveStays == \A c \in Attempts : pc[c] \in Running => active = before[c]

ListIsOpen == \A c \in Attempts : pc[c] = "list" => c \in open

OpenSessions == \A c \in open : c = active \/ pc[c] = "list"

ManagerInv ==
  /\ TypeOK /\ OneRunning /\ WaitsForMissing /\ AnswerIsGranted /\ StagesGranted
  /\ AllSecrets /\ ActiveIsOpen /\ ActiveStays /\ ListIsOpen /\ OpenSessions

LEMMA ManagerInit == Init => ManagerInv
<1> SUFFICES ASSUME Init PROVE ManagerInv
  OBVIOUS
<1>1. TypeOK
  BY ManagerAssumption DEF ManagerAssumption, Init, TypeOK, Running
<1>2. QED
  BY <1>1 DEF Init, ManagerInv, OneRunning, WaitsForMissing, AnswerIsGranted, StagesGranted,
     AllSecrets, ActiveIsOpen, ActiveStays, ListIsOpen, OpenSessions, Running

LEMMA ConnectStep ==
  ASSUME ManagerInv, NEW c \in Attempts, connect(c)
  PROVE  ManagerInv'
<1> USE ManagerAssumption DEF ManagerAssumption, ManagerInv, TypeOK, connect, Goto, Idle,
        Running, profileVars, brokerVars, sessionVars
<1>1. PICK label \in {"next", "invalid_configuration"} : Goto(c, label)
  BY DEF connect
<1>2. TypeOK'
  BY <1>1 DEF Failures
<1>3. OneRunning' /\ WaitsForMissing' /\ AllSecrets' /\ ActiveStays'
  BY <1>1 DEF OneRunning, WaitsForMissing, AllSecrets, ActiveStays
<1>4. AnswerIsGranted' /\ StagesGranted' /\ ActiveIsOpen' /\ ListIsOpen' /\ OpenSessions'
  BY <1>1 DEF AnswerIsGranted, StagesGranted, ActiveIsOpen, ListIsOpen, OpenSessions, Request
<1>5. QED
  BY <1>2, <1>3, <1>4

\* One more request in the channel.
LEMMA AppendRequest ==
  ASSUME NEW S, NEW s \in Seq(S), NEW e \in S, NEW n \in Nat, Len(s) < n
  PROVE  Append(s, e) \in Seq(S) /\ Len(Append(s, e)) <= n
  OBVIOUS

LEMMA SendStep ==
  ASSUME ManagerInv, NEW c \in Attempts, resolve_send(c)
  PROVE  ManagerInv'
<1> USE ManagerAssumption DEF ManagerAssumption, ManagerInv, TypeOK, resolve_send,
        Running, profileVars, sessionVars
<1>1. Request(c) \in Leases
  BY DEF Request, Leases
<1>2. PICK label \in {"cancelled", "secret_unavailable", "wait"} : Goto(c, label)
  BY Zenon
<1>3. channel' \in Seq(Leases) /\ Len(channel') <= Capacity
  <2>1. channel' = channel \/ (Len(channel) < Capacity /\ channel' = Append(channel, Request(c)))
    BY Zenon
  <2>2. channel \in Seq(Leases) /\ Len(channel) <= Capacity /\ Capacity \in Nat
    OBVIOUS
  <2>3. QED
    BY ONLY <1>1, <2>1, <2>2, AppendRequest
<1>4. TypeOK'
  BY <1>2, <1>3 DEF Failures, Goto
<1>5. OneRunning' /\ WaitsForMissing' /\ AllSecrets' /\ ActiveStays'
  BY <1>2 DEF OneRunning, WaitsForMissing, AllSecrets, ActiveStays, Goto
<1>6. AnswerIsGranted' /\ StagesGranted' /\ ActiveIsOpen' /\ ListIsOpen' /\ OpenSessions'
  BY <1>2 DEF AnswerIsGranted, StagesGranted, ActiveIsOpen, ListIsOpen, OpenSessions, Request, Goto
<1>7. QED
  BY <1>4, <1>5, <1>6

LEMMA ReceiveStep ==
  ASSUME ManagerInv, NEW c \in Attempts, resolve_receive(c)
  PROVE  ManagerInv'
<1> USE ManagerAssumption DEF ManagerAssumption, ManagerInv, TypeOK,
        Running, profileVars, brokerVars, sessionVars, Goto
<1>1. CASE answer[c] = "provided" /\ Goto(c, "next") /\ stage' = [stage EXCEPT ![c] = @ + 1]
  <2>1. stage[c] < refs[c] /\ <<c, stage[c] + 1>> \in granted
    BY <1>1 DEF WaitsForMissing, AnswerIsGranted, Request, resolve_receive
  <2>2. TypeOK'
    BY <1>1, <2>1 DEF Failures, resolve_receive
  <2>3. OneRunning' /\ WaitsForMissing' /\ AllSecrets' /\ ActiveStays'
    BY <1>1 DEF OneRunning, WaitsForMissing, AllSecrets, ActiveStays, resolve_receive
  <2>4. AnswerIsGranted' /\ StagesGranted' /\ ActiveIsOpen' /\ ListIsOpen' /\ OpenSessions'
    BY <1>1, <2>1 DEF AnswerIsGranted, StagesGranted, ActiveIsOpen, ListIsOpen, OpenSessions, Request,
       resolve_receive
  <2>5. QED
    BY <2>2, <2>3, <2>4
<1>2. CASE UNCHANGED stage /\ \E label \in Failures : Goto(c, label)
  <2>1. PICK label \in Failures : Goto(c, label)
    BY <1>2
  <2>2. TypeOK'
    BY <1>2, <2>1 DEF resolve_receive
  <2>3. OneRunning' /\ WaitsForMissing' /\ AllSecrets' /\ ActiveStays'
    BY <1>2, <2>1 DEF OneRunning, WaitsForMissing, AllSecrets, ActiveStays, resolve_receive, Failures
  <2>4. AnswerIsGranted' /\ StagesGranted' /\ ActiveIsOpen' /\ ListIsOpen' /\ OpenSessions'
    BY <1>2, <2>1 DEF AnswerIsGranted, StagesGranted, ActiveIsOpen, ListIsOpen, OpenSessions, Request,
       resolve_receive, Failures
  <2>5. QED
    BY <2>2, <2>3, <2>4
<1>3. QED
  BY <1>1, <1>2, Zenon DEF resolve_receive, Failures

LEMMA BuildStep ==
  ASSUME ManagerInv, NEW c \in Attempts, secrets_resolved(c) \/ build_provider(c)
  PROVE  ManagerInv'
<1> USE ManagerAssumption DEF ManagerAssumption, ManagerInv, TypeOK,
        Running, profileVars, brokerVars, sessionVars, Goto
<1>1. CASE secrets_resolved(c)
  <2>1. PICK label \in {"cancelled", "build"} : Goto(c, label)
    BY <1>1, Zenon DEF secrets_resolved
  <2>2. TypeOK'
    BY <1>1, <2>1 DEF secrets_resolved, Failures
  <2>3. OneRunning' /\ WaitsForMissing' /\ AllSecrets' /\ ActiveStays'
    BY <1>1, <2>1 DEF secrets_resolved, OneRunning, WaitsForMissing, AllSecrets, ActiveStays
  <2>4. AnswerIsGranted' /\ StagesGranted' /\ ActiveIsOpen' /\ ListIsOpen' /\ OpenSessions'
    BY <1>1, <2>1 DEF secrets_resolved, AnswerIsGranted, StagesGranted, ActiveIsOpen,
       ListIsOpen, OpenSessions, Request
  <2>5. QED
    BY <2>2, <2>3, <2>4
<1>2. CASE build_provider(c)
  <2>1. \/ Goto(c, "list") /\ open' = open \cup {c}
        \/ Goto(c, "invalid_configuration") /\ UNCHANGED open
    BY <1>2 DEF build_provider
  <2>2. TypeOK'
    BY <1>2, <2>1 DEF build_provider, Failures
  <2>3. OneRunning' /\ WaitsForMissing' /\ AllSecrets' /\ ActiveStays'
    BY <1>2, <2>1, ZenonT(40) DEF build_provider, OneRunning, WaitsForMissing, AllSecrets, ActiveStays
  <2>4. AnswerIsGranted' /\ StagesGranted' /\ ActiveIsOpen' /\ ListIsOpen' /\ OpenSessions'
    BY <1>2, <2>1 DEF build_provider, AnswerIsGranted, StagesGranted, ActiveIsOpen,
       ListIsOpen, OpenSessions, Request
  <2>5. QED
    BY <2>2, <2>3, <2>4
<1>3. QED
  BY <1>1, <1>2

LEMMA ListStep ==
  ASSUME ManagerInv, NEW c \in Attempts, list_models_fails(c) \/ list_models(c) \/ drop_connect(c)
  PROVE  ManagerInv'
<1> USE ManagerAssumption DEF ManagerAssumption, ManagerInv, TypeOK,
        Running, profileVars, brokerVars, sessionVars, Goto
<1>1. CASE list_models_fails(c) \/ drop_connect(c)
  <2>1. PICK label \in {"cancelled", "list_failed", "model_unavailable", "dropped"} : Goto(c, label)
    BY <1>1, Zenon DEF list_models_fails, drop_connect
  <2>2. /\ pc[c] \in Running /\ open' = open \ {c} /\ active' = active
        /\ UNCHANGED <<refs, manual, stage, cancelled, channel, held, answer, listening,
                       granted, before>>
    BY <1>1 DEF list_models_fails, drop_connect
  <2>3. TypeOK'
    BY <2>1, <2>2 DEF Failures
  <2>4. OneRunning' /\ WaitsForMissing' /\ AllSecrets' /\ ActiveStays'
    BY <2>1, <2>2 DEF OneRunning, WaitsForMissing, AllSecrets, ActiveStays
  <2>5. AnswerIsGranted' /\ StagesGranted' /\ ActiveIsOpen' /\ ListIsOpen' /\ OpenSessions'
    BY <2>1, <2>2 DEF AnswerIsGranted, StagesGranted, ActiveIsOpen, ListIsOpen, OpenSessions, Request
  <2>6. QED
    BY <2>3, <2>4, <2>5
<1>2. CASE list_models(c)
  <2>1. TypeOK'
    BY <1>2 DEF list_models, Failures
  <2>2. OneRunning' /\ WaitsForMissing' /\ AllSecrets' /\ ActiveStays'
    BY <1>2 DEF list_models, OneRunning, WaitsForMissing, AllSecrets, ActiveStays
  <2>3. AnswerIsGranted' /\ StagesGranted'
    BY <1>2 DEF list_models, AnswerIsGranted, StagesGranted, Request
  <2>4. c \in open /\ c # active
    BY <1>2 DEF list_models, ActiveIsOpen, ListIsOpen
  <2>5. ActiveIsOpen' /\ ListIsOpen' /\ OpenSessions'
    BY <1>2, <2>4 DEF list_models, ActiveIsOpen, ListIsOpen, OpenSessions, OneRunning
  <2>6. QED
    BY <2>1, <2>2, <2>3, <2>5
<1>3. QED
  BY <1>1, <1>2

LEMMA OtherStep ==
  ASSUME ManagerInv, disconnect \/ recv \/ \E c \in Attempts : cancel(c)
  PROVE  ManagerInv'
<1> USE ManagerAssumption DEF ManagerAssumption, ManagerInv, TypeOK,
        Running, profileVars, brokerVars, sessionVars
<1>1. CASE disconnect
  <2>1. TypeOK'
    BY <1>1 DEF disconnect, Idle
  <2>2. QED
    BY <1>1, <2>1 DEF disconnect, Idle, OneRunning, WaitsForMissing, AllSecrets, ActiveStays,
       AnswerIsGranted, StagesGranted, ActiveIsOpen, OpenSessions, ListIsOpen, Request
<1>2. CASE recv
  <2>1. Head(channel) \in Leases /\ Tail(channel) \in Seq(Leases) /\ Len(Tail(channel)) <= Capacity
    BY <1>2 DEF recv
  <2>2. TypeOK'
    BY <1>2, <2>1 DEF recv
  <2>3. QED
    BY <1>2, <2>2 DEF recv, OneRunning, WaitsForMissing, AllSecrets, ActiveStays,
       AnswerIsGranted, StagesGranted, ActiveIsOpen, OpenSessions, ListIsOpen, Request
<1>3. ASSUME NEW c \in Attempts, cancel(c) PROVE ManagerInv'
  BY <1>3 DEF cancel, OneRunning, WaitsForMissing, AllSecrets, ActiveStays,
     AnswerIsGranted, StagesGranted, ActiveIsOpen, OpenSessions, ListIsOpen, Request
<1>4. QED
  BY <1>1, <1>2, <1>3

LEMMA AnswerStep ==
  ASSUME ManagerInv, stop_listening \/ \E l \in Leases, r \in Resolutions : respond(l, r)
  PROVE  ManagerInv'
<1> USE ManagerAssumption DEF ManagerAssumption, ManagerInv, TypeOK,
        Running, profileVars, brokerVars, sessionVars
<1>1. CASE stop_listening
  <2>1. TypeOK'
    <3>1. channel' \in Seq(Leases) /\ Len(channel') <= Capacity
      BY <1>1 DEF stop_listening
    <3>2. answer' \in [Attempts -> Resolutions \cup {"none"}]
      BY <1>1 DEF stop_listening, Resolutions
    <3>3. QED
      BY <1>1, <3>1, <3>2 DEF stop_listening
  <2>2. \A c \in Attempts : answer'[c] = "provided" => answer[c] = "provided"
    BY <1>1 DEF stop_listening
  <2>3. QED
    BY <1>1, <2>1, <2>2 DEF stop_listening, OneRunning, WaitsForMissing, AllSecrets, ActiveStays,
       AnswerIsGranted, StagesGranted, ActiveIsOpen, OpenSessions, ListIsOpen, Request
<1>2. ASSUME NEW l \in Leases, NEW r \in Resolutions, respond(l, r) PROVE ManagerInv'
  <2>1. l[1] \in Attempts
    BY DEF Leases
  <2>2. TypeOK'
    BY <1>2, <2>1 DEF respond
  <2>3. granted \subseteq granted'
    BY <1>2 DEF respond
  <2>4. AnswerIsGranted'
    BY <1>2, <2>1, <2>3 DEF respond, AnswerIsGranted, IsActive, Request
  <2>5. QED
    BY <1>2, <2>2, <2>3, <2>4 DEF respond, OneRunning, WaitsForMissing, AllSecrets, ActiveStays,
       StagesGranted, ActiveIsOpen, OpenSessions, ListIsOpen
<1>3. QED
  BY <1>1, <1>2

LEMMA ManagerStep == ManagerInv /\ [Next]_vars => ManagerInv'
<1> SUFFICES ASSUME ManagerInv, [Next]_vars PROVE ManagerInv'
  OBVIOUS
<1>1. CASE UNCHANGED vars
  BY <1>1 DEF vars, ManagerInv, TypeOK, OneRunning, WaitsForMissing, AllSecrets, ActiveStays,
     AnswerIsGranted, StagesGranted, ActiveIsOpen, OpenSessions, ListIsOpen, Request
<1>2. QED
  BY <1>1, ConnectStep, SendStep, ReceiveStep, BuildStep, ListStep, OtherStep, AnswerStep
     DEF Next, Connect, Host, Finished

LEMMA ManagerInvariant == Spec => []ManagerInv
  BY ManagerInit, ManagerStep, PTL DEF Spec

\* Besides the active session only the candidate of the running attempt is open,
\* for any number of attempts: no way out of connect leaves a session behind.
THEOREM OnlyOneSessionOpen == Spec => []OneOpenSession
<1>1. ManagerInv => OneOpenSession
  BY DEF ManagerInv, OpenSessions, OneOpenSession
<1>2. QED
  BY <1>1, ManagerInvariant, PTL

\* The active session was built from secrets granted one by one to its own
\* attempt, however many there are and whatever happened to other requests.
THEOREM ActiveSessionIsGranted == Spec => []ActiveIsGranted
<1>1. ManagerInv => ActiveIsGranted
  BY DEF ManagerInv, TypeOK, ActiveIsGranted, ActiveIsOpen, AllSecrets, StagesGranted
<1>2. QED
  BY <1>1, ManagerInvariant, PTL

\* A switch that fails, is cancelled or is dropped leaves the session that was
\* active at its beginning active and open.
THEOREM FailedSwitchChangesNothing == Spec => FailedSwitchKeepsActive
<1>1. ASSUME ManagerInv, [Next]_vars, NEW c \in Attempts,
             pc[c] \in Running, pc'[c] \in Failures
      PROVE  active' = before[c] /\ (before[c] # None => before[c] \in open')
  <2> USE <1>1, ManagerAssumption DEF ManagerAssumption, ManagerInv, TypeOK, Running, Failures, Goto
  <2>1. c # active /\ active = before[c] /\ (active # None => active \in open)
    BY DEF ActiveIsOpen, ActiveStays
  <2>2. ASSUME NEW d \in Attempts, connect(d) \/ Connect(d) \/ drop_connect(d) \/ cancel(d)
        PROVE  active' = active /\ open \ {c} \subseteq open'
    <3>1. CASE connect(d) \/ cancel(d)
      BY <3>1 DEF connect, cancel, sessionVars
    <3>2. CASE resolve_send(d) \/ resolve_receive(d) \/ secrets_resolved(d) \/ build_provider(d)
      BY <3>2 DEF resolve_send, resolve_receive, secrets_resolved, build_provider, sessionVars
    <3>3. CASE list_models_fails(d) \/ drop_connect(d)
      <4>1. d = c
        BY <3>3 DEF list_models_fails, drop_connect, OneRunning
      <4>2. QED
        BY <3>3, <4>1 DEF list_models_fails, drop_connect
    <3>4. CASE list_models(d)
      <4>1. d = c
        BY <3>4 DEF list_models, OneRunning
      <4>2. QED
        BY <3>4, <4>1 DEF list_models
    <3>5. QED
      BY <2>2, <3>1, <3>2, <3>3, <3>4 DEF Connect
  <2>3. CASE disconnect \/ Host \/ Finished \/ UNCHANGED vars
    <3>1. pc' = pc
      BY <2>3 DEF disconnect, Host, recv, stop_listening, respond, Finished, vars
    <3>2. QED
      BY <3>1
  <2>4. QED
    BY <2>1, <2>2, <2>3 DEF Next
<1>2. ManagerInv /\ [Next]_vars =>
        [\A c \in Attempts : pc[c] \in Running /\ pc'[c] \in Failures =>
           active' = before[c] /\ (before[c] # None => before[c] \in open')]_vars
  BY <1>1
<1>3. QED
  BY <1>2, ManagerInvariant, PTL DEF FailedSwitchKeepsActive, Spec
=============================================================================
