---------------------------- MODULE OneShotLease ----------------------------
(***************************************************************************)
(* What a file lease promises to the host: it is granted once, becomes     *)
(* inactive once and for the first reason given, and is consumed at most   *)
(* once, by a call that was admitted while the lease was active.  The      *)
(* states are those of FileLease (crates/linguamesh-domain/src/            *)
(* file_lease.rs); that a consumption may be overtaken by an invalidation  *)
(* after its last look at the lease is part of the promise.                *)
(***************************************************************************)
CONSTANT Calls   \* consumption calls

VARIABLES
  status,      \* the state of the lease
  registered,  \* the engine knows it
  admitted,    \* calls that have seen the lease active for the last time
  winners      \* calls that have consumed it

Invalid == {"expired", "revoked"}

Init == status = "none" /\ registered = FALSE /\ admitted = {} /\ winners = {}

Grant ==
  /\ status = "none"
  /\ status' = "active" /\ registered' = TRUE
  /\ UNCHANGED <<admitted, winners>>

\* The host or a consumption makes it inactive.
Invalidate ==
  /\ status = "active" /\ status' \in Invalid
  /\ UNCHANGED <<registered, admitted, winners>>

\* The host gives it back: it leaves the registry and is inactive at once.
Destroy ==
  /\ registered /\ registered' = FALSE
  /\ status' \in IF status = "active" THEN Invalid ELSE {status}
  /\ UNCHANGED <<admitted, winners>>

Admit(c) ==
  /\ status = "active" /\ c \notin admitted \cup winners
  /\ admitted' = admitted \cup {c}
  /\ UNCHANGED <<status, registered, winners>>

\* Of the admitted calls one finds the inactive lease registered and takes it.
Win(c) ==
  /\ c \in admitted /\ status \in Invalid /\ registered
  /\ registered' = FALSE
  /\ admitted' = admitted \ {c} /\ winners' = winners \cup {c}
  /\ UNCHANGED status

Lose(c) ==
  /\ c \in admitted /\ ~registered
  /\ admitted' = admitted \ {c}
  /\ UNCHANGED <<status, registered, winners>>

Next ==
  \/ Grant \/ Invalidate \/ Destroy
  \/ \E c \in Calls : Admit(c) \/ Win(c) \/ Lose(c)

Spec == Init /\ [][Next]_<<status, registered, admitted, winners>>
=============================================================================
