-------------------------- MODULE StatusAggregator --------------------------
(***************************************************************************)
(* What the node's status command promises (spec 4.5): every invocation   *)
(* snapshots the registered labels and delivers one document, once, that  *)
(* holds a result (a status or an error) for each label of its snapshot.  *)
(* How the results are gathered is left out.                              *)
(***************************************************************************)
CONSTANTS
    StatusIds,  \* the status invocations
    Labels      \* the labels a snapshot may hold

VARIABLES
    aPhase,     \* per invocation: "idle", "collecting", "delivered"
    aSnap,      \* per invocation: the labels it asks
    aDoc        \* per invocation: the delivered document, label -> result

avars == <<aPhase, aSnap, aDoc>>

Results == {"ok", "err"}

Init ==
    /\ aPhase = [s \in StatusIds |-> "idle"]
    /\ aSnap = [s \in StatusIds |-> {}]
    /\ aDoc = [s \in StatusIds |-> <<>>]

\* An invocation takes its snapshot.
Request(s) ==
    /\ aPhase[s] = "idle"
    /\ aPhase' = [aPhase EXCEPT ![s] = "collecting"]
    /\ DOMAIN aSnap' = StatusIds
    /\ aSnap'[s] \subseteq Labels
    /\ \A x \in StatusIds \ {s} : aSnap'[x] = aSnap[x]
    /\ UNCHANGED aDoc

\* It delivers its document: one result per label of the snapshot.
Deliver(s) ==
    /\ aPhase[s] = "collecting"
    /\ aPhase' = [aPhase EXCEPT ![s] = "delivered"]
    /\ DOMAIN aDoc' = StatusIds
    /\ aDoc'[s] \in [aSnap[s] -> Results]
    /\ \A x \in StatusIds \ {s} : aDoc'[x] = aDoc[x]
    /\ UNCHANGED aSnap

Next == \E s \in StatusIds : Request(s) \/ Deliver(s)

Spec == Init /\ [][Next]_avars
=============================================================================
