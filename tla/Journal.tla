------------------------------ MODULE Journal ------------------------------
(***************************************************************************)
(* What the ledger promises to the handlers that call record_once: a log   *)
(* to which a call adds its event in one step or not at all.  Nothing that *)
(* was logged changes, an event is closed only after it was logged, and a  *)
(* call that finds its event closed logs nothing.  Ledger.tla implements   *)
(* this with separate operations of the datastore.                         *)
(***************************************************************************)
CONSTANTS Calls, EventId

VARIABLES
    log,      \* the events by their numbers
    closed,   \* the events that later calls leave alone
    stage     \* how far each call is

vars == <<log, closed, stage>>

Init ==
    /\ log = [n \in {} |-> n] /\ closed = {}
    /\ stage = [c \in Calls |-> "idle"]

Begin(c) ==
    /\ stage[c] = "idle"
    /\ stage' = [stage EXCEPT ![c] = IF EventId[c] \in closed THEN "ended" ELSE "begun"]
    /\ UNCHANGED <<log, closed>>

Record(c) ==
    /\ stage[c] = "begun"
    /\ \E n \in DOMAIN log' \ DOMAIN log :
          log' = [x \in DOMAIN log \cup {n} |-> IF x = n THEN EventId[c] ELSE log[x]]
    /\ stage' = [stage EXCEPT ![c] = "recorded"]
    /\ UNCHANGED closed

Close(c) ==
    /\ stage[c] = "recorded"
    /\ closed' = closed \cup {EventId[c]}
    /\ stage' = [stage EXCEPT ![c] = "ended"]
    /\ UNCHANGED log

\* Calls that have begun end early; what they recorded stays.
GiveUp(cs) ==
    /\ \A c \in cs : stage[c] \in {"begun", "recorded"}
    /\ stage' = [c \in Calls |-> IF c \in cs THEN "ended" ELSE stage[c]]
    /\ UNCHANGED <<log, closed>>

Next ==
    \/ \E c \in Calls : Begin(c) \/ Record(c) \/ Close(c)
    \/ \E cs \in SUBSET Calls : GiveUp(cs)

Spec == Init /\ [][Next]_vars
=============================================================================
