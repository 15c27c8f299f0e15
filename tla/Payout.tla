------------------------------- MODULE Payout -------------------------------
(***************************************************************************)
(* What paying out approved payrolls promises, without files, banks or     *)
(* batches: each slip of a run is paid once, a payout that has paid        *)
(* somebody is never called off, and it is done when everybody is paid.    *)
(***************************************************************************)
CONSTANTS Runs, Slips

VARIABLES
    stage,   \* [Runs -> {"WAITING", "DONE", "OFF"}]
    due,     \* [Runs -> SUBSET Slips], whom the approved run pays
    paid     \* [Runs -> SUBSET Slips], who has been paid for it

vars == <<stage, due, paid>>

Init ==
    /\ stage = [n \in Runs |-> "WAITING"]
    /\ due = [n \in Runs |-> {}]
    /\ paid = [n \in Runs |-> {}]

Order(n) ==
    /\ due[n] = {} /\ stage[n] = "WAITING"
    /\ \E who \in (SUBSET Slips) \ {{}} : due' = [due EXCEPT ![n] = who]
    /\ UNCHANGED <<stage, paid>>

Pay(n) ==
    /\ stage[n] = "WAITING"
    /\ \E s \in due[n] \ paid[n] : paid' = [paid EXCEPT ![n] = @ \cup {s}]
    /\ UNCHANGED <<stage, due>>

Finish(n) ==
    /\ stage[n] = "WAITING" /\ due[n] # {} /\ paid[n] = due[n]
    /\ stage' = [stage EXCEPT ![n] = "DONE"]
    /\ UNCHANGED <<due, paid>>

CallOff(n) ==
    /\ stage[n] = "WAITING" /\ paid[n] = {}
    /\ stage' = [stage EXCEPT ![n] = "OFF"]
    /\ UNCHANGED <<due, paid>>

Next == \E n \in Runs : Order(n) \/ Pay(n) \/ Finish(n) \/ CallOff(n)

Spec == Init /\ [][Next]_vars
=============================================================================
