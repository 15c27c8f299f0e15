-------------------------- MODULE ApprovalDecision --------------------------
(***************************************************************************)
(* What a domain service may rely on when it hands a request to the        *)
(* approval engine, with no levels, snapshots or claims: an open request   *)
(* collects the signatures of distinct people who are not party to it, the *)
(* signature that settles it settles it for good and tells the requester,  *)
(* and it may be withdrawn while it is open.                               *)
(***************************************************************************)
EXTENDS Integers

CONSTANTS Instances, Users

VARIABLES
    outcome,    \* what became of each request
    parties,    \* who may not sign it
    signers,    \* who signed it
    told        \* how often its requester was told of the decision

vars == <<outcome, parties, signers, told>>

Outcomes == {"none", "open", "APPROVED", "REJECTED", "CANCELLED"}

TypeOK ==
    /\ outcome \in [Instances -> Outcomes]
    /\ parties \in [Instances -> SUBSET Users]
    /\ signers \in [Instances -> SUBSET Users]
    /\ told \in [Instances -> Nat]

Init ==
    /\ outcome = [i \in Instances |-> "none"]
    /\ parties = [i \in Instances |-> {}]
    /\ signers = [i \in Instances |-> {}]
    /\ told = [i \in Instances |-> 0]

File(i) ==
    /\ outcome[i] = "none"
    /\ outcome' = [outcome EXCEPT ![i] = "open"]
    /\ \E P \in SUBSET Users : P # {} /\ parties' = [parties EXCEPT ![i] = P]
    /\ UNCHANGED <<signers, told>>

\* A signature that leaves the request open, for the next level to sign.
PassOn(i, u) ==
    /\ outcome[i] = "open"
    /\ u \notin parties[i] \cup signers[i]
    /\ signers' = [signers EXCEPT ![i] = @ \cup {u}]
    /\ UNCHANGED <<outcome, parties, told>>

Settle(i, u) ==
    /\ outcome[i] = "open"
    /\ u \notin parties[i] \cup signers[i]
    /\ signers' = [signers EXCEPT ![i] = @ \cup {u}]
    /\ \E d \in {"APPROVED", "REJECTED"} : outcome' = [outcome EXCEPT ![i] = d]
    /\ told' = [told EXCEPT ![i] = @ + 1]
    /\ UNCHANGED parties

Withdraw(i) ==
    /\ outcome[i] = "open"
    /\ outcome' = [outcome EXCEPT ![i] = "CANCELLED"]
    /\ UNCHANGED <<parties, signers, told>>

Next == \E i \in Instances :
    \/ File(i)
    \/ \E u \in Users : PassOn(i, u) \/ Settle(i, u)
    \/ Withdraw(i)

Spec == Init /\ [][Next]_vars
=============================================================================
