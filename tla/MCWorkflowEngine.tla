------------------------- MODULE MCWorkflowEngine -------------------------
(* Small instance of WorkflowEngine: an employee, the two holders of the    *)
(* position above, a colleague who may get a delegation, HR and an admin.   *)
EXTENDS WorkflowEngine, TLC
CONSTANTS emp, boss, boss2, hr, admin, HR, ADMIN, none

MCUsers == {emp, boss, boss2, hr, admin}
MCRolesOf == [u \in MCUsers |-> CASE u = hr -> {HR} [] u = admin -> {ADMIN}
                                  [] OTHER -> {}]
MCManagersOf == [u \in MCUsers |-> IF u = emp THEN {boss, boss2} ELSE {}]

Person(u) == [id |-> u, role |-> none]
Role(c) == [id |-> none, role |-> c]
Stage(level, type, approver, backup) ==
    [level |-> level, type |-> type, approver |-> approver, backup |-> backup,
     allowEscalation |-> TRUE, applies |-> TRUE]
NotApplicable(stage) == [stage EXCEPT !.applies = FALSE]
NoEscalation(stage) == [stage EXCEPT !.allowEscalation = FALSE]
Manager == Stage(1, "MANAGER", Nobody, Nobody)
HRStage(n) == Stage(n, "OTHER", Role(HR), Nobody)
BossStage(n) == Stage(n, "OTHER", Person(boss), Role(HR))

Filing(requester, subject, target, template) ==
    [requester |-> requester, subject |-> subject, target |-> target,
     template |-> template]

\* The manager then HR; three levels of which one may not apply; two stages of
\* one level; a request HR files for the employee.
MCFilings ==
    {Filing(emp, emp, none, <<Manager, HRStage(2)>>),
     Filing(emp, emp, boss2, <<Manager, NotApplicable(HRStage(2)), BossStage(3)>>),
     Filing(emp, emp, none, <<BossStage(1), HRStage(1), HRStage(2)>>),
     Filing(hr, emp, none, <<HRStage(1), BossStage(2), Stage(3, "OTHER", Person(boss2), Nobody)>>)}
MCDelegations == {<<boss, boss2>>, <<boss, hr>>}
MCSymmetry == Permutations(Requests)

\* The same and one whose first stage may not be escalated.
MCKnownFilings ==
    MCFilings \cup {Filing(emp, emp, none, <<NoEscalation(HRStage(1)), BossStage(2)>>)}
=============================================================================
