\* The properties the code does not keep (README, Known disagreements), one at a time:
\* TLC finds the active one violated; activate another to see its trace.
CONSTANTS
    emp = emp
    boss = boss
    boss2 = boss2
    hr = hr
    admin = admin
    HR = HR
    ADMIN = ADMIN
    none = none
    Instances = {i1}
    Users <- MCUsers
    Roles = {HR, ADMIN}
    SuperAdmin = ADMIN
    None = none
    RolesOf <- MCRolesOf
    ManagersOf <- MCManagersOf
    MaxStages = 3
    Filings <- MCKnownFilings
    DelegationPairs <- MCDelegations
    Requests = {r1, r2}
    MaxClock = 1
SPECIFICATION Spec
CHECK_DEADLOCK FALSE
INVARIANT SomeoneCanAct
\* INVARIANT EscalationOnlyWhereAllowed
