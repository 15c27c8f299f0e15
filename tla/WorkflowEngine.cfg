CONSTANTS
    emp = emp
    boss = boss
    boss2 = boss2
    hr = hr
    admin = admin
    HR = HR
    ADMIN = ADMIN
    none = none
    Instances = {i1}
    Users <- MCUsers
    Roles = {HR, ADMIN}
    SuperAdmin = ADMIN
    None = none
    RolesOf <- MCRolesOf
    ManagersOf <- MCManagersOf
    MaxStages = 3
    Filings <- MCFilings
    DelegationPairs <- MCDelegations
    Requests = {r1, r2}
    MaxClock = 1
SPECIFICATION Spec
SYMMETRY MCSymmetry
INVARIANTS OneWaitingStep SeparationOfDuties ApprovedByEveryLevel
PROPERTY ImplementsDecision
CHECK_DEADLOCK FALSE
