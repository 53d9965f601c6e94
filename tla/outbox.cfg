CONSTANTS
    Drains = {d1, d2}
    MaxAttempts = 2
    Orders = {o1}
    Employees = {e1}
    Users = {ana, rui}
    Requests = {r1, r2}
    Proposers = {p1, p2}
    MaxDecisions = 2
    Nobody = Nobody
    OldPlan = OldPlan
    Aggregates <- MCAggregates
    EventTypes <- MCEventTypes
    Actors <- MCActors
SPECIFICATION Spec
SYMMETRY Symmetric
INVARIANTS TypeOK OneDeadLetter CancelledOnce ChainNeverForks
PROPERTY JournalSpec
CONSTRAINTS FewEvents FewAtOnce
