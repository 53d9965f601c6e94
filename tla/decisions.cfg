CONSTANTS
    People = {ana}
    MayDecide = {ana}
    Requests = {r1, r2}
    Schedulers = {s1, s2}
    Listener = Listener
    Trucks = {}
    Events = {e1}
    MaxPlans = 2
    MaxDecisions = 3
    MaxCalls = 2
    MaxFaults = 1
    MaxEvents = 1
SPECIFICATION Spec
INVARIANT TypeOK OnlyOverlapRepeats OnlyOverlapOpensTwo ExecutedWasApproved
PROPERTY DeskSpec
SYMMETRY Symmetric
CONSTRAINT FewDisturbances
