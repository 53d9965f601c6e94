CONSTANTS
    People = {ana}
    MayDecide = {ana}
    Requests = {r1}
    Schedulers = {s1}
    Listener = Listener
    Trucks = {}
    Events = {}
    MaxPlans = 2
    MaxDecisions = 2
    MaxCalls = 1
    MaxFaults = 0
    MaxEvents = 0
SPECIFICATION Spec
SYMMETRY Symmetric
INVARIANTS DecisionStands
