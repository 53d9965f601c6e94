CONSTANTS
    People = {ana}
    MayDecide = {ana}
    Requests = {r1}
    Schedulers = {s1}
    Listener = Listener
    Trucks = {t1}
    Events = {}
    MaxPlans = 1
    MaxDecisions = 2
    MaxCalls = 1
    MaxFaults = 1
    MaxEvents = 0
SPECIFICATION FairSpec
PROPERTIES ObsoleteDisappears PlanGetsProposed 
