CONSTANTS
    Scenarios = {s1}
    Callers = {c1, c2, c3, c4}
    Suggestions = {a, b}
    Nothing = Nothing
    MaxSimulations = 2
    MaxDecisions = 3
SPECIFICATION Spec
SYMMETRY Symmetric
INVARIANTS TypeOK OneSimulation NoResultLost ToldIsCommitted
