CONSTANTS
    Jobs = {j1, j2}
    Users = {u1}
    Ops = {o1, o2}
    Slots = {s1, s2}
    BySolver = BySolver
    Absent = Absent
    None = None
    System = System
    Operator = Operator
    Doors = {"worker"}
    Solved <- FullOnly
    Timings <- AllTimed
    Unreadable = {s2}
    Enqueuers = {System}
    MaxCommits = 6
SPECIFICATION SeededSpec
SYMMETRY Symmetry
CONSTRAINT FewAborts
INVARIANTS ReappliedMovesAccumulate ReapplySourced NoSilentLoss
