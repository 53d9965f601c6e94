CONSTANTS
    Jobs = {j1}
    Users = {u1, u2}
    Ops = {o1}
    Slots = {s1}
    BySolver = BySolver
    Absent = Absent
    None = None
    System = System
    Operator = Operator
    Doors = {"sync", "approve"}
    Solved <- FullOnly
    Timings <- AllTimed
    Unreadable = {}
    Enqueuers = {System}
    MaxCommits = 1
SPECIFICATION Spec
INVARIANTS ApprovedOnce
