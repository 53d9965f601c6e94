CONSTANTS
    Jobs = {j1}
    Users = {u1, u2}
    Ops = {o1}
    Slots = {s1}
    BySolver = BySolver
    Absent = Absent
    None = None
    System = System
    Operator = Operator
    Doors = {"sync", "reorder", "apply_move", "approve"}
    Solved <- FullOnly
    Timings <- AllTimed
    Unreadable = {}
    Enqueuers = {u1, System}
    MaxCommits = 2
SPECIFICATION FairSpec
INVARIANTS TypeOK ChainSound AuthorNeverApproves
PROPERTIES GraphSpec ApprovalAnswered
