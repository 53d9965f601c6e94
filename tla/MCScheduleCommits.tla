------------------------- MODULE MCScheduleCommits -------------------------
(* Instances of ScheduleCommits for TLC. *)
EXTENDS ScheduleCommits, TLC

Symmetry == Permutations(Users) \cup Permutations(Jobs)
                \cup Permutations(Slots \ Unreadable) \cup Permutations(Ops)

\* A plan with every operation.
Full == [o \in Ops |-> BySolver]
\* At most one transaction of a behaviour rolls back after its INSERT.
Aborted == {i \in Ids : row[i].tx = "aborted"}
FewAborts == \A i, k \in Aborted : i = k

FullOnly == {Full}

\* Every operation has a duration, as in what the solvers write.
AllTimed == {Ops}

\* Ledgers of three commits: a solved plan and moves of two operations; a move
\* and a plan without the operation; a move that was approved while the robot was
\* about to repeat it.
Moved(p, r, a, u, o, s) ==
    [tx |-> "done", parent |-> p, author |-> a, actor |-> u,
     kind |-> "manual_drag", op |-> o, slot |-> s,
     plan |-> [r.plan EXCEPT ![o] = s], timed |-> r.timed, status |-> "DRAFT"]

Rows3(a, b, c) == row = [i \in Ids |-> CASE i = 1 -> a [] i = 2 -> b [] i = 3 -> c
                                          [] OTHER -> NoRow]

TwoMoves(base, t) ==
    /\ \E u \in Users, o, q \in Ops, s \in Slots \ Unreadable :
         LET first == Moved(1, base, u, u, o, s)
         IN  o # q /\ Rows3(base, first, Moved(2, first, u, u, q, t))
    /\ audit = [i \in Ids |-> {}]

\* The operation that was moved is missing from the plan solved next.
ShippedSince(base) ==
    /\ \E u \in Users, o \in Ops, s \in Slots \ Unreadable :
         Rows3(base, Moved(1, base, u, u, o, s),
               [base EXCEPT !.parent = 2, !.plan[o] = Absent])
    /\ audit = [i \in Ids |-> {}]

RepeatedMove(base) ==
    \E u \in Users, o \in Ops, s \in Slots \ Unreadable :
        LET first == Moved(1, base, Operator, u, o, s)
        IN  /\ Rows3(base, [first EXCEPT !.status = "LIVE"],
                     Moved(2, first, System, System, o, s))
            /\ audit = [[i \in Ids |-> {}] EXCEPT ![2] = {[by |-> u, via |-> "promote"]}]

\* The first commit may be of an older release, without the one or the other.
SeededInit ==
    /\ LET base == [NoRow EXCEPT !.tx = "done", !.plan = Full, !.timed = Ops]
       IN  \/ RepeatedMove(base) \/ ShippedSince(base)
           \/ \E t \in Slots : TwoMoves(base, t)
           \/ \E o \in Ops, t \in Slots \ Unreadable :
                TwoMoves([base EXCEPT !.timed = Ops \ {o}], t)
    /\ n = 3
    /\ job = [j \in Jobs |-> IdleJob]
    /\ drag = [u \in Users |-> IdleDrag]
    /\ app = [u \in Users |-> IdleApp]
    /\ lock = [i \in Ids |-> None]
    /\ alert = {}

SeededSpec == SeededInit /\ [][Next]_vars

=============================================================================
