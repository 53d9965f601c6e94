-------------------------- MODULE ScheduleCommits --------------------------
(***************************************************************************)
(* The schedule-as-code ledger: the table plan_schedule_commits and every  *)
(* session that writes it.                                                 *)
(*                                                                         *)
(*   - solver jobs (worker.cpo_schedule_job, and run_cpo_schedule behind   *)
(*     the synchronous endpoint): solve, persist a DRAFT on top of the     *)
(*     latest commit, then, in the worker only, re-apply the manual moves; *)
(*   - moves of a user (POST /reorder and apply-move): read the latest     *)
(*     commit, write a DRAFT child of it;                                  *)
(*   - approvals (approve_commit, approve_schedule_job, promote_to_live):  *)
(*     DRAFT -> LIVE with an audit row.                                    *)
(*                                                                         *)
(* Sessions run in different processes under READ COMMITTED.  A row is     *)
(* stamped created_at when it is flushed and becomes visible when its      *)
(* transaction commits, so the two orders may differ.  Ids are the ranks   *)
(* of created_at.  A parent of 0 stands for NULL.                          *)
(***************************************************************************)
EXTENDS Naturals

CONSTANTS
    Jobs,        \* slots of the Arq worker and of the synchronous endpoint
    Users,       \* people who move operations and approve plans
    Ops,         \* operations of the plan
    Slots,       \* placements (phase, start, worker) a person can ask for
    BySolver,    \* the placement the solver gives an operation
    Absent,      \* the operation is not in the plan (shipped, phase done)
    None,        \* no override, no lock holder
    System,      \* commits.author of the robot
    Operator,    \* commits.author that POST /reorder leaves by default
    Doors,       \* the ways in that are open, a subset of AllDoors
    Enqueuers,   \* who asks for a solve: users, or the robot as System
    Solved,      \* plans a solver can answer with
    Timings,     \* operations that have a duration in what a solver answers
    Unreadable,  \* placements whose to_ts is not an ISO time
    MaxCommits   \* bound on the rows of one behaviour

\* "worker": cpo_schedule_job; "sync": POST /schedule; "reorder": POST
\* /reorder; "apply_move": POST apply-move; "approve": the two endpoints that
\* approve a commit; "promote": promote_to_live of an approved decision.
AllDoors == {"worker", "sync", "reorder", "apply_move", "approve", "promote"}

ASSUME CommitsAssumption ==
    /\ MaxCommits \in Nat \ {0}
    /\ System # Operator
    /\ {System, Operator} \cap Users = {}
    /\ BySolver # Absent
    /\ {BySolver, Absent, None} \cap Slots = {}
    /\ None \notin Users
    /\ Doors \subseteq AllDoors
    /\ Enqueuers \subseteq Users \cup {System}
    /\ Solved \subseteq [Ops -> {BySolver, Absent}]
    /\ Timings \subseteq SUBSET Ops
    /\ Unreadable \subseteq Slots

Ids     == 1 .. MaxCommits
Parents == 0 .. MaxCommits
Places  == Slots \cup {BySolver, Absent}
Plans   == [Ops -> Places]
Authors == Users \cup {System, Operator}

\* "none": never flushed; "open": flushed, transaction not committed;
\* "done": committed; "aborted": rolled back, nobody ever saw it.
TxStates == {"none", "open", "done", "aborted"}

Row == [tx     : TxStates,
        parent : Parents,
        author : Authors,
        actor  : Users \cup {System},      \* who really asked (history)
        kind   : {"solve", "manual_drag"},
        op     : Ops \cup {None},
        slot   : Slots \cup {None},
        plan   : Plans,
        timed  : SUBSET Ops,               \* operations with a duration > 0
        status : {"DRAFT", "LIVE"}]

VARIABLES
    row,    \* [Ids -> Row]: the table, indexed by rank of created_at
    n,      \* number of rows flushed so far
    job,    \* [Jobs -> JobState]
    drag,   \* [Users -> DragState]: the request of a user that moves
    app,    \* [Users -> AppState]: the request of a user that approves
    lock,   \* [Ids -> Users \cup {None}]: row lock of an approval
    audit,  \* [Ids -> SUBSET AuditRow]: committed audit rows DRAFT -> LIVE
    alert   \* operations with a MANUAL_OVERRIDE_INVALID alert

vars == <<row, n, job, drag, app, lock, audit, alert>>

AuditRow == [by : Users, via : {"approve", "promote"}]

NoMoves == [o \in Ops |-> None]

JobState ==
    [pc : {"idle", "solving", "insert", "commit", "live", "scan", "base",
           "loop", "rinsert", "rcommit"},
     worker   : BOOLEAN,                     \* re-applies the moves afterwards
     author   : Users \cup {System},
     plan     : Plans,
     parent   : Parents,                     \* the commit read as parent
     mine     : Parents,                     \* the row this session flushed
     since    : Parents,                     \* latest LIVE commit read
     todo     : [Ops -> Slots \cup {None}],  \* overrides left to re-apply
     found    : [Ops -> Slots \cup {None}],  \* all of them (history)
     op       : Ops \cup {None},             \* override being re-applied
     expected : Parents,                     \* expected_parent_id
     applied  : [Ops -> Slots \cup {None}],  \* re-applied so far (history)
     unsaid   : SUBSET Ops]                  \* alerts that failed (history)

DragState ==
    [pc : {"idle", "insert", "commit"}, author : Authors, op : Ops \cup {None},
     slot : Slots \cup {None}, parent : Parents, mine : Parents]

AppState ==
    [pc : {"idle", "lock", "write"}, via : {"approve", "promote"},
     commit : Parents, status : {"DRAFT", "LIVE"}]

TypeOK ==
    /\ row \in [Ids -> Row]
    /\ n \in Parents
    /\ job \in [Jobs -> JobState]
    /\ drag \in [Users -> DragState]
    /\ app \in [Users -> AppState]
    /\ lock \in [Ids -> Users \cup {None}]
    /\ audit \in [Ids -> SUBSET AuditRow]
    /\ alert \in SUBSET Ops

-----------------------------------------------------------------------------
(* Queries of CommitsService.                                              *)

Done(i) == i \in Ids /\ row[i].tx = "done"

\* Mutant: rows that another session has only flushed are seen.
IsLatestFlushed(i) ==
    \/ i = 0 /\ n = 0
    \/ i \in Ids /\ i = n /\ row[i].tx # "aborted"

\* get_latest: the visible row with the greatest created_at, 0 if none.
IsLatest(i) ==
    \/ i = 0 /\ \A k \in Ids : ~Done(k)
    \/ Done(i) /\ \A k \in Ids : Done(k) => k <= i

\* latest_live: the same among LIVE rows.
LiveRow(i) == Done(i) /\ row[i].status = "LIVE"
IsLatestLive(i) ==
    \/ i = 0 /\ \A k \in Ids : ~LiveRow(k)
    \/ LiveRow(i) /\ \A k \in Ids : LiveRow(k) => k <= i

\* Mutant: the robot collects its own moves.
IsOverrideOfAnyone(i, since) ==
    Done(i) /\ row[i].kind = "manual_drag" /\ i > since

\* Rows that active_manual_overrides selects: moves of people created after
\* the latest LIVE commit.  (_OVERRIDE_SCAN_LIMIT = 500 exceeds MaxCommits.)
IsOverride(i, since) ==
    /\ Done(i)
    /\ row[i].kind = "manual_drag"
    /\ row[i].author # System
    /\ i > since

\* _reduce_overrides: for each operation, the last such move wins.
LastMove(i, o, since) ==
    /\ IsOverride(i, since) /\ row[i].op = o
    /\ \A k \in Ids : IsOverride(k, since) /\ row[k].op = o => k <= i

ActiveOverrides(todo, since) ==
    \A o \in Ops :
        \/ \E i \in Ids : LastMove(i, o, since) /\ todo[o] = row[i].slot
        \/ (~\E i \in Ids : LastMove(i, o, since)) /\ todo[o] = None

-----------------------------------------------------------------------------
(* Initial state and the table.                                            *)

NoPlan == [o \in Ops |-> Absent]

NoRow == [tx |-> "none", parent |-> 0, author |-> System, actor |-> System,
          kind |-> "solve", op |-> None, slot |-> None, plan |-> NoPlan,
          timed |-> {}, status |-> "DRAFT"]

IdleJob == [pc |-> "idle", worker |-> FALSE, author |-> System,
            plan |-> NoPlan, parent |-> 0, mine |-> 0, since |-> 0,
            todo |-> NoMoves, found |-> NoMoves, op |-> None, expected |-> 0,
            applied |-> NoMoves, unsaid |-> {}]

IdleDrag == [pc |-> "idle", author |-> Operator, op |-> None, slot |-> None,
             parent |-> 0, mine |-> 0]

IdleApp == [pc |-> "idle", via |-> "approve", commit |-> 0, status |-> "DRAFT"]

Init ==
    /\ row = [i \in Ids |-> NoRow]
    /\ n = 0
    /\ job = [j \in Jobs |-> IdleJob]
    /\ drag = [u \in Users |-> IdleDrag]
    /\ app = [u \in Users |-> IdleApp]
    /\ lock = [i \in Ids |-> None]
    /\ audit = [i \in Ids |-> {}]
    /\ alert = {}

\* session.flush() of a new ScheduleCommit: the row gets its created_at.
Flush(r) ==
    /\ n < MaxCommits
    /\ n' = n + 1
    /\ row' = [row EXCEPT ![n + 1] = r]

\* Mutant: a commit is born LIVE.
PersistLive(i) == row' = [row EXCEPT ![i].tx = "done", ![i].status = "LIVE"]

\* session.commit() and session.rollback() of the row a session flushed.
Persist(i) == row' = [row EXCEPT ![i].tx = "done"]
Discard(i) ==
    row' = [k \in Ids |-> IF k = i /\ row[k].tx = "open"
                          THEN [NoRow EXCEPT !.tx = "aborted"] ELSE row[k]]

\* What a manual_drag row holds: the parent's plan with one operation moved.
DragRow(p, a, who, o, s) ==
    [tx |-> "open", parent |-> p, author |-> a, actor |-> who,
     kind |-> "manual_drag", op |-> o, slot |-> s,
     plan |-> [row[p].plan EXCEPT ![o] = s], timed |-> row[p].timed,
     status |-> "DRAFT"]

InPlan(p, o) == p \in Ids /\ row[p].plan[o] # Absent

\* apply_manual_reorder moves an operation of commit p: it is in the plan, and
\* its duration is known ("duracao_invalida" otherwise).
Movable(p, o) == InPlan(p, o) /\ o \in row[p].timed

SetJob(j, r) == job' = [job EXCEPT ![j] = r]

-----------------------------------------------------------------------------
(* Solver jobs.                                                            *)

\* The author is the user that enqueued the job, or "system".
StartSolve(j, a, w) ==
    /\ job[j].pc = "idle"
    /\ SetJob(j, [IdleJob EXCEPT !.pc = "solving", !.author = a, !.worker = w])
    /\ UNCHANGED <<row, n, drag, app, lock, audit, alert>>

\* ScheduleValidationError (or any exception before the insert) is swallowed:
\* the worker goes on to re-apply the moves, over the latest commit there is.
SolveInvalid(j) ==
    /\ job[j].pc = "solving"
    /\ SetJob(j, IF job[j].worker THEN [job[j] EXCEPT !.pc = "live"]
                                  ELSE IdleJob)
    /\ UNCHANGED <<row, n, drag, app, lock, audit, alert>>

\* create_from_schedule reads the parent when it persists, not before.
SolveReadParent(j, p, f) ==
    /\ job[j].pc = "solving"
    /\ IsLatest(p)
    /\ SetJob(j, [job[j] EXCEPT !.pc = "insert", !.parent = p, !.plan = f])
    /\ UNCHANGED <<row, n, drag, app, lock, audit, alert>>

SolveRow(j, t) ==
    [tx |-> "open", parent |-> job[j].parent, author |-> job[j].author,
     actor |-> job[j].author, kind |-> "solve", op |-> None, slot |-> None,
     plan |-> job[j].plan, timed |-> t, status |-> "DRAFT"]

SolveInsert(j, t) ==
    /\ job[j].pc = "insert"
    /\ Flush(SolveRow(j, t))
    /\ SetJob(j, [job[j] EXCEPT !.pc = "commit", !.mine = n + 1])
    /\ UNCHANGED <<drag, app, lock, audit, alert>>

SolveCommit(j) ==
    /\ job[j].pc = "commit"
    /\ Persist(job[j].mine)
    /\ SetJob(j, IF job[j].worker THEN [job[j] EXCEPT !.pc = "live"]
                                  ELSE IdleJob)
    /\ UNCHANGED <<n, drag, app, lock, audit, alert>>

\* active_manual_overrides: two statements, so two snapshots.
ReadLive(j, l) ==
    /\ job[j].pc = "live"
    /\ IsLatestLive(l)
    /\ SetJob(j, [job[j] EXCEPT !.pc = "scan", !.since = l])
    /\ UNCHANGED <<row, n, drag, app, lock, audit, alert>>

ScanOverrides(j, moves) ==
    /\ job[j].pc = "scan"
    /\ ActiveOverrides(moves, job[j].since)
    /\ SetJob(j, [job[j] EXCEPT !.pc = "base", !.todo = moves, !.found = moves])
    /\ UNCHANGED <<row, n, drag, app, lock, audit, alert>>

ReadBase(j, p) ==
    /\ job[j].pc = "base"
    /\ IsLatest(p)
    /\ SetJob(j, [job[j] EXCEPT !.pc = "loop", !.expected = p])
    /\ UNCHANGED <<row, n, drag, app, lock, audit, alert>>

\* Mutant: expected_parent_id is not compared.
AnyBase(j, p) == TRUE

\* The guard expected_parent_id of apply_manual_reorder.
SameBase(j, p) == job[j].expected = 0 \/ p = job[j].expected

\* What has to hold for an override to be tried on commit p: its to_ts is an
\* ISO time, and apply_manual_reorder raises no ValueError.
Applicable(j, o, p) ==
    /\ job[j].todo[o] \notin Unreadable
    /\ SameBase(j, p)
    /\ Movable(p, o)

\* apply_manual_reorder for one override: get_latest and every check pass.
ReapplyRead(j, o, p) ==
    /\ job[j].pc = "loop"
    /\ job[j].todo[o] # None
    /\ IsLatest(p)
    /\ Applicable(j, o, p)
    /\ SetJob(j, [job[j] EXCEPT !.pc = "rinsert", !.op = o, !.parent = p])
    /\ UNCHANGED <<row, n, drag, app, lock, audit, alert>>

\* No ISO time, no base, another base, the operation is gone or has no
\* duration: only logged.
ReapplySkip(j, o, p) ==
    /\ job[j].pc = "loop"
    /\ job[j].todo[o] # None
    /\ IsLatest(p)
    /\ ~Applicable(j, o, p)
    /\ SetJob(j, [job[j] EXCEPT !.todo[o] = None])
    /\ UNCHANGED <<row, n, drag, app, lock, audit, alert>>

\* Mutant: the refusal is only logged.
NotAlerted(o) == alert

\* _emit_override_invalid_alert: an upsert by operation.
Alerted(o) == alert \cup {o}

\* SafetyNetViolation: an axiom or the validator refuses the move, which
\* depends on data that is not modelled.  A database error of the alert is
\* swallowed.
ReapplyReject(j, o, p) ==
    /\ job[j].pc = "loop"
    /\ job[j].todo[o] # None
    /\ IsLatest(p)
    /\ Applicable(j, o, p)
    /\ \/ /\ SetJob(j, [job[j] EXCEPT !.todo[o] = None])
          /\ alert' = Alerted(o)
       \/ /\ SetJob(j, [job[j] EXCEPT !.todo[o] = None, !.unsaid = @ \cup {o}])
          /\ alert' = alert
    /\ UNCHANGED <<row, n, drag, app, lock, audit>>

ReapplyRow(j) ==
    DragRow(job[j].parent, System, System, job[j].op, job[j].todo[job[j].op])

ReapplyInsert(j) ==
    /\ job[j].pc = "rinsert"
    /\ Flush(ReapplyRow(j))
    /\ SetJob(j, [job[j] EXCEPT !.pc = "rcommit", !.mine = n + 1])
    /\ UNCHANGED <<drag, app, lock, audit, alert>>

ReapplyCommit(j) ==
    LET o == job[j].op IN
    /\ job[j].pc = "rcommit"
    /\ Persist(job[j].mine)
    /\ SetJob(j, [job[j] EXCEPT !.pc = "loop", !.expected = job[j].mine,
                                !.op = None, !.todo[o] = None,
                                !.applied[o] = job[j].todo[o]])
    /\ UNCHANGED <<n, drag, app, lock, audit, alert>>

ReapplyEnd(j) ==
    /\ job[j].pc = "loop"
    /\ job[j].todo = NoMoves
    /\ SetJob(j, IdleJob)
    /\ UNCHANGED <<row, n, drag, app, lock, audit, alert>>

\* HTTPException 503/400/409, job_timeout, a database error, a crash: the
\* session is rolled back wherever it is.
JobStops(j) ==
    /\ job[j].pc # "idle"
    /\ Discard(job[j].mine)
    /\ SetJob(j, IdleJob)
    /\ UNCHANGED <<n, drag, app, lock, audit, alert>>

-----------------------------------------------------------------------------
(* Moves of people.  POST /reorder leaves author = "operator" and calls      *)
(* apply_manual_reorder with a time; apply-move passes the user, copies the  *)
(* start_time of the operation, and asks for no duration.                    *)

DragRead(u, o, s, a, p) ==
    /\ drag[u].pc = "idle"
    /\ IsLatest(p)
    /\ IF a = Operator THEN Movable(p, o) /\ s \notin Unreadable
                       ELSE InPlan(p, o)
    /\ drag' = [drag EXCEPT ![u] = [pc |-> "insert", author |-> a, op |-> o,
                                    slot |-> s, parent |-> p, mine |-> 0]]
    /\ UNCHANGED <<row, n, job, app, lock, audit, alert>>

DragInsert(u) ==
    /\ drag[u].pc = "insert"
    /\ Flush(DragRow(drag[u].parent, drag[u].author, u, drag[u].op,
                     drag[u].slot))
    /\ drag' = [drag EXCEPT ![u].pc = "commit", ![u].mine = n + 1]
    /\ UNCHANGED <<job, app, lock, audit, alert>>

DragCommit(u) ==
    /\ drag[u].pc = "commit"
    /\ Persist(drag[u].mine)
    /\ drag' = [drag EXCEPT ![u] = IdleDrag]
    /\ UNCHANGED <<n, job, app, lock, audit, alert>>

\* The request fails or its process dies.
DragStops(u) ==
    /\ drag[u].pc # "idle"
    /\ Discard(drag[u].mine)
    /\ drag' = [drag EXCEPT ![u] = IdleDrag]
    /\ UNCHANGED <<n, job, app, lock, audit, alert>>

-----------------------------------------------------------------------------
(* Approvals.                                                              *)

\* _resolve_commit_or_404 (or get_by_sha in promote_to_live) loads the row
\* into the session; the later SELECT ... FOR UPDATE has no
\* populate_existing, so this copy of the status is what is checked.
\* promote_to_live returns at once when the row is LIVE.
ApproveLoad(u, c, via) ==
    /\ app[u].pc = "idle"
    /\ Done(c)
    /\ via = "promote" => row[c].status = "DRAFT"
    /\ app' = [app EXCEPT ![u] = [pc |-> "lock", via |-> via, commit |-> c,
                                  status |-> row[c].status]]
    /\ UNCHANGED <<row, n, job, drag, lock, audit, alert>>

Unlocked(c) == lock[c] = None

\* Mutant: no segregation of duties.
ApprovableByAuthor(u) == app[u].via = "approve" => app[u].status = "DRAFT"

\* approve_commit and approve_schedule_job refuse a LIVE commit (409) and the
\* commit of the approver (403); promote_to_live only looks at the status.
Approvable(u) ==
    app[u].via = "approve" =>
        /\ app[u].status = "DRAFT"
        /\ row[app[u].commit].author # u

\* lock_by_id, or the row lock that the UPDATE of promote_to_live takes.
ApproveLock(u) ==
    /\ app[u].pc = "lock"
    /\ Unlocked(app[u].commit)
    /\ Approvable(u)
    /\ lock' = [lock EXCEPT ![app[u].commit] = u]
    /\ app' = [app EXCEPT ![u].pc = "write"]
    /\ UNCHANGED <<row, n, job, drag, audit, alert>>

\* The lock is taken, the check fails, the exception releases it.
ApproveRefused(u) ==
    /\ app[u].pc = "lock"
    /\ Unlocked(app[u].commit)
    /\ ~Approvable(u)
    /\ app' = [app EXCEPT ![u] = IdleApp]
    /\ UNCHANGED <<row, n, job, drag, lock, audit, alert>>

\* Mutant: the transaction of the approval stays open.
ApproveNoRelease(u) ==
    LET c == app[u].commit IN
    /\ app[u].pc = "write"
    /\ row' = [row EXCEPT ![c].status = "LIVE"]
    /\ audit' = [audit EXCEPT ![c] = @ \cup {[by |-> u, via |-> app[u].via]}]
    /\ app' = [app EXCEPT ![u] = IdleApp]
    /\ UNCHANGED <<n, job, drag, lock, alert>>

\* UPDATE and audit row in one transaction; COMMIT releases the lock.
ApproveCommit(u) ==
    LET c == app[u].commit IN
    /\ app[u].pc = "write"
    /\ row' = [row EXCEPT ![c].status = "LIVE"]
    /\ audit' = [audit EXCEPT ![c] = @ \cup {[by |-> u, via |-> app[u].via]}]
    /\ lock' = [lock EXCEPT ![c] = None]
    /\ app' = [app EXCEPT ![u] = IdleApp]
    /\ UNCHANGED <<n, job, drag, alert>>

ApproveStops(u) ==
    /\ app[u].pc # "idle"
    /\ lock' = [i \in Ids |-> IF lock[i] = u THEN None ELSE lock[i]]
    /\ app' = [app EXCEPT ![u] = IdleApp]
    /\ UNCHANGED <<row, n, job, drag, audit, alert>>

-----------------------------------------------------------------------------
\* Mutant: POST /reorder writes no author at all.
NullAuthors(u) == {None}

\* The author each door writes for the moves of user u.
MoveAuthors(u) == (IF "reorder" \in Doors THEN {Operator} ELSE {})
                      \cup (IF "apply_move" \in Doors THEN {u} ELSE {})

Reapply(j) ==
    \/ \E l \in Parents : ReadLive(j, l)
    \/ \E m \in [Ops -> Slots \cup {None}] : ScanOverrides(j, m)
    \/ \E p \in Parents : ReadBase(j, p)
    \/ \E o \in Ops, p \in Parents :
         ReapplyRead(j, o, p) \/ ReapplySkip(j, o, p) \/ ReapplyReject(j, o, p)
    \/ ReapplyInsert(j)
    \/ ReapplyCommit(j)
    \/ ReapplyEnd(j)

Solve(j) ==
    \/ \E a \in Enqueuers, d \in Doors \cap {"worker", "sync"} :
         StartSolve(j, a, d = "worker")
    \/ SolveInvalid(j)
    \/ \E p \in Parents, f \in Solved : SolveReadParent(j, p, f)
    \/ \E t \in Timings : SolveInsert(j, t)
    \/ SolveCommit(j)
    \/ JobStops(j)

Move(u) ==
    \/ \E o \in Ops, s \in Slots, a \in MoveAuthors(u), p \in Parents :
         DragRead(u, o, s, a, p)
    \/ DragInsert(u)
    \/ DragCommit(u)
    \/ DragStops(u)

Approve(u) ==
    \/ \E c \in Ids, via \in Doors \cap {"approve", "promote"} :
         ApproveLoad(u, c, via)
    \/ ApproveLock(u)
    \/ ApproveRefused(u)
    \/ ApproveCommit(u)
    \/ ApproveStops(u)

Next ==
    \/ \E j \in Jobs : Solve(j) \/ Reapply(j)
    \/ \E u \in Users : Move(u) \/ Approve(u)

Spec == Init /\ [][Next]_vars

-----------------------------------------------------------------------------
(* Safety.                                                                 *)

\* The hash chain has no dangling or forward link: whatever two sessions
\* flush, commit or roll back in whatever order, the parent of a row that
\* anyone can see is itself visible for good and has an older created_at.
ChainSound ==
    \A i \in Ids : Done(i) =>
        \/ row[i].parent = 0
        \/ Done(row[i].parent) /\ row[i].parent < i

\* While a job re-applies, every move it has already re-applied is in the
\* plan it will build on next: a later move is never applied over a commit
\* that lost an earlier one (the purpose of expected_parent_id).
ReappliedMovesAccumulate ==
    \A j \in Jobs, o \in Ops : job[j].applied[o] # None =>
        /\ Done(job[j].expected)
        /\ row[job[j].expected].plan[o] = job[j].applied[o]

\* The robot only repeats what a person asked for after the LIVE commit that
\* bounds its window: never its own earlier moves, never a move that an
\* approval has already baked into the plan, never a placement nobody chose.
ReapplySourced ==
    \A j \in Jobs, o \in Ops : job[j].applied[o] # None =>
        \E k \in Ids :
            /\ Done(k) /\ row[k].kind = "manual_drag"
            /\ row[k].actor \in Users /\ k > job[j].since
            /\ row[k].op = o /\ row[k].slot = job[j].applied[o]

\* What can become of a move the job found: unless a newer commit took over, it
\* is in the plan, or the person is alerted (or the alert itself failed), or it
\* is one of the moves the code drops with a line in the log: its operation is
\* no longer in the plan or has no duration there, or its time does not parse.
\* In particular a move is never dropped because of what another move of the
\* same job, or another job, did.
NoSilentLoss ==
    \A j \in Jobs, o \in Ops :
        /\ job[j].pc = "loop"
        /\ IsLatest(job[j].expected)
        /\ job[j].found[o] # None
        /\ job[j].todo[o] = None
        => \/ job[j].applied[o] = job[j].found[o]
           \/ o \in alert \cup job[j].unsaid
           \/ ~Movable(job[j].expected, o)
           \/ job[j].found[o] \in Unreadable

\* On the two endpoints that check it, nobody approves a commit that carries
\* their own id as author, however approvals overlap.
AuthorNeverApproves ==
    \A i \in Ids : \A a \in audit[i] :
        a.via = "approve" => row[i].author # a.by

\* A commit is approved once: of two approvals, the second waits for the row
\* lock, sees LIVE and is refused, as the comment of lock_by_id says.  (It is
\* not: it looks at the copy of the row it loaded before the lock.)
ApprovedOnce ==
    \A i \in Ids : \A a, b \in audit[i] :
        a.via = "approve" /\ b.via = "approve" => a = b

\* The ledger as everybody sees it is a growing forest whose nodes never
\* change and whose LIVE marks are never taken back (module CommitGraph).
Content(i) == [author |-> row[i].author, plan |-> row[i].plan]

SeenNodes  == {i \in Ids : Done(i)}
SeenParent == [i \in Ids |-> IF Done(i) THEN row[i].parent ELSE 0]
SeenData   == [i \in Ids |-> IF Done(i) THEN Content(i) ELSE None]
SeenLive   == {i \in Ids : LiveRow(i)}

Graph == INSTANCE CommitGraph WITH
    Nodes  <- Ids,
    Data   <- [author : Authors, plan : Plans],
    NoData <- None,
    nodes  <- SeenNodes,
    parent <- SeenParent,
    data   <- SeenData,
    live   <- SeenLive

GraphSpec == Graph!Spec

-----------------------------------------------------------------------------
(* The inductive invariant behind the safety properties (module             *)
(* ScheduleCommits_proofs).                                                 *)

Writing == {"commit", "rcommit"}     \* a job has flushed and not committed
Fresh   == {"idle", "solving", "insert", "commit", "live", "scan", "base"}

TableInv ==
    \A i \in Ids :
        /\ row[i].tx # "none" => i <= n
        /\ row[i].tx # "done" => row[i].status = "DRAFT"
        /\ \/ row[i].parent = 0
           \/ Done(row[i].parent) /\ row[i].parent < i

\* What a session has read stays visible; what it has flushed is still open;
\* what a job has re-applied is in the plan it expects to build on.
JobInv(j) ==
    /\ job[j].parent = 0 \/ Done(job[j].parent)
    /\ job[j].expected = 0 \/ Done(job[j].expected)
    /\ job[j].pc \in Writing =>
         job[j].mine \in Ids /\ row[job[j].mine].tx = "open"
    /\ job[j].pc \notin Writing => job[j].mine = 0 \/ Done(job[j].mine)
    /\ job[j].pc \in {"rinsert", "rcommit"} =>
         /\ job[j].op \in Ops
         /\ job[j].todo[job[j].op] \in Slots
         /\ job[j].parent \in Ids
         /\ SameBase(j, job[j].parent)
    /\ job[j].pc = "rcommit" =>
         /\ row[job[j].mine].plan =
                [row[job[j].parent].plan EXCEPT ![job[j].op] =
                    job[j].todo[job[j].op]]
         /\ row[job[j].mine].timed = row[job[j].parent].timed
    /\ job[j].pc \in Fresh => job[j].applied = NoMoves
    /\ \A o \in Ops : job[j].applied[o] # None =>
         /\ job[j].expected # 0
         /\ row[job[j].expected].plan[o] = job[j].applied[o]

DragInv(u) ==
    /\ drag[u].pc # "idle" =>
         drag[u].op \in Ops /\ drag[u].slot \in Slots /\ Done(drag[u].parent)
    /\ drag[u].pc = "commit" =>
         drag[u].mine \in Ids /\ row[drag[u].mine].tx = "open"
    /\ drag[u].pc # "commit" => drag[u].mine = 0

AppInv(u) ==
    /\ app[u].pc # "idle" => Done(app[u].commit)
    /\ app[u].pc = "write" =>
         /\ lock[app[u].commit] = u
         /\ app[u].via = "approve" => row[app[u].commit].author # u

\* No two sessions own the same row.
OwnersInv ==
    /\ \A j, k \in Jobs : job[j].mine = job[k].mine => j = k \/ job[j].mine = 0
    /\ \A u, v \in Users :
         drag[u].mine = drag[v].mine => u = v \/ drag[u].mine = 0
    /\ \A j \in Jobs, u \in Users :
         job[j].mine = drag[u].mine => drag[u].mine = 0

AuditInv ==
    \A i \in Ids : \A a \in audit[i] :
        Done(i) /\ (a.via = "approve" => row[i].author # a.by)

IInv ==
    /\ TypeOK
    /\ TableInv
    /\ \A j \in Jobs : JobInv(j)
    /\ \A u \in Users : DragInv(u) /\ AppInv(u)
    /\ OwnersInv
    /\ AuditInv

-----------------------------------------------------------------------------
(* Liveness.  Postgres grants a row lock to its waiters in turn, and a       *)
(* request goes on unless it fails.                                         *)

ApproveStep(u) == ApproveLock(u) \/ ApproveRefused(u) \/ ApproveCommit(u)

Fairness == \A u \in Users : SF_vars(ApproveStep(u))

FairSpec == Spec /\ Fairness

\* An approval that waits for the row lock is answered: the holder always
\* releases the lock, whether it commits, refuses or fails.
ApprovalAnswered == \A u \in Users :
    app[u].pc = "lock" ~> app[u].pc = "idle"

=============================================================================
