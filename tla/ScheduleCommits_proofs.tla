----------------------- MODULE ScheduleCommits_proofs -----------------------
(***************************************************************************)
(* Proofs about ScheduleCommits for every value of its constants: typing,  *)
(* the chain of parents, the accumulation of re-applied moves, and that    *)
(* the ledger implements CommitGraph.                                      *)
(***************************************************************************)
EXTENDS ScheduleCommits, TLAPS

\* The initial records of the sessions and of the table have their types.
LEMMA ConstantTypes ==
  /\ NoPlan \in Plans
  /\ NoMoves \in [Ops -> Slots \cup {None}]
  /\ Solved \subseteq Plans
  /\ NoRow \in Row
  /\ IdleJob \in JobState
  /\ IdleDrag \in DragState
  /\ IdleApp \in AppState
  /\ Ids \subseteq Parents /\ 0 \in Parents /\ 0 \notin Ids
<1>1. NoPlan \in Plans /\ NoMoves \in [Ops -> Slots \cup {None}]
  BY DEF NoPlan, NoMoves, Plans, Places
<1>2. Solved \subseteq Plans
  BY CommitsAssumption DEF Plans, Places
<1>3. Ids \subseteq Parents /\ 0 \in Parents /\ 0 \notin Ids
  BY CommitsAssumption DEF Ids, Parents
<1>4. NoRow \in Row
  BY <1>1, <1>3 DEF NoRow, Row, TxStates, Authors
<1>5. IdleJob \in JobState
  BY <1>1, <1>3 DEF IdleJob, JobState
<1>6. IdleDrag \in DragState /\ IdleApp \in AppState
  BY <1>3 DEF IdleDrag, DragState, IdleApp, AppState, Authors
<1> QED
  BY <1>1, <1>2, <1>3, <1>4, <1>5, <1>6

\* The empty ledger is well typed.
LEMMA TypeInit == Init => TypeOK
BY ConstantTypes DEF Init, TypeOK

(* Typing of the table under the three writes of a session. *)
LEMMA FlushType ==
  ASSUME TypeOK, NEW r \in Row, Flush(r)
  PROVE  /\ row' \in [Ids -> Row]
         /\ n' \in Parents
         /\ n + 1 \in Ids
         /\ n + 1 \in Parents
<1>1. n + 1 \in Ids /\ n + 1 \in Parents
  BY CommitsAssumption DEF TypeOK, Flush, Ids, Parents
<1> QED
  BY <1>1 DEF TypeOK, Flush

\* COMMIT leaves the table well typed.
LEMMA PersistType ==
  ASSUME TypeOK, NEW i, Persist(i)
  PROVE  row' \in [Ids -> Row]
<1>1. ASSUME NEW k \in Ids
      PROVE  [row[k] EXCEPT !.tx = "done"] \in Row
  BY DEF TypeOK, Row, TxStates
<1> QED
  BY <1>1 DEF TypeOK, Persist

\* ROLLBACK leaves the table well typed.
LEMMA DiscardType ==
  ASSUME TypeOK, NEW i, Discard(i)
  PROVE  row' \in [Ids -> Row]
<1>1. [NoRow EXCEPT !.tx = "aborted"] \in Row
  BY ConstantTypes DEF Row, TxStates
<1> QED
  BY <1>1 DEF TypeOK, Discard

\* A job record of the right type can be stored.
LEMMA SetJobType ==
  ASSUME TypeOK, NEW j \in Jobs, NEW r \in JobState, SetJob(j, r)
  PROVE  job' \in [Jobs -> JobState]
BY DEF TypeOK, SetJob

\* A stored job record has the right type.
LEMMA JobType ==
  ASSUME TypeOK, NEW j \in Jobs
  PROVE  job[j] \in JobState
BY DEF TypeOK

\* The row a move inserts is a row.
LEMMA DragRowType ==
  ASSUME TypeOK, NEW p \in Ids, NEW a \in Authors,
         NEW w \in Users \cup {System}, NEW o \in Ops, NEW s \in Slots
  PROVE  DragRow(p, a, w, o, s) \in Row
<1>1. row[p].plan \in Plans /\ row[p].timed \in SUBSET Ops /\ p \in Parents
  BY ConstantTypes DEF TypeOK, Row
<1>2. [row[p].plan EXCEPT ![o] = s] \in Plans
  BY <1>1 DEF Plans, Places
<1> QED
  BY <1>1, <1>2 DEF DragRow, Row, TxStates

-----------------------------------------------------------------------------
(* Typing of every action.                                                 *)

\* Enqueuing a solve keeps the types.
LEMMA StartSolveType ==
  ASSUME TypeOK, NEW j \in Jobs, NEW a \in Enqueuers, NEW w \in BOOLEAN,
         StartSolve(j, a, w)
  PROVE  TypeOK'
<1> DEFINE r == [IdleJob EXCEPT !.pc = "solving", !.author = a, !.worker = w]
<1>1. r \in JobState
  BY ConstantTypes, CommitsAssumption DEF JobState
<1>2. job' \in [Jobs -> JobState]
  BY <1>1, SetJobType DEF StartSolve
<1> QED
  BY <1>2 DEF StartSolve, TypeOK

\* A plan refused by the validator keeps the types.
LEMMA SolveInvalidType ==
  ASSUME TypeOK, NEW j \in Jobs, SolveInvalid(j)
  PROVE  TypeOK'
<1>1. [job[j] EXCEPT !.pc = "live"] \in JobState
  BY JobType DEF JobState
<1>2. job' \in [Jobs -> JobState]
  BY <1>1, ConstantTypes, SetJobType DEF SolveInvalid
<1> QED
  BY <1>2 DEF SolveInvalid, TypeOK

\* The parent read of create_from_schedule keeps the types.
LEMMA SolveReadParentType ==
  ASSUME TypeOK, NEW j \in Jobs, NEW p \in Parents, NEW f \in Solved,
         SolveReadParent(j, p, f)
  PROVE  TypeOK'
<1>1. f \in Plans
  BY ConstantTypes
<1>2. [job[j] EXCEPT !.pc = "insert", !.parent = p, !.plan = f] \in JobState
  BY <1>1, JobType DEF JobState
<1>3. job' \in [Jobs -> JobState]
  BY <1>2, SetJobType DEF SolveReadParent
<1> QED
  BY <1>3 DEF SolveReadParent, TypeOK

\* The flush of create_from_schedule keeps the types.
LEMMA SolveInsertType ==
  ASSUME TypeOK, NEW j \in Jobs, NEW t \in Timings, SolveInsert(j, t)
  PROVE  TypeOK'
<1>1. SolveRow(j, t) \in Row
  BY CommitsAssumption DEF SolveRow, Row, TypeOK, JobState, TxStates, Authors
<1>2. row' \in [Ids -> Row] /\ n' \in Parents /\ n + 1 \in Parents
  BY <1>1, FlushType DEF SolveInsert
<1>3. [job[j] EXCEPT !.pc = "commit", !.mine = n + 1] \in JobState
  BY <1>2, JobType DEF JobState
<1>4. job' \in [Jobs -> JobState]
  BY <1>3, SetJobType DEF SolveInsert
<1> QED
  BY <1>2, <1>4 DEF SolveInsert, TypeOK

\* The commit of create_from_schedule keeps the types.
LEMMA SolveCommitType ==
  ASSUME TypeOK, NEW j \in Jobs, SolveCommit(j)
  PROVE  TypeOK'
<1>1. [job[j] EXCEPT !.pc = "live"] \in JobState
  BY JobType DEF JobState
<1>2. job' \in [Jobs -> JobState]
  BY <1>1, ConstantTypes, SetJobType DEF SolveCommit
<1>3. row' \in [Ids -> Row]
  BY PersistType DEF SolveCommit
<1> QED
  BY <1>2, <1>3 DEF SolveCommit, TypeOK

\* The reads of reapply_manual_overrides keep the types.
LEMMA ReapplyReadsType ==
  ASSUME TypeOK, NEW j \in Jobs,
         \/ \E l \in Parents : ReadLive(j, l)
         \/ \E m \in [Ops -> Slots \cup {None}] : ScanOverrides(j, m)
         \/ \E p \in Parents : ReadBase(j, p)
         \/ \E o \in Ops, p \in Parents : ReapplyRead(j, o, p)
         \/ ReapplyEnd(j)
  PROVE  TypeOK'
<1>1. ASSUME NEW l \in Parents, ReadLive(j, l)
      PROVE  TypeOK'
  <2>1. [job[j] EXCEPT !.pc = "scan", !.since = l] \in JobState
    BY JobType DEF JobState
  <2>2. job' \in [Jobs -> JobState]
    BY <2>1, <1>1, SetJobType DEF ReadLive
  <2> QED
    BY <2>2, <1>1 DEF ReadLive, TypeOK
<1>2. ASSUME NEW m \in [Ops -> Slots \cup {None}], ScanOverrides(j, m)
      PROVE  TypeOK'
  <2>1. [job[j] EXCEPT !.pc = "base", !.todo = m, !.found = m] \in JobState
    BY JobType DEF JobState
  <2>2. job' \in [Jobs -> JobState]
    BY <2>1, <1>2, SetJobType DEF ScanOverrides
  <2> QED
    BY <2>2, <1>2 DEF ScanOverrides, TypeOK
<1>3. ASSUME NEW p \in Parents, ReadBase(j, p)
      PROVE  TypeOK'
  <2>1. [job[j] EXCEPT !.pc = "loop", !.expected = p] \in JobState
    BY JobType DEF JobState
  <2>2. job' \in [Jobs -> JobState]
    BY <2>1, <1>3, SetJobType DEF ReadBase
  <2> QED
    BY <2>2, <1>3 DEF ReadBase, TypeOK
<1>4. ASSUME NEW o \in Ops, NEW p \in Parents, ReapplyRead(j, o, p)
      PROVE  TypeOK'
  <2>1. [job[j] EXCEPT !.pc = "rinsert", !.op = o, !.parent = p] \in JobState
    BY JobType DEF JobState
  <2>2. job' \in [Jobs -> JobState]
    BY <2>1, <1>4, SetJobType DEF ReapplyRead
  <2> QED
    BY <2>2, <1>4 DEF ReapplyRead, TypeOK
<1>5. ASSUME ReapplyEnd(j)
      PROVE  TypeOK'
  <2>1. job' \in [Jobs -> JobState]
    BY <1>5, ConstantTypes, SetJobType DEF ReapplyEnd
  <2> QED
    BY <2>1, <1>5 DEF ReapplyEnd, TypeOK
<1> QED
  BY <1>1, <1>2, <1>3, <1>4, <1>5

\* Dropping an override, with or without alert, keeps the types.
LEMMA ReapplyDropType ==
  ASSUME TypeOK, NEW j \in Jobs, NEW o \in Ops, NEW p \in Parents,
         ReapplySkip(j, o, p) \/ ReapplyReject(j, o, p)
  PROVE  TypeOK'
<1>1. [job[j].todo EXCEPT ![o] = None] \in [Ops -> Slots \cup {None}]
  BY DEF TypeOK, JobState
<1>2. [job[j] EXCEPT !.todo[o] = None] \in JobState
  BY <1>1, JobType DEF JobState
<1>3. [job[j] EXCEPT !.todo[o] = None, !.unsaid = @ \cup {o}] \in JobState
  <2>1. job[j].unsaid \cup {o} \in SUBSET Ops
    BY JobType DEF JobState
  <2> DEFINE t == [job[j].todo EXCEPT ![o] = None]
             d == job[j].unsaid \cup {o}
  <2>2. [job[j] EXCEPT !.todo[o] = None, !.unsaid = @ \cup {o}]
          = [job[j] EXCEPT !.todo = t, !.unsaid = d]
    BY JobType DEF JobState
  <2>3. t \in [Ops -> Slots \cup {None}] /\ d \in SUBSET Ops
    BY <1>1, <2>1
  <2> HIDE DEF t, d
  <2>4. [job[j] EXCEPT !.todo = t, !.unsaid = d] \in JobState
    BY <2>3, JobType DEF JobState
  <2> QED
    BY <2>2, <2>4
<1>4. job' \in [Jobs -> JobState]
  BY <1>2, <1>3, SetJobType DEF ReapplySkip, ReapplyReject
<1> QED
  BY <1>4 DEF ReapplySkip, ReapplyReject, Alerted, TypeOK

\* The flush of a re-applied move keeps the types.
LEMMA ReapplyInsertType ==
  ASSUME TypeOK, NEW j \in Jobs, JobInv(j), ReapplyInsert(j)
  PROVE  /\ TypeOK'
         /\ ReapplyRow(j) \in Row
<1>1. job[j].op \in Ops /\ job[j].todo[job[j].op] \in Slots /\ job[j].parent \in Ids
  BY DEF JobInv, ReapplyInsert
<1>2. ReapplyRow(j) \in Row
  BY <1>1, DragRowType DEF ReapplyRow, Authors
<1>3. row' \in [Ids -> Row] /\ n' \in Parents /\ n + 1 \in Parents
  BY <1>2, FlushType DEF ReapplyInsert
<1>4. [job[j] EXCEPT !.pc = "rcommit", !.mine = n + 1] \in JobState
  BY <1>3, JobType DEF JobState
<1>5. job' \in [Jobs -> JobState]
  BY <1>4, SetJobType DEF ReapplyInsert
<1> QED
  BY <1>2, <1>3, <1>5 DEF ReapplyInsert, TypeOK

\* The record of a job after a re-applied move is a job record.
LEMMA AppliedType ==
  ASSUME NEW x \in JobState, NEW m \in Parents,
         NEW t \in [Ops -> Slots \cup {None}],
         NEW b \in [Ops -> Slots \cup {None}]
  PROVE  [x EXCEPT !.pc = "loop", !.expected = m, !.op = None,
                   !.todo = t, !.applied = b] \in JobState
BY DEF JobState

\* The commit of a re-applied move keeps the types.
LEMMA ReapplyCommitType ==
  ASSUME TypeOK, NEW j \in Jobs, ReapplyCommit(j)
  PROVE  TypeOK'
<1> DEFINE o == job[j].op
           r == [job[j] EXCEPT !.pc = "loop", !.expected = job[j].mine,
                               !.op = None, !.todo[o] = None,
                               !.applied[o] = job[j].todo[o]]
<1>1. [job[j].todo EXCEPT ![o] = None] \in [Ops -> Slots \cup {None}]
  BY JobType DEF JobState
<1>2. [job[j].applied EXCEPT ![o] = job[j].todo[o]] \in [Ops -> Slots \cup {None}]
  BY JobType DEF JobState
<1>3. r \in JobState
  <2> DEFINE t == [job[j].todo EXCEPT ![o] = None]
             b == [job[j].applied EXCEPT ![o] = job[j].todo[o]]
  <2>1. r = [job[j] EXCEPT !.pc = "loop", !.expected = job[j].mine,
                           !.op = None, !.todo = t, !.applied = b]
    BY JobType DEF JobState
  <2>2. t \in [Ops -> Slots \cup {None}] /\ b \in [Ops -> Slots \cup {None}]
    BY <1>1, <1>2
  <2>3. job[j] \in JobState /\ job[j].mine \in Parents
    BY JobType DEF JobState
  <2> HIDE DEF t, b, r
  <2> QED
    BY <2>1, <2>2, <2>3, AppliedType
<1>4. job' \in [Jobs -> JobState]
  BY <1>3, SetJobType DEF ReapplyCommit
<1>5. row' \in [Ids -> Row]
  BY PersistType DEF ReapplyCommit
<1> QED
  BY <1>4, <1>5 DEF ReapplyCommit, TypeOK

\* A rollback of a job keeps the types.
LEMMA JobStopsType ==
  ASSUME TypeOK, NEW j \in Jobs, JobStops(j)
  PROVE  TypeOK'
<1>1. job' \in [Jobs -> JobState]
  BY ConstantTypes, SetJobType DEF JobStops
<1>2. row' \in [Ids -> Row]
  BY DiscardType DEF JobStops
<1> QED
  BY <1>1, <1>2 DEF JobStops, TypeOK

\* The steps of apply_manual_reorder for a person keep the types.
LEMMA MoveType ==
  ASSUME TypeOK, NEW u \in Users, DragInv(u), Move(u)
  PROVE  TypeOK'
<1>1. ASSUME NEW o \in Ops, NEW s \in Slots, NEW a \in MoveAuthors(u),
             NEW p \in Parents, DragRead(u, o, s, a, p)
      PROVE  TypeOK'
  <2>1. a \in Authors
    BY DEF MoveAuthors, Authors
  <2>2. [pc |-> "insert", author |-> a, op |-> o, slot |-> s, parent |-> p,
         mine |-> 0] \in DragState
    BY <2>1, ConstantTypes DEF DragState
  <2> QED
    BY <1>1, <2>2 DEF DragRead, TypeOK
<1>2. ASSUME DragInsert(u)
      PROVE  TypeOK'
  <2>1. drag[u] \in DragState
    BY DEF TypeOK
  <2>2. /\ drag[u].op \in Ops /\ drag[u].slot \in Slots
        /\ drag[u].parent \in Ids /\ drag[u].author \in Authors
    BY <1>2, <2>1 DEF DragInv, DragInsert, Done, DragState
  <2>3. DragRow(drag[u].parent, drag[u].author, u, drag[u].op, drag[u].slot) \in Row
    BY <2>2, DragRowType
  <2>4. row' \in [Ids -> Row] /\ n' \in Parents /\ n + 1 \in Parents
    BY <1>2, <2>3, FlushType DEF DragInsert
  <2>5. [drag[u] EXCEPT !.pc = "commit", !.mine = n + 1] \in DragState
    BY <2>1, <2>4 DEF DragState
  <2>6. drag' \in [Users -> DragState]
    BY <1>2, <2>5 DEF DragInsert, TypeOK
  <2> QED
    BY <1>2, <2>4, <2>6 DEF DragInsert, TypeOK
<1>3. ASSUME DragCommit(u)
      PROVE  TypeOK'
  <2>1. row' \in [Ids -> Row]
    BY <1>3, PersistType DEF DragCommit
  <2> QED
    BY <1>3, <2>1, ConstantTypes DEF DragCommit, TypeOK
<1>4. ASSUME DragStops(u)
      PROVE  TypeOK'
  <2>1. row' \in [Ids -> Row]
    BY <1>4, DiscardType DEF DragStops
  <2> QED
    BY <1>4, <2>1, ConstantTypes DEF DragStops, TypeOK
<1> QED
  BY <1>1, <1>2, <1>3, <1>4 DEF Move

\* The steps of an approval keep the types.
LEMMA ApproveType ==
  ASSUME TypeOK, NEW u \in Users, Approve(u)
  PROVE  TypeOK'
<1>1. app[u] \in AppState
  BY DEF TypeOK
<1>2. ASSUME NEW c \in Ids, NEW via \in Doors \cap {"approve", "promote"},
             ApproveLoad(u, c, via)
      PROVE  TypeOK'
  <2>1. row[c].status \in {"DRAFT", "LIVE"} /\ c \in Parents
    BY ConstantTypes DEF TypeOK, Row
  <2>2. [pc |-> "lock", via |-> via, commit |-> c, status |-> row[c].status]
          \in AppState
    BY <2>1 DEF AppState
  <2> QED
    BY <1>2, <2>2 DEF ApproveLoad, TypeOK
<1>3. ASSUME ApproveLock(u)
      PROVE  TypeOK'
  <2>1. [app[u] EXCEPT !.pc = "write"] \in AppState
    BY <1>1 DEF AppState
  <2> QED
    BY <1>3, <2>1 DEF ApproveLock, TypeOK
<1>4. ASSUME ApproveRefused(u)
      PROVE  TypeOK'
  BY <1>4, ConstantTypes DEF ApproveRefused, TypeOK
<1>5. ASSUME ApproveCommit(u)
      PROVE  TypeOK'
  <2>1. ASSUME NEW k \in Ids
        PROVE  [row[k] EXCEPT !.status = "LIVE"] \in Row
    BY DEF TypeOK, Row
  <2>2. row' \in [Ids -> Row]
    BY <1>5, <2>1 DEF ApproveCommit, TypeOK
  <2>3. [by |-> u, via |-> app[u].via] \in AuditRow
    BY <1>1 DEF AuditRow, AppState
  <2>4. audit' \in [Ids -> SUBSET AuditRow]
    BY <1>5, <2>3 DEF ApproveCommit, TypeOK
  <2> QED
    BY <1>5, <2>2, <2>4, ConstantTypes DEF ApproveCommit, TypeOK
<1>6. ASSUME ApproveStops(u)
      PROVE  TypeOK'
  BY <1>6, ConstantTypes DEF ApproveStops, TypeOK
<1> QED
  BY <1>2, <1>3, <1>4, <1>5, <1>6 DEF Approve

\* Every step keeps the types.
LEMMA TypeNext ==
  ASSUME IInv, [Next]_vars
  PROVE  TypeOK'
<1>1. CASE UNCHANGED vars
  BY <1>1 DEF vars, IInv, TypeOK
<1>2. ASSUME NEW j \in Jobs, Solve(j)
      PROVE  TypeOK'
  BY <1>2, StartSolveType, SolveInvalidType, SolveReadParentType,
     SolveInsertType, SolveCommitType, JobStopsType DEF Solve, IInv
<1>3. ASSUME NEW j \in Jobs, Reapply(j)
      PROVE  TypeOK'
  BY <1>3, ReapplyReadsType, ReapplyDropType, ReapplyInsertType,
     ReapplyCommitType DEF Reapply, IInv
<1>4. ASSUME NEW u \in Users, Move(u) \/ Approve(u)
      PROVE  TypeOK'
  BY <1>4, MoveType, ApproveType DEF IInv
<1> QED
  BY <1>1, <1>2, <1>3, <1>4 DEF Next

-----------------------------------------------------------------------------
(* What one write does to the rows of the others.  Row i is the one that    *)
(* the acting session owns, or 0.                                           *)

SameContent(k) ==
    /\ row'[k].tx = row[k].tx
    /\ row'[k].plan = row[k].plan
    /\ row'[k].timed = row[k].timed
    /\ row'[k].parent = row[k].parent
    /\ row'[k].author = row[k].author

Frame(i) ==
    \A k \in Ids : /\ Done(k) => SameContent(k)
                   /\ k # i /\ row[k].tx = "open" => row'[k] = row[k]

\* An INSERT touches no row but a new one.
LEMMA FlushFrame ==
  ASSUME TypeOK, TableInv, NEW r \in Row, Flush(r), r.tx = "open",
         r.status = "DRAFT", r.parent = 0 \/ Done(r.parent)
  PROVE  /\ Frame(0)
         /\ TableInv'
         /\ n + 1 \in Ids /\ n' = n + 1 /\ row'[n + 1] = r
         /\ row[n + 1].tx = "none"
         /\ \A k \in Ids : k # n + 1 => row'[k] = row[k]
<1>1. n \in Nat /\ n + 1 \in Ids /\ n' = n + 1
  BY CommitsAssumption DEF TypeOK, Flush, Ids, Parents
<1>2. row[n + 1].tx = "none"
  BY <1>1 DEF TableInv, Ids
<1>3. row'[n + 1] = r /\ \A k \in Ids : k # n + 1 => row'[k] = row[k]
  BY <1>1 DEF Flush, TypeOK
<1>4. Frame(0)
  BY <1>2, <1>3 DEF Frame, SameContent, Done
<1>5. r.parent = 0 \/ (Done(r.parent)' /\ r.parent < n + 1)
  BY <1>1, <1>2, <1>3 DEF Done, TableInv, Ids
<1>6. TableInv'
  <2> SUFFICES ASSUME NEW k \in Ids
               PROVE  /\ row'[k].tx # "none" => k <= n'
                      /\ row'[k].tx # "done" => row'[k].status = "DRAFT"
                      /\ \/ row'[k].parent = 0
                         \/ Done(row[k].parent)' /\ row'[k].parent < k
    BY DEF TableInv
  <2>1. CASE k = n + 1
    BY <2>1, <1>1, <1>3, <1>5
  <2>2. CASE k # n + 1
    <3>1. row'[k] = row[k]
      BY <2>2, <1>3
    <3>2. Done(row[k].parent) => Done(row[k].parent)'
      BY <3>1, <1>4 DEF Frame, SameContent, Done
    <3>3. k <= n => k <= n'
      BY <1>1 DEF Ids
    <3> QED
      BY <3>1, <3>2, <3>3 DEF TableInv
  <2> QED
    BY <2>1, <2>2
<1> QED
  BY <1>1, <1>2, <1>3, <1>4, <1>6

\* COMMIT touches only the row of its session.
LEMMA PersistFrame ==
  ASSUME TypeOK, TableInv, NEW i \in Ids, row[i].tx = "open", Persist(i), n' = n
  PROVE  Frame(i) /\ TableInv' /\ row'[i].tx = "done"
<1>1. row'[i] = [row[i] EXCEPT !.tx = "done"] /\ \A k \in Ids : k # i => row'[k] = row[k]
  BY DEF Persist, TypeOK
<1>2. row[i] \in Row
  BY DEF TypeOK
<1>3. /\ row'[i].tx = "done" /\ row'[i].parent = row[i].parent
      /\ row'[i].plan = row[i].plan /\ row'[i].author = row[i].author
  BY <1>1, <1>2 DEF Row
<1>4. Frame(i)
  BY <1>1 DEF Frame, SameContent, Done
<1>5. \A k \in Ids : Done(k) => Done(k)'
  BY <1>4 DEF Frame, SameContent, Done
<1>6. TableInv'
  <2> SUFFICES ASSUME NEW k \in Ids
               PROVE  /\ row'[k].tx # "none" => k <= n'
                      /\ row'[k].tx # "done" => row'[k].status = "DRAFT"
                      /\ \/ row'[k].parent = 0
                         \/ Done(row[k].parent)' /\ row'[k].parent < k
    BY DEF TableInv
  <2>1. row'[k].parent = row[k].parent
    BY <1>1, <1>3
  <2>2. Done(row[k].parent) => Done(row[k].parent)'
    BY <1>5, <2>1 DEF Done
  <2> QED
    BY <2>1, <2>2, <1>1, <1>3 DEF TableInv
<1> QED
  BY <1>3, <1>4, <1>6

\* ROLLBACK touches only the open row of its session.
LEMMA DiscardFrame ==
  ASSUME TypeOK, TableInv, NEW i, Discard(i), n' = n
  PROVE  Frame(i) /\ TableInv'
<1>1. \A k \in Ids : row'[k] = IF k = i /\ row[k].tx = "open"
                                 THEN [NoRow EXCEPT !.tx = "aborted"] ELSE row[k]
  BY DEF Discard
<1>2. LET q == [NoRow EXCEPT !.tx = "aborted"]
      IN  q.tx = "aborted" /\ q.parent = 0 /\ q.status = "DRAFT"
  BY DEF NoRow
<1>3. Frame(i)
  BY <1>1 DEF Frame, SameContent, Done
<1>4. \A k \in Ids : Done(k) => Done(k)'
  BY <1>3 DEF Frame, SameContent, Done
<1>5. TableInv'
  BY <1>1, <1>2, <1>4 DEF TableInv, Done
<1> QED
  BY <1>3, <1>5

\* A promotion changes the status of one visible row.
LEMMA PromoteFrame ==
  ASSUME TypeOK, TableInv, NEW i, Done(i),
         row' = [row EXCEPT ![i].status = "LIVE"], n' = n
  PROVE  Frame(0) /\ TableInv'
<1>1. /\ row'[i] = [row[i] EXCEPT !.status = "LIVE"]
      /\ \A k \in Ids : k # i => row'[k] = row[k]
  BY DEF Done, TypeOK
<1>2. row[i] \in Row
  BY DEF TypeOK, Done
<1>3. SameContent(i)
  BY <1>1, <1>2 DEF SameContent, Row
<1>4. Frame(0)
  BY <1>1, <1>3 DEF Frame, SameContent, Done
<1>5. \A k \in Ids : Done(k) => Done(k)'
  BY <1>4 DEF Frame, SameContent, Done
<1>6. TableInv'
  BY <1>1, <1>3, <1>5 DEF TableInv, Done, SameContent
<1> QED
  BY <1>4, <1>6

\* A step that leaves the table alone satisfies the frame.
LEMMA StillFrame ==
  ASSUME TableInv, row' = row, n' = n
  PROVE  Frame(0) /\ TableInv'
BY DEF Frame, SameContent, TableInv, Done

-----------------------------------------------------------------------------
(* A session that does not act keeps its invariant.                         *)

\* A job that does not act keeps its invariant.
LEMMA JobFrame ==
  ASSUME TypeOK, NEW k \in Jobs, JobInv(k), NEW i, Frame(i), job'[k] = job[k],
         job[k].pc \in Writing => job[k].mine # i
  PROVE  JobInv(k)'
<1>1. \A p : Done(p) => /\ Done(p)' /\ row'[p].plan = row[p].plan
                        /\ row'[p].timed = row[p].timed
  BY DEF Frame, SameContent, Done
<1>2. job[k].pc \in Writing => row'[job[k].mine] = row[job[k].mine]
  BY DEF JobInv, Frame
<1>3. /\ job[k].pc \in {"rinsert", "rcommit"} => Done(job[k].parent)
      /\ \A o \in Ops : job[k].applied[o] # None => Done(job[k].expected)
  BY ConstantTypes DEF JobInv
<1>4. job[k].pc = "rcommit" => job[k].pc \in Writing
  BY DEF Writing
<1> QED
  BY <1>1, <1>2, <1>3, <1>4 DEF JobInv, SameBase

\* A move that does not act keeps its invariant.
LEMMA DragFrame ==
  ASSUME NEW v \in Users, DragInv(v), NEW i, Frame(i), drag'[v] = drag[v],
         drag[v].pc = "commit" => drag[v].mine # i
  PROVE  DragInv(v)'
BY DEF DragInv, Frame, SameContent, Done

\* An approval that does not act keeps its invariant.
LEMMA AppFrame ==
  ASSUME NEW v \in Users, AppInv(v), NEW i, Frame(i), app'[v] = app[v],
         app[v].pc = "write" => lock'[app[v].commit] = lock[app[v].commit]
  PROVE  AppInv(v)'
BY DEF AppInv, Frame, SameContent, Done

\* Audit rows stay justified while the table grows.
LEMMA AuditFrame ==
  ASSUME AuditInv, NEW i, Frame(i), audit' = audit
  PROVE  AuditInv'
BY DEF AuditInv, Frame, SameContent, Done

-----------------------------------------------------------------------------
(* The sessions beside the acting one.                                      *)

\* The row a session owns was flushed.
LEMMA MineBound ==
  ASSUME IInv
  PROVE  /\ n \in Nat
         /\ \A k \in Jobs : job[k].mine # n + 1
         /\ \A u \in Users : drag[u].mine # n + 1
         /\ \A k \in Jobs : job[k].pc \in Writing => job[k].mine # 0
         /\ \A u \in Users : drag[u].pc = "commit" => drag[u].mine # 0
<1>1. n \in Nat
  BY DEF IInv, TypeOK, Parents
<1>2. \A i \in Ids : row[i].tx # "none" => i # n + 1
  BY <1>1 DEF IInv, TableInv, Ids
<1>3. 0 # n + 1 /\ 0 \notin Ids
  BY <1>1, ConstantTypes
<1>4. \A k \in Jobs : job[k].mine # n + 1
  BY <1>2, <1>3 DEF IInv, JobInv, Done
<1>5. \A u \in Users : drag[u].mine # n + 1
  BY <1>2, <1>3 DEF IInv, DragInv
<1> QED
  BY <1>1, <1>3, <1>4, <1>5 DEF IInv, JobInv, DragInv

\* A step of one job disturbs no other session.
LEMMA JobOthers ==
  ASSUME IInv, NEW j \in Jobs, NEW r, SetJob(j, r),
         UNCHANGED <<drag, app, lock, audit>>,
         NEW i, Frame(i), i = 0 \/ i = job[j].mine
  PROVE  /\ \A k \in Jobs : k # j => JobInv(k)'
         /\ \A u \in Users : DragInv(u)' /\ AppInv(u)'
         /\ AuditInv'
<1>1. ASSUME NEW k \in Jobs, k # j
      PROVE  JobInv(k)'
  <2>1. job'[k] = job[k]
    BY <1>1 DEF SetJob, IInv, TypeOK
  <2>2. job[k].pc \in Writing => job[k].mine # i
    BY <1>1, MineBound DEF IInv, OwnersInv
  <2> QED
    BY <2>1, <2>2, JobFrame DEF IInv
<1>2. ASSUME NEW u \in Users
      PROVE  DragInv(u)' /\ AppInv(u)'
  <2>1. drag[u].pc = "commit" => drag[u].mine # i
    BY MineBound DEF IInv, OwnersInv
  <2>2. DragInv(u)'
    BY <2>1, DragFrame DEF IInv
  <2>3. AppInv(u)'
    BY AppFrame DEF IInv
  <2> QED
    BY <2>2, <2>3
<1>3. AuditInv'
  BY AuditFrame DEF IInv
<1> QED
  BY <1>1, <1>2, <1>3

\* After a step of a job no two sessions own the same row.
LEMMA JobOwners ==
  ASSUME IInv, NEW j \in Jobs, NEW r, SetJob(j, r), drag' = drag,
         r.mine \in {0, n + 1, job[j].mine}
  PROVE  OwnersInv'
<1>1. job'[j] = r /\ \A k \in Jobs : k # j => job'[k] = job[k]
  BY DEF SetJob, IInv, TypeOK
<1>2. OwnersInv
  BY DEF IInv
<1> QED
  BY <1>1, <1>2, MineBound DEF OwnersInv

(* The invariant after a step of job j follows from the invariant of j.     *)
LEMMA JobStep ==
  ASSUME IInv, TypeOK', TableInv', NEW j \in Jobs, NEW r, SetJob(j, r),
         UNCHANGED <<drag, app, lock, audit>>,
         NEW i, Frame(i), i = 0 \/ i = job[j].mine,
         r.mine \in {0, n + 1, job[j].mine}, JobInv(j)'
  PROVE  IInv'
BY JobOthers, JobOwners DEF IInv

(* The invariant of a job that is not writing and has re-applied nothing.   *)
LEMMA FreshJob ==
  ASSUME NEW j \in Jobs, job'[j].pc \in Fresh \ Writing,
         job'[j].applied = NoMoves,
         job'[j].parent = 0 \/ Done(job[j].parent)',
         job'[j].expected = 0 \/ Done(job[j].expected)',
         job'[j].mine = 0 \/ Done(job[j].mine)'
  PROVE  JobInv(j)'
BY DEF JobInv, Fresh, Writing, NoMoves

\* A visible row stays visible.
LEMMA DoneKept ==
  ASSUME NEW i, Frame(i)
  PROVE  \A k \in Ids : row[k].tx = "done" => row'[k].tx = "done"
BY DEF Frame, SameContent, Done

\* Every step of a solve keeps the invariant.
LEMMA SolveInv ==
  ASSUME IInv, TypeOK', NEW j \in Jobs, Solve(j)
  PROVE  IInv'
<1>0. job[j] \in JobState /\ JobInv(j) /\ TypeOK /\ TableInv
  BY JobType DEF IInv
<1>1. ASSUME NEW a \in Enqueuers, NEW w \in BOOLEAN, StartSolve(j, a, w)
      PROVE  IInv'
  <2> DEFINE r == [IdleJob EXCEPT !.pc = "solving", !.author = a, !.worker = w]
  <2>1. job'[j] = r /\ r.mine = 0 /\ SetJob(j, r)
    BY <1>0, <1>1 DEF StartSolve, SetJob, TypeOK, IdleJob
  <2>2. Frame(0) /\ TableInv'
    BY <1>0, <1>1, StillFrame DEF StartSolve
  <2>3. JobInv(j)'
    BY <2>1, FreshJob DEF IdleJob, Writing, Fresh
  <2> QED
    BY <1>1, <2>1, <2>2, <2>3, JobStep DEF StartSolve
<1>2. ASSUME SolveInvalid(j)
      PROVE  IInv'
  <2> DEFINE r == IF job[j].worker THEN [job[j] EXCEPT !.pc = "live"] ELSE IdleJob
  <2>1. job'[j] = r /\ SetJob(j, r) /\ r.mine \in {0, job[j].mine}
    BY <1>0, <1>2 DEF SolveInvalid, SetJob, TypeOK, IdleJob, JobState
  <2>2. Frame(0) /\ TableInv' /\ row' = row
    BY <1>0, <1>2, StillFrame DEF SolveInvalid
  <2>3. /\ r.pc \in {"live", "idle"} /\ r.applied = NoMoves
        /\ r.parent \in {0, job[j].parent}
        /\ r.expected \in {0, job[j].expected}
    BY <1>0, <1>2 DEF SolveInvalid, JobInv, Fresh, IdleJob, JobState
  <2>4. job[j].mine = 0 \/ Done(job[j].mine)
    BY <1>0, <1>2 DEF SolveInvalid, JobInv, Writing
  <2>5. JobInv(j)'
    <3> HIDE DEF r
    <3> QED
      BY <1>0, <2>1, <2>2, <2>3, <2>4, FreshJob
      DEF JobInv, Done, Fresh, Writing
  <2> QED
    BY <1>2, <2>1, <2>2, <2>5, JobStep DEF SolveInvalid
<1>3. ASSUME NEW p \in Parents, NEW f \in Solved, SolveReadParent(j, p, f)
      PROVE  IInv'
  <2> DEFINE r == [job[j] EXCEPT !.pc = "insert", !.parent = p, !.plan = f]
  <2>1. job'[j] = r /\ SetJob(j, r) /\ r.mine = job[j].mine
    BY <1>0, <1>3 DEF SolveReadParent, SetJob, TypeOK, JobState
  <2>2. Frame(0) /\ TableInv' /\ row' = row
    BY <1>0, <1>3, StillFrame DEF SolveReadParent
  <2>3. /\ r.pc = "insert" /\ r.applied = NoMoves /\ r.parent = p
        /\ r.expected = job[j].expected /\ (p = 0 \/ Done(p))
        /\ job[j].mine = 0 \/ Done(job[j].mine)
    BY <1>0, <1>3 DEF SolveReadParent, JobInv, Fresh, Writing, JobState, IsLatest
  <2>4. JobInv(j)'
    <3> HIDE DEF r
    <3>1. job'[j].parent = 0 \/ Done(job[j].parent)'
      BY <2>1, <2>2, <2>3 DEF Done
    <3>2. job'[j].expected = 0 \/ Done(job[j].expected)'
      BY <1>0, <2>1, <2>2, <2>3 DEF Done, JobInv
    <3>3. job'[j].mine = 0 \/ Done(job[j].mine)'
      BY <2>1, <2>2, <2>3 DEF Done
    <3> QED
      BY <2>1, <2>3, <3>1, <3>2, <3>3, FreshJob DEF Fresh, Writing
  <2> QED
    BY <1>3, <2>1, <2>2, <2>4, JobStep DEF SolveReadParent
<1>4. ASSUME NEW t \in Timings, SolveInsert(j, t)
      PROVE  IInv'
  <2> DEFINE r == [job[j] EXCEPT !.pc = "commit", !.mine = n + 1]
  <2>1. job'[j] = r /\ SetJob(j, r) /\ r.mine = n + 1
    BY <1>0, <1>4 DEF SolveInsert, SetJob, TypeOK, JobState
  <2>2. SolveRow(j, t) \in Row
    BY <1>0, CommitsAssumption DEF SolveRow, Row, JobState, TxStates, Authors
  <2>3. /\ SolveRow(j, t).tx = "open" /\ SolveRow(j, t).status = "DRAFT"
        /\ SolveRow(j, t).parent = job[j].parent
    BY DEF SolveRow
  <2>4. /\ Frame(0) /\ TableInv' /\ n + 1 \in Ids
        /\ row'[n + 1] = SolveRow(j, t)
    BY <1>0, <1>4, <2>2, <2>3, FlushFrame DEF SolveInsert, JobInv
  <2>5. /\ r.pc = "commit" /\ r.applied = NoMoves /\ r.parent = job[j].parent
        /\ r.expected = job[j].expected
    BY <1>0, <1>4 DEF SolveInsert, JobInv, Fresh, JobState
  <2>6. row'[n + 1].tx = "open"
    BY <2>3, <2>4
  <2>7. JobInv(j)'
    <3> HIDE DEF r
    <3> QED
      BY <1>0, <2>1, <2>4, <2>5, <2>6, DoneKept
      DEF JobInv, Done, Fresh, Writing, NoMoves
  <2> QED
    BY <1>4, <2>1, <2>4, <2>7, JobStep DEF SolveInsert
<1>5. ASSUME SolveCommit(j)
      PROVE  IInv'
  <2> DEFINE r == IF job[j].worker THEN [job[j] EXCEPT !.pc = "live"] ELSE IdleJob
  <2>1. job'[j] = r /\ SetJob(j, r) /\ r.mine \in {0, job[j].mine}
    BY <1>0, <1>5 DEF SolveCommit, SetJob, TypeOK, IdleJob, JobState
  <2>2. job[j].mine \in Ids /\ row[job[j].mine].tx = "open"
    BY <1>0, <1>5 DEF SolveCommit, JobInv, Writing
  <2>3. Frame(job[j].mine) /\ TableInv' /\ row'[job[j].mine].tx = "done"
    BY <1>0, <1>5, <2>2, PersistFrame DEF SolveCommit
  <2>4. /\ r.pc \in {"live", "idle"} /\ r.applied = NoMoves
        /\ r.parent \in {0, job[j].parent}
        /\ r.expected \in {0, job[j].expected}
    BY <1>0, <1>5 DEF SolveCommit, JobInv, Fresh, IdleJob, JobState
  <2>5. JobInv(j)'
    <3> HIDE DEF r
    <3>0. job'[j] = r /\ Frame(job[j].mine) /\ job[j].mine \in Ids
      BY <2>1, <2>2, <2>3
    <3>1. \A k \in Ids : row[k].tx = "done" => row'[k].tx = "done"
      BY <3>0, DoneKept
    <3>2. job'[j].parent = 0 \/ Done(job[j].parent)'
      BY <1>0, <2>4, <3>0, <3>1 DEF Done, JobInv
    <3>3. job'[j].expected = 0 \/ Done(job[j].expected)'
      BY <1>0, <2>4, <3>0, <3>1 DEF Done, JobInv
    <3>4. job'[j].mine = 0 \/ Done(job[j].mine)'
      BY <2>1, <2>3, <3>0 DEF Done
    <3>5. job'[j].pc \in Fresh \ Writing /\ job'[j].applied = NoMoves
      BY <2>4, <3>0 DEF Fresh, Writing
    <3> QED
      BY <3>2, <3>3, <3>4, <3>5, FreshJob
  <2> QED
    BY <1>5, <2>1, <2>3, <2>5, JobStep DEF SolveCommit
<1>6. ASSUME JobStops(j)
      PROVE  IInv'
  <2>1. job'[j] = IdleJob /\ SetJob(j, IdleJob) /\ IdleJob.mine = 0
    BY <1>0, <1>6 DEF JobStops, SetJob, TypeOK, IdleJob
  <2>2. Frame(job[j].mine) /\ TableInv'
    BY <1>0, <1>6, DiscardFrame DEF JobStops
  <2>3. JobInv(j)'
    BY <2>1, FreshJob DEF IdleJob, Writing, Fresh
  <2> QED
    BY <1>6, <2>1, <2>2, <2>3, JobStep DEF JobStops
<1> QED
  BY <1>1, <1>2, <1>3, <1>4, <1>5, <1>6 DEF Solve

(* The invariant of a job between two overrides.                            *)
LEMMA LoopJob ==
  ASSUME NEW j \in Jobs, job'[j].pc = "loop",
         job'[j].parent = 0 \/ Done(job[j].parent)',
         job'[j].expected = 0 \/ Done(job[j].expected)',
         job'[j].mine = 0 \/ Done(job[j].mine)',
         \A o \in Ops : job'[j].applied[o] # None =>
           /\ job'[j].expected # 0
           /\ row'[job'[j].expected].plan[o] = job'[j].applied[o]
  PROVE  JobInv(j)'
BY DEF JobInv, Fresh, Writing

(* A step of a job that only reads: its fields but pc, todo, found, since    *)
(* and expected stay.                                                        *)
LEMMA ReapplyReadsInv ==
  ASSUME IInv, TypeOK', NEW j \in Jobs,
         \/ \E l \in Parents : ReadLive(j, l)
         \/ \E m \in [Ops -> Slots \cup {None}] : ScanOverrides(j, m)
         \/ \E p \in Parents : ReadBase(j, p)
         \/ \E o \in Ops, p \in Parents :
              ReapplySkip(j, o, p) \/ ReapplyReject(j, o, p)
  PROVE  IInv'
<1>0. job[j] \in JobState /\ JobInv(j) /\ TypeOK /\ TableInv
  BY JobType DEF IInv
<1>1. ASSUME NEW l \in Parents, ReadLive(j, l)
      PROVE  IInv'
  <2> DEFINE r == [job[j] EXCEPT !.pc = "scan", !.since = l]
  <2>1. job'[j] = r /\ SetJob(j, r) /\ r.mine = job[j].mine
    BY <1>0, <1>1 DEF ReadLive, SetJob, TypeOK, JobState
  <2>2. Frame(0) /\ TableInv' /\ row' = row
    BY <1>0, <1>1, StillFrame DEF ReadLive
  <2>3. /\ r.pc = "scan" /\ r.applied = NoMoves /\ r.parent = job[j].parent
        /\ r.expected = job[j].expected
        /\ job[j].mine = 0 \/ Done(job[j].mine)
    BY <1>0, <1>1 DEF ReadLive, JobInv, Fresh, Writing, JobState
  <2>4. JobInv(j)'
    <3> HIDE DEF r
    <3>1. job'[j].parent = 0 \/ Done(job[j].parent)'
      BY <1>0, <2>1, <2>2, <2>3 DEF Done, JobInv
    <3>2. job'[j].expected = 0 \/ Done(job[j].expected)'
      BY <1>0, <2>1, <2>2, <2>3 DEF Done, JobInv
    <3>3. job'[j].mine = 0 \/ Done(job[j].mine)'
      BY <2>1, <2>2, <2>3 DEF Done
    <3> QED
      BY <2>1, <2>3, <3>1, <3>2, <3>3, FreshJob DEF Fresh, Writing
  <2> QED
    BY <1>1, <2>1, <2>2, <2>4, JobStep DEF ReadLive
<1>2. ASSUME NEW m \in [Ops -> Slots \cup {None}], ScanOverrides(j, m)
      PROVE  IInv'
  <2> DEFINE r == [job[j] EXCEPT !.pc = "base", !.todo = m, !.found = m]
  <2>1. job'[j] = r /\ SetJob(j, r) /\ r.mine = job[j].mine
    BY <1>0, <1>2 DEF ScanOverrides, SetJob, TypeOK, JobState
  <2>2. Frame(0) /\ TableInv' /\ row' = row
    BY <1>0, <1>2, StillFrame DEF ScanOverrides
  <2>3. /\ r.pc = "base" /\ r.applied = NoMoves /\ r.parent = job[j].parent
        /\ r.expected = job[j].expected
        /\ job[j].mine = 0 \/ Done(job[j].mine)
    BY <1>0, <1>2 DEF ScanOverrides, JobInv, Fresh, Writing, JobState
  <2>4. JobInv(j)'
    <3> HIDE DEF r
    <3>1. job'[j].parent = 0 \/ Done(job[j].parent)'
      BY <1>0, <2>1, <2>2, <2>3 DEF Done, JobInv
    <3>2. job'[j].expected = 0 \/ Done(job[j].expected)'
      BY <1>0, <2>1, <2>2, <2>3 DEF Done, JobInv
    <3>3. job'[j].mine = 0 \/ Done(job[j].mine)'
      BY <2>1, <2>2, <2>3 DEF Done
    <3> QED
      BY <2>1, <2>3, <3>1, <3>2, <3>3, FreshJob DEF Fresh, Writing
  <2> QED
    BY <1>2, <2>1, <2>2, <2>4, JobStep DEF ScanOverrides
<1>3. ASSUME NEW p \in Parents, ReadBase(j, p)
      PROVE  IInv'
  <2> DEFINE r == [job[j] EXCEPT !.pc = "loop", !.expected = p]
  <2>1. job'[j] = r /\ SetJob(j, r) /\ r.mine = job[j].mine
    BY <1>0, <1>3 DEF ReadBase, SetJob, TypeOK, JobState
  <2>2. Frame(0) /\ TableInv' /\ row' = row
    BY <1>0, <1>3, StillFrame DEF ReadBase
  <2>3. /\ r.pc = "loop" /\ r.applied = NoMoves /\ r.parent = job[j].parent
        /\ r.expected = p /\ (p = 0 \/ Done(p))
        /\ job[j].mine = 0 \/ Done(job[j].mine)
    BY <1>0, <1>3 DEF ReadBase, JobInv, Fresh, Writing, JobState, IsLatest
  <2>4. JobInv(j)'
    <3> HIDE DEF r
    <3>1. job'[j].parent = 0 \/ Done(job[j].parent)'
      BY <1>0, <2>1, <2>2, <2>3 DEF Done, JobInv
    <3>2. job'[j].expected = 0 \/ Done(job[j].expected)'
      BY <2>1, <2>2, <2>3 DEF Done
    <3>3. job'[j].mine = 0 \/ Done(job[j].mine)'
      BY <2>1, <2>2, <2>3 DEF Done
    <3>4. \A o \in Ops : job'[j].applied[o] = None
      BY <2>1, <2>3 DEF NoMoves
    <3> QED
      BY <2>1, <2>3, <3>1, <3>2, <3>3, <3>4, LoopJob
  <2> QED
    BY <1>3, <2>1, <2>2, <2>4, JobStep DEF ReadBase
<1>4. ASSUME NEW o \in Ops, NEW p \in Parents,
             ReapplySkip(j, o, p) \/ ReapplyReject(j, o, p)
      PROVE  IInv'
  <2>1. PICK r \in {[job[j] EXCEPT !.todo[o] = None],
                    [job[j] EXCEPT !.todo[o] = None, !.unsaid = @ \cup {o}]} :
          SetJob(j, r) /\ UNCHANGED <<row, n, drag, app, lock, audit>>
    BY <1>4 DEF ReapplySkip, ReapplyReject
  <2>2. job'[j] = r
    BY <1>0, <2>1 DEF SetJob, TypeOK
  <2>3. Frame(0) /\ TableInv' /\ row' = row
    BY <1>0, <2>1, StillFrame
  <2>4. /\ r.pc = "loop" /\ r.applied = job[j].applied /\ r.mine = job[j].mine
        /\ r.parent = job[j].parent /\ r.expected = job[j].expected
        /\ job[j].mine = 0 \/ Done(job[j].mine)
    <3>1. /\ r.pc = job[j].pc /\ r.applied = job[j].applied
          /\ r.mine = job[j].mine /\ r.parent = job[j].parent
          /\ r.expected = job[j].expected
      <4>1. CASE r = [job[j] EXCEPT !.todo[o] = None]
        BY <1>0, <4>1 DEF JobState
      <4>2. CASE r = [job[j] EXCEPT !.todo[o] = None, !.unsaid = @ \cup {o}]
        BY <1>0, <4>2 DEF JobState
      <4> QED
        BY <2>1, <4>1, <4>2
    <3>2. job[j].pc = "loop"
      BY <1>4 DEF ReapplySkip, ReapplyReject
    <3> QED
      BY <1>0, <3>1, <3>2 DEF JobInv, Writing
  <2>5. JobInv(j)'
    <3>1. job'[j].parent = 0 \/ Done(job[j].parent)'
      BY <1>0, <2>2, <2>3, <2>4 DEF Done, JobInv
    <3>2. job'[j].expected = 0 \/ Done(job[j].expected)'
      BY <1>0, <2>2, <2>3, <2>4 DEF Done, JobInv
    <3>3. job'[j].mine = 0 \/ Done(job[j].mine)'
      BY <2>2, <2>3, <2>4 DEF Done
    <3>4. \A q \in Ops : job'[j].applied[q] # None =>
            /\ job'[j].expected # 0
            /\ row'[job'[j].expected].plan[q] = job'[j].applied[q]
      BY <1>0, <2>2, <2>3, <2>4 DEF JobInv
    <3> QED
      BY <2>2, <2>4, <3>1, <3>2, <3>3, <3>4, LoopJob
  <2> QED
    BY <2>1, <2>3, <2>4, <2>5, JobStep
<1> QED
  BY <1>1, <1>2, <1>3, <1>4

(* apply_manual_reorder inside the loop of a job.                            *)
LEMMA ReapplyWritesInv ==
  ASSUME IInv, TypeOK', NEW j \in Jobs,
         \/ \E o \in Ops, p \in Parents : ReapplyRead(j, o, p)
         \/ ReapplyInsert(j)
         \/ ReapplyCommit(j)
         \/ ReapplyEnd(j)
  PROVE  IInv'
<1>0. job[j] \in JobState /\ JobInv(j) /\ TypeOK /\ TableInv
  BY JobType DEF IInv
<1>1. ASSUME NEW o \in Ops, NEW p \in Parents, ReapplyRead(j, o, p)
      PROVE  IInv'
  <2> DEFINE r == [job[j] EXCEPT !.pc = "rinsert", !.op = o, !.parent = p]
  <2>1. job'[j] = r /\ SetJob(j, r) /\ r.mine = job[j].mine
    BY <1>0, <1>1 DEF ReapplyRead, SetJob, TypeOK, JobState
  <2>2. Frame(0) /\ TableInv' /\ row' = row
    BY <1>0, <1>1, StillFrame DEF ReapplyRead
  <2>3. /\ r.pc = "rinsert" /\ r.applied = job[j].applied /\ r.parent = p
        /\ r.expected = job[j].expected /\ r.op = o /\ r.todo = job[j].todo
    BY <1>0 DEF JobState
  <2>4. /\ p \in Ids /\ Done(p)
        /\ job[j].todo[o] \in Slots
        /\ job[j].expected = 0 \/ p = job[j].expected
        /\ job[j].mine = 0 \/ Done(job[j].mine)
    BY <1>0, <1>1, ConstantTypes
    DEF ReapplyRead, Applicable, Movable, InPlan, IsLatest, SameBase, JobInv, Writing, JobState
  <2>5. JobInv(j)'
    <3> HIDE DEF r
    <3> QED
      BY <1>0, <2>1, <2>2, <2>3, <2>4
      DEF JobInv, Done, Fresh, Writing, SameBase
  <2> QED
    BY <1>1, <2>1, <2>2, <2>5, JobStep DEF ReapplyRead
<1>2. ASSUME ReapplyInsert(j)
      PROVE  IInv'
  <2> DEFINE r == [job[j] EXCEPT !.pc = "rcommit", !.mine = n + 1]
  <2>1. job'[j] = r /\ SetJob(j, r) /\ r.mine = n + 1
    BY <1>0, <1>2 DEF ReapplyInsert, SetJob, TypeOK, JobState
  <2>2. ReapplyRow(j) \in Row
    BY <1>0, <1>2, ReapplyInsertType
  <2>3. /\ ReapplyRow(j).tx = "open" /\ ReapplyRow(j).status = "DRAFT"
        /\ ReapplyRow(j).parent = job[j].parent
        /\ ReapplyRow(j).plan =
             [row[job[j].parent].plan EXCEPT ![job[j].op] =
                 job[j].todo[job[j].op]]
        /\ ReapplyRow(j).timed = row[job[j].parent].timed
    BY DEF ReapplyRow, DragRow
  <2>4. /\ Frame(0) /\ TableInv' /\ n + 1 \in Ids
        /\ row'[n + 1] = ReapplyRow(j)
    BY <1>0, <1>2, <2>2, <2>3, FlushFrame DEF ReapplyInsert, JobInv
  <2>5. /\ r.pc = "rcommit" /\ r.applied = job[j].applied
        /\ r.parent = job[j].parent /\ r.expected = job[j].expected
        /\ r.op = job[j].op /\ r.todo = job[j].todo
    BY <1>0 DEF JobState
  <2>6. /\ Done(job[j].parent) /\ job[j].op \in Ops
        /\ job[j].todo[job[j].op] \in Slots
        /\ job[j].expected = 0 \/ job[j].parent = job[j].expected
    BY <1>0, <1>2, ConstantTypes DEF ReapplyInsert, JobInv, SameBase
  <2>7. \A k : Done(k) => /\ row'[k].tx = "done" /\ row'[k].plan = row[k].plan
                          /\ row'[k].timed = row[k].timed
    BY <2>4 DEF Frame, SameContent, Done
  <2>8. /\ row'[n + 1].tx = "open"
        /\ row'[n + 1].timed = row'[job[j].parent].timed
        /\ row'[n + 1].plan = [row'[job[j].parent].plan EXCEPT ![job[j].op] =
                                  job[j].todo[job[j].op]]
    BY <2>3, <2>4, <2>6, <2>7
  <2>9. JobInv(j)'
    <3> HIDE DEF r
    <3> QED
      BY <1>0, <2>1, <2>4, <2>5, <2>6, <2>7, <2>8
      DEF JobInv, Done, Fresh, Writing, SameBase
  <2> QED
    BY <1>2, <2>1, <2>4, <2>9, JobStep DEF ReapplyInsert
<1>3. ASSUME ReapplyCommit(j)
      PROVE  IInv'
  <2> DEFINE o == job[j].op
             i == job[j].mine
             r == [job[j] EXCEPT !.pc = "loop", !.expected = job[j].mine,
                                 !.op = None, !.todo[o] = None,
                                 !.applied[o] = job[j].todo[o]]
  <2>1. job'[j] = r /\ SetJob(j, r) /\ r.mine = i
    BY <1>0, <1>3 DEF ReapplyCommit, SetJob, TypeOK, JobState
  <2>2. i \in Ids /\ row[i].tx = "open"
    BY <1>0, <1>3 DEF ReapplyCommit, JobInv, Writing
  <2>3. Frame(i) /\ TableInv' /\ row'[i].tx = "done"
    BY <1>0, <1>3, <2>2, PersistFrame DEF ReapplyCommit
  <2>4. row'[i].plan = row[i].plan
    BY <1>0, <1>3, <2>2 DEF ReapplyCommit, Persist, TypeOK, Row
  <2>5. /\ Done(job[j].parent) /\ o \in Ops
        /\ job[j].todo[o] \in Slots
        /\ job[j].expected = 0 \/ job[j].parent = job[j].expected
        /\ row[i].plan = [row[job[j].parent].plan EXCEPT ![o] = job[j].todo[o]]
    BY <1>0, <1>3, ConstantTypes DEF ReapplyCommit, JobInv, SameBase
  <2>6. /\ r.pc = "loop" /\ r.parent = job[j].parent /\ r.expected = i
        /\ r.applied = [job[j].applied EXCEPT ![o] = job[j].todo[o]]
    BY <1>0 DEF JobState
  <2>7. \A q \in Ops : r.applied[q] # None => row[i].plan[q] = r.applied[q]
    <3>1. row[job[j].parent].plan \in [Ops -> Places]
      BY <1>0, <2>5 DEF TypeOK, Done, Row, Plans
    <3>2. job[j].applied \in [Ops -> Slots \cup {None}]
      BY <1>0 DEF JobState
    <3>3. \A q \in Ops : job[j].applied[q] # None =>
            row[job[j].parent].plan[q] = job[j].applied[q]
      BY <1>0, <2>5 DEF JobInv
    <3> HIDE DEF r
    <3> QED
      BY <2>5, <2>6, <3>1, <3>2, <3>3
  <2>8. JobInv(j)'
    <3> HIDE DEF r
    <3>1. job'[j].parent = 0 \/ Done(job[j].parent)'
      BY <2>1, <2>3, <2>5, <2>6, DoneKept DEF Done
    <3>2. Done(job[j].expected)' /\ Done(job[j].mine)' /\ job'[j].expected # 0
      BY <2>1, <2>2, <2>3, <2>6, ConstantTypes DEF Done
    <3>3. \A q \in Ops : job'[j].applied[q] # None =>
            row'[job'[j].expected].plan[q] = job'[j].applied[q]
      BY <2>1, <2>4, <2>6, <2>7
    <3> QED
      BY <2>1, <2>6, <3>1, <3>2, <3>3, LoopJob
  <2> QED
    BY <1>3, <2>1, <2>3, <2>8, JobStep DEF ReapplyCommit
<1>4. ASSUME ReapplyEnd(j)
      PROVE  IInv'
  <2>1. job'[j] = IdleJob /\ SetJob(j, IdleJob) /\ IdleJob.mine = 0
    BY <1>0, <1>4 DEF ReapplyEnd, SetJob, TypeOK, IdleJob
  <2>2. Frame(0) /\ TableInv'
    BY <1>0, <1>4, StillFrame DEF ReapplyEnd
  <2>3. JobInv(j)'
    BY <2>1, FreshJob DEF IdleJob, Writing, Fresh
  <2> QED
    BY <1>4, <2>1, <2>2, <2>3, JobStep DEF ReapplyEnd
<1> QED
  BY <1>1, <1>2, <1>3, <1>4

\* Every step of the re-application keeps the invariant.
LEMMA ReapplyInv ==
  ASSUME IInv, TypeOK', NEW j \in Jobs, Reapply(j)
  PROVE  IInv'
BY ReapplyReadsInv, ReapplyWritesInv DEF Reapply

-----------------------------------------------------------------------------
(* A step of a user that moves an operation.                                *)

\* The invariant after a step of a move follows from that of its user.
LEMMA MoveStep ==
  ASSUME IInv, TypeOK', TableInv', NEW u \in Users, NEW r,
         drag' = [drag EXCEPT ![u] = r],
         UNCHANGED <<job, app, lock, audit>>,
         NEW i, Frame(i), i = 0 \/ i = drag[u].mine,
         r.mine \in {0, n + 1, drag[u].mine}, DragInv(u)'
  PROVE  IInv'
<1>1. drag'[u] = r /\ \A v \in Users : v # u => drag'[v] = drag[v]
  BY DEF IInv, TypeOK
<1>2. ASSUME NEW k \in Jobs
      PROVE  JobInv(k)'
  <2>1. job[k].pc \in Writing => job[k].mine # i
    BY MineBound DEF IInv, OwnersInv
  <2> QED
    BY <2>1, JobFrame DEF IInv
<1>3. ASSUME NEW v \in Users
      PROVE  DragInv(v)' /\ AppInv(v)'
  <2>1. drag[v].pc = "commit" /\ v # u => drag[v].mine # i
    BY MineBound DEF IInv, OwnersInv
  <2>2. v # u => DragInv(v)'
    BY <1>1, <2>1, DragFrame DEF IInv
  <2>3. AppInv(v)'
    BY AppFrame DEF IInv
  <2> QED
    BY <2>2, <2>3
<1>4. AuditInv'
  BY AuditFrame DEF IInv
<1>5. OwnersInv'
  <2>1. OwnersInv
    BY DEF IInv
  <2> QED
    BY <1>1, <2>1, MineBound DEF OwnersInv
<1> QED
  BY <1>2, <1>3, <1>4, <1>5 DEF IInv

\* Every step of a move keeps the invariant.
LEMMA MoveInv ==
  ASSUME IInv, TypeOK', NEW u \in Users, Move(u)
  PROVE  IInv'
<1>0. drag[u] \in DragState /\ DragInv(u) /\ TypeOK /\ TableInv
  BY DEF IInv, TypeOK
<1>1. ASSUME NEW o \in Ops, NEW s \in Slots, NEW a \in MoveAuthors(u),
             NEW p \in Parents, DragRead(u, o, s, a, p)
      PROVE  IInv'
  <2> DEFINE r == [pc |-> "insert", author |-> a, op |-> o, slot |-> s,
                   parent |-> p, mine |-> 0]
  <2>1. drag' = [drag EXCEPT ![u] = r] /\ drag'[u] = r
    BY <1>0, <1>1 DEF DragRead, TypeOK
  <2>2. Frame(0) /\ TableInv' /\ row' = row
    BY <1>0, <1>1, StillFrame DEF DragRead
  <2>3. Done(p)
    BY <1>1, ConstantTypes DEF DragRead, Movable, InPlan, IsLatest
  <2>4. DragInv(u)'
    BY <2>1, <2>2, <2>3 DEF DragInv, Done
  <2> QED
    BY <1>1, <2>1, <2>2, <2>4, MoveStep DEF DragRead
<1>2. ASSUME DragInsert(u)
      PROVE  IInv'
  <2> DEFINE r == [drag[u] EXCEPT !.pc = "commit", !.mine = n + 1]
             w == DragRow(drag[u].parent, drag[u].author, u, drag[u].op,
                          drag[u].slot)
  <2>1. drag' = [drag EXCEPT ![u] = r] /\ drag'[u] = r
    BY <1>0, <1>2 DEF DragInsert, TypeOK
  <2>2. /\ drag[u].op \in Ops /\ drag[u].slot \in Slots
        /\ Done(drag[u].parent) /\ drag[u].author \in Authors
    BY <1>0, <1>2 DEF DragInv, DragInsert, DragState
  <2>3. w \in Row
    BY <1>0, <2>2, DragRowType DEF Done
  <2>4. w.tx = "open" /\ w.status = "DRAFT" /\ w.parent = drag[u].parent
    BY DEF DragRow
  <2>5. /\ Frame(0) /\ TableInv' /\ n + 1 \in Ids /\ row'[n + 1] = w
    BY <1>0, <1>2, <2>2, <2>3, <2>4, FlushFrame DEF DragInsert
  <2>6. /\ r.pc = "commit" /\ r.mine = n + 1 /\ r.op = drag[u].op
        /\ r.slot = drag[u].slot /\ r.parent = drag[u].parent
    BY <1>0 DEF DragState
  <2>7. DragInv(u)'
    <3> HIDE DEF r, w
    <3> QED
      BY <2>1, <2>2, <2>4, <2>5, <2>6, DoneKept DEF DragInv, Done
  <2> QED
    BY <1>2, <2>1, <2>5, <2>6, <2>7, MoveStep DEF DragInsert
<1>3. ASSUME DragCommit(u)
      PROVE  IInv'
  <2>1. drag' = [drag EXCEPT ![u] = IdleDrag] /\ drag'[u] = IdleDrag
    BY <1>0, <1>3 DEF DragCommit, TypeOK
  <2>2. drag[u].mine \in Ids /\ row[drag[u].mine].tx = "open"
    BY <1>0, <1>3 DEF DragCommit, DragInv
  <2>3. Frame(drag[u].mine) /\ TableInv'
    BY <1>0, <1>3, <2>2, PersistFrame DEF DragCommit
  <2>4. DragInv(u)' /\ IdleDrag.mine = 0
    BY <2>1 DEF DragInv, IdleDrag
  <2> QED
    BY <1>3, <2>1, <2>3, <2>4, MoveStep DEF DragCommit
<1>4. ASSUME DragStops(u)
      PROVE  IInv'
  <2>1. drag' = [drag EXCEPT ![u] = IdleDrag] /\ drag'[u] = IdleDrag
    BY <1>0, <1>4 DEF DragStops, TypeOK
  <2>2. Frame(drag[u].mine) /\ TableInv'
    BY <1>0, <1>4, DiscardFrame DEF DragStops
  <2>3. DragInv(u)' /\ IdleDrag.mine = 0
    BY <2>1 DEF DragInv, IdleDrag
  <2> QED
    BY <1>4, <2>1, <2>2, <2>3, MoveStep DEF DragStops
<1> QED
  BY <1>1, <1>2, <1>3, <1>4 DEF Move

-----------------------------------------------------------------------------
(* A step of a user that approves.                                          *)

\* A step of an approval that writes no row keeps the invariant of the rest.
LEMMA ApproveStill ==
  ASSUME IInv, TypeOK', TableInv', Frame(0), UNCHANGED <<job, drag>>,
         NEW u \in Users, AppInv(u)', AuditInv',
         \A v \in Users : v # u => app'[v] = app[v],
         \A v \in Users : v # u /\ app[v].pc = "write" =>
            lock'[app[v].commit] = lock[app[v].commit]
  PROVE  IInv'
<1>1. ASSUME NEW k \in Jobs
      PROVE  JobInv(k)'
  BY MineBound, JobFrame DEF IInv
<1>2. ASSUME NEW v \in Users
      PROVE  DragInv(v)' /\ AppInv(v)'
  <2>1. DragInv(v)'
    BY MineBound, DragFrame DEF IInv
  <2>2. v # u => AppInv(v)'
    BY AppFrame DEF IInv
  <2> QED
    BY <2>1, <2>2
<1>3. OwnersInv'
  BY DEF IInv, OwnersInv
<1> QED
  BY <1>1, <1>2, <1>3 DEF IInv

\* Every step of an approval keeps the invariant.
LEMMA ApproveInv ==
  ASSUME IInv, TypeOK', NEW u \in Users, Approve(u)
  PROVE  IInv'
<1>0. app[u] \in AppState /\ AppInv(u) /\ AuditInv /\ TypeOK /\ TableInv
  BY DEF IInv, TypeOK
<1>1. ASSUME NEW c \in Ids, NEW via \in Doors \cap {"approve", "promote"},
             ApproveLoad(u, c, via)
      PROVE  IInv'
  <2>1. Frame(0) /\ TableInv' /\ row' = row
    BY <1>0, <1>1, StillFrame DEF ApproveLoad
  <2>2. /\ app'[u].pc = "lock" /\ app'[u].commit = c
        /\ \A v \in Users : v # u => app'[v] = app[v]
    BY <1>0, <1>1 DEF ApproveLoad, TypeOK
  <2>3. AppInv(u)'
    BY <1>1, <2>1, <2>2 DEF AppInv, Done, ApproveLoad
  <2>4. AuditInv'
    BY <1>0, <1>1, <2>1, AuditFrame DEF ApproveLoad
  <2> QED
    BY <1>1, <2>1, <2>2, <2>3, <2>4, ApproveStill DEF ApproveLoad
<1>2. ASSUME ApproveLock(u)
      PROVE  IInv'
  <2>1. Frame(0) /\ TableInv' /\ row' = row
    BY <1>0, <1>2, StillFrame DEF ApproveLock
  <2>2. /\ app'[u].pc = "write" /\ app'[u].commit = app[u].commit
        /\ app'[u].via = app[u].via
        /\ \A v \in Users : v # u => app'[v] = app[v]
    BY <1>0, <1>2 DEF ApproveLock, TypeOK, AppState
  <2>3. Done(app[u].commit) /\ lock[app[u].commit] = None /\ u # None
    BY <1>0, <1>2, CommitsAssumption DEF ApproveLock, AppInv, Unlocked
  <2>4. lock'[app[u].commit] = u
        /\ \A k \in Ids : k # app[u].commit => lock'[k] = lock[k]
    BY <1>0, <1>2, <2>3 DEF ApproveLock, TypeOK, Done
  <2>5. AppInv(u)'
    BY <1>2, <2>1, <2>2, <2>3, <2>4
    DEF AppInv, Done, ApproveLock, Approvable
  <2>6. ASSUME NEW v \in Users, v # u, app[v].pc = "write"
        PROVE  lock'[app[v].commit] = lock[app[v].commit]
    <3>1. lock[app[v].commit] = v /\ Done(app[v].commit) /\ v # None
      BY <2>6, CommitsAssumption DEF IInv, AppInv
    <3> QED
      BY <3>1, <2>3, <2>4 DEF Done
  <2>7. AuditInv'
    BY <1>0, <1>2, <2>1, AuditFrame DEF ApproveLock
  <2> QED
    BY <1>2, <2>1, <2>2, <2>5, <2>6, <2>7, ApproveStill DEF ApproveLock
<1>3. ASSUME ApproveRefused(u)
      PROVE  IInv'
  <2>1. Frame(0) /\ TableInv'
    BY <1>0, <1>3, StillFrame DEF ApproveRefused
  <2>2. app'[u] = IdleApp /\ \A v \in Users : v # u => app'[v] = app[v]
    BY <1>0, <1>3 DEF ApproveRefused, TypeOK
  <2>3. AppInv(u)'
    BY <2>2 DEF AppInv, IdleApp
  <2>4. AuditInv'
    BY <1>0, <1>3, <2>1, AuditFrame DEF ApproveRefused
  <2> QED
    BY <1>3, <2>1, <2>2, <2>3, <2>4, ApproveStill DEF ApproveRefused
<1>4. ASSUME ApproveCommit(u)
      PROVE  IInv'
  <2> DEFINE c == app[u].commit
             a == [by |-> u, via |-> app[u].via]
  <2>1. /\ Done(c) /\ lock[c] = u
        /\ app[u].via = "approve" => row[c].author # u
    BY <1>0, <1>4 DEF ApproveCommit, AppInv
  <2>2. Frame(0) /\ TableInv'
    BY <1>0, <1>4, <2>1, PromoteFrame DEF ApproveCommit
  <2>3. app'[u] = IdleApp /\ \A v \in Users : v # u => app'[v] = app[v]
    BY <1>0, <1>4 DEF ApproveCommit, TypeOK
  <2>4. AppInv(u)'
    BY <2>3 DEF AppInv, IdleApp
  <2>5. /\ audit'[c] = audit[c] \cup {a}
        /\ \A k \in Ids : k # c => audit'[k] = audit[k]
    BY <1>0, <1>4, <2>1 DEF ApproveCommit, TypeOK, Done
  <2>6. AuditInv'
    <3> SUFFICES ASSUME NEW k \in Ids, NEW b \in audit'[k]
                 PROVE  Done(k)' /\ (b.via = "approve" => row'[k].author # b.by)
      BY DEF AuditInv
    <3>1. b \in audit[k] \/ (k = c /\ b = a)
      BY <2>5
    <3>2. Done(k) /\ (b.via = "approve" => row[k].author # b.by)
      BY <1>0, <2>1, <3>1 DEF AuditInv
    <3> QED
      BY <2>2, <3>2 DEF Frame, SameContent, Done
  <2>7. ASSUME NEW v \in Users, v # u, app[v].pc = "write"
        PROVE  lock'[app[v].commit] = lock[app[v].commit]
    <3>1. lock[app[v].commit] = v /\ Done(app[v].commit)
      BY <2>7 DEF IInv, AppInv
    <3> QED
      BY <1>0, <1>4, <2>1, <2>7, <3>1 DEF Done, ApproveCommit, TypeOK
  <2> QED
    BY <1>4, <2>2, <2>3, <2>4, <2>6, <2>7, ApproveStill DEF ApproveCommit
<1>5. ASSUME ApproveStops(u)
      PROVE  IInv'
  <2>1. Frame(0) /\ TableInv'
    BY <1>0, <1>5, StillFrame DEF ApproveStops
  <2>2. app'[u] = IdleApp /\ \A v \in Users : v # u => app'[v] = app[v]
    BY <1>0, <1>5 DEF ApproveStops, TypeOK
  <2>3. AppInv(u)'
    BY <2>2 DEF AppInv, IdleApp
  <2>4. AuditInv'
    BY <1>0, <1>5, <2>1, AuditFrame DEF ApproveStops
  <2>5. ASSUME NEW v \in Users, v # u, app[v].pc = "write"
        PROVE  lock'[app[v].commit] = lock[app[v].commit]
    <3>1. lock[app[v].commit] = v /\ Done(app[v].commit)
      BY <2>5 DEF IInv, AppInv
    <3> QED
      BY <1>5, <2>5, <3>1 DEF Done, ApproveStops
  <2> QED
    BY <1>5, <2>1, <2>2, <2>3, <2>4, <2>5, ApproveStill DEF ApproveStops
<1> QED
  BY <1>1, <1>2, <1>3, <1>4, <1>5 DEF Approve

-----------------------------------------------------------------------------
(* The invariant, and what follows from it.                                 *)

\* The empty ledger satisfies the invariant.
LEMMA InitInv == Init => IInv
<1> SUFFICES ASSUME Init PROVE IInv
  OBVIOUS
<1>1. TypeOK
  BY TypeInit
<1>2. \A i \in Ids : row[i] = NoRow /\ audit[i] = {}
  BY DEF Init
<1>3. \A j \in Jobs : job[j] = IdleJob
  BY DEF Init
<1>4. \A u \in Users : drag[u] = IdleDrag /\ app[u] = IdleApp
  BY DEF Init
<1>5. TableInv /\ AuditInv
  BY <1>2 DEF TableInv, AuditInv, NoRow
<1>6. ASSUME NEW j \in Jobs
      PROVE  JobInv(j)
  <2>1. /\ job[j].pc = "idle" /\ job[j].parent = 0 /\ job[j].mine = 0
        /\ job[j].expected = 0 /\ job[j].applied = NoMoves
    BY <1>3 DEF IdleJob
  <2>2. \A o \in Ops : job[j].applied[o] = None
    BY <2>1 DEF NoMoves
  <2> QED
    BY <2>1, <2>2 DEF JobInv, Writing
<1>7. \A u \in Users : DragInv(u) /\ AppInv(u)
  BY <1>4 DEF DragInv, AppInv, IdleDrag, IdleApp
<1>8. OwnersInv
  BY <1>3, <1>4 DEF OwnersInv, IdleJob, IdleDrag
<1> QED
  BY <1>1, <1>5, <1>6, <1>7, <1>8 DEF IInv

\* Every step keeps the invariant.
LEMMA NextInv == IInv /\ [Next]_vars => IInv'
<1> SUFFICES ASSUME IInv, [Next]_vars PROVE IInv'
  OBVIOUS
<1>1. TypeOK'
  BY TypeNext
<1>2. CASE UNCHANGED vars
  <2>1. Frame(0) /\ TableInv'
    BY <1>2, StillFrame DEF vars, IInv
  <2>2. \A j \in Jobs : JobInv(j)'
    BY <1>2, <2>1, MineBound, JobFrame DEF vars, IInv
  <2>3. \A u \in Users : DragInv(u)' /\ AppInv(u)'
    BY <1>2, <2>1, MineBound, DragFrame, AppFrame DEF vars, IInv
  <2>4. OwnersInv' /\ AuditInv'
    BY <1>2, <2>1, AuditFrame DEF vars, IInv, OwnersInv
  <2> QED
    BY <1>1, <2>1, <2>2, <2>3, <2>4 DEF IInv
<1>3. ASSUME NEW j \in Jobs, Solve(j) \/ Reapply(j)
      PROVE  IInv'
  BY <1>1, <1>3, SolveInv, ReapplyInv
<1>4. ASSUME NEW u \in Users, Move(u) \/ Approve(u)
      PROVE  IInv'
  BY <1>1, <1>4, MoveInv, ApproveInv
<1> QED
  BY <1>2, <1>3, <1>4 DEF Next

\* The invariant holds in every reachable state.
LEMMA Invariance == Spec => []IInv
BY InitInv, NextInv, PTL DEF Spec

(* Every variable of the ledger keeps its type, whatever sessions the        *)
(* worker, the endpoints and their users interleave.                         *)
THEOREM TypeCorrect == Spec => []TypeOK
<1>1. IInv => TypeOK
  BY DEF IInv
<1> QED
  BY <1>1, Invariance, PTL

(* The parent of a visible commit is visible and older, for any number of    *)
(* jobs and users: create_from_schedule and apply_manual_reorder link only   *)
(* to what get_latest returned, and a row that was seen never goes away.     *)
THEOREM ChainCorrect == Spec => []ChainSound
<1>1. IInv => ChainSound
  BY DEF IInv, TableInv, ChainSound
<1> QED
  BY <1>1, Invariance, PTL

(* expected_parent_id makes the re-applied moves of a job cumulative.        *)
THEOREM MovesAccumulate == Spec => []ReappliedMovesAccumulate
<1>1. IInv => ReappliedMovesAccumulate
  BY DEF IInv, JobInv, ReappliedMovesAccumulate
<1> QED
  BY <1>1, Invariance, PTL

(* The segregation of duties of approve_commit and approve_schedule_job      *)
(* holds of the author a commit carries.                                     *)
THEOREM AuthorSegregated == Spec => []AuthorNeverApproves
<1>1. IInv => AuthorNeverApproves
  BY DEF IInv, AuditInv, AuthorNeverApproves
<1> QED
  BY <1>1, Invariance, PTL

-----------------------------------------------------------------------------
(* The ledger implements CommitGraph: a session commit appends a node, an    *)
(* approval marks one, and every other step is invisible.                    *)

GraphVars == <<SeenNodes, SeenParent, SeenData, SeenLive>>

\* If visibility and visible content stay, the forest stays.
LEMMA GraphStutter ==
  ASSUME \A k \in Ids : /\ Done(k) <=> Done(k)'
                        /\ Done(k) => row'[k] = row[k]
  PROVE  UNCHANGED GraphVars
<1>1. SeenNodes' = SeenNodes /\ SeenLive' = SeenLive
  BY DEF SeenNodes, SeenLive, LiveRow
<1>2. SeenParent' = SeenParent
  BY DEF SeenParent
<1>3. SeenData' = SeenData
  BY DEF SeenData, Content
<1> QED
  BY <1>1, <1>2, <1>3 DEF GraphVars

\* An INSERT is invisible: the forest stutters.
LEMMA FlushGraph ==
  ASSUME TypeOK, TableInv, NEW r \in Row, Flush(r), r.tx = "open",
         r.status = "DRAFT", r.parent = 0 \/ Done(r.parent)
  PROVE  UNCHANGED GraphVars
<1>1. /\ n + 1 \in Ids /\ row'[n + 1] = r /\ row[n + 1].tx = "none"
      /\ \A k \in Ids : k # n + 1 => row'[k] = row[k]
  BY FlushFrame
<1> QED
  BY <1>1, GraphStutter DEF Done

\* A rollback is invisible: the forest stutters.
LEMMA DiscardGraph ==
  ASSUME NEW i, Discard(i)
  PROVE  UNCHANGED GraphVars
<1>1. [NoRow EXCEPT !.tx = "aborted"].tx = "aborted"
  BY DEF NoRow
<1> QED
  BY <1>1, GraphStutter DEF Discard, Done

\* A COMMIT of a new row appends a node to the forest.
LEMMA PersistGraph ==
  ASSUME TypeOK, TableInv, NEW i \in Ids, row[i].tx = "open", Persist(i)
  PROVE  Graph!Next
<1> DEFINE p == row[i].parent
           d == Content(i)
<1>1. row'[i] = [row[i] EXCEPT !.tx = "done"] /\ \A k \in Ids : k # i => row'[k] = row[k]
  BY DEF Persist, TypeOK
<1>2. row[i] \in Row
  BY DEF TypeOK
<1>3. /\ row'[i].tx = "done" /\ row'[i].parent = p
      /\ row'[i].plan = row[i].plan /\ row'[i].author = row[i].author
      /\ row'[i].status = row[i].status
  BY <1>1, <1>2 DEF Row
<1>4. ~Done(i) /\ Done(i)' /\ \A k \in Ids : k # i => (Done(k) <=> Done(k)')
  BY <1>1, <1>3 DEF Done
<1>5. d \in [author : Authors, plan : Plans]
  BY <1>2 DEF Content, Row
<1>6. p = 0 \/ (p \in SeenNodes /\ p < i)
  BY DEF TableInv, SeenNodes, Done
<1>7. SeenNodes' = SeenNodes \cup {i} /\ i \notin SeenNodes
  BY <1>4 DEF SeenNodes
<1>8. SeenParent' = [SeenParent EXCEPT ![i] = p]
  BY <1>1, <1>3, <1>4 DEF SeenParent
<1>9. SeenData' = [SeenData EXCEPT ![i] = d]
  BY <1>1, <1>3, <1>4 DEF SeenData, Content
<1>10. SeenLive' = SeenLive
  BY <1>1, <1>3, <1>4 DEF SeenLive, LiveRow, TableInv
<1>11. Graph!Append(i, p, d)
  BY <1>6, <1>7, <1>8, <1>9, <1>10 DEF Graph!Append
<1> QED
  BY <1>5, <1>6, <1>11 DEF Graph!Next

\* A promotion marks one node LIVE, or stutters if it was LIVE.
LEMMA PromoteGraph ==
  ASSUME TypeOK, NEW i, Done(i), row' = [row EXCEPT ![i].status = "LIVE"]
  PROVE  Graph!Next \/ UNCHANGED GraphVars
<1>1. /\ i \in Ids
      /\ row'[i] = [row[i] EXCEPT !.status = "LIVE"]
      /\ \A k \in Ids : k # i => row'[k] = row[k]
  BY DEF Done, TypeOK
<1>2. row[i] \in Row
  BY <1>1 DEF TypeOK
<1>3. /\ row'[i].tx = "done" /\ row'[i].parent = row[i].parent
      /\ row'[i].plan = row[i].plan /\ row'[i].author = row[i].author
      /\ row'[i].status = "LIVE"
  BY <1>1, <1>2 DEF Row, Done
<1>4. \A k \in Ids : Done(k) <=> Done(k)'
  BY <1>1, <1>3 DEF Done
<1>5. SeenNodes' = SeenNodes
  BY <1>4 DEF SeenNodes
<1>6. SeenParent' = SeenParent
  BY <1>1, <1>3, <1>4 DEF SeenParent
<1>7. SeenData' = SeenData
  BY <1>1, <1>3, <1>4 DEF SeenData, Content
<1>8. SeenLive' = SeenLive \cup {i}
  BY <1>1, <1>3, <1>4 DEF SeenLive, LiveRow
<1>9. i \in SeenNodes
  BY <1>1 DEF SeenNodes
<1>10. CASE i \in SeenLive
  BY <1>5, <1>6, <1>7, <1>8, <1>10 DEF GraphVars
<1>11. CASE i \notin SeenLive
  <2>1. Graph!Promote(i)
    BY <1>5, <1>6, <1>7, <1>8, <1>9, <1>11 DEF Graph!Promote
  <2> QED
    BY <1>1, <2>1 DEF Graph!Next
<1> QED
  BY <1>10, <1>11

\* A step that leaves the table alone leaves the forest alone.
LEMMA StillGraph ==
  ASSUME row' = row
  PROVE  UNCHANGED GraphVars
BY GraphStutter DEF Done

\* The empty ledger is the empty forest.
LEMMA GraphInit == Init => Graph!Init
<1> SUFFICES ASSUME Init PROVE Graph!Init
  OBVIOUS
<1>1. \A i \in Ids : ~Done(i)
  BY DEF Init, Done, NoRow
<1> QED
  BY <1>1 DEF Graph!Init, SeenNodes, SeenParent, SeenData, SeenLive, LiveRow

\* Every step of the ledger is a step of the forest or a stutter.
LEMMA GraphNext == IInv /\ [Next]_vars => [Graph!Next]_GraphVars
<1> SUFFICES ASSUME IInv, [Next]_vars PROVE Graph!Next \/ UNCHANGED GraphVars
  OBVIOUS
<1>0. TypeOK /\ TableInv
  BY DEF IInv
<1>1. CASE UNCHANGED vars
  BY <1>1, StillGraph DEF vars
<1>2. ASSUME NEW j \in Jobs, Solve(j)
      PROVE  Graph!Next \/ UNCHANGED GraphVars
  <2>0. job[j] \in JobState /\ JobInv(j)
    BY JobType DEF IInv
  <2>1. CASE row' = row
    BY <2>1, StillGraph
  <2>2. ASSUME NEW t \in Timings, SolveInsert(j, t)
        PROVE  Graph!Next \/ UNCHANGED GraphVars
    <3>1. SolveRow(j, t) \in Row
      BY <1>0, <2>0, CommitsAssumption DEF SolveRow, Row, JobState, TxStates, Authors
    <3>2. /\ SolveRow(j, t).tx = "open" /\ SolveRow(j, t).status = "DRAFT"
          /\ SolveRow(j, t).parent = job[j].parent
      BY DEF SolveRow
    <3> QED
      BY <1>0, <2>0, <2>2, <3>1, <3>2, FlushGraph DEF SolveInsert, JobInv
  <2>3. CASE SolveCommit(j)
    BY <1>0, <2>0, <2>3, PersistGraph DEF SolveCommit, JobInv, Writing
  <2>4. CASE JobStops(j)
    BY <2>4, DiscardGraph DEF JobStops
  <2> QED
    BY <1>2, <2>1, <2>2, <2>3, <2>4
    DEF Solve, StartSolve, SolveInvalid, SolveReadParent
<1>3. ASSUME NEW j \in Jobs, Reapply(j)
      PROVE  Graph!Next \/ UNCHANGED GraphVars
  <2>0. JobInv(j)
    BY DEF IInv
  <2>1. CASE row' = row
    BY <2>1, StillGraph
  <2>2. CASE ReapplyInsert(j)
    <3>1. ReapplyRow(j) \in Row
      BY <1>0, <2>0, <2>2, ReapplyInsertType
    <3>2. /\ ReapplyRow(j).tx = "open" /\ ReapplyRow(j).status = "DRAFT"
          /\ ReapplyRow(j).parent = job[j].parent
      BY DEF ReapplyRow, DragRow
    <3> QED
      BY <1>0, <2>0, <2>2, <3>1, <3>2, FlushGraph DEF ReapplyInsert, JobInv
  <2>3. CASE ReapplyCommit(j)
    BY <1>0, <2>0, <2>3, PersistGraph DEF ReapplyCommit, JobInv, Writing
  <2> QED
    BY <1>3, <2>1, <2>2, <2>3
    DEF Reapply, ReadLive, ScanOverrides, ReadBase, ReapplyRead, ReapplySkip,
        ReapplyReject, ReapplyEnd
<1>4. ASSUME NEW u \in Users, Move(u)
      PROVE  Graph!Next \/ UNCHANGED GraphVars
  <2>0. drag[u] \in DragState /\ DragInv(u)
    BY DEF IInv, TypeOK
  <2>1. CASE row' = row
    BY <2>1, StillGraph
  <2>2. CASE DragInsert(u)
    <3> DEFINE w == DragRow(drag[u].parent, drag[u].author, u, drag[u].op,
                            drag[u].slot)
    <3>1. /\ drag[u].op \in Ops /\ drag[u].slot \in Slots
          /\ Done(drag[u].parent) /\ drag[u].author \in Authors
      BY <2>0, <2>2 DEF DragInv, DragInsert, DragState
    <3>2. w \in Row
      BY <1>0, <3>1, DragRowType DEF Done
    <3>3. w.tx = "open" /\ w.status = "DRAFT" /\ w.parent = drag[u].parent
      BY DEF DragRow
    <3> QED
      BY <1>0, <2>2, <3>1, <3>2, <3>3, FlushGraph DEF DragInsert
  <2>3. CASE DragCommit(u)
    BY <1>0, <2>0, <2>3, PersistGraph DEF DragCommit, DragInv
  <2>4. CASE DragStops(u)
    BY <2>4, DiscardGraph DEF DragStops
  <2> QED
    BY <1>4, <2>1, <2>2, <2>3, <2>4 DEF Move, DragRead
<1>5. ASSUME NEW u \in Users, Approve(u)
      PROVE  Graph!Next \/ UNCHANGED GraphVars
  <2>1. CASE row' = row
    BY <2>1, StillGraph
  <2>2. CASE ApproveCommit(u)
    BY <1>0, <2>2, PromoteGraph DEF ApproveCommit, IInv, AppInv
  <2> QED
    BY <1>5, <2>1, <2>2
    DEF Approve, ApproveLoad, ApproveLock, ApproveRefused, ApproveStops
<1> QED
  BY <1>1, <1>2, <1>3, <1>4, <1>5 DEF Next

(* Whatever the sessions do, a reader of the ledger sees the forest of       *)
(* CommitGraph: commits are immutable, linked backwards, and stay LIVE.      *)
THEOREM LedgerImplementsGraph == Spec => GraphSpec
BY GraphInit, GraphNext, Invariance, PTL
DEF Spec, GraphSpec, Graph!Spec, GraphVars

-----------------------------------------------------------------------------
(* The row locks of approvals.                                              *)

\* Whoever holds the row lock of a commit is about to write that commit: no
\* approval waits for a lock that a transaction which is over left behind, nor
\* for a holder that itself waits for another commit.
LocksHeld ==
    \A c \in Ids : lock[c] # None =>
        app[lock[c]].pc = "write" /\ app[lock[c]].commit = c

LEMMA ApproveLocks ==
  ASSUME TypeOK, LocksHeld, NEW u \in Users, Approve(u)
  PROVE  LocksHeld'
<1>1. app \in [Users -> AppState] /\ lock \in [Ids -> Users \cup {None}]
  BY DEF TypeOK
<1>2. ASSUME lock' = lock, app[u].pc # "write",
             \A v \in Users \ {u} : app'[v] = app[v]
      PROVE  LocksHeld'
  BY <1>1, <1>2 DEF LocksHeld
<1>3. ASSUME NEW c \in Ids, NEW via, ApproveLoad(u, c, via)
      PROVE  LocksHeld'
  BY <1>1, <1>2, <1>3 DEF ApproveLoad
<1>4. ASSUME ApproveRefused(u)
      PROVE  LocksHeld'
  BY <1>1, <1>2, <1>4 DEF ApproveRefused
<1>5. ASSUME ApproveLock(u)
      PROVE  LocksHeld'
  <2> DEFINE c == app[u].commit
  <2>1. /\ lock' = [lock EXCEPT ![c] = u] /\ app[u].pc = "lock"
        /\ app'[u].pc = "write" /\ app'[u].commit = c
        /\ \A v \in Users \ {u} : app'[v] = app[v]
    BY <1>1, <1>5 DEF ApproveLock, AppState
  <2> HIDE DEF c
  <2> QED
    BY <1>1, <2>1, CommitsAssumption DEF LocksHeld
<1>6. ASSUME ApproveCommit(u)
      PROVE  LocksHeld'
  <2> DEFINE c == app[u].commit
  <2>1. /\ lock' = [lock EXCEPT ![c] = None]
        /\ \A v \in Users \ {u} : app'[v] = app[v]
    BY <1>1, <1>6 DEF ApproveCommit
  <2>2. \A k \in Ids : lock[k] = u => k = c
    BY CommitsAssumption DEF LocksHeld
  <2> HIDE DEF c
  <2> QED
    BY <1>1, <2>1, <2>2 DEF LocksHeld
<1>7. ASSUME ApproveStops(u)
      PROVE  LocksHeld'
  <2>1. /\ \A k \in Ids : lock'[k] = IF lock[k] = u THEN None ELSE lock[k]
        /\ \A v \in Users \ {u} : app'[v] = app[v]
    BY <1>1, <1>7 DEF ApproveStops
  <2> QED
    BY <1>1, <2>1 DEF LocksHeld
<1> QED
  BY <1>3, <1>4, <1>5, <1>6, <1>7 DEF Approve

LEMMA NextLocks == TypeOK /\ LocksHeld /\ [Next]_vars => LocksHeld'
<1> SUFFICES ASSUME TypeOK, LocksHeld, [Next]_vars PROVE LocksHeld'
  OBVIOUS
<1>1. ASSUME UNCHANGED <<app, lock>> PROVE LocksHeld'
  BY <1>1 DEF LocksHeld
<1>2. ASSUME NEW j \in Jobs, Solve(j) PROVE UNCHANGED <<app, lock>>
  BY <1>2 DEF Solve, StartSolve, SolveInvalid, SolveReadParent, SolveInsert,
     SolveCommit, JobStops
<1>3. ASSUME NEW j \in Jobs, Reapply(j) PROVE UNCHANGED <<app, lock>>
  BY <1>3 DEF Reapply, ReadLive, ScanOverrides, ReadBase, ReapplyRead,
     ReapplySkip, ReapplyReject, ReapplyInsert, ReapplyCommit, ReapplyEnd
<1>4. ASSUME NEW u \in Users, Move(u) PROVE UNCHANGED <<app, lock>>
  BY <1>4 DEF Move, DragRead, DragInsert, DragCommit, DragStops
<1> QED
  BY <1>1, <1>2, <1>3, <1>4, ApproveLocks DEF Next, vars

(* The row lock of a commit is always that of an approval about to end, for  *)
(* any number of users, doors and commits and however an approval stops.     *)
THEOREM LocksAreReleased == Spec => []LocksHeld
<1>1. Init => LocksHeld
  BY DEF Init, LocksHeld
<1> QED
  BY <1>1, NextLocks, TypeCorrect, PTL DEF Spec

=============================================================================
