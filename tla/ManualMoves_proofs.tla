------------------------- MODULE ManualMoves_proofs -------------------------
(***************************************************************************)
(* Proofs about the manual moves of ScheduleCommits: what a job re-applies *)
(* was asked for by a person after the LIVE commit that was read, and what *)
(* it does not re-apply is not lost without a word.  They rest on the      *)
(* invariant of ScheduleCommits_proofs and add what becomes of the moves   *)
(* a job has found.                                                        *)
(***************************************************************************)
EXTENDS ScheduleCommits_proofs

\* A move in the table that does not carry the robot as author was asked for
\* by a person.
PeopleMove ==
    \A k \in Ids : row[k].kind = "manual_drag" /\ row[k].author # System
                     => row[k].actor \in Users

\* Row k is a visible move of o to s by a person, after the commit since.
Asks(k, o, s, since) ==
    /\ Done(k) /\ row[k].kind = "manual_drag"
    /\ row[k].actor \in Users /\ k > since
    /\ row[k].op = o /\ row[k].slot = s

\* A visible commit is newer than the one a job expects to build on.
Superseded(j) == \E k \in Ids : Done(k) /\ k > job[j].expected

\* What became of a move that a job no longer has to do.
Settled(j, o) ==
    \/ job[j].applied[o] = job[j].found[o]
    \/ o \in alert \cup job[j].unsaid
    \/ ~Movable(job[j].expected, o)
    \/ job[j].found[o] \in Unreadable

Collecting == {"idle", "solving", "insert", "commit", "live", "scan"}
Applying   == {"loop", "rinsert", "rcommit"}

MovesInv(j) ==
    /\ job[j].pc \in Collecting =>
         job[j].found = NoMoves /\ job[j].todo = NoMoves
    /\ job[j].pc = "base" => job[j].todo = job[j].found
    /\ \A o \in Ops :
         /\ job[j].found[o] # None =>
              \E k \in Ids : Asks(k, o, job[j].found[o], job[j].since)
         /\ job[j].todo[o] # None => job[j].todo[o] = job[j].found[o]
         /\ job[j].applied[o] # None => job[j].applied[o] = job[j].found[o]
         /\ job[j].pc \in Applying /\ job[j].found[o] # None =>
              /\ job[j].expected # 0
              /\ job[j].todo[o] = None =>
                   Settled(j, o) \/ (job[j].pc = "loop" /\ Superseded(j))

MInv == PeopleMove /\ \A j \in Jobs : MovesInv(j)

-----------------------------------------------------------------------------
(* What a step leaves of the table.                                         *)

\* Visible rows stay visible and keep saying the same.
Kept ==
    \A k \in Ids : Done(k) =>
        /\ Done(k)'
        /\ row'[k].kind = row[k].kind /\ row'[k].author = row[k].author
        /\ row'[k].actor = row[k].actor /\ row'[k].op = row[k].op
        /\ row'[k].slot = row[k].slot /\ row'[k].plan = row[k].plan
        /\ row'[k].timed = row[k].timed

\* A row that may be flushed: a move of a person, the robot's, or a solve.
OfPerson(r) ==
    r.kind = "manual_drag" /\ r.author # System => r.actor \in Users

\* An INSERT leaves what is visible.
LEMMA FlushKeeps ==
  ASSUME TypeOK, TableInv, PeopleMove, NEW r \in Row, Flush(r), r.tx = "open",
         r.status = "DRAFT", r.parent = 0 \/ Done(r.parent), OfPerson(r)
  PROVE  PeopleMove' /\ Kept
<1>1. /\ n + 1 \in Ids /\ row'[n + 1] = r /\ row[n + 1].tx = "none"
      /\ \A k \in Ids : k # n + 1 => row'[k] = row[k]
  BY FlushFrame
<1> QED
  BY <1>1 DEF PeopleMove, OfPerson, Kept, Done

\* A COMMIT makes one more row visible.
LEMMA PersistKeeps ==
  ASSUME TypeOK, PeopleMove, NEW i \in Ids, row[i].tx = "open", Persist(i)
  PROVE  PeopleMove' /\ Kept
<1>1. row'[i] = [row[i] EXCEPT !.tx = "done"] /\ \A k \in Ids : k # i => row'[k] = row[k]
  BY DEF Persist, TypeOK
<1>2. row[i] \in Row
  BY DEF TypeOK
<1>3. /\ row'[i].kind = row[i].kind /\ row'[i].author = row[i].author
      /\ row'[i].actor = row[i].actor
  BY <1>1, <1>2 DEF Row
<1> QED
  BY <1>1, <1>3 DEF PeopleMove, Kept, Done

\* A ROLLBACK takes nothing that was visible.
LEMMA DiscardKeeps ==
  ASSUME PeopleMove, NEW i, Discard(i)
  PROVE  PeopleMove' /\ Kept
<1>1. \A k \in Ids : row'[k] = IF k = i /\ row[k].tx = "open"
                                 THEN [NoRow EXCEPT !.tx = "aborted"] ELSE row[k]
  BY DEF Discard
<1>2. [NoRow EXCEPT !.tx = "aborted"].kind = "solve"
  BY DEF NoRow
<1> QED
  BY <1>1, <1>2 DEF PeopleMove, Kept, Done

\* A promotion changes the status alone.
LEMMA PromoteKeeps ==
  ASSUME TypeOK, PeopleMove, NEW i, Done(i),
         row' = [row EXCEPT ![i].status = "LIVE"]
  PROVE  PeopleMove' /\ Kept
<1>1. /\ i \in Ids /\ row'[i] = [row[i] EXCEPT !.status = "LIVE"]
      /\ \A k \in Ids : k # i => row'[k] = row[k]
  BY DEF Done, TypeOK
<1>2. row[i] \in Row
  BY <1>1 DEF TypeOK
<1>3. /\ row'[i].tx = row[i].tx
      /\ row'[i].kind = row[i].kind /\ row'[i].author = row[i].author
      /\ row'[i].actor = row[i].actor /\ row'[i].op = row[i].op
      /\ row'[i].slot = row[i].slot /\ row'[i].plan = row[i].plan
      /\ row'[i].timed = row[i].timed
  BY <1>1, <1>2 DEF Row
<1> QED
  BY <1>1, <1>3 DEF PeopleMove, Kept, Done

\* A step that leaves the table alone.
LEMMA StillKeeps ==
  ASSUME PeopleMove, row' = row
  PROVE  PeopleMove' /\ Kept
BY DEF PeopleMove, Kept, Done

\* Every step of a job keeps what is visible, and robots sign as System.
LEMMA JobKeeps ==
  ASSUME IInv, PeopleMove, NEW j \in Jobs, Solve(j) \/ Reapply(j)
  PROVE  PeopleMove' /\ Kept
<1>0. TypeOK /\ TableInv /\ JobInv(j) /\ job[j] \in JobState
  BY JobType DEF IInv
<1>1. CASE row' = row
  BY <1>1, StillKeeps
<1>2. ASSUME NEW t \in Timings, SolveInsert(j, t)
      PROVE  PeopleMove' /\ Kept
  <2>1. SolveRow(j, t) \in Row
    BY <1>0, CommitsAssumption DEF SolveRow, Row, JobState, TxStates, Authors
  <2>2. /\ SolveRow(j, t).tx = "open" /\ SolveRow(j, t).status = "DRAFT"
        /\ SolveRow(j, t).parent = job[j].parent /\ OfPerson(SolveRow(j, t))
    BY DEF SolveRow, OfPerson
  <2> QED
    BY <1>0, <1>2, <2>1, <2>2, FlushKeeps DEF SolveInsert, JobInv
<1>3. CASE ReapplyInsert(j)
  <2>1. ReapplyRow(j) \in Row
    BY <1>0, <1>3, ReapplyInsertType
  <2>2. /\ ReapplyRow(j).tx = "open" /\ ReapplyRow(j).status = "DRAFT"
        /\ ReapplyRow(j).parent = job[j].parent /\ OfPerson(ReapplyRow(j))
    BY DEF ReapplyRow, DragRow, OfPerson
  <2> QED
    BY <1>0, <1>3, <2>1, <2>2, FlushKeeps DEF ReapplyInsert, JobInv
<1>4. CASE SolveCommit(j) \/ ReapplyCommit(j)
  BY <1>0, <1>4, PersistKeeps DEF SolveCommit, ReapplyCommit, JobInv, Writing
<1>5. CASE JobStops(j)
  BY <1>5, DiscardKeeps DEF JobStops
<1> QED
  BY <1>1, <1>2, <1>3, <1>4, <1>5
  DEF Solve, StartSolve, SolveInvalid, SolveReadParent, Reapply, ReadLive,
      ScanOverrides, ReadBase, ReapplyRead, ReapplySkip, ReapplyReject, ReapplyEnd

\* Every step of a person keeps what is visible, and people sign their moves.
LEMMA PersonKeeps ==
  ASSUME IInv, PeopleMove, NEW u \in Users, Move(u) \/ Approve(u)
  PROVE  PeopleMove' /\ Kept
<1>0. TypeOK /\ TableInv /\ DragInv(u) /\ AppInv(u) /\ drag[u] \in DragState
  BY DEF IInv, TypeOK
<1>1. CASE row' = row
  BY <1>1, StillKeeps
<1>2. CASE DragInsert(u)
  <2> DEFINE w == DragRow(drag[u].parent, drag[u].author, u, drag[u].op,
                          drag[u].slot)
  <2>1. /\ drag[u].op \in Ops /\ drag[u].slot \in Slots
        /\ Done(drag[u].parent) /\ drag[u].author \in Authors
    BY <1>0, <1>2 DEF DragInv, DragInsert, DragState
  <2>2. w \in Row
    BY <1>0, <2>1, DragRowType DEF Done
  <2>3. /\ w.tx = "open" /\ w.status = "DRAFT" /\ w.parent = drag[u].parent
        /\ OfPerson(w)
    BY DEF DragRow, OfPerson
  <2> QED
    BY <1>0, <1>2, <2>1, <2>2, <2>3, FlushKeeps DEF DragInsert
<1>3. CASE DragCommit(u)
  BY <1>0, <1>3, PersistKeeps DEF DragCommit, DragInv
<1>4. CASE DragStops(u)
  BY <1>4, DiscardKeeps DEF DragStops
<1>5. CASE ApproveCommit(u)
  BY <1>0, <1>5, PromoteKeeps DEF ApproveCommit, AppInv
<1> QED
  BY <1>1, <1>2, <1>3, <1>4, <1>5
  DEF Move, DragRead, Approve, ApproveLoad, ApproveLock, ApproveRefused,
      ApproveStops

-----------------------------------------------------------------------------
(* A job that does not act, and a job that has nothing to re-apply yet.     *)

\* A visible request stays one.
LEMMA AsksKept ==
  ASSUME Kept, NEW k, NEW o, NEW s, NEW since, Asks(k, o, s, since)
  PROVE  Asks(k, o, s, since)'
BY DEF Kept, Asks, Done

\* The table grows under a job that does not act.
LEMMA OthersKeep ==
  ASSUME IInv, Kept, NEW j \in Jobs, MovesInv(j), job'[j] = job[j],
         alert \subseteq alert'
  PROVE  MovesInv(j)'
<1>1. JobInv(j)
  BY DEF IInv
<1>2. ASSUME NEW o \in Ops, job[j].found[o] # None
      PROVE  \E k \in Ids : Asks(k, o, job[j].found[o], job[j].since)'
  BY <1>2, AsksKept DEF MovesInv
<1>3. Superseded(j) => Superseded(j)'
  BY DEF Superseded, Kept
<1>4. ASSUME NEW o \in Ops, job[j].expected # 0, Settled(j, o)
      PROVE  Settled(j, o)'
  BY <1>1, <1>4 DEF JobInv, Settled, Movable, InPlan, Kept, Done
<1> QED
  BY <1>2, <1>3, <1>4 DEF MovesInv, Asks

\* A job that has found nothing promises nothing.
LEMMA NothingFound ==
  ASSUME NEW j \in Jobs, job'[j].found = NoMoves, job'[j].todo = NoMoves,
         job'[j].applied = NoMoves
  PROVE  MovesInv(j)'
<1>1. \A o \in Ops : NoMoves[o] = None
  BY DEF NoMoves
<1> QED
  BY <1>1 DEF MovesInv

\* Solving finds nothing.
LEMMA SolveMoves ==
  ASSUME IInv, NEW j \in Jobs, MovesInv(j), Solve(j)
  PROVE  MovesInv(j)'
<1>0. job[j] \in JobState /\ job \in [Jobs -> JobState] /\ JobInv(j)
  BY JobType DEF IInv, TypeOK
<1>1. /\ IdleJob.found = NoMoves /\ IdleJob.todo = NoMoves
      /\ IdleJob.applied = NoMoves
  BY DEF IdleJob
<1>2. CASE job[j].pc \in {"solving", "insert", "commit"} /\ job'[j].found = job[j].found
           /\ job'[j].todo = job[j].todo /\ job'[j].applied = job[j].applied
  <2>1. /\ job[j].found = NoMoves /\ job[j].todo = NoMoves
        /\ job[j].applied = NoMoves
    BY <1>0, <1>2 DEF MovesInv, Collecting, JobInv, Fresh
  <2> QED
    BY <1>2, <2>1, NothingFound
<1>3. CASE job'[j] = IdleJob
  BY <1>1, <1>3, NothingFound
<1>4. ASSUME NEW a \in Enqueuers, NEW w \in BOOLEAN, StartSolve(j, a, w)
      PROVE  MovesInv(j)'
  <2>1. job'[j] = [IdleJob EXCEPT !.pc = "solving", !.author = a, !.worker = w]
    BY <1>0, <1>4 DEF StartSolve, SetJob
  <2>2. /\ job'[j].found = NoMoves /\ job'[j].todo = NoMoves
        /\ job'[j].applied = NoMoves
    BY <2>1 DEF IdleJob
  <2> QED
    BY <2>2, NothingFound
<1>5. CASE SolveInvalid(j) \/ SolveCommit(j)
  <2>1. job'[j] = IdleJob \/ job'[j] = [job[j] EXCEPT !.pc = "live"]
    BY <1>0, <1>5 DEF SolveInvalid, SolveCommit, SetJob
  <2> QED
    BY <1>0, <1>2, <1>3, <1>5, <2>1 DEF SolveInvalid, SolveCommit, JobState
<1>6. ASSUME NEW p \in Parents, NEW f \in Solved, SolveReadParent(j, p, f)
      PROVE  MovesInv(j)'
  BY <1>0, <1>2, <1>6 DEF SolveReadParent, SetJob, JobState
<1>7. ASSUME NEW t \in Timings, SolveInsert(j, t)
      PROVE  MovesInv(j)'
  BY <1>0, <1>2, <1>7 DEF SolveInsert, SetJob, JobState
<1>8. CASE JobStops(j)
  BY <1>0, <1>3, <1>8 DEF JobStops, SetJob
<1> QED
  BY <1>4, <1>5, <1>6, <1>7, <1>8 DEF Solve

-----------------------------------------------------------------------------
(* The job that re-applies.                                                 *)

\* What a step of the loop has to show: where each found move stands.
LEMMA LoopStep ==
  ASSUME Kept, NEW j \in Jobs, MovesInv(j),
         job'[j].pc \in Applying,
         job'[j].found = job[j].found, job'[j].since = job[j].since,
         \A o \in Ops : job'[j].todo[o] \in {job[j].todo[o], None},
         \A o \in Ops : job'[j].applied[o] # None =>
                          job'[j].applied[o] = job[j].found[o],
         \A o \in Ops : job[j].found[o] # None =>
           /\ job'[j].expected # 0
           /\ job'[j].todo[o] = None =>
                Settled(j, o)' \/ (job'[j].pc = "loop" /\ Superseded(j)')
  PROVE  MovesInv(j)'
<1>1. ASSUME NEW o \in Ops, job[j].found[o] # None
      PROVE  \E k \in Ids : Asks(k, o, job[j].found[o], job[j].since)'
  BY <1>1, AsksKept DEF MovesInv
<1>2. job'[j].pc \notin Collecting /\ job'[j].pc # "base"
  BY DEF Applying, Collecting
<1> QED
  BY <1>1, <1>2 DEF MovesInv, Asks

\* The first three reads of a job that re-applies.
LEMMA CollectMoves ==
  ASSUME IInv, PeopleMove, NEW j \in Jobs, MovesInv(j),
         \/ \E l \in Parents : ReadLive(j, l)
         \/ \E m \in [Ops -> Slots \cup {None}] : ScanOverrides(j, m)
         \/ \E p \in Parents : ReadBase(j, p)
  PROVE  MovesInv(j)'
<1>0. job[j] \in JobState /\ job \in [Jobs -> JobState] /\ JobInv(j)
  BY JobType DEF IInv, TypeOK
<1>1. ASSUME NEW l \in Parents, ReadLive(j, l)
      PROVE  MovesInv(j)'
  <2>1. /\ job[j].found = NoMoves /\ job[j].todo = NoMoves
        /\ job[j].applied = NoMoves
    BY <1>0, <1>1 DEF ReadLive, MovesInv, Collecting, JobInv, Fresh
  <2>2. /\ job'[j].found = job[j].found /\ job'[j].todo = job[j].todo
        /\ job'[j].applied = job[j].applied
    BY <1>0, <1>1 DEF ReadLive, SetJob, JobState
  <2> QED
    BY <2>1, <2>2, NothingFound
<1>2. ASSUME NEW m \in [Ops -> Slots \cup {None}], ScanOverrides(j, m)
      PROVE  MovesInv(j)'
  <2>1. /\ job'[j].pc = "base" /\ job'[j].found = m /\ job'[j].todo = m
        /\ job'[j].since = job[j].since /\ job'[j].applied = NoMoves
    BY <1>0, <1>2 DEF ScanOverrides, SetJob, JobState, JobInv, Fresh
  <2>2. ASSUME NEW o \in Ops, m[o] # None
        PROVE  \E k \in Ids : Asks(k, o, m[o], job[j].since)'
    <3>1. PICK k \in Ids : LastMove(k, o, job[j].since) /\ m[o] = row[k].slot
      BY <1>2, <2>2 DEF ScanOverrides, ActiveOverrides
    <3>2. Asks(k, o, m[o], job[j].since)
      BY <3>1 DEF LastMove, IsOverride, PeopleMove, Asks
    <3> QED
      BY <1>2, <2>1, <3>2 DEF Asks, Done, ScanOverrides
  <2>3. \A o \in Ops : NoMoves[o] = None
    BY DEF NoMoves
  <2> QED
    BY <2>1, <2>2, <2>3 DEF MovesInv, Collecting, Applying, Asks
<1>3. ASSUME NEW p \in Parents, ReadBase(j, p)
      PROVE  MovesInv(j)'
  <2>1. /\ job'[j].pc = "loop" /\ job'[j].expected = p
        /\ job'[j].found = job[j].found /\ job'[j].todo = job[j].todo
        /\ job'[j].since = job[j].since /\ job'[j].applied = job[j].applied
    BY <1>0, <1>3 DEF ReadBase, SetJob, JobState
  <2>2. ASSUME NEW o \in Ops, job[j].found[o] # None
        PROVE  p # 0 /\ job[j].todo[o] # None
    <3>1. \E k \in Ids : Done(k)
      BY <2>2 DEF MovesInv, Asks
    <3> QED
      BY <1>3, <2>2, <3>1, ConstantTypes DEF ReadBase, IsLatest, Done, MovesInv
  <2>3. Kept
    BY <1>3, StillKeeps DEF ReadBase
  <2>4. \A o \in Ops : job[j].applied[o] # None => job[j].applied[o] = job[j].found[o]
    BY DEF MovesInv
  <2> QED
    BY <2>1, <2>2, <2>3, <2>4, LoopStep DEF Applying
<1> QED
  BY <1>1, <1>2, <1>3

\* A base that passes the guard is the latest commit, so nothing is newer.
LEMMA NotSuperseded ==
  ASSUME IInv, NEW j \in Jobs, NEW p, IsLatest(p), p = job[j].expected
  PROVE  ~Superseded(j)
<1> SUFFICES ASSUME NEW k \in Ids, Done(k), k > job[j].expected
             PROVE  FALSE
  BY DEF Superseded
<1>1. k <= p /\ p \in Nat /\ k \in Nat
  BY JobType DEF IsLatest, Ids, Parents, JobState, IInv
<1> QED
  BY <1>1

\* A base that does not pass the guard is newer than the one expected.
LEMMA IsSuperseded ==
  ASSUME IInv, NEW j \in Jobs, NEW p, IsLatest(p), ~SameBase(j, p)
  PROVE  Superseded(j)
<1>1. Done(job[j].expected) /\ job[j].expected # p
  BY DEF IInv, JobInv, SameBase
<1>2. Done(p) /\ job[j].expected <= p
  BY <1>1 DEF IsLatest, Done
<1>3. p > job[j].expected
  BY <1>1, <1>2 DEF Done, Ids
<1> QED
  BY <1>2, <1>3 DEF Superseded, Done

\* One override is tried, skipped or refused.
LEMMA TryMoves ==
  ASSUME IInv, PeopleMove, NEW j \in Jobs, MovesInv(j), NEW q \in Ops,
         NEW p \in Parents,
         ReapplyRead(j, q, p) \/ ReapplySkip(j, q, p) \/ ReapplyReject(j, q, p)
  PROVE  MovesInv(j)'
<1>0. job[j] \in JobState /\ job \in [Jobs -> JobState] /\ JobInv(j)
  BY JobType DEF IInv, TypeOK
<1>1. /\ job[j].pc = "loop" /\ job[j].todo[q] # None /\ IsLatest(p)
      /\ row' = row /\ alert \subseteq alert'
  BY DEF ReapplyRead, ReapplySkip, ReapplyReject, Alerted
<1>2. Kept
  BY <1>1, StillKeeps
<1>3. \A o \in Ops : job[j].applied[o] # None => job[j].applied[o] = job[j].found[o]
  BY DEF MovesInv
<1>4. job[j].found[q] # None /\ job[j].expected # 0
  BY <1>1 DEF MovesInv, Applying
<1>5. \A o \in Ops : job[j].found[o] # None /\ job[j].todo[o] = None =>
         Settled(j, o) \/ Superseded(j)
  BY <1>1 DEF MovesInv, Applying
<1>6. CASE ReapplyRead(j, q, p)
  <2>1. /\ job'[j].pc = "rinsert" /\ job'[j].expected = job[j].expected
        /\ job'[j].found = job[j].found /\ job'[j].todo = job[j].todo
        /\ job'[j].since = job[j].since /\ job'[j].applied = job[j].applied
        /\ job'[j].unsaid = job[j].unsaid
    BY <1>0, <1>6 DEF ReapplyRead, SetJob, JobState
  <2>2. ~Superseded(j)
    BY <1>4, <1>6, NotSuperseded DEF ReapplyRead, Applicable, SameBase
  <2>3. \A o \in Ops : Settled(j, o) => Settled(j, o)'
    BY <1>1, <2>1 DEF Settled, Movable, InPlan
  <2> QED
    BY <1>2, <1>3, <1>4, <1>5, <2>1, <2>2, <2>3, LoopStep DEF Applying
<1>7. CASE ReapplySkip(j, q, p) \/ ReapplyReject(j, q, p)
  <2>1. /\ job'[j].pc = "loop" /\ job'[j].expected = job[j].expected
        /\ job'[j].found = job[j].found
        /\ job'[j].todo = [job[j].todo EXCEPT ![q] = None]
        /\ job'[j].since = job[j].since /\ job'[j].applied = job[j].applied
        /\ job'[j].unsaid \in {job[j].unsaid, job[j].unsaid \cup {q}}
        /\ ReapplyReject(j, q, p) => q \in alert' \cup job'[j].unsaid
    <3> DEFINE t == [job[j].todo EXCEPT ![q] = None]
               d == job[j].unsaid \cup {q}
    <3>1. \/ /\ job'[j] = [job[j] EXCEPT !.todo = t]
             /\ ReapplyReject(j, q, p) => q \in alert'
          \/ job'[j] = [job[j] EXCEPT !.todo = t, !.unsaid = d]
      <4>1. CASE ReapplySkip(j, q, p)
        BY <1>0, <4>1 DEF ReapplySkip, ReapplyReject, SetJob, JobState
      <4>2. CASE ReapplyReject(j, q, p)
        BY <1>0, <4>2 DEF ReapplyReject, Alerted, SetJob, JobState
      <4> QED
        BY <1>7, <4>1, <4>2
    <3> HIDE DEF t
    <3>2. CASE job'[j] = [job[j] EXCEPT !.todo = t, !.unsaid = d]
      BY <1>0, <1>1, <3>2 DEF JobState, t
    <3>3. CASE /\ job'[j] = [job[j] EXCEPT !.todo = t]
               /\ ReapplyReject(j, q, p) => q \in alert'
      BY <1>0, <1>1, <3>3 DEF JobState, t
    <3> QED
      BY <3>1, <3>2, <3>3
  <2>2. /\ job'[j].todo[q] = None
        /\ \A o \in Ops : o # q => job'[j].todo[o] = job[j].todo[o]
    BY <1>0, <2>1 DEF JobState
  <2>3. \A o \in Ops : Settled(j, o) => Settled(j, o)'
    BY <1>1, <2>1 DEF Settled, Movable, InPlan
  <2>4. Superseded(j) => Superseded(j)'
    BY <1>1, <2>1 DEF Superseded, Done
  <2>5. Settled(j, q)' \/ Superseded(j)
    <3>1. CASE ReapplyReject(j, q, p)
      BY <2>1, <3>1 DEF Settled
    <3>2. CASE ReapplySkip(j, q, p) /\ ~SameBase(j, p)
      BY <1>1, <3>2, IsSuperseded
    <3>3. CASE ReapplySkip(j, q, p) /\ SameBase(j, p)
      <4>1. p = job[j].expected /\ p \in Ids
        BY <1>0, <1>4, <3>3 DEF SameBase, JobInv, Done
      <4>2. ~Movable(p, q) \/ job[j].todo[q] \in Unreadable
        BY <3>3 DEF ReapplySkip, Applicable
      <4>3. job[j].todo[q] = job[j].found[q]
        BY <1>1 DEF MovesInv
      <4> QED
        BY <1>1, <2>1, <4>1, <4>2, <4>3 DEF Settled, Movable, InPlan
    <3> QED
      BY <1>7, <3>1, <3>2, <3>3
  <2>6. ASSUME NEW o \in Ops, job[j].found[o] # None, job'[j].todo[o] = None
        PROVE  Settled(j, o)' \/ Superseded(j)'
    BY <1>5, <2>2, <2>3, <2>4, <2>5, <2>6
  <2> QED
    BY <1>2, <1>3, <1>4, <2>1, <2>2, <2>6, LoopStep DEF Applying
<1> QED
  BY <1>6, <1>7

\* The move is flushed: nothing is settled by it yet.
LEMMA InsertMoves ==
  ASSUME IInv, Kept, NEW j \in Jobs, MovesInv(j), ReapplyInsert(j)
  PROVE  MovesInv(j)'
<1>0. job[j] \in JobState /\ job \in [Jobs -> JobState] /\ JobInv(j)
  BY JobType DEF IInv, TypeOK
<1>1. /\ job'[j].pc = "rcommit" /\ job'[j].expected = job[j].expected
      /\ job'[j].found = job[j].found /\ job'[j].todo = job[j].todo
      /\ job'[j].since = job[j].since /\ job'[j].applied = job[j].applied
      /\ job'[j].unsaid = job[j].unsaid
  BY <1>0 DEF ReapplyInsert, SetJob, JobState
<1>2. job[j].pc = "rinsert" /\ alert' = alert
  BY DEF ReapplyInsert
<1>3. ASSUME NEW o \in Ops, job[j].found[o] # None
      PROVE  /\ job[j].expected # 0
             /\ job[j].todo[o] = None => Settled(j, o)'
  <2>1. job[j].expected # 0 /\ (job[j].todo[o] = None => Settled(j, o))
    BY <1>2, <1>3 DEF MovesInv, Applying
  <2> QED
    BY <1>0, <1>1, <1>2, <2>1 DEF JobInv, Settled, Movable, InPlan, Kept, Done
<1>4. \A o \in Ops : job[j].applied[o] # None => job[j].applied[o] = job[j].found[o]
  BY DEF MovesInv
<1> QED
  BY <1>1, <1>3, <1>4, LoopStep DEF Applying

\* The move is committed: it is settled, and what was absent stays absent in
\* the commit that the job expects now.
LEMMA CommitMoves ==
  ASSUME IInv, Kept, NEW j \in Jobs, MovesInv(j), ReapplyCommit(j)
  PROVE  MovesInv(j)'
<1>0. /\ job[j] \in JobState /\ job \in [Jobs -> JobState] /\ JobInv(j)
      /\ TypeOK /\ job[j].pc = "rcommit" /\ alert' = alert
  BY JobType DEF IInv, TypeOK, ReapplyCommit
<1>a. PICK q \in Ops : q = job[j].op
  BY <1>0 DEF JobInv
<1>b. PICK i \in Ids : i = job[j].mine
  BY <1>0 DEF JobInv, Writing
<1>1. /\ job[j].todo[q] \in Slots
      /\ row[i].tx = "open"
      /\ row[i].plan = [row[job[j].parent].plan EXCEPT ![q] = job[j].todo[q]]
      /\ row[i].timed = row[job[j].parent].timed
      /\ job[j].parent \in Ids /\ SameBase(j, job[j].parent)
  BY <1>0, <1>a, <1>b DEF JobInv, Writing
<1>2. job[j].todo[q] # None /\ job[j].todo[q] = job[j].found[q]
  BY <1>1, CommitsAssumption DEF MovesInv
<1>3. job[j].expected # 0 /\ job[j].parent = job[j].expected
  BY <1>0, <1>1, <1>2 DEF MovesInv, Applying, SameBase
<1>4. /\ job'[j].pc = "loop" /\ job'[j].expected = i
      /\ job'[j].found = job[j].found
      /\ job'[j].todo = [job[j].todo EXCEPT ![q] = None]
      /\ job'[j].since = job[j].since
      /\ job'[j].applied = [job[j].applied EXCEPT ![q] = job[j].todo[q]]
      /\ job'[j].unsaid = job[j].unsaid
  BY <1>0, <1>a, <1>b DEF ReapplyCommit, SetJob, JobState
<1>5. /\ job'[j].todo[q] = None /\ job'[j].applied[q] = job[j].todo[q]
      /\ \A o \in Ops : o # q => /\ job'[j].todo[o] = job[j].todo[o]
                                 /\ job'[j].applied[o] = job[j].applied[o]
  BY <1>0, <1>1, <1>4 DEF JobState
<1>6. row'[i].plan = row[i].plan /\ row'[i].timed = row[i].timed
  BY <1>0, <1>b DEF ReapplyCommit, Persist, TypeOK, Row
<1>7. row[job[j].parent].plan \in Plans
  BY <1>0, <1>1 DEF TypeOK, Row
<1>8. ASSUME NEW o \in Ops, o # q, Settled(j, o)
      PROVE  Settled(j, o)'
  <2>1. /\ row'[i].plan[o] = row[job[j].expected].plan[o]
        /\ row'[i].timed = row[job[j].expected].timed
    BY <1>1, <1>3, <1>6, <1>7, <1>8 DEF Plans
  <2> QED
    BY <1>0, <1>1, <1>3, <1>4, <1>5, <1>8, <2>1 DEF Settled, Movable, InPlan
<1>9. Settled(j, q)'
  BY <1>2, <1>4, <1>5 DEF Settled
<1>10. ASSUME NEW o \in Ops, job[j].found[o] # None, job'[j].todo[o] = None
       PROVE  Settled(j, o)'
  <2>1. o # q => Settled(j, o)
    BY <1>0, <1>5, <1>10 DEF MovesInv, Applying
  <2> QED
    BY <1>8, <1>9, <2>1
<1>11. \A o \in Ops : job'[j].applied[o] # None =>
                        job'[j].applied[o] = job[j].found[o]
  BY <1>2, <1>5 DEF MovesInv
<1>12. i # 0
  BY ConstantTypes
<1> QED
  BY <1>4, <1>5, <1>10, <1>11, <1>12, LoopStep DEF Applying

\* Every step of a job that re-applies keeps track of its moves.
LEMMA ReapplyMoves ==
  ASSUME IInv, Kept, PeopleMove, NEW j \in Jobs, MovesInv(j), Reapply(j)
  PROVE  MovesInv(j)'
<1>1. CASE ReapplyEnd(j)
  <2>1. job'[j] = IdleJob
    BY <1>1 DEF ReapplyEnd, SetJob, IInv, TypeOK
  <2> QED
    BY <2>1, NothingFound DEF IdleJob
<1> QED
  BY <1>1, CollectMoves, TryMoves, InsertMoves, CommitMoves DEF Reapply

-----------------------------------------------------------------------------
(* The invariant, and what follows from it.                                 *)

\* Nobody has found anything in the empty ledger.
LEMMA InitMInv == Init => MInv
<1> SUFFICES ASSUME Init PROVE MInv
  OBVIOUS
<1>1. PeopleMove
  BY DEF Init, PeopleMove, NoRow
<1>2. \A o \in Ops : NoMoves[o] = None
  BY DEF NoMoves
<1>3. ASSUME NEW j \in Jobs
      PROVE  MovesInv(j)
  <2>1. /\ job[j].pc = "idle" /\ job[j].found = NoMoves
        /\ job[j].todo = NoMoves /\ job[j].applied = NoMoves
    BY DEF Init, IdleJob
  <2> QED
    BY <1>2, <2>1 DEF MovesInv, Collecting, Applying
<1> QED
  BY <1>1, <1>3 DEF MInv

\* Every step keeps track of the moves of every job.
LEMMA NextMInv == IInv /\ MInv /\ [Next]_vars => MInv'
<1> SUFFICES ASSUME IInv, MInv, [Next]_vars PROVE MInv'
  OBVIOUS
<1>0. PeopleMove /\ \A j \in Jobs : MovesInv(j)
  BY DEF MInv
<1>1. CASE UNCHANGED vars
  <2>1. PeopleMove' /\ Kept
    BY <1>0, <1>1, StillKeeps DEF vars
  <2> QED
    BY <1>0, <1>1, <2>1, OthersKeep DEF vars, MInv
<1>2. ASSUME NEW j \in Jobs, Solve(j) \/ Reapply(j)
      PROVE  MInv'
  <2>1. PeopleMove' /\ Kept
    BY <1>0, <1>2, JobKeeps
  <2>2. MovesInv(j)'
    BY <1>0, <1>2, <2>1, SolveMoves, ReapplyMoves
  <2>3. alert \subseteq alert'
    BY <1>2
    DEF Solve, StartSolve, SolveInvalid, SolveReadParent, SolveInsert,
        SolveCommit, JobStops, Reapply, ReadLive, ScanOverrides, ReadBase,
        ReapplyRead, ReapplySkip, ReapplyReject, Alerted, ReapplyInsert,
        ReapplyCommit, ReapplyEnd
  <2>4. \E r : SetJob(j, r)
    BY <1>2
    DEF Solve, StartSolve, SolveInvalid, SolveReadParent, SolveInsert,
        SolveCommit, JobStops, Reapply, ReadLive, ScanOverrides, ReadBase,
        ReapplyRead, ReapplySkip, ReapplyReject, ReapplyInsert,
        ReapplyCommit, ReapplyEnd
  <2>5. \A k \in Jobs : k # j => job'[k] = job[k]
    BY <2>4 DEF SetJob, IInv, TypeOK
  <2>6. \A k \in Jobs : k # j => MovesInv(k)'
    BY <1>0, <2>1, <2>3, <2>5, OthersKeep
  <2> QED
    BY <2>1, <2>2, <2>6 DEF MInv
<1>3. ASSUME NEW u \in Users, Move(u) \/ Approve(u)
      PROVE  MInv'
  <2>1. PeopleMove' /\ Kept
    BY <1>0, <1>3, PersonKeeps
  <2>2. job' = job /\ alert' = alert
    BY <1>3
    DEF Move, DragRead, DragInsert, DragCommit, DragStops, Approve,
        ApproveLoad, ApproveLock, ApproveRefused, ApproveCommit, ApproveStops
  <2> QED
    BY <1>0, <2>1, <2>2, OthersKeep DEF MInv
<1> QED
  BY <1>1, <1>2, <1>3 DEF Next

\* Both invariants hold in every reachable state.
LEMMA MovesInvariance == Spec => [](IInv /\ MInv)
<1>1. Init => IInv /\ MInv
  BY InitInv, InitMInv
<1>2. IInv /\ MInv /\ [Next]_vars => IInv' /\ MInv'
  BY NextInv, NextMInv
<1> QED
  BY <1>1, <1>2, PTL DEF Spec

(* active_manual_overrides: whatever people move, approve and abort while a  *)
(* job solves and re-applies, the robot repeats only what a person asked for *)
(* after the LIVE commit the job has read.                                   *)
THEOREM MovesAreSourced == Spec => []ReapplySourced
<1>1. IInv /\ MInv => ReapplySourced
  <2> SUFFICES ASSUME MInv, NEW j \in Jobs, NEW o \in Ops,
                      job[j].applied[o] # None
               PROVE  \E k \in Ids :
                        Asks(k, o, job[j].applied[o], job[j].since)
    BY DEF ReapplySourced, Asks
  <2> QED
    BY DEF MInv, MovesInv
<1> QED
  BY <1>1, MovesInvariance, PTL

(* _reapply_manual_overrides: a move that a job found and did not re-apply   *)
(* was announced, lost to a newer commit, or is one that the code may drop    *)
(* with a line in the log (its operation is gone or has no duration in the    *)
(* commit it builds on, or its time does not parse), for any number of jobs   *)
(* that re-apply at the same time.                                           *)
THEOREM NoMoveIsLost == Spec => []NoSilentLoss
<1>1. IInv /\ MInv => NoSilentLoss
  <2> SUFFICES ASSUME IInv, MInv, NEW j \in Jobs, NEW o \in Ops,
                      job[j].pc = "loop", IsLatest(job[j].expected),
                      job[j].found[o] # None, job[j].todo[o] = None
               PROVE  Settled(j, o)
    BY DEF NoSilentLoss, Settled
  <2>1. Settled(j, o) \/ Superseded(j)
    BY DEF MInv, MovesInv, Applying
  <2> QED
    BY <2>1, NotSuperseded
<1> QED
  BY <1>1, MovesInvariance, PTL
=============================================================================
