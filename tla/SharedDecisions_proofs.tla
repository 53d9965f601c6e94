----------------------- MODULE SharedDecisions_proofs -----------------------
(***************************************************************************)
(* The safety properties of SharedDecisions for any number of processes,   *)
(* people, requests, trucks, events, plans, decisions and faults.          *)
(***************************************************************************)
EXTENDS SharedDecisions, SequenceTheorems, FiniteSetTheorems, TLAPS

VotedIn(vs, d, p) == \E v \in vs : v.decision = d /\ v.by = p

\* What a request in flight has made sure of, with n rows, the votes vs and the
\* rows ap once approved; nothing of it is undone while the request goes on.
SoundRequest(q, n, vs, ap) ==
    /\ q.pc \in {"loaded", "voting"} => q.id \in 1 .. n
    /\ \A x \in q.done : x[1] \in 1 .. n
    /\ q.pc \in {"voting", "next"} => q.verb \in Verdicts
    /\ q.pc \in {"loaded", "voting"} /\ q.verb \in Verdicts => q.by \in MayDecide
    /\ q.done # {} => q.by \in MayDecide
    /\ q.pc = "voting" /\ q.found # "none" => VotedIn(vs, q.id, q.by)
    /\ \A x \in q.done : x[2] # "none" => VotedIn(vs, x[1], q.by)
    /\ q.pc = "loaded" /\ q.verb \in {"execute", "rollback"} => q.id \in ap

\* The rows a tick t of process s knows of: those that were there when it
\* began, and those of its own process, of which it is the only tick.
Known(s, t, rows) ==
    {d \in 1 .. Len(rows) : d <= t.since \/ rows[d].by = s}

\* What a tick has made sure of in the rows it knows of: a candidate it is going
\* to propose has none, and a plan still open is the one kept or about to be
\* rejected.
OpenPlan(row) == row.status = "PROPOSED" /\ row.target \in Plans

SoundTick(s, t, rows) ==
    /\ t.since <= Len(rows)
    /\ t.todo \cap Plans \subseteq {t.keep}
    /\ t.pc = "propose" => \A d \in Known(s, t, rows) : rows[d].target \notin t.todo
    /\ t.pc \in {"revalidate", "reject_stale", "block", "propose"} =>
         \A d \in Known(s, t, rows) : OpenPlan(rows[d]) => rows[d].target = t.keep
    /\ t.pc = "reject_plans" =>
         \A d \in Known(s, t, rows) :
           OpenPlan(rows[d]) => rows[d].target = t.keep \/ d \in t.seen

SoundTicks == \A s \in Schedulers : SoundTick(s, robot[s], dec)

\* What a robot looks for in the signals, only robots propose.
RobotsPropose ==
    \A d \in Rows : dec[d].target \in Signals => dec[d].by \in Schedulers

\* An approval on record is a vote of somebody who may decide.
ApprovedByVote ==
    \A d \in approved : \E p \in MayDecide : VotedIn(votes, d, p)

\* What was approved stays answered.
StatusApproved ==
    \A d \in Rows :
        /\ dec[d].status \in {"APPROVED", "EXECUTED", "ROLLED_BACK"} => d \in approved
        /\ d \in approved => dec[d].status # "PROPOSED"

RequestsSound == \A r \in Requests : SoundRequest(req[r], Len(dec), votes, approved)

IInv ==
    /\ TypeOK /\ IsFiniteSet(votes)
    /\ RequestsSound /\ SoundTicks /\ RobotsPropose
    /\ approved \subseteq Rows /\ ApprovedByVote /\ StatusApproved
    /\ OnlyOverlapRepeats /\ OnlyOverlapOpensTwo

\* What never changes in a row.
SameOrigin(d) ==
    /\ dec'[d].target = dec[d].target
    /\ dec'[d].by = dec[d].by /\ dec'[d].since = dec[d].since

\* A step that opens no row: the rows keep their targets, and none becomes
\* PROPOSED.
NothingOpened ==
    /\ Len(dec') = Len(dec)
    /\ \A d \in Rows : /\ SameOrigin(d)
                       /\ dec'[d].status = "PROPOSED" => dec[d].status = "PROPOSED"

-----------------------------------------------------------------------------
(* Sequences and finite sets.                                               *)

LEMMA SeqAgain ==
  ASSUME NEW n \in Nat, NEW S, NEW f \in [1 .. n -> S]
  PROVE  f \in Seq(S) /\ Len(f) = n
<1>1. f \in Seq(S)
  BY SeqDef
<1>2. DOMAIN f = 1 .. n /\ DOMAIN f = 1 .. Len(f) /\ Len(f) \in Nat
  BY <1>1, LenProperties
<1> QED BY <1>1, <1>2

LEMMA DecFacts ==
  ASSUME TypeOK
  PROVE  Len(dec) \in Nat /\ Rows = 1 .. Len(dec) /\ dec \in [Rows -> Decision]
         /\ Rows \subseteq Ids
<1>1. dec \in Seq(Decision) /\ Len(dec) <= MaxDecisions
  BY DEF TypeOK
<1>2. Len(dec) \in Nat /\ dec \in [1 .. Len(dec) -> Decision]
  BY <1>1, LenProperties
<1> QED BY <1>1, <1>2, DecisionsAssumption DEF Rows, Ids

LEMMA IdleReqType ==
  /\ IdleReq \in Request
  /\ IdleReq.pc = "idle" /\ IdleReq.verb = "patch" /\ IdleReq.done = {}
  /\ IdleReq.found = "none"
<1>1. (CHOOSE p \in People : TRUE) \in People
  BY DecisionsAssumption
<1>2. 1 \in Ids /\ 0 \in 0 .. MaxPlans /\ <<>> \in Seq(Ids)
  BY DecisionsAssumption, EmptySeq DEF Ids
<1> QED BY <1>1, <1>2 DEF IdleReq, Request, Verdicts, Edits

\* The image of a finite set, by a function.
LEMMA ImageIsFinite ==
  ASSUME NEW S, IsFiniteSet(S), NEW f, DOMAIN f = S
  PROVE  IsFiniteSet({f[x] : x \in S})
<1> DEFINE T == {f[x] : x \in S}
           g == [x \in S |-> f[x]]
<1>1. g \in Surjection(S, T)
  BY DEF Surjection
<1> QED BY <1>1, FS_Surjection

LEMMA DoneIsFinite ==
  ASSUME NEW items \in SUBSET (Ids \X ({"none"} \cup Verdicts))
  PROVE  IsFiniteSet(items)
<1>1. IsFiniteSet(Ids)
  BY FS_Interval, DecisionsAssumption DEF Ids
<1>2. IsFiniteSet({"none"} \cup Verdicts)
  <2>1. IsFiniteSet({"none"}) /\ IsFiniteSet({"APPROVED"})
        /\ IsFiniteSet({"REJECTED"})
    BY FS_Singleton
  <2>2. IsFiniteSet({"APPROVED"} \cup {"REJECTED"})
    BY <2>1, FS_Union
  <2>3. {"none"} \cup Verdicts = {"none"} \cup ({"APPROVED"} \cup {"REJECTED"})
    BY DEF Verdicts
  <2>4. IsFiniteSet({"none"} \cup ({"APPROVED"} \cup {"REJECTED"}))
    BY <2>1, <2>2, FS_Union
  <2> QED BY <2>3, <2>4
<1>3. IsFiniteSet(Ids \X ({"none"} \cup Verdicts))
  BY <1>1, <1>2, FS_Product
<1> QED BY <1>3, FS_Subset

-----------------------------------------------------------------------------
(* Votes.                                                                   *)

\* Storing a verdict loses nobody's vote and gives its author one on each item.
LEMMA VotesGrow ==
  ASSUME votes \subseteq Vote, IsFiniteSet(votes),
         NEW p \in People, NEW says \in Verdicts,
         NEW items \in SUBSET (Ids \X ({"none"} \cup Verdicts))
  PROVE  /\ VotesAfter(p, says, items) \subseteq Vote
         /\ IsFiniteSet(VotesAfter(p, says, items))
         /\ \A d, o : VotedIn(votes, d, o) => VotedIn(VotesAfter(p, says, items), d, o)
         /\ \A x \in items :
              x[2] = "none" => VotedIn(VotesAfter(p, says, items), x[1], p)
<1> DEFINE changed(v) == /\ v.by = p /\ v.n = 1
                         /\ \E x \in items : /\ x[1] = v.decision
                                             /\ x[2] \notin {"none", says}
           kept(v) == IF changed(v) THEN [v EXCEPT !.says = says] ELSE v
           new(x) == [decision |-> x[1], by |-> p, says |-> says,
                      n |-> Cardinality(OwnVotes(x[1], p)) + 1]
           fresh == {y \in items : y[2] = "none"}
           Old == {kept(v) : v \in votes}
           New == {new(x) : x \in fresh}
<1>1. VotesAfter(p, says, items) = Old \cup New
  BY DEF VotesAfter
<1>2. \A v \in votes : /\ kept(v) \in Vote /\ kept(v).decision = v.decision
                       /\ kept(v).by = v.by
  BY DEF Vote
<1>3. \A d \in Ids : Cardinality(OwnVotes(d, p)) + 1 \in Nat \ {0}
  <2> TAKE d \in Ids
  <2>1. OwnVotes(d, p) \in SUBSET votes
    BY DEF OwnVotes
  <2>2. IsFiniteSet(OwnVotes(d, p))
    BY <2>1, FS_Subset
  <2>3. Cardinality(OwnVotes(d, p)) \in Nat
    BY <2>2, FS_CardinalityType
  <2> QED BY <2>3
<1>4. \A x \in fresh : new(x) \in Vote /\ new(x).decision = x[1] /\ new(x).by = p
  BY <1>3 DEF Vote
<1>5. IsFiniteSet(Old)
  <2> DEFINE f == [v \in votes |-> kept(v)]
  <2>1. DOMAIN f = votes /\ Old = {f[v] : v \in votes}
    OBVIOUS
  <2> HIDE DEF f, Old
  <2> QED BY <2>1, ImageIsFinite
<1>6. IsFiniteSet(New)
  <2> DEFINE f == [x \in fresh |-> new(x)]
  <2>1. IsFiniteSet(fresh)
    BY DoneIsFinite
  <2>2. DOMAIN f = fresh /\ New = {f[x] : x \in fresh}
    OBVIOUS
  <2> HIDE DEF f, New, fresh
  <2> QED BY <2>1, <2>2, ImageIsFinite
<1>7. Old \cup New \subseteq Vote
  BY <1>2, <1>4
<1>8. \A d, o : VotedIn(votes, d, o) => VotedIn(Old \cup New, d, o)
  BY <1>2 DEF VotedIn
<1>9. \A x \in items : x[2] = "none" => VotedIn(Old \cup New, x[1], p)
  <2> SUFFICES ASSUME NEW x \in items, x[2] = "none"
        PROVE  VotedIn(Old \cup New, x[1], p)
    OBVIOUS
  <2>1. x \in fresh
    OBVIOUS
  <2>2. new(x) \in Old \cup New /\ new(x).decision = x[1] /\ new(x).by = p
    BY <1>4, <2>1
  <2> QED BY <2>2 DEF VotedIn
<1>10. IsFiniteSet(Old \cup New)
  BY <1>5, <1>6, FS_Union
<1> QED BY <1>1, <1>7, <1>8, <1>9, <1>10

-----------------------------------------------------------------------------
(* Rows.                                                                    *)

LEMMA WithStatusRows ==
  ASSUME TypeOK, NEW ids, NEW s \in Statuses, dec' = WithStatus(ids, s)
  PROVE  /\ dec' \in Seq(Decision) /\ Len(dec') = Len(dec)
         /\ \A d \in Rows :
              /\ SameOrigin(d)
              /\ dec'[d].status = IF d \in ids THEN s ELSE dec[d].status
<1>1. Len(dec) \in Nat /\ Rows = 1 .. Len(dec) /\ dec \in [Rows -> Decision]
  BY DecFacts
<1>2. \A d \in Rows : [dec[d] EXCEPT !.status = s] \in Decision
  BY <1>1 DEF Decision
<1>3. dec' \in [1 .. Len(dec) -> Decision]
  BY <1>1, <1>2 DEF WithStatus
<1>4. \A d \in Rows :
        /\ SameOrigin(d)
        /\ dec'[d].status = IF d \in ids THEN s ELSE dec[d].status
  BY <1>1 DEF WithStatus, Decision, SameOrigin
<1> QED BY <1>1, <1>3, <1>4, SeqAgain

LEMMA OneRow ==
  ASSUME TypeOK, NEW i \in Rows, NEW row \in Decision,
         row.target = dec[i].target, row.by = dec[i].by, row.since = dec[i].since,
         dec' = [dec EXCEPT ![i] = row]
  PROVE  /\ dec' \in Seq(Decision) /\ Len(dec') = Len(dec)
         /\ \A d \in Rows :
              /\ SameOrigin(d)
              /\ dec'[d].status = IF d = i THEN row.status ELSE dec[d].status
<1>1. Len(dec) \in Nat /\ Rows = 1 .. Len(dec) /\ dec \in [Rows -> Decision]
  BY DecFacts
<1>2. dec' \in [1 .. Len(dec) -> Decision]
  BY <1>1
<1>3. \A d \in Rows :
        /\ SameOrigin(d)
        /\ dec'[d].status = IF d = i THEN row.status ELSE dec[d].status
  BY <1>1 DEF SameOrigin
<1> QED BY <1>1, <1>2, <1>3, SeqAgain

\* A step that opens no row keeps what concerns targets and open plans.
LEMMA NothingOpenedKeeps ==
  ASSUME TypeOK, NothingOpened, RobotsPropose, OnlyOverlapRepeats,
         OnlyOverlapOpensTwo
  PROVE  /\ Rows' = Rows /\ RobotsPropose' /\ OnlyOverlapRepeats'
         /\ OnlyOverlapOpensTwo'
         /\ \A s, t : SoundTick(s, t, dec) => SoundTick(s, t, dec')
<1>1. Rows' = Rows
  BY DEF NothingOpened, Rows
<1>2. \A d, e \in Rows : Overlapped(d, e) => Overlapped(d, e)'
  BY DEF NothingOpened, SameOrigin, Overlapped
<1>3. RobotsPropose'
  BY <1>1 DEF NothingOpened, SameOrigin, RobotsPropose
<1>4. OnlyOverlapRepeats'
  BY <1>1, <1>2 DEF NothingOpened, SameOrigin, OnlyOverlapRepeats
<1>5. OpenPlans' \subseteq OpenPlans /\ OpenPlans \subseteq Rows
  BY <1>1 DEF NothingOpened, SameOrigin, OpenPlans
<1>6. OnlyOverlapOpensTwo'
  BY <1>2, <1>5 DEF OnlyOverlapOpensTwo
<1>7. ASSUME NEW s, NEW t, SoundTick(s, t, dec) PROVE SoundTick(s, t, dec')
  <2>1. Known(s, t, dec') = Known(s, t, dec)
    BY DEF NothingOpened, SameOrigin, Rows, Known
  <2>2. /\ Len(dec') = Len(dec)
        /\ \A d \in Known(s, t, dec) : /\ dec'[d].target = dec[d].target
                                       /\ OpenPlan(dec'[d]) => OpenPlan(dec[d])
    BY DEF NothingOpened, SameOrigin, Rows, OpenPlan, Known
  <2> QED BY <1>7, <2>1, <2>2 DEF SoundTick
<1> QED BY <1>1, <1>3, <1>4, <1>6, <1>7

\* A request stays sound while rows, votes and approvals are added.
LEMMA SoundRequestStays ==
  ASSUME NEW q \in Request, NEW n \in Nat, NEW m \in Nat, n <= m,
         NEW vs, NEW ws, \A d, o : VotedIn(vs, d, o) => VotedIn(ws, d, o),
         NEW ap, NEW bp, ap \subseteq bp,
         SoundRequest(q, n, vs, ap)
  PROVE  SoundRequest(q, m, ws, bp)
BY DEF SoundRequest

-----------------------------------------------------------------------------
(* Steps of a request that write no row.                                    *)

LEMMA IdleIsSound ==
  \A n, vs, ap : SoundRequest(IdleReq, n, vs, ap)
BY IdleReqType DEF SoundRequest

LEMMA OneRequest ==
  ASSUME TypeOK, NEW r \in Requests, NEW q \in Request,
         req' = [req EXCEPT ![r] = q]
  PROVE  /\ req' \in [Requests -> Request] /\ req'[r] = q
         /\ \A o \in Requests \ {r} : req'[o] = req[o]
BY DEF TypeOK

LEMMA RequestChanges ==
  ASSUME IInv, NEW r \in Requests, NEW q \in Request,
         SoundRequest(q, Len(dec), votes, approved),
         req' = [req EXCEPT ![r] = q],
         UNCHANGED <<table, truck, robot, limiter, faults>>,
         calls' \in 0 .. MaxCalls
  PROVE  IInv'
<1>1. /\ req' \in [Requests -> Request] /\ req'[r] = q
      /\ \A o \in Requests \ {r} : req'[o] = req[o]
  BY OneRequest DEF IInv
<1>2. /\ dec' = dec /\ votes' = votes /\ plan' = plan /\ approved' = approved
      /\ adopted' = adopted /\ truck' = truck /\ robot' = robot
      /\ limiter' = limiter /\ faults' = faults
  BY DEF table
<1>3. TypeOK'
  BY <1>1, <1>2 DEF IInv, TypeOK
<1>4. RequestsSound'
  BY <1>1, <1>2 DEF IInv, RequestsSound
<1>5. ApprovedByVote' /\ StatusApproved' /\ (approved \subseteq Rows)'
  BY <1>2 DEF IInv, ApprovedByVote, StatusApproved, Rows
<1>6. NothingOpened
  BY <1>2 DEF NothingOpened, SameOrigin
<1>7. RobotsPropose' /\ OnlyOverlapRepeats' /\ OnlyOverlapOpensTwo'
  BY <1>6, NothingOpenedKeeps DEF IInv
<1>8. SoundTicks'
  BY <1>2 DEF IInv, SoundTicks
<1> QED BY <1>2, <1>3, <1>4, <1>5, <1>7, <1>8 DEF IInv

\* The request that r was is typed and sound.
LEMMA RequestFacts ==
  ASSUME IInv, NEW r \in Requests
  PROVE  req[r] \in Request /\ SoundRequest(req[r], Len(dec), votes, approved)
BY DEF IInv, TypeOK, RequestsSound

LEMMA OneMoreCall ==
  ASSUME IInv, calls < MaxCalls, calls' = calls + 1
  PROVE  calls' \in 0 .. MaxCalls
BY DecisionsAssumption DEF IInv, TypeOK

LEMMA LoadsVerdictStep ==
  ASSUME IInv, NEW r \in Requests, NEW p \in People, NEW verb \in Verdicts,
         NEW d \in Rows, LoadsVerdict(r, p, verb, d)
  PROVE  IInv'
<1> DEFINE q == [IdleReq EXCEPT !.pc = "loaded", !.verb = verb, !.by = p,
                                !.id = d, !.payload = dec[d].payload]
<1>1. d \in Ids /\ d \in 1 .. Len(dec) /\ dec[d].payload \in 0 .. MaxPlans
  BY DecFacts DEF IInv, Decision
<1>2. /\ q \in Request /\ q.pc = "loaded" /\ q.verb = verb /\ q.by = p
      /\ q.id = d /\ q.found = "none" /\ q.done = {}
  BY <1>1, IdleReqType DEF Request
<1>3. p \in MayDecide /\ verb \notin {"execute", "rollback"}
  BY DEF LoadsVerdict, Verdicts
<1>4. req' = [req EXCEPT ![r] = q]
  BY DEF LoadsVerdict
<1> HIDE DEF q
<1>5. SoundRequest(q, Len(dec), votes, approved)
  BY <1>1, <1>2, <1>3 DEF SoundRequest
<1> QED BY <1>2, <1>4, <1>5, RequestChanges, OneMoreCall DEF LoadsVerdict

LEMMA LoadsEditStep ==
  ASSUME IInv, NEW r \in Requests, NEW verb \in Edits, NEW d \in Rows,
         NEW to \in 0 .. MaxPlans, LoadsEdit(r, verb, d, to)
  PROVE  IInv'
<1> DEFINE q == [IdleReq EXCEPT !.pc = "loaded", !.verb = verb, !.id = d, !.to = to]
<1>1. d \in Ids /\ d \in 1 .. Len(dec)
  BY DecFacts DEF IInv
<1>2. /\ q \in Request /\ q.pc = "loaded" /\ q.verb = verb
      /\ q.id = d /\ q.found = "none" /\ q.done = {}
  BY <1>1, IdleReqType DEF Request
<1>3. verb \in {"execute", "rollback"} => d \in approved
  BY DEF LoadsEdit, StatusFits, IInv, StatusApproved
<1>4. req' = [req EXCEPT ![r] = q]
  BY DEF LoadsEdit
<1> HIDE DEF q
<1>5. SoundRequest(q, Len(dec), votes, approved)
  BY <1>1, <1>2, <1>3 DEF SoundRequest, Edits, Verdicts
<1> QED BY <1>2, <1>4, <1>5, RequestChanges, OneMoreCall DEF LoadsEdit

\* The end of a request, whatever the reason.
LEMMA EndStep ==
  ASSUME IInv, NEW r \in Requests, req' = Ended(r),
         UNCHANGED <<table, truck, robot, limiter, calls, faults>>
  PROVE  IInv'
<1>1. calls' \in 0 .. MaxCalls
  BY DEF IInv, TypeOK
<1> QED BY <1>1, RequestChanges, IdleReqType, IdleIsSound DEF Ended

LEMMA SeesVoteStep ==
  ASSUME IInv, NEW r \in Requests, SeesVote(r)
  PROVE  IInv'
<1> DEFINE own == OwnVotes(req[r].id, req[r].by)
           says == IF own = {} THEN "none" ELSE (CHOOSE v \in own : TRUE).says
           q == [req[r] EXCEPT !.pc = "voting", !.found = says]
<1>1. req[r] \in Request /\ SoundRequest(req[r], Len(dec), votes, approved)
  BY RequestFacts
<1>2. CASE \E v, w \in own : v # w
  BY <1>2, EndStep DEF SeesVote
<1>3. CASE ~\E v, w \in own : v # w
  <2>1. says \in {"none"} \cup Verdicts
        /\ (says # "none" => VotedIn(votes, req[r].id, req[r].by))
    <3>1. CASE own = {}
      BY <3>1
    <3>2. CASE own # {}
      <4>1. PICK v \in own : v = CHOOSE w \in own : TRUE
        BY <3>2
      <4>2. v \in votes /\ v \in Vote /\ v.decision = req[r].id /\ v.by = req[r].by
        BY <4>1 DEF OwnVotes, IInv, TypeOK
      <4>3. says = v.says /\ v.says \in Verdicts
        BY <3>2, <4>1, <4>2 DEF Vote
      <4> QED BY <4>2, <4>3 DEF VotedIn
    <3> QED BY <3>1, <3>2
  <2>2. req[r].pc = "loaded" /\ req[r].verb \in Verdicts
    BY DEF SeesVote
  <2>3. req' = [req EXCEPT ![r] = q]
    BY <1>3 DEF SeesVote
  <2> HIDE DEF says, own
  <2>4. /\ q \in Request /\ q.pc = "voting" /\ q.found = says
        /\ q.verb = req[r].verb /\ q.by = req[r].by /\ q.id = req[r].id
        /\ q.done = req[r].done
    BY <1>1, <2>1 DEF Request
  <2> HIDE DEF q
  <2>5. SoundRequest(q, Len(dec), votes, approved)
    BY <1>1, <2>1, <2>2, <2>4 DEF SoundRequest
  <2>6. calls' \in 0 .. MaxCalls
    BY DEF IInv, TypeOK, SeesVote
  <2> QED BY <2>3, <2>4, <2>5, <2>6, RequestChanges DEF SeesVote
<1> QED BY <1>2, <1>3

LEMMA BulkBeginsStep ==
  ASSUME IInv, NEW r \in Requests, NEW p \in People, NEW verb \in Verdicts,
         NEW ids \in Pairs, BulkBegins(r, p, verb, ids)
  PROVE  IInv'
<1> DEFINE q == [IdleReq EXCEPT !.pc = "next", !.verb = verb, !.by = p,
                                !.bulk = TRUE, !.todo = ids]
<1>1. ids \in Seq(Ids)
  <2>1. ids \in Ids \X Ids
    BY DEF Pairs
  <2>2. PICK a \in Ids, b \in Ids : ids = <<a, b>>
    BY <2>1
  <2>3. <<a, b>> \in Seq(Ids)
    OBVIOUS
  <2> QED BY <2>2, <2>3
<1>2. /\ q \in Request /\ q.pc = "next" /\ q.verb = verb /\ q.done = {}
  BY <1>1, IdleReqType DEF Request
<1>3. req' = [req EXCEPT ![r] = q]
  BY DEF BulkBegins
<1> HIDE DEF q
<1>4. SoundRequest(q, Len(dec), votes, approved)
  BY <1>2 DEF SoundRequest
<1> QED BY <1>2, <1>3, <1>4, RequestChanges, OneMoreCall DEF BulkBegins

LEMMA BulkLoadsStep ==
  ASSUME IInv, NEW r \in Requests, BulkLoads(r)
  PROVE  IInv'
<1> DEFINE d == Head(req[r].todo)
           pc == IF /\ d \in Rows /\ dec[d].status = "PROPOSED"
                    /\ req[r].by \in MayDecide
                 THEN "loaded" ELSE "next"
           q == [req[r] EXCEPT !.todo = Tail(req[r].todo), !.id = d, !.pc = pc]
<1>1. req[r] \in Request /\ SoundRequest(req[r], Len(dec), votes, approved)
  BY RequestFacts
<1>2. req[r].pc = "next" /\ req[r].todo # <<>> /\ req' = [req EXCEPT ![r] = q]
  BY DEF BulkLoads
<1>3. d \in Ids /\ Tail(req[r].todo) \in Seq(Ids)
  <2>1. req[r].todo \in Seq(Ids)
    BY <1>1 DEF Request
  <2> QED BY <1>2, <2>1, HeadTailProperties
<1>4. /\ q \in Request /\ q.pc = pc /\ q.id = d
      /\ q.verb = req[r].verb /\ q.by = req[r].by /\ q.done = req[r].done
  BY <1>1, <1>3 DEF Request
<1>5. Rows = 1 .. Len(dec)
  BY DEF Rows
<1> HIDE DEF q
<1>6. SoundRequest(q, Len(dec), votes, approved)
  BY <1>1, <1>2, <1>4, <1>5 DEF SoundRequest, Verdicts
<1>7. calls' \in 0 .. MaxCalls
  BY DEF IInv, TypeOK, BulkLoads
<1> QED BY <1>2, <1>4, <1>6, <1>7, RequestChanges DEF BulkLoads

LEMMA BulkWritesStep ==
  ASSUME IInv, NEW r \in Requests, BulkWrites(r)
  PROVE  IInv'
<1> DEFINE item == <<req[r].id, req[r].found>>
           q == [req[r] EXCEPT !.pc = "next", !.done = @ \cup {item}]
<1>1. req[r] \in Request /\ SoundRequest(req[r], Len(dec), votes, approved)
  BY RequestFacts
<1>2. req[r].pc = "voting" /\ req' = [req EXCEPT ![r] = q]
  BY DEF BulkWrites
<1>3. /\ item \in Ids \X ({"none"} \cup Verdicts)
      /\ item[1] = req[r].id /\ item[2] = req[r].found
  BY <1>1 DEF Request
<1>4. /\ req[r].verb \in Verdicts /\ req[r].by \in MayDecide
      /\ item[1] \in 1 .. Len(dec)
      /\ item[2] # "none" => VotedIn(votes, item[1], req[r].by)
  BY <1>1, <1>2, <1>3 DEF SoundRequest
<1> HIDE DEF item
<1>5. /\ q \in Request /\ q.pc = "next" /\ q.verb = req[r].verb
      /\ q.by = req[r].by /\ q.done = req[r].done \cup {item}
  BY <1>1, <1>3 DEF Request
<1> HIDE DEF q
<1>6. SoundRequest(q, Len(dec), votes, approved)
  <2>1. \A x \in q.done : x[2] # "none" => VotedIn(votes, x[1], q.by)
    BY <1>1, <1>4, <1>5 DEF SoundRequest
  <2>2. \A x \in q.done : x[1] \in 1 .. Len(dec)
    BY <1>1, <1>4, <1>5 DEF SoundRequest
  <2> QED BY <1>4, <1>5, <2>1, <2>2 DEF SoundRequest
<1>7. calls' \in 0 .. MaxCalls
  BY DEF IInv, TypeOK, BulkWrites
<1> QED BY <1>2, <1>5, <1>6, <1>7, RequestChanges DEF BulkWrites

-----------------------------------------------------------------------------
(* Steps that write.                                                        *)

VotesStay == \A d, o : VotedIn(votes, d, o) => VotedIn(votes', d, o)

RequestsStayOrEnd ==
    /\ req' \in [Requests -> Request]
    /\ \A o \in Requests : req'[o] = req[o] \/ req'[o] = IdleReq

\* The types of everything but rows, votes and requests.
OthersTyped ==
    /\ plan \in [Plans -> {"absent", "DRAFT", "LIVE"}]
    /\ truck \in [Trucks -> {"open", "left"}]
    /\ robot \in [Schedulers -> Tick]
    /\ limiter \in [Schedulers -> SUBSET Signals]
    /\ calls \in 0 .. MaxCalls
    /\ faults \in 0 .. MaxFaults
    /\ adopted \subseteq Ids

LEMMA RequestsSoundStay ==
  ASSUME IInv, Len(dec') \in Nat, Len(dec) <= Len(dec'), VotesStay,
         approved \subseteq approved', RequestsStayOrEnd
  PROVE  RequestsSound'
<1>1. Len(dec) \in Nat
  BY DecFacts DEF IInv
<1>2. \A o \in Requests : SoundRequest(req'[o], Len(dec'), votes', approved')
  <2> TAKE o \in Requests
  <2>1. CASE req'[o] = req[o]
    <3>1. req[o] \in Request /\ SoundRequest(req[o], Len(dec), votes, approved)
      BY RequestFacts
    <3>2. SoundRequest(req[o], Len(dec'), votes', approved')
      BY <1>1, <3>1 DEF SoundRequest, VotesStay
    <3> QED BY <2>1, <3>2
  <2>2. CASE req'[o] = IdleReq
    BY <2>2, IdleIsSound
  <2> QED BY <2>1, <2>2 DEF RequestsStayOrEnd
<1> QED BY <1>2 DEF RequestsSound

\* What a step that opens no row has to show.
LEMMA WritesKeep ==
  ASSUME IInv, dec' \in Seq(Decision), NothingOpened,
         votes' \subseteq Vote, IsFiniteSet(votes'), VotesStay,
         approved \subseteq approved', approved' \subseteq Rows,
         RequestsStayOrEnd, OthersTyped', SoundTicks',
         ApprovedByVote', StatusApproved'
  PROVE  IInv'
<1>1. /\ TypeOK /\ Len(dec) \in Nat /\ Len(dec') = Len(dec)
      /\ Rows' = Rows /\ approved' \subseteq Ids
  BY DecFacts DEF IInv, NothingOpened, Rows
<1>2. TypeOK'
  BY <1>1 DEF TypeOK, OthersTyped, RequestsStayOrEnd
<1>3. RequestsSound'
  BY <1>1, RequestsSoundStay
<1>4. RobotsPropose' /\ OnlyOverlapRepeats' /\ OnlyOverlapOpensTwo'
  BY <1>1, NothingOpenedKeeps DEF IInv
<1> QED BY <1>1, <1>2, <1>3, <1>4 DEF IInv

\* The rows are written and the ticks stay where they are.
LEMMA TicksStay ==
  ASSUME IInv, NothingOpened, robot' = robot
  PROVE  SoundTicks'
BY NothingOpenedKeeps DEF IInv, SoundTicks

\* Without a write to a row or a vote, only the ticks are left to look at.
LEMMA NothingWritten ==
  ASSUME IInv, dec' = dec, votes' = votes, approved' = approved,
         RequestsStayOrEnd, OthersTyped', SoundTicks'
  PROVE  IInv'
<1>1. dec' \in Seq(Decision) /\ NothingOpened /\ VotesStay
      /\ approved' \subseteq Rows /\ votes' \subseteq Vote /\ IsFiniteSet(votes')
  BY DEF IInv, TypeOK, NothingOpened, SameOrigin, VotesStay
<1>2. ApprovedByVote' /\ StatusApproved'
  BY DEF IInv, ApprovedByVote, StatusApproved, Rows
<1> QED BY <1>1, <1>2, WritesKeep

\* One request ends, the others go on.
LEMMA EndsOne ==
  ASSUME TypeOK, NEW r \in Requests, req' = Ended(r)
  PROVE  RequestsStayOrEnd
BY OneRequest, IdleReqType DEF Ended, RequestsStayOrEnd

LEMMA RequestsStay ==
  ASSUME TypeOK, req' = req
  PROVE  RequestsStayOrEnd
BY DEF TypeOK, RequestsStayOrEnd

LEMMA TypesKnown ==
  ASSUME IInv
  PROVE  /\ TypeOK /\ OthersTyped /\ SoundTicks
         /\ dec \in Seq(Decision) /\ votes \subseteq Vote /\ IsFiniteSet(votes)
         /\ approved \subseteq Rows
BY DEF IInv, TypeOK, OthersTyped

LEMMA SavesVerdictStep ==
  ASSUME IInv, NEW r \in Requests, SavesVerdict(r)
  PROVE  IInv'
<1> DEFINE q == req[r]
           items == {<<q.id, q.found>>}
<1>1. q \in Request /\ SoundRequest(q, Len(dec), votes, approved) /\ q.pc = "voting"
  BY RequestFacts DEF SavesVerdict
<1>2. /\ q.id \in Ids /\ q.id \in Rows /\ q.by \in People /\ q.by \in MayDecide
      /\ q.verb \in Verdicts
      /\ q.found # "none" => VotedIn(votes, q.id, q.by)
      /\ q.found \in {"none"} \cup Verdicts
  BY <1>1 DEF SoundRequest, Request, Rows
<1>3. items \in SUBSET (Ids \X ({"none"} \cup Verdicts))
  BY <1>2
<1>4. /\ dec' = WithStatus({q.id}, q.verb) /\ votes' = VotesAfter(q.by, q.verb, items)
      /\ approved' = IF q.verb = "APPROVED" THEN approved \cup {q.id} ELSE approved
      /\ plan' = (IF Promotes(q) THEN [plan EXCEPT ![CommitSha(q)] = "LIVE"]
                ELSE plan)
      /\ adopted' = (IF Promotes(q) THEN adopted \cup {q.id} ELSE adopted)
      /\ req' = Ended(r)
      /\ UNCHANGED <<truck, robot, limiter, calls, faults>>
  BY DEF SavesVerdict
<1> HIDE DEF q
<1>5. /\ votes' \subseteq Vote /\ IsFiniteSet(votes') /\ VotesStay
      /\ \A x \in items : x[2] = "none" => VotedIn(votes', x[1], q.by)
  BY <1>2, <1>3, <1>4, VotesGrow, TypesKnown DEF VotesStay
<1>6. VotedIn(votes', q.id, q.by)
  <2>1. CASE q.found = "none"
    <3>1. <<q.id, q.found>> \in items /\ <<q.id, q.found>>[1] = q.id
          /\ <<q.id, q.found>>[2] = "none"
      BY <2>1
    <3> QED BY <1>5, <3>1
  <2>2. CASE q.found # "none"
    BY <1>2, <1>5, <2>2 DEF VotesStay
  <2> QED BY <2>1, <2>2
<1>7. /\ dec' \in Seq(Decision) /\ Len(dec') = Len(dec)
      /\ \A d \in Rows : /\ SameOrigin(d)
                         /\ dec'[d].status = IF d = q.id THEN q.verb
                                             ELSE dec[d].status
  <2>1. q.verb \in Statuses
    BY <1>2 DEF Verdicts, Statuses
  <2>2. /\ dec' \in Seq(Decision) /\ Len(dec') = Len(dec)
        /\ \A d \in Rows : /\ SameOrigin(d)
                           /\ dec'[d].status = IF d \in {q.id} THEN q.verb
                                               ELSE dec[d].status
    BY <1>4, <2>1, WithStatusRows, TypesKnown
  <2> QED BY <2>2
<1>8. NothingOpened /\ Rows' = Rows
  BY <1>2, <1>7 DEF NothingOpened, Verdicts, Rows
<1>9. approved \subseteq approved' /\ approved' \subseteq Rows
  BY <1>2, <1>4, TypesKnown
<1>10. ApprovedByVote'
  BY <1>2, <1>4, <1>5, <1>6 DEF IInv, ApprovedByVote, VotesStay
<1>11. StatusApproved'
  BY <1>2, <1>4, <1>7, <1>8 DEF IInv, StatusApproved, Verdicts
<1>12. OthersTyped'
  BY <1>2, <1>4, TypesKnown DEF OthersTyped
<1>13. SoundTicks'
  BY <1>4, <1>8, TicksStay
<1>14. RequestsStayOrEnd
  BY <1>4, EndsOne, TypesKnown
<1> QED BY <1>5, <1>7, <1>8, <1>9, <1>10, <1>11, <1>12, <1>13, <1>14, WritesKeep

LEMMA BulkCommitsStep ==
  ASSUME IInv, NEW r \in Requests, BulkCommits(r)
  PROVE  IInv'
<1> DEFINE q == req[r]
           ids == {x[1] : x \in q.done}
<1>1. q \in Request /\ SoundRequest(q, Len(dec), votes, approved) /\ q.pc = "next"
  BY RequestFacts DEF BulkCommits
<1>2. /\ q.by \in People /\ q.verb \in Verdicts
      /\ q.done \in SUBSET (Ids \X ({"none"} \cup Verdicts))
      /\ q.done # {} => q.by \in MayDecide
      /\ \A x \in q.done : x[2] # "none" => VotedIn(votes, x[1], q.by)
  BY <1>1 DEF SoundRequest, Request
<1>3. /\ dec' = WithStatus(ids, q.verb) /\ votes' = VotesAfter(q.by, q.verb, q.done)
      /\ approved' = IF q.verb = "APPROVED" THEN approved \cup ids ELSE approved
      /\ req' = Ended(r)
      /\ UNCHANGED <<plan, adopted, truck, robot, limiter, calls, faults>>
  BY DEF BulkCommits
<1> HIDE DEF q
<1>4. ids \subseteq Rows
  BY <1>1 DEF SoundRequest, Rows
<1>5. /\ votes' \subseteq Vote /\ IsFiniteSet(votes') /\ VotesStay
      /\ \A x \in q.done : x[2] = "none" => VotedIn(votes', x[1], q.by)
  BY <1>2, <1>3, VotesGrow, TypesKnown DEF VotesStay
<1>6. \A d \in ids : q.by \in MayDecide /\ VotedIn(votes', d, q.by)
  BY <1>2, <1>5 DEF VotesStay
<1> HIDE DEF ids
<1>7. /\ dec' \in Seq(Decision) /\ Len(dec') = Len(dec)
      /\ \A d \in Rows : /\ SameOrigin(d)
                         /\ dec'[d].status = IF d \in ids THEN q.verb
                                             ELSE dec[d].status
  <2>1. q.verb \in Statuses
    BY <1>2 DEF Verdicts, Statuses
  <2> QED BY <1>3, <2>1, WithStatusRows, TypesKnown
<1>8. NothingOpened /\ Rows' = Rows
  BY <1>2, <1>7 DEF NothingOpened, Verdicts, Rows
<1>9. approved \subseteq approved' /\ approved' \subseteq Rows
  BY <1>3, <1>4, TypesKnown
<1>10. ApprovedByVote'
  BY <1>3, <1>5, <1>6 DEF IInv, ApprovedByVote, VotesStay
<1>11. StatusApproved'
  BY <1>2, <1>3, <1>7, <1>8 DEF IInv, StatusApproved, Verdicts
<1>12. OthersTyped'
  BY <1>3, TypesKnown DEF OthersTyped
<1>13. SoundTicks'
  BY <1>3, <1>8, TicksStay
<1>14. RequestsStayOrEnd
  BY <1>3, EndsOne, TypesKnown
<1> QED BY <1>5, <1>7, <1>8, <1>9, <1>10, <1>11, <1>12, <1>13, <1>14, WritesKeep

\* Votes and approvals are left alone, and a row that was approved is one still.
LEMMA OnlyRows ==
  ASSUME IInv, dec' \in Seq(Decision), NothingOpened, votes' = votes,
         approved' = approved, RequestsStayOrEnd, OthersTyped',
         SoundTicks', StatusApproved'
  PROVE  IInv'
<1>1. /\ votes' \subseteq Vote /\ IsFiniteSet(votes') /\ VotesStay
      /\ approved \subseteq approved' /\ approved' \subseteq Rows
  BY TypesKnown DEF VotesStay
<1>2. ApprovedByVote'
  BY DEF IInv, ApprovedByVote
<1> QED BY <1>1, <1>2, WritesKeep

LEMMA SavesEditStep ==
  ASSUME IInv, NEW r \in Requests, SavesEdit(r)
  PROVE  IInv'
<1> DEFINE q == req[r]
           row == CASE q.verb = "patch" -> [dec[q.id] EXCEPT !.payload = q.to]
                    [] q.verb = "execute" -> [dec[q.id] EXCEPT !.status = "EXECUTED"]
                    [] OTHER -> [dec[q.id] EXCEPT !.status = "ROLLED_BACK"]
<1>1. q \in Request /\ SoundRequest(q, Len(dec), votes, approved)
      /\ q.pc = "loaded" /\ q.verb \in Edits
  BY RequestFacts DEF SavesEdit
<1>2. /\ q.id \in Rows /\ q.to \in 0 .. MaxPlans
      /\ q.verb \in {"execute", "rollback"} => q.id \in approved
  BY <1>1 DEF SoundRequest, Request, Rows
<1>3. dec[q.id] \in Decision
  BY <1>2, DecFacts, TypesKnown
<1>4. /\ row \in Decision /\ row.target = dec[q.id].target
      /\ row.by = dec[q.id].by /\ row.since = dec[q.id].since
      /\ row.status \in {dec[q.id].status, "EXECUTED", "ROLLED_BACK"}
      /\ row.status # dec[q.id].status => q.verb \in {"execute", "rollback"}
  BY <1>1, <1>2, <1>3 DEF Decision, Statuses, Edits
<1>5. /\ dec' = [dec EXCEPT ![q.id] = row] /\ req' = Ended(r)
      /\ UNCHANGED <<votes, plan, approved, adopted, truck, robot, limiter,
                     calls, faults>>
  BY DEF SavesEdit
<1> HIDE DEF q, row
<1>6. /\ dec' \in Seq(Decision) /\ Len(dec') = Len(dec)
      /\ \A d \in Rows :
           /\ SameOrigin(d)
           /\ dec'[d].status = IF d = q.id THEN row.status ELSE dec[d].status
  BY <1>2, <1>4, <1>5, OneRow, TypesKnown
<1>7. NothingOpened /\ Rows' = Rows
  BY <1>4, <1>6 DEF NothingOpened, Rows
<1>8. StatusApproved'
  BY <1>2, <1>4, <1>5, <1>6, <1>7 DEF IInv, StatusApproved
<1>9. OthersTyped'
  BY <1>5, TypesKnown DEF OthersTyped
<1>10. SoundTicks'
  BY <1>5, <1>7, TicksStay
<1>11. RequestsStayOrEnd
  BY <1>5, EndsOne, TypesKnown
<1> QED BY <1>5, <1>6, <1>7, <1>8, <1>9, <1>10, <1>11, OnlyRows

-----------------------------------------------------------------------------
(* The robots.                                                              *)

LEMMA IdleTickSound ==
  /\ IdleTick \in Tick
  /\ Len(dec) \in Nat => \A s : SoundTick(s, IdleTick, dec)
<1>1. IdleTick \in Tick
  BY DecisionsAssumption DEF IdleTick, Tick
<1>2. Len(dec) \in Nat => \A s : SoundTick(s, IdleTick, dec)
  BY DEF IdleTick, SoundTick
<1> QED BY <1>1, <1>2

\* No target is a plan and a truck, and no event is a signal.
LEMMA TargetsApart ==
  /\ Trucks \cap Plans = {} /\ 0 \notin Plans /\ 0 \notin Trucks
  /\ Events \cap Signals = {} /\ Listener \notin Schedulers
BY DecisionsAssumption DEF Plans, Signals

\* What is known of the tick of s.
LEMMA TickFacts ==
  ASSUME IInv, NEW s \in Schedulers
  PROVE  /\ robot[s] \in Tick /\ SoundTick(s, robot[s], dec)
         /\ limiter[s] \subseteq Signals
BY TypesKnown DEF OthersTyped, SoundTicks

\* The tick of s becomes t, the others stay.
LEMMA OneTick ==
  ASSUME IInv, NothingOpened, NEW s \in Schedulers, NEW t \in Tick,
         robot' = [robot EXCEPT ![s] = t], SoundTick(s, t, dec')
  PROVE  robot' \in [Schedulers -> Tick] /\ SoundTicks'
<1>1. /\ robot' \in [Schedulers -> Tick] /\ robot'[s] = t
      /\ \A o \in Schedulers \ {s} : robot'[o] = robot[o]
  BY TypesKnown DEF OthersTyped
<1>2. \A o \in Schedulers \ {s} : SoundTick(o, robot'[o], dec')
  BY <1>1, NothingOpenedKeeps DEF IInv, SoundTicks
<1> QED BY <1>1, <1>2 DEF SoundTicks

\* A step of a tick that writes no row.
LEMMA TickMoves ==
  ASSUME IInv, NEW s \in Schedulers, NEW t \in Tick, SoundTick(s, t, dec),
         robot' = [robot EXCEPT ![s] = t], RequestsStayOrEnd,
         UNCHANGED <<table, truck, calls>>,
         limiter' \in [Schedulers -> SUBSET Signals], faults' \in 0 .. MaxFaults
  PROVE  IInv'
<1>1. /\ dec' = dec /\ votes' = votes /\ plan' = plan /\ approved' = approved
      /\ adopted' = adopted /\ truck' = truck /\ calls' = calls
  BY DEF table
<1>2. NothingOpened
  BY <1>1 DEF NothingOpened, SameOrigin
<1>3. robot' \in [Schedulers -> Tick] /\ SoundTicks'
  BY <1>1, <1>2, OneTick
<1>4. OthersTyped'
  BY <1>1, <1>3, TypesKnown DEF OthersTyped
<1> QED BY <1>1, <1>3, <1>4, NothingWritten

\* A step of a tick that changes nothing else.
LEMMA OnlyTickMoves ==
  ASSUME IInv, NEW s \in Schedulers, NEW t \in Tick, SoundTick(s, t, dec),
         robot' = [robot EXCEPT ![s] = t],
         UNCHANGED <<table, truck, req, limiter, calls, faults>>
  PROVE  IInv'
<1>1. req' = req /\ limiter' = limiter /\ faults' = faults
  OBVIOUS
<1>2. /\ RequestsStayOrEnd /\ limiter' \in [Schedulers -> SUBSET Signals]
      /\ faults' \in 0 .. MaxFaults
  BY <1>1, RequestsStay, TypesKnown DEF OthersTyped
<1> QED BY <1>2, TickMoves

LEMMA TickBeginsStep ==
  ASSUME IInv, NEW s \in Schedulers, NEW k \in 0 .. MaxPlans,
         NEW ts \in SUBSET OpenTrucks, TickBegins(s, k, ts),
         faults' \in 0 .. MaxFaults
  PROVE  IInv'
<1> DEFINE todo == Candidates(k, ts)
           t == [IdleTick EXCEPT !.pc = "supersede", !.keep = k, !.todo = todo,
                                 !.since = Len(dec)]
<1>1. todo \subseteq Signals /\ todo \cap Plans \subseteq {k}
  BY TargetsApart, DecisionsAssumption
     DEF Candidates, OpenTrucks, Signals, Plans
<1>2. Len(dec) \in 0 .. MaxDecisions
  BY DecFacts, DecisionsAssumption DEF IInv, TypeOK
<1>3. robot' = [robot EXCEPT ![s] = t]
  BY DEF TickBegins
<1> HIDE DEF todo
<1>4. t.pc = "supersede" /\ t.todo = todo /\ t.keep = k /\ t.since = Len(dec)
  BY IdleTickSound DEF Tick
<1>5. t \in Tick
  BY <1>1, <1>2, IdleTickSound DEF Tick
<1> HIDE DEF t
<1>6. SoundTick(s, t, dec)
  BY <1>1, <1>2, <1>4 DEF SoundTick
<1>7. RequestsStayOrEnd /\ limiter' \in [Schedulers -> SUBSET Signals]
  BY RequestsStay, TypesKnown DEF TickBegins, OthersTyped
<1> QED BY <1>3, <1>5, <1>6, <1>7, TickMoves DEF TickBegins

LEMMA TickReadsStep ==
  ASSUME IInv, NEW s \in Schedulers, TickReads(s)
  PROVE  IInv'
<1>1. faults' \in 0 .. MaxFaults
  BY TypesKnown DEF TickReads, OthersTyped
<1> QED BY <1>1, TickBeginsStep DEF TickReads

LEMMA OneMoreFault ==
  ASSUME IInv, faults < MaxFaults, faults' = faults + 1
  PROVE  faults' \in 0 .. MaxFaults
BY DecisionsAssumption DEF IInv, TypeOK

LEMMA GeneratorFailsStep ==
  ASSUME IInv, NEW s \in Schedulers, GeneratorFails(s)
  PROVE  IInv'
<1>1. faults' \in 0 .. MaxFaults /\ 0 \in 0 .. MaxPlans
  BY OneMoreFault, DecisionsAssumption DEF GeneratorFails
<1> QED BY <1>1, TickBeginsStep DEF GeneratorFails

LEMMA SupersedeReadsStep ==
  ASSUME IInv, NEW s \in Schedulers, SupersedeReads(s)
  PROVE  IInv'
<1> DEFINE ids == Superseded(s)
           t == [robot[s] EXCEPT !.pc = IF ids = {} THEN "revalidate"
                                        ELSE "reject_plans", !.seen = ids]
<1>1. /\ robot[s] \in Tick /\ SoundTick(s, robot[s], dec)
      /\ robot[s].pc = "supersede"
  BY TickFacts DEF SupersedeReads, ReadsToReject
<1>2. robot' = [robot EXCEPT ![s] = t]
  BY <1>1, TypesKnown DEF OthersTyped, Tick, SupersedeReads, ReadsToReject
<1>3. ids \subseteq Ids
  BY DecFacts, TypesKnown DEF Superseded
<1>4. \A d \in 1 .. Len(dec) :
        OpenPlan(dec[d]) => dec[d].target = robot[s].keep \/ d \in ids
  BY DEF Superseded, OpenPlan, Rows
<1> HIDE DEF ids
<1>5. /\ t \in Tick /\ t.todo = robot[s].todo /\ t.keep = robot[s].keep
      /\ t.since = robot[s].since /\ t.seen = ids
      /\ t.pc = IF ids = {} THEN "revalidate" ELSE "reject_plans"
  BY <1>1, <1>3 DEF Tick
<1> HIDE DEF t
<1>6. SoundTick(s, t, dec)
  BY <1>1, <1>4, <1>5 DEF SoundTick, Known
<1> QED BY <1>2, <1>5, <1>6, OnlyTickMoves DEF SupersedeReads, ReadsToReject

LEMMA RevalidateReadsStep ==
  ASSUME IInv, NEW s \in Schedulers, RevalidateReads(s)
  PROVE  IInv'
<1> DEFINE ids == StaleRows
           t == [robot[s] EXCEPT !.pc = IF ids = {} THEN "block"
                                        ELSE "reject_stale", !.seen = ids]
<1>1. /\ robot[s] \in Tick /\ SoundTick(s, robot[s], dec)
      /\ robot[s].pc = "revalidate"
  BY TickFacts DEF RevalidateReads, ReadsToReject
<1>2. robot' = [robot EXCEPT ![s] = t]
  BY <1>1, TypesKnown DEF OthersTyped, Tick, RevalidateReads, ReadsToReject
<1>3. ids \subseteq Ids
  BY DecFacts, TypesKnown DEF StaleRows
<1> HIDE DEF ids
<1>4. /\ t \in Tick /\ t.todo = robot[s].todo /\ t.keep = robot[s].keep
      /\ t.since = robot[s].since
      /\ t.pc = IF ids = {} THEN "block" ELSE "reject_stale"
  BY <1>1, <1>3 DEF Tick
<1> HIDE DEF t
<1>5. SoundTick(s, t, dec)
  BY <1>1, <1>4 DEF SoundTick, Known
<1> QED BY <1>2, <1>4, <1>5, OnlyTickMoves DEF RevalidateReads, ReadsToReject

\* What both writes of a tick have in common: rows are only withdrawn.
LEMMA RejectsStep ==
  ASSUME IInv, NEW s \in Schedulers, NEW from, NEW to, Rejects(s, from, to),
         NEW t \in Tick, robot' = [robot EXCEPT ![s] = t],
         \A rows \in Seq(Decision) :
           /\ Len(rows) = Len(dec)
           /\ \A d \in Rows :
                /\ rows[d].target = dec[d].target /\ rows[d].by = dec[d].by
                /\ rows[d].status = IF d \in robot[s].seen
                                    THEN "REJECTED" ELSE dec[d].status
           => SoundTick(s, t, rows)
  PROVE  IInv'
<1>1. /\ dec' = WithStatus(robot[s].seen, "REJECTED")
      /\ UNCHANGED <<votes, plan, approved, adopted, truck, req, limiter, calls,
                     faults>>
  BY DEF Rejects
<1>2. /\ dec' \in Seq(Decision) /\ Len(dec') = Len(dec)
      /\ \A d \in Rows :
           /\ SameOrigin(d)
           /\ dec'[d].status = IF d \in robot[s].seen THEN "REJECTED"
                               ELSE dec[d].status
  <2>1. "REJECTED" \in Statuses
    BY DEF Statuses
  <2> QED BY <1>1, <2>1, WithStatusRows, TypesKnown
<1>3. NothingOpened /\ Rows' = Rows
  BY <1>2 DEF NothingOpened, Rows
<1>4. StatusApproved'
  BY <1>1, <1>2, <1>3 DEF IInv, StatusApproved
<1>5. SoundTick(s, t, dec')
  BY <1>2 DEF SameOrigin
<1>6. robot' \in [Schedulers -> Tick] /\ SoundTicks'
  BY <1>3, <1>5, OneTick
<1>7. OthersTyped'
  BY <1>1, <1>6, TypesKnown DEF OthersTyped
<1>8. RequestsStayOrEnd
  BY <1>1, RequestsStay, TypesKnown
<1> QED BY <1>1, <1>2, <1>3, <1>4, <1>6, <1>7, <1>8, OnlyRows

LEMMA SupersedeWritesStep ==
  ASSUME IInv, NEW s \in Schedulers, SupersedeWrites(s)
  PROVE  IInv'
<1> DEFINE t == [robot[s] EXCEPT !.pc = "revalidate", !.seen = {}]
<1>1. /\ robot[s] \in Tick /\ SoundTick(s, robot[s], dec)
      /\ robot[s].pc = "reject_plans"
  BY TickFacts DEF SupersedeWrites, Rejects
<1>2. robot' = [robot EXCEPT ![s] = t]
  BY <1>1, TypesKnown DEF OthersTyped, Tick, SupersedeWrites, Rejects
<1>3. /\ t \in Tick /\ t.pc = "revalidate" /\ t.todo = robot[s].todo
      /\ t.keep = robot[s].keep /\ t.since = robot[s].since
  BY <1>1 DEF Tick
<1> HIDE DEF t
<1>4. ASSUME NEW rows \in Seq(Decision), Len(rows) = Len(dec),
             \A d \in Rows :
               /\ rows[d].target = dec[d].target /\ rows[d].by = dec[d].by
               /\ rows[d].status = IF d \in robot[s].seen
                                   THEN "REJECTED" ELSE dec[d].status
      PROVE  SoundTick(s, t, rows)
  <2>1. \A d \in 1 .. Len(dec) :
          OpenPlan(rows[d]) => OpenPlan(dec[d]) /\ d \notin robot[s].seen
    BY <1>4 DEF OpenPlan, Rows
  <2>2. Known(s, t, rows) = Known(s, robot[s], dec)
    BY <1>3, <1>4 DEF Known, Rows
  <2>3. \A d \in Known(s, t, rows) :
          OpenPlan(rows[d]) => rows[d].target = robot[s].keep
    BY <1>1, <1>4, <2>1, <2>2 DEF SoundTick, Rows, Known
  <2> QED BY <1>1, <1>3, <1>4, <2>3 DEF SoundTick
<1> QED BY <1>2, <1>3, <1>4, RejectsStep DEF SupersedeWrites

LEMMA RevalidateWritesStep ==
  ASSUME IInv, NEW s \in Schedulers, RevalidateWrites(s)
  PROVE  IInv'
<1> DEFINE t == [robot[s] EXCEPT !.pc = "block", !.seen = {}]
<1>1. /\ robot[s] \in Tick /\ SoundTick(s, robot[s], dec)
      /\ robot[s].pc = "reject_stale"
  BY TickFacts DEF RevalidateWrites, Rejects
<1>2. robot' = [robot EXCEPT ![s] = t]
  BY <1>1, TypesKnown DEF OthersTyped, Tick, RevalidateWrites, Rejects
<1>3. /\ t \in Tick /\ t.pc = "block" /\ t.todo = robot[s].todo
      /\ t.keep = robot[s].keep /\ t.since = robot[s].since
  BY <1>1 DEF Tick
<1> HIDE DEF t
<1>4. ASSUME NEW rows \in Seq(Decision), Len(rows) = Len(dec),
             \A d \in Rows :
               /\ rows[d].target = dec[d].target /\ rows[d].by = dec[d].by
               /\ rows[d].status = IF d \in robot[s].seen
                                   THEN "REJECTED" ELSE dec[d].status
      PROVE  SoundTick(s, t, rows)
  <2>1. \A d \in 1 .. Len(dec) : OpenPlan(rows[d]) => OpenPlan(dec[d])
    BY <1>4 DEF OpenPlan, Rows
  <2>2. Known(s, t, rows) = Known(s, robot[s], dec)
    BY <1>3, <1>4 DEF Known, Rows
  <2>3. \A d \in Known(s, t, rows) :
          OpenPlan(rows[d]) => rows[d].target = robot[s].keep
    BY <1>1, <1>4, <2>1, <2>2 DEF SoundTick, Rows, Known
  <2> QED BY <1>1, <1>3, <1>4, <2>3 DEF SoundTick
<1> QED BY <1>2, <1>3, <1>4, RejectsStep DEF RevalidateWrites

LEMMA BlockReadsStep ==
  ASSUME IInv, NEW s \in Schedulers, BlockReads(s)
  PROVE  IInv'
<1> DEFINE t == [robot[s] EXCEPT !.pc = "propose", !.todo = @ \ BlockedTargets]
<1>1. robot[s] \in Tick /\ SoundTick(s, robot[s], dec) /\ robot[s].pc = "block"
  BY TickFacts DEF BlockReads
<1>2. robot' = [robot EXCEPT ![s] = t]
  BY <1>1, TypesKnown DEF OthersTyped, Tick, BlockReads
<1>3. /\ t \in Tick /\ t.pc = "propose" /\ t.keep = robot[s].keep
      /\ t.todo = robot[s].todo \ BlockedTargets /\ t.since = robot[s].since
  BY <1>1 DEF Tick
<1> HIDE DEF t
<1>4. \A d \in 1 .. Len(dec) : dec[d].target \in BlockedTargets
  BY DEF BlockedTargets, Rows
<1>5. SoundTick(s, t, dec)
  BY <1>1, <1>3, <1>4 DEF SoundTick, Known
<1> QED BY <1>2, <1>3, <1>5, OnlyTickMoves DEF BlockReads

LEMMA SkipsStep ==
  ASSUME IInv, NEW s \in Schedulers, NEW c \in Signals, Skips(s, c)
  PROVE  IInv'
<1> DEFINE t == [robot[s] EXCEPT !.todo = @ \ {c}]
<1>1. robot[s] \in Tick /\ SoundTick(s, robot[s], dec) /\ robot[s].pc = "propose"
  BY TickFacts DEF Skips
<1>2. robot' = [robot EXCEPT ![s] = t]
  BY <1>1, TypesKnown DEF OthersTyped, Tick, Skips
<1>3. /\ t \in Tick /\ t.pc = "propose" /\ t.keep = robot[s].keep
      /\ t.todo = robot[s].todo \ {c} /\ t.since = robot[s].since
  BY <1>1 DEF Tick
<1> HIDE DEF t
<1>4. SoundTick(s, t, dec)
  BY <1>1, <1>3 DEF SoundTick, Known
<1> QED BY <1>2, <1>3, <1>4, OnlyTickMoves DEF Skips

LEMMA TickEndsStep ==
  ASSUME IInv, NEW s \in Schedulers, TickEnds(s)
  PROVE  IInv'
<1>1. IdleTick \in Tick /\ SoundTick(s, IdleTick, dec)
  BY IdleTickSound, DecFacts DEF IInv
<1> QED BY <1>1, OnlyTickMoves DEF TickEnds

LEMMA TickFailsStep ==
  ASSUME IInv, NEW s \in Schedulers, TickFails(s)
  PROVE  IInv'
<1>1. limiter' \in [Schedulers -> SUBSET Signals]
  BY TypesKnown DEF TickFails, OthersTyped
<1>2. faults' \in 0 .. MaxFaults
  BY OneMoreFault DEF TickFails
<1>3. IdleTick \in Tick /\ SoundTick(s, IdleTick, dec)
  BY IdleTickSound, DecFacts DEF IInv
<1>4. RequestsStayOrEnd
  BY RequestsStay, TypesKnown DEF TickFails
<1> QED BY <1>1, <1>2, <1>3, <1>4, TickMoves DEF TickFails

\* A row that is added, open, by somebody.
LEMMA AppendsRow ==
  ASSUME TypeOK, NEW row \in Decision, dec' = Append(dec, row)
  PROVE  LET n == Len(dec)
         IN  /\ n \in Nat /\ dec' \in Seq(Decision) /\ Len(dec') = n + 1
             /\ dec'[n + 1] = row
             /\ Rows = 1 .. n /\ Rows' = 1 .. n + 1
             /\ \A d \in 1 .. n : dec'[d] = dec[d]
             /\ \A d \in 1 .. n + 1 : d \in 1 .. n \/ d = n + 1
<1>1. dec \in Seq(Decision) /\ Len(dec) \in Nat
  BY DecFacts DEF TypeOK
<1>2. /\ dec' \in Seq(Decision) /\ Len(dec') = Len(dec) + 1
      /\ dec'[Len(dec) + 1] = row
      /\ \A d \in 1 .. Len(dec) : dec'[d] = dec[d]
  BY <1>1, AppendProperties
<1> QED BY <1>1, <1>2 DEF Rows

\* What a step that adds an open row has to show.
LEMMA AppendKeeps ==
  ASSUME IInv, NEW row \in Decision, row.status = "PROPOSED",
         dec' = Append(dec, row), Len(dec) < MaxDecisions,
         UNCHANGED <<votes, plan, approved, adopted, truck, req, calls, faults>>,
         robot' \in [Schedulers -> Tick],
         limiter' \in [Schedulers -> SUBSET Signals], SoundTicks',
         row.target \in Signals => row.by \in Schedulers,
         \A d \in Rows : row.target \in Signals /\ dec[d].target = row.target =>
            row.by # dec[d].by /\ row.since < d,
         \A d \in OpenPlans : row.target \in Plans =>
            row.by # dec[d].by /\ row.since < d
  PROVE  IInv'
<1> DEFINE n == Len(dec)
<1>1. /\ n \in Nat /\ dec' \in Seq(Decision) /\ Len(dec') = n + 1
      /\ dec'[n + 1] = row
      /\ Rows = 1 .. n /\ Rows' = 1 .. n + 1
      /\ \A d \in 1 .. n : dec'[d] = dec[d]
      /\ \A d \in 1 .. n + 1 : d \in 1 .. n \/ d = n + 1
  BY AppendsRow, TypesKnown
<1> HIDE DEF n
<1>2. TypeOK'
  <2>1. OthersTyped'
    BY TypesKnown DEF OthersTyped
  <2>2. Len(dec') <= MaxDecisions
    BY <1>1, DecisionsAssumption DEF n
  <2> QED BY <1>1, <2>1, <2>2, TypesKnown DEF TypeOK, OthersTyped
<1>3. RequestsSound'
  <2>1. RequestsStayOrEnd /\ VotesStay /\ approved \subseteq approved'
    BY RequestsStay, TypesKnown DEF VotesStay
  <2> QED BY <1>1, <2>1, RequestsSoundStay DEF n
<1>4. RobotsPropose'
  BY <1>1 DEF IInv, RobotsPropose
<1>5. \A d, e \in Rows : Overlapped(d, e) => Overlapped(d, e)'
  BY <1>1 DEF Overlapped
<1>6. ASSUME NEW d \in Rows, NEW e, e = n + 1, dec[d].target \in Signals,
             row.by \in Schedulers, row.by # dec[d].by, row.since < d
      PROVE  Overlapped(d, e)'
  <2>1. dec[d].by \in Schedulers
    BY <1>6 DEF IInv, RobotsPropose
  <2> QED BY <1>1, <1>6, <2>1 DEF Overlapped
<1>7. OnlyOverlapRepeats'
  <2> SUFFICES ASSUME NEW d \in Rows', NEW e \in Rows', d < e,
                      dec'[d].target = dec'[e].target, dec'[d].target \in Signals
        PROVE  Overlapped(d, e)'
    BY DEF OnlyOverlapRepeats
  <2>1. d \in Rows
    BY <1>1
  <2>2. CASE e \in Rows
    BY <1>1, <1>5, <2>1, <2>2 DEF IInv, OnlyOverlapRepeats
  <2>3. CASE e = n + 1
    BY <1>1, <1>6, <2>1, <2>3
  <2> QED BY <1>1, <2>2, <2>3
<1>8. OnlyOverlapOpensTwo'
  <2> SUFFICES ASSUME NEW d \in OpenPlans', NEW e \in OpenPlans', d < e
        PROVE  Overlapped(d, e)'
    BY DEF OnlyOverlapOpensTwo
  <2>1. d \in Rows' /\ e \in Rows' /\ OpenPlan(dec'[d]) /\ OpenPlan(dec'[e])
    BY DEF OpenPlans, OpenPlan
  <2>2. d \in Rows /\ d \in OpenPlans /\ dec[d].target \in Signals
    BY <1>1, <2>1 DEF OpenPlans, OpenPlan, Signals
  <2>3. CASE e \in Rows
    <3>1. e \in OpenPlans
      BY <1>1, <2>1, <2>3 DEF OpenPlans, OpenPlan
    <3> QED BY <1>5, <2>2, <2>3, <3>1 DEF IInv, OnlyOverlapOpensTwo
  <2>4. CASE e = n + 1
    <3>1. row.target \in Plans
      BY <1>1, <2>1, <2>4 DEF OpenPlan
    <3>2. row.by \in Schedulers
      BY <3>1 DEF Signals
    <3> QED BY <1>6, <2>2, <2>4, <3>1, <3>2
  <2> QED BY <1>1, <2>1, <2>3, <2>4
<1>9. ApprovedByVote' /\ IsFiniteSet(votes') /\ (approved \subseteq Rows)'
  BY <1>1, TypesKnown DEF IInv, ApprovedByVote
<1>10. StatusApproved'
  BY <1>1, TypesKnown DEF IInv, StatusApproved
<1> QED BY <1>2, <1>3, <1>4, <1>7, <1>8, <1>9, <1>10 DEF IInv

LEMMA ProposalType ==
  ASSUME NEW c \in Targets, NEW p \in 0 .. MaxPlans,
         NEW w \in Schedulers \cup {Listener}, NEW n \in 0 .. MaxDecisions
  PROVE  LET row == Proposal(c, p, w, n)
         IN  /\ row \in Decision /\ row.status = "PROPOSED" /\ row.target = c
             /\ row.by = w /\ row.since = n
BY DEF Proposal, Decision, Statuses

\* The row a robot adds: its target is not in the rows the tick knows of, nor
\* is a plan open there when the target is a plan.
LEMMA ProposesFacts ==
  ASSUME IInv, NEW s \in Schedulers, NEW c \in Signals, Proposes(s, c)
  PROVE  /\ \E row \in Decision :
              /\ row = Proposal(c, IF c \in Plans THEN c ELSE 0, s, robot[s].since)
              /\ row.status = "PROPOSED" /\ row.target = c /\ row.by = s
              /\ row.since = robot[s].since /\ dec' = Append(dec, row)
         /\ \A d \in Known(s, robot[s], dec) : /\ dec[d].target # c
                                               /\ c \in Plans => ~OpenPlan(dec[d])
<1>1. /\ robot[s] \in Tick /\ SoundTick(s, robot[s], dec)
      /\ robot[s].pc = "propose" /\ c \in robot[s].todo
  BY TickFacts DEF Proposes, IsNext
<1>2. /\ (IF c \in Plans THEN c ELSE 0) \in 0 .. MaxPlans
      /\ c \in Targets /\ s \in Schedulers \cup {Listener}
      /\ robot[s].since \in 0 .. MaxDecisions
  BY <1>1, DecisionsAssumption DEF Plans, Targets, Tick
<1>3. \A d \in Known(s, robot[s], dec) : dec[d].target # c
  BY <1>1 DEF SoundTick
<1>4. ASSUME c \in Plans, NEW d \in Known(s, robot[s], dec), OpenPlan(dec[d])
      PROVE  FALSE
  <2>1. c = robot[s].keep /\ dec[d].target = robot[s].keep
    BY <1>1, <1>4 DEF SoundTick
  <2> QED BY <1>3, <2>1
<1>5. dec' = Append(dec, Proposal(c, IF c \in Plans THEN c ELSE 0, s,
                                  robot[s].since))
  BY DEF Proposes
<1> QED BY <1>2, <1>3, <1>4, <1>5, ProposalType

\* A tick that began earlier does not know of a row that another process adds.
LEMMA UnknownRow ==
  ASSUME IInv, NEW o \in Schedulers, NEW row \in Decision,
         dec' = Append(dec, row), row.by # o
  PROVE  SoundTick(o, robot[o], dec')
<1> DEFINE n == Len(dec)
<1>1. /\ n \in Nat /\ Len(dec') = n + 1 /\ dec'[n + 1] = row
      /\ \A d \in 1 .. n : dec'[d] = dec[d]
      /\ \A d \in 1 .. n + 1 : d \in 1 .. n \/ d = n + 1
  BY AppendsRow, TypesKnown
<1>2. robot[o] \in Tick /\ SoundTick(o, robot[o], dec)
  BY TickFacts
<1>3. robot[o].since \in Nat /\ robot[o].since <= n
  BY <1>2 DEF Tick, SoundTick
<1>4. Known(o, robot[o], dec') = Known(o, robot[o], dec)
  BY <1>1, <1>3 DEF Known
<1> HIDE DEF n
<1>5. \A d \in Known(o, robot[o], dec) : dec'[d] = dec[d]
  BY <1>1 DEF Known, n
<1>6. robot[o].since <= Len(dec')
  BY <1>1, <1>3
<1>7. \A d \in Known(o, robot[o], dec) : OpenPlan(dec'[d]) => OpenPlan(dec[d])
  BY <1>5
<1> QED BY <1>2, <1>4, <1>5, <1>6, <1>7 DEF SoundTick

\* A robot adds a row, of a target that no row has the tick knows of.
LEMMA ProposesStep ==
  ASSUME IInv, NEW s \in Schedulers, NEW c \in Signals, Proposes(s, c)
  PROVE  IInv'
<1> DEFINE n == Len(dec)
           t == [robot[s] EXCEPT !.todo = @ \ {c}]
<1>1. PICK row \in Decision :
         /\ row.status = "PROPOSED" /\ row.target = c /\ row.by = s
         /\ row.since = robot[s].since /\ dec' = Append(dec, row)
  BY ProposesFacts
<1>2. \A d \in Known(s, robot[s], dec) : /\ dec[d].target # c
                                         /\ c \in Plans => ~OpenPlan(dec[d])
  BY ProposesFacts
<1>3. /\ n \in Nat /\ Len(dec') = n + 1 /\ dec'[n + 1] = row /\ Rows = 1 .. n
      /\ \A d \in 1 .. n : dec'[d] = dec[d]
      /\ \A d \in 1 .. n + 1 : d \in 1 .. n \/ d = n + 1
  BY <1>1, AppendsRow, TypesKnown
<1>4. /\ robot[s] \in Tick /\ SoundTick(s, robot[s], dec)
      /\ robot[s].pc = "propose" /\ c \in robot[s].todo
  BY TickFacts DEF Proposes, IsNext
<1>5. robot' = [robot EXCEPT ![s] = t]
  BY <1>4, TypesKnown DEF OthersTyped, Tick, Proposes
<1>6. /\ t \in Tick /\ t.pc = "propose" /\ t.keep = robot[s].keep
      /\ t.todo = robot[s].todo \ {c} /\ t.since = robot[s].since
  BY <1>4 DEF Tick
<1> HIDE DEF n, t
<1>7. robot[s].since \in Nat /\ robot[s].since <= n
  BY <1>4 DEF Tick, SoundTick, n
<1>8. Known(s, t, dec') \subseteq Known(s, robot[s], dec) \cup {n + 1}
  BY <1>3, <1>6 DEF Known, n
<1>9. \A d \in Known(s, robot[s], dec) : dec'[d] = dec[d]
  BY <1>3 DEF Known, n
<1>10. SoundTick(s, t, dec')
  <2>1. t.since <= Len(dec') /\ t.todo \cap Plans \subseteq {t.keep}
    BY <1>3, <1>4, <1>6, <1>7 DEF SoundTick
  <2>2. \A d \in Known(s, t, dec') : dec'[d].target \notin t.todo
    BY <1>1, <1>3, <1>4, <1>6, <1>8, <1>9 DEF SoundTick
  <2>3. \A d \in Known(s, t, dec') : OpenPlan(dec'[d]) => dec'[d].target = t.keep
    BY <1>1, <1>3, <1>4, <1>6, <1>8, <1>9 DEF SoundTick, OpenPlan
  <2> QED BY <1>6, <2>1, <2>2, <2>3 DEF SoundTick
<1>11. robot' \in [Schedulers -> Tick] /\ SoundTicks'
  <2>1. /\ robot' \in [Schedulers -> Tick] /\ robot'[s] = t
        /\ \A o \in Schedulers \ {s} : robot'[o] = robot[o]
    BY <1>5, <1>6, TypesKnown DEF OthersTyped
  <2>2. \A o \in Schedulers \ {s} : SoundTick(o, robot'[o], dec')
    BY <1>1, <2>1, UnknownRow
  <2> QED BY <1>10, <2>1, <2>2 DEF SoundTicks
<1>12. \A d \in Rows : d \notin Known(s, robot[s], dec) =>
          s # dec[d].by /\ robot[s].since < d
  BY <1>3, <1>7 DEF Known, n
<1>13. \A d \in Rows : dec[d].target = c => s # dec[d].by /\ robot[s].since < d
  BY <1>2, <1>12
<1>14. \A d \in OpenPlans : c \in Plans => s # dec[d].by /\ robot[s].since < d
  BY <1>2, <1>12 DEF OpenPlans, OpenPlan
<1>15. limiter' \in [Schedulers -> SUBSET Signals]
  BY TypesKnown DEF Proposes, OthersTyped
<1>16. /\ n < MaxDecisions
       /\ UNCHANGED <<votes, plan, approved, adopted, truck, req, calls, faults>>
  BY DEF Proposes, n
<1> QED BY <1>1, <1>11, <1>13, <1>14, <1>15, <1>16, AppendKeeps DEF n

\* The listener adds a row about an event, which no robot looks for.
LEMMA EventProposesStep ==
  ASSUME IInv, NEW e \in Events, NEW p \in 0 .. MaxPlans, EventProposes(e, p)
  PROVE  IInv'
<1> DEFINE row == Proposal(e, p, Listener, 0)
<1>1. 0 \in 0 .. MaxDecisions /\ e \in Targets
  BY DecisionsAssumption DEF Targets
<1>2. /\ row \in Decision /\ row.status = "PROPOSED" /\ row.target = e
      /\ row.by = Listener
  BY <1>1, ProposalType
<1>3. dec' = Append(dec, row) /\ Len(dec) < MaxDecisions
      /\ UNCHANGED <<votes, plan, approved, adopted, truck, req, robot, limiter,
                     calls, faults>>
  BY DEF EventProposes
<1> HIDE DEF row
<1>4. e \notin Signals /\ e \notin Plans
  BY TargetsApart DEF Signals
<1>5. SoundTicks'
  BY <1>2, <1>3, UnknownRow, TargetsApart DEF SoundTicks
<1>6. robot' \in [Schedulers -> Tick] /\ limiter' \in [Schedulers -> SUBSET Signals]
  BY <1>3, TypesKnown DEF OthersTyped
<1> QED BY <1>2, <1>3, <1>4, <1>5, <1>6, AppendKeeps

-----------------------------------------------------------------------------
(* The environment, restarts and the clock.                                 *)

LEMMA RestartStep ==
  ASSUME IInv, NEW s \in Schedulers, NEW gone, Restart(s, gone)
  PROVE  IInv'
<1>1. RequestsStayOrEnd
  BY IdleReqType, TypesKnown DEF Restart, RequestsStayOrEnd, TypeOK
<1>2. faults' \in 0 .. MaxFaults
  BY OneMoreFault DEF Restart
<1>3. limiter' \in [Schedulers -> SUBSET Signals]
  BY TypesKnown DEF Restart, OthersTyped
<1>4. IdleTick \in Tick /\ SoundTick(s, IdleTick, dec)
  BY IdleTickSound, DecFacts DEF IInv
<1> QED BY <1>1, <1>2, <1>3, <1>4, TickMoves DEF Restart

LEMMA SurroundingsStep ==
  ASSUME IInv, UNCHANGED <<dec, votes, approved, adopted, req, robot, calls, faults>>,
         plan' \in [Plans -> {"absent", "DRAFT", "LIVE"}],
         truck' \in [Trucks -> {"open", "left"}],
         limiter' \in [Schedulers -> SUBSET Signals]
  PROVE  IInv'
<1>1. OthersTyped'
  BY TypesKnown DEF OthersTyped
<1>2. SoundTicks'
  BY TypesKnown DEF SoundTicks
<1> QED BY <1>1, <1>2, NothingWritten, RequestsStay, TypesKnown

LEMMA AgesStep ==
  ASSUME IInv, NEW d \in Rows, Ages(d)
  PROVE  IInv'
<1> DEFINE row == [dec[d] EXCEPT !.fresh = FALSE]
<1>1. dec[d] \in Decision
  BY DecFacts, TypesKnown
<1>2. /\ row \in Decision /\ row.target = dec[d].target
      /\ row.status = dec[d].status
      /\ row.by = dec[d].by /\ row.since = dec[d].since
  BY <1>1 DEF Decision
<1>3. /\ dec' = [dec EXCEPT ![d] = row]
      /\ UNCHANGED <<votes, plan, approved, adopted, truck, req, robot, limiter,
                     calls, faults>>
  BY DEF Ages
<1> HIDE DEF row
<1>4. /\ dec' \in Seq(Decision) /\ Len(dec') = Len(dec)
      /\ \A e \in Rows : /\ SameOrigin(e)
                         /\ dec'[e].status = IF e = d THEN row.status
                                             ELSE dec[e].status
  BY <1>2, <1>3, OneRow, TypesKnown
<1>5. NothingOpened /\ Rows' = Rows
  BY <1>2, <1>4 DEF NothingOpened, Rows
<1>6. StatusApproved'
  BY <1>2, <1>3, <1>4, <1>5 DEF IInv, StatusApproved
<1>7. OthersTyped'
  BY <1>3, TypesKnown DEF OthersTyped
<1>8. SoundTicks'
  BY <1>3, <1>5, TicksStay
<1>9. RequestsStayOrEnd
  BY <1>3, RequestsStay, TypesKnown
<1> QED BY <1>3, <1>4, <1>5, <1>6, <1>7, <1>8, <1>9, OnlyRows

-----------------------------------------------------------------------------
(* The theorems.                                                            *)

LEMMA InitIInv == Init => IInv
<1> SUFFICES ASSUME Init PROVE IInv
  OBVIOUS
<1>1. /\ dec = <<>> /\ votes = {} /\ approved = {} /\ adopted = {}
      /\ robot = [s \in Schedulers |-> IdleTick]
      /\ req = [r \in Requests |-> IdleReq] /\ limiter = [s \in Schedulers |-> {}]
      /\ calls = 0 /\ faults = 0
  BY DEF Init
<1>2. dec \in Seq(Decision) /\ Len(dec) = 0 /\ Rows = {}
  BY <1>1 DEF Rows
<1>3. req \in [Requests -> Request] /\ \A r \in Requests : req[r] = IdleReq
  BY <1>1, IdleReqType
<1>4. TypeOK
  BY <1>1, <1>2, <1>3, IdleTickSound, DecisionsAssumption DEF Init, TypeOK
<1>5. RequestsSound
  BY <1>3, IdleIsSound DEF RequestsSound
<1>6. SoundTicks /\ IsFiniteSet(votes)
  BY <1>1, <1>2, IdleTickSound, FS_EmptySet DEF SoundTicks
<1>7. /\ approved \subseteq Rows /\ ApprovedByVote /\ StatusApproved
      /\ RobotsPropose /\ OnlyOverlapRepeats /\ OnlyOverlapOpensTwo
  BY <1>1, <1>2 DEF ApprovedByVote, StatusApproved, RobotsPropose,
                    OnlyOverlapRepeats, OnlyOverlapOpensTwo, OpenPlans
<1> QED BY <1>4, <1>5, <1>6, <1>7 DEF IInv

LEMMA NextIInv == IInv /\ [Next]_vars => IInv'
<1> SUFFICES ASSUME IInv, [Next]_vars PROVE IInv'
  OBVIOUS
<1>1. ASSUME NEW r \in Requests, Single(r) PROVE IInv'
  BY <1>1, LoadsVerdictStep, LoadsEditStep, SavesVerdictStep, SavesEditStep
     DEF Single
<1>2. ASSUME NEW r \in Requests, Bulk(r) PROVE IInv'
  <2>1. CASE DeadlockAborts(r)
    BY <2>1, EndStep DEF DeadlockAborts
  <2> QED BY <1>2, <2>1, BulkBeginsStep, BulkLoadsStep, BulkWritesStep,
             BulkCommitsStep DEF Bulk
<1>3. ASSUME NEW r \in Requests, SeesVote(r) \/ Fails(r) PROVE IInv'
  BY <1>3, SeesVoteStep, EndStep DEF Fails
<1>4. ASSUME NEW s \in Schedulers, RobotSteps(s) PROVE IInv'
  BY <1>4, TickReadsStep, SupersedeReadsStep, SupersedeWritesStep,
     RevalidateReadsStep, RevalidateWritesStep, BlockReadsStep, SkipsStep,
     ProposesStep, TickEndsStep DEF RobotSteps
<1>5. ASSUME NEW s \in Schedulers, RobotFaults(s) PROVE IInv'
  BY <1>5, GeneratorFailsStep, TickFailsStep, RestartStep DEF RobotFaults
<1>6. ASSUME NEW s \in Schedulers, LimiterExpires(s) PROVE IInv'
  BY <1>6, SurroundingsStep, TypesKnown DEF LimiterExpires, OthersTyped, table
<1>7. CASE Environment
  <2>1. ASSUME NEW p \in Plans, PlanIsMade(p) \/ PlanIsApproved(p) PROVE IInv'
    <3>1. plan' \in [Plans -> {"absent", "DRAFT", "LIVE"}]
      BY <2>1, TypesKnown DEF PlanIsMade, PlanIsApproved, OthersTyped
    <3> QED BY <2>1, <3>1, SurroundingsStep, TypesKnown
            DEF PlanIsMade, PlanIsApproved, OthersTyped
  <2>2. ASSUME NEW t \in Trucks, TruckLeaves(t) PROVE IInv'
    <3>1. truck' \in [Trucks -> {"open", "left"}]
      BY <2>2, TypesKnown DEF TruckLeaves, OthersTyped
    <3> QED BY <2>2, <3>1, SurroundingsStep, TypesKnown
            DEF TruckLeaves, OthersTyped, table
  <2> QED BY <1>7, <2>1, <2>2, AgesStep, EventProposesStep DEF Environment
<1>8. CASE UNCHANGED vars
  BY <1>8, SurroundingsStep, TypesKnown DEF vars, table, OthersTyped
<1> QED BY <1>1, <1>2, <1>3, <1>4, <1>5, <1>6, <1>7, <1>8 DEF Next

LEMMA Invariant == Spec => []IInv
BY InitIInv, NextIInv, PTL DEF Spec

\* Rows, votes, requests and ticks stay of their types in every interleaving.
THEOREM TypeCorrect == Spec => []TypeOK
BY Invariant, PTL DEF IInv

\* For any number of processes, targets, requests and faults, a signal is
\* proposed twice only by ticks of two processes that overlapped.
THEOREM RepeatsOverlap == Spec => []OnlyOverlapRepeats
BY Invariant, PTL DEF IInv

\* Whatever happens while ticks run, two plans are open to be adopted only when
\* ticks of two processes overlapped.
THEOREM OpenPlansOverlap == Spec => []OnlyOverlapOpensTwo
BY Invariant, PTL DEF IInv

\* A row that is approved, executed or rolled back has a vote of somebody who
\* may decide.
LEMMA ApprovedRows == IInv => ExecutedWasApproved
BY DEF IInv, StatusApproved, ApprovedByVote, VotedIn, ExecutedWasApproved

\* Nothing is executed that nobody entitled approved, for any number of people
\* and overlapping requests.
THEOREM OnlyApprovedIsExecuted == Spec => []ExecutedWasApproved
BY Invariant, ApprovedRows, PTL

-----------------------------------------------------------------------------
(* The rows are a ProposalDesk: each step is a move at the desk or none.    *)

LEMMA SeenIsSeq ==
  TypeOK => Len(SeenDesk) = Len(dec) /\ DOMAIN SeenDesk = Rows
<1> SUFFICES ASSUME TypeOK PROVE Len(SeenDesk) = Len(dec) /\ DOMAIN SeenDesk = Rows
  OBVIOUS
<1> DEFINE S == {SeenDesk[d] : d \in Rows}
<1>1. Len(dec) \in Nat /\ Rows = 1 .. Len(dec)
  BY DecFacts
<1>2. SeenDesk \in [1 .. Len(dec) -> S]
  BY <1>1 DEF SeenDesk
<1> HIDE DEF S
<1> QED BY <1>1, <1>2, SeqAgain

LEMMA SeenLength ==
  ASSUME TypeOK, TypeOK'
  PROVE  /\ Len(SeenDesk) = Len(dec) /\ DOMAIN SeenDesk = Rows
         /\ Len(SeenDesk') = Len(dec') /\ DOMAIN SeenDesk' = Rows'
<1>1. Len(SeenDesk) = Len(dec) /\ DOMAIN SeenDesk = Rows
  BY SeenIsSeq
<1>2. (Len(SeenDesk) = Len(dec) /\ DOMAIN SeenDesk = Rows)'
  BY SeenIsSeq, PTL
<1> QED BY <1>1, <1>2

\* Nobody sees a step that changes neither targets nor status nor approvals.
LEMMA UnseenStep ==
  ASSUME Len(dec') = Len(dec), approved' = approved,
         \A d \in Rows : SameOrigin(d) /\ dec'[d].status = dec[d].status
  PROVE  UNCHANGED SeenDesk
<1>1. Rows' = Rows
  BY DEF Rows
<1> QED BY <1>1 DEF SeenDesk, SameOrigin

LEMMA NothingSeen ==
  ASSUME dec' = dec, approved' = approved
  PROVE  UNCHANGED SeenDesk
BY UnseenStep DEF SameOrigin

\* The rows ids get one answer, in one commit.
LEMMA AnswerStep ==
  ASSUME TypeOK, TypeOK', NEW ids, NEW s \in Verdicts,
         dec' = WithStatus(ids, s),
         approved' = IF s = "APPROVED" THEN approved \cup ids ELSE approved
  PROVE  Desk!Next
<1> DEFINE says == DeskState[s]
<1>1. says \in {"yes", "no"} /\ (says = "yes" <=> s = "APPROVED") /\ s \in Statuses
  BY DEF DeskState, Verdicts, Statuses
<1>2. /\ Len(dec') = Len(dec)
      /\ \A d \in Rows :
           /\ SameOrigin(d)
           /\ dec'[d].status = IF d \in ids THEN s ELSE dec[d].status
  BY <1>1, WithStatusRows
<1>3. Rows' = Rows
  BY <1>2 DEF Rows
<1>4. Len(SeenDesk') = Len(SeenDesk) /\ DOMAIN SeenDesk = Rows
  BY <1>2, SeenLength
<1>5. ASSUME NEW d \in Rows
      PROVE  SeenDesk'[d] = SeenDesk[d] \/ SeenDesk'[d] = Desk!Answered(SeenDesk[d], says)
  <2>1. CASE d \in ids
    <3>1. SeenDesk'[d] = [about |-> dec[d].target, by |-> dec[d].by,
                          state |-> says, agreed |-> d \in approved']
      BY <1>2, <1>3, <2>1 DEF SeenDesk, SameOrigin
    <3>2. (d \in approved') = (d \in approved \/ says = "yes")
      BY <1>1, <2>1
    <3> QED BY <3>1, <3>2 DEF SeenDesk, Desk!Answered
  <2>2. CASE d \notin ids
    <3>1. (d \in approved') = (d \in approved)
      BY <2>2
    <3> QED BY <1>2, <1>3, <2>2, <3>1 DEF SeenDesk, SameOrigin
  <2> QED BY <2>1, <2>2
<1> HIDE DEF says
<1>6. Desk!Answer(says)
  BY <1>4, <1>5 DEF Desk!Answer
<1> QED BY <1>1, <1>6 DEF Desk!Next

\* A person answers, several answer in bulk, a robot withdraws.
LEMMA SavesVerdictSeen ==
  ASSUME IInv, IInv', NEW r \in Requests, SavesVerdict(r)
  PROVE  Desk!Next
<1>1. req[r].verb \in Verdicts
  BY RequestFacts DEF SavesVerdict, SoundRequest
<1> QED BY <1>1, AnswerStep DEF SavesVerdict, IInv

LEMMA BulkCommitsSeen ==
  ASSUME IInv, IInv', NEW r \in Requests, BulkCommits(r)
  PROVE  Desk!Next
<1>1. req[r].verb \in Verdicts
  BY RequestFacts DEF BulkCommits, SoundRequest
<1> QED BY <1>1, AnswerStep DEF BulkCommits, IInv

LEMMA RejectsSeen ==
  ASSUME IInv, IInv', NEW s, NEW from, NEW to, Rejects(s, from, to)
  PROVE  Desk!Next
<1>1. "REJECTED" \in Verdicts
  BY DEF Verdicts
<1> QED BY <1>1, AnswerStep DEF Rejects, IInv

\* An edit of the payload is not seen; an execution or a rollback is of a row
\* that was approved, and no longer open when it is written.
LEMMA SavesEditSeen ==
  ASSUME IInv, IInv', NEW r \in Requests, SavesEdit(r)
  PROVE  Desk!Next \/ UNCHANGED SeenDesk
<1> DEFINE q == req[r]
<1>1. /\ q \in Request /\ SoundRequest(q, Len(dec), votes, approved)
      /\ q.pc = "loaded" /\ q.verb \in Edits /\ approved' = approved
  BY RequestFacts DEF SavesEdit
<1>2. q.id \in Rows /\ (q.verb \in {"execute", "rollback"} => q.id \in approved)
  BY <1>1 DEF SoundRequest, Rows
<1>3. Len(dec) \in Nat /\ dec \in [Rows -> Decision] /\ dec[q.id] \in Decision
  BY <1>2, DecFacts DEF IInv
<1>4. CASE q.verb = "patch"
  <2> DEFINE row == [dec[q.id] EXCEPT !.payload = q.to]
  <2>1. dec' = [dec EXCEPT ![q.id] = row]
    BY <1>4 DEF SavesEdit
  <2>2. /\ row \in Decision /\ row.target = dec[q.id].target
        /\ row.by = dec[q.id].by /\ row.since = dec[q.id].since
        /\ row.status = dec[q.id].status
    BY <1>1, <1>3 DEF Decision, Request
  <2> HIDE DEF row, q
  <2>3. /\ Len(dec') = Len(dec)
        /\ \A d \in Rows : SameOrigin(d) /\ dec'[d].status = dec[d].status
    <3>1. /\ Len(dec') = Len(dec)
          /\ \A d \in Rows :
               /\ SameOrigin(d)
               /\ dec'[d].status = IF d = q.id THEN row.status ELSE dec[d].status
      BY <1>2, <2>1, <2>2, OneRow DEF IInv
    <3> QED BY <2>2, <3>1
  <2> QED BY <1>1, <2>3, UnseenStep
<1>5. CASE q.verb \in {"execute", "rollback"}
  <2> DEFINE s == IF q.verb = "execute" THEN "EXECUTED" ELSE "ROLLED_BACK"
             row == [dec[q.id] EXCEPT !.status = s]
  <2>1. dec' = [dec EXCEPT ![q.id] = row]
    BY <1>5 DEF SavesEdit
  <2>2. /\ row \in Decision /\ row.target = dec[q.id].target /\ row.status = s
        /\ row.by = dec[q.id].by /\ row.since = dec[q.id].since
        /\ DeskState[s] \in {"done", "undone"}
    BY <1>3 DEF Decision, Statuses, DeskState
  <2> HIDE DEF row, s, q
  <2>3. /\ Len(dec') = Len(dec)
        /\ \A d \in Rows :
             /\ SameOrigin(d)
             /\ dec'[d].status = IF d = q.id THEN s ELSE dec[d].status
    <3>1. /\ Len(dec') = Len(dec)
          /\ \A d \in Rows :
               /\ SameOrigin(d)
               /\ dec'[d].status = IF d = q.id THEN row.status ELSE dec[d].status
      BY <1>2, <2>1, <2>2, OneRow DEF IInv
    <3> QED BY <2>2, <3>1
  <2>4. Rows' = Rows /\ Len(SeenDesk') = Len(SeenDesk) /\ DOMAIN SeenDesk = Rows
    <3>1. Rows' = Rows
      BY <2>3 DEF Rows
    <3>2. TypeOK /\ TypeOK'
      BY DEF IInv
    <3> QED BY <2>3, <3>1, <3>2, SeenLength
  <2>5. dec[q.id].status # "PROPOSED"
    BY <1>2, <1>5 DEF IInv, StatusApproved
  <2>6. ASSUME NEW d \in Rows
        PROVE  \/ SeenDesk'[d] = SeenDesk[d]
               \/ /\ SeenDesk[d].agreed /\ SeenDesk[d].state # "open"
                  /\ SeenDesk'[d] \in Desk!Handled(SeenDesk[d])
    <3>1. CASE d = q.id
      <4>1. SeenDesk'[d] = [about |-> dec[d].target, by |-> dec[d].by,
                            state |-> DeskState[s], agreed |-> d \in approved]
        BY <1>1, <2>3, <2>4, <3>1 DEF SeenDesk, SameOrigin
      <4>2. SeenDesk'[d] = [SeenDesk[d] EXCEPT !.state = DeskState[s]]
        BY <4>1 DEF SeenDesk
      <4>3. SeenDesk[d].agreed
        BY <1>2, <1>5, <3>1 DEF SeenDesk
      <4>4. SeenDesk[d].state # "open"
        BY <1>3, <2>5, <3>1 DEF SeenDesk, DeskState, Decision, Statuses
      <4> QED BY <2>2, <4>2, <4>3, <4>4 DEF Desk!Handled
    <3>2. CASE d # q.id
      BY <1>1, <2>3, <2>4, <3>2 DEF SeenDesk, SameOrigin
    <3> QED BY <3>1, <3>2
  <2>7. Desk!CarryOut
    BY <2>4, <2>6 DEF Desk!CarryOut
  <2> QED BY <2>7 DEF Desk!Next
<1> QED BY <1>1, <1>4, <1>5 DEF Edits


\* A row that is added is a question that is put, by somebody who may.
LEMMA AppendSeen ==
  ASSUME IInv, IInv', approved' = approved, NEW c, NEW w,
         NEW row \in Decision, dec' = Append(dec, row),
         row.status = "PROPOSED", row.target = c, row.by = w,
         w = Listener \/ \A d \in Rows : dec[d].by = w => dec[d].target # c,
         c \in Plans => \A d \in Rows : dec[d].by = w => ~OpenPlan(dec[d])
  PROVE  Desk!Next
<1> DEFINE n == Len(dec)
<1>1. /\ TypeOK /\ TypeOK' /\ n \in Nat /\ Rows = 1 .. n /\ Rows' = 1 .. n + 1
      /\ Len(dec') = n + 1 /\ dec'[n + 1] = row
      /\ \A d \in 1 .. n : dec'[d] = dec[d]
      /\ \A d \in 1 .. n + 1 : d \in 1 .. n \/ d = n + 1
      /\ approved \subseteq Rows
  BY AppendsRow DEF IInv
<1> HIDE DEF n
<1>2. /\ Len(SeenDesk) = n /\ DOMAIN SeenDesk = 1 .. n
      /\ Len(SeenDesk') = n + 1 /\ DOMAIN SeenDesk' = 1 .. n + 1
  BY <1>1, SeenLength DEF n
<1>3. \A d \in 1 .. n : SeenDesk'[d] = SeenDesk[d]
  BY <1>1 DEF SeenDesk
<1>4. SeenDesk'[n + 1] = Desk!Proposal(c, w)
  <2>1. n + 1 \in 1 .. n + 1 /\ n + 1 \notin approved'
    BY <1>1
  <2>2. SeenDesk'[n + 1] = [about |-> dec'[n + 1].target, by |-> dec'[n + 1].by,
                            state |-> DeskState[dec'[n + 1].status],
                            agreed |-> n + 1 \in approved']
    BY <1>1, <2>1 DEF SeenDesk
  <2>3. DeskState["PROPOSED"] = "open"
    BY DEF DeskState
  <2>4. /\ dec'[n + 1].target = c /\ DeskState[dec'[n + 1].status] = "open"
        /\ dec'[n + 1].by = w /\ (n + 1 \in approved') = FALSE
    BY <1>1, <2>1, <2>3
  <2> QED BY <2>2, <2>4, Zenon DEF Desk!Proposal
<1>5. SeenDesk'[Len(SeenDesk')].about = c /\ SeenDesk'[Len(SeenDesk')].by = w
  BY <1>2, <1>4 DEF Desk!Proposal
<1>6. w \in {Listener} \/ Desk!NeverAsked(c, w)
  BY <1>1, <1>2 DEF SeenDesk, Desk!NeverAsked
<1>7. c \in Plans => ~Desk!ExclusiveOpen(w)
  <2> SUFFICES ASSUME c \in Plans, NEW d \in 1 .. n, SeenDesk[d].by = w,
                      SeenDesk[d].state = "open", SeenDesk[d].about \in Plans
        PROVE  FALSE
    BY <1>2 DEF Desk!ExclusiveOpen
  <2>1. dec[d] \in Decision
    BY <1>1, DecFacts
  <2>2. dec[d].by = w /\ OpenPlan(dec[d])
    BY <1>1, <2>1 DEF SeenDesk, OpenPlan, DeskState, Decision, Statuses
  <2> QED BY <1>1, <2>2
<1>8. SeenDesk' = Append(SeenDesk, Desk!Proposal(c, w))
  <2> DEFINE x == Desk!Proposal(c, w)
             S == {SeenDesk[d] : d \in 1 .. n} \cup {x}
  <2>1. SeenDesk \in [1 .. n -> S] /\ SeenDesk' \in [1 .. n + 1 -> S]
    <3>1. SeenDesk = [d \in 1 .. n |-> SeenDesk[d]]
          /\ SeenDesk' = [d \in 1 .. n + 1 |-> SeenDesk'[d]]
      BY <1>1 DEF SeenDesk
    <3> QED BY <1>1, <1>3, <1>4, <3>1
  <2> HIDE DEF x, S
  <2>2. x \in S /\ SeenDesk \in Seq(S)
    BY <1>1, <2>1, SeqAgain DEF S
  <2>3. /\ Append(SeenDesk, x) \in Seq(S) /\ Len(Append(SeenDesk, x)) = n + 1
        /\ \A d \in 1 .. n : Append(SeenDesk, x)[d] = SeenDesk[d]
        /\ Append(SeenDesk, x)[n + 1] = x
    BY <1>1, <1>2, <2>2, AppendProperties
  <2>4. Append(SeenDesk, x) \in [1 .. n + 1 -> S]
    BY <2>3, LenProperties
  <2>5. SeenDesk'[n + 1] = x
    BY <1>4 DEF x
  <2>6. \A d \in 1 .. n + 1 : SeenDesk'[d] = Append(SeenDesk, x)[d]
    <3>1. \A d \in 1 .. n + 1 : d \in 1 .. n \/ d = n + 1
      BY <1>1
    <3>2. Append(SeenDesk, x)[n + 1] = x
      BY <2>3
    <3>3. \A d \in 1 .. n : SeenDesk'[d] = Append(SeenDesk, x)[d]
      BY <1>3, <2>3
    <3> QED BY <2>5, <3>1, <3>2, <3>3
  <2>7. SeenDesk' = Append(SeenDesk, x)
    BY <1>1, <2>1, <2>4, <2>6
  <2> QED BY <2>7 DEF x
<1>9. Len(SeenDesk') = Len(SeenDesk) + 1
  BY <1>2
<1>10. Desk!Ask
  BY <1>5, <1>6, <1>7, <1>8, <1>9 DEF Desk!Ask
<1> QED BY <1>10 DEF Desk!Next

\* A robot asks about what it has not asked about.
LEMMA ProposesSeen ==
  ASSUME IInv, IInv', NEW s \in Schedulers, NEW c \in Signals, Proposes(s, c)
  PROVE  Desk!Next
<1>1. PICK row \in Decision :
         /\ row.status = "PROPOSED" /\ row.target = c /\ row.by = s
         /\ dec' = Append(dec, row)
  BY ProposesFacts
<1>2. \A d \in Rows : dec[d].by = s =>
         /\ dec[d].target # c /\ (c \in Plans => ~OpenPlan(dec[d]))
  BY ProposesFacts DEF Known, Rows
<1>3. approved' = approved
  BY DEF Proposes
<1> QED BY <1>1, <1>2, <1>3, AppendSeen

\* The listener asks what it likes, and never about a plan to adopt.
LEMMA EventProposesSeen ==
  ASSUME IInv, IInv', NEW e \in Events, NEW p \in 0 .. MaxPlans,
         EventProposes(e, p)
  PROVE  Desk!Next
<1>1. 0 \in 0 .. MaxDecisions /\ e \in Targets /\ e \notin Plans
  BY TargetsApart, DecisionsAssumption DEF Targets, Signals
<1>2. PICK row \in Decision : /\ row = Proposal(e, p, Listener, 0)
                              /\ row.status = "PROPOSED" /\ row.target = e
                              /\ row.by = Listener
  BY <1>1, ProposalType
<1>3. dec' = Append(dec, row) /\ approved' = approved
  BY <1>2 DEF EventProposes
<1> QED BY <1>1, <1>2, <1>3, AppendSeen

\* The clock only ages a row.
LEMMA AgesSeen ==
  ASSUME IInv, NEW d \in Rows, Ages(d)
  PROVE  UNCHANGED SeenDesk
<1> DEFINE row == [dec[d] EXCEPT !.fresh = FALSE]
<1>1. dec[d] \in Decision
  BY DecFacts, TypesKnown
<1>2. /\ row \in Decision /\ row.target = dec[d].target
      /\ row.status = dec[d].status
      /\ row.by = dec[d].by /\ row.since = dec[d].since
  BY <1>1 DEF Decision
<1>3. dec' = [dec EXCEPT ![d] = row] /\ approved' = approved
  BY DEF Ages
<1> HIDE DEF row
<1>4. /\ Len(dec') = Len(dec)
      /\ \A e \in Rows : SameOrigin(e) /\ dec'[e].status = dec[e].status
  <2>1. /\ Len(dec') = Len(dec)
        /\ \A e \in Rows :
             /\ SameOrigin(e)
             /\ dec'[e].status = IF e = d THEN row.status ELSE dec[e].status
    BY <1>2, <1>3, OneRow, TypesKnown
  <2> QED BY <1>2, <2>1
<1> QED BY <1>3, <1>4, UnseenStep

LEMMA InitSeen == Init => Desk!Init
<1> SUFFICES ASSUME Init PROVE SeenDesk = <<>>
  BY DEF Desk!Init
<1>1. Rows = {}
  BY DEF Init, Rows
<1> QED BY <1>1 DEF SeenDesk

LEMMA NextSeen == IInv /\ IInv' /\ [Next]_vars => [Desk!Next]_SeenDesk
<1> SUFFICES ASSUME IInv, IInv', [Next]_vars PROVE Desk!Next \/ UNCHANGED SeenDesk
  OBVIOUS
<1>1. ASSUME NEW r \in Requests, Single(r) PROVE Desk!Next \/ UNCHANGED SeenDesk
  BY <1>1, NothingSeen, SavesVerdictSeen, SavesEditSeen
     DEF Single, LoadsVerdict, LoadsEdit, table
<1>2. ASSUME NEW r \in Requests, Bulk(r) PROVE Desk!Next \/ UNCHANGED SeenDesk
  BY <1>2, NothingSeen, BulkCommitsSeen
     DEF Bulk, BulkBegins, BulkLoads, BulkWrites, DeadlockAborts, table
<1>3. ASSUME NEW r \in Requests, SeesVote(r) \/ Fails(r) PROVE UNCHANGED SeenDesk
  BY <1>3, NothingSeen DEF SeesVote, Fails, table
<1>4. ASSUME NEW s \in Schedulers, RobotSteps(s)
      PROVE  Desk!Next \/ UNCHANGED SeenDesk
  <2>1. ASSUME SupersedeWrites(s) \/ RevalidateWrites(s) PROVE Desk!Next
    BY <2>1, RejectsSeen DEF SupersedeWrites, RevalidateWrites
  <2>2. ASSUME NEW c \in Signals, Skips(s, c) \/ Proposes(s, c)
        PROVE  Desk!Next \/ UNCHANGED SeenDesk
    BY <2>2, ProposesSeen, NothingSeen DEF Skips, table
  <2>3. ASSUME \/ TickReads(s) \/ SupersedeReads(s) \/ RevalidateReads(s)
               \/ BlockReads(s) \/ TickEnds(s)
        PROVE  UNCHANGED SeenDesk
    BY <2>3, NothingSeen
       DEF TickReads, TickBegins, SupersedeReads, RevalidateReads, ReadsToReject,
           BlockReads, TickEnds, table
  <2> QED BY <1>4, <2>1, <2>2, <2>3 DEF RobotSteps
<1>5. ASSUME NEW s \in Schedulers, RobotFaults(s) \/ LimiterExpires(s)
      PROVE  UNCHANGED SeenDesk
  BY <1>5, NothingSeen
     DEF RobotFaults, GeneratorFails, TickBegins, TickFails, Restart,
         LimiterExpires, table
<1>6. ASSUME Environment PROVE Desk!Next \/ UNCHANGED SeenDesk
  BY <1>6, NothingSeen, AgesSeen, EventProposesSeen
     DEF Environment, PlanIsMade, PlanIsApproved, TruckLeaves, table
<1>7. CASE UNCHANGED vars
  BY <1>7, NothingSeen DEF vars, table
<1> QED BY <1>1, <1>2, <1>3, <1>4, <1>5, <1>6, <1>7 DEF Next

\* The decisions are a ProposalDesk, for any number of processes, people,
\* requests, targets and faults: whatever overlaps, a robot puts a question
\* once, an answer is never taken back to the question, and only what was agreed
\* to is carried out.
THEOREM DecisionsImplementDesk == Spec => DeskSpec
BY Invariant, InitSeen, NextSeen, PTL DEF Spec, DeskSpec, Desk!Spec
-----------------------------------------------------------------------------
(* The row locks of bulk requests.                                          *)

\* The rows of some items; the rows that r has written and not committed yet.
Named(items) == {x[1] : x \in items}
HeldBy(r) == Named(req[r].done)

\* A row is held by one bulk request.
HeldApart ==
    \A r, q \in Requests : \A d \in HeldBy(r) : d \in HeldBy(q) => r = q

\* What is said in a row, and what about.
SameRow(d) ==
    /\ dec'[d].target = dec[d].target
    /\ dec'[d].status = dec[d].status
    /\ dec'[d].payload = dec[d].payload

\* Until a bulk request ends, nobody else changes what a row says that it has
\* written; its age may change.
HeldStays ==
    \A r \in Requests : HeldBy(r)' # {} => \A d \in HeldBy(r) : SameRow(d)

LEMMA HeldRows == IInv => \A r \in Requests : HeldBy(r) \subseteq Rows
BY DEF IInv, RequestsSound, SoundRequest, HeldBy, Named, Rows

\* A step that makes no request hold a row more.
LEMMA HoldsNoMore ==
  ASSUME HeldApart, \A r \in Requests : HeldBy(r)' \subseteq HeldBy(r)
  PROVE  HeldApart'
BY DEF HeldApart

\* What a request holds after it has changed to q.
LEMMA HeldChanges ==
  ASSUME TypeOK, NEW r \in Requests, NEW q, req' = [req EXCEPT ![r] = q]
  PROVE  /\ HeldBy(r)' = Named(q.done)
         /\ \A t \in Requests \ {r} : HeldBy(t)' = HeldBy(t)
BY DEF TypeOK, HeldBy

LEMMA EndedHoldsNothing ==
  ASSUME TypeOK, NEW r \in Requests, req' = Ended(r)
  PROVE  /\ HeldBy(r)' = {}
         /\ \A t \in Requests \ {r} : HeldBy(t)' = HeldBy(t)
<1>1. req' = [req EXCEPT ![r] = IdleReq] /\ IdleReq.done = {}
  BY DEF Ended, IdleReq
<1>2. Named({}) = {}
  BY DEF Named
<1> QED BY <1>1, <1>2, HeldChanges

LEMMA NamedGrows ==
  ASSUME NEW items, NEW item
  PROVE  Named(items \cup {item}) = Named(items) \cup {item[1]}
<1>1. ASSUME NEW d \in Named(items \cup {item}) PROVE d \in Named(items) \cup {item[1]}
  <2>1. PICK x \in items \cup {item} : d = x[1]
    BY DEF Named
  <2> QED BY <2>1 DEF Named
<1>2. \A d \in Named(items) \cup {item[1]} : d \in Named(items \cup {item})
  BY DEF Named
<1> QED BY <1>1, <1>2

LEMMA BulkWritesHeld ==
  ASSUME TypeOK, HeldApart, NEW r \in Requests, BulkWrites(r)
  PROVE  HeldApart'
<1> DEFINE id == req[r].id
           item == <<id, req[r].found>>
           q == [req[r] EXCEPT !.pc = "next", !.done = @ \cup {item}]
<1>1. req' = [req EXCEPT ![r] = q] /\ q.done = req[r].done \cup {item} /\ item[1] = id
  BY DEF BulkWrites, TypeOK, Request
<1>2. \A t \in Requests \ {r} : id \notin HeldBy(t)
  BY DEF BulkWrites, Locked, HeldBy, Named
<1> HIDE DEF q, item, id
<1>3. /\ HeldBy(r)' = HeldBy(r) \cup {id}
      /\ \A t \in Requests \ {r} : HeldBy(t)' = HeldBy(t)
  <2>1. Named(req[r].done \cup {item}) = HeldBy(r) \cup {id}
    BY <1>1, NamedGrows DEF HeldBy
  <2>2. HeldBy(r)' = Named(q.done)
    BY <1>1, HeldChanges
  <2>3. \A t \in Requests \ {r} : HeldBy(t)' = HeldBy(t)
    BY <1>1, HeldChanges
  <2> QED BY <1>1, <2>1, <2>2, <2>3
<1> QED BY <1>2, <1>3 DEF HeldApart

LEMMA NextHeldApart == TypeOK /\ HeldApart /\ [Next]_vars => HeldApart'
<1> SUFFICES ASSUME TypeOK, HeldApart, [Next]_vars PROVE HeldApart'
  OBVIOUS
<1>1. ASSUME NEW r \in Requests, req' = Ended(r) PROVE HeldApart'
  BY <1>1, EndedHoldsNothing, HoldsNoMore
<1>2. ASSUME NEW r \in Requests, NEW q, req' = [req EXCEPT ![r] = q],
             q.done \subseteq req[r].done
      PROVE  HeldApart'
  BY <1>2, HeldChanges, HoldsNoMore DEF HeldBy, Named
<1>3. ASSUME req' = req PROVE HeldApart'
  BY <1>3 DEF HeldApart, HeldBy
<1>4. ASSUME NEW r \in Requests, Single(r) PROVE HeldApart'
  <2>1. ASSUME NEW p \in People, NEW v \in Verdicts, NEW d \in Rows,
               LoadsVerdict(r, p, v, d)
        PROVE  HeldApart'
    BY <2>1, <1>2 DEF LoadsVerdict, IdleReq
  <2>2. ASSUME NEW v \in Edits, NEW d \in Rows, NEW to \in 0 .. MaxPlans,
               LoadsEdit(r, v, d, to)
        PROVE  HeldApart'
    BY <2>2, <1>2 DEF LoadsEdit, IdleReq
  <2> QED BY <1>4, <1>1, <2>1, <2>2 DEF Single, SavesVerdict, SavesEdit
<1>5. ASSUME NEW r \in Requests, Bulk(r) PROVE HeldApart'
  <2>1. ASSUME NEW p \in People, NEW v \in Verdicts, NEW ids \in Pairs,
               BulkBegins(r, p, v, ids)
        PROVE  HeldApart'
    BY <2>1, <1>2 DEF BulkBegins, IdleReq
  <2>2. ASSUME BulkLoads(r) PROVE HeldApart'
    BY <2>2, <1>2 DEF BulkLoads, TypeOK, Request
  <2> QED BY <1>5, <1>1, <2>1, <2>2, BulkWritesHeld DEF Bulk, BulkCommits, DeadlockAborts
<1>6. ASSUME NEW r \in Requests, SeesVote(r) \/ Fails(r) PROVE HeldApart'
  <2>1. ASSUME SeesVote(r), req' # Ended(r) PROVE HeldApart'
    BY <2>1, <1>2 DEF SeesVote, TypeOK, Request
  <2> QED BY <1>6, <1>1, <2>1 DEF Fails
<1>7. ASSUME NEW s \in Schedulers, RobotSteps(s) PROVE HeldApart'
  BY <1>7, <1>3 DEF RobotSteps, TickReads, TickBegins, SupersedeReads, SupersedeWrites,
     RevalidateReads, RevalidateWrites, ReadsToReject, Rejects, BlockReads, Skips,
     Proposes, TickEnds
<1>8. ASSUME Environment \/ UNCHANGED vars PROVE HeldApart'
  BY <1>8, <1>3 DEF Environment, PlanIsMade, PlanIsApproved, TruckLeaves, Ages,
     EventProposes, vars
<1>9. ASSUME NEW s \in Schedulers, RobotFaults(s) \/ LimiterExpires(s)
      PROVE  HeldApart'
  <2>1. ASSUME NEW gone, Restart(s, gone) PROVE HeldApart'
    BY <2>1 DEF Restart, HeldApart, HeldBy, Named, IdleReq
  <2> QED BY <1>9, <1>3, <2>1
          DEF RobotFaults, GeneratorFails, TickBegins, TickFails, LimiterExpires
<1> QED BY <1>4, <1>5, <1>6, <1>7, <1>8, <1>9 DEF Next

\* Answers to rows that nobody else holds.
LEMMA AnswersBeside ==
  ASSUME IInv, NEW ids, NEW s \in Statuses, dec' = WithStatus(ids, s),
         \A r \in Requests : HeldBy(r)' # {} => HeldBy(r) \cap ids = {}
  PROVE  HeldStays
<1>1. \A d \in Rows \ ids : dec'[d] = dec[d]
  BY DEF WithStatus
<1> QED BY <1>1, HeldRows DEF HeldStays, SameRow

LEMMA SavesVerdictBeside ==
  ASSUME IInv, NEW r \in Requests, SavesVerdict(r)
  PROVE  HeldStays
<1>1. /\ dec' = WithStatus({req[r].id}, req[r].verb) /\ req' = Ended(r)
      /\ \A t \in Requests \ {r} : req[r].id \notin HeldBy(t)
  BY DEF SavesVerdict, Locked, HeldBy, Named
<1>2. req[r].verb \in Statuses
  BY RequestFacts DEF SavesVerdict, SoundRequest, Verdicts, Statuses
<1> QED BY <1>1, <1>2, EndedHoldsNothing, AnswersBeside DEF IInv

LEMMA BulkCommitsBeside ==
  ASSUME IInv, HeldApart, NEW r \in Requests, BulkCommits(r)
  PROVE  HeldStays
<1>1. dec' = WithStatus(HeldBy(r), req[r].verb) /\ req' = Ended(r)
  BY DEF BulkCommits, HeldBy, Named
<1>2. req[r].verb \in Statuses
  BY RequestFacts DEF BulkCommits, SoundRequest, Verdicts, Statuses
<1>3. \A t \in Requests \ {r} : HeldBy(t) \cap HeldBy(r) = {}
  BY DEF HeldApart
<1> QED BY <1>1, <1>2, <1>3, EndedHoldsNothing, AnswersBeside DEF IInv

LEMMA RejectsBeside ==
  ASSUME IInv, NEW s, NEW from, NEW to, Rejects(s, from, to)
  PROVE  HeldStays
<1>1. /\ dec' = WithStatus(robot[s].seen, "REJECTED") /\ req' = req
      /\ \A r \in Requests : HeldBy(r) \cap robot[s].seen = {}
  BY DEF Rejects, HeldBy, Named
<1> QED BY <1>1, AnswersBeside DEF Statuses

LEMMA SavesEditBeside ==
  ASSUME IInv, NEW r \in Requests, SavesEdit(r)
  PROVE  HeldStays
<1>1. /\ req' = Ended(r)
      /\ \A t \in Requests \ {r} : req[r].id \notin HeldBy(t)
  BY DEF SavesEdit, Locked, HeldBy, Named
<1>2. \A d \in Rows \ {req[r].id} : dec'[d] = dec[d]
  BY DEF SavesEdit, IInv, TypeOK, Rows
<1> QED BY <1>1, <1>2, EndedHoldsNothing, HeldRows DEF IInv, HeldStays, SameRow

LEMMA NextHeldStays == IInv /\ HeldApart /\ [Next]_vars => HeldStays
<1> SUFFICES ASSUME IInv, HeldApart, [Next]_vars PROVE HeldStays
  OBVIOUS
<1>1. ASSUME dec' = dec PROVE HeldStays
  BY <1>1 DEF HeldStays, SameRow
<1>2. ASSUME NEW r \in Requests, Single(r) PROVE HeldStays
  BY <1>2, <1>1, SavesVerdictBeside, SavesEditBeside
     DEF Single, LoadsVerdict, LoadsEdit, table
<1>3. ASSUME NEW r \in Requests, Bulk(r) PROVE HeldStays
  BY <1>3, <1>1, BulkCommitsBeside
     DEF Bulk, BulkBegins, BulkLoads, BulkWrites, DeadlockAborts, table
<1>4. ASSUME NEW r \in Requests, SeesVote(r) \/ Fails(r) PROVE HeldStays
  BY <1>4, <1>1 DEF SeesVote, Fails, table
<1>5. ASSUME NEW row, dec' = Append(dec, row) PROVE HeldStays
  <2>1. \A d \in Rows : dec'[d] = dec[d]
    BY <1>5 DEF IInv, TypeOK, Rows
  <2> QED BY <2>1, HeldRows DEF HeldStays, SameRow
<1>6. ASSUME NEW d \in Rows, Ages(d) PROVE HeldStays
  <2>1. \A e \in Rows : SameRow(e)
    BY <1>6 DEF Ages, IInv, TypeOK, Rows, SameRow, Decision
  <2> QED BY <2>1, HeldRows DEF HeldStays
<1>7. ASSUME NEW s \in Schedulers, RobotSteps(s) PROVE HeldStays
  BY <1>7, <1>1, <1>5, RejectsBeside
     DEF RobotSteps, TickReads, TickBegins, SupersedeReads, SupersedeWrites,
         RevalidateReads, RevalidateWrites, ReadsToReject, BlockReads, Skips,
         Proposes, TickEnds, table
<1>8. ASSUME NEW s \in Schedulers, RobotFaults(s) \/ LimiterExpires(s)
      PROVE  HeldStays
  BY <1>8, <1>1 DEF RobotFaults, GeneratorFails, TickBegins, TickFails, Restart,
     LimiterExpires, table
<1>9. ASSUME Environment \/ UNCHANGED vars PROVE HeldStays
  BY <1>9, <1>1, <1>5, <1>6
     DEF Environment, PlanIsMade, PlanIsApproved, TruckLeaves, EventProposes,
         vars, table
<1> QED BY <1>2, <1>3, <1>4, <1>7, <1>8, <1>9 DEF Next

\* For any number of people, requests and bulk requests that overlap with each
\* other and with the robots, a row that a bulk request has written is its own
\* until it ends: nobody commits to the row between that write and the commit.
\* (What was committed between its read and its write is overwritten.)
THEOREM BulkHoldsItsRows == Spec => [][HeldStays]_vars
<1>1. Init => HeldApart
  BY DEF Init, HeldApart, HeldBy, Named, IdleReq
<1>2. Spec => []HeldApart
  BY <1>1, NextHeldApart, TypeCorrect, PTL DEF Spec
<1> QED BY <1>2, Invariant, NextHeldStays, PTL DEF Spec
=============================================================================
