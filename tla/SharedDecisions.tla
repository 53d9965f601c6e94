--------------------------- MODULE SharedDecisions ---------------------------
(***************************************************************************)
(* The decisions people see (table shared.decision_runs): the endpoints of *)
(* /v1/decisions, the robot that proposes and withdraws decisions from the *)
(* signals of the plan (auto_propose_signals_job), and the listener that   *)
(* proposes from events of Kafka (auto_propose).                           *)
(*                                                                         *)
(* A handler loads its decision with session.get, without a lock, checks   *)
(* the status it loaded, and writes the row by its id when it commits: two *)
(* overlapping handlers both pass, and the later write stands.  A bulk     *)
(* request keeps the row locks of the items it has written until its one   *)
(* commit.                                                                 *)
(*                                                                         *)
(* Every process of the service starts a scheduler, and with it a robot    *)
(* with a rate limiter of its own (max_instances = 1 holds in a process;   *)
(* no lock and no unique index holds between them).  A robot works in      *)
(* short sessions, one after the other.                                    *)
(*                                                                         *)
(* What people propose is rolled back after its answer (module             *)
(* RequestSession) and makes no row.  Plans stands for the commits of the  *)
(* schedule ledger in order of creation; the other ways to add and to      *)
(* approve one belong to ScheduleCommits and are the environment here.     *)
(***************************************************************************)
EXTENDS Naturals, FiniteSets, Sequences

CONSTANTS
    People,         \* who calls the endpoints
    MayDecide,      \* those whose role check_sod accepts
    Requests,       \* requests that can be in flight together
    Schedulers,     \* processes, each with its robot
    Listener,       \* the consumer of events, as the author of a row
    Trucks,         \* targets of the other signals, one suggestion a truck
    Events,         \* what events are about
    MaxPlans,       \* bound on the plans of one behaviour
    MaxDecisions,   \* bound on the rows of one behaviour
    MaxCalls,       \* bound on the requests of one behaviour
    MaxFaults,      \* bound on restarts and failures of the ticks
    MaxEvents       \* bound on the rows of the listener in one behaviour

ASSUME DecisionsAssumption ==
    /\ MayDecide \subseteq People /\ MayDecide # {}
    /\ MaxPlans \in Nat /\ MaxDecisions \in Nat \ {0}
    /\ MaxCalls \in Nat /\ MaxFaults \in Nat /\ MaxEvents \in Nat
    /\ Trucks \cap (0 .. MaxPlans) = {}
    /\ Events \cap ((0 .. MaxPlans) \cup Trucks) = {}
    /\ Listener \notin Schedulers

Plans == 1 .. MaxPlans
Ids   == 1 .. MaxDecisions

\* A row of a robot is about a plan (ADOPT_PLAN, its target is the sha) or a
\* truck; one of the listener is about an event (AUTO_PROPOSE_SCHEDULE).
Signals == Plans \cup Trucks
Targets == Signals \cup Events

Statuses == {"PROPOSED", "APPROVED", "EXECUTED", "ROLLED_BACK", "REJECTED"}

Verdicts == {"APPROVED", "REJECTED"}
Edits    == {"patch", "execute", "rollback"}

\* fresh: proposed less than decision_ttl_hours ago.
Decision == [target  : Targets,
             status  : Statuses,
             payload : 0 .. MaxPlans,   \* after_state.commit_sha, 0 if none
             sandbox : 0 .. MaxPlans,   \* sandbox_result.commit_sha
             fresh   : BOOLEAN,
             by      : Schedulers \cup {Listener},  \* who proposed it (history)
             since   : 0 .. MaxDecisions]  \* rows when that tick began (history)

\* A row of decision_approvals; nothing keeps one person to one of them.
Vote == [decision : Ids, by : People, n : Nat \ {0},
         says : Verdicts]

VARIABLES
    dec,        \* the committed rows, in order of insertion
    votes,      \* committed rows of decision_approvals
    plan,       \* [Plans -> {"absent", "DRAFT", "LIVE"}]
    truck,      \* [Trucks -> {"open", "left"}]
    req,        \* [Requests -> Request]
    robot,      \* [Schedulers -> Tick]
    limiter,    \* targets each process recorded less than a window ago
    calls,      \* requests received so far
    faults,     \* faults so far
    approved,   \* rows an approval of which was ever committed (history)
    adopted     \* rows an approval of which promoted their plan (history)

table == <<dec, votes, plan, approved, adopted>>
vars  == <<table, truck, req, robot, limiter, calls, faults>>

\* "loaded": the status was checked; "voting": the own vote was looked up;
\* "next": a bulk request between two items.
Request ==
    [pc      : {"idle", "loaded", "voting", "next"},
     verb    : Verdicts \cup Edits,
     by      : People,
     id      : Ids,
     payload : 0 .. MaxPlans,           \* as it was loaded
     found   : {"none"} \cup Verdicts,  \* what the own vote said, if any
     to      : 0 .. MaxPlans,           \* the plan a patch names
     bulk    : BOOLEAN,
     todo    : Seq(Ids),                \* items of a bulk request left
     done    : SUBSET (Ids \X ({"none"} \cup Verdicts))]  \* written: id, found

\* The phases of _auto_propose_signals_job for one tenant.
Tick == [pc : {"idle", "supersede", "reject_plans", "revalidate",
               "reject_stale", "block", "propose"},
         todo    : SUBSET Signals,      \* candidates
         keep    : 0 .. MaxPlans,       \* keep_sha, 0 for None
         seen    : SUBSET Ids,          \* rows read as PROPOSED, to reject
         since   : 0 .. MaxDecisions]   \* rows when it began (history)

\* Everything is of its type: rows, votes, requests in flight, the ticks.
TypeOK ==
    /\ dec \in Seq(Decision) /\ Len(dec) <= MaxDecisions
    /\ votes \subseteq Vote
    /\ plan \in [Plans -> {"absent", "DRAFT", "LIVE"}]
    /\ truck \in [Trucks -> {"open", "left"}]
    /\ req \in [Requests -> Request]
    /\ robot \in [Schedulers -> Tick]
    /\ limiter \in [Schedulers -> SUBSET Signals]
    /\ calls \in 0 .. MaxCalls
    /\ faults \in 0 .. MaxFaults
    /\ approved \subseteq Ids
    /\ adopted \subseteq Ids

-----------------------------------------------------------------------------
IdleTick ==
    [pc |-> "idle", todo |-> {}, keep |-> 0, seen |-> {}, since |-> 0]

IdleReq == [pc |-> "idle", verb |-> "patch", by |-> CHOOSE p \in People : TRUE,
            id |-> 1, payload |-> 0, found |-> "none", to |-> 0,
            bulk |-> FALSE, todo |-> <<>>, done |-> {}]

Init ==
    /\ dec = <<>> /\ votes = {}
    /\ plan = [p \in Plans |-> "absent"]
    /\ truck = [t \in Trucks |-> "open"]
    /\ req = [r \in Requests |-> IdleReq]
    /\ robot = [s \in Schedulers |-> IdleTick]
    /\ limiter = [s \in Schedulers |-> {}]
    /\ calls = 0 /\ faults = 0
    /\ approved = {} /\ adopted = {}

-----------------------------------------------------------------------------
(* What the handlers and the robot share.                                   *)

Rows == 1 .. Len(dec)

\* The row lock of d is held by a bulk request other than r.
Locked(d, r) ==
    \E q \in Requests \ {r} : \E x \in req[q].done : x[1] = d

WithStatus(ids, status) ==
    [d \in Rows |->
        IF d \in ids THEN [dec[d] EXCEPT !.status = status] ELSE dec[d]]

OwnVotes(d, p) == {v \in votes : v.decision = d /\ v.by = p}

\* The votes once p's verdict on items is stored.  A vote that was found is
\* written only when it said something else: SQLAlchemy leaves a column that
\* is set to the value it was loaded with out of the UPDATE.
VotesAfter(p, says, items) ==
    LET changed(v) == /\ v.by = p /\ v.n = 1
                      /\ \E x \in items : /\ x[1] = v.decision
                                          /\ x[2] \notin {"none", says}
    IN  {IF changed(v) THEN [v EXCEPT !.says = says] ELSE v : v \in votes}
        \cup {[decision |-> x[1], by |-> p, says |-> says,
               n |-> Cardinality(OwnVotes(x[1], p)) + 1] :
                 x \in {y \in items : y[2] = "none"}}

Ended(r) == [req EXCEPT ![r] = IdleReq]

-----------------------------------------------------------------------------
(* The endpoints.  A request that is refused changes nothing and is left    *)
(* out; one that fails is rolled back.                                      *)

\* approve_decision: 404, the status, SoD (the robot proposed every row).
LoadsVerdict(r, p, verb, d) ==
    /\ req[r].pc = "idle" /\ calls < MaxCalls
    /\ d \in Rows /\ dec[d].status = "PROPOSED"
    /\ p \in MayDecide
    /\ req' = [req EXCEPT ![r] = [IdleReq EXCEPT
                 !.pc = "loaded", !.verb = verb, !.by = p, !.id = d,
                 !.payload = dec[d].payload]]
    /\ calls' = calls + 1
    /\ UNCHANGED <<table, truck, robot, limiter, faults>>

\* Mutant: execute only refuses what is over.
StatusFitsOpen(verb, row) ==
    CASE verb = "patch"   -> row.status = "PROPOSED"
      [] verb = "execute" -> row.status \in {"PROPOSED", "APPROVED"}
      [] OTHER            -> row.status = "EXECUTED"

\* The status an edit asks for.  A rollback may come within the 24 hours or
\* after them, when it is refused: executed_at is left out.
StatusFits(verb, row) ==
    CASE verb = "patch"   -> row.status = "PROPOSED"
      [] verb = "execute" -> row.status = "APPROVED"
      [] OTHER            -> row.status = "EXECUTED"

LoadsEdit(r, verb, d, to) ==
    /\ req[r].pc = "idle" /\ calls < MaxCalls
    /\ d \in Rows /\ StatusFits(verb, dec[d])
    /\ to # 0 => verb = "patch" /\ dec[d].target \notin Trucks
    /\ req' = [req EXCEPT ![r] = [IdleReq EXCEPT
                 !.pc = "loaded", !.verb = verb, !.id = d, !.to = to]]
    /\ calls' = calls + 1
    /\ UNCHANGED <<table, truck, robot, limiter, faults>>

\* scalar_one_or_none raises when the person has two votes on the row.
SeesVote(r) ==
    LET own == OwnVotes(req[r].id, req[r].by)
    IN  /\ req[r].pc = "loaded" /\ req[r].verb \in Verdicts
        /\ req' = IF \E v, w \in own : v # w THEN Ended(r)
                  ELSE [req EXCEPT ![r] = [@ EXCEPT !.pc = "voting", !.found =
                          IF own = {} THEN "none" ELSE (CHOOSE v \in own : TRUE).says]]
        /\ UNCHANGED <<table, truck, robot, limiter, calls, faults>>

\* The plan of a decision: what after_state names, or else sandbox_result.
CommitSha(q) == IF q.payload # 0 THEN q.payload ELSE dec[q.id].sandbox

\* A planning decision whose plan promote_to_live finds, not LIVE yet.
Promotes(q) ==
    /\ q.verb = "APPROVED" /\ dec[q.id].target \notin Trucks
    /\ CommitSha(q) # 0 /\ plan[CommitSha(q)] = "DRAFT"

\* Vote, status and promotion in one transaction.
SavesVerdict(r) ==
    LET q == req[r]
    IN  /\ q.pc = "voting" /\ ~q.bulk /\ ~Locked(q.id, r)
        /\ dec' = WithStatus({q.id}, q.verb)
        /\ votes' = VotesAfter(q.by, q.verb, {<<q.id, q.found>>})
        /\ plan' = IF Promotes(q) THEN [plan EXCEPT ![CommitSha(q)] = "LIVE"]
                   ELSE plan
        /\ adopted' = IF Promotes(q) THEN adopted \cup {q.id} ELSE adopted
        /\ approved' = IF q.verb = "APPROVED" THEN approved \cup {q.id}
                       ELSE approved
        /\ req' = Ended(r)
        /\ UNCHANGED <<truck, robot, limiter, calls, faults>>

\* Mutant: a patch stores the whole row as it was loaded, its status included.
SavesEditWhole(r) ==
    LET q == req[r]
    IN  /\ q.pc = "loaded" /\ q.verb \in Edits /\ ~Locked(q.id, r)
        /\ dec' = CASE q.verb = "patch" ->
                         [dec EXCEPT ![q.id] = [@ EXCEPT !.payload = q.to,
                                                         !.status = "PROPOSED"]]
                    [] q.verb = "execute" ->
                         [dec EXCEPT ![q.id].status = "EXECUTED"]
                    [] OTHER -> [dec EXCEPT ![q.id].status = "ROLLED_BACK"]
        /\ req' = Ended(r)
        /\ UNCHANGED <<votes, plan, approved, adopted, truck, robot, limiter,
                       calls, faults>>

SavesEdit(r) ==
    LET q == req[r]
    IN  /\ q.pc = "loaded" /\ q.verb \in Edits /\ ~Locked(q.id, r)
        /\ dec' = CASE q.verb = "patch" ->
                         [dec EXCEPT ![q.id].payload = q.to]
                    [] q.verb = "execute" ->
                         [dec EXCEPT ![q.id].status = "EXECUTED"]
                    [] OTHER -> [dec EXCEPT ![q.id].status = "ROLLED_BACK"]
        /\ req' = Ended(r)
        /\ UNCHANGED <<votes, plan, approved, adopted, truck, robot, limiter,
                       calls, faults>>

\* bulk_act_decisions: nothing is checked before the first item.
BulkBegins(r, p, verb, ids) ==
    /\ req[r].pc = "idle" /\ calls < MaxCalls
    /\ req' = [req EXCEPT ![r] = [IdleReq EXCEPT
                 !.pc = "next", !.verb = verb, !.by = p, !.bulk = TRUE,
                 !.todo = ids]]
    /\ calls' = calls + 1
    /\ UNCHANGED <<table, truck, robot, limiter, faults>>

\* An item that is refused is reported and the next one is taken.
BulkLoads(r) ==
    LET q == req[r]  d == Head(q.todo)
    IN  /\ q.pc = "next" /\ q.todo # <<>>
        /\ req' = [req EXCEPT ![r] = [q EXCEPT
                     !.todo = Tail(q.todo), !.id = d,
                     !.pc = IF /\ d \in Rows /\ dec[d].status = "PROPOSED"
                               /\ q.by \in MayDecide
                            THEN "loaded" ELSE "next"]]
        /\ UNCHANGED <<table, truck, robot, limiter, calls, faults>>

\* The savepoint is released with a flush: the row is locked from here on.
BulkWrites(r) ==
    LET q == req[r]
    IN  /\ q.pc = "voting" /\ q.bulk /\ ~Locked(q.id, r)
        /\ req' = [req EXCEPT ![r] = [q EXCEPT
                     !.pc = "next", !.done = @ \cup {<<q.id, q.found>>}]]
        /\ UNCHANGED <<table, truck, robot, limiter, calls, faults>>

\* One commit for all items; no plan is promoted.
BulkCommits(r) ==
    LET q == req[r]  ids == {x[1] : x \in q.done}
    IN  /\ q.pc = "next" /\ q.todo = <<>>
        /\ dec' = WithStatus(ids, q.verb)
        /\ votes' = VotesAfter(q.by, q.verb, q.done)
        /\ approved' = IF q.verb = "APPROVED" THEN approved \cup ids
                       ELSE approved
        /\ req' = Ended(r)
        /\ UNCHANGED <<plan, adopted, truck, robot, limiter, calls, faults>>

\* A database error, or the client hangs up: nothing of the request stays.
Fails(r) ==
    /\ req[r].pc # "idle"
    /\ req' = Ended(r)
    /\ UNCHANGED <<table, truck, robot, limiter, calls, faults>>

\* Bulk requests that wait for each other's rows: Postgres ends one.
WaitsFor(r, q) ==
    /\ r # q /\ req[r].pc = "voting" /\ req[r].bulk
    /\ \E x \in req[q].done : x[1] = req[r].id

DeadlockAborts(r) ==
    /\ \E S \in SUBSET Requests :
         r \in S /\ \A q \in S : \E w \in S : WaitsFor(q, w)
    /\ req' = Ended(r)
    /\ UNCHANGED <<table, truck, robot, limiter, calls, faults>>

-----------------------------------------------------------------------------
(* The robots: in a process one tick at a time (max_instances = 1).         *)

\* get_latest: the plan created last, to be adopted while it is a DRAFT.
Exists(p) == plan[p] # "absent"
AdoptablePlans ==
    {p \in Plans : plan[p] = "DRAFT" /\ \A q \in Plans : Exists(q) => q <= p}

\* Mutant: there is always a plan among the candidates.
NoneCandidate(k, ts) == ts \cup {k}

Candidates(k, ts) == ts \cup (IF k = 0 THEN {} ELSE {k})

TickBegins(s, k, ts) ==
    /\ robot[s].pc = "idle"
    /\ robot' = [robot EXCEPT ![s] = [IdleTick EXCEPT
                   !.pc = "supersede", !.keep = k, !.todo = Candidates(k, ts),
                   !.since = Len(dec)]]
    /\ UNCHANGED <<table, truck, req, limiter, calls>>

OpenTrucks == {t \in Trucks : truck[t] = "open"}

\* Which open trucks have a suggestion depends on data left out here.
TickReads(s) ==
    /\ \E k \in 0 .. MaxPlans, ts \in SUBSET OpenTrucks :
         /\ k \in AdoptablePlans \/ (k = 0 /\ AdoptablePlans = {})
         /\ TickBegins(s, k, ts)
    /\ UNCHANGED faults

\* A generator that raises is logged and skipped: keep_sha is then None.
GeneratorFails(s) ==
    /\ faults < MaxFaults
    /\ \E ts \in SUBSET OpenTrucks : TickBegins(s, 0, ts)
    /\ faults' = faults + 1

\* _decision_obsolete_reason, of rows that are not about a plan to adopt.
Obsolete(row) ==
    /\ row.target \notin Plans
    /\ ~row.fresh \/ (row.target \in Trucks /\ truck[row.target] = "left")

\* Mutant: the newest proposal is added beside the older ones.
NoneSuperseded(s) == {}

\* What the supersede and the revalidation read as to be rejected.
Superseded(s) ==
    {d \in Rows : /\ dec[d].status = "PROPOSED"
                  /\ dec[d].target \in Plans \ {robot[s].keep}}

\* Mutant: only the age counts.
ExpiredRows == {d \in Rows : /\ dec[d].status = "PROPOSED"
                             /\ dec[d].target \notin Plans /\ ~dec[d].fresh}

StaleRows == {d \in Rows : dec[d].status = "PROPOSED" /\ Obsolete(dec[d])}

\* With nothing to reject there is no transaction.
ReadsToReject(s, from, to, over, ids) ==
    /\ robot[s].pc = from
    /\ robot' = [robot EXCEPT ![s].pc = IF ids = {} THEN over ELSE to,
                              ![s].seen = ids]
    /\ UNCHANGED <<table, truck, req, limiter, calls, faults>>

\* The rows are written by id, whatever became of them since they were read.
\* An UPDATE waits for the row locks of bulk requests.
Rejects(s, from, to) ==
    /\ robot[s].pc = from
    /\ \A d \in robot[s].seen :
         \A r \in Requests : \A x \in req[r].done : x[1] # d
    /\ dec' = WithStatus(robot[s].seen, "REJECTED")
    /\ robot' = [robot EXCEPT ![s].pc = to, ![s].seen = {}]
    /\ UNCHANGED <<votes, plan, approved, adopted, truck, req, limiter, calls,
                   faults>>

SupersedeReads(s) ==
    ReadsToReject(s, "supersede", "reject_plans", "revalidate", Superseded(s))
SupersedeWrites(s) == Rejects(s, "reject_plans", "revalidate")
RevalidateReads(s) ==
    ReadsToReject(s, "revalidate", "reject_stale", "block", StaleRows)
RevalidateWrites(s) == Rejects(s, "reject_stale", "block")

\* Mutant: a person's "no" is forgotten.
BlockedOpen == {dec[d].target : d \in {e \in Rows : dec[e].status = "PROPOSED"}}

\* _blocked_targets: rows of any status, of any process.
BlockedTargets == {dec[d].target : d \in Rows}

BlockReads(s) ==
    /\ robot[s].pc = "block"
    /\ robot' = [robot EXCEPT ![s].pc = "propose", ![s].todo = @ \ BlockedTargets]
    /\ UNCHANGED <<table, truck, req, limiter, calls, faults>>

\* The candidates are taken in order, the plan first.
IsNext(s, c) ==
    c \in robot[s].todo /\ (c \in Plans \/ robot[s].todo \cap Plans = {})

Skips(s, c) ==
    /\ robot[s].pc = "propose" /\ IsNext(s, c)
    /\ c \in limiter[s]
    /\ robot' = [robot EXCEPT ![s].todo = @ \ {c}]
    /\ UNCHANGED <<table, truck, req, limiter, calls, faults>>

Proposal(t, commit, who, since) ==
    [target |-> t, status |-> "PROPOSED", payload |-> commit,
     sandbox |-> commit, fresh |-> TRUE, by |-> who, since |-> since]

\* propose_decision_row, in a transaction of its own; another process may have
\* proposed c since the blocked targets were read.
Proposes(s, c) ==
    /\ robot[s].pc = "propose" /\ IsNext(s, c)
    /\ c \notin limiter[s]
    /\ Len(dec) < MaxDecisions
    /\ dec' = Append(dec, Proposal(c, IF c \in Plans THEN c ELSE 0, s,
                                   robot[s].since))
    /\ limiter' = [limiter EXCEPT ![s] = @ \cup {c}]
    /\ robot' = [robot EXCEPT ![s].todo = @ \ {c}]
    /\ UNCHANGED <<votes, plan, approved, adopted, truck, req, calls, faults>>

TickEnds(s) ==
    /\ robot[s].pc = "propose" /\ robot[s].todo = {}
    /\ robot' = [robot EXCEPT ![s] = IdleTick]
    /\ UNCHANGED <<table, truck, req, limiter, calls, faults>>

\* A transaction of the tick fails and the tick ends; the key of a proposal
\* is recorded before it is stored.
TickFails(s) ==
    /\ robot[s].pc # "idle" /\ faults < MaxFaults
    /\ faults' = faults + 1
    /\ robot' = [robot EXCEPT ![s] = IdleTick]
    /\ \/ limiter' = limiter
       \/ \E c \in Signals \ limiter[s] :
            /\ robot[s].pc = "propose" /\ IsNext(s, c)
            /\ limiter' = [limiter EXCEPT ![s] = @ \cup {c}]
    /\ UNCHANGED <<table, truck, req, calls>>

\* Mutant: a recorded key stays.
NeverExpires(s) == FALSE /\ UNCHANGED vars

\* The five minutes of the rate limiter are over for every key recorded.
LimiterExpires(s) ==
    /\ limiter[s] # {}
    /\ limiter' = [limiter EXCEPT ![s] = {}]
    /\ UNCHANGED <<table, truck, req, robot, calls, faults>>

\* A process restarts: its tick, its limiter and its requests are gone.
Restart(s, gone) ==
    /\ faults < MaxFaults /\ gone \subseteq {r \in Requests : req[r].pc # "idle"}
    /\ faults' = faults + 1
    /\ req' = [r \in Requests |-> IF r \in gone THEN IdleReq ELSE req[r]]
    /\ robot' = [robot EXCEPT ![s] = IdleTick]
    /\ limiter' = [limiter EXCEPT ![s] = {}]
    /\ UNCHANGED <<table, truck, calls>>

-----------------------------------------------------------------------------
(* The listener.  Its limiter and its debouncer, of one process, forget and  *)
(* are passed by two callbacks at once: nothing keeps a subject to one row.  *)

EventRows == {d \in Rows : dec[d].by = Listener}

\* The solver ran before (p is its plan, 0 when it gave none).
EventProposes(e, p) ==
    /\ Len(dec) < MaxDecisions /\ Cardinality(EventRows) < MaxEvents
    /\ p # 0 => Exists(p)
    /\ dec' = Append(dec, Proposal(e, p, Listener, 0))
    /\ UNCHANGED <<votes, plan, approved, adopted, truck, req, robot, limiter,
                   calls, faults>>

-----------------------------------------------------------------------------
(* The environment: plans, trucks and the clock.                            *)

PlanIsMade(p) ==
    /\ ~Exists(p) /\ \A q \in 1 .. p - 1 : Exists(q)
    /\ plan' = [plan EXCEPT ![p] = "DRAFT"]
    /\ UNCHANGED <<dec, votes, approved, adopted, truck, req, robot, limiter,
                   calls, faults>>

\* POST /cpo/commits/{sha}/approve
PlanIsApproved(p) ==
    /\ plan[p] = "DRAFT"
    /\ plan' = [plan EXCEPT ![p] = "LIVE"]
    /\ UNCHANGED <<dec, votes, approved, adopted, truck, req, robot, limiter,
                   calls, faults>>

\* Dispatched, its date has passed, or the batch was removed.
TruckLeaves(t) ==
    /\ truck[t] = "open"
    /\ truck' = [truck EXCEPT ![t] = "left"]
    /\ UNCHANGED <<table, req, robot, limiter, calls, faults>>

\* The TTL of a proposal is over (plans are not revalidated by age).
Ages(d) ==
    /\ dec[d].fresh /\ dec[d].status = "PROPOSED" /\ dec[d].target \notin Plans
    /\ dec' = [dec EXCEPT ![d].fresh = FALSE]
    /\ UNCHANGED <<votes, plan, approved, adopted, truck, req, robot, limiter,
                   calls, faults>>

-----------------------------------------------------------------------------
Pairs == {s \in Ids \X Ids : s[1] # s[2]}

Single(r) ==
    \/ \E p \in People, v \in Verdicts, d \in Rows : LoadsVerdict(r, p, v, d)
    \/ \E v \in Edits, d \in Rows, to \in 0 .. MaxPlans : LoadsEdit(r, v, d, to)
    \/ SavesVerdict(r)
    \/ SavesEdit(r)

Bulk(r) ==
    \/ \E p \in People, v \in Verdicts, ids \in Pairs :
         {ids[1], ids[2]} \subseteq Rows /\ BulkBegins(r, p, v, ids)
    \/ BulkLoads(r)
    \/ BulkWrites(r)
    \/ BulkCommits(r)
    \/ DeadlockAborts(r)

RobotSteps(s) ==
    \/ TickReads(s)
    \/ SupersedeReads(s) \/ SupersedeWrites(s)
    \/ RevalidateReads(s) \/ RevalidateWrites(s)
    \/ BlockReads(s)
    \/ \E c \in Signals : Skips(s, c) \/ Proposes(s, c)
    \/ TickEnds(s)

RobotFaults(s) ==
    \/ GeneratorFails(s) \/ TickFails(s)
    \/ \E gone \in SUBSET Requests : Restart(s, gone)

Environment ==
    \/ \E p \in Plans : PlanIsMade(p) \/ PlanIsApproved(p)
    \/ \E t \in Trucks : TruckLeaves(t)
    \/ \E d \in Rows : Ages(d)
    \/ \E e \in Events, p \in 0 .. MaxPlans : EventProposes(e, p)

Next ==
    \/ \E r \in Requests : Single(r) \/ Bulk(r) \/ SeesVote(r) \/ Fails(r)
    \/ \E s \in Schedulers :
         RobotSteps(s) \/ RobotFaults(s) \/ LimiterExpires(s)
    \/ Environment

Spec == Init /\ [][Next]_vars

\* The schedulers go on ticking, a handler that began goes on, Postgres ends
\* deadlocks, the clock moves.
Goes(r) ==
    \/ SeesVote(r) \/ SavesVerdict(r) \/ SavesEdit(r)
    \/ BulkLoads(r) \/ BulkWrites(r) \/ BulkCommits(r) \/ DeadlockAborts(r)

Fairness ==
    /\ \A s \in Schedulers : WF_vars(RobotSteps(s)) /\ WF_vars(LimiterExpires(s))
    /\ \A r \in Requests : WF_vars(Goes(r))

FairSpec == Spec /\ Fairness

-----------------------------------------------------------------------------
(* Properties.                                                              *)

\* Row d was proposed by another process after the tick that proposed e began.
Overlapped(d, e) ==
    /\ {dec[d].by, dec[e].by} \subseteq Schedulers /\ dec[d].by # dec[e].by
    /\ dec[e].since < d

\* _blocked_targets keeps a robot from proposing what it, or any robot before
\* its tick began, has proposed, whatever became of the decision: a signal is
\* proposed twice only by ticks of two processes that overlapped.  (Then it is:
\* nothing holds between the reading of the blocked targets and the insert.)
OnlyOverlapRepeats ==
    \A d, e \in Rows :
        d < e /\ dec[d].target = dec[e].target /\ dec[d].target \in Signals
            => Overlapped(d, e)

OpenPlans == {d \in Rows : dec[d].status = "PROPOSED" /\ dec[d].target \in Plans}

\* The supersede leaves at most one plan to adopt open, also while a tick is
\* half done, fails, or runs on candidates that are no longer the newest: two
\* are open only if ticks of two processes overlapped.
OnlyOverlapOpensTwo ==
    \A d, e \in OpenPlans : d < e => Overlapped(d, e)

\* What was executed, or is approved, was approved by somebody check_sod lets
\* decide, and the vote is on record: no interleaving of verdicts, edits and
\* the robot's writes by id gets a row there another way.
ExecutedWasApproved ==
    \A d \in Rows :
        dec[d].status \in {"APPROVED", "EXECUTED", "ROLLED_BACK"} =>
            /\ d \in approved
            /\ \E v \in votes : v.decision = d /\ v.by \in MayDecide

\* What the rows are to the people who decide (module ProposalDesk).
DeskState == [PROPOSED |-> "open", APPROVED |-> "yes", REJECTED |-> "no",
              EXECUTED |-> "done", ROLLED_BACK |-> "undone"]

SeenDesk == [d \in Rows |-> [about  |-> dec[d].target,
                             by     |-> dec[d].by,
                             state  |-> DeskState[dec[d].status],
                             agreed |-> d \in approved]]

Desk == INSTANCE ProposalDesk WITH
    Exclusive <- Plans, Forgetful <- {Listener}, desk <- SeenDesk

\* Every commit of an endpoint or of a robot is a move at the desk: a robot
\* puts a question once, and about one plan at a time; two answers that overlap
\* can change each other, a write of an older reading cannot make a question of
\* an answer; what is carried out or undone was agreed to before.
DeskSpec == Desk!Spec

\* A proposal that no longer makes sense disappears: a row about a truck that
\* left, or older than the TTL, does not stay PROPOSED.
ObsoleteDisappears ==
    \A d \in Ids :
        (d \in Rows /\ dec[d].status = "PROPOSED" /\ Obsolete(dec[d]))
            ~> (d \in Rows /\ dec[d].status # "PROPOSED")

\* A proposal to adopt a plan that is LIVE by now, or that another plan
\* followed, is withdrawn or decided, also one that overlapping ticks left open
\* beside another.
StalePlanWithdrawn ==
    \A d \in Ids :
        (d \in OpenPlans /\ dec[d].target \notin AdoptablePlans)
            ~> (d \in Rows /\ dec[d].status # "PROPOSED")

\* A DRAFT that stays the newest plan is put to people, in spite of the rate
\* limiter's record of a proposal that failed and of bulk requests that lock
\* each other out.
PlanGetsProposed ==
    \A p \in Plans :
        (p \in AdoptablePlans)
            ~> (p \notin AdoptablePlans \/ \E d \in Rows : dec[d].target = p)

\* The supersede withdraws what is open: it takes no decision back whose plan
\* was adopted.
DecisionStands ==
    \A d \in Rows : d \in adopted => dec[d].status # "REJECTED"
=============================================================================
