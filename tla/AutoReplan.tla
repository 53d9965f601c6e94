---------------------------- MODULE AutoReplan ----------------------------
(***************************************************************************)
(* The robot that asks for a new plan when the work in progress changed    *)
(* (scheduling/jobs/auto_cpo_replan_job.py).                               *)
(*                                                                         *)
(* Each API process runs a scheduler whose tick, every 15 minutes, compares*)
(* the watermark of the WIP with the one of its own last request and       *)
(* enqueues a job in Arq under a key made of the watermark.  A worker runs *)
(* the job; Arq refuses a key while its job waits, runs, or has its result *)
(* kept.  People move operations meanwhile, which also makes commits.      *)
(*                                                                         *)
(* Time passes by Elapse, every age saturates, and a tick may come at any   *)
(* time.  Watermarks are numbered in the order they appear.                *)
(***************************************************************************)
EXTENDS Naturals

CONSTANTS
    Scheds,     \* schedulers, one in each API process
    MaxWip,     \* bound on the changes of the WIP
    Gap,        \* auto_replan_min_gap_min, in units of time
    Keep,       \* keep_result, in the same units
    JobLife,    \* job_timeout, in the same units, rounded up
    MaxTries    \* Arq's bound on the runs of a job whose worker dies

ASSUME ReplanAssumption ==
    /\ Gap \in Nat \ {0} /\ Keep \in Nat \ {0}
    /\ JobLife \in Nat
    /\ MaxWip \in Nat \ {0} /\ MaxTries \in Nat \ {0}

Wips == 0 .. MaxWip     \* 0: no boat in production

\* Job keys: job_id = auto_cpo:{tenant}:{sha256 of the watermark}
Keys == 1 .. MaxWip

\* "drafted": the job has persisted a commit and may still re-apply moves;
\* "kept": it ended, its result is in Redis.
ArqJob == [st : {"none", "queued", "running", "drafted", "kept"},
           age : 0 .. (Keep + JobLife), tries : 0 .. MaxTries, reads : Wips]

VARIABLES
    wip,       \* watermark of the WIP, as _WATERMARK_SQL reads it
    asking,    \* [Scheds -> watermark read and not yet enqueued, 0 if none]
    fresh,     \* [Scheds -> a healthy commit appeared since this tick began]
    lastWm,    \* [Scheds -> watermark of the last request]: _last_run[tid][1]
    since,     \* [Scheds -> age of the last request]: _last_run[tid][0]
    healthy,   \* [Scheds -> a healthy commit is newer than that request]
    arq,       \* [Keys -> ArqJob]
    planned,   \* watermarks a healthy plan of the robot was made of (history)
    draftAge   \* [Keys -> age of the newest DRAFT under this watermark] (history)

vars == <<wip, asking, fresh, lastWm, since, healthy, arq, planned,
          draftAge>>

sched == <<asking, lastWm, since>>

TypeOK ==
    /\ wip \in Wips
    /\ asking \in [Scheds -> Wips]
    /\ fresh \in [Scheds -> BOOLEAN]
    /\ lastWm \in [Scheds -> Wips]
    /\ since \in [Scheds -> 0 .. Gap]
    /\ healthy \in [Scheds -> BOOLEAN]
    /\ arq \in [Keys -> ArqJob]
    /\ planned \in SUBSET Wips
    /\ draftAge \in [Keys -> 0 .. Keep]

-----------------------------------------------------------------------------
NoJob == [st |-> "none", age |-> 0, tries |-> 0, reads |-> 0]

Init ==
    /\ wip = 0
    /\ asking = [i \in Scheds |-> 0]
    /\ fresh = [i \in Scheds |-> FALSE]
    /\ lastWm = [i \in Scheds |-> 0]
    /\ since = [i \in Scheds |-> 0]
    /\ healthy = [i \in Scheds |-> FALSE]
    /\ arq = [k \in Keys |-> NoJob]
    /\ planned = {}
    /\ draftAge = [k \in Keys |-> Keep]

Older(a, limit) == IF a < limit THEN a + 1 ELSE a

\* A commit that is not degenerate is newer than every request made so far.
HealthyCommit ==
    /\ healthy' = [i \in Scheds |-> TRUE]
    /\ fresh' = [i \in Scheds |-> asking[i] # 0]

\* Mutant: no result is kept.
RefusesActive(k) == arq[k].st \in {"queued", "running", "drafted"}

\* enqueue_job returns None for a key whose job waits, runs or has a result.
Refuses(k) == arq[k].st # "none"

\* Mutant: the watermark alone decides (before Q.162.C).
WmChanged(i) == lastWm[i] = 0 \/ wip # lastWm[i]

\* First run, another WIP, or no healthy commit since the last request.
NeedsPlan(i) == lastWm[i] = 0 \/ wip # lastWm[i] \/ ~healthy[i]

\* The rate limit.
MayAsk(i) == lastWm[i] = 0 \/ since[i] >= Gap

\* Ticks that return before they enqueue change nothing: within the rate
\* limit, without boats, disabled, after a database error, and this one, the
\* WIP is unchanged and there is a healthy commit.
Sleeps(i) == MayAsk(i) /\ wip # 0 /\ ~NeedsPlan(i)

-----------------------------------------------------------------------------
(* The schedulers.  max_instances = 1: the ticks of one do not overlap.     *)

TickDecides(i) ==
    /\ asking[i] = 0
    /\ MayAsk(i)
    /\ wip # 0 /\ NeedsPlan(i)
    /\ asking' = [asking EXCEPT ![i] = wip]
    /\ fresh' = [fresh EXCEPT ![i] = FALSE]
    /\ UNCHANGED <<wip, lastWm, since, healthy, arq, planned, draftAge>>

\* _enqueue_cpo does not look at what enqueue_job returns.
TickEnqueues(i) ==
    LET w == asking[i]
    IN  /\ w # 0
        /\ arq' = IF Refuses(w) THEN arq
                  ELSE [arq EXCEPT ![w] = [NoJob EXCEPT !.st = "queued"]]
        /\ lastWm' = [lastWm EXCEPT ![i] = w]
        /\ since' = [since EXCEPT ![i] = 0]
        /\ healthy' = [healthy EXCEPT ![i] = fresh[i]]
        /\ asking' = [asking EXCEPT ![i] = 0]
        /\ fresh' = [fresh EXCEPT ![i] = FALSE]
        /\ UNCHANGED <<wip, planned, draftAge>>

\* Redis is down: nothing is remembered.
TickFails(i) ==
    /\ asking[i] # 0
    /\ asking' = [asking EXCEPT ![i] = 0]
    /\ fresh' = [fresh EXCEPT ![i] = FALSE]
    /\ UNCHANGED <<wip, lastWm, since, healthy, arq, planned, draftAge>>

\* The API process restarts: _last_run is empty again.
Restart(i) ==
    /\ lastWm[i] # 0
    /\ asking' = [asking EXCEPT ![i] = 0]
    /\ fresh' = [fresh EXCEPT ![i] = FALSE]
    /\ lastWm' = [lastWm EXCEPT ![i] = 0]
    /\ since' = [since EXCEPT ![i] = 0]
    /\ healthy' = [healthy EXCEPT ![i] = FALSE]
    /\ UNCHANGED <<wip, arq, planned, draftAge>>

-----------------------------------------------------------------------------
(* Arq and the worker (cpo_schedule_job).                                  *)

\* The job loads the open orders when it starts, not when it was asked for.
JobStarts(k) ==
    /\ arq[k].st = "queued"
    /\ arq' = [arq EXCEPT ![k] = [st |-> "running", age |-> 0,
                                  tries |-> arq[k].tries + 1, reads |-> wip]]
    /\ UNCHANGED <<wip, sched, fresh, healthy, planned, draftAge>>

\* The plan of what it read is persisted and is not degenerate.
JobDrafts(k) ==
    /\ arq[k].st = "running"
    /\ arq' = [arq EXCEPT ![k].st = "drafted", ![k].reads = 0]
    /\ planned' = planned \cup {arq[k].reads}
    /\ draftAge' = [draftAge EXCEPT ![k] = 0]
    /\ HealthyCommit
    /\ UNCHANGED <<wip, sched>>

\* The plan is degenerate: persisted, but nobody counts it.
JobDegenerates(k) ==
    /\ arq[k].st = "running"
    /\ arq' = [arq EXCEPT ![k].st = "drafted", ![k].reads = 0]
    /\ draftAge' = [draftAge EXCEPT ![k] = 0]
    /\ UNCHANGED <<wip, sched, fresh, healthy, planned>>

\* The job returns, raises, or is cancelled by job_timeout; Arq keeps the
\* result of all three.
JobEnds(k) ==
    /\ arq[k].st \in {"running", "drafted"}
    /\ arq' = [arq EXCEPT ![k] = [NoJob EXCEPT !.st = "kept"]]
    /\ UNCHANGED <<wip, sched, fresh, healthy, planned, draftAge>>

\* Mutant: Arq does not count the runs.
RerunForever(k) ==
    /\ arq[k].st \in {"running", "drafted"}
    /\ arq' = [arq EXCEPT ![k].st = "queued", ![k].age = 0]
    /\ UNCHANGED <<wip, sched, fresh, healthy, planned, draftAge>>

\* The worker dies: Arq runs the job again, MaxTries times in all.
JobCrashes(k) ==
    /\ arq[k].st \in {"running", "drafted"}
    /\ arq' = [arq EXCEPT ![k] =
                  IF arq[k].tries < MaxTries
                  THEN [NoJob EXCEPT !.st = "queued", !.tries = arq[k].tries]
                  ELSE [NoJob EXCEPT !.st = "kept"]]
    /\ UNCHANGED <<wip, sched, fresh, healthy, planned, draftAge>>

ResultExpires(k) ==
    /\ arq[k].st = "kept" /\ arq[k].age >= Keep
    /\ arq' = [arq EXCEPT ![k] = NoJob]
    /\ UNCHANGED <<wip, sched, fresh, healthy, planned, draftAge>>

-----------------------------------------------------------------------------
(* The surroundings.                                                       *)

WipChanges ==
    /\ wip < MaxWip
    /\ wip' = wip + 1
    /\ UNCHANGED <<sched, fresh, healthy, arq, planned, draftAge>>

\* A move of a person, or re-applied by a job whose own plan was not
\* persisted: a commit with the cpo_meta of its parent.
MoveCommits ==
    /\ planned # {}
    /\ HealthyCommit
    /\ UNCHANGED <<wip, sched, arq, planned, draftAge>>

\* Time passes, but no job outlives job_timeout and no result keep_result.
Elapse ==
    /\ \A k \in Keys :
         /\ arq[k].st \in {"running", "drafted"} => arq[k].age < JobLife
         /\ arq[k].st = "kept" => arq[k].age < Keep
    /\ since' = [i \in Scheds |->
                    IF lastWm[i] = 0 THEN 0 ELSE Older(since[i], Gap)]
    /\ draftAge' = [k \in Keys |-> Older(draftAge[k], Keep)]
    /\ arq' = [k \in Keys |->
                  IF arq[k].st \in {"running", "drafted", "kept"}
                  THEN [arq[k] EXCEPT !.age = @ + 1] ELSE arq[k]]
    /\ UNCHANGED <<wip, asking, fresh, lastWm, healthy, planned>>

-----------------------------------------------------------------------------
Tick(i) == TickDecides(i) \/ TickEnqueues(i) \/ TickFails(i)

Job(k) ==
    \/ JobStarts(k) \/ JobDrafts(k) \/ JobDegenerates(k)
    \/ JobEnds(k) \/ JobCrashes(k) \/ ResultExpires(k)

Next ==
    \/ \E i \in Scheds : Tick(i) \/ Restart(i)
    \/ \E k \in Keys : Job(k)
    \/ WipChanges \/ MoveCommits \/ Elapse

Spec == Init /\ [][Next]_vars

\* Schedulers and worker go on; ticks, requests and solves that may fail do
\* not fail for ever.
Fairness ==
    /\ WF_vars(Elapse)
    /\ \A i \in Scheds :
         /\ SF_vars(TickDecides(i)) /\ SF_vars(TickEnqueues(i))
    /\ \A k \in Keys :
         /\ WF_vars(JobStarts(k)) /\ WF_vars(JobEnds(k))
         /\ WF_vars(ResultExpires(k)) /\ SF_vars(JobDrafts(k))

FairSpec == Spec /\ Fairness

-----------------------------------------------------------------------------
(* Properties.                                                             *)

\* Two schedulers that see the same WIP do not get two DRAFTs for it within
\* keep_result, whatever their phases and restarts (Q.142.A); only a job that
\* Arq runs again after its worker died repeats its DRAFT.
OneDraft ==
    [][\A k \in Keys :
          arq[k].st = "running" /\ arq'[k].st = "drafted" /\ arq[k].tries = 1
              => draftAge[k] >= Keep]_vars

\* What a recent DRAFT of key k leaves behind in Arq until keep_result is over
\* (the inductive invariant behind OneDraft, module AutoReplan_proofs).
DraftInv ==
    \A k \in Keys :
        /\ arq[k].st = "queued" => arq[k].tries < MaxTries
        /\ draftAge[k] < Keep =>
              \/ arq[k].st = "drafted"
              \/ arq[k].st = "running" /\ arq[k].tries > 1
              \/ arq[k].st = "queued" /\ arq[k].tries > 0
              \/ arq[k].st = "kept" /\ arq[k].age <= draftAge[k]
        /\ arq[k].st \in {"running", "drafted"} =>
              arq[k].tries > 0 /\ arq[k].age <= JobLife
        /\ arq[k].st = "kept" => arq[k].age <= Keep

\* Q.162.C: when some scheduler waits for the plan it asked for, a healthy
\* commit newer than every request follows, through failed and degenerate
\* jobs whose result is kept, the rate limit and restarts.
FailedPlanRetried ==
    (\E i \in Scheds : lastWm[i] # 0 /\ ~healthy[i])
        ~> \A i \in Scheds : healthy[i]

=============================================================================
