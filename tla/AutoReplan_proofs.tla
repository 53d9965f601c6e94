------------------------- MODULE AutoReplan_proofs -------------------------
(* Proofs about AutoReplan: type correctness, and one DRAFT per kept key.  *)
EXTENDS AutoReplan, TLAPS

\* The inductive invariant: types, and what Arq remembers of a recent DRAFT.
IInv == TypeOK /\ DraftInv

\* Ages and counters are numbers.
LEMMA Bounds ==
    /\ Gap \in Nat /\ Keep \in Nat /\ JobLife \in Nat /\ MaxTries \in Nat
    /\ MaxWip \in Nat /\ Gap > 0 /\ Keep > 0 /\ MaxTries > 0
BY ReplanAssumption

\* An age that grows stays below its limit.
LEMMA OlderType ==
    ASSUME NEW limit \in Nat, NEW a \in 0 .. limit
    PROVE  Older(a, limit) \in 0 .. limit
BY DEF Older

\* A job that has drafted, and a job that Arq will run again, keep the type.
LEMMA ArqJobType ==
    ASSUME NEW r \in ArqJob
    PROVE  /\ [r EXCEPT !.st = "drafted", !.reads = 0] \in ArqJob
           /\ [NoJob EXCEPT !.st = "queued", !.tries = r.tries] \in ArqJob
<1> USE Bounds
<1>1. [r EXCEPT !.st = "drafted"] \in ArqJob
    BY DEF ArqJob
<1>2. ASSUME NEW q \in ArqJob PROVE [q EXCEPT !.reads = 0] \in ArqJob
    BY DEF ArqJob, Wips
<1>3. [NoJob EXCEPT !.st = "queued"] \in ArqJob
    BY DEF NoJob, ArqJob, Wips
<1>4. ASSUME NEW q \in ArqJob PROVE [q EXCEPT !.tries = r.tries] \in ArqJob
    BY DEF ArqJob
<1> QED
    BY <1>1, <1>2, <1>3, <1>4

\* Nothing was requested, nothing is in Arq.
LEMMA InitIInv == Init => IInv
<1> SUFFICES ASSUME Init PROVE IInv
    OBVIOUS
<1> USE Bounds
<1>1. NoJob \in ArqJob
    BY DEF NoJob, ArqJob, Wips
<1>2. TypeOK
    BY <1>1 DEF Init, TypeOK, Wips
<1>3. DraftInv
    BY DEF Init, DraftInv, NoJob
<1> QED
    BY <1>2, <1>3 DEF IInv

\* Every step keeps the types.
LEMMA TypeStep == IInv /\ [Next]_vars => TypeOK'
<1> SUFFICES ASSUME IInv, [Next]_vars PROVE TypeOK'
    OBVIOUS
<1> USE Bounds
<1>0. TypeOK /\ DraftInv
    BY DEF IInv
<1>n. NoJob \in ArqJob
    BY DEF NoJob, ArqJob, Wips
<1>1. ASSUME NEW i \in Scheds, TickDecides(i) PROVE TypeOK'
    BY <1>0, <1>1 DEF TickDecides, TypeOK
<1>2. ASSUME NEW i \in Scheds, TickEnqueues(i) PROVE TypeOK'
  <2>1. asking[i] \in Keys
    BY <1>0, <1>2 DEF TickEnqueues, TypeOK, Keys, Wips
  <2>2. [NoJob EXCEPT !.st = "queued"] \in ArqJob
    BY DEF NoJob, ArqJob, Wips
  <2>3. arq' \in [Keys -> ArqJob]
    BY <1>0, <1>2, <2>1, <2>2 DEF TickEnqueues, TypeOK
  <2>4. 0 \in Wips /\ 0 \in 0 .. Gap
    BY DEF Wips
  <2> QED
    BY <1>0, <1>2, <2>3, <2>4 DEF TickEnqueues, TypeOK
<1>3. ASSUME NEW i \in Scheds, TickFails(i) PROVE TypeOK'
    BY <1>0, <1>3 DEF TickFails, TypeOK, Wips
<1>4. ASSUME NEW i \in Scheds, Restart(i) PROVE TypeOK'
    BY <1>0, <1>4 DEF Restart, TypeOK, Wips
<1>5. ASSUME NEW k \in Keys, JobStarts(k) PROVE TypeOK'
  <2>1. arq[k].tries + 1 \in 0 .. MaxTries
    BY <1>0, <1>5 DEF JobStarts, DraftInv, TypeOK, ArqJob
  <2>2. [st |-> "running", age |-> 0, tries |-> arq[k].tries + 1,
         reads |-> wip] \in ArqJob
    BY <1>0, <2>1 DEF ArqJob, TypeOK
  <2> QED
    BY <1>0, <1>5, <2>2 DEF JobStarts, TypeOK, sched
<1>6. ASSUME NEW k \in Keys, JobDrafts(k) PROVE TypeOK'
  <2>1. arq[k] \in ArqJob
    BY <1>0 DEF TypeOK
  <2>2. [arq[k] EXCEPT !.st = "drafted", !.reads = 0] \in ArqJob
    BY <2>1, ArqJobType
  <2>3. arq' \in [Keys -> ArqJob]
    BY <1>0, <1>6, <2>2 DEF JobDrafts, TypeOK
  <2>4. arq[k].reads \in Wips
    BY <2>1 DEF ArqJob
  <2> QED
    BY <1>0, <1>6, <2>3, <2>4 DEF JobDrafts, HealthyCommit, TypeOK, sched
<1>7. ASSUME NEW k \in Keys, JobDegenerates(k) PROVE TypeOK'
  <2>1. arq[k] \in ArqJob
    BY <1>0 DEF TypeOK
  <2>2. [arq[k] EXCEPT !.st = "drafted", !.reads = 0] \in ArqJob
    BY <2>1, ArqJobType
  <2>3. arq' \in [Keys -> ArqJob]
    BY <1>0, <1>7, <2>2 DEF JobDegenerates, TypeOK
  <2> QED
    BY <1>0, <1>7, <2>3 DEF JobDegenerates, TypeOK, sched
<1>8. ASSUME NEW k \in Keys, JobEnds(k) PROVE TypeOK'
  <2>1. [NoJob EXCEPT !.st = "kept"] \in ArqJob
    BY DEF NoJob, ArqJob, Wips
  <2> QED
    BY <1>0, <1>8, <2>1 DEF JobEnds, TypeOK, sched
<1>9. ASSUME NEW k \in Keys, JobCrashes(k) PROVE TypeOK'
  <2>1. arq[k] \in ArqJob
    BY <1>0 DEF TypeOK
  <2>2. [NoJob EXCEPT !.st = "queued", !.tries = arq[k].tries] \in ArqJob
    BY <2>1, ArqJobType
  <2>3. [NoJob EXCEPT !.st = "kept"] \in ArqJob
    BY DEF NoJob, ArqJob, Wips
  <2> QED
    BY <1>0, <1>9, <2>2, <2>3 DEF JobCrashes, TypeOK, sched
<1>10. ASSUME NEW k \in Keys, ResultExpires(k) PROVE TypeOK'
    BY <1>0, <1>10, <1>n DEF ResultExpires, TypeOK, sched
<1>11. CASE WipChanges
    BY <1>0, <1>11 DEF WipChanges, TypeOK, Wips, sched
<1>12. CASE MoveCommits
    BY <1>0, <1>12 DEF MoveCommits, HealthyCommit, TypeOK, sched
<1>13. CASE Elapse
  <2>1. ASSUME NEW k \in Keys,
               arq[k].st \in {"running", "drafted", "kept"}
        PROVE  [arq[k] EXCEPT !.age = @ + 1] \in ArqJob
    <3>1. arq[k] \in ArqJob
      BY <1>0 DEF TypeOK
    <3>2. arq[k].age + 1 \in 0 .. (Keep + JobLife)
      BY <1>13, <2>1, <3>1 DEF Elapse, ArqJob
    <3> QED
      BY <3>1, <3>2 DEF ArqJob
  <2>2. arq' \in [Keys -> ArqJob]
    BY <1>0, <1>13, <2>1 DEF Elapse, TypeOK
  <2>3. since' \in [Scheds -> 0 .. Gap]
    BY <1>0, <1>13, OlderType DEF Elapse, TypeOK
  <2>4. draftAge' \in [Keys -> 0 .. Keep]
    BY <1>0, <1>13, OlderType DEF Elapse, TypeOK
  <2> QED
    BY <1>0, <1>13, <2>2, <2>3, <2>4 DEF Elapse, TypeOK
<1>14. CASE UNCHANGED vars
    BY <1>0, <1>14 DEF vars, TypeOK
<1> QED
    BY <1>1, <1>2, <1>3, <1>4, <1>5, <1>6, <1>7, <1>8, <1>9, <1>10, <1>11,
       <1>12, <1>13, <1>14 DEF Next, Tick, Job

\* Every step keeps the trace that a recent DRAFT leaves in Arq.
LEMMA DraftStep == IInv /\ [Next]_vars => DraftInv'
<1> SUFFICES ASSUME IInv, [Next]_vars PROVE DraftInv'
    OBVIOUS
<1> USE Bounds
<1>0. TypeOK /\ DraftInv
    BY DEF IInv
<1>r. \A k \in Keys : /\ arq[k].age \in Nat /\ arq[k].tries \in Nat
                      /\ draftAge[k] \in 0 .. Keep
    BY <1>0 DEF TypeOK, ArqJob
<1>1. ASSUME arq' = arq, draftAge' = draftAge PROVE DraftInv'
    BY <1>0, <1>1 DEF DraftInv
<1>2. ASSUME NEW i \in Scheds, TickEnqueues(i) PROVE DraftInv'
  <2>1. asking[i] \in Keys
    BY <1>0, <1>2 DEF TickEnqueues, TypeOK, Keys, Wips
  <2>2. CASE arq[asking[i]].st # "none"
    BY <1>0, <1>2, <2>2, <1>1 DEF TickEnqueues, Refuses
  <2>3. CASE arq[asking[i]].st = "none"
    BY <1>0, <1>2, <1>r, <2>1, <2>3
       DEF TickEnqueues, Refuses, DraftInv, NoJob, TypeOK
  <2> QED
    BY <2>2, <2>3
<1>3. ASSUME NEW k \in Keys, JobStarts(k) PROVE DraftInv'
    BY <1>0, <1>3, <1>r DEF JobStarts, DraftInv, TypeOK
<1>4. ASSUME NEW k \in Keys, JobDrafts(k) \/ JobDegenerates(k) PROVE DraftInv'
  <2>1. /\ arq[k].st = "running"
        /\ arq' = [arq EXCEPT ![k].st = "drafted", ![k].reads = 0]
        /\ draftAge' = [draftAge EXCEPT ![k] = 0]
    BY <1>4 DEF JobDrafts, JobDegenerates
  <2> QED
    BY <1>0, <1>r, <2>1 DEF DraftInv, TypeOK, ArqJob
<1>5. ASSUME NEW k \in Keys, JobEnds(k) PROVE DraftInv'
    BY <1>0, <1>5, <1>r DEF JobEnds, DraftInv, TypeOK, NoJob
<1>6. ASSUME NEW k \in Keys, JobCrashes(k) PROVE DraftInv'
    BY <1>0, <1>6, <1>r DEF JobCrashes, DraftInv, TypeOK, NoJob
<1>7. ASSUME NEW k \in Keys, ResultExpires(k) PROVE DraftInv'
    BY <1>0, <1>7, <1>r DEF ResultExpires, DraftInv, TypeOK, NoJob
<1>8. CASE Elapse
  <2> SUFFICES ASSUME NEW k \in Keys
               PROVE  /\ arq'[k].st = "queued" => arq'[k].tries < MaxTries
                      /\ draftAge'[k] < Keep =>
                           \/ arq'[k].st = "drafted"
                           \/ arq'[k].st = "running" /\ arq'[k].tries > 1
                           \/ arq'[k].st = "queued" /\ arq'[k].tries > 0
                           \/ /\ arq'[k].st = "kept"
                              /\ arq'[k].age <= draftAge'[k]
                      /\ arq'[k].st \in {"running", "drafted"} =>
                           arq'[k].tries > 0 /\ arq'[k].age <= JobLife
                      /\ arq'[k].st = "kept" => arq'[k].age <= Keep
    BY DEF DraftInv
  <2>1. arq[k] \in ArqJob
    BY <1>0 DEF TypeOK
  <2>2. draftAge'[k] = Older(draftAge[k], Keep)
    BY <1>8 DEF Elapse
  <2>3. draftAge'[k] < Keep => draftAge[k] < Keep /\ draftAge'[k] = draftAge[k] + 1
    BY <2>2, <1>r DEF Older
  <2>4. CASE arq[k].st \in {"running", "drafted", "kept"}
    <3>1. /\ arq'[k].st = arq[k].st /\ arq'[k].tries = arq[k].tries
          /\ arq'[k].age = arq[k].age + 1
      BY <1>8, <2>1, <2>4 DEF Elapse, ArqJob
    <3>2. /\ arq[k].st \in {"running", "drafted"} => arq[k].age < JobLife
          /\ arq[k].st = "kept" => arq[k].age < Keep
      BY <1>8 DEF Elapse
    <3> QED
      BY <1>0, <1>r, <2>3, <3>1, <3>2 DEF DraftInv
  <2>5. CASE arq[k].st \notin {"running", "drafted", "kept"}
    <3>1. arq'[k] = arq[k]
      BY <1>8, <2>5 DEF Elapse
    <3> QED
      BY <1>0, <1>r, <2>3, <2>5, <3>1 DEF DraftInv
  <2> QED
    BY <2>4, <2>5
<1>9. ASSUME NEW i \in Scheds, TickDecides(i) \/ TickFails(i) \/ Restart(i)
      PROVE DraftInv'
    BY <1>1, <1>9 DEF TickDecides, TickFails, Restart
<1>10. CASE WipChanges \/ MoveCommits
    BY <1>1, <1>10 DEF WipChanges, MoveCommits
<1>11. CASE UNCHANGED vars
    BY <1>1, <1>11 DEF vars
<1> QED
    BY <1>2, <1>3, <1>4, <1>5, <1>6, <1>7, <1>8, <1>9, <1>10, <1>11
       DEF Next, Tick, Job

\* The invariant holds in every reachable state.
LEMMA Invariance == Spec => []IInv
<1>1. IInv /\ [Next]_vars => IInv'
    BY TypeStep, DraftStep DEF IInv
<1> QED
    BY InitIInv, <1>1, PTL DEF Spec

\* Every variable of the robot and of Arq keeps its type.
THEOREM TypeCorrect == Spec => []TypeOK
<1>1. IInv => TypeOK
    BY DEF IInv
<1> QED
    BY Invariance, <1>1, PTL

\* A job that runs for the first time drafts a watermark only when the last
\* DRAFT of it is older than keep_result, for any number of schedulers, any
\* rate limit and any keep_result.
THEOREM OneDraftPerKey == Spec => OneDraft
<1>1. IInv /\ [Next]_vars =>
        [\A k \in Keys :
            arq[k].st = "running" /\ arq'[k].st = "drafted" /\ arq[k].tries = 1
                => draftAge[k] >= Keep]_vars
  <2> SUFFICES ASSUME IInv, NEW k \in Keys,
                      arq[k].st = "running", arq[k].tries = 1
               PROVE  draftAge[k] >= Keep
    OBVIOUS
  <2>1. draftAge[k] \in 0 .. Keep
    BY DEF IInv, TypeOK
  <2> QED
    BY <2>1, Bounds DEF IInv, DraftInv
<1> QED
    BY Invariance, <1>1, PTL DEF Spec, OneDraft

=============================================================================
