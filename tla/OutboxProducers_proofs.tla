----------------------- MODULE OutboxProducers_proofs -----------------------
(***************************************************************************)
(* The properties of OutboxProducers and EventOutbox for any number of     *)
(* orders, employees, requests, proposers, drains and attempts.            *)
(***************************************************************************)
EXTENDS OutboxProducers, SequenceTheorems, TLAPS

\* No two drains hold the same row, and a row that is held is not given up.
Apart ==
    /\ \A d, e \in Drains : \A i \in Ids : i \in batch[d] /\ i \in batch[e] => d = e
    /\ \A d \in Drains : \A i \in batch[d] : outbox[i].status = "pending"

OutboxInv == OutboxTypeOK /\ Apart /\ OneDeadLetter

\* Who has read the head of the ledger holds the lock, and the head is still
\* the last decision.
HeadIsLast ==
    \A p \in Proposers :
        /\ prop[p].pc \in {"locked", "read"} => chainLock = p
        /\ prop[p].pc = "read" => prop[p].head = Len(decisions)

IInv == TypeOK /\ OutboxInv /\ HeadIsLast /\ ChainNeverForks /\ CancelledOnce

\* Whatever happens to the outbox, a row goes on saying what it is about.
RowsStay ==
    \A i \in Ids : /\ i \in Ids'
                   /\ outbox'[i].agg = outbox[i].agg
                   /\ outbox'[i].type = outbox[i].type
                   /\ outbox'[i].by = outbox[i].by

-----------------------------------------------------------------------------
(* The outbox.                                                              *)

LEMMA OutboxFacts ==
  ASSUME OutboxTypeOK
  PROVE  /\ Len(outbox) \in Nat /\ Ids = 1 .. Len(outbox)
         /\ outbox \in [Ids -> Event]
         /\ dlq \in [Ids -> Seq(0 .. MaxAttempts)]
         /\ \A d \in Drains : batch[d] \subseteq Ids
<1>1. outbox \in Seq(Event) /\ dlq \in Seq(Seq(0 .. MaxAttempts))
      /\ Len(dlq) = Len(outbox) /\ batch \in [Drains -> SUBSET Ids]
  BY DEF OutboxTypeOK
<1>2. Len(outbox) \in Nat /\ outbox \in [1 .. Len(outbox) -> Event]
  BY <1>1, LenProperties
<1>3. dlq \in [1 .. Len(dlq) -> Seq(0 .. MaxAttempts)]
  BY <1>1, LenProperties
<1> QED BY <1>1, <1>2, <1>3 DEF Ids

\* A function of the right domain is a sequence again.
LEMMA SeqAgain ==
  ASSUME NEW n \in Nat, NEW S, NEW f \in [1 .. n -> S]
  PROVE  f \in Seq(S) /\ Len(f) = n
<1>1. f \in Seq(S)
  BY SeqDef
<1>2. DOMAIN f = 1 .. n /\ DOMAIN f = 1 .. Len(f) /\ Len(f) \in Nat
  BY <1>1, LenProperties
<1> QED BY <1>1, <1>2

\* What the loop makes of a row that is pending.
LEMMA HandledRow ==
  ASSUME NEW row \in Event, row.status = "pending", row.retries # MaxAttempts
  PROVE  /\ Handled(row) \in Event
         /\ Handled(row).agg = row.agg /\ Handled(row).type = row.type
         /\ Handled(row).by = row.by /\ Handled(row).readable = row.readable
         /\ Handled(row).retries \in 0 .. MaxAttempts
         /\ Handled(row).retries = MaxAttempts => Handled(row).status = "failed"
         /\ Handled(row).status = "failed" =>
              Handled(row).retries = MaxAttempts \/ ~row.readable
<1>1. /\ row.retries \in 0 .. MaxAttempts /\ row.retries + 1 \in 0 .. MaxAttempts
      /\ MaxAttempts \in Nat
  BY OutboxAssumption DEF Event
<1> DEFINE tried == [row EXCEPT !.retries = @ + 1, !.due = FALSE]
<1>2. /\ tried \in Event /\ tried.retries = row.retries + 1
      /\ tried.agg = row.agg /\ tried.type = row.type /\ tried.by = row.by
      /\ tried.readable = row.readable /\ tried.status = "pending"
  BY <1>1 DEF Event
<1>3. /\ [row EXCEPT !.status = "failed"] \in Event
      /\ [tried EXCEPT !.status = "failed"] \in Event
  BY <1>2 DEF Event
<1>4. CASE ~row.readable
  BY <1>1, <1>3, <1>4 DEF Handled, Event
<1>5. CASE row.readable /\ GivenUp(tried)
  <2>1. Handled(row) = [tried EXCEPT !.status = "failed"]
    BY <1>5 DEF Handled
  <2>2. tried.retries = MaxAttempts
    BY <1>1, <1>2, <1>5 DEF GivenUp
  <2> QED BY <1>1, <1>2, <1>3, <2>1, <2>2 DEF Event
<1>6. CASE row.readable /\ ~GivenUp(tried)
  <2>1. Handled(row) = tried
    BY <1>6 DEF Handled
  <2>2. tried.retries # MaxAttempts
    BY <1>1, <1>2, <1>6 DEF GivenUp
  <2> QED BY <1>1, <1>2, <2>1, <2>2
<1> QED BY <1>4, <1>5, <1>6

LEMMA EmitsStep ==
  ASSUME OutboxInv, NEW e \in Event, e.status = "pending", e.retries = 0, Emits(e)
  PROVE  /\ OutboxInv' /\ RowsStay
         /\ Len(outbox) + 1 \in Ids' /\ outbox'[Len(outbox) + 1] = e
         /\ Ids' = Ids \cup {Len(outbox) + 1}
<1> DEFINE n == Len(outbox)
<1>1. OutboxTypeOK /\ n \in Nat /\ Ids = 1 .. n
  BY OutboxFacts DEF OutboxInv
<1>2. /\ outbox' \in Seq(Event) /\ Len(outbox') = n + 1
      /\ \A i \in Ids : outbox'[i] = outbox[i]
      /\ outbox'[n + 1] = e
  BY <1>1, AppendProperties DEF Emits, OutboxTypeOK
<1>3. /\ dlq' \in Seq(Seq(0 .. MaxAttempts)) /\ Len(dlq') = n + 1
      /\ \A i \in Ids : dlq'[i] = dlq[i]
      /\ dlq'[n + 1] = <<>>
  <2>1. dlq \in Seq(Seq(0 .. MaxAttempts)) /\ <<>> \in Seq(0 .. MaxAttempts)
        /\ Len(dlq) = n
    BY <1>1 DEF OutboxTypeOK
  <2> QED BY <1>1, <2>1, AppendProperties DEF Emits
<1>4. batch' = batch /\ Ids' = Ids \cup {n + 1} /\ n + 1 \notin Ids
  BY <1>1, <1>2 DEF Emits, Ids
<1>5. OutboxTypeOK'
  BY <1>1, <1>2, <1>3, <1>4 DEF OutboxTypeOK
<1>6. Apart'
  BY <1>1, <1>2, <1>4, OutboxFacts DEF OutboxInv, Apart
<1>7. OneDeadLetter'
  BY <1>2, <1>3, <1>4, OutboxAssumption DEF OutboxInv, OneDeadLetter
<1> QED BY <1>2, <1>4, <1>5, <1>6, <1>7 DEF OutboxInv, RowsStay

LEMMA DrainSelectsStep ==
  ASSUME OutboxInv, NEW d \in Drains, DrainSelects(d)
  PROVE  OutboxInv' /\ RowsStay
<1>1. OutboxTypeOK /\ batch \in [Drains -> SUBSET Ids]
  BY DEF OutboxInv, OutboxTypeOK
<1>2. /\ batch' \in [Drains -> SUBSET Ids] /\ batch'[d] = Eligible
      /\ \A e \in Drains \ {d} : batch'[e] = batch[e]
      /\ outbox' = outbox /\ dlq' = dlq /\ Ids' = Ids
  BY <1>1 DEF DrainSelects, Eligible, Ids
<1>3. \A i \in Eligible : /\ i \in Ids /\ outbox[i].status = "pending"
                          /\ \A e \in Drains : i \notin batch[e]
  BY DEF Eligible, Skipped
<1>4. OutboxTypeOK'
  BY <1>1, <1>2 DEF OutboxTypeOK
<1>5. Apart'
  BY <1>2, <1>3 DEF OutboxInv, Apart
<1> QED BY <1>2, <1>4, <1>5 DEF OutboxInv, OneDeadLetter, RowsStay

LEMMA DrainCommitsStep ==
  ASSUME OutboxInv, NEW d \in Drains, DrainCommits(d)
  PROVE  OutboxInv' /\ RowsStay
<1>1. /\ OutboxTypeOK /\ Len(outbox) \in Nat /\ Ids = 1 .. Len(outbox)
      /\ outbox \in [Ids -> Event] /\ dlq \in [Ids -> Seq(0 .. MaxAttempts)]
      /\ batch \in [Drains -> SUBSET Ids]
  BY OutboxFacts DEF OutboxInv, OutboxTypeOK
<1> DEFINE New(i) == IF i \in batch[d] THEN Handled(outbox[i]) ELSE outbox[i]
           Dead(i) == IF i \in batch[d] /\ Handled(outbox[i]).status = "failed"
                      THEN Append(dlq[i], Handled(outbox[i]).retries) ELSE dlq[i]
<1>2. \A i \in batch[d] :
        /\ i \in Ids /\ outbox[i] \in Event /\ outbox[i].status = "pending"
        /\ outbox[i].retries # MaxAttempts /\ dlq[i] = <<>>
  BY <1>1 DEF OutboxInv, Apart, OneDeadLetter
<1>3. \A i \in batch[d] :
        /\ Handled(outbox[i]) \in Event
        /\ Handled(outbox[i]).agg = outbox[i].agg
        /\ Handled(outbox[i]).type = outbox[i].type
        /\ Handled(outbox[i]).by = outbox[i].by
        /\ Handled(outbox[i]).readable = outbox[i].readable
        /\ Handled(outbox[i]).retries \in 0 .. MaxAttempts
        /\ Handled(outbox[i]).retries = MaxAttempts =>
             Handled(outbox[i]).status = "failed"
        /\ Handled(outbox[i]).status = "failed" =>
             Handled(outbox[i]).retries = MaxAttempts \/ ~outbox[i].readable
  BY <1>2, HandledRow
<1>4. /\ outbox' = [i \in Ids |-> New(i)] /\ dlq' = [i \in Ids |-> Dead(i)]
      /\ batch' = [batch EXCEPT ![d] = {}]
  BY DEF DrainCommits
<1>5. \A i \in Ids : New(i) \in Event /\ Dead(i) \in Seq(0 .. MaxAttempts)
  <2> TAKE i \in Ids
  <2>1. New(i) \in Event
    BY <1>1, <1>3
  <2>2. CASE i \in batch[d] /\ Handled(outbox[i]).status = "failed"
    <3>1. dlq[i] \in Seq(0 .. MaxAttempts)
      BY <1>1
    <3>2. Append(dlq[i], Handled(outbox[i]).retries) \in Seq(0 .. MaxAttempts)
      BY <1>3, <2>2, <3>1, AppendProperties
    <3> QED BY <2>1, <2>2, <3>2
  <2>3. CASE ~(i \in batch[d] /\ Handled(outbox[i]).status = "failed")
    BY <1>1, <2>1, <2>3
  <2> QED BY <2>2, <2>3
<1>6. \A i \in Ids : outbox'[i] = New(i) /\ dlq'[i] = Dead(i)
  BY <1>4
<1>7. /\ outbox' \in Seq(Event) /\ Len(outbox') = Len(outbox)
      /\ dlq' \in Seq(Seq(0 .. MaxAttempts)) /\ Len(dlq') = Len(outbox)
  <2>1. outbox' \in [1 .. Len(outbox) -> Event]
        /\ dlq' \in [1 .. Len(outbox) -> Seq(0 .. MaxAttempts)]
    BY <1>1, <1>4, <1>5
  <2> QED BY <1>1, <2>1, SeqAgain
<1>8. /\ Ids' = Ids /\ batch' \in [Drains -> SUBSET Ids] /\ batch'[d] = {}
      /\ \A e \in Drains \ {d} : batch'[e] = batch[e]
  BY <1>1, <1>4, <1>7 DEF Ids
<1>9. OutboxTypeOK'
  BY <1>7, <1>8 DEF OutboxTypeOK
<1>10. Apart'
  <2>1. \A e \in Drains \ {d} : \A i \in batch[e] : i \in Ids /\ i \notin batch[d]
    BY <1>1 DEF OutboxInv, Apart
  <2>2. \A e \in Drains \ {d} : \A i \in batch[e] : outbox'[i] = outbox[i]
    BY <1>6, <2>1
  <2>3. \A e \in Drains : \A i \in batch'[e] : outbox'[i].status = "pending"
    BY <1>8, <2>2 DEF OutboxInv, Apart
  <2>4. \A e, f \in Drains : \A i \in Ids' : i \in batch'[e] /\ i \in batch'[f] => e = f
    BY <1>8 DEF OutboxInv, Apart
  <2> QED BY <2>3, <2>4 DEF Apart
<1>11. OneDeadLetter'
  <2> SUFFICES ASSUME NEW i \in Ids
        PROVE  /\ dlq'[i] = IF outbox'[i].status = "failed"
                            THEN <<outbox'[i].retries>> ELSE <<>>
               /\ outbox'[i].retries = MaxAttempts => outbox'[i].status = "failed"
               /\ outbox'[i].status = "failed" =>
                    outbox'[i].retries = MaxAttempts \/ ~outbox'[i].readable
    BY <1>8 DEF OneDeadLetter
  <2>1. CASE i \in batch[d]
    <3>1. outbox'[i] = Handled(outbox[i]) /\ dlq[i] = <<>>
      BY <1>2, <1>6, <2>1
    <3>2. dlq'[i] = IF Handled(outbox[i]).status = "failed"
                    THEN Append(<<>>, Handled(outbox[i]).retries) ELSE <<>>
      BY <1>2, <1>6, <2>1
    <3>3. Append(<<>>, Handled(outbox[i]).retries) = <<Handled(outbox[i]).retries>>
      OBVIOUS
    <3> QED BY <1>3, <2>1, <3>1, <3>2, <3>3
  <2>2. CASE i \notin batch[d]
    <3>1. outbox'[i] = outbox[i] /\ dlq'[i] = dlq[i]
      BY <1>6, <2>2
    <3> QED BY <3>1 DEF OutboxInv, OneDeadLetter
  <2> QED BY <2>1, <2>2
<1>12. RowsStay
  BY <1>3, <1>6, <1>8 DEF RowsStay
<1> QED BY <1>9, <1>10, <1>11, <1>12 DEF OutboxInv

LEMMA DrainFailsStep ==
  ASSUME OutboxInv, NEW d \in Drains, DrainFails(d)
  PROVE  OutboxInv' /\ RowsStay
<1>1. OutboxTypeOK /\ batch \in [Drains -> SUBSET Ids]
  BY DEF OutboxInv, OutboxTypeOK
<1>2. /\ batch' \in [Drains -> SUBSET Ids] /\ batch'[d] = {}
      /\ \A e \in Drains \ {d} : batch'[e] = batch[e]
      /\ outbox' = outbox /\ dlq' = dlq /\ Ids' = Ids
  BY <1>1 DEF DrainFails, Ids
<1>3. OutboxTypeOK'
  BY <1>1, <1>2 DEF OutboxTypeOK
<1>4. Apart'
  BY <1>2 DEF OutboxInv, Apart
<1> QED BY <1>2, <1>3, <1>4 DEF OutboxInv, OneDeadLetter, RowsStay

LEMMA BackoffEndsStep ==
  ASSUME OutboxInv, NEW k \in Ids, BackoffEnds(k)
  PROVE  OutboxInv' /\ RowsStay
<1>1. /\ OutboxTypeOK /\ Len(outbox) \in Nat /\ Ids = 1 .. Len(outbox)
      /\ outbox \in [Ids -> Event]
  BY OutboxFacts DEF OutboxInv
<1>2. outbox' = [outbox EXCEPT ![k].due = TRUE] /\ dlq' = dlq /\ batch' = batch
  BY DEF BackoffEnds
<1>3. [outbox[k] EXCEPT !.due = TRUE] \in Event
  BY <1>1 DEF Event
<1>4. outbox' \in [1 .. Len(outbox) -> Event]
  BY <1>1, <1>2, <1>3
<1>5. outbox' \in Seq(Event) /\ Len(outbox') = Len(outbox) /\ Ids' = Ids
  BY <1>1, <1>4, SeqAgain DEF Ids
<1>6. \A i \in Ids : /\ outbox'[i].agg = outbox[i].agg
                     /\ outbox'[i].type = outbox[i].type
                     /\ outbox'[i].by = outbox[i].by
                     /\ outbox'[i].readable = outbox[i].readable
                     /\ outbox'[i].status = outbox[i].status
                     /\ outbox'[i].retries = outbox[i].retries
  BY <1>1, <1>2 DEF Event
<1>7. OutboxTypeOK'
  BY <1>1, <1>2, <1>5 DEF OutboxTypeOK
<1>8. Apart'
  BY <1>1, <1>2, <1>5, <1>6, OutboxFacts DEF OutboxInv, Apart
<1>9. OneDeadLetter'
  BY <1>2, <1>5, <1>6 DEF OutboxInv, OneDeadLetter
<1> QED BY <1>5, <1>6, <1>7, <1>8, <1>9 DEF OutboxInv, RowsStay

LEMMA OutboxStays ==
  ASSUME OutboxInv, UNCHANGED outboxVars
  PROVE  OutboxInv' /\ RowsStay
<1>1. outbox' = outbox /\ dlq' = dlq /\ batch' = batch
  BY DEF outboxVars
<1> QED BY <1>1 DEF OutboxInv, OutboxTypeOK, Apart, OneDeadLetter, RowsStay, Ids

LEMMA DrainingStep ==
  ASSUME OutboxInv, Draining
  PROVE  OutboxInv' /\ RowsStay
BY DrainSelectsStep, DrainCommitsStep, DrainFailsStep, BackoffEndsStep DEF Draining

-----------------------------------------------------------------------------
(* The cancellations.                                                       *)

CancelTypes ==
    /\ subject \in [Subjects -> Subject]
    /\ audit \in Seq([of : Subjects, verb : Verbs, by : Users])
    /\ req \in [Requests -> Request]
    /\ stale \subseteq Orders

LedgerTypes ==
    /\ decisions \in Seq(DecisionRun) /\ Len(decisions) <= MaxDecisions
    /\ chainLock \in Proposers \cup {Nobody}
    /\ prop \in [Proposers -> Proposal]

Ledger == LedgerTypes /\ HeadIsLast /\ ChainNeverForks

LEMMA Parts ==
  /\ TypeOK <=> OutboxTypeOK /\ CancelTypes /\ LedgerTypes
  /\ IInv <=> OutboxInv /\ CancelTypes /\ CancelledOnce /\ Ledger
BY DEF TypeOK, CancelTypes, LedgerTypes, IInv, OutboxInv, Ledger

\* Rows, audit entries and events stay as they are.
LEMMA NothingCancelled ==
  ASSUME CancelledOnce, RowsStay, subject' = subject, audit' = audit
  PROVE  CancelledOnce'
<1>1. \A i \in DOMAIN audit : \E e \in Ids' :
        /\ outbox'[e].agg = audit[i].of /\ outbox'[e].by = audit[i].by
        /\ outbox'[e].type = EventOf(audit[i].verb)
  BY DEF CancelledOnce, RowsStay
<1> QED BY <1>1 DEF CancelledOnce

LEMMA LedgerStays ==
  ASSUME Ledger, UNCHANGED ledgerVars
  PROVE  Ledger'
BY DEF Ledger, LedgerTypes, HeadIsLast, ChainNeverForks, ledgerVars

LEMMA IdleRequestType == IdleRequest \in Request
<1>1. (CHOOSE s \in Subjects : TRUE) \in Subjects
      /\ (CHOOSE u \in Users : TRUE) \in Users
  BY ProducersAssumption DEF Subjects
<1> QED BY <1>1 DEF IdleRequest, Request, Verbs

LEMMA CancelReadsStep ==
  ASSUME IInv, NEW r \in Requests, NEW verb \in Verbs, NEW s \in Subjects,
         NEW u \in Users, CancelReads(r, verb, s, u)
  PROVE  IInv'
<1>1. CancelTypes'
  BY DEF IInv, TypeOK, CancelReads, CancelTypes, Request
<1>2. OutboxInv' /\ RowsStay
  BY OutboxStays DEF IInv, CancelReads
<1>3. CancelledOnce'
  BY <1>2, NothingCancelled DEF IInv, CancelReads
<1>4. Ledger'
  BY Parts, LedgerStays DEF CancelReads
<1> QED BY <1>1, <1>2, <1>3, <1>4, Parts, PTL

LEMMA CancelFlushesStep ==
  ASSUME IInv, NEW r \in Requests, CancelFlushes(r)
  PROVE  IInv'
<1>1. CancelTypes'
  BY DEF IInv, TypeOK, CancelFlushes, CancelTypes, Request
<1>2. OutboxInv' /\ RowsStay
  BY OutboxStays DEF IInv, CancelFlushes
<1>3. CancelledOnce'
  BY <1>2, NothingCancelled DEF IInv, CancelFlushes
<1>4. Ledger'
  BY Parts, LedgerStays DEF CancelFlushes
<1> QED BY <1>1, <1>2, <1>3, <1>4, Parts, PTL

LEMMA CancelFailsStep ==
  ASSUME IInv, NEW r \in Requests, CancelFails(r)
  PROVE  IInv'
<1>1. CancelTypes'
  BY IdleRequestType DEF IInv, TypeOK, CancelFails, CancelTypes
<1>2. OutboxInv' /\ RowsStay
  BY OutboxStays DEF IInv, CancelFails
<1>3. CancelledOnce'
  BY <1>2, NothingCancelled DEF IInv, CancelFails
<1>4. Ledger'
  BY Parts, LedgerStays DEF CancelFails
<1> QED BY <1>1, <1>2, <1>3, <1>4, Parts, PTL

\* The event of a cancellation is one the table can hold.
LEMMA CancelEvent ==
  ASSUME NEW q \in Request
  PROVE  /\ NewEvent(q.of, EventOf(q.verb), q.by) \in Event
         /\ NewEvent(q.of, EventOf(q.verb), q.by).status = "pending"
         /\ NewEvent(q.of, EventOf(q.verb), q.by).retries = 0
         /\ NewEvent(q.of, EventOf(q.verb), q.by).agg = q.of
         /\ NewEvent(q.of, EventOf(q.verb), q.by).type = EventOf(q.verb)
         /\ NewEvent(q.of, EventOf(q.verb), q.by).by = q.by
<1>1. q.of \in Aggregates /\ q.by \in Actors
  BY ProducersAssumption DEF Request, Subjects
<1>2. EventOf(q.verb) \in EventTypes
  BY ProducersAssumption DEF EventOf
<1>3. 0 \in 0 .. MaxAttempts
  BY OutboxAssumption
<1> QED BY <1>1, <1>2, <1>3 DEF NewEvent, Event

LEMMA CancelCommitsStep ==
  ASSUME IInv, NEW r \in Requests, CancelCommits(r)
  PROVE  IInv'
<1> DEFINE q == req[r]
           entry == [of |-> q.of, verb |-> q.verb, by |-> q.by]
           event == NewEvent(q.of, EventOf(q.verb), q.by)
           n == Len(audit)
           last == Len(outbox) + 1
<1>1. /\ q \in Request /\ q.of \in Subjects /\ q.by \in Users /\ q.verb \in Verbs
      /\ entry \in [of : Subjects, verb : Verbs, by : Users]
  BY DEF IInv, TypeOK, Request
<1>2. /\ event \in Event /\ event.status = "pending" /\ event.retries = 0
      /\ event.agg = q.of /\ event.type = EventOf(q.verb) /\ event.by = q.by
  BY <1>1, CancelEvent
<1>3. /\ subject' = [subject EXCEPT ![q.of] = [open |-> FALSE, by |-> q.by]]
      /\ audit' = Append(audit, entry) /\ Emits(event)
      /\ req' = [req EXCEPT ![r] = IdleRequest]
      /\ stale' = stale /\ UNCHANGED ledgerVars /\ ~KeyTaken(q.of, EventOf(q.verb))
  BY DEF CancelCommits, Refused
<1> HIDE DEF entry, event, q
<1>4. /\ OutboxInv' /\ RowsStay /\ last \in Ids' /\ outbox'[last] = event
      /\ Ids' = Ids \cup {last}
  BY <1>2, <1>3, EmitsStep DEF IInv
<1>5. /\ audit \in Seq([of : Subjects, verb : Verbs, by : Users])
      /\ subject \in [Subjects -> Subject] /\ req \in [Requests -> Request]
      /\ stale \subseteq Orders
  BY DEF IInv, TypeOK
<1>6. /\ n \in Nat /\ DOMAIN audit = 1 .. n
      /\ audit' \in Seq([of : Subjects, verb : Verbs, by : Users])
      /\ Len(audit') = n + 1
      /\ \A i \in 1 .. n : audit'[i] = audit[i]
      /\ audit'[n + 1] = entry
  BY <1>1, <1>3, <1>5, AppendProperties, LenProperties
<1>7. DOMAIN audit' = 1 .. n + 1
  BY <1>6, LenProperties
<1>8. subject' \in [Subjects -> Subject] /\ req' \in [Requests -> Request]
  BY <1>1, <1>3, <1>5, IdleRequestType DEF Subject
<1>9. CancelTypes'
  BY <1>3, <1>5, <1>6, <1>8 DEF CancelTypes
<1>10. entry.of = q.of /\ entry.verb = q.verb /\ entry.by = q.by
  BY DEF entry
<1>11. \A i \in 1 .. n : ~(audit[i].of = q.of /\ audit[i].verb = q.verb)
  <2> SUFFICES ASSUME NEW i \in 1 .. n, audit[i].of = q.of, audit[i].verb = q.verb
        PROVE  FALSE
    OBVIOUS
  <2>1. PICK e \in Ids : /\ outbox[e].agg = audit[i].of
                         /\ outbox[e].type = EventOf(audit[i].verb)
    BY <1>6 DEF IInv, CancelledOnce
  <2> QED BY <1>3, <2>1 DEF KeyTaken
<1>12. \A i, j \in 1 .. n + 1 :
         audit'[i].of = audit'[j].of /\ audit'[i].verb = audit'[j].verb => i = j
  <2>1. \A i, j \in 1 .. n :
          audit[i].of = audit[j].of /\ audit[i].verb = audit[j].verb => i = j
    BY <1>6 DEF IInv, CancelledOnce
  <2>2. \A i \in 1 .. n + 1 : i \in 1 .. n \/ i = n + 1
    BY <1>6
  <2> QED BY <1>6, <1>10, <1>11, <2>1, <2>2
<1>13. \A i \in 1 .. n + 1 : \E e \in Ids' :
         /\ outbox'[e].agg = audit'[i].of /\ outbox'[e].by = audit'[i].by
         /\ outbox'[e].type = EventOf(audit'[i].verb)
  <2> TAKE i \in 1 .. n + 1
  <2>1. CASE i \in 1 .. n
    <3>1. PICK e \in Ids : /\ outbox[e].agg = audit[i].of
                           /\ outbox[e].by = audit[i].by
                           /\ outbox[e].type = EventOf(audit[i].verb)
      BY <1>6, <2>1 DEF IInv, CancelledOnce
    <3> QED BY <1>4, <1>6, <2>1, <3>1 DEF RowsStay
  <2>2. CASE i = n + 1
    BY <1>2, <1>4, <1>6, <1>10, <2>2
  <2> QED BY <1>6, <2>1, <2>2
<1>14. \A s \in Subjects : subject'[s].by # Nobody =>
         \E i \in 1 .. n + 1 : audit'[i].of = s /\ audit'[i].by = subject'[s].by
  <2> TAKE s \in Subjects
  <2>1. CASE s = q.of
    <3>1. subject'[s].by = q.by /\ n + 1 \in 1 .. n + 1
      BY <1>3, <1>5, <1>6, <2>1
    <3> QED BY <1>6, <1>10, <2>1, <3>1
  <2>2. CASE s # q.of
    <3>1. subject'[s] = subject[s]
      BY <1>3, <1>5, <2>2
    <3>2. subject[s].by # Nobody =>
            \E i \in 1 .. n : audit[i].of = s /\ audit[i].by = subject[s].by
      BY <1>6 DEF IInv, CancelledOnce
    <3>3. \A i \in 1 .. n : i \in 1 .. n + 1
      BY <1>6
    <3> QED BY <1>6, <3>1, <3>2, <3>3
  <2> QED BY <2>1, <2>2
<1>15. CancelledOnce'
  BY <1>7, <1>12, <1>13, <1>14 DEF CancelledOnce
<1>16. Ledger'
  BY <1>3, Parts, LedgerStays
<1> QED BY <1>4, <1>9, <1>15, <1>16, Parts, PTL

LEMMA ReconcileReadsStep ==
  ASSUME IInv, NEW S \in SUBSET Orders, ReconcileReads(S)
  PROVE  IInv'
<1>1. CancelTypes'
  BY DEF IInv, TypeOK, ReconcileReads, CancelTypes
<1>2. OutboxInv' /\ RowsStay
  BY OutboxStays DEF IInv, ReconcileReads
<1>3. CancelledOnce'
  BY <1>2, NothingCancelled DEF IInv, ReconcileReads
<1>4. Ledger'
  BY Parts, LedgerStays DEF ReconcileReads
<1> QED BY <1>1, <1>2, <1>3, <1>4, Parts, PTL

\* A reconciliation reopens an order and leaves on the row who cancelled it.
LEMMA ReconcileWritesStep ==
  ASSUME IInv, ReconcileWrites
  PROVE  IInv'
<1>1. subject \in [Subjects -> Subject] /\ stale \subseteq Orders
  BY DEF IInv, TypeOK
<1>2. /\ subject' = [s \in Subjects |->
                       IF s \in stale THEN [subject[s] EXCEPT !.open = TRUE]
                       ELSE subject[s]]
      /\ audit' = audit /\ req' = req /\ stale' = {}
  BY DEF ReconcileWrites
<1>3. \A s \in Subjects : subject'[s] \in Subject /\ subject'[s].by = subject[s].by
  BY <1>1, <1>2 DEF Subject
<1>4. subject' \in [Subjects -> Subject]
  BY <1>2, <1>3
<1>5. CancelTypes'
  BY <1>2, <1>4 DEF IInv, TypeOK, CancelTypes
<1>6. OutboxInv' /\ RowsStay
  BY OutboxStays DEF IInv, ReconcileWrites
<1>7. \A i \in DOMAIN audit : \E e \in Ids' :
        /\ outbox'[e].agg = audit[i].of /\ outbox'[e].by = audit[i].by
        /\ outbox'[e].type = EventOf(audit[i].verb)
  BY <1>6 DEF IInv, CancelledOnce, RowsStay
<1>8. CancelledOnce'
  BY <1>2, <1>3, <1>7 DEF IInv, CancelledOnce
<1>9. Ledger'
  BY Parts, LedgerStays DEF ReconcileWrites
<1> QED BY <1>5, <1>6, <1>8, <1>9, Parts, PTL

-----------------------------------------------------------------------------
(* The ledger of decisions.                                                 *)

LEMMA IdleProposalType ==
  IdleProposal \in Proposal /\ IdleProposal.pc = "idle"
BY ProducersAssumption DEF IdleProposal, Proposal

\* What a proposal does beside its commit touches neither orders nor outbox.
LEMMA OutsideLedger ==
  ASSUME IInv, UNCHANGED cancelVars, UNCHANGED outboxVars, Ledger'
  PROVE  IInv'
<1>1. OutboxInv' /\ RowsStay
  BY OutboxStays DEF IInv
<1>2. CancelTypes'
  BY DEF IInv, TypeOK, CancelTypes, cancelVars
<1>3. CancelledOnce'
  BY <1>1, NothingCancelled DEF IInv, cancelVars
<1> QED BY <1>1, <1>2, <1>3, Parts, PTL

LEMMA ProposeBeginsStep ==
  ASSUME IInv, NEW p \in Proposers, NEW kind \in {"decision", "kill_switch"},
         ProposeBegins(p, kind)
  PROVE  IInv'
<1>1. Ledger
  BY Parts
<1>2. /\ [IdleProposal EXCEPT !.pc = "waiting", !.kind = kind] \in Proposal
      /\ [IdleProposal EXCEPT !.pc = "waiting", !.kind = kind].pc = "waiting"
  BY IdleProposalType DEF Proposal
<1>3. /\ prop' \in [Proposers -> Proposal] /\ prop'[p].pc = "waiting"
      /\ \A o \in Proposers \ {p} : prop'[o] = prop[o]
      /\ decisions' = decisions /\ chainLock' = chainLock
  BY <1>1, <1>2 DEF ProposeBegins, Ledger, LedgerTypes
<1>4. Ledger'
  BY <1>1, <1>3 DEF Ledger, LedgerTypes, HeadIsLast, ChainNeverForks
<1> QED BY <1>4, OutsideLedger DEF ProposeBegins

LEMMA ProposeLocksStep ==
  ASSUME IInv, NEW p \in Proposers, ProposeLocks(p)
  PROVE  IInv'
<1>1. Ledger
  BY Parts
<1>2. /\ prop' \in [Proposers -> Proposal] /\ prop'[p].pc = "locked"
      /\ \A o \in Proposers \ {p} : prop'[o] = prop[o]
      /\ decisions' = decisions /\ chainLock = Nobody /\ chainLock' = p
  BY <1>1 DEF ProposeLocks, LockTaken, Ledger, LedgerTypes, Proposal
<1>3. Ledger'
  BY <1>1, <1>2, ProducersAssumption
     DEF Ledger, LedgerTypes, HeadIsLast, ChainNeverForks
<1> QED BY <1>3, OutsideLedger DEF ProposeLocks

LEMMA ProposeReadsHeadStep ==
  ASSUME IInv, NEW p \in Proposers, ProposeReadsHead(p)
  PROVE  IInv'
<1>1. Ledger
  BY Parts
<1>2. Len(decisions) \in 0 .. MaxDecisions
  BY <1>1, LenProperties, ProducersAssumption DEF Ledger, LedgerTypes
<1>3. /\ [prop[p] EXCEPT !.pc = "read", !.head = Len(decisions)] \in Proposal
      /\ prop[p] \in Proposal
  BY <1>1, <1>2 DEF Ledger, LedgerTypes, Proposal
<1>4. /\ prop' = [prop EXCEPT ![p] =
                    [prop[p] EXCEPT !.pc = "read", !.head = Len(decisions)]]
      /\ decisions' = decisions /\ chainLock' = chainLock /\ prop[p].pc = "locked"
  BY DEF ProposeReadsHead
<1>5. /\ prop' \in [Proposers -> Proposal]
      /\ prop'[p].pc = "read" /\ prop'[p].head = Len(decisions)
      /\ \A o \in Proposers \ {p} : prop'[o] = prop[o]
  BY <1>1, <1>3, <1>4 DEF Ledger, LedgerTypes, Proposal
<1>6. Ledger'
  BY <1>1, <1>4, <1>5 DEF Ledger, LedgerTypes, HeadIsLast, ChainNeverForks
<1> QED BY <1>6, OutsideLedger DEF ProposeReadsHead

\* What is left of a proposal that is over: the lock, if it was its own, is free.
LEMMA ProposalOver ==
  ASSUME Ledger, NEW p \in Proposers, Unlock(p), Leaves(p)
  PROVE  /\ prop' \in [Proposers -> Proposal] /\ prop'[p].pc = "idle"
         /\ \A o \in Proposers \ {p} : prop'[o] = prop[o]
         /\ chainLock' \in Proposers \cup {Nobody}
         /\ \A o \in Proposers \ {p} : chainLock = o => chainLock' = o
BY IdleProposalType DEF Ledger, LedgerTypes, Unlock, Leaves

LEMMA ProposeCommitsStep ==
  ASSUME IInv, NEW p \in Proposers, ProposeCommits(p)
  PROVE  IInv'
<1> DEFINE n == Len(decisions)
           new == [prev |-> prop[p].head, by |-> p]
           event == NewEvent(n + 1, "DECISION_PROPOSED", p)
<1>1. Ledger /\ decisions \in Seq(DecisionRun) /\ n \in Nat
  BY Parts, LenProperties DEF Ledger, LedgerTypes
<1>2. prop[p].head = n /\ chainLock = p /\ n + 1 \in 1 .. MaxDecisions
  BY <1>1, ProducersAssumption DEF Ledger, HeadIsLast, ProposeCommits
<1>3. new \in DecisionRun /\ new.prev = n
  BY <1>1, <1>2, ProducersAssumption DEF DecisionRun
<1>4. /\ decisions' = Append(decisions, new) /\ Emits(event)
      /\ Unlock(p) /\ Leaves(p) /\ UNCHANGED cancelVars
  BY DEF ProposeCommits
<1>5. /\ event \in Event /\ event.status = "pending" /\ event.retries = 0
  <2>1. n + 1 \in Aggregates /\ p \in Actors /\ 0 \in 0 .. MaxAttempts
        /\ "DECISION_PROPOSED" \in EventTypes
    BY <1>2, ProducersAssumption, OutboxAssumption
  <2> QED BY <2>1 DEF NewEvent, Event
<1> HIDE DEF new, event
<1>6. /\ decisions' \in Seq(DecisionRun) /\ Len(decisions') = n + 1
      /\ \A i \in 1 .. n : decisions'[i] = decisions[i]
      /\ decisions'[n + 1] = new
  BY <1>1, <1>3, <1>4, AppendProperties
<1>7. /\ DOMAIN decisions' = 1 .. n + 1 /\ DOMAIN decisions = 1 .. n
  BY <1>1, <1>6, LenProperties
<1>8. ChainNeverForks'
  <2>1. \A i \in 1 .. n : decisions[i].prev = i - 1
    BY <1>1, <1>7 DEF Ledger, ChainNeverForks
  <2>2. \A i \in 1 .. n + 1 : decisions'[i].prev = i - 1
    BY <1>1, <1>3, <1>6, <2>1
  <2> QED BY <1>7, <2>2 DEF ChainNeverForks
<1>9. /\ prop' \in [Proposers -> Proposal] /\ prop'[p].pc = "idle"
      /\ \A o \in Proposers \ {p} : prop'[o] = prop[o]
      /\ chainLock' \in Proposers \cup {Nobody}
  BY <1>1, <1>4, ProposalOver
<1>10. \A o \in Proposers \ {p} : prop[o].pc \notin {"locked", "read"}
  BY <1>1, <1>2 DEF Ledger, HeadIsLast
<1>11. HeadIsLast'
  BY <1>9, <1>10 DEF HeadIsLast
<1>12. Ledger'
  BY <1>1, <1>2, <1>6, <1>8, <1>9, <1>11 DEF Ledger, LedgerTypes
<1>13. OutboxInv' /\ RowsStay
  BY <1>4, <1>5, EmitsStep DEF IInv
<1>14. CancelTypes'
  BY <1>4 DEF IInv, TypeOK, CancelTypes, cancelVars
<1>15. CancelledOnce'
  BY <1>4, <1>13, NothingCancelled DEF IInv, cancelVars
<1> QED BY <1>12, <1>13, <1>14, <1>15, Parts, PTL

LEMMA ProposeEndsStep ==
  ASSUME IInv, NEW p \in Proposers, ProposeEnds(p)
  PROVE  IInv'
<1>1. Ledger /\ Unlock(p) /\ Leaves(p) /\ decisions' = decisions
  BY Parts DEF ProposeEnds
<1>2. /\ prop' \in [Proposers -> Proposal] /\ prop'[p].pc = "idle"
      /\ \A o \in Proposers \ {p} : prop'[o] = prop[o]
      /\ chainLock' \in Proposers \cup {Nobody}
      /\ \A o \in Proposers \ {p} : chainLock = o => chainLock' = o
  BY <1>1, ProposalOver
<1>3. HeadIsLast'
  BY <1>1, <1>2 DEF Ledger, HeadIsLast
<1>4. Ledger'
  BY <1>1, <1>2, <1>3 DEF Ledger, LedgerTypes, ChainNeverForks
<1> QED BY <1>4, OutsideLedger DEF ProposeEnds

-----------------------------------------------------------------------------
(* The theorems.                                                            *)

LEMMA InitIInv == Init => IInv
<1> SUFFICES ASSUME Init PROVE IInv
  OBVIOUS
<1>1. PICK agg \in Aggregates : OutboxInit(<<OldEvent(agg)>>)
  BY DEF Init
<1> DEFINE old == OldEvent(agg)
<1>2. old \in Event /\ old.status = "pending" /\ old.retries = 0
  <2> DEFINE row == NewEvent(agg, "plan.schedule.committed", Nobody)
  <2>1. row \in Event /\ row.status = "pending" /\ row.retries = 0
    BY ProducersAssumption, OutboxAssumption DEF NewEvent, Event
  <2>2. old = [row EXCEPT !.readable = FALSE]
    BY DEF OldEvent
  <2> HIDE DEF row
  <2> QED BY <2>1, <2>2 DEF Event
<1> HIDE DEF old
<1>3. /\ outbox = <<old>> /\ Len(outbox) = 1 /\ outbox \in Seq(Event)
      /\ outbox[1] = old /\ Ids = {1}
  BY <1>1, <1>2 DEF OutboxInit, Ids, old
<1>4. /\ dlq \in Seq(Seq(0 .. MaxAttempts)) /\ Len(dlq) = 1 /\ dlq[1] = <<>>
  <2>1. dlq = [i \in 1 .. 1 |-> <<>>]
    BY <1>1, <1>3 DEF OutboxInit
  <2>2. dlq \in [1 .. 1 -> Seq(0 .. MaxAttempts)]
    BY <2>1
  <2> QED BY <2>1, <2>2, SeqAgain
<1>5. batch = [d \in Drains |-> {}]
  BY <1>1 DEF OutboxInit
<1>6. OutboxInv
  BY <1>2, <1>3, <1>4, <1>5, OutboxAssumption
     DEF OutboxInv, OutboxTypeOK, Apart, OneDeadLetter
<1>7. CancelTypes /\ CancelledOnce
  BY IdleRequestType DEF Init, CancelTypes, CancelledOnce, Subject
<1>8. Ledger
  BY IdleProposalType, ProducersAssumption
     DEF Init, Ledger, LedgerTypes, HeadIsLast, ChainNeverForks
<1> QED BY <1>6, <1>7, <1>8, Parts

LEMMA NextIInv == IInv /\ [Next]_vars => IInv'
<1> SUFFICES ASSUME IInv, [Next]_vars PROVE IInv'
  OBVIOUS
<1>1. CASE Cancellations
  BY <1>1, CancelReadsStep, CancelFlushesStep, CancelCommitsStep,
     CancelFailsStep, ReconcileReadsStep, ReconcileWritesStep DEF Cancellations
<1>2. CASE Proposals
  BY <1>2, ProposeBeginsStep, ProposeLocksStep, ProposeReadsHeadStep,
     ProposeCommitsStep, ProposeEndsStep DEF Proposals
<1>3. CASE Draining /\ UNCHANGED <<cancelVars, ledgerVars>>
  <2>1. OutboxInv' /\ RowsStay
    BY <1>3, DrainingStep DEF IInv
  <2>2. CancelTypes'
    BY <1>3 DEF IInv, TypeOK, CancelTypes, cancelVars
  <2>3. CancelledOnce'
    BY <1>3, <2>1, NothingCancelled DEF IInv, cancelVars
  <2>4. Ledger'
    BY <1>3, Parts, LedgerStays
  <2> QED BY <2>1, <2>2, <2>3, <2>4, Parts, PTL
<1>4. CASE UNCHANGED vars
  <2>1. UNCHANGED outboxVars /\ UNCHANGED cancelVars /\ UNCHANGED ledgerVars
    BY <1>4 DEF vars
  <2> QED BY <2>1, Parts, LedgerStays, OutsideLedger
<1> QED BY <1>1, <1>2, <1>3, <1>4 DEF Next

LEMMA Invariant == Spec => []IInv
BY InitIInv, NextIInv, PTL DEF Spec

\* Rows, dead letters, batches, requests, proposals and the lock stay of their
\* types whatever the producers and the drains do.
THEOREM TypeCorrect == Spec => []TypeOK
BY Invariant, PTL DEF IInv

\* An event is given up once, with one dead letter, however many processes
\* drain together, fail and find the same rows again.
THEOREM DeadLetterIsOne == Spec => []OneDeadLetter
BY Invariant, PTL DEF IInv, OutboxInv

\* A cancellation is on record once, with one event, for any number of people
\* who cancel at the same time and any number of reconciliations.
THEOREM CancellationIsOne == Spec => []CancelledOnce
BY Invariant, PTL DEF IInv

\* The decisions of a tenant are a chain, for any number of transactions that
\* propose at the same time.
THEOREM ChainIsOne == Spec => []ChainNeverForks
BY Invariant, PTL DEF IInv
-----------------------------------------------------------------------------
(* The outbox implements EventJournal.                                      *)

\* What a drain holds is due: only its own commit takes that away.
HeldDue == \A d \in Drains : \A i \in batch[d] : outbox[i].due

\* An aggregate has one event of a type.
KeysOnce ==
    \A i, j \in Ids :
        outbox[i].agg = outbox[j].agg /\ outbox[i].type = outbox[j].type => i = j

\* The events of proposals are about decisions there are.
ProposalsKnown ==
    \A i \in Ids : outbox[i].type = "DECISION_PROPOSED" =>
        outbox[i].agg \in 1 .. Len(decisions)

JournalInv == IInv /\ HeldDue /\ KeysOnce /\ ProposalsKnown

\* What an entry of the journal is.
JournalEntry ==
    [key : Aggregates \X EventTypes, by : Actors,
     state : {"due", "resting", "dead"}, tried : 0 .. MaxAttempts,
     letter : Seq(0 .. MaxAttempts)]

\* The journal is a sequence of entries, one for each row.
JournalIsSeq ==
    /\ SeenJournal \in Seq(JournalEntry)
    /\ Len(SeenJournal) = Len(outbox) /\ Len(outbox) \in Nat
    /\ DOMAIN SeenJournal = Ids /\ Ids = 1 .. Len(outbox)
    /\ \A i \in Ids : SeenJournal[i] = Journalled(i)

LEMMA JournalFacts == OutboxTypeOK => JournalIsSeq
<1> SUFFICES ASSUME OutboxTypeOK PROVE JournalIsSeq
  OBVIOUS
<1>1. /\ Len(outbox) \in Nat /\ Ids = 1 .. Len(outbox)
      /\ outbox \in [Ids -> Event] /\ dlq \in [Ids -> Seq(0 .. MaxAttempts)]
  BY OutboxFacts
<1>2. \A i \in Ids : Journalled(i) \in JournalEntry
  BY <1>1 DEF Journalled, JournalEntry, StateOf, Event
<1>3. SeenJournal \in [1 .. Len(outbox) -> JournalEntry]
  BY <1>1, <1>2 DEF SeenJournal
<1> QED BY <1>1, <1>3, SeqAgain DEF SeenJournal, JournalIsSeq

\* Nothing moves in the journal while rows and letters stay.
LEMMA JournalStays ==
  ASSUME outbox' = outbox, dlq' = dlq
  PROVE  SeenJournal' = SeenJournal
BY DEF SeenJournal, Journalled, Ids

\* A row that is added with a key nobody has is an entry published.
LEMMA EmitsJournal ==
  ASSUME OutboxInv, HeldDue, KeysOnce, NEW e \in Event, Emits(e),
         e = NewEvent(e.agg, e.type, e.by), ~KeyTaken(e.agg, e.type)
  PROVE  Journal!Publish /\ HeldDue' /\ KeysOnce'
<1> DEFINE n == Len(outbox)
           x == [key |-> <<e.agg, e.type>>, by |-> e.by, state |-> "due",
                 tried |-> 0, letter |-> <<>>]
<1>1. e.status = "pending" /\ e.retries = 0 /\ e.due
  BY DEF NewEvent
<1>2. /\ OutboxInv' /\ RowsStay /\ n + 1 \in Ids' /\ outbox'[n + 1] = e
      /\ Ids' = Ids \cup {n + 1}
  BY <1>1, EmitsStep
<1>3. /\ OutboxTypeOK /\ OutboxTypeOK' /\ n \in Nat /\ Ids = 1 .. n
      /\ \A d \in Drains : batch[d] \subseteq Ids
  BY <1>2, OutboxFacts DEF OutboxInv
<1>4. /\ \A i \in Ids : outbox'[i] = outbox[i] /\ dlq'[i] = dlq[i]
      /\ dlq'[n + 1] = <<>> /\ Len(outbox') = n + 1 /\ batch' = batch
  <2>1. /\ outbox \in Seq(Event) /\ dlq \in Seq(Seq(0 .. MaxAttempts))
        /\ Len(dlq) = n /\ <<>> \in Seq(0 .. MaxAttempts)
    BY <1>3 DEF OutboxTypeOK
  <2> QED BY <1>3, <2>1, AppendProperties DEF Emits
<1>5. /\ SeenJournal \in Seq(JournalEntry) /\ Len(SeenJournal) = n
      /\ DOMAIN SeenJournal = Ids
      /\ \A i \in Ids : SeenJournal[i] = Journalled(i)
  BY <1>3, JournalFacts DEF JournalIsSeq
<1>6. /\ SeenJournal' \in Seq(JournalEntry) /\ Len(SeenJournal') = n + 1
      /\ \A i \in Ids' : SeenJournal'[i] = Journalled(i)'
  <2>1. JournalIsSeq'
    BY <1>3, JournalFacts, PTL
  <2> QED BY <1>4, <2>1 DEF JournalIsSeq
<1>7. \A i \in Ids : SeenJournal'[i] = SeenJournal[i]
  <2> TAKE i \in Ids
  <2>1. Journalled(i)' = Journalled(i)
    BY <1>4 DEF Journalled
  <2> QED BY <1>2, <1>5, <1>6, <2>1
<1>8. SeenJournal'[n + 1] = x /\ x \in JournalEntry
  <2>1. SeenJournal'[n + 1] =
          [key |-> <<outbox'[n + 1].agg, outbox'[n + 1].type>>,
           by |-> outbox'[n + 1].by, state |-> StateOf(outbox'[n + 1]),
           tried |-> outbox'[n + 1].retries, letter |-> dlq'[n + 1]]
    BY <1>2 DEF SeenJournal, Journalled
  <2>2. SeenJournal'[n + 1] = x
    BY <1>1, <1>2, <1>4, <2>1 DEF StateOf
  <2> QED BY <1>2, <1>6, <2>2, ElementOfSeq
<1>9. SeenJournal' = Append(SeenJournal, x)
  <2>1. /\ Append(SeenJournal, x) \in Seq(JournalEntry)
        /\ Len(Append(SeenJournal, x)) = n + 1
        /\ \A i \in Ids : Append(SeenJournal, x)[i] = SeenJournal[i]
        /\ Append(SeenJournal, x)[n + 1] = x
    BY <1>3, <1>5, <1>8, AppendProperties
  <2>2. \A i \in 1 .. n + 1 : SeenJournal'[i] = Append(SeenJournal, x)[i]
    BY <1>3, <1>7, <1>8, <2>1
  <2> QED BY <1>6, <2>1, <2>2, SeqEqual
<1>10. Journal!NewKey(x.key)
  <2>1. \A i \in Ids : SeenJournal[i].key = <<outbox[i].agg, outbox[i].type>>
    BY <1>5 DEF Journalled
  <2>2. \A i \in Ids : <<outbox[i].agg, outbox[i].type>> # <<e.agg, e.type>>
    BY DEF KeyTaken
  <2> QED BY <1>5, <2>1, <2>2 DEF Journal!NewKey
<1>11. Journal!Publish
  <2>1. Len(SeenJournal') = Len(SeenJournal) + 1
    BY <1>5, <1>6
  <2>2. SeenJournal'[Len(SeenJournal')] = x
    BY <1>6, <1>8
  <2>3. x = Journal!Entry(x.key, x.by)
    BY DEF Journal!Entry
  <2> HIDE DEF x
  <2> QED BY <1>9, <1>10, <2>1, <2>2, <2>3 DEF Journal!Publish
<1>12. HeldDue'
  BY <1>3, <1>4 DEF HeldDue
<1>13. KeysOnce'
  BY <1>2, <1>3, <1>4 DEF KeysOnce, KeyTaken
<1> QED BY <1>11, <1>12, <1>13

\* What the loop makes of a row that is due is one try of its entry.
EntryOf(row, letter) ==
    [key |-> <<row.agg, row.type>>, by |-> row.by, state |-> StateOf(row),
     tried |-> row.retries, letter |-> letter]

LEMMA HandledJournal ==
  ASSUME NEW row \in Event, row.status = "pending", row.due,
         row.retries # MaxAttempts, NEW new, new = Handled(row)
  PROVE  EntryOf(new, IF new.status = "failed" THEN <<new.retries>> ELSE <<>>)
           \in Journal!Tried(EntryOf(row, <<>>))
<1> DEFINE tried == [row EXCEPT !.retries = @ + 1, !.due = FALSE]
<1>1. /\ row.retries \in 0 .. MaxAttempts /\ row.retries + 1 \in 0 .. MaxAttempts
      /\ MaxAttempts \in Nat
  BY OutboxAssumption DEF Event
<1>2. /\ tried.retries = row.retries + 1 /\ ~tried.due
      /\ tried.agg = row.agg /\ tried.type = row.type /\ tried.by = row.by
      /\ tried.status = "pending" /\ tried \in Event
  BY <1>1 DEF Event
<1>3. CASE ~row.readable
  <2>1. new = [row EXCEPT !.status = "failed"]
    BY <1>3 DEF Handled
  <2>2. /\ new.agg = row.agg /\ new.type = row.type /\ new.by = row.by
        /\ new.status = "failed" /\ new.retries = row.retries
    BY <2>1 DEF Event
  <2>3. EntryOf(new, <<new.retries>>) = Journal!Dies(EntryOf(row, <<>>), row.retries)
    <3>1. <<new.retries>> = <<row.retries>>
      BY <2>2
    <3> QED BY <2>2, <3>1 DEF Journal!Dies, EntryOf, StateOf
  <2>4. EntryOf(row, <<>>).tried = row.retries
    BY DEF EntryOf
  <2> QED BY <2>2, <2>3, <2>4 DEF Journal!Tried
<1>4. CASE row.readable /\ GivenUp(tried)
  <2>1. new = [tried EXCEPT !.status = "failed"]
    BY <1>4 DEF Handled
  <2>2. /\ new.agg = row.agg /\ new.type = row.type /\ new.by = row.by
        /\ new.status = "failed" /\ new.retries = row.retries + 1
    BY <1>2, <2>1 DEF Event
  <2>3. row.retries + 1 = MaxAttempts
    BY <1>1, <1>2, <1>4 DEF GivenUp
  <2> QED BY <2>2, <2>3 DEF Journal!Tried, Journal!Dies, EntryOf, StateOf
<1>5. CASE row.readable /\ ~GivenUp(tried)
  <2>1. new = tried
    BY <1>5 DEF Handled
  <2>2. row.retries + 1 # MaxAttempts
    BY <1>1, <1>2, <1>5 DEF GivenUp
  <2> HIDE DEF tried
  <2> QED BY <1>2, <2>1, <2>2 DEF Journal!Tried, Journal!Rests, EntryOf, StateOf
<1> QED BY <1>3, <1>4, <1>5

LEMMA DrainCommitsJournal ==
  ASSUME OutboxInv, HeldDue, KeysOnce, NEW d \in Drains, DrainCommits(d)
  PROVE  Journal!Try /\ HeldDue' /\ KeysOnce'
<1>1. /\ OutboxTypeOK /\ OutboxInv' /\ OutboxTypeOK' /\ RowsStay
      /\ batch \in [Drains -> SUBSET Ids] /\ outbox \in [Ids -> Event]
  BY DrainCommitsStep, OutboxFacts DEF OutboxInv, OutboxTypeOK
<1>2. /\ Len(outbox') = Len(outbox) /\ Ids' = Ids
      /\ \A i \in Ids : outbox'[i] = IF i \in batch[d] THEN Handled(outbox[i])
                                     ELSE outbox[i]
      /\ \A i \in Ids \ batch[d] : dlq'[i] = dlq[i]
      /\ batch' = [batch EXCEPT ![d] = {}]
  <2>1. Len(outbox) \in Nat /\ Ids = 1 .. Len(outbox)
    BY <1>1, OutboxFacts
  <2>2. outbox' \in [1 .. Len(outbox') -> Event] /\ Len(outbox') \in Nat
    BY <1>1, LenProperties DEF OutboxTypeOK
  <2>3. DOMAIN outbox' = Ids
    BY DEF DrainCommits
  <2>4. Len(outbox') = Len(outbox)
    BY <2>1, <2>2, <2>3
  <2> QED BY <2>4 DEF DrainCommits, Ids
<1>3. \A i \in Ids : dlq'[i] = IF outbox'[i].status = "failed"
                               THEN <<outbox'[i].retries>> ELSE <<>>
  BY <1>1, <1>2 DEF OutboxInv, OneDeadLetter
<1>4. \A i \in batch[d] :
        /\ i \in Ids /\ outbox[i] \in Event /\ outbox[i].status = "pending"
        /\ outbox[i].due /\ outbox[i].retries # MaxAttempts /\ dlq[i] = <<>>
  BY <1>1 DEF OutboxInv, Apart, OneDeadLetter, HeldDue
<1>5. /\ Len(SeenJournal') = Len(SeenJournal)
      /\ DOMAIN SeenJournal = Ids
      /\ \A i \in Ids : SeenJournal[i] = Journalled(i)
  <2>1. JournalIsSeq /\ JournalIsSeq'
    BY <1>1, JournalFacts, PTL
  <2> QED BY <1>2, <2>1 DEF JournalIsSeq
<1>6. \A i \in Ids : SeenJournal'[i] =
        [key |-> <<outbox'[i].agg, outbox'[i].type>>, by |-> outbox'[i].by,
         state |-> StateOf(outbox'[i]), tried |-> outbox'[i].retries,
         letter |-> dlq'[i]]
  BY <1>2 DEF SeenJournal, Journalled
<1>7. ASSUME NEW i \in Ids
      PROVE  \/ SeenJournal'[i] = SeenJournal[i]
             \/ /\ SeenJournal[i].state = "due"
                /\ SeenJournal'[i] \in Journal!Tried(SeenJournal[i])
  <2>1. CASE i \in batch[d]
    <3> DEFINE row == outbox[i]
               new == outbox'[i]
    <3>1. /\ row \in Event /\ row.status = "pending" /\ row.due
          /\ row.retries # MaxAttempts /\ new = Handled(row) /\ dlq[i] = <<>>
      BY <1>2, <1>4, <2>1
    <3>2. SeenJournal[i] = EntryOf(row, <<>>)
      BY <1>5, <3>1 DEF Journalled, EntryOf
    <3>3. SeenJournal'[i] = EntryOf(new,
            IF new.status = "failed" THEN <<new.retries>> ELSE <<>>)
      BY <1>3, <1>6 DEF EntryOf
    <3>4. SeenJournal[i].state = "due"
      BY <3>1, <3>2 DEF StateOf, EntryOf
    <3> HIDE DEF row, new
    <3> QED BY <3>1, <3>2, <3>3, <3>4, HandledJournal
  <2>2. CASE i \notin batch[d]
    BY <1>2, <1>5, <1>6, <2>2 DEF Journalled
  <2> QED BY <2>1, <2>2
<1>8. Journal!Try
  BY <1>5, <1>7 DEF Journal!Try
<1>9. HeldDue'
  BY <1>1, <1>2 DEF HeldDue, OutboxInv, Apart
<1>10. KeysOnce'
  BY <1>1, <1>2 DEF KeysOnce, RowsStay
<1> QED BY <1>8, <1>9, <1>10

LEMMA BackoffEndsJournal ==
  ASSUME OutboxInv, HeldDue, KeysOnce, NEW k \in Ids, BackoffEnds(k)
  PROVE  (\E i \in DOMAIN SeenJournal : Journal!Wakes(i)) /\ HeldDue' /\ KeysOnce'
<1>1. /\ OutboxTypeOK /\ OutboxInv' /\ RowsStay /\ outbox \in [Ids -> Event]
      /\ \A d \in Drains : batch[d] \subseteq Ids
  BY BackoffEndsStep, OutboxFacts DEF OutboxInv
<1>2. /\ outbox[k].status = "pending" /\ ~outbox[k].due
      /\ outbox' = [outbox EXCEPT ![k].due = TRUE] /\ dlq' = dlq /\ batch' = batch
  BY DEF BackoffEnds
<1>3. /\ \A i \in Ids : /\ outbox'[i].agg = outbox[i].agg
                        /\ outbox'[i].type = outbox[i].type
                        /\ outbox'[i].by = outbox[i].by
                        /\ outbox'[i].retries = outbox[i].retries
                        /\ outbox'[i].status = outbox[i].status
                        /\ i # k => outbox'[i].due = outbox[i].due
      /\ outbox'[k].due
  BY <1>1, <1>2 DEF Event
<1>4. Ids' = Ids
  <2>1. OutboxTypeOK'
    BY <1>1 DEF OutboxInv
  <2>2. /\ outbox' \in [1 .. Len(outbox') -> Event] /\ Len(outbox') \in Nat
        /\ Len(outbox) \in Nat /\ Ids = 1 .. Len(outbox)
    BY <1>1, <2>1, LenProperties, OutboxFacts DEF OutboxTypeOK
  <2>3. DOMAIN outbox' = Ids
    BY <1>1, <1>2
  <2>4. Len(outbox') = Len(outbox)
    BY <2>2, <2>3
  <2> QED BY <2>4 DEF Ids
<1>5. /\ DOMAIN SeenJournal = Ids
      /\ \A i \in Ids : SeenJournal[i] = Journalled(i)
  BY <1>1, JournalFacts DEF JournalIsSeq
<1>6. SeenJournal[k].state = "resting"
  BY <1>2, <1>5 DEF Journalled, StateOf
<1>7. SeenJournal' = [SeenJournal EXCEPT ![k].state = "due"]
  <2>1. SeenJournal' = [i \in Ids |-> Journalled(i)']
    BY <1>4 DEF SeenJournal
  <2>2. \A i \in Ids \ {k} : Journalled(i)' = SeenJournal[i]
    BY <1>2, <1>3, <1>5 DEF Journalled, StateOf
  <2>3. Journalled(k)' = [SeenJournal[k] EXCEPT !.state = "due"]
    BY <1>2, <1>3, <1>5 DEF Journalled, StateOf
  <2>4. SeenJournal = [i \in Ids |-> SeenJournal[i]]
    BY <1>5 DEF SeenJournal
  <2> QED BY <2>1, <2>2, <2>3, <2>4
<1>8. \E i \in DOMAIN SeenJournal : Journal!Wakes(i)
  BY <1>5, <1>6, <1>7 DEF Journal!Wakes
<1>9. HeldDue'
  BY <1>1, <1>2, <1>3 DEF HeldDue
<1>10. KeysOnce'
  BY <1>3, <1>4 DEF KeysOnce
<1> QED BY <1>8, <1>9, <1>10

\* Nothing but a commit of a producer or a drain touches the journal.
LEMMA JournalApart ==
  ASSUME JournalInv, outbox' = outbox, dlq' = dlq,
         \A d \in Drains : batch'[d] \subseteq batch[d],
         decisions' = decisions
  PROVE  SeenJournal' = SeenJournal /\ HeldDue' /\ KeysOnce' /\ ProposalsKnown'
<1>1. Ids' = Ids
  BY DEF Ids
<1> QED BY <1>1, JournalStays
        DEF JournalInv, HeldDue, KeysOnce, ProposalsKnown

\* A drain takes rows that are due.
LEMMA DrainSelectsJournal ==
  ASSUME JournalInv, NEW d \in Drains, DrainSelects(d), decisions' = decisions
  PROVE  SeenJournal' = SeenJournal /\ HeldDue' /\ KeysOnce' /\ ProposalsKnown'
<1>1. /\ outbox' = outbox /\ dlq' = dlq /\ Ids' = Ids
      /\ batch' = [batch EXCEPT ![d] = Eligible]
      /\ batch \in [Drains -> SUBSET Ids]
  BY DEF DrainSelects, Ids, JournalInv, IInv, OutboxInv, OutboxTypeOK
<1>2. \A i \in Eligible : outbox[i].due
  BY DEF Eligible
<1> QED BY <1>1, <1>2, JournalStays
        DEF JournalInv, HeldDue, KeysOnce, ProposalsKnown

\* Every step of the outbox that is not a producer's is one of the journal.
LEMMA DrainingJournal ==
  ASSUME JournalInv, Draining, UNCHANGED ledgerVars
  PROVE  /\ Journal!Next \/ SeenJournal' = SeenJournal
         /\ HeldDue' /\ KeysOnce' /\ ProposalsKnown'
<1>1. OutboxInv /\ HeldDue /\ KeysOnce /\ decisions' = decisions
      /\ batch \in [Drains -> SUBSET Ids]
  BY DEF JournalInv, IInv, ledgerVars, OutboxInv, OutboxTypeOK
<1>2. RowsStay
  BY <1>1, DrainingStep
<1>3. ASSUME Ids' = Ids PROVE ProposalsKnown'
  BY <1>1, <1>2, <1>3 DEF RowsStay, JournalInv, ProposalsKnown
<1>4. ASSUME NEW d \in Drains, DrainSelects(d)
      PROVE  SeenJournal' = SeenJournal /\ HeldDue' /\ KeysOnce' /\ ProposalsKnown'
  BY <1>1, <1>4, DrainSelectsJournal
<1>5. ASSUME NEW d \in Drains, DrainCommits(d)
      PROVE  Journal!Next /\ HeldDue' /\ KeysOnce' /\ ProposalsKnown'
  <2>1. Journal!Try /\ HeldDue' /\ KeysOnce'
    BY <1>1, <1>5, DrainCommitsJournal
  <2>2. Ids' = Ids
    <3>1. OutboxTypeOK /\ OutboxTypeOK'
      BY <1>1, <1>5, DrainCommitsStep DEF OutboxInv
    <3>2. Len(outbox) \in Nat /\ Len(outbox') \in Nat
          /\ DOMAIN outbox' = 1 .. Len(outbox')
      BY <3>1, LenProperties DEF OutboxTypeOK
    <3>3. DOMAIN outbox' = 1 .. Len(outbox)
      BY <1>5 DEF DrainCommits, Ids
    <3>4. Len(outbox') = Len(outbox)
      BY <3>2, <3>3
    <3> QED BY <3>4 DEF Ids
  <2> QED BY <1>3, <2>1, <2>2 DEF Journal!Next
<1>6. ASSUME NEW d \in Drains, DrainFails(d)
      PROVE  SeenJournal' = SeenJournal /\ HeldDue' /\ KeysOnce' /\ ProposalsKnown'
  <2>1. outbox' = outbox /\ dlq' = dlq /\ \A e \in Drains : batch'[e] \subseteq batch[e]
    BY <1>1, <1>6 DEF DrainFails
  <2> QED BY <1>1, <2>1, JournalApart
<1>7. ASSUME NEW i \in Ids, BackoffEnds(i)
      PROVE  Journal!Next /\ HeldDue' /\ KeysOnce' /\ ProposalsKnown'
  <2>1. (\E k \in DOMAIN SeenJournal : Journal!Wakes(k)) /\ HeldDue' /\ KeysOnce'
    BY <1>1, <1>7, BackoffEndsJournal
  <2>2. Ids' = Ids
    <3>1. OutboxTypeOK /\ OutboxTypeOK'
      BY <1>1, <1>7, BackoffEndsStep DEF OutboxInv
    <3>2. Len(outbox) \in Nat /\ Len(outbox') \in Nat
          /\ DOMAIN outbox' = 1 .. Len(outbox') /\ DOMAIN outbox = 1 .. Len(outbox)
      BY <3>1, LenProperties DEF OutboxTypeOK
    <3>3. DOMAIN outbox' = 1 .. Len(outbox)
      BY <1>7, <3>2 DEF BackoffEnds
    <3> QED BY <3>2, <3>3 DEF Ids
  <2> QED BY <1>3, <2>1, <2>2 DEF Journal!Next
<1> QED BY <1>4, <1>5, <1>6, <1>7 DEF Draining

\* The event of a cancellation is an entry with a key of its own.
LEMMA CancelCommitsJournal ==
  ASSUME JournalInv, NEW r \in Requests, CancelCommits(r)
  PROVE  Journal!Next /\ HeldDue' /\ KeysOnce' /\ ProposalsKnown'
<1> DEFINE q == req[r]
           e == NewEvent(q.of, EventOf(q.verb), q.by)
<1>1. OutboxInv /\ HeldDue /\ KeysOnce /\ ProposalsKnown /\ q \in Request
  BY DEF JournalInv, IInv, TypeOK
<1>2. /\ e \in Event /\ e.status = "pending" /\ e.retries = 0
      /\ e.agg = q.of /\ e.type = EventOf(q.verb) /\ e.by = q.by
  BY <1>1, CancelEvent
<1>3. e = NewEvent(e.agg, e.type, e.by)
  BY <1>2
<1>4. Emits(e) /\ ~KeyTaken(e.agg, e.type) /\ decisions' = decisions
  BY <1>2 DEF CancelCommits, Refused, ledgerVars
<1>5. e.type # "DECISION_PROPOSED"
  BY <1>2 DEF EventOf
<1> HIDE DEF e, q
<1>6. Journal!Publish /\ HeldDue' /\ KeysOnce'
  BY <1>1, <1>2, <1>3, <1>4, EmitsJournal
<1>7. /\ RowsStay /\ outbox'[Len(outbox) + 1] = e
      /\ Ids' = Ids \cup {Len(outbox) + 1}
  BY <1>1, <1>2, <1>4, EmitsStep
<1>8. ProposalsKnown'
  BY <1>1, <1>4, <1>5, <1>7 DEF ProposalsKnown, RowsStay
<1> QED BY <1>6, <1>8 DEF Journal!Next

\* So is that of a proposal, whose decision is the newest.
LEMMA ProposeCommitsJournal ==
  ASSUME JournalInv, NEW p \in Proposers, ProposeCommits(p)
  PROVE  Journal!Next /\ HeldDue' /\ KeysOnce' /\ ProposalsKnown'
<1> DEFINE n == Len(decisions)
           e == NewEvent(n + 1, "DECISION_PROPOSED", p)
<1>1. /\ OutboxInv /\ HeldDue /\ KeysOnce /\ ProposalsKnown
      /\ decisions \in Seq(DecisionRun) /\ n \in Nat
  BY LenProperties DEF JournalInv, IInv, TypeOK
<1>2. /\ e \in Event /\ e.status = "pending" /\ e.retries = 0
      /\ e.agg = n + 1 /\ e.type = "DECISION_PROPOSED" /\ e.by = p
  <2>1. n < MaxDecisions
    BY DEF ProposeCommits
  <2>2. n + 1 \in Aggregates /\ p \in Actors /\ 0 \in 0 .. MaxAttempts
        /\ "DECISION_PROPOSED" \in EventTypes
    BY <1>1, <2>1, ProducersAssumption, OutboxAssumption
  <2> QED BY <2>2 DEF NewEvent, Event
<1>3. e = NewEvent(e.agg, e.type, e.by)
  BY <1>2
<1>4. Emits(e) /\ \E d : decisions' = Append(decisions, d) /\ d \in DecisionRun
  <2> DEFINE d == [prev |-> prop[p].head, by |-> p]
  <2>1. prop[p] \in Proposal
    BY DEF JournalInv, IInv, TypeOK
  <2>2. d \in DecisionRun /\ decisions' = Append(decisions, d)
    BY <2>1 DEF Proposal, DecisionRun, ProposeCommits
  <2> QED BY <2>2 DEF ProposeCommits
<1>5. Len(decisions') = n + 1
  BY <1>1, <1>4, AppendProperties
<1>6. ~KeyTaken(e.agg, e.type)
  BY <1>1, <1>2 DEF KeyTaken, ProposalsKnown
<1> HIDE DEF e
<1>7. Journal!Publish /\ HeldDue' /\ KeysOnce'
  BY <1>1, <1>2, <1>3, <1>4, <1>6, EmitsJournal
<1>8. /\ RowsStay /\ outbox'[Len(outbox) + 1] = e
      /\ Ids' = Ids \cup {Len(outbox) + 1}
  BY <1>1, <1>2, <1>4, EmitsStep
<1>9. ProposalsKnown'
  BY <1>1, <1>2, <1>5, <1>8 DEF ProposalsKnown, RowsStay
<1> QED BY <1>7, <1>9 DEF Journal!Next

\* Every step of the producers and the drains is one of the journal, or none.
LEMMA NextJournal ==
  JournalInv /\ [Next]_vars =>
      JournalInv' /\ (Journal!Next \/ SeenJournal' = SeenJournal)
<1> SUFFICES ASSUME JournalInv, [Next]_vars
             PROVE  /\ JournalInv'
                    /\ Journal!Next \/ SeenJournal' = SeenJournal
  OBVIOUS
<1>1. IInv'
  BY NextIInv DEF JournalInv
<1>2. ASSUME UNCHANGED outboxVars, decisions' = decisions
      PROVE  SeenJournal' = SeenJournal /\ HeldDue' /\ KeysOnce' /\ ProposalsKnown'
  BY <1>2, JournalApart DEF outboxVars
<1>3. CASE UNCHANGED vars
  BY <1>1, <1>2, <1>3 DEF vars, ledgerVars, JournalInv
<1>4. CASE Cancellations
  <2>1. CASE \E r \in Requests : CancelCommits(r)
    BY <1>1, <2>1, CancelCommitsJournal DEF JournalInv
  <2>2. CASE ~\E r \in Requests : CancelCommits(r)
    <3>1. UNCHANGED outboxVars /\ decisions' = decisions
      BY <1>4, <2>2 DEF Cancellations, CancelReads, CancelFlushes, CancelFails,
                        ReconcileReads, ReconcileWrites, ledgerVars
    <3> QED BY <1>1, <1>2, <3>1 DEF JournalInv
  <2> QED BY <2>1, <2>2
<1>5. CASE Proposals
  <2>1. CASE \E p \in Proposers : ProposeCommits(p)
    BY <1>1, <2>1, ProposeCommitsJournal DEF JournalInv
  <2>2. CASE ~\E p \in Proposers : ProposeCommits(p)
    <3>1. UNCHANGED outboxVars /\ decisions' = decisions
      BY <1>5, <2>2 DEF Proposals, ProposeBegins, ProposeLocks, ProposeReadsHead,
                        ProposeEnds
    <3> QED BY <1>1, <1>2, <3>1 DEF JournalInv
  <2> QED BY <2>1, <2>2
<1>6. CASE Draining /\ UNCHANGED <<cancelVars, ledgerVars>>
  BY <1>1, <1>6, DrainingJournal DEF JournalInv
<1> QED BY <1>3, <1>4, <1>5, <1>6 DEF Next

\* The row of the earlier release is the first entry.
LEMMA InitJournal == Init => JournalInv /\ Journal!Init
<1> SUFFICES ASSUME Init PROVE JournalInv /\ Journal!Init
  OBVIOUS
<1>1. PICK agg \in Aggregates : OutboxInit(<<OldEvent(agg)>>)
  BY DEF Init
<1> DEFINE old == OldEvent(agg)
<1>2. /\ IInv /\ JournalIsSeq
  BY InitIInv, JournalFacts DEF IInv, OutboxInv
<1>3. /\ outbox = <<old>> /\ Ids = {1} /\ outbox[1] = old
      /\ dlq[1] = <<>> /\ batch = [d \in Drains |-> {}]
  <2>1. outbox = <<old>> /\ Len(outbox) = 1 /\ outbox[1] = old
    BY <1>1 DEF OutboxInit
  <2>2. Ids = {1}
    BY <2>1 DEF Ids
  <2>3. dlq = [i \in 1 .. 1 |-> <<>>] /\ batch = [d \in Drains |-> {}]
    BY <1>1, <2>1 DEF OutboxInit
  <2> QED BY <2>1, <2>2, <2>3
<1>4. /\ old.agg = agg /\ old.type = "plan.schedule.committed"
      /\ old.by = Nobody /\ old.status = "pending" /\ old.retries = 0 /\ old.due
  BY DEF OldEvent, NewEvent
<1> HIDE DEF old
<1>5. JournalInv
  BY <1>2, <1>3, <1>4 DEF JournalInv, HeldDue, KeysOnce, ProposalsKnown
<1>6. Journal!Init
  <2>1. DOMAIN SeenJournal = {1} /\ SeenJournal[1] = Journalled(1)
    BY <1>2, <1>3 DEF JournalIsSeq
  <2>2. Journalled(1) = Journal!Entry(<<agg, "plan.schedule.committed">>, Nobody)
    BY <1>3, <1>4 DEF Journalled, StateOf, Journal!Entry
  <2>3. SeenJournal[1] = Journal!Entry(SeenJournal[1].key, SeenJournal[1].by)
    BY <2>1, <2>2 DEF Journal!Entry
  <2> QED BY <2>1, <2>3 DEF Journal!Init
<1> QED BY <1>5, <1>6

\* For any number of producers, drains and crashes the outbox is a journal that
\* only grows, with one entry of a key, tries that rest in between, and one
\* letter for each entry that is given up.
THEOREM OutboxImplementsJournal == Spec => JournalSpec
<1>1. Init => JournalInv /\ Journal!Init
  BY InitJournal
<1>2. JournalInv /\ [Next]_vars => JournalInv' /\ [Journal!Next]_SeenJournal
  BY NextJournal
<1> QED BY <1>1, <1>2, PTL DEF Spec, JournalSpec, Journal!Spec

-----------------------------------------------------------------------------
(* The lock of the ledger.                                                  *)

\* The advisory lock is held by a proposal that is under way: nobody waits for
\* one that a transaction left behind.
ChainLockHeld ==
    chainLock # Nobody => prop[chainLock].pc \in {"locked", "read"}

LEMMA NextChainLockHeld ==
  TypeOK /\ ChainLockHeld /\ [Next]_vars => ChainLockHeld'
<1> SUFFICES ASSUME TypeOK, ChainLockHeld, [Next]_vars PROVE ChainLockHeld'
  OBVIOUS
<1>1. /\ prop \in [Proposers -> Proposal]
      /\ chainLock \in Proposers \cup {Nobody}
  BY DEF TypeOK
<1>2. ASSUME NEW p \in Proposers, NEW kind, ProposeBegins(p, kind)
      PROVE  ChainLockHeld'
  BY <1>1, <1>2 DEF ProposeBegins, ChainLockHeld
<1>3. ASSUME NEW p \in Proposers, ProposeLocks(p) PROVE ChainLockHeld'
  BY <1>1, <1>3 DEF ProposeLocks, LockTaken, ChainLockHeld, Proposal
<1>4. ASSUME NEW p \in Proposers, ProposeReadsHead(p) PROVE ChainLockHeld'
  <2>1. /\ chainLock' = chainLock /\ prop'[p].pc = "read"
        /\ \A o \in Proposers \ {p} : prop'[o] = prop[o]
    BY <1>1, <1>4 DEF ProposeReadsHead, Proposal
  <2> QED BY <1>1, <2>1 DEF ChainLockHeld
<1>5. ASSUME NEW p \in Proposers, ProposeCommits(p) \/ ProposeEnds(p)
      PROVE  ChainLockHeld'
  BY <1>1, <1>5 DEF ProposeCommits, ProposeEnds, Unlock, Leaves, ChainLockHeld
<1>6. CASE Proposals
  BY <1>2, <1>3, <1>4, <1>5, <1>6 DEF Proposals
<1>7. CASE Cancellations
  BY <1>7 DEF Cancellations, CancelReads, CancelFlushes, CancelCommits,
     CancelFails, ReconcileReads, ReconcileWrites, ledgerVars, ChainLockHeld
<1>8. CASE UNCHANGED ledgerVars
  BY <1>8 DEF ledgerVars, ChainLockHeld
<1> QED BY <1>6, <1>7, <1>8 DEF Next, vars

\* A proposal never waits for a lock whose transaction is over, for any number
\* of proposals and however they end.
THEOREM LockIsReleased == Spec => []ChainLockHeld
<1>1. Init => ChainLockHeld
  BY DEF Init, ChainLockHeld
<1> QED BY <1>1, NextChainLockHeld, TypeCorrect, PTL DEF Spec
=============================================================================
