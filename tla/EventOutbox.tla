----------------------------- MODULE EventOutbox -----------------------------
(***************************************************************************)
(* The event outbox (tables event_outbox and event_dlq) and the dispatcher *)
(* that drains it (src/shared/outbox_dispatcher.py).                       *)
(*                                                                         *)
(* Rows are written by the transactions of other modules.  A drain is run  *)
(* once by each API process when it shuts down; nothing starts the loop of *)
(* run_outbox_dispatcher_loop.  Processes that are replaced together drain *)
(* together: each takes its batch with FOR UPDATE SKIP LOCKED, works on    *)
(* what it read, and writes it back with one commit.                       *)
(*                                                                         *)
(* event.id is a UUID already, so PyUUID(event.id) raises for every row:   *)
(* in this code a drain only ever counts failures, and an event ends in    *)
(* the dead letters after MaxAttempts of them.                             *)
(***************************************************************************)
EXTENDS Naturals, Sequences

CONSTANTS
    Drains,         \* processes that can be shutting down together
    MaxAttempts,    \* failures after which a row is given up (5)
    Aggregates,     \* what events are about
    EventTypes,
    Actors

ASSUME OutboxAssumption == MaxAttempts \in Nat \ {0}

\* readable: the payload passes validate_event_payload; due: next_retry_at is
\* null or has passed.
Event == [agg      : Aggregates,
          type     : EventTypes,
          by       : Actors,          \* the part of the payload told apart
          readable : BOOLEAN,
          status   : {"pending", "failed"},
          retries  : 0 .. MaxAttempts,
          due      : BOOLEAN]

VARIABLES
    outbox,     \* committed rows, in order of commit; an id is a position
    dlq,        \* the dead letters of each row: the attempts they name
    batch       \* [Drains -> SUBSET ids]: the rows a drain holds locked

outboxVars == <<outbox, dlq, batch>>

Ids == 1 .. Len(outbox)

OutboxTypeOK ==
    /\ outbox \in Seq(Event)
    /\ dlq \in Seq(Seq(0 .. MaxAttempts)) /\ Len(dlq) = Len(outbox)
    /\ batch \in [Drains -> SUBSET Ids]

OutboxInit(rows) ==
    /\ outbox = rows
    /\ dlq = [i \in 1 .. Len(rows) |-> <<>>]
    /\ batch = [d \in Drains |-> {}]

-----------------------------------------------------------------------------
\* EventOutbox(...) added to the session of whoever emits it.
NewEvent(agg, type, by) ==
    [agg |-> agg, type |-> type, by |-> by, readable |-> TRUE,
     status |-> "pending", retries |-> 0, due |-> TRUE]

\* uq_event_outbox_idempotency: an aggregate has one event of a type, ever.
KeyTaken(agg, type) ==
    \E i \in Ids : outbox[i].agg = agg /\ outbox[i].type = type

Emits(e) ==
    /\ outbox' = Append(outbox, e)
    /\ dlq' = Append(dlq, <<>>)
    /\ UNCHANGED batch

\* Mutant: rows of another drain are not skipped.
NeverSkipped(i) == FALSE

\* SKIP LOCKED
Skipped(i) == \E d \in Drains : i \in batch[d]

\* Mutant: next_retry_at is not looked at.
EligibleEarly == {i \in Ids : outbox[i].status = "pending" /\ ~Skipped(i)}

Eligible == {i \in Ids : /\ outbox[i].status = "pending"
                         /\ outbox[i].due
                         /\ ~Skipped(i)}

\* The batch of 100 is larger than any outbox here: all that is eligible.
DrainSelects(d) ==
    /\ batch[d] = {} /\ Eligible # {}
    /\ batch' = [batch EXCEPT ![d] = Eligible]
    /\ UNCHANGED <<outbox, dlq>>

GivenUp(row) == row.retries >= MaxAttempts

\* What the loop makes of a row: an unreadable one fails at once, any other
\* fails in PyUUID and backs off.
Handled(row) ==
    LET tried == [row EXCEPT !.retries = @ + 1, !.due = FALSE]
    IN  IF ~row.readable THEN [row EXCEPT !.status = "failed"]
        ELSE IF GivenUp(tried) THEN [tried EXCEPT !.status = "failed"]
        ELSE tried

\* One commit for the batch, dead letters included.  Nothing is awaited
\* between the select and the commit, so the loop is part of it.
DrainCommits(d) ==
    /\ batch[d] # {}
    /\ outbox' = [i \in Ids |-> IF i \in batch[d] THEN Handled(outbox[i])
                                ELSE outbox[i]]
    /\ dlq' = [i \in Ids |->
                 IF i \in batch[d] /\ Handled(outbox[i]).status = "failed"
                 THEN Append(dlq[i], Handled(outbox[i]).retries) ELSE dlq[i]]
    /\ batch' = [batch EXCEPT ![d] = {}]

\* The commit fails, the thirty seconds of the shutdown are over, or the
\* process is killed: the locks go and nothing is written.
DrainFails(d) ==
    /\ batch[d] # {}
    /\ batch' = [batch EXCEPT ![d] = {}]
    /\ UNCHANGED <<outbox, dlq>>

\* min(2^retry_count, 300) seconds pass.
BackoffEnds(i) ==
    /\ outbox[i].status = "pending" /\ ~outbox[i].due
    /\ outbox' = [outbox EXCEPT ![i].due = TRUE]
    /\ UNCHANGED <<dlq, batch>>

Draining ==
    \/ \E d \in Drains : DrainSelects(d) \/ DrainCommits(d) \/ DrainFails(d)
    \/ \E i \in Ids : BackoffEnds(i)

\* An event is given up once: it has one dead letter, after MaxAttempts counted
\* failures or because it cannot be read, and none before, although processes
\* drain together, are killed half-way and find the same rows again.
OneDeadLetter ==
    \A i \in Ids :
        /\ dlq[i] = IF outbox[i].status = "failed" THEN <<outbox[i].retries>>
                    ELSE <<>>
        /\ outbox[i].retries = MaxAttempts => outbox[i].status = "failed"
        /\ outbox[i].status = "failed" =>
               outbox[i].retries = MaxAttempts \/ ~outbox[i].readable

\* An entry of the journal that a row stands for.
StateOf(row) ==
    IF row.status = "failed" THEN "dead" ELSE IF row.due THEN "due" ELSE "resting"

Journalled(i) ==
    [key |-> <<outbox[i].agg, outbox[i].type>>, by |-> outbox[i].by,
     state |-> StateOf(outbox[i]), tried |-> outbox[i].retries,
     letter |-> dlq[i]]

SeenJournal == [i \in Ids |-> Journalled(i)]

Journal == INSTANCE EventJournal WITH journal <- SeenJournal

\* Producers, drains that overlap and processes that die keep the promises of
\* EventJournal: no key is published twice, no event is tried without its
\* backoff, and what is dead has one letter and stays dead.
JournalSpec == Journal!Spec
=============================================================================
