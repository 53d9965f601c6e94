--------------------------- MODULE OutboxProducers ---------------------------
(***************************************************************************)
(* Who writes to the event outbox, beside the processes that drain it:     *)
(*                                                                         *)
(*  - the cancellations of master data (cancel_service.py): an order is    *)
(*    cancelled or, once built, retired; an employee is deactivated.  Each *)
(*    reads its row without a lock, flushes the row, and commits row,      *)
(*    audit entry and event together;                                      *)
(*  - the job that derives the status of orders from their phase           *)
(*    (order_status_reconciler.py), which may overwrite a cancellation     *)
(*    committed since it read the orders;                                  *)
(*  - the proposals of the governance ledger (decision_proposer.py), which *)
(*    chain each decision to the last one under an advisory lock.          *)
(***************************************************************************)
EXTENDS EventOutbox, FiniteSets

CONSTANTS
    Orders,         \* production orders
    Employees,
    Users,
    Requests,       \* cancellations that can be in flight together
    Proposers,      \* transactions that propose decisions
    MaxDecisions,   \* bound on the decisions of one behaviour
    Nobody

ASSUME ProducersAssumption ==
    /\ Orders \cap Employees = {} /\ Orders \cup Employees # {} /\ Users # {}
    /\ Nobody \notin Users \cup Proposers
    /\ MaxDecisions \in Nat
    /\ Orders \cup Employees \cup (1 .. MaxDecisions) \subseteq Aggregates
    /\ {"production_order.cancelled", "product.retired", "employee.deactivated",
        "DECISION_PROPOSED", "plan.schedule.committed"} \subseteq EventTypes
    /\ Users \cup Proposers \cup {Nobody} \subseteq Actors

Subjects == Orders \cup Employees

\* open: not CANCELLED, or active; by: cancelled_by or deactivated_by.
Subject == [open : BOOLEAN, by : Users \cup {Nobody}]

Verbs == {"cancel", "retire", "deactivate"}

Request ==
    [pc : {"idle", "read", "flushed"},
     verb : Verbs, of : Subjects, by : Users]

\* prev: the position of the decision whose hash became prev_hash, 0 if none.
DecisionRun == [prev : 0 .. MaxDecisions, by : Proposers]

Proposal ==
    [pc   : {"idle", "waiting", "locked", "read"},
     kind : {"decision", "kill_switch"},
     head : 0 .. MaxDecisions]

VARIABLES
    subject,    \* [Subjects -> Subject]: the committed rows
    audit,      \* committed audit entries of cancellations
    req,        \* [Requests -> Request]
    stale,      \* orders the reconciliation read and is going to write
    decisions,  \* rows of governance.decision_run, by proposed_at
    chainLock,  \* holder of the tenant's advisory lock
    prop        \* [Proposers -> Proposal]

cancelVars == <<subject, audit, req, stale>>
ledgerVars == <<decisions, chainLock, prop>>
vars == <<outboxVars, cancelVars, ledgerVars>>

\* Everything is of its type.
TypeOK ==
    /\ OutboxTypeOK
    /\ subject \in [Subjects -> Subject]
    /\ audit \in Seq([of : Subjects, verb : Verbs, by : Users])
    /\ req \in [Requests -> Request]
    /\ stale \subseteq Orders
    /\ decisions \in Seq(DecisionRun) /\ Len(decisions) <= MaxDecisions
    /\ chainLock \in Proposers \cup {Nobody}
    /\ prop \in [Proposers -> Proposal]

-----------------------------------------------------------------------------
IdleRequest ==
    [pc |-> "idle", verb |-> "cancel", of |-> CHOOSE s \in Subjects : TRUE,
     by |-> CHOOSE u \in Users : TRUE]

IdleProposal == [pc |-> "idle", kind |-> "decision", head |-> 0]

\* A row of an earlier release, of a type that has a schema it does not fit.
OldEvent(agg) ==
    [NewEvent(agg, "plan.schedule.committed", Nobody) EXCEPT !.readable = FALSE]

Init ==
    /\ \E agg \in Aggregates \ (Subjects \cup (1 .. MaxDecisions)) :
         OutboxInit(<<OldEvent(agg)>>)
    /\ subject = [s \in Subjects |-> [open |-> TRUE, by |-> Nobody]]
    /\ audit = <<>>
    /\ req = [r \in Requests |-> IdleRequest]
    /\ stale = {}
    /\ decisions = <<>>
    /\ chainLock = Nobody
    /\ prop = [p \in Proposers |-> IdleProposal]

-----------------------------------------------------------------------------
(* Cancellations.                                                           *)

\* Mutant: an event type that nobody knows.
Misnamed(verb) ==
    CASE verb = "cancel" -> "order.cancelled"
      [] verb = "retire" -> "product.retired"
      [] OTHER           -> "employee.deactivated"

EventOf(verb) ==
    CASE verb = "cancel" -> "production_order.cancelled"
      [] verb = "retire" -> "product.retired"
      [] OTHER           -> "employee.deactivated"

\* cancel looks at the status, retire at cancelled_at, deactivate at active.
Cancellable(verb, s) ==
    CASE verb = "cancel" -> s \in Orders /\ subject[s].open
      [] verb = "retire" -> s \in Orders /\ subject[s].by = Nobody
      [] OTHER           -> s \in Employees /\ subject[s].open

\* What is refused (404, 409) changes nothing and is left out.
CancelReads(r, verb, s, u) ==
    /\ req[r].pc = "idle" /\ Cancellable(verb, s)
    /\ req' = [req EXCEPT ![r] = [pc |-> "read", verb |-> verb, of |-> s,
                                  by |-> u]]
    /\ UNCHANGED <<subject, audit, stale, ledgerVars, outboxVars>>

RowLocked(s) == \E q \in Requests : req[q].pc = "flushed" /\ req[q].of = s

\* session.flush(): the UPDATE by id waits for the row, whatever its status is
\* by then, and keeps it locked.
CancelFlushes(r) ==
    /\ req[r].pc = "read" /\ ~RowLocked(req[r].of)
    /\ req' = [req EXCEPT ![r].pc = "flushed"]
    /\ UNCHANGED <<subject, audit, stale, ledgerVars, outboxVars>>

\* Mutant: the same event twice.
NeverRefused(r) == FALSE

\* The event is inserted by the commit: a second one of its type about the
\* same subject is an IntegrityError there, and all is rolled back.
Refused(r) == KeyTaken(req[r].of, EventOf(req[r].verb))

\* Row, audit entry and event in one transaction.
CancelCommits(r) ==
    LET q == req[r]
    IN  /\ q.pc = "flushed" /\ ~Refused(r)
        /\ subject' = [subject EXCEPT ![q.of] = [open |-> FALSE, by |-> q.by]]
        /\ audit' = Append(audit, [of |-> q.of, verb |-> q.verb, by |-> q.by])
        /\ Emits(NewEvent(q.of, EventOf(q.verb), q.by))
        /\ req' = [req EXCEPT ![r] = IdleRequest]
        /\ UNCHANGED <<stale, ledgerVars>>

\* The insert is refused, or the request fails: nothing of it stays.
CancelFails(r) ==
    /\ req[r].pc \in {"read", "flushed"}
    /\ req' = [req EXCEPT ![r] = IdleRequest]
    /\ UNCHANGED <<subject, audit, stale, ledgerVars, outboxVars>>

\* reconcile_order_statuses: orders that are not CANCELLED and whose phase
\* says another status; which ones depends on data left out here.
ReconcileReads(S) ==
    /\ stale = {} /\ S # {}
    /\ \A s \in S : subject[s].open
    /\ stale' = S
    /\ UNCHANGED <<subject, audit, req, ledgerVars, outboxVars>>

\* The status alone is written, by id.
ReconcileWrites ==
    /\ stale # {} /\ \A s \in stale : ~RowLocked(s)
    /\ subject' = [s \in Subjects |->
                     IF s \in stale THEN [subject[s] EXCEPT !.open = TRUE]
                     ELSE subject[s]]
    /\ stale' = {}
    /\ UNCHANGED <<audit, req, ledgerVars, outboxVars>>

-----------------------------------------------------------------------------
(* Proposals.                                                               *)

\* The kill switch is looked up first; as no activation of it is ever stored
\* (see ProposeCommits), it never stops a proposal.
ProposeBegins(p, kind) ==
    /\ prop[p].pc = "idle"
    /\ prop' = [prop EXCEPT ![p] = [IdleProposal EXCEPT !.pc = "waiting",
                                                        !.kind = kind]]
    /\ UNCHANGED <<decisions, chainLock, cancelVars, outboxVars>>

\* Mutant: the proposal goes on without the lock.
LockNotTaken(p) == chainLock' = chainLock

\* pg_advisory_xact_lock: held until the transaction is over.
LockTaken(p) == chainLock = Nobody /\ chainLock' = p

ProposeLocks(p) ==
    /\ prop[p].pc = "waiting"
    /\ LockTaken(p)
    /\ prop' = [prop EXCEPT ![p].pc = "locked"]
    /\ UNCHANGED <<decisions, cancelVars, outboxVars>>

\* _get_last_decision_hash
ProposeReadsHead(p) ==
    /\ prop[p].pc = "locked"
    /\ prop' = [prop EXCEPT ![p].pc = "read", ![p].head = Len(decisions)]
    /\ UNCHANGED <<decisions, chainLock, cancelVars, outboxVars>>

Unlock(p) == chainLock' = IF chainLock = p THEN Nobody ELSE chainLock

Leaves(p) == prop' = [prop EXCEPT ![p] = IdleProposal]

\* The decision is flushed; the event added after the flush is what makes
\* get_session commit both.
ProposeCommits(p) ==
    /\ prop[p].pc = "read" /\ prop[p].kind = "decision"
    /\ Len(decisions) < MaxDecisions
    /\ decisions' = Append(decisions, [prev |-> prop[p].head, by |-> p])
    /\ Emits(NewEvent(Len(decisions) + 1, "DECISION_PROPOSED", p))
    /\ Unlock(p) /\ Leaves(p)
    /\ UNCHANGED cancelVars

\* activate_kill_switch ends with a flush, which leaves get_session nothing to
\* commit; a proposal may also fail, for want of the lock or later.
ProposeEnds(p) ==
    /\ prop[p].pc \in {"waiting", "locked", "read"}
    /\ Unlock(p) /\ Leaves(p)
    /\ UNCHANGED <<decisions, cancelVars, outboxVars>>

-----------------------------------------------------------------------------
Cancellations ==
    \/ \E r \in Requests, v \in Verbs, s \in Subjects, u \in Users :
         CancelReads(r, v, s, u)
    \/ \E r \in Requests : CancelFlushes(r) \/ CancelCommits(r) \/ CancelFails(r)
    \/ \E S \in SUBSET Orders : ReconcileReads(S)
    \/ ReconcileWrites

Proposals ==
    \E p \in Proposers :
        \/ \E kind \in {"decision", "kill_switch"} : ProposeBegins(p, kind)
        \/ ProposeLocks(p) \/ ProposeReadsHead(p)
        \/ ProposeCommits(p) \/ ProposeEnds(p)

Next ==
    \/ Cancellations
    \/ Proposals
    \/ Draining /\ UNCHANGED <<cancelVars, ledgerVars>>

Spec == Init /\ [][Next]_vars

-----------------------------------------------------------------------------
(* Properties.                                                              *)

\* A cancellation is on record once: it has one audit entry and one event,
\* both of the same person, however often a reconciliation reopens the order
\* and whoever else is cancelling it; and the row names a person who did it.
CancelledOnce ==
    /\ \A i, j \in DOMAIN audit :
         audit[i].of = audit[j].of /\ audit[i].verb = audit[j].verb => i = j
    /\ \A i \in DOMAIN audit : \E e \in Ids :
         /\ outbox[e].agg = audit[i].of /\ outbox[e].by = audit[i].by
         /\ outbox[e].type = EventOf(audit[i].verb)
    /\ \A s \in Subjects : subject[s].by # Nobody =>
         \E i \in DOMAIN audit : audit[i].of = s /\ audit[i].by = subject[s].by

\* C5 of the governance service: every decision links to the prior one, so
\* the ledger is a chain and never a tree, with any number of transactions
\* proposing, failing, or arming a kill switch at the same time.
ChainNeverForks ==
    \A i \in DOMAIN decisions : decisions[i].prev = i - 1
=============================================================================
