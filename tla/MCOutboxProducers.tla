-------------------------- MODULE MCOutboxProducers --------------------------
(* Instances of OutboxProducers for TLC: the constants are in the .cfg files. *)
EXTENDS OutboxProducers, TLC

CONSTANT OldPlan    \* what the row of an earlier release is about

Symmetric == Permutations(Requests) \cup Permutations(Drains)
             \cup Permutations(Users) \cup Permutations(Proposers)

\* The old row and two more: enough for two cancellations, or two decisions, or
\* one of each, to be drained together.
FewEvents == Len(outbox) <= 3

\* At most two of the requests, proposals and drains are under way together, beside
\* the reconciliation: enough for every race the properties are about.
FewAtOnce ==
    Cardinality({r \in Requests : req[r].pc # "idle"})
  + Cardinality({p \in Proposers : prop[p].pc # "idle"})
  + Cardinality({d \in Drains : batch[d] # {}}) <= 2

MCAggregates == Orders \cup Employees \cup (1 .. MaxDecisions) \cup {OldPlan}

MCEventTypes == {"production_order.cancelled", "product.retired",
                 "employee.deactivated", "DECISION_PROPOSED",
                 "plan.schedule.committed"}

MCActors == Users \cup Proposers \cup {Nobody}
=============================================================================
