-------------------------- MODULE MCSharedDecisions --------------------------
(* Instances of SharedDecisions for TLC: the constants are in the .cfg files. *)
EXTENDS SharedDecisions, TLC

Symmetric == Permutations(Requests) \cup Permutations(Schedulers)

\* What happens beside the ticks: requests, faults, rows of the listener, trucks
\* that leave, rows that age, plans approved elsewhere.
Disturbances ==
    calls + faults + Cardinality(EventRows)
          + Cardinality({t \in Trucks : truck[t] = "left"})
          + Cardinality({d \in Rows : ~dec[d].fresh})
          + Cardinality({p \in Plans : plan[p] = "LIVE" /\ adopted = {}})

\* Ticks and requests under way.
Parties == Cardinality({s \in Schedulers : robot[s].pc # "idle"})
           + Cardinality({r \in Requests : req[r].pc # "idle"})

OneRobot ==
    \E s \in Schedulers : \A t \in Schedulers \ {s} :
        robot[t] = IdleTick /\ \A d \in Rows : dec[d].by # t

\* Two bulk requests about two rows, one of them of the listener, beside idle
\* robots.
BulksMeet ==
    /\ calls = 2 /\ Cardinality(EventRows) = 1 /\ Disturbances = 3
    /\ Cardinality({p \in Plans : Exists(p)}) = 1
    /\ \A s \in Schedulers : robot[s].pc = "idle" /\ limiter[s] = {}
    /\ \A r \in Requests : req[r].pc # "idle" => req[r].bulk

\* Two parties at once, and two disturbances in a behaviour: one, not of the
\* listener, where two processes are at work; three where BulksMeet.
FewDisturbances ==
    /\ Parties <= 2
    /\ Disturbances <= 2 \/ BulksMeet
    /\ Disturbances >= 2 \/ EventRows # {} => OneRobot

=============================================================================
