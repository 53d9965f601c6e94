---------------------------- MODULE CommitGraph ----------------------------
(***************************************************************************)
(* What the ledger of schedule commits promises to its readers (the        *)
(* docstring of ScheduleCommit: an immutable, chained snapshot): a forest  *)
(* that only grows, each node linked to an older one, and a mark LIVE that *)
(* is put on a node and never taken back.                                  *)
(***************************************************************************)
EXTENDS Naturals

CONSTANTS Nodes,    \* a set of positive numbers, ordered by age
          Data,     \* what a node holds
          NoData

VARIABLES nodes, parent, data, live

Init ==
    /\ nodes = {}
    /\ parent = [i \in Nodes |-> 0]
    /\ data = [i \in Nodes |-> NoData]
    /\ live = {}

\* A commit appears as a child of one that is there, or as a root.
Append(i, p, d) ==
    /\ i \in Nodes \ nodes
    /\ p = 0 \/ (p \in nodes /\ p < i)
    /\ nodes' = nodes \cup {i}
    /\ parent' = [parent EXCEPT ![i] = p]
    /\ data' = [data EXCEPT ![i] = d]
    /\ UNCHANGED live

\* A person approves it.
Promote(i) ==
    /\ i \in nodes \ live
    /\ live' = live \cup {i}
    /\ UNCHANGED <<nodes, parent, data>>

Next ==
    \/ \E i \in Nodes, p \in nodes \cup {0}, d \in Data : Append(i, p, d)
    \/ \E i \in Nodes : Promote(i)

Spec == Init /\ [][Next]_<<nodes, parent, data, live>>

=============================================================================
