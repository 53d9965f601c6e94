---------------------------- MODULE ProposalDesk ----------------------------
(***************************************************************************)
(* What the decisions promise to the people who take them: a desk where    *)
(* several clerks put subjects forward, each a subject once, and each at   *)
(* most one at a time of the subjects that exclude each other; where an    *)
(* answer can be changed, but never taken back to the question; and where  *)
(* nothing is carried out that nobody agreed to.                           *)
(***************************************************************************)
EXTENDS Naturals, Sequences

CONSTANTS
    Exclusive,  \* subjects of which a clerk has at most one open
    Forgetful   \* clerks that may put a subject forward again

VARIABLE desk       \* proposals [about, by, state, agreed]

\* agreed: somebody said yes to it once.
Proposal(t, w) == [about |-> t, by |-> w, state |-> "open", agreed |-> FALSE]

NeverAsked(t, w) ==
    \A i \in DOMAIN desk : desk[i].by = w => desk[i].about # t

ExclusiveOpen(w) ==
    \E i \in DOMAIN desk :
        desk[i].by = w /\ desk[i].state = "open" /\ desk[i].about \in Exclusive

Init == desk = <<>>

Ask ==
    /\ Len(desk') = Len(desk) + 1
    /\ LET t == desk'[Len(desk')].about
           w == desk'[Len(desk')].by
       IN  /\ w \in Forgetful \/ NeverAsked(t, w)
           /\ t \in Exclusive => ~ExclusiveOpen(w)
           /\ desk' = Append(desk, Proposal(t, w))

Answered(e, says) ==
    [about |-> e.about, by |-> e.by, state |-> says,
     agreed |-> e.agreed \/ says = "yes"]

\* Some proposals get the same answer, in one commit, whatever they had before.
Answer(says) ==
    /\ Len(desk') = Len(desk)
    /\ \A i \in DOMAIN desk :
         desk'[i] = desk[i] \/ desk'[i] = Answered(desk[i], says)

\* A proposal is carried out, or what was carried out is undone.
Handled(e) == {[e EXCEPT !.state = s] : s \in {"done", "undone"}}

CarryOut ==
    /\ Len(desk') = Len(desk)
    /\ \A i \in DOMAIN desk :
         \/ desk'[i] = desk[i]
         \/ /\ desk[i].agreed /\ desk[i].state # "open"
            /\ desk'[i] \in Handled(desk[i])

Next ==
    \/ CarryOut
    \/ Answer("yes") \/ Answer("no")
    \/ Ask

Spec == Init /\ [][Next]_desk

=============================================================================
