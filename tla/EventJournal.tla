---------------------------- MODULE EventJournal ----------------------------
(***************************************************************************)
(* What the event outbox promises to who reads it: a journal that only     *)
(* grows, with one entry of a key ever, and for each entry a life of its   *)
(* own: it is tried, rests, is tried again, and after MaxAttempts failures *)
(* is dead, with one letter that names the tries.  No entry is tried       *)
(* without its rest, and none comes back from the dead.                    *)
(***************************************************************************)
EXTENDS Naturals, Sequences

CONSTANT MaxAttempts

VARIABLE journal    \* entries [key, by, state, tried, letter]

Entry(key, by) ==
    [key |-> key, by |-> by, state |-> "due", tried |-> 0, letter |-> <<>>]

NewKey(key) == \A i \in DOMAIN journal : journal[i].key # key

Init ==
    /\ \A i \in DOMAIN journal :
         journal[i] = Entry(journal[i].key, journal[i].by)
    /\ \A i, j \in DOMAIN journal : journal[i].key = journal[j].key => i = j

\* An entry is added by the transaction of what it is about.
Publish ==
    /\ Len(journal') = Len(journal) + 1
    /\ LET e == journal'[Len(journal')]
       IN  /\ NewKey(e.key)
           /\ journal' = Append(journal, Entry(e.key, e.by))

\* It fails for good, or once more.
Dies(e, n) == [key |-> e.key, by |-> e.by, state |-> "dead", tried |-> n,
               letter |-> <<n>>]
Rests(e)   == [e EXCEPT !.state = "resting", !.tried = @ + 1]

Tried(e) ==
    {Dies(e, e.tried)} \cup
    {IF e.tried + 1 = MaxAttempts THEN Dies(e, MaxAttempts) ELSE Rests(e)}

\* Some of the entries that are due are tried, in one commit.
Try ==
    /\ Len(journal') = Len(journal)
    /\ \A i \in DOMAIN journal :
         \/ journal'[i] = journal[i]
         \/ journal[i].state = "due" /\ journal'[i] \in Tried(journal[i])

\* An entry has rested.
Wakes(i) ==
    /\ journal[i].state = "resting"
    /\ journal' = [journal EXCEPT ![i].state = "due"]

Next ==
    \/ Publish
    \/ Try
    \/ \E i \in DOMAIN journal : Wakes(i)

Spec == Init /\ [][Next]_journal

=============================================================================
