-------------------------- MODULE SandboxScenarios --------------------------
(***************************************************************************)
(* What-if scenarios (src/sandbox/service.py): a suggestion is applied to  *)
(* a scenario, its impact is simulated, and a simulated scenario is        *)
(* published as a decision.                                                *)
(*                                                                         *)
(* A simulation is two transactions: a compare-and-swap on version that    *)
(* takes the scenario, and another that stores the result.  Publishing and *)
(* applying a suggestion read the row and write it back by id, without     *)
(* looking at version and without moving it.  A caller may die at any      *)
(* point.                                                                  *)
(***************************************************************************)
EXTENDS Naturals, FiniteSets

CONSTANTS
    Scenarios,
    Callers,            \* requests in flight
    Suggestions,        \* what after_state can hold
    Nothing,
    MaxSimulations,     \* bound: simulations that begin, per scenario
    MaxDecisions        \* bound: decisions

ASSUME SandboxAssumption ==
    /\ Scenarios # {}
    /\ Nothing \notin Suggestions \cup {"empty"}
    /\ MaxSimulations \in Nat /\ MaxDecisions \in Nat

\* impact: the after_state it was computed from ("empty": there was none).
Impacts == Suggestions \cup {"empty", Nothing}

Row == [status  : {"draft", "simulating", "simulated", "published"},
        version : Nat,
        after   : Suggestions \cup {Nothing},
        impact  : Impacts]

Decision == [id : 1 .. MaxDecisions, of : Scenarios, impact : Impacts]

\* What a caller has read of the scenario it works on.
Caller == [pc      : {"idle", "checked", "begun", "refreshed", "publishing",
                      "published"},
           of      : Scenarios,
           version : Nat,
           after   : Suggestions \cup {Nothing},
           impact  : Impacts,
           id      : 0 .. MaxDecisions]

VARIABLES
    row,        \* [Scenarios -> Row]: sandbox_scenarios, as committed
    caller,     \* [Callers -> Caller]
    decisions,  \* committed decisions of type sandbox_publish
    told        \* ids of decisions handed to the bus

vars == <<row, caller, decisions, told>>

\* Everything is of its type.
TypeOK ==
    /\ row \in [Scenarios -> Row]
    /\ caller \in [Callers -> Caller]
    /\ decisions \subseteq Decision
    /\ told \subseteq 1 .. MaxDecisions

Idle == [pc |-> "idle", of |-> CHOOSE s \in Scenarios : TRUE, version |-> 0,
         after |-> Nothing, impact |-> Nothing, id |-> 0]

\* A scenario as create_scenario makes it.
Init ==
    /\ row = [s \in Scenarios |-> [status |-> "draft", version |-> 0,
                                   after |-> Nothing, impact |-> Nothing]]
    /\ caller = [c \in Callers |-> Idle]
    /\ decisions = {}
    /\ told = {}

-----------------------------------------------------------------------------
At(c, pc) == caller[c].pc = pc

RowOf(c) == row[caller[c].of]

Becomes(c, state) == caller' = [caller EXCEPT ![c] = state]

\* What a caller knows that has just read s.
Reader(pc, s, id) ==
    [pc |-> pc, of |-> s, version |-> row[s].version, after |-> Nothing,
     impact |-> row[s].impact, id |-> id]

WritesRow(c, r) == row' = [row EXCEPT ![caller[c].of] = r]

\* apply_suggestion: whatever the status, and the row is read for its id only.
Applies(s, suggestion) ==
    /\ row' = [row EXCEPT ![s] = [row[s] EXCEPT !.after = suggestion]]
    /\ UNCHANGED <<caller, decisions, told>>

\* simulate: the check.
Checks(c, s) ==
    /\ At(c, "idle")
    /\ row[s].status \in {"draft", "simulated"}
    /\ Becomes(c, Reader("checked", s, 0))
    /\ UNCHANGED <<row, decisions, told>>

\* Mutants: the status is flipped whoever was first; the version stays; a
\* status nobody knows.
Regardless(c) == TRUE
NotMoved(r)   == [r EXCEPT !.status = "simulating"]
Misspelt(r)   == [r EXCEPT !.status = "simulation", !.version = @ + 1]

\* The WHERE of the first UPDATE, and what it sets.
VersionIsAsRead(c) == RowOf(c).version = caller[c].version
Taken(r) == [r EXCEPT !.status = "simulating", !.version = @ + 1]

Begins(c) ==
    /\ At(c, "checked") /\ VersionIsAsRead(c)
    /\ RowOf(c).version < 2 * MaxSimulations
    /\ WritesRow(c, Taken(RowOf(c)))
    /\ Becomes(c, [caller[c] EXCEPT !.pc = "begun"])
    /\ UNCHANGED <<decisions, told>>

\* rowcount = 0: rollback, SandboxConcurrencyError.
IsLate(c) ==
    /\ At(c, "checked") /\ ~VersionIsAsRead(c)
    /\ Becomes(c, Idle)
    /\ UNCHANGED <<row, decisions, told>>

\* session.refresh after the commit: the after_state by then.
Refreshes(c) ==
    /\ At(c, "begun")
    /\ Becomes(c, [caller[c] EXCEPT !.pc = "refreshed", !.after = RowOf(c).after])
    /\ UNCHANGED <<row, decisions, told>>

ImpactOf(after) == IF after = Nothing THEN "empty" ELSE after

\* The second UPDATE: WHERE version is the one this simulation has set.
Finishes(c) ==
    /\ At(c, "refreshed")
    /\ RowOf(c).version = caller[c].version + 1
    /\ WritesRow(c, [RowOf(c) EXCEPT !.impact = ImpactOf(caller[c].after),
                                     !.status = "simulated",
                                     !.version = @ + 1])
    /\ Becomes(c, Idle)
    /\ UNCHANGED <<decisions, told>>

-----------------------------------------------------------------------------
\* uuid4
Fresh(id) ==
    /\ \A d \in decisions : d.id # id
    /\ \A c \in Callers : caller[c].id # id

\* Mutant: the event goes out with the proposal.
ToldAtOnce(id) == told' = told \cup {id}

\* propose_decision_with_deferred_kafka hands the event back.
Deferred(id) == told' = told

\* publish: the check, and the decision, not committed yet.
Publishes(c, s, id) ==
    /\ At(c, "idle")
    /\ row[s].status = "simulated"
    /\ Fresh(id)
    /\ Becomes(c, Reader("publishing", s, id))
    /\ Deferred(id)
    /\ UNCHANGED <<row, decisions>>

\* Decision and status in one commit; the UPDATE is by id.
PublishCommits(c) ==
    /\ At(c, "publishing")
    /\ WritesRow(c, [RowOf(c) EXCEPT !.status = "published"])
    /\ decisions' = decisions \cup {[id |-> caller[c].id, of |-> caller[c].of,
                                     impact |-> caller[c].impact]}
    /\ Becomes(c, [caller[c] EXCEPT !.pc = "published"])
    /\ UNCHANGED told

Announces(c) ==
    /\ At(c, "published")
    /\ told' = told \cup {caller[c].id}
    /\ Becomes(c, Idle)
    /\ UNCHANGED <<row, decisions>>

\* An error or a crash between two commits: what is not committed is gone.
Dies(c) ==
    /\ ~At(c, "idle")
    /\ Becomes(c, Idle)
    /\ UNCHANGED <<row, decisions, told>>

Next ==
    \/ \E s \in Scenarios, suggestion \in Suggestions : Applies(s, suggestion)
    \/ \E c \in Callers :
         \/ \E s \in Scenarios :
              \/ Checks(c, s)
              \/ \E id \in 1 .. MaxDecisions : Publishes(c, s, id)
         \/ Begins(c) \/ IsLate(c) \/ Refreshes(c) \/ Finishes(c)
         \/ PublishCommits(c) \/ Announces(c) \/ Dies(c)

Spec == Init /\ [][Next]_vars

-----------------------------------------------------------------------------
(* Properties.                                                              *)

Simulating(c) == caller[c].pc \in {"begun", "refreshed"}

\* Two simulate calls never both flip a scenario: between its two commits a
\* simulation is alone, also when the scenario is published under it, or is
\* published between the check and the first commit.
OneSimulation ==
    \A c, d \in Callers :
        Simulating(c) /\ Simulating(d) /\ caller[c].of = caller[d].of => c = d

\* No result is lost: what a simulation is about to overwrite is the result
\* it saw when it was let in, and its second compare-and-swap cannot fail.
NoResultLost ==
    \A c \in Callers : Simulating(c) =>
        /\ RowOf(c).impact = caller[c].impact
        /\ RowOf(c).version = caller[c].version + 1

\* The bus hears only of decisions that survived their transaction, and a
\* decision is about an impact that a simulation had stored.
ToldIsCommitted ==
    /\ \A id \in told : \E d \in decisions : d.id = id
    /\ \A d \in decisions : d.impact # Nothing
=============================================================================
