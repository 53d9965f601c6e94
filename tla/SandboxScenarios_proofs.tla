----------------------- MODULE SandboxScenarios_proofs -----------------------
(***************************************************************************)
(* The properties of SandboxScenarios for any number of scenarios,         *)
(* callers and suggestions.                                                *)
(***************************************************************************)
EXTENDS SandboxScenarios, TLAPS

\* A version that was read is not ahead of its row.
Older ==
    \A c \in Callers :
        At(c, "checked") => caller[c].version <= RowOf(c).version

\* If the version has not moved since it was read, neither has the result.
Seen ==
    \A c \in Callers :
        At(c, "checked") /\ VersionIsAsRead(c) => RowOf(c).impact = caller[c].impact

\* While a simulation is under way nobody else can begin one.
Barred ==
    \A c, d \in Callers :
        /\ At(c, "checked") /\ Simulating(d) /\ caller[c].of = caller[d].of
        => ~VersionIsAsRead(c)

\* A scenario under simulation does not look free.
Held ==
    \A c \in Callers : Simulating(c) => RowOf(c).status \in {"simulating", "published"}

\* What is published rests on a result, and is announced when it is stored.
Backed ==
    /\ \A s \in Scenarios : row[s].status = "simulated" => row[s].impact # Nothing
    /\ \A c \in Callers : At(c, "publishing") => caller[c].impact # Nothing
    /\ \A c \in Callers :
         At(c, "published") => \E d \in decisions : d.id = caller[c].id

Named ==
    \A c \in Callers : caller[c].pc \in {"publishing", "published"} =>
        caller[c].id \in 1 .. MaxDecisions

SimInv == OneSimulation /\ NoResultLost /\ Older /\ Seen /\ Barred /\ Held

-----------------------------------------------------------------------------
(* What the steps are made of.                                              *)

LEMMA IdleType == Idle \in Caller /\ Idle.pc = "idle"
<1>1. (CHOOSE s \in Scenarios : TRUE) \in Scenarios
  BY SandboxAssumption
<1> QED BY <1>1, SandboxAssumption DEF Idle, Caller, Impacts

LEMMA BecomesOne ==
  ASSUME NEW c \in Callers, NEW state \in Caller,
         caller \in [Callers -> Caller],
         caller' = [caller EXCEPT ![c] = state]
  PROVE  /\ caller' \in [Callers -> Caller]
         /\ caller'[c] = state
         /\ \A d \in Callers : d # c => caller'[d] = caller[d]
OBVIOUS

LEMMA WritesOne ==
  ASSUME NEW s \in Scenarios, NEW r \in Row, row \in [Scenarios -> Row],
         row' = [row EXCEPT ![s] = r]
  PROVE  /\ row' \in [Scenarios -> Row]
         /\ row'[s] = r
         /\ \A t \in Scenarios : t # s => row'[t] = row[t]
OBVIOUS

\* The states that callers enter.
LEMMA ReaderType ==
  ASSUME TypeOK, NEW s \in Scenarios, NEW id \in 0 .. MaxDecisions,
         NEW pc \in {"checked", "publishing"}
  PROVE  Reader(pc, s, id) \in Caller
BY SandboxAssumption DEF TypeOK, Row, Caller, Reader

LEMMA NextPcType ==
  ASSUME TypeOK, NEW c \in Callers
  PROVE  /\ [caller[c] EXCEPT !.pc = "begun"] \in Caller
         /\ [caller[c] EXCEPT !.pc = "published"] \in Caller
         /\ [caller[c] EXCEPT !.pc = "refreshed", !.after = RowOf(c).after] \in Caller
BY DEF TypeOK, Row, Caller, RowOf

\* The rows that are written.
LEMMA RowTypes ==
  ASSUME TypeOK, NEW c \in Callers
  PROVE  /\ caller[c].of \in Scenarios /\ RowOf(c) \in Row
         /\ Taken(RowOf(c)) \in Row
         /\ [RowOf(c) EXCEPT !.status = "published"] \in Row
         /\ [RowOf(c) EXCEPT !.impact = ImpactOf(caller[c].after),
                             !.status = "simulated",
                             !.version = @ + 1] \in Row
<1>1. caller[c].of \in Scenarios /\ RowOf(c) \in Row
  BY DEF TypeOK, Caller, RowOf
<1>2. ImpactOf(caller[c].after) \in Impacts
  BY DEF TypeOK, Caller, ImpactOf, Impacts
<1>3. RowOf(c).version + 1 \in Nat
  BY <1>1 DEF Row
<1>4. Taken(RowOf(c)) \in Row
  BY <1>1, <1>3 DEF Row, Taken
<1>5. [RowOf(c) EXCEPT !.status = "published"] \in Row
  BY <1>1 DEF Row
<1>6. [RowOf(c) EXCEPT !.impact = ImpactOf(caller[c].after),
                       !.status = "simulated",
                       !.version = @ + 1] \in Row
  BY <1>1, <1>2, <1>3 DEF Row
<1> QED BY <1>1, <1>4, <1>5, <1>6

-----------------------------------------------------------------------------
(* What each step does to the callers and the rows, field by field.         *)

OthersStay(c) == \A d \in Callers : d # c => caller'[d] = caller[d]
OtherRowsStay(s) == \A t \in Scenarios : t # s => row'[t] = row[t]
CallersTyped == caller' \in [Callers -> Caller]
RowsTyped == row' \in [Scenarios -> Row]

LEMMA ChecksStep ==
  ASSUME TypeOK, NEW c \in Callers, NEW s \in Scenarios, Checks(c, s)
  PROVE  /\ CallersTyped /\ OthersStay(c) /\ row' = row
         /\ caller'[c].pc = "checked" /\ caller'[c].of = s
         /\ caller'[c].version = row[s].version
         /\ caller'[c].impact = row[s].impact
         /\ row[s].status \in {"draft", "simulated"}
<1>1. Reader("checked", s, 0) \in Caller
  BY ReaderType, SandboxAssumption
<1>2. caller' = [caller EXCEPT ![c] = Reader("checked", s, 0)]
  BY DEF Checks, Becomes
<1>3. CallersTyped /\ OthersStay(c) /\ caller'[c] = Reader("checked", s, 0)
  BY <1>1, <1>2, BecomesOne DEF TypeOK, CallersTyped, OthersStay
<1> QED BY <1>3 DEF Reader, Checks

LEMMA BeginsStep ==
  ASSUME TypeOK, NEW c \in Callers, Begins(c)
  PROVE  /\ CallersTyped /\ OthersStay(c) /\ RowsTyped
         /\ caller[c].of \in Scenarios /\ OtherRowsStay(caller[c].of)
         /\ caller[c].pc = "checked" /\ row[caller[c].of].version = caller[c].version
         /\ caller'[c].pc = "begun" /\ caller'[c].of = caller[c].of
         /\ caller'[c].version = caller[c].version
         /\ caller'[c].impact = caller[c].impact
         /\ row'[caller[c].of].version = row[caller[c].of].version + 1
         /\ row'[caller[c].of].status = "simulating"
         /\ row'[caller[c].of].impact = row[caller[c].of].impact
<1> DEFINE st == [caller[c] EXCEPT !.pc = "begun"]
           r  == Taken(RowOf(c))
<1>1. st \in Caller /\ r \in Row /\ caller[c].of \in Scenarios /\ RowOf(c) \in Row
  BY NextPcType, RowTypes
<1>2. caller' = [caller EXCEPT ![c] = st] /\ row' = [row EXCEPT ![caller[c].of] = r]
  BY DEF Begins, Becomes, WritesRow
<1>3. CallersTyped /\ OthersStay(c) /\ caller'[c] = st
  BY <1>1, <1>2, BecomesOne DEF TypeOK, CallersTyped, OthersStay
<1>4. RowsTyped /\ OtherRowsStay(caller[c].of) /\ row'[caller[c].of] = r
  BY <1>1, <1>2, WritesOne DEF TypeOK, RowsTyped, OtherRowsStay
<1>5. /\ st.pc = "begun" /\ st.of = caller[c].of /\ st.version = caller[c].version
      /\ st.impact = caller[c].impact
  BY DEF TypeOK, Caller
<1>6. /\ r.version = row[caller[c].of].version + 1 /\ r.status = "simulating"
      /\ r.impact = row[caller[c].of].impact
  BY <1>1 DEF Taken, RowOf, Row
<1>7. caller[c].pc = "checked" /\ row[caller[c].of].version = caller[c].version
  BY DEF Begins, At, VersionIsAsRead, RowOf
<1> QED BY <1>1, <1>3, <1>4, <1>5, <1>6, <1>7

LEMMA RefreshesStep ==
  ASSUME TypeOK, NEW c \in Callers, Refreshes(c)
  PROVE  /\ CallersTyped /\ OthersStay(c) /\ row' = row
         /\ caller[c].pc = "begun"
         /\ caller'[c].pc = "refreshed" /\ caller'[c].of = caller[c].of
         /\ caller'[c].version = caller[c].version
         /\ caller'[c].impact = caller[c].impact
<1> DEFINE st == [caller[c] EXCEPT !.pc = "refreshed", !.after = RowOf(c).after]
<1>1. st \in Caller
  BY NextPcType
<1>2. caller' = [caller EXCEPT ![c] = st]
  BY DEF Refreshes, Becomes
<1>3. CallersTyped /\ OthersStay(c) /\ caller'[c] = st
  BY <1>1, <1>2, BecomesOne DEF TypeOK, CallersTyped, OthersStay
<1>4. /\ st.pc = "refreshed" /\ st.of = caller[c].of /\ st.version = caller[c].version
      /\ st.impact = caller[c].impact
  BY DEF TypeOK, Caller
<1> QED BY <1>3, <1>4 DEF Refreshes, At

LEMMA FinishesStep ==
  ASSUME TypeOK, NEW c \in Callers, Finishes(c)
  PROVE  /\ CallersTyped /\ OthersStay(c) /\ RowsTyped
         /\ caller[c].of \in Scenarios /\ OtherRowsStay(caller[c].of)
         /\ caller[c].pc = "refreshed" /\ caller'[c].pc = "idle"
         /\ row'[caller[c].of].version = row[caller[c].of].version + 1
         /\ row'[caller[c].of].status = "simulated"
         /\ row'[caller[c].of].impact # Nothing
<1> DEFINE r == [RowOf(c) EXCEPT !.impact = ImpactOf(caller[c].after),
                                 !.status = "simulated",
                                 !.version = @ + 1]
<1>1. r \in Row /\ caller[c].of \in Scenarios /\ RowOf(c) \in Row
  BY RowTypes
<1>2. caller' = [caller EXCEPT ![c] = Idle] /\ row' = [row EXCEPT ![caller[c].of] = r]
  BY DEF Finishes, Becomes, WritesRow
<1>3. CallersTyped /\ OthersStay(c) /\ caller'[c] = Idle
  BY <1>2, IdleType, BecomesOne DEF TypeOK, CallersTyped, OthersStay
<1>4. RowsTyped /\ OtherRowsStay(caller[c].of) /\ row'[caller[c].of] = r
  BY <1>1, <1>2, WritesOne DEF TypeOK, RowsTyped, OtherRowsStay
<1>5. ImpactOf(caller[c].after) # Nothing
  BY SandboxAssumption DEF ImpactOf, TypeOK, Caller
<1>6. /\ r.version = row[caller[c].of].version + 1 /\ r.status = "simulated"
      /\ r.impact # Nothing
  BY <1>1, <1>5 DEF RowOf, Row
<1> QED BY <1>1, <1>3, <1>4, <1>6, IdleType DEF Finishes, At

LEMMA PublishesStep ==
  ASSUME TypeOK, NEW c \in Callers, NEW s \in Scenarios,
         NEW id \in 1 .. MaxDecisions, Publishes(c, s, id)
  PROVE  /\ CallersTyped /\ OthersStay(c) /\ row' = row
         /\ caller'[c].pc = "publishing" /\ caller'[c].id = id
         /\ caller'[c].impact = row[s].impact
         /\ row[s].status = "simulated"
<1>1. Reader("publishing", s, id) \in Caller
  BY ReaderType, SandboxAssumption
<1>2. caller' = [caller EXCEPT ![c] = Reader("publishing", s, id)]
  BY DEF Publishes, Becomes
<1>3. CallersTyped /\ OthersStay(c) /\ caller'[c] = Reader("publishing", s, id)
  BY <1>1, <1>2, BecomesOne DEF TypeOK, CallersTyped, OthersStay
<1> QED BY <1>3 DEF Reader, Publishes

LEMMA PublishCommitsStep ==
  ASSUME TypeOK, NEW c \in Callers, PublishCommits(c)
  PROVE  /\ CallersTyped /\ OthersStay(c) /\ RowsTyped
         /\ caller[c].of \in Scenarios /\ OtherRowsStay(caller[c].of)
         /\ caller[c].pc = "publishing" /\ caller'[c].pc = "published"
         /\ caller'[c].id = caller[c].id
         /\ row'[caller[c].of].version = row[caller[c].of].version
         /\ row'[caller[c].of].status = "published"
         /\ row'[caller[c].of].impact = row[caller[c].of].impact
<1> DEFINE st == [caller[c] EXCEPT !.pc = "published"]
           r  == [RowOf(c) EXCEPT !.status = "published"]
<1>1. st \in Caller /\ r \in Row /\ caller[c].of \in Scenarios /\ RowOf(c) \in Row
  BY NextPcType, RowTypes
<1>2. caller' = [caller EXCEPT ![c] = st] /\ row' = [row EXCEPT ![caller[c].of] = r]
  BY DEF PublishCommits, Becomes, WritesRow
<1>3. CallersTyped /\ OthersStay(c) /\ caller'[c] = st
  BY <1>1, <1>2, BecomesOne DEF TypeOK, CallersTyped, OthersStay
<1>4. RowsTyped /\ OtherRowsStay(caller[c].of) /\ row'[caller[c].of] = r
  BY <1>1, <1>2, WritesOne DEF TypeOK, RowsTyped, OtherRowsStay
<1>5. st.pc = "published" /\ st.id = caller[c].id
  BY DEF TypeOK, Caller
<1>6. /\ r.version = row[caller[c].of].version /\ r.status = "published"
      /\ r.impact = row[caller[c].of].impact
  BY <1>1 DEF RowOf, Row
<1> QED BY <1>1, <1>3, <1>4, <1>5, <1>6 DEF PublishCommits, At

\* A caller that stops, for whatever reason.
Stops(c) == IsLate(c) \/ Announces(c) \/ Dies(c)

LEMMA StopsStep ==
  ASSUME TypeOK, NEW c \in Callers, Stops(c)
  PROVE  CallersTyped /\ OthersStay(c) /\ row' = row /\ caller'[c].pc = "idle"
<1>1. caller' = [caller EXCEPT ![c] = Idle] /\ row' = row
  BY DEF Stops, IsLate, Announces, Dies, Becomes
<1> QED BY <1>1, IdleType, BecomesOne DEF TypeOK, CallersTyped, OthersStay

LEMMA AppliesStep ==
  ASSUME TypeOK, NEW s \in Scenarios, NEW g \in Suggestions, Applies(s, g)
  PROVE  /\ RowsTyped /\ caller' = caller
         /\ \A t \in Scenarios : /\ row'[t].status = row[t].status
                                 /\ row'[t].version = row[t].version
                                 /\ row'[t].impact = row[t].impact
<1> DEFINE r == [row[s] EXCEPT !.after = g]
<1>1. r \in Row /\ row[s] \in Row
  BY DEF TypeOK, Row
<1>2. row' = [row EXCEPT ![s] = r] /\ caller' = caller
  BY DEF Applies
<1>3. RowsTyped /\ OtherRowsStay(s) /\ row'[s] = r
  BY <1>1, <1>2, WritesOne DEF TypeOK, RowsTyped, OtherRowsStay
<1>4. /\ r.status = row[s].status /\ r.version = row[s].version
      /\ r.impact = row[s].impact
  BY <1>1 DEF Row
<1> QED BY <1>2, <1>3, <1>4 DEF OtherRowsStay

\* A step is one of these.
LEMMA Steps ==
  ASSUME [Next]_vars
  PROVE  \/ \E s \in Scenarios, g \in Suggestions : Applies(s, g)
         \/ \E c \in Callers, s \in Scenarios : Checks(c, s)
         \/ \E c \in Callers, s \in Scenarios, id \in 1 .. MaxDecisions :
              Publishes(c, s, id)
         \/ \E c \in Callers : \/ Begins(c) \/ Refreshes(c) \/ Finishes(c)
                               \/ PublishCommits(c) \/ Stops(c)
         \/ UNCHANGED vars
BY DEF Next, Stops

-----------------------------------------------------------------------------
(* Types.                                                                   *)

LEMMA TypeStep == TypeOK /\ Named /\ [Next]_vars => (TypeOK /\ Named)'
<1> SUFFICES ASSUME TypeOK, Named, [Next]_vars PROVE TypeOK' /\ Named'
  OBVIOUS
<1>1. ASSUME NEW s \in Scenarios, NEW g \in Suggestions, Applies(s, g)
      PROVE  TypeOK' /\ Named'
  BY <1>1, AppliesStep DEF RowsTyped, Applies, TypeOK, Named
<1>2. ASSUME NEW c \in Callers, NEW s \in Scenarios, Checks(c, s)
      PROVE  TypeOK' /\ Named'
  BY <1>2, ChecksStep DEF CallersTyped, OthersStay, Checks, TypeOK, Named
<1>3. ASSUME NEW c \in Callers, Begins(c) PROVE TypeOK' /\ Named'
  BY <1>3, BeginsStep DEF CallersTyped, RowsTyped, OthersStay, Begins, TypeOK, Named
<1>4. ASSUME NEW c \in Callers, Refreshes(c) PROVE TypeOK' /\ Named'
  BY <1>4, RefreshesStep DEF CallersTyped, OthersStay, Refreshes, TypeOK, Named
<1>5. ASSUME NEW c \in Callers, Finishes(c) PROVE TypeOK' /\ Named'
  BY <1>5, FinishesStep DEF CallersTyped, RowsTyped, OthersStay, Finishes, TypeOK, Named
<1>6. ASSUME NEW c \in Callers, NEW s \in Scenarios,
             NEW id \in 1 .. MaxDecisions, Publishes(c, s, id)
      PROVE  TypeOK' /\ Named'
  BY <1>6, PublishesStep DEF CallersTyped, OthersStay, Publishes, Deferred, TypeOK, Named
<1>7. ASSUME NEW c \in Callers, PublishCommits(c) PROVE TypeOK' /\ Named'
  <2>1. caller[c].id \in 1 .. MaxDecisions
    BY <1>7, PublishCommitsStep DEF Named
  <2>2. [id |-> caller[c].id, of |-> caller[c].of, impact |-> caller[c].impact]
          \in Decision
    BY <2>1 DEF Decision, TypeOK, Caller
  <2>3. decisions' \subseteq Decision /\ told' = told
    BY <1>7, <2>2 DEF PublishCommits, TypeOK
  <2> QED BY <1>7, <2>1, <2>3, PublishCommitsStep
          DEF CallersTyped, RowsTyped, OthersStay, TypeOK, Named
<1>8. ASSUME NEW c \in Callers, Stops(c) PROVE TypeOK' /\ Named'
  <2>1. told' \subseteq 1 .. MaxDecisions /\ decisions' = decisions
    BY <1>8 DEF Stops, IsLate, Announces, Dies, At, TypeOK, Named
  <2> QED BY <1>8, <2>1, StopsStep DEF CallersTyped, OthersStay, TypeOK, Named
<1>9. CASE UNCHANGED vars
  BY <1>9 DEF vars, TypeOK, Named
<1> QED BY <1>1, <1>2, <1>3, <1>4, <1>5, <1>6, <1>7, <1>8, <1>9, Steps

\* Every variable keeps its type; the second part is what makes it inductive:
\* a decision has an id when it is committed.
THEOREM TypeCorrect == Spec => [](TypeOK /\ Named)
<1>1. Init => TypeOK /\ Named
  BY IdleType, SandboxAssumption DEF Init, TypeOK, Named, Row, Impacts
<1> QED BY <1>1, TypeStep, PTL DEF Spec

-----------------------------------------------------------------------------
(* One simulation at a time.                                                *)

\* The six parts with the fields spelt out.
SimFields ==
    \A c \in Callers :
        /\ caller[c].pc \in {"begun", "refreshed"} =>
             /\ row[caller[c].of].impact = caller[c].impact
             /\ row[caller[c].of].version = caller[c].version + 1
             /\ row[caller[c].of].status \in {"simulating", "published"}
        /\ caller[c].pc = "checked" =>
             /\ caller[c].version <= row[caller[c].of].version
             /\ row[caller[c].of].version = caller[c].version =>
                  row[caller[c].of].impact = caller[c].impact
        /\ \A d \in Callers :
             /\ caller[d].pc \in {"begun", "refreshed"}
             /\ caller[c].of = caller[d].of
             => /\ caller[c].pc \in {"begun", "refreshed"} => c = d
                /\ caller[c].pc = "checked" =>
                     row[caller[c].of].version # caller[c].version

LEMMA SimIs == SimInv <=> SimFields
BY DEF SimInv, SimFields, OneSimulation, NoResultLost, Older, Seen, Barred, Held,
       Simulating, At, RowOf, VersionIsAsRead

LEMMA SimStep == TypeOK /\ SimFields /\ [Next]_vars => SimFields'
<1> SUFFICES ASSUME TypeOK, SimFields, [Next]_vars PROVE SimFields'
  OBVIOUS
<1>0. /\ \A c \in Callers : caller[c].of \in Scenarios /\ caller[c].version \in Nat
      /\ \A s \in Scenarios : row[s].version \in Nat
  BY DEF TypeOK, Caller, Row
<1>1. ASSUME NEW s \in Scenarios, NEW g \in Suggestions, Applies(s, g)
      PROVE  SimFields'
  BY <1>0, <1>1, AppliesStep DEF SimFields
<1>2. ASSUME NEW c \in Callers, NEW s \in Scenarios, Checks(c, s)
      PROVE  SimFields'
  BY <1>0, <1>2, ChecksStep DEF OthersStay, SimFields
<1>3. ASSUME NEW c \in Callers, Begins(c) PROVE SimFields'
  BY <1>0, <1>3, BeginsStep DEF OthersStay, OtherRowsStay, SimFields
<1>4. ASSUME NEW c \in Callers, Refreshes(c) PROVE SimFields'
  BY <1>0, <1>4, RefreshesStep DEF OthersStay, SimFields
<1>5. ASSUME NEW c \in Callers, Finishes(c) PROVE SimFields'
  BY <1>0, <1>5, FinishesStep DEF OthersStay, OtherRowsStay, SimFields
<1>6. ASSUME NEW c \in Callers, NEW s \in Scenarios,
             NEW id \in 1 .. MaxDecisions, Publishes(c, s, id)
      PROVE  SimFields'
  BY <1>0, <1>6, PublishesStep DEF OthersStay, SimFields
<1>7. ASSUME NEW c \in Callers, PublishCommits(c) PROVE SimFields'
  BY <1>0, <1>7, PublishCommitsStep DEF OthersStay, OtherRowsStay, SimFields
<1>8. ASSUME NEW c \in Callers, Stops(c) PROVE SimFields'
  BY <1>0, <1>8, StopsStep DEF OthersStay, SimFields
<1>9. CASE UNCHANGED vars
  BY <1>9 DEF vars, SimFields
<1> QED BY <1>1, <1>2, <1>3, <1>4, <1>5, <1>6, <1>7, <1>8, <1>9, Steps

LEMMA SimInvariant == Spec => []SimInv
<1>1. Init => SimFields
  BY IdleType DEF Init, SimFields
<1> QED BY <1>1, SimStep, SimIs, TypeCorrect, PTL DEF Spec

\* Two simulate calls never both flip a scenario, whoever publishes it or
\* dies meanwhile.
THEOREM SimulationsExclude == Spec => []OneSimulation
BY SimInvariant, PTL DEF SimInv

\* A simulation overwrites the result it saw, and its second compare-and-swap
\* finds the version it has set.
THEOREM ResultsKept == Spec => []NoResultLost
BY SimInvariant, PTL DEF SimInv

-----------------------------------------------------------------------------
(* Decisions and the bus.                                                   *)

LEMMA BackedStep ==
  TypeOK /\ Backed /\ ToldIsCommitted /\ [Next]_vars => (Backed /\ ToldIsCommitted)'
<1> SUFFICES ASSUME TypeOK, Backed, ToldIsCommitted, [Next]_vars
             PROVE  Backed' /\ ToldIsCommitted'
  OBVIOUS
<1>0. \A c \in Callers : caller[c].of \in Scenarios
  BY DEF TypeOK, Caller
<1>1. ASSUME NEW s \in Scenarios, NEW g \in Suggestions, Applies(s, g)
      PROVE  Backed' /\ ToldIsCommitted'
  BY <1>1, AppliesStep DEF Applies, At, Backed, ToldIsCommitted
<1>2. ASSUME NEW c \in Callers, NEW s \in Scenarios, Checks(c, s)
      PROVE  Backed' /\ ToldIsCommitted'
  BY <1>2, ChecksStep DEF OthersStay, Checks, At, Backed, ToldIsCommitted
<1>3. ASSUME NEW c \in Callers, Begins(c) PROVE Backed' /\ ToldIsCommitted'
  BY <1>3, BeginsStep DEF OthersStay, OtherRowsStay, Begins, At, Backed, ToldIsCommitted
<1>4. ASSUME NEW c \in Callers, Refreshes(c) PROVE Backed' /\ ToldIsCommitted'
  BY <1>4, RefreshesStep DEF OthersStay, Refreshes, At, Backed, ToldIsCommitted
<1>5. ASSUME NEW c \in Callers, Finishes(c) PROVE Backed' /\ ToldIsCommitted'
  <2>1. \A s \in Scenarios : row'[s].status = "simulated" => row'[s].impact # Nothing
    BY <1>0, <1>5, FinishesStep DEF OtherRowsStay, Backed
  <2>2. decisions' = decisions /\ told' = told
    BY <1>5 DEF Finishes
  <2>3. \A d \in Callers :
          /\ caller'[d].pc = "publishing" => caller'[d].impact # Nothing
          /\ caller'[d].pc = "published" => \E e \in decisions : e.id = caller'[d].id
    BY <1>5, FinishesStep DEF OthersStay, Backed, At
  <2> QED BY <2>1, <2>2, <2>3 DEF At, Backed, ToldIsCommitted
<1>6. ASSUME NEW c \in Callers, NEW s \in Scenarios,
             NEW id \in 1 .. MaxDecisions, Publishes(c, s, id)
      PROVE  Backed' /\ ToldIsCommitted'
  BY <1>6, PublishesStep DEF OthersStay, Publishes, Deferred, At, Backed, ToldIsCommitted
<1>7. ASSUME NEW c \in Callers, PublishCommits(c) PROVE Backed' /\ ToldIsCommitted'
  <2> DEFINE new == [id |-> caller[c].id, of |-> caller[c].of,
                     impact |-> caller[c].impact]
  <2>1. decisions' = decisions \cup {new} /\ told' = told
    BY <1>7 DEF PublishCommits
  <2>2. new.id = caller[c].id /\ new.impact = caller[c].impact
    OBVIOUS
  <2>3. caller[c].impact # Nothing
    BY <1>7, PublishCommitsStep DEF Backed, At
  <2> HIDE DEF new
  <2>4. ToldIsCommitted'
    BY <2>1, <2>2, <2>3 DEF ToldIsCommitted
  <2>5. \A d \in Callers : caller'[d].pc = "published" =>
            \E e \in decisions' : e.id = caller'[d].id
    BY <1>7, <2>1, <2>2, PublishCommitsStep DEF OthersStay, Backed, At
  <2>6. /\ \A s \in Scenarios : row'[s].status = "simulated" => row'[s].impact # Nothing
        /\ \A d \in Callers : caller'[d].pc = "publishing" => caller'[d].impact # Nothing
    BY <1>0, <1>7, PublishCommitsStep DEF OthersStay, OtherRowsStay, Backed, At
  <2> QED BY <2>4, <2>5, <2>6 DEF Backed, At
<1>8. ASSUME NEW c \in Callers, Stops(c) PROVE Backed' /\ ToldIsCommitted'
  <2>1. decisions' = decisions /\ \A id \in told' : \E d \in decisions : d.id = id
    BY <1>8 DEF Stops, IsLate, Announces, Dies, At, Backed, ToldIsCommitted
  <2> QED BY <1>8, <2>1, StopsStep DEF OthersStay, At, Backed, ToldIsCommitted
<1>9. CASE UNCHANGED vars
  BY <1>9 DEF vars, At, Backed, ToldIsCommitted
<1> QED BY <1>1, <1>2, <1>3, <1>4, <1>5, <1>6, <1>7, <1>8, <1>9, Steps

\* The bus hears of committed decisions only, each about a stored impact.
THEOREM BusHearsTruth == Spec => []ToldIsCommitted
<1>1. Init => Backed /\ ToldIsCommitted
  BY IdleType DEF Init, Backed, ToldIsCommitted, At
<1> QED BY <1>1, BackedStep, TypeCorrect, PTL DEF Spec
=============================================================================
