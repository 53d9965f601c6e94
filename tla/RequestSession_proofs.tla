----------------------- MODULE RequestSession_proofs -----------------------
(***************************************************************************)
(* Proofs about RequestSession, for every catalogue of handlers: which     *)
(* shape of a script keeps which promise.                                  *)
(***************************************************************************)
EXTENDS RequestSession, TLAPS

Open == {"idle", "running", "answered"}

\* The rows of r are in one of three places while its session is open.
Placed(r) ==
    /\ run[r].pending \cup run[r].sent \cup stored[r] \subseteq Made(r)
    /\ run[r].phase \in Open =>
         Made(r) \subseteq run[r].pending \cup run[r].sent \cup stored[r]

\* A row before a commit that was taken is stored.
CommitKeeps(r) ==
    \A i, j \in 1 .. run[r].pc - 1 :
        i < j /\ Todo(r)[i] \in RowSteps /\ Todo(r)[j] = "commit"
            => i \in stored[r]

\* A row that was not flushed since is pending.
PendingKept(r) ==
    run[r].phase \in Open =>
        \A i \in 1 .. run[r].pc - 1 :
            /\ Todo(r)[i] = "write"
            /\ \A j \in i + 1 .. run[r].pc - 1 :
                 Todo(r)[j] \notin {"flush", "commit"}
            => i \in run[r].pending

\* Before its commit a request has stored nothing.
NothingEarly(r) ==
    (\A j \in 1 .. run[r].pc - 1 : Todo(r)[j] # "commit") =>
        stored[r] = {} \/ (run[r].phase = "closed" /\ stored[r] = Made(r))

\* A request that was answered is where it may end.
EndsRight(r) ==
    run[r].phase \in {"answered", "closed", "lost"} =>
        EndsAt(Todo(r), run[r].pc)

\* An orderly end with something pending stores everything.
DirtyKept(r) ==
    run[r].phase = "closed" =>
        \/ Made(r) \subseteq stored[r]
        \/ \A i \in 1 .. run[r].pc - 1 :
             Todo(r)[i] = "write" =>
                \E j \in i + 1 .. run[r].pc - 1 :
                    Todo(r)[j] \in {"flush", "commit"}

Sound(r) == /\ Placed(r) /\ CommitKeeps(r) /\ PendingKept(r)
            /\ NothingEarly(r) /\ EndsRight(r) /\ DirtyKept(r)

IInv == TypeOK /\ \A r \in Requests : Sound(r)

\* The script of a request is a sequence of steps.
LEMMA TodoType ==
    ASSUME TypeOK, NEW r \in Requests
    PROVE  /\ Todo(r) \in Seq(Steps) /\ Len(Todo(r)) \in Nat
           /\ run[r].pc \in 1 .. Len(Todo(r)) + 1
           /\ run[r] \in Run
BY ScriptAssumption DEF TypeOK, Todo, Run

\* A request that has not begun has no rows.
LEMMA InitIInv == Init => IInv
<1> SUFFICES ASSUME Init PROVE IInv
    OBVIOUS
<1>1. ASSUME NEW r \in Requests
      PROVE  /\ run[r] \in Run /\ run[r].pc = 1 /\ run[r].phase = "idle"
             /\ run[r].pending = {} /\ run[r].sent = {}
             /\ stored[r] = {} /\ announced[r] = {}
             /\ run[r].handler \in Handlers
    BY DEF Init, Run
<1>2. run \in [Requests -> Run]
    <2>1. run = [r \in Requests |-> run[r]]
        BY DEF Init
    <2> QED
        BY <1>1, <2>1
<1>3. TypeOK
    <2>1. ASSUME NEW r \in Requests
          PROVE  Len(Script[run[r].handler]) \in Nat
        BY <1>1, ScriptAssumption
    <2> QED
        BY <1>1, <1>2, <2>1 DEF Init, TypeOK
<1>4. ASSUME NEW r \in Requests PROVE Sound(r)
    BY <1>1 DEF Sound, Placed, CommitKeeps, PendingKept, NothingEarly,
                EndsRight, DirtyKept, Made, Rows
<1> QED
    BY <1>3, <1>4 DEF IInv

\* A step on one request leaves the others alone.
LEMMA Others ==
    ASSUME NEW r \in Requests, Sound(r), run'[r] = run[r],
           stored'[r] = stored[r]
    PROVE  Sound(r)'
BY DEF Sound, Placed, CommitKeeps, PendingKept, NothingEarly, EndsRight,
       DirtyKept, Made, Rows, Todo

\* What a step of the script does to its own request.
LEMMA Step ==
    ASSUME IInv, NEW r \in Requests, NEW step \in Steps, At(r, step),
           NEW p \in SUBSET Nat, NEW t \in SUBSET Nat, Moves(r, p, t)
    PROVE  /\ run'[r].pc = run[r].pc + 1
           /\ run'[r].handler = run[r].handler /\ run'[r].phase = "running"
           /\ run'[r].pending = p /\ run'[r].sent = t
           /\ Todo(r)' = Todo(r)
           /\ run[r].pc \in 1 .. Len(Todo(r))
           /\ Todo(r)[run[r].pc] = step
           /\ Made(r)' = Made(r) \cup
                (IF step \in RowSteps THEN {run[r].pc} ELSE {})
           /\ run' \in [Requests -> Run]
           /\ \A q \in Requests \ {r} : run'[q] = run[q]
<1>0. TypeOK
    BY DEF IInv
<1>1. run \in [Requests -> Run] /\ run[r].pc \in Nat \ {0}
    BY <1>0 DEF TypeOK, Run
<1>2. /\ run'[r].pc = run[r].pc + 1
      /\ run'[r].handler = run[r].handler /\ run'[r].phase = run[r].phase
      /\ run'[r].pending = p /\ run'[r].sent = t
      /\ run' \in [Requests -> Run]
      /\ \A q \in Requests \ {r} : run'[q] = run[q]
    <2> DEFINE new == [run[r] EXCEPT !.pc = run[r].pc + 1, !.pending = p,
                                     !.sent = t]
    <2>1. run[r] \in Run
        BY <1>1
    <2>2. /\ new \in Run /\ new.pc = run[r].pc + 1
          /\ new.handler = run[r].handler /\ new.phase = run[r].phase
          /\ new.pending = p /\ new.sent = t
        <3>1. run[r].pc + 1 \in Nat \ {0}
            BY <1>1
        <3>2. ASSUME NEW a \in Run, NEW c \in Nat \ {0}
              PROVE  [a EXCEPT !.pc = c] \in Run
            BY DEF Run
        <3>3. ASSUME NEW a \in Run PROVE [a EXCEPT !.pending = p] \in Run
            BY DEF Run
        <3>4. ASSUME NEW a \in Run PROVE [a EXCEPT !.sent = t] \in Run
            BY DEF Run
        <3>5. new \in Run
            BY <2>1, <3>1, <3>2, <3>3, <3>4
        <3> QED
            BY <2>1, <3>5 DEF Run
    <2>3. run' = [run EXCEPT ![r] = new]
        BY <1>1 DEF Moves
    <2> HIDE DEF new
    <2> QED
        BY <1>1, <2>2, <2>3
<1>3. run[r].pc \in 1 .. Len(Todo(r)) /\ Todo(r)[run[r].pc] = step
    BY <1>0, TodoType DEF At
<1>4. Todo(r)' = Todo(r)
    BY <1>2 DEF Todo
<1>5. Made(r)' = Made(r) \cup
        (IF step \in RowSteps THEN {run[r].pc} ELSE {})
    <2>1. (1 .. run[r].pc) = (1 .. run[r].pc - 1) \cup {run[r].pc}
        BY <1>1
    <2>2. run'[r].pc - 1 = run[r].pc
        BY <1>1, <1>2
    <2>3. Made(r)' = {i \in 1 .. run[r].pc : Todo(r)[i] \in RowSteps}
        BY <1>4, <2>2 DEF Made, Rows
    <2> QED
        BY <1>3, <2>1, <2>3 DEF Made, Rows
<1> QED
    BY <1>2, <1>3, <1>4, <1>5 DEF At

\* A request that ends keeps its place in the script.
LEMMA EndStep ==
    ASSUME TypeOK, NEW r \in Requests,
           NEW ph \in {"closed", "lost", "failed"}, Ends(r, ph)
    PROVE  /\ run'[r].pc = run[r].pc
           /\ run'[r].handler = run[r].handler /\ run'[r].phase = ph
           /\ run'[r].pending = {} /\ run'[r].sent = {}
           /\ Todo(r)' = Todo(r) /\ Made(r)' = Made(r)
           /\ run' \in [Requests -> Run]
           /\ \A q \in Requests \ {r} : run'[q] = run[q]
<1>1. run \in [Requests -> Run]
    BY DEF TypeOK
<1>2. /\ run'[r].pc = run[r].pc
      /\ run'[r].handler = run[r].handler /\ run'[r].phase = ph
      /\ run'[r].pending = {} /\ run'[r].sent = {}
      /\ run' \in [Requests -> Run]
      /\ \A q \in Requests \ {r} : run'[q] = run[q]
    BY <1>1 DEF Ends, Run
<1> QED
    BY <1>2 DEF Todo, Made, Rows

\* A change of phase alone.
LEMMA PhaseStep ==
    ASSUME TypeOK, NEW r \in Requests, NEW ph \in Open,
           run' = [run EXCEPT ![r].phase = ph]
    PROVE  /\ run'[r].pc = run[r].pc
           /\ run'[r].handler = run[r].handler /\ run'[r].phase = ph
           /\ run'[r].pending = run[r].pending /\ run'[r].sent = run[r].sent
           /\ Todo(r)' = Todo(r) /\ Made(r)' = Made(r)
           /\ run' \in [Requests -> Run]
           /\ \A q \in Requests \ {r} : run'[q] = run[q]
<1>1. run \in [Requests -> Run]
    BY DEF TypeOK
<1>2. /\ run'[r].pc = run[r].pc
      /\ run'[r].handler = run[r].handler /\ run'[r].phase = ph
      /\ run'[r].pending = run[r].pending /\ run'[r].sent = run[r].sent
      /\ run' \in [Requests -> Run]
      /\ \A q \in Requests \ {r} : run'[q] = run[q]
    BY <1>1 DEF Run, Open
<1> QED
    BY <1>2 DEF Todo, Made, Rows

\* What is pending, sent, stored or announced is a row of the script so far.
LEMMA RowsType ==
    ASSUME TypeOK, NEW r \in Requests
    PROVE  /\ run[r].pending \subseteq 1 .. run[r].pc - 1
           /\ run[r].sent \subseteq 1 .. run[r].pc - 1
           /\ stored[r] \subseteq 1 .. run[r].pc - 1
           /\ announced[r] \subseteq 1 .. run[r].pc - 1
           /\ run[r].pc \in Nat \ {0}
BY DEF TypeOK, Run

\* A step of the script that leaves the database alone.
LEMMA ScriptStep ==
    ASSUME IInv, NEW r \in Requests, NEW step \in Steps \ {"commit"},
           At(r, step), NEW p \in SUBSET Nat, NEW t \in SUBSET Nat,
           Moves(r, p, t),
           p \cup t = run[r].pending \cup run[r].sent \cup
                      (IF step \in RowSteps THEN {run[r].pc} ELSE {}),
           step # "flush" => run[r].pending \subseteq p,
           step = "write" => run[r].pc \in p,
           stored' = stored
    PROVE  /\ Sound(r)' /\ run' \in [Requests -> Run]
           /\ \A q \in Requests \ {r} : run'[q] = run[q]
<1>0. TypeOK /\ Sound(r)
    BY DEF IInv
<1>2. /\ run'[r].pc = run[r].pc + 1
      /\ run'[r].handler = run[r].handler /\ run'[r].phase = "running"
      /\ run'[r].pending = p /\ run'[r].sent = t
      /\ Todo(r)' = Todo(r)
      /\ run[r].pc \in 1 .. Len(Todo(r))
      /\ Todo(r)[run[r].pc] = step
      /\ Made(r)' = Made(r) \cup
           (IF step \in RowSteps THEN {run[r].pc} ELSE {})
      /\ run' \in [Requests -> Run]
      /\ \A q \in Requests \ {r} : run'[q] = run[q]
    BY Step
<1>3. run[r].phase = "running" /\ run[r].pc \in Nat \ {0}
    BY <1>0, RowsType DEF At
<1>4. Placed(r)'
    BY <1>0, <1>2, <1>3 DEF Sound, Placed, Open
<1>5. CommitKeeps(r)'
    BY <1>0, <1>2, <1>3 DEF Sound, CommitKeeps
<1>6. PendingKept(r)'
    <2> SUFFICES ASSUME NEW i \in 1 .. run[r].pc, Todo(r)[i] = "write",
                        \A j \in i + 1 .. run[r].pc :
                            Todo(r)[j] \notin {"flush", "commit"}
                 PROVE  i \in p
        BY <1>2, <1>3 DEF PendingKept
    <2>1. CASE i = run[r].pc
        BY <1>2, <2>1
    <2>2. CASE i # run[r].pc
        <3>1. step # "flush"
            BY <1>2, <1>3, <2>2
        <3>2. i \in run[r].pending
            BY <1>0, <1>3, <2>2 DEF Sound, PendingKept, Open
        <3> QED
            BY <3>1, <3>2
    <2> QED
        BY <2>1, <2>2
<1>7. NothingEarly(r)'
    BY <1>0, <1>2, <1>3 DEF Sound, NothingEarly
<1>8. EndsRight(r)' /\ DirtyKept(r)'
    BY <1>2 DEF EndsRight, DirtyKept
<1> QED
    BY <1>2, <1>4, <1>5, <1>6, <1>7, <1>8 DEF Sound

\* A commit stores every row made so far.
LEMMA CommitStep ==
    ASSUME IInv, NEW r \in Requests, Commits(r)
    PROVE  /\ Sound(r)' /\ run' \in [Requests -> Run]
           /\ \A q \in Requests \ {r} : run'[q] = run[q]
           /\ stored'[r] = Made(r)
           /\ \A q \in Requests \ {r} : stored'[q] = stored[q]
<1>0. TypeOK /\ Sound(r)
    BY DEF IInv
<1>2. /\ run'[r].pc = run[r].pc + 1
      /\ run'[r].handler = run[r].handler /\ run'[r].phase = "running"
      /\ run'[r].pending = {} /\ run'[r].sent = {}
      /\ Todo(r)' = Todo(r)
      /\ run[r].pc \in 1 .. Len(Todo(r))
      /\ Todo(r)[run[r].pc] = "commit"
      /\ Made(r)' = Made(r)
      /\ run' \in [Requests -> Run]
      /\ \A q \in Requests \ {r} : run'[q] = run[q]
    <2>1. /\ "commit" \in Steps /\ "commit" \notin RowSteps
          /\ {} \in SUBSET Nat
        BY DEF Steps, RowSteps
    <2>2. At(r, "commit") /\ Moves(r, {}, {})
        BY DEF Commits
    <2>3. ASSUME NEW step \in Steps, NEW p \in SUBSET Nat,
                 NEW t \in SUBSET Nat, At(r, step), Moves(r, p, t),
                 step \notin RowSteps
          PROVE  /\ run'[r].pc = run[r].pc + 1
                 /\ run'[r].handler = run[r].handler
                 /\ run'[r].phase = "running"
                 /\ run'[r].pending = p /\ run'[r].sent = t
                 /\ Todo(r)' = Todo(r)
                 /\ run[r].pc \in 1 .. Len(Todo(r))
                 /\ Todo(r)[run[r].pc] = step
                 /\ Made(r)' = Made(r)
                 /\ run' \in [Requests -> Run]
                 /\ \A q \in Requests \ {r} : run'[q] = run[q]
        <3>1. Made(r)' = Made(r) \cup
                (IF step \in RowSteps THEN {run[r].pc} ELSE {})
            BY <2>3, Step
        <3>2. Made(r)' = Made(r)
            BY <2>3, <3>1
        <3> QED
            BY <2>3, <3>2, Step
    <2> QED
        BY <2>1, <2>2, <2>3
<1>3. run[r].phase = "running" /\ run[r].pc \in Nat \ {0}
    BY <1>0, RowsType DEF Commits, At
<1>4. /\ stored'[r] = Made(r)
      /\ \A q \in Requests \ {r} : stored'[q] = stored[q]
    <2>1. stored \in [Requests -> SUBSET Nat]
        BY <1>0 DEF TypeOK
    <2>2. Stores(r) = Made(r)
        BY <1>0, <1>3 DEF Sound, Placed, Open, Stores
    <2> QED
        BY <2>1, <2>2 DEF Commits
<1>5. Placed(r)'
    BY <1>2, <1>4 DEF Placed
<1>6. CommitKeeps(r)'
    BY <1>2, <1>3, <1>4 DEF CommitKeeps, Made, Rows
<1>7. PendingKept(r)'
    BY <1>2, <1>3 DEF PendingKept
<1>8. NothingEarly(r)' /\ EndsRight(r)' /\ DirtyKept(r)'
    BY <1>2, <1>3 DEF NothingEarly, EndsRight, DirtyKept
<1> QED
    BY <1>2, <1>4, <1>5, <1>6, <1>7, <1>8 DEF Sound

\* The types of one request, apart from those of the functions.
RType(r) ==
    /\ run[r].pc \in 1 .. Len(Script[run[r].handler]) + 1
    /\ run[r].pending \cup run[r].sent \cup stored[r] \cup announced[r]
         \subseteq 1 .. run[r].pc - 1

\* A step of r that keeps its types and its invariant keeps them all.
LEMMA OneRequest ==
    ASSUME IInv, NEW r \in Requests, run' \in [Requests -> Run],
           \A q \in Requests \ {r} :
               /\ run'[q] = run[q] /\ stored'[q] = stored[q]
               /\ announced'[q] = announced[q],
           stored' \in [Requests -> SUBSET Nat],
           announced' \in [Requests -> SUBSET Nat],
           RType(r)', Sound(r)'
    PROVE  IInv'
<1>1. ASSUME NEW q \in Requests PROVE RType(q)' /\ Sound(q)'
    <2>1. CASE q = r
        BY <2>1
    <2>2. CASE q # r
        <3>1. run'[q] = run[q] /\ stored'[q] = stored[q]
              /\ announced'[q] = announced[q]
            BY <2>2
        <3>2. RType(q) /\ Sound(q)
            BY DEF IInv, TypeOK, RType
        <3> QED
            BY <3>1, <3>2, Others DEF RType
    <2> QED
        BY <2>1, <2>2
<1> QED
    BY <1>1 DEF IInv, TypeOK, RType

\* The steps of a script keep the invariant.
LEMMA ScriptIInv ==
    ASSUME IInv, NEW r \in Requests,
           Checks(r) \/ Writes(r) \/ Executes(r) \/ Flushes(r) \/ Publishes(r)
    PROVE  IInv'
<1>0. TypeOK /\ Sound(r)
    BY DEF IInv
<1>1. /\ run[r].pending \in SUBSET Nat /\ run[r].sent \in SUBSET Nat
      /\ run[r].pc \in Nat \ {0} /\ stored \in [Requests -> SUBSET Nat]
      /\ announced \in [Requests -> SUBSET Nat]
      /\ run[r].pending \cup run[r].sent \cup stored[r] \cup announced[r]
           \subseteq 1 .. run[r].pc - 1
    BY <1>0 DEF TypeOK, Run
<1>2. ASSUME NEW step \in Steps \ {"commit"}, At(r, step),
             NEW p \in SUBSET Nat, NEW t \in SUBSET Nat, Moves(r, p, t),
             p \cup t = run[r].pending \cup run[r].sent \cup
                        (IF step \in RowSteps THEN {run[r].pc} ELSE {}),
             step # "flush" => run[r].pending \subseteq p,
             step = "write" => run[r].pc \in p,
             stored' = stored,
             \/ announced' = announced
             \/ announced' = [announced EXCEPT ![r] = Stores(r)]
      PROVE  IInv'
    <2>1. /\ Sound(r)' /\ run' \in [Requests -> Run]
          /\ \A q \in Requests \ {r} : run'[q] = run[q]
        BY <1>2, ScriptStep
    <2>2. /\ run'[r].pc = run[r].pc + 1 /\ run'[r].handler = run[r].handler
          /\ run'[r].pending = p /\ run'[r].sent = t
          /\ run[r].pc \in 1 .. Len(Todo(r))
        BY <1>2, Step
    <2>3. /\ announced' \in [Requests -> SUBSET Nat]
          /\ announced'[r] \subseteq 1 .. run[r].pc
          /\ \A q \in Requests \ {r} : announced'[q] = announced[q]
        BY <1>1, <1>2 DEF Stores
    <2>4. RType(r)'
        <3>1. run'[r].pc \in 1 .. Len(Todo(r)) + 1
            BY <2>2, <1>0, TodoType
        <3>2. run'[r].pending \cup run'[r].sent \cup stored'[r]
                \subseteq 1 .. run[r].pc
            BY <1>1, <1>2, <2>2
        <3> QED
            BY <1>1, <2>2, <2>3, <3>1, <3>2 DEF RType, Todo
    <2> QED
        BY <1>1, <1>2, <2>1, <2>3, <2>4, OneRequest
<1>3. /\ "check" \in Steps /\ "settled" \in Steps /\ "write" \in Steps
      /\ "sql" \in Steps /\ "flush" \in Steps /\ "publish" \in Steps
    BY DEF Steps
<1>4. CASE Checks(r)
    <2>1. CASE At(r, "check")
        BY <1>1, <1>2, <1>3, <1>4, <2>1 DEF Checks, RowSteps
    <2>2. CASE At(r, "settled")
        BY <1>1, <1>2, <1>3, <1>4, <2>2 DEF Checks, RowSteps
    <2> QED
        BY <1>4, <2>1, <2>2 DEF Checks
<1>5. CASE Writes(r)
    <2>1. run[r].pending \cup {run[r].pc} \in SUBSET Nat
        BY <1>1
    <2> QED
        BY <1>1, <1>2, <1>3, <1>5, <2>1 DEF Writes, RowSteps
<1>6. CASE Executes(r)
    <2>1. run[r].sent \cup {run[r].pc} \in SUBSET Nat
        BY <1>1
    <2> QED
        BY <1>1, <1>2, <1>3, <1>6, <2>1 DEF Executes, RowSteps
<1>7. CASE Flushes(r)
    <2>1. run[r].sent \cup run[r].pending \in SUBSET Nat /\ {} \in SUBSET Nat
        BY <1>1
    <2>2. At(r, "flush") /\ stored' = stored /\ announced' = announced
          /\ Moves(r, {}, run[r].sent \cup run[r].pending)
        BY <1>7 DEF Flushes
    <2>3. {} \cup (run[r].sent \cup run[r].pending)
            = run[r].pending \cup run[r].sent \cup
              (IF "flush" \in RowSteps THEN {run[r].pc} ELSE {})
        BY DEF RowSteps
    <2>4. "flush" \in Steps \ {"commit"} /\ "flush" # "write"
        BY <1>3
    <2> QED
        BY <1>2, <2>1, <2>2, <2>3, <2>4
<1>8. CASE Publishes(r)
    BY <1>1, <1>2, <1>3, <1>8 DEF Publishes, RowSteps
<1> QED
    BY <1>4, <1>5, <1>6, <1>7, <1>8

\* So does a commit.
LEMMA CommitIInv ==
    ASSUME IInv, NEW r \in Requests, Commits(r)
    PROVE  IInv'
<1>0. TypeOK /\ Sound(r)
    BY DEF IInv
<1>1. /\ Sound(r)' /\ run' \in [Requests -> Run]
      /\ \A q \in Requests \ {r} : run'[q] = run[q]
      /\ stored'[r] = Made(r)
      /\ \A q \in Requests \ {r} : stored'[q] = stored[q]
    BY CommitStep
<1>2. /\ run'[r].pc = run[r].pc + 1 /\ run'[r].handler = run[r].handler
      /\ run'[r].pending = {} /\ run'[r].sent = {}
      /\ run[r].pc \in 1 .. Len(Todo(r)) /\ run[r].pc \in Nat \ {0}
    BY <1>0, TodoType DEF Commits, At, Moves, Run, TypeOK
<1>3. stored' \in [Requests -> SUBSET Nat] /\ announced' = announced
    <2>1. Stores(r) \in SUBSET Nat /\ stored \in [Requests -> SUBSET Nat]
        BY <1>0 DEF TypeOK, Run, Stores
    <2> QED
        BY <2>1 DEF Commits
<1>4. RType(r)'
    <2>1. run'[r].pc \in 1 .. Len(Todo(r)) + 1
        BY <1>2, <1>0, TodoType
    <2>2. announced[r] \subseteq 1 .. run[r].pc - 1
        BY <1>0, RowsType
    <2>3. Made(r) \subseteq 1 .. run[r].pc
        BY <1>2 DEF Made, Rows
    <2> QED
        BY <1>1, <1>2, <1>3, <2>1, <2>2, <2>3 DEF RType, Todo
<1> QED
    BY <1>0, <1>1, <1>3, <1>4, OneRequest DEF TypeOK

\* A request that begins, fails or answers keeps it.
LEMMA PhaseIInv ==
    ASSUME IInv, NEW r \in Requests,
           Begins(r) \/ Answers(r) \/ StepFails(r) \/ CloseFails(r)
    PROVE  IInv'
<1>0. TypeOK /\ Sound(r) /\ RType(r)
    BY DEF IInv, TypeOK, RType
<1>1. stored' = stored /\ announced' = announced
    BY DEF Begins, Answers, StepFails, CloseFails
<1>2. ASSUME NEW ph \in {"running", "answered"},
             run' = [run EXCEPT ![r].phase = ph],
             run[r].phase \in {"idle", "running"},
             ph = "answered" => EndsAt(Todo(r), run[r].pc)
      PROVE  IInv'
    <2>1. /\ run'[r].pc = run[r].pc
          /\ run'[r].handler = run[r].handler /\ run'[r].phase = ph
          /\ run'[r].pending = run[r].pending /\ run'[r].sent = run[r].sent
          /\ Todo(r)' = Todo(r) /\ Made(r)' = Made(r)
          /\ run' \in [Requests -> Run]
          /\ \A q \in Requests \ {r} : run'[q] = run[q]
        BY <1>0, <1>2, PhaseStep DEF Open
    <2>2. RType(r)'
        BY <1>0, <1>1, <2>1 DEF RType
    <2>3. Placed(r)' /\ CommitKeeps(r)'
        BY <1>0, <1>1, <1>2, <2>1 DEF Sound, Placed, CommitKeeps, Open
    <2>4. PendingKept(r)' /\ NothingEarly(r)'
        BY <1>0, <1>1, <1>2, <2>1 DEF Sound, PendingKept, NothingEarly, Open
    <2>5. EndsRight(r)' /\ DirtyKept(r)'
        BY <1>2, <2>1 DEF EndsRight, DirtyKept
    <2> QED
        BY <1>0, <1>1, <2>1, <2>2, <2>3, <2>4, <2>5, OneRequest
           DEF Sound, TypeOK
<1>3. ASSUME NEW ph \in {"failed", "lost"}, Ends(r, ph),
             run[r].phase \in {"running", "answered"},
             ph = "lost" => run[r].phase = "answered"
      PROVE  IInv'
    <2>1. /\ run'[r].pc = run[r].pc
          /\ run'[r].handler = run[r].handler /\ run'[r].phase = ph
          /\ run'[r].pending = {} /\ run'[r].sent = {}
          /\ Todo(r)' = Todo(r) /\ Made(r)' = Made(r)
          /\ run' \in [Requests -> Run]
          /\ \A q \in Requests \ {r} : run'[q] = run[q]
        BY <1>0, <1>3, EndStep
    <2>2. RType(r)'
        BY <1>0, <1>1, <2>1 DEF RType
    <2>3. Placed(r)' /\ CommitKeeps(r)' /\ PendingKept(r)' /\ DirtyKept(r)'
        BY <1>0, <1>1, <1>3, <2>1
           DEF Sound, Placed, CommitKeeps, PendingKept, DirtyKept, Open
    <2>4. NothingEarly(r)' /\ EndsRight(r)'
        BY <1>0, <1>1, <1>3, <2>1 DEF Sound, NothingEarly, EndsRight
    <2> QED
        BY <1>0, <1>1, <2>1, <2>2, <2>3, <2>4, OneRequest DEF Sound, TypeOK
<1>4. CASE Begins(r)
    BY <1>2, <1>4 DEF Begins
<1>5. CASE Answers(r)
    <2>1. EndsAt(Todo(r), run[r].pc)
        BY <1>0, <1>5, TodoType DEF Answers, EndsAt, At
    <2> QED
        BY <1>2, <1>5, <2>1 DEF Answers
<1>6. CASE StepFails(r)
    BY <1>3, <1>6 DEF StepFails
<1>7. CASE CloseFails(r)
    BY <1>3, <1>7 DEF CloseFails
<1> QED
    BY <1>4, <1>5, <1>6, <1>7

\* So does get_session, whether it commits or not.
LEMMA CloseIInv ==
    ASSUME IInv, NEW r \in Requests, Closes(r)
    PROVE  IInv'
<1>0. TypeOK /\ Sound(r) /\ RType(r)
    BY DEF IInv, TypeOK, RType
<1>1. run[r].phase = "answered" /\ announced' = announced
    BY DEF Closes
<1>2. /\ run'[r].pc = run[r].pc
      /\ run'[r].handler = run[r].handler /\ run'[r].phase = "closed"
      /\ run'[r].pending = {} /\ run'[r].sent = {}
      /\ Todo(r)' = Todo(r) /\ Made(r)' = Made(r)
      /\ run' \in [Requests -> Run]
      /\ \A q \in Requests \ {r} : run'[q] = run[q]
    BY <1>0, EndStep DEF Closes
<1>3. Stores(r) = Made(r) /\ Stores(r) \in SUBSET Nat
    BY <1>0, <1>1 DEF Sound, Placed, Open, Stores, TypeOK, Run
<1>4. /\ stored' \in [Requests -> SUBSET Nat]
      /\ \A q \in Requests \ {r} : stored'[q] = stored[q]
      /\ stored'[r] = IF run[r].pending # {} THEN Made(r) ELSE stored[r]
    BY <1>0, <1>3 DEF TypeOK, Closes, Dirty
<1>5. RType(r)'
    <2>1. Made(r) \subseteq 1 .. run[r].pc - 1
        BY DEF Made, Rows
    <2> QED
        BY <1>0, <1>1, <1>2, <1>4, <2>1 DEF RType
<1>6. Placed(r)' /\ PendingKept(r)' /\ EndsRight(r)'
    BY <1>0, <1>1, <1>2, <1>4
       DEF Sound, Placed, PendingKept, EndsRight, Open
<1>7. CommitKeeps(r)' /\ NothingEarly(r)'
    BY <1>0, <1>1, <1>2, <1>4 DEF Sound, CommitKeeps, NothingEarly, Made, Rows
<1>8. DirtyKept(r)'
    <2>1. CASE run[r].pending # {}
        BY <1>2, <1>4, <2>1 DEF DirtyKept
    <2>2. CASE run[r].pending = {}
        BY <1>0, <1>1, <1>2, <2>2 DEF Sound, PendingKept, DirtyKept, Open
    <2> QED
        BY <2>1, <2>2
<1> QED
    BY <1>0, <1>1, <1>2, <1>4, <1>5, <1>6, <1>7, <1>8, OneRequest
       DEF Sound, TypeOK

\* Every step keeps the invariant.
LEMMA NextIInv == IInv /\ [Next]_vars => IInv'
<1> SUFFICES ASSUME IInv, [Next]_vars PROVE IInv'
    OBVIOUS
<1>1. CASE UNCHANGED vars
    BY <1>1 DEF vars, IInv, TypeOK, Sound, Placed, CommitKeeps, PendingKept,
                NothingEarly, EndsRight, DirtyKept, Made, Rows, Todo, Run
<1>2. CASE Next
    BY <1>2, ScriptIInv, CommitIInv, PhaseIInv, CloseIInv DEF Next
<1> QED
    BY <1>1, <1>2

\* The types of every request, and where its rows are, whatever its script.
THEOREM TypeCorrect == Spec => []TypeOK
<1>1. Init => IInv
    BY InitIInv
<1>2. IInv /\ [Next]_vars => IInv'
    BY NextIInv
<1>3. IInv => TypeOK
    BY DEF IInv
<1> QED
    BY <1>1, <1>2, <1>3, PTL DEF Spec

\* The script of a handler has the shape of its class, wherever it is now.
LEMMA ShapeOf ==
    ASSUME TypeOK, NEW r \in Requests
    PROVE  /\ run[r].handler \in Durable => CommitsLast(Todo(r))
           /\ run[r].handler \in Saved => EndsDirty(Todo(r))
           /\ run[r].handler \in Flushing => EndsFlushed(Todo(r))
           /\ run[r].handler \notin Early => PublishesLast(Todo(r))
BY ShapeAssumption DEF Todo, TypeOK, Run

\* Handlers whose rows all come before a commit of their own answer the truth,
\* whatever happens after the answer.
THEOREM CommittersAnswerTruly == Spec => []AnswerIsStored
<1>1. IInv => AnswerIsStored
    <2> SUFFICES ASSUME IInv, NEW r \in Requests, run[r].handler \in Durable,
                        run[r].phase \in {"answered", "closed", "lost"},
                        NEW i \in Made(r)
                 PROVE  i \in stored[r]
        BY DEF AnswerIsStored
    <2>1. /\ Sound(r) /\ run[r].pc \in 1 .. Len(Todo(r)) + 1
          /\ Len(Todo(r)) \in Nat /\ CommitsLast(Todo(r))
        BY TodoType, ShapeOf DEF IInv
    <2>2. EndsAt(Todo(r), run[r].pc)
        BY <2>1 DEF Sound, EndsRight
    <2>3. i \in 1 .. run[r].pc - 1 /\ Todo(r)[i] \in RowSteps
        BY DEF Made, Rows
    <2>4. PICK j \in i + 1 .. run[r].pc - 1 : Todo(r)[j] = "commit"
        BY <2>1, <2>2 DEF CommitsLast, Between, Made
    <2>5. j \in 1 .. run[r].pc - 1 /\ i < j
        BY <2>1, <2>3
    <2> QED
        BY <2>1, <2>3, <2>4, <2>5 DEF Sound, CommitKeeps
<1> QED
    BY <1>1, InitIInv, NextIInv, PTL DEF Spec

\* Handlers that end with an object unflushed are saved by get_session.
THEOREM UnflushedIsSaved == Spec => []SavedAtTheEnd
<1>1. IInv => SavedAtTheEnd
    <2> SUFFICES ASSUME IInv, NEW r \in Requests, run[r].handler \in Saved,
                        run[r].phase = "closed"
                 PROVE  Made(r) \subseteq stored[r]
        BY DEF SavedAtTheEnd
    <2>1. /\ Sound(r) /\ run[r].pc \in 1 .. Len(Todo(r)) + 1
          /\ EndsDirty(Todo(r))
        BY TodoType, ShapeOf DEF IInv
    <2>2. EndsAt(Todo(r), run[r].pc)
        BY <2>1 DEF Sound, EndsRight
    <2>3. CASE Made(r) = {}
        BY <2>3
    <2>4. CASE Made(r) # {}
        <3>1. PICK i \in 1 .. run[r].pc - 1 :
                 /\ Todo(r)[i] = "write"
                 /\ ~Between(Todo(r), i, run[r].pc, {"flush", "commit"})
            BY <2>1, <2>2, <2>4 DEF EndsDirty, Made
        <3> QED
            BY <2>1, <3>1 DEF Sound, DirtyKept, Between
    <2> QED
        BY <2>3, <2>4
<1> QED
    BY <1>1, InitIInv, NextIInv, PTL DEF Spec

\* A handler with one commit, after all its rows, is atomic.
THEOREM OneCommitIsAtomic == Spec => []AllOrNothing
<1>1. IInv => AllOrNothing
    <2> SUFFICES ASSUME IInv, NEW r \in Requests,
                        \A i, j \in CommitsIn(Todo(r)) : i = j,
                        \/ run[r].handler \in Durable
                        \/ CommitsIn(Todo(r)) = {}
                 PROVE  stored[r] = {} \/ stored[r] = Made(r)
        BY DEF AllOrNothing
    <2>1. /\ Sound(r) /\ run[r].pc \in 1 .. Len(Todo(r)) + 1
          /\ Len(Todo(r)) \in Nat
        BY TodoType DEF IInv
    <2>2. CASE \A j \in 1 .. run[r].pc - 1 : Todo(r)[j] # "commit"
        BY <2>1, <2>2 DEF Sound, NothingEarly
    <2>3. CASE \E j \in 1 .. run[r].pc - 1 : Todo(r)[j] = "commit"
        <3>1. PICK c \in 1 .. run[r].pc - 1 : Todo(r)[c] = "commit"
            BY <2>3
        <3>2. c \in CommitsIn(Todo(r)) /\ run[r].handler \in Durable
            BY <2>1, <3>1 DEF CommitsIn
        <3>3. CommitsLast(Todo(r))
            <4>1. TypeOK
                BY DEF IInv
            <4> QED
                BY <3>2, <4>1, ShapeOf
        <3>4. ASSUME NEW i \in Made(r) PROVE i \in stored[r]
            <4>1. i \in 1 .. run[r].pc - 1 /\ Todo(r)[i] \in RowSteps
                BY DEF Made, Rows
            <4>2. EndsAt(Todo(r), Len(Todo(r)) + 1)
                BY DEF EndsAt
            <4>3. /\ Len(Todo(r)) + 1 \in 1 .. Len(Todo(r)) + 1
                  /\ i \in Rows(Todo(r), Len(Todo(r)) + 1)
                BY <2>1, <4>1 DEF Rows
            <4>4. PICK j \in i + 1 .. (Len(Todo(r)) + 1) - 1 :
                          Todo(r)[j] = "commit"
                BY <3>3, <4>2, <4>3 DEF CommitsLast, Between
            <4>5. j \in CommitsIn(Todo(r)) /\ i < j
                BY <2>1, <4>1, <4>4 DEF CommitsIn
            <4>6. j = c
                BY <3>2, <4>5
            <4> QED
                BY <2>1, <3>1, <4>1, <4>5, <4>6 DEF Sound, CommitKeeps
        <3>5. stored[r] \subseteq Made(r)
            BY <2>1 DEF Sound, Placed
        <3> QED
            BY <3>4, <3>5
    <2> QED
        BY <2>2, <2>3
<1> QED
    BY <1>1, InitIInv, NextIInv, PTL DEF Spec

\* Events are about rows that were made, and those of handlers that publish
\* last about rows that were stored by then.
AnnouncedMade == \A r \in Requests : announced[r] \subseteq Made(r)
AnnouncedLast ==
    \A r \in Requests :
        run[r].handler \notin Early => announced[r] \subseteq stored[r]

AnnouncedInv == IInv /\ AnnouncedMade /\ AnnouncedLast

\* A request never changes its handler.
LEMMA HandlerStays ==
    ASSUME run \in [Requests -> Run], [Next]_vars, NEW r \in Requests
    PROVE  run'[r].handler = run[r].handler
<1>1. CASE UNCHANGED vars
    BY <1>1 DEF vars
<1>2. ASSUME NEW q \in Requests, NEW p, NEW t, Moves(q, p, t)
      PROVE  run'[r].handler = run[r].handler
    <2>1. CASE q = r
        BY <1>2, <2>1 DEF Moves, Run
    <2>2. CASE q # r
        BY <1>2, <2>2 DEF Moves, Run
    <2> QED
        BY <2>1, <2>2
<1>3. ASSUME NEW q \in Requests, NEW ph, Ends(q, ph)
      PROVE  run'[r].handler = run[r].handler
    BY <1>3 DEF Ends, Run
<1>4. ASSUME NEW q \in Requests, NEW ph, run' = [run EXCEPT ![q].phase = ph]
      PROVE  run'[r].handler = run[r].handler
    BY <1>4 DEF Run
<1>5. CASE Next
    <2>1. PICK q \in Requests :
            \/ Begins(q) \/ Checks(q) \/ Writes(q) \/ Executes(q) \/ Flushes(q)
            \/ Commits(q) \/ Publishes(q)
            \/ StepFails(q) \/ Answers(q) \/ Closes(q) \/ CloseFails(q)
        BY <1>5 DEF Next
    <2>2. CASE Begins(q) \/ Answers(q)
        BY <1>4, <2>2 DEF Begins, Answers
    <2>3. CASE StepFails(q) \/ Closes(q) \/ CloseFails(q)
        BY <1>3, <2>3 DEF StepFails, Closes, CloseFails
    <2>4. CASE \/ Checks(q) \/ Writes(q) \/ Executes(q) \/ Flushes(q)
               \/ Commits(q) \/ Publishes(q)
        BY <1>2, <2>4 DEF Checks, Writes, Executes, Flushes, Commits, Publishes
    <2> QED
        BY <2>1, <2>2, <2>3, <2>4
<1> QED
    BY <1>1, <1>5

\* A request never goes back, so it keeps the rows it has made.
LEMMA MadeGrows ==
    ASSUME IInv, [Next]_vars, NEW r \in Requests
    PROVE  Made(r) \subseteq Made(r)'
<1>0. run \in [Requests -> Run] /\ run[r].pc \in Nat
    BY DEF IInv, TypeOK, Run
<1>1. CASE UNCHANGED vars
    BY <1>1 DEF vars, Made, Rows, Todo
<1>2. ASSUME NEW q \in Requests, NEW p, NEW t, Moves(q, p, t)
      PROVE  run'[r].pc \in {run[r].pc, run[r].pc + 1}
    BY <1>0, <1>2 DEF Moves
<1>3. ASSUME NEW q \in Requests, NEW ph, Ends(q, ph)
      PROVE  run'[r].pc = run[r].pc
    BY <1>0, <1>3 DEF Ends, Run
<1>4. ASSUME NEW q \in Requests, NEW ph, run' = [run EXCEPT ![q].phase = ph]
      PROVE  run'[r].pc = run[r].pc
    BY <1>0, <1>4 DEF Run
<1>5. CASE Next
    <2>1. PICK q \in Requests :
            \/ Begins(q) \/ Checks(q) \/ Writes(q) \/ Executes(q) \/ Flushes(q)
            \/ Commits(q) \/ Publishes(q)
            \/ StepFails(q) \/ Answers(q) \/ Closes(q) \/ CloseFails(q)
        BY <1>5 DEF Next
    <2>2. run'[r].pc \in {run[r].pc, run[r].pc + 1}
        BY <1>2, <1>3, <1>4, <2>1
           DEF Begins, Answers, StepFails, Closes, CloseFails, Checks, Writes,
               Executes, Flushes, Commits, Publishes
    <2>3. Todo(r)' = Todo(r)
        BY <1>0, HandlerStays DEF Todo
    <2> QED
        BY <1>0, <2>2, <2>3 DEF Made, Rows
<1> QED
    BY <1>1, <1>5

\* What stays stored, and what an event is about when it is published.
LEMMA EventFacts ==
    ASSUME AnnouncedInv, [Next]_vars, NEW r \in Requests
    PROVE  /\ run'[r].handler = run[r].handler
           /\ stored[r] \subseteq stored'[r]
           /\ \/ announced'[r] = announced[r]
              \/ Publishes(r) /\ announced'[r] = Made(r)
<1>0. /\ TypeOK /\ Sound(r) /\ run \in [Requests -> Run]
      /\ stored \in [Requests -> SUBSET Nat]
      /\ announced \in [Requests -> SUBSET Nat]
    BY DEF AnnouncedInv, IInv, TypeOK
<1>1. run'[r].handler = run[r].handler
    BY <1>0, HandlerStays
<1>2. stored[r] \subseteq stored'[r]
    BY <1>0 DEF Next, vars, Begins, Checks, Writes, Executes, Flushes, Commits,
                Publishes, StepFails, Answers, Closes, CloseFails, Stores
<1>3. ASSUME Publishes(r) PROVE announced'[r] = Made(r)
    <2>1. announced'[r] = Stores(r) /\ run[r].phase = "running"
        BY <1>0, <1>3 DEF Publishes, At
    <2> QED
        BY <1>0, <2>1 DEF Sound, Placed, Open, Stores
<1>4. ~Publishes(r) => announced'[r] = announced[r]
    BY <1>0 DEF Next, vars, Begins, Checks, Writes, Executes,
       Flushes, Commits, Publishes, StepFails, Answers, Closes, CloseFails
<1> QED
    BY <1>1, <1>2, <1>3, <1>4

\* A step keeps it: rows stay made and stored, and an event that is not early
\* follows the commit of its rows.
LEMMA AnnouncedStep ==
    ASSUME AnnouncedInv, [Next]_vars
    PROVE  AnnouncedMade' /\ AnnouncedLast'
<1>1. ASSUME NEW r \in Requests PROVE announced'[r] \subseteq Made(r)'
    BY EventFacts, MadeGrows DEF AnnouncedInv, AnnouncedMade
<1>2. ASSUME NEW r \in Requests, run'[r].handler \notin Early
      PROVE  announced'[r] \subseteq stored'[r]
    <2>1. run[r].handler \notin Early /\ stored[r] \subseteq stored'[r]
        BY <1>2, EventFacts
    <2>2. CASE announced'[r] = announced[r]
        BY <2>1, <2>2 DEF AnnouncedInv, AnnouncedLast
    <2>3. CASE Publishes(r) /\ announced'[r] = Made(r)
        <3>0. TypeOK /\ Sound(r)
            BY DEF AnnouncedInv, IInv
        <3>1. run[r].pc \in 1 .. Len(Todo(r)) /\ Todo(r)[run[r].pc] = "publish"
            BY <2>3, <3>0, TodoType DEF Publishes, At
        <3>2. PublishesLast(Todo(r))
            BY <2>1, <3>0, ShapeOf
        <3>3. ASSUME NEW i \in Made(r) PROVE i \in stored[r]
            <4>1. i \in 1 .. run[r].pc - 1 /\ Todo(r)[i] \in RowSteps
                BY DEF Made, Rows
            <4>2. PICK j \in i + 1 .. run[r].pc - 1 : Todo(r)[j] = "commit"
                BY <3>1, <3>2 DEF PublishesLast, Between, Made
            <4>3. j \in 1 .. run[r].pc - 1 /\ i < j
                BY <3>1, <4>1
            <4> QED
                BY <3>0, <4>1, <4>2, <4>3 DEF Sound, CommitKeeps
        <3> QED
            BY <2>1, <2>3, <3>3
    <2> QED
        BY <2>2, <2>3, EventFacts
<1> QED
    BY <1>1, <1>2 DEF AnnouncedMade, AnnouncedLast

\* Consumers are told of stored rows, by every handler that is not early at
\* any moment and by the early ones that commit once they have answered.
THEOREM EventsAreStored == Spec => []AnnouncedIsStored
<1>1. Init => AnnouncedInv
    BY InitIInv DEF AnnouncedInv, AnnouncedMade, AnnouncedLast, Init
<1>2. AnnouncedInv /\ [Next]_vars => AnnouncedInv'
    <2> SUFFICES ASSUME AnnouncedInv, [Next]_vars
                 PROVE  AnnouncedInv'
        OBVIOUS
    <2>1. IInv'
        BY NextIInv DEF AnnouncedInv
    <2>2. AnnouncedMade' /\ AnnouncedLast'
        BY AnnouncedStep
    <2> QED
        BY <2>1, <2>2 DEF AnnouncedInv
<1>3. AnnouncedInv /\ AnswerIsStored => AnnouncedIsStored
    BY DEF AnnouncedInv, AnnouncedMade, AnnouncedLast, AnswerIsStored,
           AnnouncedIsStored
<1> QED
    BY <1>1, <1>2, <1>3, CommittersAnswerTruly, PTL DEF Spec

\* What is pending was written and not flushed since.
NotFlushed(r) ==
    \A i \in run[r].pending :
        /\ Todo(r)[i] = "write"
        /\ \A j \in i + 1 .. run[r].pc - 1 : Todo(r)[j] # "flush"

\* A handler that flushes all is found clean by get_session.
ForgottenInv ==
    /\ IInv
    /\ \A r \in Requests : NotFlushed(r)
    /\ FlushedIsForgotten

\* A step of the script that makes pending p keeps it unflushed, when p is
\* what was pending, without or with the row of this step.
LEMMA PendingStep ==
    ASSUME IInv, NEW r \in Requests, NotFlushed(r),
           NEW step \in Steps \ {"flush"},
           At(r, step), NEW p \in SUBSET Nat, NEW t \in SUBSET Nat,
           Moves(r, p, t),
           \A i \in p : i \in run[r].pending \/ (i = run[r].pc /\ step = "write")
    PROVE  NotFlushed(r)'
<1>1. /\ run'[r].pc = run[r].pc + 1 /\ Todo(r)' = Todo(r)
      /\ run'[r].pending = p /\ Todo(r)[run[r].pc] = step
    BY Step
<1>2. run[r].pending \subseteq 1 .. run[r].pc - 1 /\ run[r].pc \in Nat \ {0}
    BY RowsType DEF IInv
<1>3. ASSUME NEW i \in p
      PROVE  /\ Todo(r)[i] = "write"
             /\ \A j \in i + 1 .. run[r].pc : Todo(r)[j] # "flush"
    <2>1. CASE i \in run[r].pending
        <3>1. /\ i \in 1 .. run[r].pc - 1 /\ Todo(r)[i] = "write"
              /\ \A j \in i + 1 .. run[r].pc - 1 : Todo(r)[j] # "flush"
            BY <1>2, <2>1 DEF NotFlushed
        <3>2. \A j \in i + 1 .. run[r].pc :
                 j \in i + 1 .. run[r].pc - 1 \/ j = run[r].pc
            BY <1>2, <3>1
        <3> QED
            BY <1>1, <3>1, <3>2
    <2>2. CASE i = run[r].pc /\ step = "write"
        BY <1>1, <1>2, <2>2
    <2> QED
        BY <2>1, <2>2
<1>4. (run[r].pc + 1) - 1 = run[r].pc
    BY <1>2
<1> QED
    BY <1>1, <1>3, <1>4 DEF NotFlushed

\* A step keeps what is pending unflushed.
LEMMA NotFlushedStep ==
    ASSUME ForgottenInv, [Next]_vars, NEW r \in Requests
    PROVE  NotFlushed(r)'
<1>0. /\ IInv /\ TypeOK /\ NotFlushed(r) /\ run \in [Requests -> Run]
      /\ run[r].pending \subseteq 1 .. run[r].pc - 1 /\ run[r].pc \in Nat \ {0}
    BY RowsType DEF ForgottenInv, IInv, TypeOK
<1>1. ASSUME run'[r] = run[r] PROVE NotFlushed(r)'
    BY <1>0, <1>1 DEF NotFlushed, Todo
<1>2. ASSUME run'[r].pending = {} PROVE NotFlushed(r)'
    BY <1>2 DEF NotFlushed
<1>3. ASSUME NEW ph \in Open, run' = [run EXCEPT ![r].phase = ph]
      PROVE  NotFlushed(r)'
    <2>1. /\ run'[r].pc = run[r].pc /\ Todo(r)' = Todo(r)
          /\ run'[r].pending = run[r].pending
        BY <1>0, <1>3, PhaseStep
    <2> QED
        BY <1>0, <2>1 DEF NotFlushed
<1>4. run[r].pending \in SUBSET Nat /\ run[r].sent \in SUBSET Nat
    BY <1>0 DEF Run
<1>5. CASE \E q \in Requests \ {r} :
             \/ Begins(q) \/ Checks(q) \/ Writes(q) \/ Executes(q)
             \/ Flushes(q) \/ Commits(q) \/ Publishes(q)
             \/ StepFails(q) \/ Answers(q) \/ Closes(q) \/ CloseFails(q)
    <2>1. run'[r] = run[r]
        BY <1>0, <1>5 DEF Begins, Checks, Writes, Executes, Flushes, Commits,
           Publishes, StepFails, Answers, Closes, CloseFails, Moves, Ends
    <2> QED
        BY <1>1, <2>1
<1>6. CASE Begins(r) \/ Answers(r)
    BY <1>3, <1>6 DEF Begins, Answers, Open
<1>7. CASE Checks(r) \/ Publishes(r)
    <2>1. PICK step \in Steps \ {"flush"} :
             At(r, step) /\ Moves(r, run[r].pending, run[r].sent)
        BY <1>7 DEF Checks, Publishes, Steps
    <2> QED
        BY <1>0, <1>4, <2>1, PendingStep
<1>8. CASE Writes(r)
    <2> DEFINE p == run[r].pending \cup {run[r].pc}
    <2>1. /\ p \in SUBSET Nat /\ "write" \in Steps \ {"flush"}
          /\ \A i \in p : i \in run[r].pending \/ i = run[r].pc
        BY <1>0, <1>4 DEF Steps
    <2>2. At(r, "write") /\ Moves(r, p, run[r].sent)
        BY <1>8 DEF Writes
    <2> HIDE DEF p
    <2> QED
        BY <1>0, <1>4, <2>1, <2>2, PendingStep
<1>9. CASE Executes(r)
    <2> DEFINE t == run[r].sent \cup {run[r].pc}
    <2>1. t \in SUBSET Nat /\ "sql" \in Steps \ {"flush"}
        BY <1>0, <1>4 DEF Steps
    <2>2. At(r, "sql") /\ Moves(r, run[r].pending, t)
        BY <1>9 DEF Executes
    <2> HIDE DEF t
    <2> QED
        BY <1>0, <1>4, <2>1, <2>2, PendingStep
<1>10. CASE Flushes(r) \/ Commits(r) \/ StepFails(r) \/ Closes(r) \/ CloseFails(r)
    <2>1. run'[r].pending = {}
        BY <1>0, <1>10 DEF Flushes, Commits, StepFails, Closes, CloseFails,
                           Moves, Ends, Run
    <2> QED
        BY <1>2, <2>1
<1> QED
    BY <1>1, <1>5, <1>6, <1>7, <1>8, <1>9, <1>10 DEF Next, vars

\* Nor does it store anything of a handler that flushes all.
LEMMA ForgottenStep ==
    ASSUME ForgottenInv, [Next]_vars
    PROVE  FlushedIsForgotten'
<1> SUFFICES ASSUME NEW r \in Requests, run'[r].handler \in Flushing
             PROVE  stored'[r] = {}
    BY DEF FlushedIsForgotten
<1>0. /\ TypeOK /\ Sound(r) /\ NotFlushed(r) /\ run \in [Requests -> Run]
      /\ stored \in [Requests -> SUBSET Nat]
      /\ run[r].pending \subseteq 1 .. run[r].pc - 1
      /\ run[r].pc \in 1 .. Len(Todo(r)) + 1 /\ Len(Todo(r)) \in Nat
    BY RowsType, TodoType DEF ForgottenInv, IInv, TypeOK
<1>1. run[r].handler \in Flushing
    BY <1>0, HandlerStays
<1>2. stored[r] = {} /\ EndsFlushed(Todo(r))
    BY <1>0, <1>1, ShapeOf DEF ForgottenInv, FlushedIsForgotten
<1>3. ~Commits(r)
    <2>1. SUFFICES ASSUME Commits(r) PROVE FALSE
        OBVIOUS
    <2>2. run[r].pc \in CommitsIn(Todo(r))
        BY <1>0, <2>1 DEF Commits, At, CommitsIn
    <2> QED
        BY <1>2, <2>2 DEF EndsFlushed
<1>4. CASE Closes(r)
    <2>1. run[r].phase = "answered" /\ EndsAt(Todo(r), run[r].pc)
        BY <1>0, <1>4 DEF Closes, Sound, EndsRight
    <2>2. ASSUME NEW i \in run[r].pending PROVE FALSE
        <3>1. /\ i \in 1 .. run[r].pc - 1 /\ Todo(r)[i] = "write"
              /\ \A j \in i + 1 .. run[r].pc - 1 : Todo(r)[j] # "flush"
            BY <1>0, <2>2 DEF NotFlushed
        <3> QED
            BY <1>0, <1>2, <2>1, <3>1 DEF EndsFlushed, Between
    <2> QED
        BY <1>2, <1>4, <2>2 DEF Closes, Dirty
<1>5. CASE ~Closes(r)
    <2>1. stored'[r] = stored[r]
        BY <1>0, <1>3, <1>5 DEF Next, vars, Begins, Checks, Writes, Executes,
           Flushes, Commits, Publishes, StepFails, Answers, Closes, CloseFails
    <2> QED
        BY <1>2, <2>1
<1> QED
    BY <1>4, <1>5

\* A handler that flushes all it does and commits nothing has stored nothing in
\* any state of any run: its 2xx is never true.
THEOREM FlushersStoreNothing == Spec => []FlushedIsForgotten
<1>1. Init => ForgottenInv
    <2> SUFFICES ASSUME Init PROVE ForgottenInv
        OBVIOUS
    <2>1. ASSUME NEW r \in Requests
          PROVE  run[r].pending = {} /\ stored[r] = {}
        BY DEF Init
    <2> QED
        BY <2>1, InitIInv DEF ForgottenInv, NotFlushed, FlushedIsForgotten
<1>2. ForgottenInv /\ [Next]_vars => ForgottenInv'
    <2> SUFFICES ASSUME ForgottenInv, [Next]_vars PROVE ForgottenInv'
        OBVIOUS
    <2>1. IInv'
        BY NextIInv DEF ForgottenInv
    <2>2. \A r \in Requests : NotFlushed(r)'
        BY NotFlushedStep
    <2> QED
        BY <2>1, <2>2, ForgottenStep DEF ForgottenInv
<1>3. ForgottenInv => FlushedIsForgotten
    BY DEF ForgottenInv
<1> QED
    BY <1>1, <1>2, <1>3, PTL DEF Spec
=============================================================================
