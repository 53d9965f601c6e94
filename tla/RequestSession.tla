---------------------------- MODULE RequestSession ----------------------------
(***************************************************************************)
(* The unit of work of a request (shared.database.get_session).            *)
(*                                                                         *)
(* A handler adds and changes objects of its session; a flush sends them   *)
(* to the database inside the open transaction; a commit stores what was   *)
(* sent.  When the handler has returned and its answer is out, get_session *)
(* commits, but only if the session still holds objects that were not     *)
(* flushed; otherwise it closes the session, which rolls back.  Sessions   *)
(* do not flush by themselves (autoflush=False).                           *)
(*                                                                         *)
(* What a handler does is its Script; module WriteHandlers holds the       *)
(* scripts of the handlers of this program.                                *)
(***************************************************************************)
EXTENDS Naturals, Sequences

CONSTANTS
    Requests,   \* requests that can be in flight
    Handlers,
    Script,     \* the steps of each handler
    Durable,    \* handlers that commit themselves
    Saved,      \* handlers that leave the commit to get_session
    Flushing,   \* handlers that flush what they do and commit nothing
    Early       \* handlers that publish rows before they commit them

\* "check": may refuse; "settled": may find that there is nothing to do;
\* "write": session.add, delete, a changed attribute, an audit row;
\* "sql": an INSERT, UPDATE or DELETE statement; "publish": an event.
Steps == {"check", "settled", "write", "sql", "flush", "commit", "publish"}

ASSUME ScriptAssumption ==
    /\ Script \in [Handlers -> Seq(Steps)]
    /\ Durable \subseteq Handlers /\ Saved \subseteq Handlers
    /\ Flushing \subseteq Handlers /\ Early \subseteq Durable \cup Flushing

-----------------------------------------------------------------------------
(* The shapes of scripts: what a handler is classed for.                    *)

RowSteps == {"write", "sql"}

CommitsIn(s) == {i \in 1 .. Len(s) : s[i] = "commit"}

\* Where a handler may end: after its last step, or where it finds nothing.
EndsAt(s, k) == k = Len(s) + 1 \/ (k \in 1 .. Len(s) /\ s[k] = "settled")

Rows(s, k) == {i \in 1 .. k - 1 : s[i] \in RowSteps}

\* The steps kinds come between steps i and k of a script.
Between(s, i, k, kinds) == \E j \in i + 1 .. k - 1 : s[j] \in kinds

\* Wherever the handler ends, every row it has made comes before a commit.
CommitsLast(s) ==
    \A k \in 1 .. Len(s) + 1 : EndsAt(s, k) =>
        \A i \in Rows(s, k) : Between(s, i, k, {"commit"})

\* Wherever the handler ends with rows made, one is neither flushed nor
\* committed.
EndsDirty(s) ==
    \A k \in 1 .. Len(s) + 1 : EndsAt(s, k) /\ Rows(s, k) # {} =>
        \E i \in 1 .. k - 1 :
            s[i] = "write" /\ ~Between(s, i, k, {"flush", "commit"})

\* Wherever the handler ends, every object is flushed; there is no commit.
EndsFlushed(s) ==
    /\ CommitsIn(s) = {}
    /\ \A k \in 1 .. Len(s) + 1 : EndsAt(s, k) =>
         \A i \in 1 .. k - 1 : s[i] = "write" => Between(s, i, k, {"flush"})

\* Every row made before an event comes before a commit before it.
PublishesLast(s) ==
    \A k \in 1 .. Len(s) : s[k] = "publish" =>
        \A i \in Rows(s, k) : Between(s, i, k, {"commit"})

ASSUME ShapeAssumption ==
    /\ \A h \in Durable : CommitsLast(Script[h])
    /\ \A h \in Saved : EndsDirty(Script[h])
    /\ \A h \in Flushing : EndsFlushed(Script[h])
    /\ \A h \in Handlers : h \in Early <=> ~PublishesLast(Script[h])

-----------------------------------------------------------------------------
VARIABLES
    run,        \* [Requests -> Run]
    stored,     \* rows of each request that are committed
    announced   \* rows of each request that an event was published about

vars == <<run, stored, announced>>

\* A row is known by the step that makes it.  "answered": 2xx is out, the
\* session is still open; "closed": it ended in order; "lost": it did not.
Run == [handler : Handlers,
        phase   : {"idle", "running", "answered", "closed", "lost", "failed"},
        pc      : Nat \ {0},    \* the step it takes next
        pending : SUBSET Nat,   \* in session.new, dirty or deleted
        sent    : SUBSET Nat]   \* sent in the open transaction

\* Every request is of its type, and only rows of its script are anywhere.
TypeOK ==
    /\ run \in [Requests -> Run]
    /\ stored \in [Requests -> SUBSET Nat]
    /\ announced \in [Requests -> SUBSET Nat]
    /\ \A r \in Requests :
         /\ run[r].pc \in 1 .. Len(Script[run[r].handler]) + 1
         /\ run[r].pending \cup run[r].sent \cup stored[r] \cup announced[r]
              \subseteq 1 .. run[r].pc - 1

Init ==
    /\ run \in [Requests -> {[handler |-> h, phase |-> "idle", pc |-> 1,
                              pending |-> {}, sent |-> {}] : h \in Handlers}]
    /\ stored = [r \in Requests |-> {}]
    /\ announced = [r \in Requests |-> {}]

-----------------------------------------------------------------------------
Todo(r) == Script[run[r].handler]

At(r, step) ==
    /\ run[r].phase = "running"
    /\ run[r].pc <= Len(Todo(r))
    /\ Todo(r)[run[r].pc] = step

\* Mutant: a step is skipped.
Skips(r, pending, sent) ==
    run' = [run EXCEPT ![r].pc = @ + 2, ![r].pending = pending, ![r].sent = sent]

Moves(r, pending, sent) ==
    run' = [run EXCEPT ![r].pc = @ + 1, ![r].pending = pending, ![r].sent = sent]

\* The transaction is over, one way or the other.
Ends(r, phase) ==
    run' = [run EXCEPT ![r].phase = phase, ![r].pending = {}, ![r].sent = {}]

Begins(r) ==
    /\ run[r].phase = "idle"
    /\ run' = [run EXCEPT ![r].phase = "running"]
    /\ UNCHANGED <<stored, announced>>

Checks(r) ==
    /\ At(r, "check") \/ At(r, "settled")
    /\ Moves(r, run[r].pending, run[r].sent)
    /\ UNCHANGED <<stored, announced>>

Writes(r) ==
    /\ At(r, "write")
    /\ Moves(r, run[r].pending \cup {run[r].pc}, run[r].sent)
    /\ UNCHANGED <<stored, announced>>

\* session.execute goes to the database at once and marks nothing.
Executes(r) ==
    /\ At(r, "sql")
    /\ Moves(r, run[r].pending, run[r].sent \cup {run[r].pc})
    /\ UNCHANGED <<stored, announced>>

\* session.flush(), and the two ends of begin_nested().
Flushes(r) ==
    /\ At(r, "flush")
    /\ Moves(r, {}, run[r].sent \cup run[r].pending)
    /\ UNCHANGED <<stored, announced>>

Stores(r) == stored[r] \cup run[r].sent \cup run[r].pending

\* Mutant: the commit of the handler is left to the end of the session.
CommitsLater(r) ==
    /\ At(r, "commit")
    /\ Moves(r, run[r].pending, run[r].sent)
    /\ UNCHANGED <<stored, announced>>

Commits(r) ==
    /\ At(r, "commit")
    /\ stored' = [stored EXCEPT ![r] = Stores(r)]
    /\ Moves(r, {}, {})
    /\ UNCHANGED announced

Publishes(r) ==
    /\ At(r, "publish")
    /\ announced' = [announced EXCEPT ![r] = Stores(r)]
    /\ Moves(r, run[r].pending, run[r].sent)
    /\ UNCHANGED stored

\* Mutant: what was sent before the error is committed (a commit in finally).
FailsWithCommit(r) ==
    /\ run[r].phase = "running"
    /\ stored' = [stored EXCEPT ![r] = @ \cup run[r].sent]
    /\ Ends(r, "failed")
    /\ UNCHANGED announced

\* A refusal, a database error or any exception: rollback.
StepFails(r) ==
    /\ run[r].phase = "running"
    /\ Ends(r, "failed")
    /\ UNCHANGED <<stored, announced>>

\* Mutant: the answer is out before the handler's own commit.
AnswersFirst(r) ==
    /\ run[r].phase = "running"
    /\ run[r].pc > Len(Todo(r)) \/ At(r, "settled") \/ At(r, "commit")
    /\ run' = [run EXCEPT ![r].phase = "answered"]
    /\ UNCHANGED <<stored, announced>>

\* The answer goes out before get_session resumes.
Answers(r) ==
    /\ run[r].phase = "running"
    /\ run[r].pc > Len(Todo(r)) \/ At(r, "settled")
    /\ run' = [run EXCEPT ![r].phase = "answered"]
    /\ UNCHANGED <<stored, announced>>

\* Mutants: get_session only closes the session; it always commits.
NeverDirty(r) == FALSE
AlwaysDirty(r) == TRUE

\* session.dirty or session.new or session.deleted
Dirty(r) == run[r].pending # {}

Closes(r) ==
    /\ run[r].phase = "answered"
    /\ stored' = IF Dirty(r) THEN [stored EXCEPT ![r] = Stores(r)] ELSE stored
    /\ Ends(r, "closed")
    /\ UNCHANGED announced

\* The last commit fails, or the process dies: the client has its 2xx.
CloseFails(r) ==
    /\ run[r].phase = "answered"
    /\ Ends(r, "lost")
    /\ UNCHANGED <<stored, announced>>

Next ==
    \E r \in Requests :
        \/ Begins(r) \/ Checks(r) \/ Writes(r) \/ Executes(r) \/ Flushes(r)
        \/ Commits(r) \/ Publishes(r)
        \/ StepFails(r) \/ Answers(r) \/ Closes(r) \/ CloseFails(r)

Spec == Init /\ [][Next]_vars

-----------------------------------------------------------------------------
(* Properties.                                                              *)

\* The rows r has made so far.
Made(r) == Rows(Todo(r), run[r].pc)

\* A handler that commits itself tells the client the truth: once the 2xx is
\* out, what it did is stored, also when the process dies, or get_session
\* fails, between the answer and the end of the session.
AnswerIsStored ==
    \A r \in Requests :
        /\ run[r].handler \in Durable
        /\ run[r].phase \in {"answered", "closed", "lost"}
        => Made(r) \subseteq stored[r]

\* A handler that relies on get_session has left something unflushed for it
\* to see: nothing of what it did is rolled back at an orderly end.
SavedAtTheEnd ==
    \A r \in Requests :
        run[r].handler \in Saved /\ run[r].phase = "closed"
            => Made(r) \subseteq stored[r]

\* A handler with one commit, its own or that of get_session, stores all it
\* has done or nothing, wherever it fails; an audit row goes with its change.
AllOrNothing ==
    \A r \in Requests :
        /\ \A i, j \in CommitsIn(Todo(r)) : i = j
        /\ \/ run[r].handler \in Durable
           \/ run[r].handler \in Saved /\ CommitsIn(Todo(r)) = {}
        => stored[r] \in {{}, Made(r)}

\* Consumers are told of rows that are stored, at every moment of every
\* handler but the early ones.  An early handler that commits has told the
\* truth once it has answered: only its failure leaves an event about rows
\* that were rolled back.  One that only flushes never has.
AnnouncedIsStored ==
    \A r \in Requests :
        \/ run[r].handler \notin Early
        \/ /\ run[r].handler \in Durable
           /\ run[r].phase \in {"answered", "closed", "lost"}
        => announced[r] \subseteq stored[r]

\* A handler that flushes all it does and commits nothing stores nothing, in
\* any run and although it answers 2xx: get_session finds the session clean.
FlushedIsForgotten ==
    \A r \in Requests : run[r].handler \in Flushing => stored[r] = {}

\* What every handler's docstring says: what was answered is stored, unless
\* something failed.
AnswersKept ==
    \A r \in Requests :
        run[r].phase = "closed" => Made(r) \subseteq stored[r]
=============================================================================
