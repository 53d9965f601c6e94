---------------------------- MODULE StockLedger ----------------------------
(***************************************************************************)
(* The ledger of one SKU (supply.inventory_ledger_entries): each row opens *)
(* with the closing of the row that was the latest when it was made.       *)
(*                                                                         *)
(* A session serves one request, a movement (POST /inventory/movement) or  *)
(* an adjustment (POST /materials/{sku}/adjust), in its own transaction    *)
(* under READ COMMITTED.  SELECT ... ORDER BY date DESC LIMIT 1 FOR UPDATE *)
(* chooses its row when it starts and locks it when it is free: a wait     *)
(* does not make it choose again.  The mirror of the ERP adds rows of its  *)
(* own, dated when the ERP moved the stock.                                *)
(*                                                                         *)
(* Quantities are whole numbers.  One clock dates the rows and no two rows *)
(* have one date; date 0 stands for "no row".                              *)
(***************************************************************************)
EXTENDS Integers, FiniteSets

CONSTANTS
    Sessions,       \* sessions of the API, one request each
    Adjusting,      \* those that serve an adjustment
    Delta,          \* [Sessions -> qty_change of the request]
    Erp,            \* the mirror, as the author of a row
    ErpBalances,    \* balances the ERP may report
    MaxErp          \* bound on the movements of the ERP

ASSUME StockAssumption ==
    /\ Adjusting \subseteq Sessions /\ Erp \notin Sessions
    /\ Delta \in [Sessions -> Int]
    /\ ErpBalances \subseteq Int
    /\ MaxErp \in Nat

VARIABLES
    table,      \* committed rows
    erp,        \* movements of the ERP not mirrored yet, as rows
    clock,      \* date of the newest row, committed or not
    erpMoves,   \* movements of the ERP so far
    pc,         \* [Sessions -> where its request is]
    base,       \* [Sessions -> date of the row its FOR UPDATE chose]
    row,        \* [Sessions -> the row it inserted]
    began       \* [Sessions -> dates of the rows committed before it] (history)

vars == <<table, erp, clock, erpMoves, pc, base, row, began>>

Row == [date : Nat, by : Sessions \cup {Erp}, closing : Int]

\* "inserted": the savepoint is released, the row is not committed.
\* "answered": 200 was returned and the transaction rolled back.
Waiting == {"idle", "checked", "reading", "inserted"}
Ended == {"saved", "answered", "refused", "failed"}

TypeOK ==
    /\ clock \in Nat
    /\ table \subseteq Row /\ erp \subseteq Row
    /\ erpMoves \in 0 .. MaxErp
    /\ pc \in [Sessions -> Waiting \cup Ended \cup {"new"}]
    /\ base \in [Sessions -> 0 .. clock]
    /\ row \in [Sessions -> Row]
    /\ \A r \in table \cup erp : r.date \in 1 .. clock
    /\ \A s \in Sessions : row[s].date <= clock
    /\ began \in [Sessions -> SUBSET (1 .. clock)]

-----------------------------------------------------------------------------
NoRow == [date |-> 0, by |-> Erp, closing |-> 0]

Init ==
    /\ table = {} /\ erp = {}
    /\ clock = 0 /\ erpMoves = 0
    /\ pc = [s \in Sessions |-> "new"]
    /\ base = [s \in Sessions |-> 0]
    /\ row = [s \in Sessions |-> NoRow]
    /\ began = [s \in Sessions |-> {}]

Dates(rows) == {r.date : r \in rows}

\* Mutant: the first row of the ascending order.
IsOldest(r) == r \in table /\ \A q \in table : r.date <= q.date

IsLatest(r) == r \in table /\ \A q \in table : q.date <= r.date

\* What a statement that starts now returns: NoRow from an empty ledger.
LatestRow == IF table = {} THEN NoRow ELSE CHOOSE r \in table : IsLatest(r)

\* Mutant: the clock of this process is ahead of the others'.
SkewedNow == clock + 2

Now == clock + 1

\* on_hand_after over the row the session has locked.
OnHandAfter(s) ==
    LET opening == IF base[s] = 0 THEN 0
                   ELSE (CHOOSE r \in table : r.date = base[s]).closing
    IN  opening + Delta[s]

\* The lock of a row is held from the SELECT to the end of the transaction.
HasLock(s) == pc[s] = "inserted" /\ base[s] # 0

\* Mutant: a transaction that ended keeps its lock.
EverLocked(s) ==
    base[s] = 0 \/ \A t \in Sessions \ {s} : base[t] = base[s] => row[t] = NoRow

MayLock(s) ==
    base[s] = 0 \/ \A t \in Sessions \ {s} : HasLock(t) => base[t] # base[s]

Goes(s, to) == pc' = [pc EXCEPT ![s] = to]

-----------------------------------------------------------------------------
(* A request.                                                               *)

Arrives(s) ==
    /\ pc[s] = "new"
    /\ Goes(s, "idle")
    /\ began' = [began EXCEPT ![s] = Dates(table)]
    /\ UNCHANGED <<table, erp, clock, erpMoves, base, row>>

\* adjust_stock looks at the stock first, without a lock.
AdjustChecks(s) ==
    /\ pc[s] = "idle" /\ s \in Adjusting
    /\ Goes(s, IF LatestRow.closing + Delta[s] < 0 THEN "refused"
               ELSE "checked")
    /\ UNCHANGED <<table, erp, clock, erpMoves, base, row, began>>

\* The FOR UPDATE of record_movement starts.
Reads(s) ==
    /\ IF s \in Adjusting THEN pc[s] = "checked" ELSE pc[s] = "idle"
    /\ Goes(s, "reading")
    /\ base' = [base EXCEPT ![s] = LatestRow.date]
    /\ UNCHANGED <<table, erp, clock, erpMoves, row, began>>

\* It has its lock; the ValueError rolls the savepoint back.
Refuses(s) ==
    /\ pc[s] = "reading" /\ MayLock(s)
    /\ OnHandAfter(s) < 0
    /\ Goes(s, "refused")
    /\ UNCHANGED <<table, erp, clock, erpMoves, base, row, began>>

\* It has its lock; the row is dated and inserted.
Inserts(s) ==
    /\ pc[s] = "reading" /\ MayLock(s)
    /\ OnHandAfter(s) >= 0
    /\ Goes(s, "inserted")
    /\ row' = [row EXCEPT ![s] =
                 [date |-> Now, by |-> s, closing |-> OnHandAfter(s)]]
    /\ clock' = clock + 1
    /\ UNCHANGED <<table, erp, erpMoves, base, began>>

\* The movement endpoint commits.
Saves(s) ==
    /\ pc[s] = "inserted" /\ s \notin Adjusting
    /\ table' = table \cup {row[s]}
    /\ Goes(s, "saved")
    /\ UNCHANGED <<erp, clock, erpMoves, base, row, began>>

\* The adjust endpoint does not, and get_session commits only a session with
\* something dirty, new or deleted: after the flush nothing is.
AnswersUnsaved(s) ==
    /\ pc[s] = "inserted" /\ s \in Adjusting
    /\ Goes(s, "answered")
    /\ UNCHANGED <<table, erp, clock, erpMoves, base, row, began>>

\* Mutant: the end of the savepoint keeps the row, whatever the request does.
FailsKeeping(s) ==
    /\ pc[s] \in Waiting
    /\ Goes(s, "failed")
    /\ table' = table \cup (IF pc[s] = "inserted" THEN {row[s]} ELSE {})
    /\ UNCHANGED <<erp, clock, erpMoves, base, row, began>>

\* An error, a cancelled request or a crash: everything is rolled back.
Fails(s) ==
    /\ pc[s] \in Waiting
    /\ Goes(s, "failed")
    /\ UNCHANGED <<table, erp, clock, erpMoves, base, row, began>>

-----------------------------------------------------------------------------
(* The ERP and its mirror.                                                  *)

ErpMovesStock ==
    /\ erpMoves < MaxErp
    /\ erpMoves' = erpMoves + 1
    /\ \E b \in ErpBalances :
          erp' = erp \cup {[date |-> Now, by |-> Erp, closing |-> b]}
    /\ clock' = clock + 1
    /\ UNCHANGED <<table, pc, base, row, began>>

\* mirror_inventory_ledger; a movement mirrored before is not changed.
Mirrors ==
    /\ erp # {}
    /\ table' = table \cup erp
    /\ erp' = {}
    /\ UNCHANGED <<clock, erpMoves, pc, base, row, began>>

Request(s) ==
    \/ Arrives(s) \/ AdjustChecks(s) \/ Reads(s)
    \/ Refuses(s) \/ Inserts(s)
    \/ Saves(s) \/ AnswersUnsaved(s) \/ Fails(s)

Next == (\E s \in Sessions : Request(s)) \/ ErpMovesStock \/ Mirrors

Spec == Init /\ [][Next]_vars

\* A request that has arrived is not left alone: the event loop runs it, and
\* PostgreSQL hands a lock that is released to a session that waits for it.
Progress(s) ==
    \/ AdjustChecks(s) \/ Reads(s) \/ Refuses(s) \/ Inserts(s)
    \/ Saves(s) \/ AnswersUnsaved(s)

Fairness == \A s \in Sessions : WF_vars(Progress(s))

FairSpec == Spec /\ Fairness

-----------------------------------------------------------------------------
(* What holds of the rows in every reachable state (for the proofs).        *)

HasLatest(rows) == rows # {} => \E r \in rows : \A q \in rows : q.date <= r.date

\* What a request has read and written, against what it could see.
RequestInv(s) ==
    /\ pc[s] = "reading" => base[s] = 0 \/ base[s] \in Dates(table)
    /\ pc[s] = "reading" \/ row[s] # NoRow => \A d \in began[s] : d <= base[s]
    /\ pc[s] = "new" => row[s] = NoRow
    /\ pc[s] = "inserted" => row[s] # NoRow
    /\ row[s] # NoRow => row[s].date > 0
    /\ pc[s] \in {"idle", "checked"} => began[s] \subseteq Dates(table)

LedgerInv ==
    /\ HasLatest(table) /\ HasLatest(erp)
    /\ \A s \in Sessions : RequestInv(s)
    /\ \A r \in erp : r.by = Erp

-----------------------------------------------------------------------------
(* Properties.                                                              *)

Saved(s) == pc[s] = "saved"

\* A movement that was saved before another request came is never opened
\* over: movements that share their opening row were in flight together
\* (record_movement's ORDER BY date DESC over dates of the insert).
OnlyOverlappingShare ==
    \A s, t \in Sessions :
        Saved(s) /\ row[t] # NoRow /\ row[s].date \in began[t] =>
            base[t] >= row[s].date

\* The row of s closes at its opening, a committed row or the empty ledger,
\* changed by the quantity of its request.
Balanced(s) ==
    \E o \in table \cup {NoRow} :
        /\ o.date = base[s] /\ o.date < row[s].date
        /\ row[s].closing = o.closing + Delta[s]

\* A movement on hand is the whole of one saved request, and it closes over an
\* older row that is on hand still: no row is taken back that another one was
\* computed from, and none is computed from a row that was never committed,
\* whoever overlaps, fails, or is mirrored beside it.
MovementsBalance ==
    \A r \in table : r.by # Erp =>
        Saved(r.by) /\ r = row[r.by] /\ Balanced(r.by)

\* A request that has arrived is answered or fails, also when it waits for
\* the row that another request has locked (no lock_timeout is needed).
RequestEnds ==
    \A s \in Sessions : pc[s] = "idle" ~> pc[s] \in Ended

=============================================================================
