------------------------ MODULE StockLedger_proofs ------------------------
(* Proofs about StockLedger: the types, the books that balance whatever is  *)
(* rolled back, and movements that share an opening only when they overlap. *)
EXTENDS StockLedger, TLAPS

IInv == TypeOK /\ LedgerInv

\* NoRow is a row of date 0.
LEMMA NoRowType == NoRow \in Row /\ NoRow.date = 0 /\ NoRow.closing = 0
BY DEF NoRow, Row

\* A statement that starts now returns a row at least as new as any other.
LEMMA LatestRowFacts ==
    ASSUME TypeOK, HasLatest(table)
    PROVE  /\ LatestRow \in Row
           /\ LatestRow.date = 0 \/ LatestRow.date \in Dates(table)
           /\ LatestRow.date \in 0 .. clock
           /\ \A d \in Dates(table) : d <= LatestRow.date
<1>1. CASE table = {}
    BY <1>1, NoRowType DEF LatestRow, Dates, TypeOK
<1>2. CASE table # {}
  <2>1. \E r \in table : IsLatest(r)
      BY <1>2 DEF HasLatest, IsLatest
  <2>2. LatestRow \in table /\ IsLatest(LatestRow)
      BY <1>2, <2>1 DEF LatestRow
  <2> QED
      BY <2>2 DEF IsLatest, Dates, TypeOK
<1> QED
    BY <1>1, <1>2

\* What a movement would leave on hand is a number.
LEMMA OnHandType ==
    ASSUME TypeOK, LedgerInv, NEW s \in Sessions, pc[s] = "reading"
    PROVE  OnHandAfter(s) \in Int
<1>1. Delta[s] \in Int
    BY StockAssumption
<1>2. CASE base[s] = 0
    BY <1>1, <1>2 DEF OnHandAfter
<1>3. CASE base[s] # 0
  <2>1. \E r \in table : r.date = base[s]
      BY <1>3 DEF LedgerInv, RequestInv, Dates
  <2>2. (CHOOSE r \in table : r.date = base[s]) \in table
      BY <2>1
  <2>3. (CHOOSE r \in table : r.date = base[s]).closing \in Int
      BY <2>2 DEF TypeOK, Row
  <2> QED
      BY <1>1, <1>3, <2>3 DEF OnHandAfter
<1> QED
    BY <1>2, <1>3

\* Two sets of rows with a latest row have one together.
LEMMA LatestOfUnion ==
    ASSUME NEW A \in SUBSET Row, NEW B \in SUBSET Row,
           HasLatest(A), HasLatest(B)
    PROVE  HasLatest(A \cup B)
<1>1. CASE A = {} \/ B = {}
    BY <1>1 DEF HasLatest
<1>2. CASE A # {} /\ B # {}
  <2>1. PICK a \in A : \A q \in A : q.date <= a.date
      BY <1>2 DEF HasLatest
  <2>2. PICK b \in B : \A q \in B : q.date <= b.date
      BY <1>2 DEF HasLatest
  <2>3. \A q \in A \cup B : q.date \in Nat
      BY DEF Row
  <2>4. CASE a.date <= b.date
      BY <2>1, <2>2, <2>3, <2>4 DEF HasLatest
  <2>5. CASE b.date <= a.date
      BY <2>1, <2>2, <2>3, <2>5 DEF HasLatest
  <2> QED
      BY <2>3, <2>4, <2>5
<1> QED
    BY <1>1, <1>2

\* A single row is the latest of itself.
LEMMA LatestOfOne ==
    ASSUME NEW r \in Row
    PROVE  HasLatest({r})
BY DEF HasLatest, Row

\* The ledger starts empty and nobody has asked.
LEMMA InitIInv == Init => IInv
<1> SUFFICES ASSUME Init PROVE IInv
    OBVIOUS
<1>1. TypeOK
    BY NoRowType, StockAssumption DEF Init, TypeOK, Waiting, Ended
<1>2. LedgerInv
    BY NoRowType DEF Init, LedgerInv, RequestInv, HasLatest
<1> QED
    BY <1>1, <1>2 DEF IInv

\* A request that a step leaves alone stays right when the ledger grows.
LEMMA OtherRequest ==
    ASSUME LedgerInv, NEW t \in Sessions, table \subseteq table',
           pc'[t] = pc[t], base'[t] = base[t],
           row'[t] = row[t], began'[t] = began[t]
    PROVE  RequestInv(t)'
<1>1. RequestInv(t)
    BY DEF LedgerInv
<1>2. Dates(table) \subseteq Dates(table)'
    BY DEF Dates
<1> QED
    BY <1>1, <1>2 DEF RequestInv

\* A step that only moves pc[s] onwards, with no new obligation for s.
LEMMA OnlyMoves ==
    ASSUME IInv, NEW s \in Sessions, NEW to \in Ended \cup {"checked"},
           pc[s] \in Waiting, to = "checked" => pc[s] = "idle",
           Goes(s, to),
           UNCHANGED <<table, erp, clock, erpMoves, base, row, began>>
    PROVE  IInv'
<1>0. TypeOK /\ LedgerInv
    BY DEF IInv
<1>1. TypeOK'
  <2>1. pc' \in [Sessions -> Waiting \cup Ended \cup {"new"}]
      BY <1>0 DEF TypeOK, Goes, Waiting
  <2> QED
      BY <1>0, <2>1 DEF TypeOK
<1>2. ASSUME NEW t \in Sessions PROVE RequestInv(t)'
  <2>1. CASE t # s
      BY <1>0, <2>1, OtherRequest DEF Goes, TypeOK
  <2>2. CASE t = s
    <3>1. RequestInv(s) /\ pc'[s] = to
        BY <1>0 DEF LedgerInv, TypeOK, Goes
    <3>2. Dates(table)' = Dates(table)
        BY DEF Dates
    <3> QED
        BY <2>2, <3>1, <3>2 DEF RequestInv, Ended, Waiting
  <2> QED
      BY <2>1, <2>2
<1> QED
    BY <1>0, <1>1, <1>2 DEF IInv, LedgerInv, HasLatest

\* What a request that comes finds committed.
LEMMA ArrivesStep ==
    ASSUME IInv, NEW s \in Sessions, Arrives(s)
    PROVE  IInv'
<1>0. TypeOK /\ LedgerInv
    BY DEF IInv
<1>1. TypeOK'
  <2>1. pc' \in [Sessions -> Waiting \cup Ended \cup {"new"}]
      BY <1>0 DEF TypeOK, Arrives, Goes, Waiting
  <2>2. began' \in [Sessions -> SUBSET (1 .. clock)]
      BY <1>0 DEF TypeOK, Arrives, Dates
  <2> QED
      BY <1>0, <2>1, <2>2 DEF TypeOK, Arrives
<1>2. ASSUME NEW t \in Sessions PROVE RequestInv(t)'
  <2>1. CASE t # s
      BY <1>0, <2>1, OtherRequest DEF Arrives, Goes, TypeOK
  <2>2. CASE t = s
    <3>1. pc'[s] = "idle" /\ began'[s] = Dates(table) /\ row'[s] = NoRow
        BY <1>0 DEF Arrives, Goes, TypeOK, LedgerInv, RequestInv
    <3>2. Dates(table)' = Dates(table)
        BY DEF Dates, Arrives
    <3> QED
        BY <2>2, <3>1, <3>2 DEF RequestInv
  <2> QED
      BY <2>1, <2>2
<1> QED
    BY <1>0, <1>1, <1>2 DEF IInv, LedgerInv, HasLatest, Arrives

\* The row it chooses is as new as every row committed before it came.
LEMMA ReadsStep ==
    ASSUME IInv, NEW s \in Sessions, Reads(s)
    PROVE  IInv'
<1>0. TypeOK /\ LedgerInv
    BY DEF IInv
<1>3. /\ LatestRow.date = 0 \/ LatestRow.date \in Dates(table)
      /\ LatestRow.date \in 0 .. clock
      /\ \A d \in Dates(table) : d <= LatestRow.date
    BY <1>0, LatestRowFacts DEF LedgerInv
<1>1. TypeOK'
    BY <1>0, <1>3 DEF TypeOK, Reads, Goes, Waiting
<1>2. ASSUME NEW t \in Sessions PROVE RequestInv(t)'
  <2>1. CASE t # s
      BY <1>0, <2>1, OtherRequest DEF Reads, Goes, TypeOK
  <2>2. CASE t = s
    <3>1. /\ pc'[s] = "reading" /\ base'[s] = LatestRow.date
          /\ row'[s] = row[s] /\ began'[s] = began[s]
        BY <1>0 DEF Reads, Goes, TypeOK
    <3>2. pc[s] \in {"idle", "checked"} /\ RequestInv(s)
        BY <1>0 DEF Reads, LedgerInv
    <3>3. Dates(table)' = Dates(table)
        BY DEF Dates, Reads
    <3> QED
        BY <1>3, <2>2, <3>1, <3>2, <3>3 DEF RequestInv
  <2> QED
      BY <2>1, <2>2
<1> QED
    BY <1>0, <1>1, <1>2 DEF IInv, LedgerInv, HasLatest, Reads

\* The new row is newer than all others.
LEMMA InsertsStep ==
    ASSUME IInv, NEW s \in Sessions, Inserts(s)
    PROVE  IInv'
<1>0. TypeOK /\ LedgerInv
    BY DEF IInv
<1>3. OnHandAfter(s) \in Int
    BY <1>0, OnHandType DEF Inserts
<1> DEFINE new == [date |-> Now, by |-> s, closing |-> OnHandAfter(s)]
<1>4. /\ new \in Row /\ new # NoRow
      /\ new.date = clock + 1 /\ new.date > 0
    BY <1>0, <1>3, NoRowType DEF Row, Now, TypeOK
<1>5. /\ row' = [row EXCEPT ![s] = new]
      /\ pc' = [pc EXCEPT ![s] = "inserted"] /\ clock' = clock + 1
    BY DEF Inserts, Goes
<1> HIDE DEF new
<1>1. TypeOK'
  <2>1. pc' \in [Sessions -> Waiting \cup Ended \cup {"new"}]
      BY <1>0, <1>5 DEF TypeOK, Waiting
  <2>2. row' \in [Sessions -> Row]
      BY <1>0, <1>4, <1>5 DEF TypeOK
  <2>3. \A t \in Sessions : row'[t].date <= clock'
      BY <1>0, <1>4, <1>5 DEF TypeOK, Row
  <2>4. base \in [Sessions -> 0 .. clock'] /\ clock' \in Nat
      BY <1>0, <1>5 DEF TypeOK
  <2>5. began \in [Sessions -> SUBSET (1 .. clock')]
      BY <1>0, <1>5 DEF TypeOK
  <2>6. \A r \in table \cup erp : r.date \in 1 .. clock'
      BY <1>0, <1>5 DEF TypeOK
  <2> QED
      BY <1>0, <2>1, <2>2, <2>3, <2>4, <2>5, <2>6 DEF TypeOK, Inserts
<1>2. ASSUME NEW t \in Sessions PROVE RequestInv(t)'
  <2>1. CASE t # s
      BY <1>0, <1>5, <2>1, OtherRequest DEF Inserts, TypeOK
  <2>2. CASE t = s
    <3>1. /\ pc'[s] = "inserted" /\ row'[s] = new
          /\ base'[s] = base[s] /\ began'[s] = began[s]
        BY <1>0, <1>5 DEF Inserts, TypeOK
    <3>2. pc[s] = "reading" /\ RequestInv(s)
        BY <1>0 DEF Inserts, LedgerInv
    <3> QED
        BY <1>4, <2>2, <3>1, <3>2 DEF RequestInv
  <2> QED
      BY <2>1, <2>2
<1> QED
    BY <1>0, <1>1, <1>2 DEF IInv, LedgerInv, HasLatest, Inserts

\* A commit shows the row it inserted.
LEMMA SavesStep ==
    ASSUME IInv, NEW s \in Sessions, Saves(s)
    PROVE  IInv'
<1>0. TypeOK /\ LedgerInv
    BY DEF IInv
<1>3. RequestInv(s) /\ row[s] # NoRow /\ row[s] \in Row
    BY <1>0 DEF LedgerInv, RequestInv, Saves, TypeOK
<1>4. table' = table \cup {row[s]}
    BY DEF Saves
<1>5. HasLatest(table)'
    BY <1>0, <1>3, <1>4, LatestOfUnion, LatestOfOne DEF LedgerInv, TypeOK
<1>6. row[s].date \in 1 .. clock
    BY <1>0, <1>3 DEF RequestInv, TypeOK, Row
<1>1. TypeOK'
    BY <1>0, <1>3, <1>4, <1>6 DEF TypeOK, Saves, Goes, Ended
<1>2. ASSUME NEW t \in Sessions PROVE RequestInv(t)'
  <2>1. CASE t # s
      BY <1>0, <1>4, <2>1, OtherRequest DEF Saves, Goes, TypeOK
  <2>2. CASE t = s
    <3>1. /\ pc'[s] = "saved" /\ row'[s] = row[s]
          /\ base'[s] = base[s] /\ began'[s] = began[s]
        BY <1>0 DEF Saves, Goes, TypeOK
    <3> QED
        BY <1>3, <2>2, <3>1 DEF RequestInv
  <2> QED
      BY <2>1, <2>2
<1> QED
    BY <1>0, <1>1, <1>2, <1>3, <1>4, <1>5 DEF IInv, LedgerInv, HasLatest, Saves, RequestInv

\* What the ERP reports is newer than every row, and has no author here.
LEMMA ErpStep ==
    ASSUME IInv, ErpMovesStock
    PROVE  IInv'
<1>0. TypeOK /\ LedgerInv
    BY DEF IInv
<1>1. PICK b \in ErpBalances :
         erp' = erp \cup {[date |-> Now, by |-> Erp, closing |-> b]}
    BY DEF ErpMovesStock
<1> DEFINE new == [date |-> Now, by |-> Erp, closing |-> b]
<1>2. new \in Row /\ new.date = clock + 1 /\ new.by = Erp
    BY <1>0, StockAssumption DEF Row, Now, TypeOK
<1>3. erp' = erp \cup {new}
    BY <1>1
<1> HIDE DEF new
<1>4. TypeOK'
  <2>1. clock' = clock + 1 /\ clock \in Nat
      BY <1>0 DEF TypeOK, ErpMovesStock
  <2>2. base \in [Sessions -> 0 .. clock'] /\ clock' \in Nat
      BY <1>0, <2>1 DEF TypeOK
  <2>3. began \in [Sessions -> SUBSET (1 .. clock')]
      BY <1>0, <2>1 DEF TypeOK
  <2>4. \A r \in table \cup erp' : r.date \in 1 .. clock'
      BY <1>0, <1>2, <1>3, <2>1 DEF TypeOK
  <2>5. \A t \in Sessions : row[t].date <= clock'
      BY <1>0, <2>1 DEF TypeOK, Row
  <2>6. erpMoves' \in 0 .. MaxErp
      BY <1>0, StockAssumption DEF TypeOK, ErpMovesStock
  <2>7. erp' \subseteq Row
      BY <1>0, <1>2, <1>3 DEF TypeOK
  <2> QED
      BY <1>0, <2>2, <2>3, <2>4, <2>5, <2>6, <2>7 DEF TypeOK, ErpMovesStock
<1>5. HasLatest(erp)'
    BY <1>0, <1>2, <1>3, LatestOfUnion, LatestOfOne DEF LedgerInv, TypeOK
<1>6. \A t \in Sessions : RequestInv(t)'
    BY <1>0, OtherRequest DEF ErpMovesStock
<1> QED
    BY <1>0, <1>2, <1>3, <1>4, <1>5, <1>6
    DEF IInv, LedgerInv, HasLatest, ErpMovesStock

\* The mirror adds rows, whatever their dates.
LEMMA MirrorsStep ==
    ASSUME IInv, Mirrors
    PROVE  IInv'
<1>0. TypeOK /\ LedgerInv
    BY DEF IInv
<1>1. TypeOK'
    BY <1>0 DEF TypeOK, Mirrors
<1>2. HasLatest(table)'
    BY <1>0, LatestOfUnion DEF LedgerInv, TypeOK, Mirrors
<1>3. HasLatest(erp)'
    BY DEF HasLatest, Mirrors
<1>4. \A t \in Sessions : RequestInv(t)'
    BY <1>0, OtherRequest DEF Mirrors
<1> QED
    BY <1>0, <1>1, <1>2, <1>3, <1>4 DEF IInv, LedgerInv, Mirrors

\* Every step keeps the invariant.
LEMMA NextIInv == IInv /\ [Next]_vars => IInv'
<1> SUFFICES ASSUME IInv, [Next]_vars PROVE IInv'
    OBVIOUS
<1>1. ASSUME NEW s \in Sessions, Arrives(s) PROVE IInv'
    BY <1>1, ArrivesStep
<1>2. ASSUME NEW s \in Sessions, AdjustChecks(s) PROVE IInv'
  <2>1. CASE LatestRow.closing + Delta[s] < 0
      BY <1>2, <2>1, OnlyMoves DEF AdjustChecks, Ended, Waiting
  <2>2. CASE ~(LatestRow.closing + Delta[s] < 0)
      BY <1>2, <2>2, OnlyMoves DEF AdjustChecks, Ended, Waiting
  <2> QED
      BY <2>1, <2>2
<1>3. ASSUME NEW s \in Sessions, Reads(s) PROVE IInv'
    BY <1>3, ReadsStep
<1>4. ASSUME NEW s \in Sessions, Refuses(s) PROVE IInv'
    BY <1>4, OnlyMoves DEF Refuses, Ended, Waiting
<1>5. ASSUME NEW s \in Sessions, Inserts(s) PROVE IInv'
    BY <1>5, InsertsStep
<1>6. ASSUME NEW s \in Sessions, Saves(s) PROVE IInv'
    BY <1>6, SavesStep
<1>7. ASSUME NEW s \in Sessions, AnswersUnsaved(s) PROVE IInv'
    BY <1>7, OnlyMoves DEF AnswersUnsaved, Ended, Waiting
<1>8. ASSUME NEW s \in Sessions, Fails(s) PROVE IInv'
    BY <1>8, OnlyMoves DEF Fails, Ended
<1>9. CASE UNCHANGED vars
  <2>1. TypeOK'
      BY <1>9 DEF vars, IInv, TypeOK
  <2>2. \A t \in Sessions : RequestInv(t)'
      BY <1>9, OtherRequest DEF vars, IInv
  <2> QED
      BY <1>9, <2>1, <2>2 DEF vars, IInv, LedgerInv, HasLatest
<1> QED
    BY <1>1, <1>2, <1>3, <1>4, <1>5, <1>6, <1>7, <1>8, <1>9, ErpStep, MirrorsStep
    DEF Next, Request

\* The invariant of the proofs holds in every reachable state.
THEOREM Invariance == Spec => []IInv
BY InitIInv, NextIInv, PTL DEF Spec

\* The ledger and the requests keep their types.
THEOREM TypeCorrect == Spec => []TypeOK
<1>1. IInv => TypeOK
    BY DEF IInv
<1> QED
    BY <1>1, Invariance, PTL

\* Only movements in flight together open on the same row.
THEOREM SharingNeedsOverlap == Spec => []OnlyOverlappingShare
<1>1. IInv => OnlyOverlappingShare
    BY DEF IInv, LedgerInv, RequestInv, OnlyOverlappingShare
<1> QED
    BY <1>1, Invariance, PTL

-----------------------------------------------------------------------------
(* The row locks.                                                           *)

\* The lock of the FOR UPDATE is exclusive: of the movements that opened on one
\* row, at most one has inserted and not ended.  The others wait for it, and it
\* waits for nobody.
OneHolder ==
    \A s, t \in Sessions : HasLock(s) /\ HasLock(t) /\ base[s] = base[t] => s = t

\* A step that gives no lock and changes no base keeps OneHolder.
LEMMA NoNewHolder ==
    ASSUME OneHolder, base' = base, \A t \in Sessions : HasLock(t)' => HasLock(t)
    PROVE  OneHolder'
BY DEF OneHolder

LEMMA NextOneHolder == TypeOK /\ OneHolder /\ [Next]_vars => OneHolder'
<1> SUFFICES ASSUME TypeOK, OneHolder, [Next]_vars PROVE OneHolder'
    OBVIOUS
<1>1. ASSUME NEW s \in Sessions, NEW to, to # "inserted", Goes(s, to), base' = base
      PROVE  OneHolder'
  <2>1. \A t \in Sessions : HasLock(t)' => HasLock(t)
      BY <1>1 DEF Goes, HasLock, TypeOK
  <2> QED
      BY <1>1, <2>1, NoNewHolder
<1>2. ASSUME NEW s \in Sessions, Reads(s) PROVE OneHolder'
  <2>1. \A t \in Sessions : HasLock(t)' => HasLock(t) /\ t # s /\ base'[t] = base[t]
      BY <1>2 DEF Reads, Goes, HasLock, TypeOK
  <2> QED
      BY <2>1 DEF OneHolder
<1>3. ASSUME NEW s \in Sessions, Inserts(s) PROVE OneHolder'
  <2>1. /\ MayLock(s) /\ base' = base
        /\ \A t \in Sessions : HasLock(t)' => HasLock(t) \/ t = s
      BY <1>3 DEF Inserts, Goes, HasLock, TypeOK
  <2>2. ASSUME NEW t \in Sessions \ {s}, HasLock(t), base[t] = base[s], HasLock(s)'
        PROVE  FALSE
      BY <2>1, <2>2 DEF MayLock, HasLock
  <2> QED
      BY <2>1, <2>2 DEF OneHolder
<1>4. ASSUME UNCHANGED <<pc, base>> PROVE OneHolder'
    BY <1>4, NoNewHolder DEF HasLock
<1>5. ASSUME NEW s \in Sessions, Request(s) PROVE OneHolder'
  <2>1. ASSUME Arrives(s) \/ AdjustChecks(s) \/ Refuses(s) \/ Saves(s)
               \/ AnswersUnsaved(s) \/ Fails(s)
        PROVE  base' = base /\ \E to : to # "inserted" /\ Goes(s, to)
      BY <2>1 DEF Arrives, AdjustChecks, Refuses, Saves, AnswersUnsaved, Fails
  <2> QED
      BY <1>1, <1>2, <1>3, <1>5, <2>1 DEF Request
<1> QED
    BY <1>4, <1>5 DEF Next, ErpMovesStock, Mirrors, vars

\* Whatever overlaps, fails or is mirrored, a locked row has one holder, for
\* any number of sessions.
THEOREM RowHasOneHolder == Spec => []OneHolder
<1>1. Init => OneHolder
    BY DEF Init, OneHolder, HasLock
<1> QED
    BY <1>1, NextOneHolder, TypeCorrect, PTL DEF Spec

-----------------------------------------------------------------------------
(* The bookkeeping.                                                         *)

\* What is inserted is balanced before it is saved.
BookInv ==
    /\ MovementsBalance
    /\ \A s \in Sessions : pc[s] = "inserted" => row[s].by = s /\ Balanced(s)

\* The row of a request stays balanced while it is left alone and rows are added.
LEMMA BalancedStays ==
    ASSUME NEW s, Balanced(s), table \subseteq table',
           row'[s] = row[s], base'[s] = base[s]
    PROVE  Balanced(s)'
BY DEF Balanced, NoRow

\* A step of one request that is not saved, and inserts nothing.
LEMMA BookMoves ==
    ASSUME IInv, BookInv, NEW s \in Sessions, pc[s] # "saved", NEW to,
           to # "inserted", Goes(s, to), table' = table, row' = row,
           \A t \in Sessions \ {s} : base'[t] = base[t]
    PROVE  BookInv'
<1>1. \A t \in Sessions \ {s} : pc'[t] = pc[t]
    BY DEF Goes, IInv, TypeOK
<1>2. pc'[s] # "inserted"
    BY DEF Goes, IInv, TypeOK
<1>3. \A r \in table : r.by # Erp => r.by \in Sessions \ {s} /\ Balanced(r.by)'
  <2> TAKE r \in table
  <2> HAVE r.by # Erp
  <2>1. r.by \in Sessions /\ Saved(r.by) /\ Balanced(r.by)
      BY DEF IInv, TypeOK, Row, BookInv, MovementsBalance
  <2> QED
      BY <2>1, BalancedStays DEF Saved
<1>4. MovementsBalance'
    BY <1>1, <1>3 DEF BookInv, MovementsBalance, Saved
<1>5. \A t \in Sessions \ {s} : pc[t] = "inserted" => row'[t].by = t /\ Balanced(t)'
    BY BalancedStays DEF BookInv
<1> QED
    BY <1>1, <1>2, <1>4, <1>5 DEF BookInv

\* The new row closes over the row whose lock the request holds.
LEMMA BookInserts ==
    ASSUME IInv, BookInv, NEW s \in Sessions, Inserts(s)
    PROVE  BookInv'
<1> DEFINE new == [date |-> Now, by |-> s, closing |-> OnHandAfter(s)]
<1>1. /\ pc[s] = "reading" /\ table' = table /\ base' = base
      /\ row' = [row EXCEPT ![s] = new]
      /\ \A t \in Sessions \ {s} : pc'[t] = pc[t] /\ row'[t] = row[t]
      /\ row'[s] = new /\ pc'[s] = "inserted"
    BY DEF Inserts, Goes, IInv, TypeOK
<1>2. PICK o \in table \cup {NoRow} :
        o.date = base[s] /\ OnHandAfter(s) = o.closing + Delta[s]
  <2>1. CASE base[s] = 0
      BY <2>1, NoRowType DEF OnHandAfter
  <2>2. CASE base[s] # 0
    <3>1. base[s] \in Dates(table)
        BY <1>1, <2>2 DEF IInv, LedgerInv, RequestInv
    <3>2. \E r \in table : r.date = base[s]
        BY <3>1 DEF Dates
    <3>3. PICK q \in table : q.date = base[s]
                             /\ q = (CHOOSE r \in table : r.date = base[s])
        BY <3>2
    <3> QED
        BY <2>2, <3>3 DEF OnHandAfter
  <2> QED
      BY <2>1, <2>2
<1>3. base[s] < Now
    BY DEF IInv, TypeOK, Now
<1>4. row'[s].by = s /\ Balanced(s)'
  <2>1. /\ row'[s].date = Now /\ row'[s].by = s
        /\ row'[s].closing = OnHandAfter(s)
      BY <1>1
  <2>2. (o \in table \cup {NoRow})'
      BY <1>1, <1>2 DEF NoRow
  <2> QED
      BY <1>1, <1>2, <1>3, <2>1, <2>2 DEF Balanced
<1>5. \A r \in table : r.by # Erp =>
          r.by \in Sessions \ {s} /\ Saved(r.by) /\ r = row[r.by] /\ Balanced(r.by)
    BY <1>1 DEF IInv, TypeOK, Row, BookInv, MovementsBalance, Saved
<1>6. MovementsBalance'
  <2>1. ASSUME NEW r \in table, r.by # Erp
        PROVE  Saved(r.by)' /\ r = row'[r.by] /\ Balanced(r.by)'
    <3>1. r.by \in Sessions \ {s} /\ Saved(r.by) /\ r = row[r.by] /\ Balanced(r.by)
        BY <1>5, <2>1
    <3>2. row'[r.by] = row[r.by] /\ base'[r.by] = base[r.by] /\ pc'[r.by] = pc[r.by]
        BY <1>1, <3>1
    <3> QED
        BY <1>1, <3>1, <3>2, BalancedStays DEF Saved
  <2> QED
      BY <1>1, <2>1 DEF MovementsBalance
<1>7. \A t \in Sessions \ {s} : pc'[t] = "inserted" => row'[t].by = t /\ Balanced(t)'
    BY <1>1, BalancedStays DEF BookInv
<1> QED
    BY <1>4, <1>6, <1>7 DEF BookInv

\* A row that is saved is one that was inserted.
LEMMA BookSaves ==
    ASSUME IInv, BookInv, NEW s \in Sessions, Saves(s)
    PROVE  BookInv'
<1>1. /\ pc[s] = "inserted" /\ table' = table \cup {row[s]}
      /\ base' = base /\ row' = row /\ pc'[s] = "saved"
      /\ \A t \in Sessions \ {s} : pc'[t] = pc[t]
    BY DEF Saves, Goes, IInv, TypeOK
<1>2. \A t \in Sessions : Balanced(t) => Balanced(t)'
    BY <1>1, BalancedStays
<1>3. row[s].by = s /\ Balanced(s)
    BY <1>1 DEF BookInv
<1>4. \A r \in table : r.by # Erp =>
          r.by \in Sessions /\ Saved(r.by) /\ r = row[r.by] /\ Balanced(r.by)
    BY DEF IInv, TypeOK, Row, BookInv, MovementsBalance
<1>5. \A t \in Sessions : Saved(t) => Saved(t)'
    BY <1>1 DEF Saved
<1>6. Saved(s)'
    BY <1>1 DEF Saved
<1>7. MovementsBalance'
    BY <1>1, <1>2, <1>3, <1>4, <1>5, <1>6 DEF MovementsBalance
<1> QED
    BY <1>1, <1>2, <1>7 DEF BookInv

\* What comes from the ERP leaves the movements of the requests alone.
LEMMA BookGrows ==
    ASSUME IInv, BookInv, UNCHANGED <<pc, base, row>>,
           table \subseteq table', \A r \in table' \ table : r.by = Erp
    PROVE  BookInv'
<1>1. \A t : Balanced(t) => Balanced(t)'
    BY BalancedStays
<1>2. MovementsBalance'
    BY <1>1 DEF BookInv, MovementsBalance, Saved
<1> QED
    BY <1>1, <1>2 DEF BookInv

LEMMA NextBook == IInv /\ BookInv /\ [Next]_vars => BookInv'
<1> SUFFICES ASSUME IInv, BookInv, [Next]_vars PROVE BookInv'
    OBVIOUS
<1>1. ASSUME NEW s \in Sessions, Request(s) PROVE BookInv'
  <2>1. CASE Arrives(s)
      BY <2>1, BookMoves DEF Arrives
  <2>2. CASE AdjustChecks(s)
    <3>1. PICK to \in {"refused", "checked"} : Goes(s, to)
        BY <2>2 DEF AdjustChecks
    <3> QED
        BY <2>2, <3>1, BookMoves DEF AdjustChecks
  <2>3. CASE Reads(s)
    <3>1. \A t \in Sessions \ {s} : base'[t] = base[t]
        BY <2>3 DEF Reads, IInv, TypeOK
    <3>2. pc[s] \in {"idle", "checked"}
        BY <2>3 DEF Reads
    <3> QED
        BY <2>3, <3>1, <3>2, BookMoves DEF Reads
  <2>4. CASE Refuses(s) \/ AnswersUnsaved(s) \/ Fails(s)
      BY <2>4, BookMoves DEF Refuses, AnswersUnsaved, Fails, Waiting
  <2> QED
      BY <1>1, <2>1, <2>2, <2>3, <2>4, BookInserts, BookSaves DEF Request
<1>2. CASE ErpMovesStock \/ Mirrors \/ UNCHANGED vars
  <2>1. UNCHANGED <<pc, base, row>> /\ table \subseteq table'
        /\ \A r \in table' \ table : r.by = Erp
      BY <1>2 DEF ErpMovesStock, Mirrors, vars, IInv, LedgerInv
  <2> QED
      BY <2>1, BookGrows
<1> QED
    BY <1>1, <1>2 DEF Next

\* Every movement on hand closes over an older row that is on hand, whatever is
\* rolled back, mirrored or refused beside it, for any number of sessions.
THEOREM BooksBalance == Spec => []MovementsBalance
<1>1. Init => BookInv
    BY DEF Init, BookInv, MovementsBalance
<1>2. BookInv => MovementsBalance
    BY DEF BookInv
<1> QED
    BY <1>1, <1>2, NextBook, Invariance, PTL DEF Spec

=============================================================================
