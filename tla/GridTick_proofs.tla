---------------------------- MODULE GridTick_proofs ----------------------------
(***************************************************************************)
(* What the book of a grid or a loop keeps for any rungs, prices, limits   *)
(* and days, when the ticks of the strategy do not overlap.                *)
(***************************************************************************)
EXTENDS GridTick, FiniteSetTheorems, WellFoundedInduction, TLAPS

-----------------------------------------------------------------------------
(* Types. *)

LEMMA Nulls ==
    /\ EmptyState \in WorkerState
    /\ IdleRunner \in Runner
<1>1. EmptyState \in WorkerState
  BY DEF EmptyState, WorkerState
<1>2. 0 \in Days
  BY GridAssumption DEF Days
<1> QED
  BY <1>1, <1>2 DEF IdleRunner, Runner

LEMMA LevelTypes ==
    /\ \A base \in Nat, rung \in Rungs : BuyLevel(base, rung) \in Nat
    /\ \A lot \in Lot : SellLevel(lot) \in Nat
<1>1. ASSUME NEW base \in Nat, NEW rung \in Rungs PROVE BuyLevel(base, rung) \in Nat
  <2>1. Drop[rung] \in 0..100
    BY GridAssumption
  <2>2. base * (100 - Drop[rung]) \in Nat
    BY <2>1
  <2> QED
    BY <2>2 DEF BuyLevel
<1>2. ASSUME NEW lot \in Lot PROVE SellLevel(lot) \in Nat
  <2>1. Rise[lot.rung] \in Nat /\ lot.entry \in Nat
    BY GridAssumption DEF Lot
  <2>2. lot.entry * (100 + Rise[lot.rung]) \in Nat
    BY <2>1
  <2> QED
    BY <2>2 DEF SellLevel
<1> QED
  BY <1>1, <1>2

\* The lot an order opens has not been seen before.
LEMMA NewLotTypes ==
    ASSUME NEW rec \in Runner, NEW rung \in Rungs, NEW lot \in NewLots(rec, rung)
    PROVE  /\ lot \in Lot
           /\ lot \notin Alive
<1>1. BuyLevel(rec.anchor, rung) \in Nat
  BY LevelTypes DEF Runner
<1>2. lot \in Lot
  BY <1>1 DEF NewLots, Lot
<1>3. lot.n \notin Numbers(rung) /\ lot.rung = rung
  BY DEF NewLots, NewLot
<1>4. lot \notin Alive
  BY <1>3 DEF Numbers
<1> QED
  BY <1>2, <1>4

LEMMA RecTypes ==
    ASSUME NEW rec \in Runner
    PROVE  /\ Proceed(rec) \in Runner
           /\ ExitUnsent(rec) \in Runner
           /\ \A b \in SUBSET rec.buys : Proceed([rec EXCEPT !.buys = b]) \in Runner
           /\ \A s \in SUBSET rec.sells : Proceed([rec EXCEPT !.sells = s]) \in Runner
           /\ Proceed([rec EXCEPT !.state.buys = @ + 1]) \in Runner
           /\ Proceed([rec EXCEPT !.state.sells = @ + 1]) \in Runner
<1>1. \A x \in Runner : Proceed(x) \in Runner
  BY DEF Proceed, Pending, Runner
<1>2. ExitUnsent(rec) \in Runner
  BY DEF ExitUnsent, Runner, WorkerState
<1>3. \A b \in SUBSET rec.buys : [rec EXCEPT !.buys = b] \in Runner
  BY DEF Runner
<1>4. \A s \in SUBSET rec.sells : [rec EXCEPT !.sells = s] \in Runner
  BY DEF Runner
<1>5. [rec EXCEPT !.state.buys = @ + 1] \in Runner
  BY DEF Runner, WorkerState
<1>6. [rec EXCEPT !.state.sells = @ + 1] \in Runner
  BY DEF Runner, WorkerState
<1> QED
  BY <1>1, <1>2, <1>3, <1>4, <1>5, <1>6

\* What an execution may do to its own record.
LEMMA RunnerTyped ==
    ASSUME TypeOK, NEW r \in Runners, NEW rec \in Runner, Step(r, rec)
    PROVE  runner' \in [Runners -> Runner]
  BY DEF TypeOK, Step

LEMMA BookTypes ==
    ASSUME TypeOK, NEW lot \in Lot, NEW price \in Nat
    PROVE  Opened(lot, price) \in Book /\ Closed(lot) \in Book /\ Cleared(price) \in Book
<1>1. Opened(lot, price) \in Book
  BY DEF TypeOK, Opened, Book
<1>2. Closed(lot) \in Book
  BY LevelTypes DEF TypeOK, Closed, Book
<1>3. Cleared(price) \in Book
  BY DEF TypeOK, Cleared, Book
<1> QED
  BY <1>1, <1>2, <1>3

LEMMA FaultTyped == ASSUME TypeOK, Fault PROVE faults' \in 0..MaxFaults
  BY GridAssumption DEF TypeOK, Fault

\* Each action keeps the types.
LEMMA StartTypes == ASSUME TypeOK, NEW r \in Runners, Start(r) PROVE TypeOK'
<1>1. [IdleRunner EXCEPT !.pc = "book", !.day = day, !.state = store[day]] \in Runner
  BY Nulls DEF TypeOK, Runner
<1>2. runner' \in [Runners -> Runner]
  BY <1>1, RunnerTyped DEF Start
<1> QED
  BY <1>2 DEF Start, TypeOK, broker

LEMMA ReadBookTypes == ASSUME TypeOK, NEW r \in Runners, ReadBook(r) PROVE TypeOK'
<1>1. PICK price \in Prices :
        LET rec == [runner[r] EXCEPT !.anchor = IF mode = "percent-grid" THEN BasePrice
                                                ELSE book.anchor]
        IN  \/ Step(r, [rec EXCEPT !.pc = "exit", !.price = price, !.sells = book.lots])
            \/ \E b \in SUBSET Rungs, s \in SUBSET book.lots :
                  Step(r, Proceed([rec EXCEPT !.buys = b, !.sells = s]))
  BY DEF ReadBook
<1> DEFINE rec == [runner[r] EXCEPT !.anchor = IF mode = "percent-grid" THEN BasePrice
                                               ELSE book.anchor]
<1>2. rec \in Runner /\ price \in Nat /\ book.lots \subseteq Lot
  <2> DEFINE anchor == IF mode = "percent-grid" THEN BasePrice ELSE book.anchor
  <2>1. book.anchor \in Nat /\ book.lots \subseteq Lot
    BY DEF TypeOK, Book
  <2>2. anchor \in Nat /\ price \in Nat
    BY <2>1, GridAssumption
  <2>3. \A x \in Runner, n \in Nat : [x EXCEPT !.anchor = n] \in Runner
    BY DEF Runner
  <2>4. runner[r] \in Runner
    BY DEF TypeOK
  <2> QED
    BY <2>1, <2>2, <2>3, <2>4
<1>3. \/ Step(r, [rec EXCEPT !.pc = "exit", !.price = price, !.sells = book.lots])
      \/ \E b \in SUBSET Rungs, s \in SUBSET book.lots :
            Step(r, Proceed([rec EXCEPT !.buys = b, !.sells = s]))
  BY <1>1
<1> HIDE DEF rec
<1>4. [rec EXCEPT !.pc = "exit", !.price = price, !.sells = book.lots] \in Runner
  BY <1>2 DEF Runner
<1>5. ASSUME NEW b \in SUBSET Rungs, NEW s \in SUBSET book.lots
      PROVE  Proceed([rec EXCEPT !.buys = b, !.sells = s]) \in Runner
  <2>1. [rec EXCEPT !.buys = b, !.sells = s] \in Runner
    BY <1>2 DEF Runner
  <2> QED
    BY <2>1, RecTypes
<1>6. runner' \in [Runners -> Runner]
  BY <1>3, <1>4, <1>5, RunnerTyped
<1> QED
  BY <1>6 DEF ReadBook, TypeOK, broker

LEMMA OrderTypes ==
    ASSUME TypeOK, NEW r \in Runners,
           OrderNotSent(r) \/ BuyAcked(r) \/ BuyLost(r) \/ SellAcked(r) \/ SellLost(r)
    PROVE  TypeOK'
<1> DEFINE rec == runner[r]
<1>0. rec \in Runner
  BY DEF TypeOK
<1>d. rec.day \in Days /\ rec.buys \subseteq Rungs /\ rec.sells \subseteq Lot
  BY <1>0 DEF Runner
<1>1. CASE OrderNotSent(r)
  <2>1. \/ \E rung \in rec.buys : Step(r, Proceed([rec EXCEPT !.buys = @ \ {rung}]))
        \/ \E lot \in rec.sells : Step(r, Proceed([rec EXCEPT !.sells = @ \ {lot}]))
    BY <1>1 DEF OrderNotSent
  <2>2. runner' \in [Runners -> Runner]
    BY <2>1, <1>0, RecTypes, RunnerTyped
  <2> QED
    BY <1>1, <2>2 DEF OrderNotSent, TypeOK, broker
<1>2. CASE BuyAcked(r) \/ BuyLost(r)
  <2>0. PICK rung \in rec.buys : \E lot \in NewLots(rec, rung) :
          /\ AcceptBuy(lot, rec.day)
          /\ \/ Step(r, [rec EXCEPT !.pc = "opening", !.buys = @ \ {rung}, !.acked = {lot}])
             \/ Step(r, Proceed([rec EXCEPT !.buys = @ \ {rung}]))
    BY <1>2 DEF BuyAcked, BuyLost
  <2>1. PICK lot \in NewLots(rec, rung) :
          /\ AcceptBuy(lot, rec.day)
          /\ \/ Step(r, [rec EXCEPT !.pc = "opening", !.buys = @ \ {rung}, !.acked = {lot}])
             \/ Step(r, Proceed([rec EXCEPT !.buys = @ \ {rung}]))
    BY <2>0
  <2>2. lot \in Lot
    BY <1>0, <1>d, NewLotTypes
  <2>3. [rec EXCEPT !.pc = "opening", !.buys = @ \ {rung}, !.acked = {lot}] \in Runner
    BY <1>0, <2>2 DEF Runner
  <2>4. runner' \in [Runners -> Runner]
    BY <2>1, <2>3, <1>0, RecTypes, RunnerTyped
  <2>5. shares' \subseteq Lot /\ accepted' \in [Days -> Nat]
    BY <2>1, <2>2, <1>d DEF AcceptBuy, TypeOK
  <2>6. faults' \in 0..MaxFaults
    BY <1>2, FaultTyped DEF BuyAcked, BuyLost, TypeOK
  <2> QED
    BY ZenonT(60), <1>2, <2>1, <2>4, <2>5, <2>6 DEF BuyAcked, BuyLost, AcceptBuy, TypeOK
<1>3. CASE SellAcked(r) \/ SellLost(r)
  <2>1. PICK lot \in rec.sells :
          /\ AcceptSell(lot)
          /\ \/ Step(r, [rec EXCEPT !.pc = "closing", !.sells = @ \ {lot}, !.acked = {lot}])
             \/ Step(r, Proceed([rec EXCEPT !.sells = @ \ {lot}]))
    BY <1>3 DEF SellAcked, SellLost
  <2>3. [rec EXCEPT !.pc = "closing", !.sells = @ \ {lot}, !.acked = {lot}] \in Runner
    BY <1>0, <1>d DEF Runner
  <2>4. runner' \in [Runners -> Runner]
    BY <2>1, <2>3, <1>0, RecTypes, RunnerTyped
  <2>5. shares' \subseteq Lot /\ {oversold', reused'} \subseteq BOOLEAN
    BY <2>1 DEF AcceptSell, TypeOK
  <2>6. faults' \in 0..MaxFaults
    BY <1>3, FaultTyped DEF SellAcked, SellLost, TypeOK
  <2> QED
    BY ZenonT(60), <1>3, <2>1, <2>4, <2>5, <2>6 DEF SellAcked, SellLost, AcceptSell, TypeOK
<1> QED
  BY <1>1, <1>2, <1>3

LEMMA WriteTypes ==
    ASSUME TypeOK, NEW r \in Runners, OpenLot(r) \/ CloseLot(r) \/ ClearBook(r)
    PROVE  TypeOK'
<1> DEFINE rec == runner[r]
<1>0. rec \in Runner
  BY DEF TypeOK
<1>d. rec.acked \subseteq Lot /\ rec.anchor \in Nat /\ rec.price \in Nat
  BY <1>0 DEF Runner
<1>1. CASE OpenLot(r)
  <2>1. book' \in Book
    BY <1>1, <1>d, BookTypes DEF OpenLot
  <2>2. runner' \in [Runners -> Runner]
    BY <1>1, <1>0, RecTypes, RunnerTyped DEF OpenLot
  <2> QED
    BY <1>1, <2>1, <2>2 DEF OpenLot, TypeOK, broker
<1>2. CASE CloseLot(r)
  <2>1. book' \in Book
    BY <1>2, <1>d, BookTypes DEF CloseLot
  <2>2. runner' \in [Runners -> Runner]
    BY <1>2, <1>0, RecTypes, RunnerTyped DEF CloseLot
  <2> QED
    BY <1>2, <2>1, <2>2 DEF CloseLot, TypeOK, broker
<1>3. CASE ClearBook(r)
  <2>0. Cleared(rec.price) \in Book
    BY <1>d DEF TypeOK, Cleared, Book
  <2>1. book' \in Book
    BY <1>3, <2>0 DEF ClearBook
  <2>4. [pending |-> FALSE, buys |-> rec.state.buys, sells |-> rec.state.sells + 1]
          \in WorkerState
    BY <1>0 DEF Runner, WorkerState
  <2>2. ExitDone(rec) \in Runner
    BY <1>0, <2>4 DEF ExitDone, Runner
  <2>3. runner' \in [Runners -> Runner]
    BY <1>3, <2>2, RunnerTyped DEF ClearBook
  <2> QED
    BY <1>3, <2>1, <2>3 DEF ClearBook, TypeOK, broker
<1> QED
  BY <1>1, <1>2, <1>3

LEMMA ExitTypes ==
    ASSUME TypeOK, NEW r \in Runners, ExitNotSent(r) \/ ExitAcked(r) \/ ExitLost(r)
    PROVE  TypeOK'
<1> DEFINE rec == runner[r]
<1>0. rec \in Runner
  BY DEF TypeOK
<1>d. rec.day \in Days
  BY <1>0 DEF Runner
<1>1. [rec EXCEPT !.pc = "clear", !.sells = {}] \in Runner
  BY <1>0 DEF Runner
<1>2. runner' \in [Runners -> Runner]
  BY <1>0, <1>1, RecTypes, RunnerTyped DEF ExitNotSent, ExitAcked, ExitLost
<1>3. CASE ExitNotSent(r)
  BY <1>2, <1>3 DEF ExitNotSent, TypeOK, broker
<1>4. CASE ExitAcked(r) \/ ExitLost(r)
  <2>1. AcceptExit(rec.sells, rec.day)
    BY <1>4 DEF ExitAcked, ExitLost
  <2>2. /\ shares' \subseteq Lot /\ exits' \subseteq Days /\ accepted' \in [Days -> Nat]
        /\ {oversold', reused'} \subseteq BOOLEAN
    BY <2>1, <1>d DEF AcceptExit, TypeOK
  <2>3. faults' \in 0..MaxFaults
    BY <1>4, FaultTyped DEF ExitAcked, ExitLost, TypeOK
  <2> QED
    BY <1>2, <1>4, <2>2, <2>3 DEF ExitAcked, ExitLost, TypeOK
<1> QED
  BY <1>3, <1>4

LEMMA EndTypes ==
    ASSUME TypeOK, NEW r \in Runners, Save(r) \/ Abort(r) PROVE TypeOK'
<1>0. runner[r] \in Runner
  BY DEF TypeOK
<1>d. runner[r].day \in Days /\ runner[r].state \in WorkerState
  BY <1>0 DEF Runner
<1>1. runner' \in [Runners -> Runner]
  BY Nulls, RunnerTyped DEF Save, Abort
<1>2. CASE Save(r)
  <2>1. store' \in [Days -> WorkerState]
    BY <1>2, <1>d DEF Save, TypeOK
  <2> QED
    BY <1>1, <1>2, <2>1 DEF Save, TypeOK, broker
<1>3. CASE Abort(r)
  BY <1>1, <1>3, FaultTyped DEF Abort, TypeOK, broker
<1> QED
  BY <1>2, <1>3

\* The state always has the shape TypeOK describes.
THEOREM TypesHold == Spec => []TypeOK
<1>1. Init => TypeOK
  <2> SUFFICES ASSUME Init PROVE TypeOK
    OBVIOUS
  <2>1. day \in Days
    BY GridAssumption DEF Init, Days
  <2>2. store \in [Days -> WorkerState] /\ runner \in [Runners -> Runner]
    BY Nulls DEF Init
  <2>3. book \in Book
    BY GridAssumption DEF Init, Book
  <2>4. faults \in 0..MaxFaults
    BY GridAssumption DEF Init
  <2> QED
    BY <2>1, <2>2, <2>3, <2>4 DEF Init, TypeOK
<1>2. TypeOK /\ [Next]_vars => TypeOK'
  <2> SUFFICES ASSUME TypeOK, [Next]_vars PROVE TypeOK'
    OBVIOUS
  <2>1. CASE NextDay
    <3>1. day' \in Days
      BY <2>1, GridAssumption DEF NextDay, Days, TypeOK
    <3> QED
      BY <2>1, <3>1 DEF NextDay, TypeOK, broker
  <2>2. CASE UNCHANGED vars
    BY <2>2 DEF vars, broker, TypeOK
  <2>3. CASE \E r \in Runners : Tick(r) \/ Abort(r)
    BY <2>3, StartTypes, ReadBookTypes, OrderTypes, WriteTypes, ExitTypes, EndTypes DEF Tick
  <2> QED
    BY <2>1, <2>2, <2>3 DEF Next
<1> QED
  BY <1>1, <1>2, PTL DEF Spec

-----------------------------------------------------------------------------
(* Where a tick can stand with respect to the book. *)

\* What a tick has still to send, it read in the book; the order it has sent is
\* not there yet (a buy) or no longer belongs there (a sale).
Shape(rec) ==
    /\ rec.pc \in {"idle", "book", "clear", "save"} => rec.buys = {} /\ rec.sells = {}
    /\ rec.pc = "exit" => rec.buys = {} /\ rec.sells = book.lots
    /\ rec.pc \notin {"opening", "closing"} => rec.acked = {}
    /\ rec.pc \in {"opening", "closing"} => \E lot \in Lot : rec.acked = {lot}
    /\ rec.sells \subseteq book.lots
    /\ rec.pc = "opening" => rec.acked \cap book.lots = {}
    /\ rec.pc = "closing" => /\ rec.buys = {}
                             /\ rec.acked \subseteq book.lots
                             /\ rec.acked \cap rec.sells = {}

\* The loop holds one position at most and never buys on top of it.
OnePosition(rec) ==
    mode # "percent-grid" =>
        /\ \A a, b \in book.lots : a = b
        /\ rec.buys \subseteq {1}
        /\ rec.buys # {} \/ rec.pc = "opening" => book.lots = {}
        /\ rec.pc = "opening" => rec.buys = {}

ShapeInv == \A r \in Runners : Shape(runner[r]) /\ OnePosition(runner[r])

\* The evaluation sells lots of the book, and the loop buys only without one.
LEMMA OrdersShape ==
    ASSUME NEW b \in SUBSET Rungs, NEW s \in SUBSET book.lots, NEW state, NEW price,
           Orders(b, s, state, book, price), mode # "percent-grid"
    PROVE  b \subseteq {1} /\ (b # {} => book.lots = {})
<1>1. LoopOrders(b, s, state, book, price)
  BY DEF Orders
<1> QED
  BY <1>1 DEF LoopOrders

\* What Proceed does not touch.
LEMMA Proceeds ==
    ASSUME NEW rec \in Runner
    PROVE  /\ Proceed(rec).acked = {}
           /\ Proceed(rec).pc \in {"save", "orders"}
           /\ Proceed(rec).pc = "save" => rec.buys = {} /\ rec.sells = {}
           /\ Proceed(rec).buys = rec.buys /\ Proceed(rec).sells = rec.sells
           /\ Proceed(rec).state = rec.state /\ Proceed(rec).day = rec.day
  BY DEF Proceed, Pending, Runner

\* With one execution, an action moves the record of that one.
LEMMA OnlyRunner ==
    ASSUME \A r, s \in Runners : r = s, TypeOK, NEW r \in Runners, NEW rec, Step(r, rec)
    PROVE  \A s \in Runners : runner'[s] = rec
  BY DEF TypeOK, Step

\* An order of the evaluation, refused, accepted or accepted with its answer lost.
LEMMA OrderKeepsShape ==
    ASSUME \A x, y \in Runners : x = y, TypeOK, ShapeInv, NEW r \in Runners,
           OrderNotSent(r) \/ BuyAcked(r) \/ BuyLost(r) \/ SellAcked(r) \/ SellLost(r)
    PROVE  ShapeInv'
<1> DEFINE rec == runner[r]
<1>0. rec \in Runner /\ Shape(rec) /\ OnePosition(rec)
  BY SMTT(60) DEF TypeOK, ShapeInv
<1>1. rec.pc = "orders" /\ UNCHANGED <<mode, book>>
  BY DEF OrderNotSent, BuyAcked, BuyLost, SellAcked, SellLost
<1>2. rec.acked = {} /\ rec.sells \subseteq book.lots
  BY <1>0, <1>1 DEF Shape
<1>3. ASSUME NEW b \in SUBSET rec.buys, NEW s \in SUBSET rec.sells,
             Step(r, Proceed([rec EXCEPT !.buys = b, !.sells = s]))
      PROVE  ShapeInv'
  <2>1. [rec EXCEPT !.buys = b, !.sells = s] \in Runner
    BY <1>0 DEF Runner
  <2> DEFINE new == Proceed([rec EXCEPT !.buys = b, !.sells = s])
  <2>2. /\ new.acked = {} /\ new.pc \in {"save", "orders"} /\ new.buys = b /\ new.sells = s
        /\ new.pc = "save" => b = {} /\ s = {}
    BY <2>1, <1>0, Proceeds DEF Runner
  <2>3. \A x \in Runners : runner'[x] = new
    BY <1>3, OnlyRunner
  <2> HIDE DEF new
  <2>4. Shape(new)
    BY <2>2, <1>2 DEF Shape
  <2>5. OnePosition(new)
    BY <2>2, <1>0 DEF OnePosition
  <2> QED
    BY <1>1, <2>3, <2>4, <2>5 DEF ShapeInv, Shape, OnePosition
<1>4. CASE OrderNotSent(r)
  <2>1. \/ \E rung \in rec.buys : Step(r, Proceed([rec EXCEPT !.buys = @ \ {rung}]))
        \/ \E lot \in rec.sells : Step(r, Proceed([rec EXCEPT !.sells = @ \ {lot}]))
    BY <1>4 DEF OrderNotSent
  <2>2. ASSUME NEW rung \in rec.buys, Step(r, Proceed([rec EXCEPT !.buys = @ \ {rung}]))
        PROVE  ShapeInv'
    <3>1. [rec EXCEPT !.buys = rec.buys \ {rung}]
            = [rec EXCEPT !.buys = rec.buys \ {rung}, !.sells = rec.sells]
      BY <1>0 DEF Runner
    <3> QED
      BY <1>3, <2>2, <3>1
  <2>3. ASSUME NEW lot \in rec.sells, Step(r, Proceed([rec EXCEPT !.sells = @ \ {lot}]))
        PROVE  ShapeInv'
    <3>1. [rec EXCEPT !.sells = rec.sells \ {lot}]
            = [rec EXCEPT !.buys = rec.buys, !.sells = rec.sells \ {lot}]
      BY <1>0 DEF Runner
    <3>2. rec.buys \in SUBSET rec.buys /\ rec.sells \ {lot} \in SUBSET rec.sells
      OBVIOUS
    <3>3. Step(r, Proceed([rec EXCEPT !.buys = rec.buys, !.sells = rec.sells \ {lot}]))
      BY <2>3, <3>1
    <3> HIDE DEF rec
    <3> QED
      BY <1>3, <3>2, <3>3
  <2> QED
    BY <2>1, <2>2, <2>3
<1>5. CASE BuyAcked(r) \/ BuyLost(r)
  <2>1. PICK rung \in rec.buys : \E lot \in NewLots(rec, rung) :
          \/ Step(r, [rec EXCEPT !.pc = "opening", !.buys = @ \ {rung}, !.acked = {lot}])
          \/ Step(r, Proceed([rec EXCEPT !.buys = @ \ {rung}]))
    BY <1>5 DEF BuyAcked, BuyLost
  <2>2. PICK lot \in NewLots(rec, rung) :
          \/ Step(r, [rec EXCEPT !.pc = "opening", !.buys = @ \ {rung}, !.acked = {lot}])
          \/ Step(r, Proceed([rec EXCEPT !.buys = @ \ {rung}]))
    BY <2>1
  <2>3. lot \in Lot /\ lot \notin book.lots
    BY <1>0, NewLotTypes DEF Alive, Runner
  <2>4. CASE Step(r, Proceed([rec EXCEPT !.buys = @ \ {rung}]))
    <3>1. [rec EXCEPT !.buys = rec.buys \ {rung}]
            = [rec EXCEPT !.buys = rec.buys \ {rung}, !.sells = rec.sells]
      BY <1>0 DEF Runner
    <3> QED
      BY <1>3, <2>4, <3>1
  <2>5. CASE Step(r, [rec EXCEPT !.pc = "opening", !.buys = @ \ {rung}, !.acked = {lot}])
    <3> DEFINE new == [rec EXCEPT !.pc = "opening", !.buys = @ \ {rung}, !.acked = {lot}]
    <3>1. /\ new.pc = "opening" /\ new.buys = rec.buys \ {rung} /\ new.acked = {lot}
          /\ new.sells = rec.sells
      BY <1>0 DEF Runner
    <3>2. \A x \in Runners : runner'[x] = new
      BY <2>5, OnlyRunner
    <3> HIDE DEF new
    <3>3. Shape(new)
      BY <3>1, <2>3, <1>2 DEF Shape
    <3>4. OnePosition(new)
      BY <3>1, <1>0 DEF OnePosition
    <3> QED
      BY <1>1, <3>2, <3>3, <3>4 DEF ShapeInv, Shape, OnePosition
  <2> QED
    BY <2>2, <2>4, <2>5
<1>6. CASE SellAcked(r) \/ SellLost(r)
  <2>1. PICK lot \in rec.sells :
          /\ rec.buys = {}
          /\ \/ Step(r, [rec EXCEPT !.pc = "closing", !.sells = @ \ {lot}, !.acked = {lot}])
             \/ Step(r, Proceed([rec EXCEPT !.sells = @ \ {lot}]))
    BY <1>6 DEF SellAcked, SellLost, DueSell
  <2>4. CASE Step(r, Proceed([rec EXCEPT !.sells = @ \ {lot}]))
    <3>1. [rec EXCEPT !.sells = rec.sells \ {lot}]
            = [rec EXCEPT !.buys = rec.buys, !.sells = rec.sells \ {lot}]
      BY <1>0 DEF Runner
    <3>2. rec.buys \in SUBSET rec.buys /\ rec.sells \ {lot} \in SUBSET rec.sells
      OBVIOUS
    <3>3. Step(r, Proceed([rec EXCEPT !.buys = rec.buys, !.sells = rec.sells \ {lot}]))
      BY <2>4, <3>1
    <3> HIDE DEF rec
    <3> QED
      BY <1>3, <3>2, <3>3
  <2>5. CASE Step(r, [rec EXCEPT !.pc = "closing", !.sells = @ \ {lot}, !.acked = {lot}])
    <3> DEFINE new == [rec EXCEPT !.pc = "closing", !.sells = @ \ {lot}, !.acked = {lot}]
    <3>1. /\ new.pc = "closing" /\ new.buys = {} /\ new.acked = {lot}
          /\ new.sells = rec.sells \ {lot} /\ lot \in Lot
      BY <1>0, <2>1 DEF Runner
    <3>2. \A x \in Runners : runner'[x] = new
      BY <2>5, OnlyRunner
    <3> HIDE DEF new
    <3>3. Shape(new)
      BY <3>1, <2>1, <1>2 DEF Shape
    <3>4. OnePosition(new)
      BY <3>1, <1>0 DEF OnePosition
    <3> QED
      BY <1>1, <3>2, <3>3, <3>4 DEF ShapeInv, Shape, OnePosition
  <2> QED
    BY SMTT(60), <2>1, <2>4, <2>5
<1> QED
  BY <1>4, <1>5, <1>6

LEMMA ReadKeepsShape ==
    ASSUME \A x, y \in Runners : x = y, TypeOK, ShapeInv, NEW r \in Runners,
           Start(r) \/ ReadBook(r)
    PROVE  ShapeInv'
<1> DEFINE rec == runner[r]
<1>0. rec \in Runner /\ Shape(rec) /\ OnePosition(rec) /\ UNCHANGED <<mode, book>>
  BY DEF TypeOK, ShapeInv, Start, ReadBook
<1>1. CASE Start(r)
  <2> DEFINE new == [IdleRunner EXCEPT !.pc = "book", !.day = day, !.state = store[day]]
  <2>1. new.pc = "book" /\ new.buys = {} /\ new.sells = {} /\ new.acked = {}
    BY DEF IdleRunner
  <2>2. \A x \in Runners : runner'[x] = new
    BY <1>1, OnlyRunner DEF Start
  <2> HIDE DEF new
  <2>3. Shape(new) /\ OnePosition(new)
    BY <2>1, <1>0 DEF Shape, OnePosition
  <2> QED
    BY <1>0, <2>2, <2>3 DEF ShapeInv, Shape, OnePosition
<1>2. CASE ReadBook(r)
  <2> DEFINE at == [rec EXCEPT !.anchor = IF mode = "percent-grid" THEN BasePrice
                                          ELSE book.anchor]
  <2>1. PICK price \in Prices :
          \/ Step(r, [at EXCEPT !.pc = "exit", !.price = price, !.sells = book.lots])
          \/ \E b \in SUBSET Rungs, s \in SUBSET book.lots :
                /\ Orders(b, s, at.state, book, price)
                /\ Step(r, Proceed([at EXCEPT !.buys = b, !.sells = s]))
    BY ZenonT(60), <1>2 DEF ReadBook
  <2>2. /\ at \in Runner /\ at.acked = {} /\ at.buys = {} /\ book.lots \subseteq Lot
    BY <1>2, <1>0, GridAssumption DEF ReadBook, Shape, TypeOK, Runner, Book
  <2> HIDE DEF at
  <2>3. CASE Step(r, [at EXCEPT !.pc = "exit", !.price = price, !.sells = book.lots])
    <3> DEFINE new == [at EXCEPT !.pc = "exit", !.price = price, !.sells = book.lots]
    <3>1. new.pc = "exit" /\ new.buys = {} /\ new.sells = book.lots /\ new.acked = {}
      BY <2>2 DEF Runner
    <3>2. \A x \in Runners : runner'[x] = new
      BY <2>3, OnlyRunner
    <3> HIDE DEF new
    <3>3. Shape(new) /\ OnePosition(new)
      BY <3>1, <1>0 DEF Shape, OnePosition
    <3> QED
      BY <1>0, <3>2, <3>3 DEF ShapeInv, Shape, OnePosition
  <2>4. ASSUME NEW b \in SUBSET Rungs, NEW s \in SUBSET book.lots,
               Orders(b, s, at.state, book, price),
               Step(r, Proceed([at EXCEPT !.buys = b, !.sells = s]))
        PROVE  ShapeInv'
    <3> DEFINE new == Proceed([at EXCEPT !.buys = b, !.sells = s])
    <3>0. [at EXCEPT !.buys = b, !.sells = s] \in Runner
      BY <2>2 DEF Runner
    <3>1. /\ new.acked = {} /\ new.pc \in {"save", "orders"} /\ new.buys = b /\ new.sells = s
          /\ new.pc = "save" => b = {} /\ s = {}
      BY <3>0, <2>2, Proceeds DEF Runner
    <3>2. \A x \in Runners : runner'[x] = new
      BY <2>4, OnlyRunner
    <3> HIDE DEF new
    <3>3. mode # "percent-grid" => b \subseteq {1} /\ (b # {} => book.lots = {})
      BY <2>4, OrdersShape
    <3>4. Shape(new)
      BY <3>1 DEF Shape
    <3>5. OnePosition(new)
      BY <3>1, <3>3, <1>0 DEF OnePosition
    <3> QED
      BY <1>0, <3>2, <3>4, <3>5 DEF ShapeInv, Shape, OnePosition
  <2> QED
    BY ZenonT(60), <2>1, <2>3, <2>4
<1> QED
  BY SMTT(60), <1>1, <1>2

LEMMA WriteKeepsShape ==
    ASSUME \A x, y \in Runners : x = y, TypeOK, ShapeInv, NEW r \in Runners,
           OpenLot(r) \/ CloseLot(r) \/ ClearBook(r)
    PROVE  ShapeInv'
<1> DEFINE rec == runner[r]
<1>0. rec \in Runner /\ Shape(rec) /\ OnePosition(rec) /\ mode' = mode
  BY DEF TypeOK, ShapeInv, OpenLot, CloseLot, ClearBook
<1>b. book \in Book
  BY DEF TypeOK
<1>1. CASE OpenLot(r)
  <2> DEFINE new == Proceed([rec EXCEPT !.state.buys = @ + 1])
  <2>0. [rec EXCEPT !.state.buys = @ + 1] \in Runner
    BY <1>0 DEF Runner, WorkerState
  <2>1. /\ new.acked = {} /\ new.pc \in {"save", "orders"}
        /\ new.buys = rec.buys /\ new.sells = rec.sells
        /\ new.pc = "save" => rec.buys = {} /\ rec.sells = {}
    BY <2>0, <1>0, Proceeds DEF Runner
  <2>2. \A x \in Runners : runner'[x] = new
    BY <1>1, OnlyRunner DEF OpenLot
  <2> HIDE DEF new
  <2>3. PICK lot \in rec.acked : book' = Opened(lot, rec.anchor)
    BY <1>1 DEF OpenLot
  <2>4. rec.pc = "opening" /\ rec.sells \subseteq book.lots
    BY <1>1, <1>0 DEF OpenLot, Shape
  <2>5. CASE mode = "percent-grid"
    <3>1. book'.lots = book.lots \cup {lot}
      BY <2>3, <2>5, <1>b DEF Opened, Book
    <3> QED
      BY <2>1, <2>2, <2>4, <2>5, <3>1, <1>0 DEF ShapeInv, Shape, OnePosition
  <2>6. CASE mode # "percent-grid"
    <3>1. book'.lots = {lot} /\ book.lots = {} /\ rec.buys = {}
      BY <2>3, <2>4, <2>6, <1>0 DEF Opened, OnePosition
    <3> QED
      BY <2>1, <2>2, <2>4, <2>6, <3>1, <1>0 DEF ShapeInv, Shape, OnePosition
  <2> QED
    BY <2>5, <2>6
<1>2. CASE CloseLot(r)
  <2> DEFINE new == Proceed([rec EXCEPT !.state.sells = @ + 1])
  <2>0. [rec EXCEPT !.state.sells = @ + 1] \in Runner
    BY <1>0 DEF Runner, WorkerState
  <2>1. /\ new.acked = {} /\ new.pc \in {"save", "orders"}
        /\ new.buys = rec.buys /\ new.sells = rec.sells
        /\ new.pc = "save" => rec.buys = {} /\ rec.sells = {}
    BY <2>0, <1>0, Proceeds DEF Runner
  <2>2. \A x \in Runners : runner'[x] = new
    BY <1>2, OnlyRunner DEF CloseLot
  <2> HIDE DEF new
  <2>3. PICK lot \in rec.acked : book' = Closed(lot)
    BY <1>2 DEF CloseLot
  <2>4. /\ rec.pc = "closing" /\ rec.sells \subseteq book.lots /\ rec.buys = {}
        /\ lot \in book.lots /\ lot \notin rec.sells
    BY <1>2, <1>0 DEF CloseLot, Shape
  <2>5. CASE mode = "percent-grid"
    <3>1. book'.lots = book.lots \ {lot}
      BY <2>3, <2>5, <1>b DEF Closed, Book
    <3> QED
      BY <2>1, <2>2, <2>4, <2>5, <3>1, <1>0 DEF ShapeInv, Shape, OnePosition
  <2>6. CASE mode # "percent-grid"
    <3>1. book'.lots = {} /\ rec.sells = {}
      BY <2>3, <2>4, <2>6, <1>0 DEF Closed, OnePosition
    <3> QED
      BY <2>1, <2>2, <2>4, <2>6, <3>1, <1>0 DEF ShapeInv, Shape, OnePosition
  <2> QED
    BY <2>5, <2>6
<1>3. CASE ClearBook(r)
  <2> DEFINE new == ExitDone(rec)
  <2>1. new.pc = "save" /\ new.buys = {} /\ new.sells = {} /\ new.acked = {}
    BY <1>0, <1>3 DEF ExitDone, Runner, Shape, ClearBook
  <2>2. \A x \in Runners : runner'[x] = new
    BY <1>3, OnlyRunner DEF ClearBook
  <2> HIDE DEF new
  <2>3. book' = Cleared(rec.price)
    BY <1>3 DEF ClearBook
  <2>4. book'.lots = {}
    BY <2>3, <1>b DEF Cleared, Book
  <2> QED
    BY <2>1, <2>2, <2>4, <1>0 DEF ShapeInv, Shape, OnePosition
<1> QED
  BY <1>1, <1>2, <1>3

LEMMA EndKeepsShape ==
    ASSUME \A x, y \in Runners : x = y, TypeOK, ShapeInv, NEW r \in Runners,
           ExitNotSent(r) \/ ExitAcked(r) \/ ExitLost(r) \/ Save(r) \/ Abort(r)
    PROVE  ShapeInv'
<1> DEFINE rec == runner[r]
<1>0. rec \in Runner /\ Shape(rec) /\ OnePosition(rec) /\ UNCHANGED <<mode, book>>
  BY DEF TypeOK, ShapeInv, ExitNotSent, ExitAcked, ExitLost, Save, Abort
<1>1. ASSUME NEW new \in Runner, Step(r, new), new.pc \in {"idle", "save", "clear"},
             new.buys = {}, new.sells = {}, new.acked = {}
      PROVE  ShapeInv'
  <2>1. \A x \in Runners : runner'[x] = new
    BY <1>1, OnlyRunner
  <2>2. Shape(new) /\ OnePosition(new)
    BY <1>1, <1>0 DEF Shape, OnePosition
  <2> QED
    BY <1>0, <2>1, <2>2 DEF ShapeInv, Shape, OnePosition
<1>2. CASE Save(r) \/ Abort(r)
  <2>1. /\ IdleRunner.pc = "idle" /\ IdleRunner.buys = {} /\ IdleRunner.sells = {}
        /\ IdleRunner.acked = {} /\ Step(r, IdleRunner)
    BY <1>2 DEF IdleRunner, Save, Abort
  <2> QED
    BY <1>1, <2>1, Nulls
<1>3. CASE ExitNotSent(r) \/ ExitAcked(r) \/ ExitLost(r)
  <2>1. rec.buys = {} /\ rec.acked = {} /\ rec.pc = "exit"
    BY <1>0, <1>3 DEF Shape, ExitNotSent, ExitAcked, ExitLost
  <2>2. CASE Step(r, ExitUnsent(rec))
    <3>1. /\ ExitUnsent(rec) \in Runner /\ ExitUnsent(rec).pc = "save"
          /\ ExitUnsent(rec).buys = {} /\ ExitUnsent(rec).sells = {} /\ ExitUnsent(rec).acked = {}
      BY <1>0, <2>1, RecTypes DEF ExitUnsent, Runner
    <3> QED
      BY <1>1, <2>2, <3>1
  <2>3. CASE Step(r, [rec EXCEPT !.pc = "clear", !.sells = {}])
    <3> DEFINE new == [rec EXCEPT !.pc = "clear", !.sells = {}]
    <3>1. /\ new \in Runner /\ new.pc = "clear" /\ new.buys = {} /\ new.sells = {}
          /\ new.acked = {}
      BY <1>0, <2>1 DEF Runner
    <3> HIDE DEF new
    <3> QED
      BY <1>1, <2>3, <3>1 DEF new
  <2> QED
    BY <1>3, <2>2, <2>3 DEF ExitNotSent, ExitAcked, ExitLost
<1> QED
  BY <1>2, <1>3

LEMMA ShapeHolds ==
    ASSUME \A x, y \in Runners : x = y
    PROVE  Spec => []ShapeInv
<1>1. Init => ShapeInv
  BY DEF Init, IdleRunner, ShapeInv, Shape, OnePosition
<1>2. TypeOK /\ ShapeInv /\ [Next]_vars => ShapeInv'
  <2> SUFFICES ASSUME TypeOK, ShapeInv, [Next]_vars PROVE ShapeInv'
    OBVIOUS
  <2>1. CASE NextDay
    BY <2>1 DEF NextDay, ShapeInv, Shape, OnePosition
  <2>2. CASE UNCHANGED vars
    BY <2>2 DEF vars, ShapeInv, Shape, OnePosition
  <2>3. CASE \E r \in Runners : Tick(r) \/ Abort(r)
    BY <2>3, ReadKeepsShape, OrderKeepsShape, WriteKeepsShape, EndKeepsShape DEF Tick
  <2> QED
    BY <2>1, <2>2, <2>3 DEF Next
<1> QED
  BY <1>1, <1>2, TypesHold, PTL DEF Spec

-----------------------------------------------------------------------------
(* What the broker holds against what the book says. *)

\* Where each action leaves its tick.
LEMMA Moves ==
    ASSUME TypeOK, NEW r \in Runners
    PROVE  /\ Start(r) => runner'[r].pc = "book" /\ runner'[r].acked = {}
           /\ ReadBook(r) => /\ runner'[r].pc \in {"exit", "orders", "save"}
                             /\ runner'[r].acked = runner[r].acked \/ runner'[r].acked = {}
           /\ OrderNotSent(r) \/ BuyLost(r) \/ SellLost(r) \/ OpenLot(r) \/ CloseLot(r) =>
                 runner'[r].pc \in {"orders", "save"} /\ runner'[r].acked = {}
           /\ BuyAcked(r) => runner'[r].pc = "opening"
           /\ SellAcked(r) => runner'[r].pc = "closing"
           /\ ExitNotSent(r) \/ ExitLost(r) \/ ClearBook(r) =>
                 runner'[r].pc = "save" /\ runner'[r].acked = runner[r].acked
           /\ ExitAcked(r) => runner'[r].pc = "clear" /\ runner'[r].acked = runner[r].acked
           /\ Save(r) \/ Abort(r) => runner'[r].pc = "idle" /\ runner'[r].acked = {}
<1>0. runner[r] \in Runner /\ \A rec : Step(r, rec) => runner'[r] = rec
  BY DEF TypeOK, Step
<1>1. ASSUME Start(r) PROVE runner'[r].pc = "book" /\ runner'[r].acked = {}
  BY <1>0, <1>1 DEF Start, IdleRunner
<1>p. \A rec \in Runner : Proceed(rec).pc \in {"orders", "save"} /\ Proceed(rec).acked = {}
  BY Proceeds
<1>2. ASSUME ReadBook(r)
      PROVE  /\ runner'[r].pc \in {"exit", "orders", "save"}
             /\ runner'[r].acked = runner[r].acked \/ runner'[r].acked = {}
  <2> DEFINE at == [runner[r] EXCEPT !.anchor = IF mode = "percent-grid" THEN BasePrice
                                                ELSE book.anchor]
  <2>1. PICK price \in Prices :
          \/ Step(r, [at EXCEPT !.pc = "exit", !.price = price, !.sells = book.lots])
          \/ \E b \in SUBSET Rungs, s \in SUBSET book.lots :
                Step(r, Proceed([at EXCEPT !.buys = b, !.sells = s]))
    BY <1>2 DEF ReadBook
  <2>2. at \in Runner /\ at.acked = runner[r].acked /\ book.lots \subseteq Lot
    BY <1>0, GridAssumption DEF TypeOK, Runner, Book
  <2> HIDE DEF at
  <2>3. \A b \in SUBSET Rungs, s \in SUBSET book.lots : [at EXCEPT !.buys = b, !.sells = s] \in Runner
    BY <2>2 DEF Runner
  <2>4. /\ [at EXCEPT !.pc = "exit", !.price = price, !.sells = book.lots].pc = "exit"
        /\ [at EXCEPT !.pc = "exit", !.price = price, !.sells = book.lots].acked = at.acked
    BY <2>2 DEF Runner
  <2> QED
    BY ZenonT(60), <2>1, <2>2, <2>3, <2>4, <1>0, <1>p
<1>3. ASSUME OrderNotSent(r) \/ BuyLost(r) \/ SellLost(r)
      PROVE  runner'[r].pc \in {"orders", "save"} /\ runner'[r].acked = {}
  <2>1. \/ \E rung \in runner[r].buys :
              Step(r, Proceed([runner[r] EXCEPT !.buys = @ \ {rung}]))
        \/ \E lot \in runner[r].sells :
              Step(r, Proceed([runner[r] EXCEPT !.sells = @ \ {lot}]))
    BY <1>3 DEF OrderNotSent, BuyLost, SellLost
  <2>2. /\ \A rung : [runner[r] EXCEPT !.buys = @ \ {rung}] \in Runner
        /\ \A lot : [runner[r] EXCEPT !.sells = @ \ {lot}] \in Runner
    BY <1>0 DEF Runner
  <2> QED
    BY <2>1, <2>2, <1>0, <1>p
<1>4. ASSUME OpenLot(r) \/ CloseLot(r)
      PROVE  runner'[r].pc \in {"orders", "save"} /\ runner'[r].acked = {}
  <2>1. /\ [runner[r] EXCEPT !.state.buys = @ + 1] \in Runner
        /\ [runner[r] EXCEPT !.state.sells = @ + 1] \in Runner
    BY <1>0 DEF Runner, WorkerState
  <2> QED
    BY <1>4, <2>1, <1>0, <1>p DEF OpenLot, CloseLot
<1>5. BuyAcked(r) => runner'[r].pc = "opening"
  BY <1>0 DEF BuyAcked, Runner
<1>6. SellAcked(r) => runner'[r].pc = "closing"
  BY <1>0 DEF SellAcked, Runner
<1>7. ASSUME ExitNotSent(r) \/ ExitLost(r)
      PROVE  runner'[r].pc = "save" /\ runner'[r].acked = runner[r].acked
  BY <1>0, <1>7 DEF ExitNotSent, ExitLost, ExitUnsent, Runner
<1>8. ASSUME ClearBook(r) PROVE runner'[r].pc = "save" /\ runner'[r].acked = runner[r].acked
  BY <1>0, <1>8 DEF ClearBook, ExitDone, Runner
<1>9. ASSUME ExitAcked(r) PROVE runner'[r].pc = "clear" /\ runner'[r].acked = runner[r].acked
  BY <1>0, <1>9 DEF ExitAcked, Runner
<1>10. ASSUME Save(r) \/ Abort(r) PROVE runner'[r].pc = "idle" /\ runner'[r].acked = {}
  BY <1>0, <1>10 DEF Save, Abort, IdleRunner
<1> QED
  BY <1>1, <1>2, <1>3, <1>4, <1>5, <1>6, <1>7, <1>8, <1>9, <1>10

\* What an accepted order of the evaluation does.
LEMMA BuyEffect ==
    ASSUME TypeOK, NEW r \in Runners, BuyAcked(r) \/ BuyLost(r)
    PROVE  \E lot \in Lot :
              /\ lot \notin Alive
              /\ AcceptBuy(lot, runner[r].day)
              /\ BuyAcked(r) => runner'[r].acked = {lot}
<1> DEFINE rec == runner[r]
<1>0. rec \in Runner /\ rec.buys \subseteq Rungs
  BY DEF TypeOK, Runner
<1>1. PICK rung \in rec.buys : \E lot \in NewLots(rec, rung) :
        /\ AcceptBuy(lot, rec.day)
        /\ BuyAcked(r) =>
             Step(r, [rec EXCEPT !.pc = "opening", !.buys = @ \ {rung}, !.acked = {lot}])
  <2>1. CASE BuyAcked(r)
    BY <2>1 DEF BuyAcked
  <2>2. CASE BuyLost(r) /\ ~BuyAcked(r)
    BY <2>2 DEF BuyLost
  <2> QED
    BY ZenonT(60), <2>1, <2>2
<1>2. PICK lot \in NewLots(rec, rung) :
        /\ AcceptBuy(lot, rec.day)
        /\ BuyAcked(r) =>
             Step(r, [rec EXCEPT !.pc = "opening", !.buys = @ \ {rung}, !.acked = {lot}])
  BY <1>1
<1>3. lot \in Lot /\ lot \notin Alive
  BY <1>0, NewLotTypes
<1>4. BuyAcked(r) => runner'[r].acked = {lot}
  BY ZenonT(60), <1>0, <1>2 DEF TypeOK, Step, Runner
<1> QED
  BY <1>2, <1>3, <1>4

LEMMA SellEffect ==
    ASSUME TypeOK, NEW r \in Runners, SellAcked(r) \/ SellLost(r)
    PROVE  \E lot \in runner[r].sells :
              /\ AcceptSell(lot)
              /\ SellAcked(r) => runner'[r].acked = {lot}
<1> DEFINE rec == runner[r]
<1>0. rec \in Runner
  BY DEF TypeOK
<1>1. PICK lot \in rec.sells :
        /\ AcceptSell(lot)
        /\ SellAcked(r) =>
             Step(r, [rec EXCEPT !.pc = "closing", !.sells = @ \ {lot}, !.acked = {lot}])
  <2>1. CASE SellAcked(r)
    BY <2>1 DEF SellAcked
  <2>2. CASE SellLost(r) /\ ~SellAcked(r)
    BY <2>2 DEF SellLost
  <2> QED
    BY <2>1, <2>2
<1>2. SellAcked(r) => runner'[r].acked = {lot}
  BY <1>0, <1>1 DEF TypeOK, Step, Runner
<1> QED
  BY <1>1, <1>2

\* How an accepted order enters or leaves the book.
LEMMA BookEffect ==
    ASSUME TypeOK, ShapeInv, NEW r \in Runners
    PROVE  /\ OpenLot(r) => book'.lots = book.lots \cup runner[r].acked
           /\ CloseLot(r) => book'.lots = book.lots \ runner[r].acked
           /\ ClearBook(r) => book'.lots = {}
<1> DEFINE rec == runner[r]
<1>0. Shape(rec) /\ OnePosition(rec) /\ book \in Book
  BY DEF TypeOK, ShapeInv
<1>1. ASSUME OpenLot(r) PROVE book'.lots = book.lots \cup rec.acked
  <2>1. PICK lot \in rec.acked : book' = Opened(lot, rec.anchor)
    BY <1>1 DEF OpenLot
  <2>2. rec.acked = {lot} /\ rec.pc = "opening"
    BY <1>0, <1>1, <2>1 DEF OpenLot, Shape
  <2>3. CASE mode = "percent-grid"
    BY <2>1, <2>2, <2>3, <1>0 DEF Opened, Book
  <2>4. CASE mode # "percent-grid"
    BY <2>1, <2>2, <2>4, <1>0 DEF Opened, OnePosition
  <2> QED
    BY <2>3, <2>4
<1>2. ASSUME CloseLot(r) PROVE book'.lots = book.lots \ rec.acked
  <2>1. PICK lot \in rec.acked : book' = Closed(lot)
    BY <1>2 DEF CloseLot
  <2>2. rec.acked = {lot} /\ rec.acked \subseteq book.lots
    BY <1>0, <1>2, <2>1 DEF CloseLot, Shape
  <2>3. CASE mode = "percent-grid"
    BY <2>1, <2>2, <2>3, <1>0 DEF Closed, Book
  <2>4. CASE mode # "percent-grid"
    BY <2>1, <2>2, <2>4, <1>0 DEF Closed, OnePosition
  <2> QED
    BY <2>3, <2>4
<1>3. ASSUME ClearBook(r) PROVE book'.lots = {}
  <2>1. book' = Cleared(rec.price)
    BY <1>3 DEF ClearBook
  <2> QED
    BY <2>1, <1>0 DEF Cleared, Book
<1> QED
  BY <1>1, <1>2, <1>3

-----------------------------------------------------------------------------
(* Nothing is sold twice. *)

\* Every lot of the book is there to be sold, as long as nothing was lost: a
\* closing lot is sold already, and a book that is being cleared may be.
Backed(rec) ==
    /\ faults = 0 /\ rec.pc # "clear" => book.lots \ rec.acked \subseteq shares
    /\ rec.pc = "opening" => rec.acked \subseteq shares

SoldInv == (faults = 0 => ~oversold) /\ \A r \in Runners : Backed(runner[r])

\* Without a fault the lots of the book are sold once (grid-state.ts: a lot is
\* closed when its sale is sent), although every grid order has a new
\* clientOrderId.
THEOREM NothingSoldTwice ==
    ASSUME \A x, y \in Runners : x = y
    PROVE  Spec => []SoldOnce
<1>1. Init => SoldInv
  BY DEF Init, IdleRunner, SoldInv, Backed
<1>2. TypeOK /\ ShapeInv /\ SoldInv /\ [Next]_vars => SoldInv'
  <2> SUFFICES ASSUME TypeOK, ShapeInv, SoldInv, [Next]_vars PROVE SoldInv'
    OBVIOUS
  <2>1. CASE NextDay
    BY <2>1 DEF NextDay, broker, SoldInv, Backed
  <2>2. CASE UNCHANGED vars
    BY <2>2 DEF vars, broker, SoldInv, Backed
  <2>3. ASSUME NEW r \in Runners, Tick(r) \/ Abort(r) PROVE SoldInv'
    <3> DEFINE rec == runner[r]
    <3> DEFINE new == runner'[r]
    <3>0. /\ Shape(rec) /\ Backed(rec) /\ (faults = 0 => ~oversold)
          /\ faults \in Nat
      BY DEF ShapeInv, SoldInv, TypeOK
    <3>q. SUFFICES /\ faults' = 0 => ~oversold'
                   /\ faults' = 0 /\ new.pc # "clear" => book'.lots \ new.acked \subseteq shares'
                   /\ new.pc = "opening" => new.acked \subseteq shares'
      BY DEF SoldInv, Backed
    <3>1. CASE Start(r) \/ ReadBook(r) \/ OrderNotSent(r) \/ Save(r) \/ ExitNotSent(r)
      <4>1. UNCHANGED <<book, broker, faults>>
        BY ZenonT(60), <3>1 DEF Start, ReadBook, OrderNotSent, Save, ExitNotSent
      <4>2. rec.pc \notin {"clear", "opening", "closing"}
        BY <3>1 DEF Start, ReadBook, OrderNotSent, Save, ExitNotSent
      <4>3. rec.acked = {} /\ new.acked = {} /\ new.pc # "opening"
        BY <3>0, <3>1, <4>2, Moves DEF Shape
      <4> QED
        BY SMTT(60), <4>1, <4>2, <4>3, <3>0 DEF broker, Backed
    <3>2. CASE BuyAcked(r)
      <4>1. PICK lot \in Lot : AcceptBuy(lot, rec.day) /\ new.acked = {lot}
        BY <3>2, BuyEffect
      <4>2. UNCHANGED <<book, faults>> /\ rec.pc = "orders" /\ rec.acked = {}
        BY <3>0, <3>2 DEF BuyAcked, Shape
      <4> QED
        BY <4>1, <4>2, <3>0 DEF AcceptBuy, Backed
    <3>3. CASE BuyLost(r) \/ SellLost(r) \/ ExitLost(r) \/ Abort(r)
      <4>1. faults' = faults + 1
        BY <3>3 DEF BuyLost, SellLost, ExitLost, Abort, Fault
      <4>2. new.pc # "opening"
        BY <3>3, Moves
      <4> QED
        BY <4>1, <4>2, <3>0
    <3>4. CASE SellAcked(r)
      <4>1. PICK lot \in rec.sells : AcceptSell(lot) /\ new.acked = {lot}
        BY <3>4, SellEffect
      <4>2. UNCHANGED <<book, faults>> /\ rec.pc = "orders" /\ rec.acked = {} /\ lot \in book.lots
        BY <3>0, <3>4 DEF SellAcked, Shape
      <4>3. new.pc = "closing"
        BY <3>4, Moves
      <4> QED
        BY <4>1, <4>2, <4>3, <3>0 DEF AcceptSell, Backed
    <3>5. CASE OpenLot(r)
      <4>1. book'.lots = book.lots \cup rec.acked /\ UNCHANGED <<broker, faults>>
        BY <3>5, BookEffect DEF OpenLot
      <4>2. rec.pc = "opening" /\ new.acked = {} /\ new.pc # "opening"
        BY <3>5, Moves DEF OpenLot
      <4> QED
        BY <4>1, <4>2, <3>0 DEF broker, Backed
    <3>6. CASE CloseLot(r)
      <4>1. book'.lots = book.lots \ rec.acked /\ UNCHANGED <<broker, faults>>
        BY <3>6, BookEffect DEF CloseLot
      <4>2. rec.pc = "closing" /\ new.acked = {} /\ new.pc # "opening"
        BY <3>6, Moves DEF CloseLot
      <4> QED
        BY <4>1, <4>2, <3>0 DEF broker, Backed
    <3>7. CASE ClearBook(r)
      <4>1. book'.lots = {} /\ UNCHANGED <<broker, faults>> /\ new.pc = "save"
        BY <3>7, BookEffect, Moves DEF ClearBook
      <4> QED
        BY <4>1, <3>0 DEF broker
    <3>8. CASE ExitAcked(r)
      <4>1. /\ AcceptExit(rec.sells, rec.day) /\ UNCHANGED <<book, faults>>
            /\ rec.pc = "exit" /\ new.pc = "clear"
        BY <3>8, Moves DEF ExitAcked
      <4>2. rec.sells = book.lots /\ rec.acked = {}
        BY <4>1, <3>0 DEF Shape
      <4>3. faults = 0 => rec.sells \subseteq shares
        BY <4>1, <4>2, <3>0 DEF Backed
      <4>4. faults' = 0 => ~oversold'
        BY <4>1, <4>3, <3>0 DEF AcceptExit
      <4> QED
        BY SMTT(60), <4>1, <4>4
    <3> QED
      BY <2>3, <3>1, <3>2, <3>3, <3>4, <3>5, <3>6, <3>7, <3>8 DEF Tick
  <2> QED
    BY <2>1, <2>2, <2>3 DEF Next
<1>3. SoldInv => SoldOnce
  BY DEF SoldInv, SoldOnce
<1> QED
  BY <1>1, <1>2, <1>3, TypesHold, ShapeHolds, PTL DEF Spec

-----------------------------------------------------------------------------
(* Nothing is stranded without a fault. *)

\* A sold lot is gone at the broker while it is being closed, and so is the book
\* that a stop-loss is about to clear, unless its id was an earlier one's.
Settled(rec) ==
    /\ rec.pc = "closing" => rec.acked \cap shares = {}
    /\ rec.pc = "clear" => reused \/ book.lots \cap shares = {}

StrandInv ==
    /\ IsFiniteSet(shares)
    /\ \A r \in Runners : Settled(runner[r])
    /\ StrandedByFaults

\* Fewer lots stranded and no fewer faults keep the bound; so does one lot more
\* for one fault more.
LEMMA StrandBound ==
    ASSUME NEW S, NEW T, IsFiniteSet(S), NEW f \in Nat, NEW g \in Nat,
           Cardinality(S) <= f,
           \/ T \subseteq S /\ g >= f
           \/ g = f + 1 /\ \E x : T \subseteq S \cup {x}
    PROVE  Cardinality(T) <= g
<1>0. Cardinality(S) \in Nat
  BY FS_CardinalityType
<1>1. CASE T \subseteq S /\ g >= f
  <2>1. Cardinality(T) <= Cardinality(S) /\ Cardinality(T) \in Nat
    BY <1>1, FS_Subset, FS_CardinalityType
  <2> QED
    BY <1>0, <1>1, <2>1
<1>2. CASE g = f + 1 /\ \E x : T \subseteq S \cup {x}
  <2>1. PICK x : T \subseteq S \cup {x}
    BY <1>2
  <2>2. /\ IsFiniteSet(S \cup {x})
        /\ Cardinality(S \cup {x}) <= Cardinality(S) + 1
        /\ Cardinality(S \cup {x}) \in Nat
    <3>1. Cardinality(S \cup {x}) = Cardinality(S) \/ Cardinality(S \cup {x}) = Cardinality(S) + 1
      BY FS_AddElement
    <3> QED
      BY <3>1, <1>0, FS_AddElement, FS_CardinalityType
  <2>3. Cardinality(T) <= Cardinality(S \cup {x}) /\ Cardinality(T) \in Nat
    BY <2>1, <2>2, FS_Subset, FS_CardinalityType
  <2> QED
    BY <1>0, <1>2, <2>2, <2>3
<1> QED
  BY <1>1, <1>2

\* The lots stranded, when only r runs.
LEMMA StrandedOf ==
    ASSUME \A x, y \in Runners : x = y, NEW r \in Runners
    PROVE  /\ Stranded = shares \ (book.lots \cup runner[r].acked)
           /\ Stranded' = shares' \ (book'.lots \cup runner'[r].acked)
  BY DEF Stranded

\* Faults only add up.
LEMMA FaultsGrow ==
    ASSUME TypeOK, NEW r \in Runners, Tick(r) \/ Abort(r)
    PROVE  faults \in Nat /\ faults' \in Nat /\ faults' >= faults
<1>1. faults' = faults \/ faults' = faults + 1
  <2>1. CASE Start(r) \/ ReadBook(r) \/ OrderNotSent(r) \/ BuyAcked(r) \/ SellAcked(r)
    BY <2>1 DEF Start, ReadBook, OrderNotSent, BuyAcked, SellAcked
  <2>2. CASE OpenLot(r) \/ CloseLot(r) \/ ExitNotSent(r) \/ ExitAcked(r) \/ ClearBook(r) \/ Save(r)
    BY <2>2 DEF OpenLot, CloseLot, ExitNotSent, ExitAcked, ClearBook, Save
  <2>3. CASE BuyLost(r) \/ SellLost(r) \/ ExitLost(r) \/ Abort(r)
    BY <2>3 DEF BuyLost, SellLost, ExitLost, Abort, Fault
  <2> QED
    BY SMTT(60), <2>1, <2>2, <2>3 DEF Tick
<1>2. faults \in Nat
  BY GridAssumption DEF TypeOK
<1> QED
  BY <1>1, <1>2

\* What one action does to the lots stranded.
LEMMA StrandStep ==
    ASSUME \A x, y \in Runners : x = y, TypeOK, ShapeInv, StrandInv,
           NEW r \in Runners, Tick(r) \/ Abort(r)
    PROVE  /\ IsFiniteSet(shares')
           /\ Settled(runner[r])'
           /\ reused => reused'
           /\ ~reused' => \/ Stranded' \subseteq Stranded /\ faults' >= faults
                          \/ faults' = faults + 1 /\ \E x : Stranded' \subseteq Stranded \cup {x}
<1> DEFINE rec == runner[r]
<1> DEFINE new == runner'[r]
<1>0. /\ Shape(rec) /\ Settled(rec) /\ IsFiniteSet(shares)
      /\ faults \in Nat
  BY DEF ShapeInv, StrandInv, TypeOK
<1>s. /\ Stranded = shares \ (book.lots \cup rec.acked)
      /\ Stranded' = shares' \ (book'.lots \cup new.acked)
  BY StrandedOf
<1>f. \A S : S \subseteq shares => IsFiniteSet(S)
  BY <1>0, FS_Subset
<1>1. CASE Start(r) \/ ReadBook(r) \/ OrderNotSent(r) \/ Save(r) \/ ExitNotSent(r)
  <2>1. UNCHANGED <<book, broker, faults>>
    BY ZenonT(60), <1>1 DEF Start, ReadBook, OrderNotSent, Save, ExitNotSent
  <2>2. rec.pc \notin {"opening", "closing"}
    BY <1>1 DEF Start, ReadBook, OrderNotSent, Save, ExitNotSent
  <2>3. rec.acked = {} /\ new.acked = {} /\ new.pc \notin {"closing", "clear"}
    BY <1>0, <1>1, <2>2, Moves DEF Shape
  <2> QED
    BY SMTT(60), <2>1, <2>3, <1>0, <1>s DEF broker, Settled
<1>2. CASE BuyAcked(r) \/ BuyLost(r)
  <2>1. PICK lot \in Lot : /\ AcceptBuy(lot, rec.day)
                           /\ BuyAcked(r) => new.acked = {lot}
    BY SMTT(60), <1>2, BuyEffect
  <2>2. UNCHANGED book /\ rec.acked = {}
    BY <1>0, <1>2 DEF BuyAcked, BuyLost, Shape
  <2>3. new.pc \notin {"closing", "clear"}
    BY <1>2, Moves
  <2>4. IsFiniteSet(shares')
    BY <2>1, <1>0, FS_AddElement DEF AcceptBuy
  <2>5. CASE BuyAcked(r)
    <3>1. faults' = faults
      BY <2>5 DEF BuyAcked
    <3> QED
      BY <2>1, <2>2, <2>3, <2>4, <2>5, <3>1, <1>0, <1>s DEF AcceptBuy, Settled
  <2>6. CASE BuyLost(r)
    <3>1. faults' = faults + 1 /\ new.acked = {}
      BY <2>6, Moves DEF BuyLost, Fault
    <3> QED
      BY <2>1, <2>2, <2>3, <2>4, <3>1, <1>0, <1>s DEF AcceptBuy, Settled
  <2> QED
    BY <1>2, <2>5, <2>6
<1>3. CASE SellAcked(r) \/ SellLost(r)
  <2>1. PICK lot \in rec.sells : /\ AcceptSell(lot)
                                 /\ SellAcked(r) => new.acked = {lot}
    BY <1>3, SellEffect
  <2>2. UNCHANGED book /\ rec.acked = {} /\ faults' >= faults
    BY <1>0, <1>3, FaultsGrow DEF SellAcked, SellLost, Shape
  <2>3. new.pc # "clear" /\ (new.pc = "closing" => SellAcked(r))
    BY <1>3, Moves
  <2>4. IsFiniteSet(shares')
    BY <2>1, <1>f DEF AcceptSell
  <2> QED
    BY <2>1, <2>2, <2>3, <2>4, <1>s DEF AcceptSell, Settled
<1>4. CASE OpenLot(r)
  <2>1. /\ book'.lots = book.lots \cup rec.acked /\ UNCHANGED <<broker, faults>>
        /\ new.acked = {} /\ new.pc \notin {"closing", "clear"}
    BY <1>4, BookEffect, Moves DEF OpenLot
  <2> QED
    BY <2>1, <1>0, <1>s DEF broker, Settled
<1>5. CASE CloseLot(r)
  <2>1. /\ book'.lots = book.lots \ rec.acked /\ UNCHANGED <<broker, faults>>
        /\ new.acked = {} /\ new.pc \notin {"closing", "clear"} /\ rec.pc = "closing"
    BY <1>5, BookEffect, Moves DEF CloseLot
  <2>2. rec.acked \cap shares = {}
    BY <2>1, <1>0 DEF Settled
  <2> QED
    BY <2>1, <2>2, <1>0, <1>s DEF broker, Settled
<1>6. CASE ClearBook(r)
  <2>1. /\ book'.lots = {} /\ UNCHANGED <<broker, faults>>
        /\ new.acked = rec.acked /\ new.pc = "save" /\ rec.pc = "clear"
    BY <1>6, BookEffect, Moves DEF ClearBook
  <2>2. reused \/ book.lots \cap shares = {}
    BY <2>1, <1>0 DEF Settled
  <2> QED
    BY <2>1, <2>2, <1>0, <1>s DEF broker, Settled
<1>7. CASE ExitAcked(r) \/ ExitLost(r)
  <2>1. /\ AcceptExit(rec.sells, rec.day) /\ UNCHANGED book /\ faults' >= faults
        /\ rec.pc = "exit" /\ new.acked = rec.acked /\ new.pc \in {"clear", "save"}
    BY <1>0, <1>7, Moves, FaultsGrow DEF ExitAcked, ExitLost
  <2>2. rec.sells = book.lots
    BY <2>1, <1>0 DEF Shape
  <2>3. shares' \subseteq shares /\ (reused => reused') /\ (reused' \/ book.lots \cap shares' = {})
    BY <2>1, <2>2 DEF AcceptExit
  <2>4. IsFiniteSet(shares')
    BY <2>3, <1>f
  <2> QED
    BY SMTT(60), <2>1, <2>3, <2>4, <1>s DEF Settled
<1>8. CASE Abort(r)
  <2>1. /\ UNCHANGED <<book, broker>> /\ faults' = faults + 1
        /\ new.acked = {} /\ new.pc = "idle"
    BY <1>8, Moves DEF Abort, Fault
  <2>2. \E x : rec.acked \subseteq {x}
    <3>1. rec.acked = {} \/ \E lot \in Lot : rec.acked = {lot}
      BY <1>0 DEF Shape
    <3> QED
      BY <3>1
  <2>3. \E x : Stranded' \subseteq Stranded \cup {x}
    BY <2>1, <2>2, <1>s DEF broker
  <2> QED
    BY <2>1, <2>3, <1>0 DEF broker, Settled
<1> QED
  BY <1>1, <1>2, <1>3, <1>4, <1>5, <1>6, <1>7, <1>8 DEF Tick

LEMMA StrandHolds ==
    ASSUME \A x, y \in Runners : x = y
    PROVE  Spec => []StrandInv
<1>1. Init => StrandInv
  <2> SUFFICES ASSUME Init PROVE StrandInv
    OBVIOUS
  <2>1. IsFiniteSet({}) /\ Cardinality({}) = 0
    BY FS_EmptySet
  <2>2. Stranded = {}
    BY DEF Init, Stranded
  <2> QED
    BY <2>1, <2>2 DEF Init, IdleRunner, StrandInv, Settled, StrandedByFaults
<1>2. TypeOK /\ ShapeInv /\ StrandInv /\ [Next]_vars => StrandInv'
  <2> SUFFICES ASSUME TypeOK, ShapeInv, StrandInv, [Next]_vars PROVE StrandInv'
    OBVIOUS
  <2>1. CASE NextDay \/ UNCHANGED vars
    <3>1. UNCHANGED <<book, runner, shares, reused, faults>>
      BY <2>1 DEF NextDay, vars, broker
    <3>2. Stranded' = Stranded
      BY <3>1 DEF Stranded
    <3> QED
      BY <3>1, <3>2 DEF StrandInv, Settled, StrandedByFaults
  <2>2. ASSUME NEW r \in Runners, Tick(r) \/ Abort(r) PROVE StrandInv'
    <3>1. /\ IsFiniteSet(shares')
          /\ Settled(runner[r])'
          /\ reused => reused'
          /\ ~reused' => \/ Stranded' \subseteq Stranded /\ faults' >= faults
                         \/ faults' = faults + 1 /\ \E x : Stranded' \subseteq Stranded \cup {x}
      BY <2>2, StrandStep
    <3>2. \A x \in Runners : Settled(runner[x])'
      BY <3>1
    <3>3. ASSUME ~reused' PROVE Cardinality(Stranded') <= faults'
      <4>1. Cardinality(Stranded) <= faults /\ IsFiniteSet(shares)
        BY <3>1, <3>3 DEF StrandInv, StrandedByFaults
      <4>2. IsFiniteSet(Stranded)
        BY <4>1, FS_Subset DEF Stranded
      <4>3. faults \in Nat /\ faults' \in Nat
        BY <2>2, FaultsGrow
      <4> QED
        BY <3>1, <3>3, <4>1, <4>2, <4>3, StrandBound
    <3> QED
      BY <3>1, <3>2, <3>3 DEF StrandInv, StrandedByFaults
  <2> QED
    BY <2>1, <2>2 DEF Next
<1> QED
  BY <1>1, <1>2, TypesHold, ShapeHolds, PTL DEF Spec

\* Every lost answer and every kill leaves at most one lot that the strategy
\* neither knows nor will sell, and nothing else does but a second stop-loss of
\* the day, which the broker takes for the first.
THEOREM FaultsStrandOneLot ==
    ASSUME \A x, y \in Runners : x = y
    PROVE  Spec => []StrandedByFaults
<1>1. StrandInv => StrandedByFaults
  BY DEF StrandInv
<1> QED
  BY <1>1, StrandHolds, PTL

-----------------------------------------------------------------------------
(* A pending stop-loss stops everything else. *)

\* Each action keeps the day of its tick; only a stop-loss touches its pending mark.
LEMMA StateMoves ==
    ASSUME TypeOK, NEW r \in Runners
    PROVE  /\ Start(r) => runner'[r].day = day /\ runner'[r].state = store[day]
           /\ ReadBook(r) => runner'[r].day = runner[r].day /\ runner'[r].state = runner[r].state
           /\ OrderNotSent(r) \/ BuyAcked(r) \/ BuyLost(r) \/ SellAcked(r) \/ SellLost(r)
              \/ OpenLot(r) \/ CloseLot(r) =>
                 /\ runner'[r].day = runner[r].day
                 /\ runner'[r].state.pending = runner[r].state.pending
           /\ ExitAcked(r) => runner'[r].day = runner[r].day
           /\ ExitNotSent(r) \/ ExitLost(r) => runner'[r].day = runner[r].day
           /\ ClearBook(r) => runner'[r].day = runner[r].day /\ ~runner'[r].state.pending
<1>0. runner[r] \in Runner /\ \A rec : Step(r, rec) => runner'[r] = rec
  BY DEF TypeOK, Step
<1>p. \A rec \in Runner : Proceed(rec).day = rec.day /\ Proceed(rec).state = rec.state
  BY Proceeds
<1>1. ASSUME Start(r) PROVE runner'[r].day = day /\ runner'[r].state = store[day]
  BY <1>0, <1>1 DEF Start, IdleRunner
<1>2. ASSUME ReadBook(r)
      PROVE  runner'[r].day = runner[r].day /\ runner'[r].state = runner[r].state
  <2> DEFINE at == [runner[r] EXCEPT !.anchor = IF mode = "percent-grid" THEN BasePrice
                                                ELSE book.anchor]
  <2>1. PICK price \in Prices :
          \/ Step(r, [at EXCEPT !.pc = "exit", !.price = price, !.sells = book.lots])
          \/ \E b \in SUBSET Rungs, s \in SUBSET book.lots :
                Step(r, Proceed([at EXCEPT !.buys = b, !.sells = s]))
    BY <1>2 DEF ReadBook
  <2>2. /\ at \in Runner /\ at.day = runner[r].day /\ at.state = runner[r].state
        /\ book.lots \subseteq Lot
    BY <1>0, GridAssumption DEF TypeOK, Runner, Book
  <2> HIDE DEF at
  <2>3. \A b \in SUBSET Rungs, s \in SUBSET book.lots :
           /\ [at EXCEPT !.buys = b, !.sells = s] \in Runner
           /\ [at EXCEPT !.buys = b, !.sells = s].day = at.day
           /\ [at EXCEPT !.buys = b, !.sells = s].state = at.state
    BY <2>2 DEF Runner
  <2>4. /\ [at EXCEPT !.pc = "exit", !.price = price, !.sells = book.lots].day = at.day
        /\ [at EXCEPT !.pc = "exit", !.price = price, !.sells = book.lots].state = at.state
    BY <2>2 DEF Runner
  <2>5. CASE Step(r, [at EXCEPT !.pc = "exit", !.price = price, !.sells = book.lots])
    BY <2>2, <2>4, <2>5, <1>0
  <2>6. ASSUME NEW b \in SUBSET Rungs, NEW s \in SUBSET book.lots,
               Step(r, Proceed([at EXCEPT !.buys = b, !.sells = s]))
        PROVE  runner'[r].day = runner[r].day /\ runner'[r].state = runner[r].state
    <3> DEFINE sent == [at EXCEPT !.buys = b, !.sells = s]
    <3>1. sent \in Runner /\ sent.day = at.day /\ sent.state = at.state
      BY <2>3
    <3>2. runner'[r] = Proceed(sent)
      BY <2>6, <1>0
    <3> HIDE DEF sent
    <3> QED
      BY <2>2, <3>1, <3>2, <1>p
  <2> QED
    BY <2>1, <2>5, <2>6
<1>3. ASSUME OrderNotSent(r) \/ BuyLost(r) \/ SellLost(r)
      PROVE  runner'[r].day = runner[r].day /\ runner'[r].state = runner[r].state
  <2>1. \/ \E rung \in runner[r].buys :
              Step(r, Proceed([runner[r] EXCEPT !.buys = @ \ {rung}]))
        \/ \E lot \in runner[r].sells :
              Step(r, Proceed([runner[r] EXCEPT !.sells = @ \ {lot}]))
    BY <1>3 DEF OrderNotSent, BuyLost, SellLost
  <2>2. /\ \A rung : /\ [runner[r] EXCEPT !.buys = @ \ {rung}] \in Runner
                     /\ [runner[r] EXCEPT !.buys = @ \ {rung}].day = runner[r].day
                     /\ [runner[r] EXCEPT !.buys = @ \ {rung}].state = runner[r].state
        /\ \A lot : /\ [runner[r] EXCEPT !.sells = @ \ {lot}] \in Runner
                    /\ [runner[r] EXCEPT !.sells = @ \ {lot}].day = runner[r].day
                    /\ [runner[r] EXCEPT !.sells = @ \ {lot}].state = runner[r].state
    BY <1>0 DEF Runner
  <2>3. \E rec \in Runner : /\ rec.day = runner[r].day /\ rec.state = runner[r].state
                            /\ runner'[r] = Proceed(rec)
    BY <2>1, <2>2, <1>0
  <2> QED
    BY <2>3, <1>p
<1>4. ASSUME OpenLot(r) \/ CloseLot(r)
      PROVE  runner'[r].day = runner[r].day /\ runner'[r].state.pending = runner[r].state.pending
  <2>1. /\ [runner[r] EXCEPT !.state.buys = @ + 1] \in Runner
        /\ [runner[r] EXCEPT !.state.buys = @ + 1].day = runner[r].day
        /\ [runner[r] EXCEPT !.state.buys = @ + 1].state.pending = runner[r].state.pending
        /\ [runner[r] EXCEPT !.state.sells = @ + 1] \in Runner
        /\ [runner[r] EXCEPT !.state.sells = @ + 1].day = runner[r].day
        /\ [runner[r] EXCEPT !.state.sells = @ + 1].state.pending = runner[r].state.pending
    BY <1>0 DEF Runner, WorkerState
  <2> QED
    BY <1>4, <2>1, <1>0, <1>p DEF OpenLot, CloseLot
<1>5. BuyAcked(r) => runner'[r].day = runner[r].day /\ runner'[r].state = runner[r].state
  BY <1>0 DEF BuyAcked, Runner
<1>6. SellAcked(r) => runner'[r].day = runner[r].day /\ runner'[r].state = runner[r].state
  BY <1>0 DEF SellAcked, Runner
<1>7. ASSUME ExitNotSent(r) \/ ExitLost(r) PROVE runner'[r].day = runner[r].day
  BY <1>0, <1>7 DEF ExitNotSent, ExitLost, ExitUnsent, Runner
<1>8. ASSUME ClearBook(r) PROVE runner'[r].day = runner[r].day /\ ~runner'[r].state.pending
  <2>1. runner'[r] = ExitDone(runner[r])
    BY <1>0, <1>8 DEF ClearBook
  <2>2. ExitDone(runner[r]).day = runner[r].day
    BY <1>0 DEF ExitDone, Runner
  <2>3. ExitDone(runner[r]).state
          = [pending |-> FALSE, buys |-> runner[r].state.buys, sells |-> runner[r].state.sells + 1]
    BY <1>0 DEF ExitDone, Runner
  <2>4. ~ExitDone(runner[r]).state.pending
    BY <2>3
  <2> QED
    BY <2>1, <2>2, <2>4
<1>9. ASSUME ExitAcked(r) PROVE runner'[r].day = runner[r].day
  BY <1>0, <1>9 DEF ExitAcked, Runner
<1> QED
  BY <1>1, <1>2, <1>3, <1>4, <1>5, <1>6, <1>7, <1>8, <1>9

\* No row of a later day is pending, a tick that sends grid orders read a row that
\* is not, and without a fault a pending row has lots to sell.
Waits(rec) ==
    /\ rec.pc # "idle" => rec.day <= day
    /\ \A d \in Days : d > day \/ (rec.pc # "idle" /\ d > rec.day) => ~store[d].pending
    /\ rec.pc = "book" => rec.state.pending = store[rec.day].pending
    /\ rec.pc \in {"orders", "opening", "closing"} /\ faults = 0 =>
          ~rec.state.pending /\ ~store[rec.day].pending
    /\ rec.pc = "exit" => book.lots # {} /\ StopLossPct > 0
    /\ rec.pc = "idle" /\ faults = 0 /\ store[day].pending => book.lots # {}
    /\ rec.pc = "book" /\ faults = 0 /\ store[rec.day].pending => book.lots # {}
    /\ rec.pc = "save" /\ faults = 0 /\ rec.state.pending => book.lots # {}
    /\ rec.pc \in {"book", "orders", "opening", "closing", "save"} /\ rec.state.pending =>
          StopLossPct > 0

PendInv ==
    /\ \A r \in Runners : Waits(runner[r])
    /\ \A d \in Days : store[d].pending => StopLossPct > 0

\* An action that leaves the rows, the book and the broker's shares alone, or is
\* about one order, keeps the tick waiting.
LEMMA WaitsKept ==
    ASSUME \A x, y \in Runners : x = y, TypeOK, ShapeInv, PendInv,
           NEW r \in Runners, Tick(r) \/ Abort(r)
    PROVE  Waits(runner[r])' /\ \A d \in Days : store'[d].pending => StopLossPct > 0
<1> DEFINE rec == runner[r]
<1> DEFINE new == runner'[r]
<1>0. /\ Shape(rec) /\ Waits(rec) /\ \A d \in Days : store[d].pending => StopLossPct > 0
      /\ rec \in Runner /\ rec.day \in Days /\ day \in Days /\ faults \in Nat
      /\ Days \subseteq Int
  BY DEF ShapeInv, PendInv, TypeOK, Runner, Days
<1>1. CASE Start(r)
  <2>1. /\ UNCHANGED <<day, store, book, faults>> /\ new.pc = "book" /\ rec.pc = "idle"
        /\ new.day = day /\ new.state.pending = store[day].pending
    BY <1>1, Moves, StateMoves DEF Start
  <2> QED
    BY <2>1, <1>0 DEF Waits
<1>2. CASE ReadBook(r)
  <2>1. /\ UNCHANGED <<day, store, book, faults>> /\ rec.pc = "book"
        /\ new.day = rec.day /\ new.state.pending = rec.state.pending
        /\ new.pc \in {"exit", "orders", "save"}
    BY <1>2, Moves, StateMoves DEF ReadBook
  <2>2. /\ new.pc = "exit" => book.lots # {} /\ StopLossPct > 0
        /\ new.pc # "exit" => ~(rec.state.pending /\ StopLossPct > 0 /\ book.lots # {})
    <3> DEFINE at == [rec EXCEPT !.anchor = IF mode = "percent-grid" THEN BasePrice
                                            ELSE book.anchor]
    <3>1. PICK price \in Prices :
            \/ /\ StopDue(at.state, book.lots, price)
               /\ Step(r, [at EXCEPT !.pc = "exit", !.price = price, !.sells = book.lots])
            \/ /\ ~StopDue(at.state, book.lots, price)
               /\ \E b \in SUBSET Rungs, s \in SUBSET book.lots :
                     Step(r, Proceed([at EXCEPT !.buys = b, !.sells = s]))
      BY <1>2 DEF ReadBook
    <3>2. /\ at \in Runner /\ at.state = rec.state /\ book.lots \subseteq Lot
          /\ \A x : Step(r, x) => new = x
      BY <1>0, GridAssumption DEF TypeOK, Runner, Book, Step
    <3> HIDE DEF at
    <3>3. CASE /\ StopDue(at.state, book.lots, price)
               /\ Step(r, [at EXCEPT !.pc = "exit", !.price = price, !.sells = book.lots])
      <4>1. new.pc = "exit"
        BY <3>2, <3>3 DEF Runner
      <4> QED
        BY <3>3, <4>1 DEF StopDue
    <3>4. CASE /\ ~StopDue(at.state, book.lots, price)
               /\ \E b \in SUBSET Rungs, s \in SUBSET book.lots :
                     Step(r, Proceed([at EXCEPT !.buys = b, !.sells = s]))
      <4>1. PICK b \in SUBSET Rungs, s \in SUBSET book.lots :
              Step(r, Proceed([at EXCEPT !.buys = b, !.sells = s]))
        BY <3>4
      <4>2. [at EXCEPT !.buys = b, !.sells = s] \in Runner
        BY <3>2 DEF Runner
      <4>3. new.pc # "exit"
        BY <3>2, <4>1, <4>2, Proceeds
      <4> QED
        BY <3>2, <3>4, <4>3 DEF StopDue
    <3> QED
      BY ZenonT(60), <3>1, <3>3, <3>4
  <2> QED
    BY SMTT(60), <2>1, <2>2, <1>0 DEF Waits
<1>3. CASE \/ OrderNotSent(r) \/ BuyAcked(r) \/ BuyLost(r) \/ SellAcked(r) \/ SellLost(r)
           \/ OpenLot(r) \/ CloseLot(r)
  <2>1. /\ new.day = rec.day /\ new.state.pending = rec.state.pending
        /\ new.pc \in {"orders", "save", "opening", "closing"}
    BY <1>3, Moves, StateMoves
  <2>2. UNCHANGED <<day, store>> /\ rec.pc \in {"orders", "opening", "closing"}
    <3>1. CASE OrderNotSent(r) \/ BuyAcked(r) \/ BuyLost(r)
      BY <3>1 DEF OrderNotSent, BuyAcked, BuyLost
    <3>2. CASE SellAcked(r) \/ SellLost(r) \/ OpenLot(r) \/ CloseLot(r)
      BY <3>2 DEF SellAcked, SellLost, OpenLot, CloseLot
    <3> QED
      BY <1>3, <3>1, <3>2
  <2>3. faults' = 0 => faults = 0
    BY <1>0, FaultsGrow
  <2>4. new.pc = "save" /\ new.state.pending => StopLossPct > 0
    BY <2>1, <2>2, <1>0 DEF Waits
  <2> QED
    BY <2>1, <2>2, <2>3, <2>4, <1>0 DEF Waits
<1>4. CASE ExitAcked(r)
  <2>1. UNCHANGED <<day, store, book, faults>> /\ rec.pc = "exit" /\ new.day = rec.day /\ new.pc = "clear"
    BY <1>4, Moves, StateMoves DEF ExitAcked
  <2> QED
    BY SMTT(60), <2>1, <1>0 DEF Waits
<1>5. CASE ExitNotSent(r) \/ ExitLost(r)
  <2>1. UNCHANGED <<day, store, book>> /\ rec.pc = "exit" /\ new.day = rec.day /\ new.pc = "save"
    BY <1>5, Moves, StateMoves DEF ExitNotSent, ExitLost
  <2> QED
    BY <2>1, <1>0 DEF Waits
<1>6. CASE ClearBook(r)
  <2>1. /\ UNCHANGED <<day, store>> /\ rec.pc = "clear" /\ new.day = rec.day /\ new.pc = "save"
        /\ ~new.state.pending
    BY <1>6, Moves, StateMoves DEF ClearBook
  <2> QED
    BY <2>1, <1>0 DEF Waits
<1>7. CASE Save(r)
  <2>1. /\ UNCHANGED <<day, book, faults>> /\ rec.pc = "save" /\ new.pc = "idle"
        /\ store' = [store EXCEPT ![rec.day] = rec.state]
    BY <1>7, Moves DEF Save
  <2>2. \A d \in Days : store'[d] = IF d = rec.day THEN rec.state ELSE store[d]
    BY <2>1 DEF TypeOK
  <2>3. \A d \in Days : store'[d].pending => StopLossPct > 0
    BY <2>1, <2>2, <1>0 DEF Waits
  <2>4. ASSUME NEW d \in Days, d > day PROVE ~store'[d].pending
    <3>1. rec.day <= day
      BY <2>1, <1>0 DEF Waits
    <3>2. d # rec.day
      BY <2>4, <3>1, <1>0
    <3>3. ~store[d].pending
      BY <2>4, <1>0 DEF Waits
    <3> QED
      BY <2>2, <3>2, <3>3
  <2>5. faults = 0 /\ store'[day].pending => book.lots # {}
    <3>1. CASE day = rec.day
      <4>1. store'[day] = rec.state
        BY <2>2, <3>1, <1>0
      <4> QED
        BY <2>1, <4>1, <1>0 DEF Waits
    <3>2. CASE day # rec.day
      <4>1. rec.day <= day
        BY <2>1, <1>0 DEF Waits
      <4>4. day \in Int /\ rec.day \in Int
        BY <1>0
      <4>2. day > rec.day
        BY <3>2, <4>1, <4>4
      <4>3. ~store[day].pending
        BY <2>1, <4>2, <1>0 DEF Waits
      <4> QED
        BY <2>2, <3>2, <4>3, <1>0
    <3> QED
      BY <3>1, <3>2
  <2> QED
    BY <2>1, <2>3, <2>4, <2>5 DEF Waits
<1>8. CASE Abort(r)
  <2>1. UNCHANGED <<day, store, book>> /\ faults' = faults + 1 /\ new.pc = "idle"
    BY <1>8, Moves DEF Abort, Fault
  <2> QED
    BY <2>1, <1>0 DEF Waits
<1> QED
  BY <1>1, <1>2, <1>3, <1>4, <1>5, <1>6, <1>7, <1>8 DEF Tick

LEMMA PendHolds ==
    ASSUME \A x, y \in Runners : x = y
    PROVE  Spec => []PendInv
<1>1. Init => PendInv
  <2> SUFFICES ASSUME Init PROVE PendInv
    OBVIOUS
  <2>1. \A d \in Days : store[d].pending = FALSE
    BY DEF Init, EmptyState
  <2>2. \A r \in Runners : runner[r].pc = "idle"
    BY DEF Init, IdleRunner
  <2>3. day \in Days
    BY GridAssumption DEF Init, Days
  <2> QED
    BY <2>1, <2>2, <2>3 DEF PendInv, Waits
<1>2. TypeOK /\ ShapeInv /\ PendInv /\ [Next]_vars => PendInv'
  <2> SUFFICES ASSUME TypeOK, ShapeInv, PendInv, [Next]_vars PROVE PendInv'
    OBVIOUS
  <2>1. CASE NextDay
    <3>1. UNCHANGED <<store, book, runner, faults>> /\ day' = day + 1
      BY <2>1 DEF NextDay
    <3>2. day \in Days /\ day' \in Days /\ Days \subseteq Int
      BY <2>1, GridAssumption DEF NextDay, TypeOK, Days
    <3>3. ASSUME NEW r \in Runners PROVE Waits(runner[r])'
      <4>1. Waits(runner[r]) /\ runner[r].day \in Days
        BY DEF PendInv, TypeOK, Runner
      <4>2. ~store[day'].pending
        BY <3>1, <3>2, <4>1 DEF Waits
      <4>3. runner[r].pc # "idle" => runner[r].day <= day'
        <5>1. day \in Int /\ runner[r].day \in Int
          BY <3>2, <4>1
        <5>2. runner[r].pc # "idle" => runner[r].day <= day
          BY <4>1 DEF Waits
        <5> QED
          BY <3>1, <5>1, <5>2
      <4>4. \A d \in Days : d > day' \/ (runner[r].pc # "idle" /\ d > runner[r].day)
                              => ~store[d].pending
        BY <3>1, <3>2, <4>1 DEF Waits
      <4> QED
        BY <3>1, <4>1, <4>2, <4>3, <4>4 DEF Waits
    <3> QED
      BY <3>1, <3>3 DEF PendInv
  <2>2. CASE UNCHANGED vars
    BY <2>2 DEF vars, broker, PendInv, Waits
  <2>3. ASSUME NEW r \in Runners, Tick(r) \/ Abort(r) PROVE PendInv'
    <3>1. Waits(runner[r])' /\ \A d \in Days : store'[d].pending => StopLossPct > 0
      BY <2>3, WaitsKept
    <3>2. \A x \in Runners : Waits(runner[x])'
      BY <3>1
    <3> QED
      BY <3>1, <3>2 DEF PendInv
  <2> QED
    BY <2>1, <2>2, <2>3 DEF Next
<1> QED
  BY <1>1, <1>2, TypesHold, ShapeHolds, PTL DEF Spec

\* Until a failed stop-loss is accepted the tick neither buys nor sells a lot
\* (run-automation-worker.ts, the comment on stopLossPendingKey), as long as no
\* answer was lost and nothing was killed.
THEOREM PendingStopsTheGrid ==
    ASSUME \A x, y \in Runners : x = y
    PROVE  Spec => PendingStopsGrid
<1> DEFINE Held == faults = 0 /\ store[day].pending =>
                     /\ accepted' = accepted
                     /\ shares' # shares => exits' # exits
<1>1. TypeOK /\ PendInv /\ [Next]_vars => [Held]_vars
  <2> SUFFICES ASSUME TypeOK, PendInv, Next, faults = 0, store[day].pending
               PROVE  accepted' = accepted /\ (shares' # shares => exits' # exits)
    OBVIOUS
  <2>1. CASE NextDay
    BY <2>1 DEF NextDay, broker
  <2>2. ASSUME NEW r \in Runners, Tick(r) \/ Abort(r)
        PROVE  accepted' = accepted /\ (shares' # shares => exits' # exits)
    <3>0. Waits(runner[r]) /\ runner[r].day \in Days /\ day \in Days /\ Days \subseteq Int
      BY DEF PendInv, TypeOK, Runner, Days
    <3>1. ASSUME runner[r].pc = "orders" PROVE FALSE
      <4>1. runner[r].day <= day /\ ~store[runner[r].day].pending
        BY <3>0, <3>1 DEF Waits
      <4>2. runner[r].day < day => ~store[day].pending
        BY <3>0, <3>1 DEF Waits
      <4>3. runner[r].day = day \/ runner[r].day < day
        BY <3>0, <4>1
      <4> QED
        BY <4>1, <4>2, <4>3
    <3>2. CASE ExitAcked(r) \/ ExitLost(r)
      <4>1. AcceptExit(runner[r].sells, runner[r].day)
        BY SMTT(60), <3>2 DEF ExitAcked, ExitLost
      <4> QED
        BY <4>1 DEF AcceptExit
    <3>3. CASE Start(r) \/ ReadBook(r) \/ OpenLot(r) \/ CloseLot(r)
      BY <3>3 DEF Start, ReadBook, OpenLot, CloseLot, broker
    <3>4. CASE ExitNotSent(r) \/ ClearBook(r) \/ Save(r) \/ Abort(r)
      BY SMTT(60), <3>4 DEF ExitNotSent, ClearBook, Save, Abort, broker
    <3>5. CASE OrderNotSent(r) \/ BuyAcked(r) \/ BuyLost(r) \/ SellAcked(r) \/ SellLost(r)
      BY <3>1, <3>5 DEF OrderNotSent, BuyAcked, BuyLost, SellAcked, SellLost
    <3> QED
      BY <2>2, <3>2, <3>3, <3>4, <3>5 DEF Tick
  <2> QED
    BY <2>1, <2>2 DEF Next
<1>2. [][Held]_vars => PendingStopsGrid
  BY DEF PendingStopsGrid
<1> QED
  BY <1>1, <1>2, TypesHold, PendHolds, PTL DEF Spec

-----------------------------------------------------------------------------
(* The daily limit of buys. *)

\* The buys of a tick that the broker accepted and answered.
Answered(rec) == rec.state.buys + (IF rec.pc = "opening" THEN 1 ELSE 0)

\* What a tick still means to send fits under the day's limit, and a day's
\* accepted buys are those its tick (or, between ticks, its row) counts, but for
\* one whole limit forgotten per fault.
Counts(rec) ==
    /\ IsFiniteSet(rec.buys)
    /\ Answered(rec) + Cardinality(rec.buys) <= MaxDailyBuys
    /\ \A d \in Days :
          accepted[d] <= (IF rec.pc # "idle" /\ d = rec.day THEN Answered(rec) ELSE store[d].buys)
                           + MaxDailyBuys * faults

BuyInv ==
    /\ \A d \in Days : store[d].buys <= MaxDailyBuys
    /\ \A r \in Runners : Counts(runner[r])
    /\ DailyBuysPerFault

\* A fault more is a limit more.
LEMMA FaultCost ==
    ASSUME TypeOK
    PROVE  /\ MaxDailyBuys \in Nat /\ MaxDailyBuys * faults \in Nat
           /\ faults' = faults => MaxDailyBuys * faults' = MaxDailyBuys * faults
           /\ faults' = faults + 1 => MaxDailyBuys * faults' = MaxDailyBuys * faults + MaxDailyBuys
           /\ MaxDailyBuys * (1 + faults) = MaxDailyBuys * faults + MaxDailyBuys
<1>1. MaxDailyBuys \in Nat /\ faults \in Nat
  BY GridAssumption DEF TypeOK
<1>2. \A m, f \in Nat : m * f \in Nat /\ m * (f + 1) = m * f + m /\ m * (1 + f) = m * f + m
  OBVIOUS
<1> QED
  BY <1>1, <1>2

\* The evaluation leaves the day's limit room for every buy it asks for.
LEMMA OrdersFit ==
    ASSUME NEW b \in SUBSET Rungs, NEW s, NEW state \in WorkerState, NEW price,
           Orders(b, s, state, book, price), state.buys <= MaxDailyBuys
    PROVE  IsFiniteSet(b) /\ state.buys + Cardinality(b) <= MaxDailyBuys
<1>0. /\ IsFiniteSet(b) /\ Cardinality(b) \in Nat
      /\ state.buys \in Nat /\ MaxDailyBuys \in Nat
  BY GridAssumption, FS_Subset, FS_CardinalityType DEF WorkerState
<1>1. CASE mode = "percent-grid"
  <2> DEFINE all == BuyableRungs(book.lots, price)
             room == Room(MaxDailyBuys, state.buys)
  <2>1. Cardinality(b) = Least(Cardinality(all), room)
    BY <1>1 DEF Orders, GridOrders
  <2>2. all \subseteq Rungs
    BY DEF BuyableRungs
  <2>3. Cardinality(all) \in Nat
    BY <2>2, GridAssumption, FS_Subset, FS_CardinalityType
  <2>4. room \in Nat /\ state.buys + room <= MaxDailyBuys
    BY <1>0 DEF Room
  <2> HIDE DEF all, room
  <2>5. Cardinality(b) <= room
    BY <1>0, <2>1, <2>3, <2>4 DEF Least
  <2> QED
    BY <1>0, <2>4, <2>5
<1>2. CASE mode # "percent-grid"
  <2>1. b = {} \/ (b = {1} /\ state.buys < MaxDailyBuys)
    BY <1>2 DEF Orders, LoopOrders
  <2>2. CASE b = {}
    <3>1. Cardinality(b) = 0
      BY <2>2, FS_EmptySet
    <3> QED
      BY <1>0, <3>1
  <2>3. CASE b = {1} /\ state.buys < MaxDailyBuys
    <3>1. Cardinality(b) = 1
      BY <2>3, FS_Singleton
    <3> QED
      BY <1>0, <2>3, <3>1
  <2> QED
    BY <2>1, <2>2, <2>3
<1> QED
  BY <1>1, <1>2

\* What each action does to the buys of its tick.
LEMMA BuysMove ==
    ASSUME TypeOK, NEW r \in Runners
    PROVE  /\ Start(r) => runner'[r].buys = {}
           /\ ReadBook(r) =>
                 \/ runner'[r].buys = runner[r].buys
                 \/ /\ runner'[r].buys \in SUBSET Rungs
                    /\ \E s, price : Orders(runner'[r].buys, s, runner[r].state, book, price)
           /\ OrderNotSent(r) =>
                 /\ runner'[r].buys \subseteq runner[r].buys
                 /\ runner'[r].state = runner[r].state
           /\ BuyAcked(r) \/ BuyLost(r) =>
                 /\ \E rung \in runner[r].buys : runner'[r].buys = runner[r].buys \ {rung}
                 /\ runner'[r].state = runner[r].state
           /\ SellAcked(r) \/ SellLost(r) =>
                 runner'[r].buys = runner[r].buys /\ runner'[r].state = runner[r].state
           /\ OpenLot(r) =>
                 /\ runner'[r].buys = runner[r].buys
                 /\ runner'[r].state.buys = runner[r].state.buys + 1
           /\ CloseLot(r) \/ ExitNotSent(r) \/ ExitLost(r) \/ ExitAcked(r) \/ ClearBook(r) =>
                 /\ runner'[r].buys = runner[r].buys
                 /\ runner'[r].state.buys = runner[r].state.buys
<1> DEFINE rec == runner[r]
<1>0. rec \in Runner /\ \A x : Step(r, x) => runner'[r] = x
  BY DEF TypeOK, Step
<1>p. \A x \in Runner : Proceed(x).buys = x.buys /\ Proceed(x).state = x.state
  BY Proceeds
<1>1. ASSUME Start(r) PROVE runner'[r].buys = {}
  BY <1>0, <1>1 DEF Start, IdleRunner
<1>2. ASSUME ReadBook(r)
      PROVE  \/ runner'[r].buys = rec.buys
             \/ /\ runner'[r].buys \in SUBSET Rungs
                /\ \E s, price : Orders(runner'[r].buys, s, rec.state, book, price)
  <2> DEFINE at == [rec EXCEPT !.anchor = IF mode = "percent-grid" THEN BasePrice
                                          ELSE book.anchor]
  <2>1. PICK price \in Prices :
          \/ /\ StopDue(at.state, book.lots, price)
             /\ Step(r, [at EXCEPT !.pc = "exit", !.price = price, !.sells = book.lots])
          \/ /\ ~StopDue(at.state, book.lots, price)
             /\ \E b \in SUBSET Rungs, s \in SUBSET book.lots :
                   /\ Orders(b, s, at.state, book, price)
                   /\ Step(r, Proceed([at EXCEPT !.buys = b, !.sells = s]))
    BY <1>2 DEF ReadBook
  <2>2. at \in Runner /\ at.state = rec.state /\ at.buys = rec.buys /\ book.lots \subseteq Lot
    BY <1>0, GridAssumption DEF TypeOK, Runner, Book
  <2> HIDE DEF at
  <2>3. CASE Step(r, [at EXCEPT !.pc = "exit", !.price = price, !.sells = book.lots])
    BY <2>2, <2>3, <1>0 DEF Runner
  <2>4. ASSUME NEW b \in SUBSET Rungs, NEW s \in SUBSET book.lots,
               Orders(b, s, at.state, book, price),
               Step(r, Proceed([at EXCEPT !.buys = b, !.sells = s]))
        PROVE  /\ runner'[r].buys \in SUBSET Rungs
               /\ Orders(runner'[r].buys, s, rec.state, book, price)
    <3> DEFINE sent == [at EXCEPT !.buys = b, !.sells = s]
    <3>1. sent \in Runner /\ sent.buys = b
      BY <2>2 DEF Runner
    <3>2. runner'[r] = Proceed(sent)
      BY <2>4, <1>0
    <3> HIDE DEF sent
    <3>3. runner'[r].buys = b
      BY <3>1, <3>2, <1>p
    <3> QED
      BY <2>2, <2>4, <3>3
  <2> QED
    BY ZenonT(60), <2>1, <2>3, <2>4
<1>b. ASSUME NEW rung PROVE /\ [rec EXCEPT !.buys = @ \ {rung}] \in Runner
                            /\ [rec EXCEPT !.buys = @ \ {rung}].buys = rec.buys \ {rung}
                            /\ [rec EXCEPT !.buys = @ \ {rung}].state = rec.state
  BY <1>0 DEF Runner
<1>s. ASSUME NEW lot PROVE /\ [rec EXCEPT !.sells = @ \ {lot}] \in Runner
                           /\ [rec EXCEPT !.sells = @ \ {lot}].buys = rec.buys
                           /\ [rec EXCEPT !.sells = @ \ {lot}].state = rec.state
  BY <1>0 DEF Runner
<1>3. ASSUME OrderNotSent(r)
      PROVE  runner'[r].buys \subseteq rec.buys /\ runner'[r].state = rec.state
  <2>1. \/ \E rung \in rec.buys : runner'[r] = Proceed([rec EXCEPT !.buys = @ \ {rung}])
        \/ \E lot \in rec.sells : runner'[r] = Proceed([rec EXCEPT !.sells = @ \ {lot}])
    BY <1>3, <1>0 DEF OrderNotSent
  <2>2. \E x \in Runner : /\ x.buys \subseteq rec.buys /\ x.state = rec.state
                          /\ runner'[r] = Proceed(x)
    BY <2>1, <1>b, <1>s
  <2> QED
    BY <2>2, <1>p
<1>4. ASSUME BuyAcked(r) \/ BuyLost(r)
      PROVE  /\ \E rung \in rec.buys : runner'[r].buys = rec.buys \ {rung}
             /\ runner'[r].state = rec.state
  <2>1. CASE BuyAcked(r)
    <3>1. PICK rung \in rec.buys :
            \E lot \in NewLots(rec, rung) :
               Step(r, [rec EXCEPT !.pc = "opening", !.buys = @ \ {rung}, !.acked = {lot}])
      BY <2>1 DEF BuyAcked
    <3>2. PICK lot :
            runner'[r] = [rec EXCEPT !.pc = "opening", !.buys = @ \ {rung}, !.acked = {lot}]
      BY <3>1, <1>0
    <3> QED
      BY <3>2, <1>0 DEF Runner
  <2>2. CASE BuyLost(r)
    <3>1. PICK rung \in rec.buys : runner'[r] = Proceed([rec EXCEPT !.buys = @ \ {rung}])
      BY <2>2, <1>0 DEF BuyLost
    <3> DEFINE left == [rec EXCEPT !.buys = @ \ {rung}]
    <3>2. left \in Runner /\ left.buys = rec.buys \ {rung} /\ left.state = rec.state
      BY <1>b
    <3>3. runner'[r] = Proceed(left)
      BY <3>1
    <3> HIDE DEF left
    <3> QED
      BY <3>2, <3>3, <1>p
  <2> QED
    BY <1>4, <2>1, <2>2
<1>5. ASSUME SellAcked(r) \/ SellLost(r)
      PROVE  runner'[r].buys = rec.buys /\ runner'[r].state = rec.state
  <2>1. CASE SellAcked(r)
    <3>1. PICK lot \in rec.sells :
            Step(r, [rec EXCEPT !.pc = "closing", !.sells = @ \ {lot}, !.acked = {lot}])
      BY <2>1 DEF SellAcked
    <3> QED
      BY <3>1, <1>0 DEF Runner
  <2>2. CASE SellLost(r)
    <3>1. PICK lot \in rec.sells : runner'[r] = Proceed([rec EXCEPT !.sells = @ \ {lot}])
      BY <2>2, <1>0 DEF SellLost
    <3> DEFINE left == [rec EXCEPT !.sells = @ \ {lot}]
    <3>2. left \in Runner /\ left.buys = rec.buys /\ left.state = rec.state
      BY <1>s
    <3>3. runner'[r] = Proceed(left)
      BY <3>1
    <3> HIDE DEF left
    <3> QED
      BY <3>2, <3>3, <1>p
  <2> QED
    BY <1>5, <2>1, <2>2
<1>6. /\ OpenLot(r) => /\ runner'[r].buys = rec.buys
                       /\ runner'[r].state.buys = rec.state.buys + 1
      /\ CloseLot(r) => /\ runner'[r].buys = rec.buys
                        /\ runner'[r].state.buys = rec.state.buys
  <2> DEFINE opened == [rec EXCEPT !.state.buys = @ + 1]
             closed == [rec EXCEPT !.state.sells = @ + 1]
  <2>1. /\ opened \in Runner /\ opened.buys = rec.buys /\ opened.state.buys = rec.state.buys + 1
        /\ closed \in Runner /\ closed.buys = rec.buys /\ closed.state.buys = rec.state.buys
    BY <1>0 DEF Runner, WorkerState
  <2>2. OpenLot(r) => runner'[r] = Proceed(opened)
    BY <1>0 DEF OpenLot
  <2>3. CloseLot(r) => runner'[r] = Proceed(closed)
    BY <1>0 DEF CloseLot
  <2> HIDE DEF opened, closed
  <2> QED
    BY <2>1, <2>2, <2>3, <1>p
<1>7. ASSUME ExitNotSent(r) \/ ExitLost(r)
      PROVE  runner'[r].buys = rec.buys /\ runner'[r].state.buys = rec.state.buys
  <2>1. runner'[r] = ExitUnsent(rec)
    BY <1>0, <1>7 DEF ExitNotSent, ExitLost
  <2> QED
    BY <2>1, <1>0 DEF ExitUnsent, Runner, WorkerState
<1>8. ASSUME ExitAcked(r)
      PROVE  runner'[r].buys = rec.buys /\ runner'[r].state.buys = rec.state.buys
  BY <1>0, <1>8 DEF ExitAcked, Runner
<1>9. ASSUME ClearBook(r)
      PROVE  runner'[r].buys = rec.buys /\ runner'[r].state.buys = rec.state.buys
  <2>1. runner'[r] = ExitDone(rec)
    BY <1>0, <1>9 DEF ClearBook
  <2>2. /\ ExitDone(rec).buys = rec.buys
        /\ ExitDone(rec).state
             = [pending |-> FALSE, buys |-> rec.state.buys, sells |-> rec.state.sells + 1]
    BY <1>0 DEF ExitDone, Runner
  <2> QED
    BY <2>1, <2>2
<1> QED
  BY <1>1, <1>2, <1>3, <1>4, <1>5, <1>6, <1>7, <1>8, <1>9

\* Every action of a tick keeps the count.
LEMMA CountsKept ==
    ASSUME TypeOK, BuyInv, NEW r \in Runners, Tick(r) \/ Abort(r)
    PROVE  Counts(runner[r])' /\ \A d \in Days : store'[d].buys <= MaxDailyBuys
<1> DEFINE rec == runner[r]
           new == runner'[r]
           cost == MaxDailyBuys * faults
           size == Cardinality(rec.buys)
<1>0. /\ Counts(rec) /\ \A d \in Days : store[d].buys <= MaxDailyBuys
      /\ rec \in Runner /\ rec.day \in Days /\ rec.state \in WorkerState
      /\ rec.state.buys \in Nat
      /\ \A d \in Days : store[d] \in WorkerState /\ store[d].buys \in Nat /\ accepted[d] \in Nat
      /\ day \in Days
  BY DEF BuyInv, TypeOK, Runner, WorkerState
<1>c. /\ MaxDailyBuys \in Nat /\ cost \in Nat
      /\ faults' = faults => MaxDailyBuys * faults' = cost
      /\ faults' = faults + 1 => MaxDailyBuys * faults' = cost + MaxDailyBuys
  BY FaultCost
<1>f. /\ IsFiniteSet(rec.buys) /\ size \in Nat
      /\ \A b : b \subseteq rec.buys =>
            IsFiniteSet(b) /\ Cardinality(b) \in Nat /\ Cardinality(b) <= size
      /\ \A x \in rec.buys : /\ IsFiniteSet(rec.buys \ {x})
                             /\ Cardinality(rec.buys \ {x}) = size - 1
                             /\ size >= 1
  <2>1. IsFiniteSet(rec.buys) /\ size \in Nat
    BY <1>0, FS_CardinalityType DEF Counts
  <2>2. ASSUME NEW x \in rec.buys
        PROVE  /\ IsFiniteSet(rec.buys \ {x}) /\ Cardinality(rec.buys \ {x}) = size - 1
               /\ size >= 1
    <3>1. IsFiniteSet(rec.buys \ {x}) /\ Cardinality(rec.buys \ {x}) = size - 1
      BY <2>1, FS_RemoveElement
    <3>2. Cardinality(rec.buys \ {x}) \in Nat
      BY <3>1, FS_CardinalityType
    <3> QED
      BY <2>1, <3>1, <3>2
  <2> QED
    BY <2>1, <2>2, FS_Subset, FS_CardinalityType
<1>e. IsFiniteSet({}) /\ Cardinality({}) = 0
  BY FS_EmptySet
<1> HIDE DEF cost, size
<1>1. CASE Start(r)
  <2>1. /\ UNCHANGED <<store, accepted, faults>> /\ new.pc = "book" /\ rec.pc = "idle"
        /\ new.day = day /\ new.state = store[day] /\ new.buys = {}
    BY <1>1, Moves, StateMoves, BuysMove DEF Start, broker
  <2> QED
    BY <2>1, <1>0, <1>c, <1>e DEF Counts, Answered, cost
<1>2. CASE ReadBook(r)
  <2>1. /\ UNCHANGED <<store, accepted, faults>> /\ rec.pc = "book"
        /\ new.day = rec.day /\ new.state = rec.state
        /\ new.pc \in {"exit", "orders", "save"}
    <3>1. UNCHANGED <<store, broker, faults>> /\ rec.pc = "book"
      BY ZenonT(60), <1>2 DEF ReadBook
    <3> QED
      BY <1>2, <3>1, Moves, StateMoves DEF broker
  <2>2. IsFiniteSet(new.buys) /\ rec.state.buys + Cardinality(new.buys) <= MaxDailyBuys
    <3>1. rec.state.buys <= MaxDailyBuys /\ rec.state.buys + size <= MaxDailyBuys
      BY <2>1, <1>0, <1>c, <1>f DEF Counts, Answered, size
    <3>2. CASE new.buys = rec.buys
      BY <3>1, <3>2, <1>f DEF size
    <3>3. CASE /\ new.buys \in SUBSET Rungs
               /\ \E s, price : Orders(new.buys, s, rec.state, book, price)
      BY <3>1, <3>3, <1>0, OrdersFit
    <3> QED
      BY <1>2, <3>2, <3>3, BuysMove
  <2> QED
    BY <2>1, <2>2, <1>0, <1>c DEF Counts, Answered, cost
<1>3. CASE OrderNotSent(r) \/ SellAcked(r) \/ SellLost(r) \/ CloseLot(r)
           \/ ExitNotSent(r) \/ ExitLost(r) \/ ExitAcked(r) \/ ClearBook(r)
  <2>1. /\ new.buys \subseteq rec.buys /\ new.state.buys = rec.state.buys /\ new.day = rec.day
        /\ new.pc \notin {"idle", "opening"}
    BY SMTT(60), <1>3, Moves, StateMoves, BuysMove
  <2>2. UNCHANGED <<store, accepted>> /\ rec.pc \notin {"idle", "opening"}
    <3>1. CASE OrderNotSent(r) \/ CloseLot(r)
      <4>1. UNCHANGED <<store, broker>> /\ rec.pc \in {"orders", "closing"}
        BY ZenonT(60), <3>1 DEF OrderNotSent, CloseLot
      <4> QED
        BY <4>1 DEF broker
    <3>3. CASE SellAcked(r) \/ SellLost(r)
      <4>1. store' = store /\ rec.pc = "orders"
        BY ZenonT(60), <3>3 DEF SellAcked, SellLost
      <4>2. accepted' = accepted
        BY <3>3, SellEffect DEF AcceptSell
      <4> QED
        BY <4>1, <4>2
    <3>2. CASE ExitNotSent(r) \/ ExitLost(r) \/ ExitAcked(r) \/ ClearBook(r)
      BY <3>2 DEF ExitNotSent, ExitLost, ExitAcked, ClearBook, AcceptExit, broker
    <3> QED
      BY <1>3, <3>1, <3>2, <3>3
  <2>3. faults' = faults \/ faults' = faults + 1
    <3>1. CASE SellLost(r) \/ ExitLost(r)
      BY <3>1 DEF SellLost, ExitLost, Fault
    <3>2. CASE OrderNotSent(r) \/ SellAcked(r) \/ CloseLot(r)
               \/ ExitNotSent(r) \/ ExitAcked(r) \/ ClearBook(r)
      BY ZenonT(60), <3>2 DEF OrderNotSent, SellAcked, CloseLot, ExitNotSent, ExitAcked, ClearBook
    <3> QED
      BY <1>3, <3>1, <3>2
  <2>4. /\ IsFiniteSet(new.buys) /\ Cardinality(new.buys) \in Nat /\ Cardinality(new.buys) <= size
    BY <2>1, <1>f
  <2>5. MaxDailyBuys * faults' >= cost /\ MaxDailyBuys * faults' \in Nat
    BY <2>3, <1>c
  <2>6. rec.state.buys + size <= MaxDailyBuys
    BY <2>2, <1>0 DEF Counts, Answered, size
  <2>7. rec.state.buys + Cardinality(new.buys) <= MaxDailyBuys
    BY <2>4, <2>6, <1>0, <1>c, <1>f
  <2>8. ASSUME NEW d \in Days
        PROVE  accepted[d] <= (IF d = rec.day THEN rec.state.buys ELSE store[d].buys)
                                + MaxDailyBuys * faults'
    <3>1. accepted[d] <= (IF d = rec.day THEN rec.state.buys ELSE store[d].buys) + cost
      BY <2>2, <1>0 DEF Counts, Answered, cost
    <3> QED
      BY <3>1, <2>5, <1>0, <1>c
  <2> QED
    BY <2>1, <2>2, <2>4, <2>7, <2>8, <1>0 DEF Counts, Answered
<1>4. CASE BuyAcked(r) \/ BuyLost(r)
  <2>1. PICK rung \in rec.buys : new.buys = rec.buys \ {rung}
    BY <1>4, BuysMove
  <2>2. new.state = rec.state /\ new.day = rec.day /\ new.pc \in {"opening", "orders", "save"}
    BY <1>4, BuysMove, Moves, StateMoves
  <2>3. /\ rec.pc = "orders" /\ store' = store
        /\ \A d \in Days : accepted'[d] = IF d = rec.day THEN accepted[d] + 1 ELSE accepted[d]
    <3>1. rec.pc = "orders" /\ store' = store
      BY ZenonT(60), <1>4 DEF BuyAcked, BuyLost
    <3>2. accepted' = [accepted EXCEPT ![rec.day] = @ + 1]
      BY <1>4, BuyEffect DEF AcceptBuy
    <3> QED
      BY <3>1, <3>2 DEF TypeOK
  <2>4. /\ IsFiniteSet(new.buys) /\ Cardinality(new.buys) = size - 1 /\ size >= 1
    BY <2>1, <1>f
  <2>5. rec.state.buys + size <= MaxDailyBuys
    BY <2>3, <1>0 DEF Counts, Answered, size
  <2>6. \A d \in Days : accepted[d] <= (IF d = rec.day THEN rec.state.buys ELSE store[d].buys) + cost
    BY <2>3, <1>0 DEF Counts, Answered, cost
  <2>7. CASE BuyAcked(r)
    <3>1. new.pc = "opening" /\ faults' = faults
      <4>1. faults' = faults
        BY ZenonT(60), <2>7 DEF BuyAcked
      <4> QED
        BY <2>7, <4>1, Moves
    <3> QED
      BY <2>2, <2>3, <2>4, <2>5, <2>6, <3>1, <1>0, <1>c, <1>f DEF Counts, Answered, cost
  <2>8. CASE BuyLost(r)
    <3>1. new.pc \in {"orders", "save"} /\ faults' = faults + 1
      BY <2>8, Moves DEF BuyLost, Fault
    <3>2. MaxDailyBuys >= 1 /\ MaxDailyBuys * faults' = cost + MaxDailyBuys
      BY <2>4, <2>5, <3>1, <1>0, <1>c, <1>f
    <3>3. rec.state.buys + (size - 1) <= MaxDailyBuys
      BY <2>5, <1>0, <1>c, <1>f
    <3>4. ASSUME NEW d \in Days
          PROVE  accepted'[d] <= (IF d = rec.day THEN rec.state.buys ELSE store[d].buys)
                                   + MaxDailyBuys * faults'
      BY <2>3, <2>6, <3>2, <1>0, <1>c
    <3> QED
      BY <2>2, <2>3, <2>4, <3>1, <3>3, <3>4, <1>0 DEF Counts, Answered
  <2> QED
    BY <1>4, <2>7, <2>8
<1>5. CASE OpenLot(r)
  <2>1. /\ UNCHANGED <<store, accepted, faults>> /\ rec.pc = "opening"
        /\ new.pc \in {"orders", "save"} /\ new.day = rec.day
        /\ new.buys = rec.buys /\ new.state.buys = rec.state.buys + 1
    BY <1>5, Moves, StateMoves, BuysMove DEF OpenLot, broker
  <2> QED
    BY <2>1, <1>0, <1>c, <1>f DEF Counts, Answered, cost, size
<1>6. CASE Save(r)
  <2>1. /\ UNCHANGED <<accepted, faults>> /\ rec.pc = "save"
        /\ store' = [store EXCEPT ![rec.day] = rec.state]
        /\ new = IdleRunner
    BY <1>6 DEF Save, broker, Step, TypeOK
  <2>2. \A d \in Days : store'[d] = IF d = rec.day THEN rec.state ELSE store[d]
    BY <2>1 DEF TypeOK
  <2>3. rec.state.buys <= MaxDailyBuys
    BY <2>1, <1>0, <1>c, <1>f DEF Counts, Answered, size
  <2>4. new.pc = "idle" /\ new.buys = {} /\ Answered(new) = 0
    BY <2>1 DEF IdleRunner, EmptyState, Answered
  <2>5. \A d \in Days : accepted[d] <= store'[d].buys + cost
    BY <2>1, <2>2, <1>0 DEF Counts, Answered, cost
  <2> QED
    BY <2>1, <2>2, <2>3, <2>4, <2>5, <1>0, <1>c, <1>e DEF Counts, Answered, cost
<1>7. CASE Abort(r)
  <2>1. UNCHANGED <<store, accepted>> /\ faults' = faults + 1 /\ new = IdleRunner
    BY <1>7 DEF Abort, broker, Step, TypeOK, Fault
  <2>4. new.pc = "idle" /\ new.buys = {} /\ Answered(new) = 0
    BY <2>1 DEF IdleRunner, EmptyState, Answered
  <2>5. Answered(rec) \in Nat /\ Answered(rec) <= MaxDailyBuys
    BY <1>0, <1>c, <1>f DEF Counts, Answered, size
  <2>6. MaxDailyBuys * faults' = cost + MaxDailyBuys
    BY <2>1, <1>c
  <2>7. ASSUME NEW d \in Days PROVE accepted[d] <= store[d].buys + MaxDailyBuys * faults'
    <3>1. accepted[d] <= Answered(rec) + cost \/ accepted[d] <= store[d].buys + cost
      BY <1>0 DEF Counts, cost
    <3> QED
      BY <3>1, <2>5, <2>6, <1>0, <1>c
  <2> QED
    BY <2>1, <2>4, <2>7, <1>0, <1>c, <1>e DEF Counts
<1> QED
  BY <1>1, <1>2, <1>3, <1>4, <1>5, <1>6, <1>7 DEF Tick

\* Whatever order the orders, the midnight and the kills come in, the broker
\* accepts at most maxDailyBuys buys a day (run-automation-worker.ts counts them
\* in the saved state), and as many again for every lost answer or kill.
THEOREM DailyBuysBounded ==
    ASSUME \A x, y \in Runners : x = y
    PROVE  Spec => []DailyBuysPerFault
<1>1. Init => BuyInv
  <2> SUFFICES ASSUME Init PROVE BuyInv
    OBVIOUS
  <2>1. /\ \A d \in Days : store[d].buys = 0 /\ accepted[d] = 0
        /\ \A r \in Runners : runner[r] = IdleRunner
        /\ faults = 0 /\ MaxDailyBuys \in Nat
    BY GridAssumption DEF Init, EmptyState
  <2>2. \A r \in Runners : /\ runner[r].pc = "idle" /\ runner[r].buys = {}
                           /\ Answered(runner[r]) = 0
    BY <2>1 DEF IdleRunner, EmptyState, Answered
  <2>3. IsFiniteSet({}) /\ Cardinality({}) = 0
    BY FS_EmptySet
  <2>4. MaxDailyBuys * faults = 0 /\ MaxDailyBuys * (1 + faults) = MaxDailyBuys
    BY <2>1
  <2>5. ASSUME NEW r \in Runners PROVE Counts(runner[r])
    <3>1. IsFiniteSet(runner[r].buys) /\ Answered(runner[r]) + Cardinality(runner[r].buys) = 0
      BY SMTT(60), <2>2, <2>3
    <3> QED
      BY <2>1, <2>2, <2>4, <3>1 DEF Counts
  <2> QED
    BY <2>1, <2>4, <2>5 DEF BuyInv, DailyBuysPerFault
<1>2. TypeOK /\ TypeOK' /\ BuyInv /\ [Next]_vars => BuyInv'
  <2> SUFFICES ASSUME TypeOK, TypeOK', BuyInv, [Next]_vars PROVE BuyInv'
    OBVIOUS
  <2>1. CASE NextDay \/ UNCHANGED vars
    <3>1. UNCHANGED <<store, runner, accepted, faults>>
      BY <2>1 DEF NextDay, vars, broker
    <3> QED
      BY <3>1 DEF BuyInv, Counts, Answered, DailyBuysPerFault
  <2>2. ASSUME NEW r \in Runners, Tick(r) \/ Abort(r) PROVE BuyInv'
    <3>1. Counts(runner[r])' /\ \A d \in Days : store'[d].buys <= MaxDailyBuys
      BY <2>2, CountsKept
    <3>2. \A x \in Runners : Counts(runner[x])'
      BY <3>1
    <3>3. ASSUME NEW d \in Days PROVE accepted'[d] <= MaxDailyBuys * (1 + faults')
      <4> DEFINE new == runner'[r]
                 cost == MaxDailyBuys * faults'
      <4>1. /\ MaxDailyBuys \in Nat /\ cost \in Nat
            /\ MaxDailyBuys * (1 + faults') = cost + MaxDailyBuys
        <5>1. MaxDailyBuys \in Nat /\ faults' \in Nat
          BY GridAssumption DEF TypeOK
        <5>2. \A m, f \in Nat : m * f \in Nat /\ m * (1 + f) = m * f + m
          OBVIOUS
        <5> QED
          BY <5>1, <5>2
      <4>2. /\ Answered(new) \in Nat /\ store'[d].buys \in Nat /\ accepted'[d] \in Nat
        BY DEF TypeOK, Runner, WorkerState, Answered
      <4>3. IsFiniteSet(new.buys) /\ Answered(new) + Cardinality(new.buys) <= MaxDailyBuys
        BY <3>1 DEF Counts, Answered
      <4>4. Answered(new) <= MaxDailyBuys
        BY <4>1, <4>2, <4>3, FS_CardinalityType
      <4>5. accepted'[d] <= Answered(new) + cost \/ accepted'[d] <= store'[d].buys + cost
        BY <3>1 DEF Counts, Answered
      <4> HIDE DEF cost
      <4> QED
        BY <3>1, <4>1, <4>2, <4>4, <4>5
    <3> QED
      BY <3>1, <3>2, <3>3 DEF BuyInv, DailyBuysPerFault
  <2> QED
    BY <2>1, <2>2 DEF Next
<1>3. BuyInv => DailyBuysPerFault
  BY DEF BuyInv
<1> QED
  BY <1>1, <1>2, <1>3, TypesHold, PTL DEF Spec

-----------------------------------------------------------------------------
(* The evaluation always has an answer.  Orders says of two sets that they   *)
(* are what an evaluation picks; that there are such sets, for any book and  *)
(* counters, is what keeps a tick with nothing to liquidate from being stuck. *)

\* The least member of a set of naturals.
LEMMA LeastOf ==
    ASSUME NEW T \in SUBSET Nat, T # {}
    PROVE  \E n \in T : \A m \in T : n <= m
<1> DEFINE R == OpToRel(<, Nat)
<1>1. IsWellFoundedOn(R, Nat)
  BY NatLessThanWellFounded
<1>2. \A i, j \in Nat : i < j => <<i, j>> \in R
  BY DEF OpToRel
<1> HIDE DEF R
<1>3. PICK n \in T : \A m \in T : ~ (<<m, n>> \in R)
  BY <1>1, WFMin
<1>4. ASSUME NEW m \in T PROVE n <= m
  <2>1. m \in Nat /\ n \in Nat /\ ~(m < n)
    BY <1>2, <1>3
  <2> QED
    BY <2>1
<1> QED
  BY <1>4

\* T is k of the members of S, none of them above one left out.
FirstBy(T, k, S, rank) ==
    /\ T \subseteq S
    /\ IsFiniteSet(T) /\ Cardinality(T) = k
    /\ \A x \in T, y \in S \ T : rank[x] <= rank[y]

LEMMA FirstByNext ==
    ASSUME NEW S, IsFiniteSet(S), NEW rank \in [S -> Nat], NEW k \in Nat, k < Cardinality(S),
           NEW T, FirstBy(T, k, S, rank)
    PROVE  \E U : FirstBy(U, k + 1, S, rank)
<1> DEFINE Left == S \ T
           Ranks == {rank[y] : y \in Left}
<1>1. T \subseteq S /\ IsFiniteSet(T) /\ Cardinality(T) = k
  BY DEF FirstBy
<1>2. \A x \in T, y \in Left : rank[x] <= rank[y]
  BY DEF FirstBy
<1>3. Left # {}
  <2>1. SUFFICES ASSUME S = T PROVE FALSE
    BY <1>1
  <2> QED
    BY <1>1, <2>1
<1>4. PICK y \in Left : \A z \in Left : rank[y] <= rank[z]
  <2>1. Ranks \in SUBSET Nat /\ Ranks # {}
    BY <1>3
  <2> HIDE DEF Ranks
  <2>2. PICK n \in Ranks : \A m \in Ranks : n <= m
    BY <2>1, LeastOf
  <2> USE DEF Ranks
  <2> QED
    BY <2>2
<1>5. IsFiniteSet(T \cup {y}) /\ Cardinality(T \cup {y}) = k + 1
  BY <1>1, <1>4, FS_AddElement
<1>6. ASSUME NEW x \in T \cup {y}, NEW z \in S \ (T \cup {y}) PROVE rank[x] <= rank[z]
  BY <1>2, <1>4
<1> QED
  BY <1>1, <1>4, <1>5, <1>6 DEF FirstBy

\* Of a finite set with ranks one can always take any number of the first.
LEMMA FirstByExists ==
    ASSUME NEW S, IsFiniteSet(S), NEW rank \in [S -> Nat], NEW k \in Nat, k <= Cardinality(S)
    PROVE  \E T : FirstBy(T, k, S, rank)
<1> DEFINE Stuck == {n \in 0..k : ~\E T : FirstBy(T, n, S, rank)}
<1>0. Cardinality(S) \in Nat
  BY FS_CardinalityType
<1>1. Stuck = {}
  <2> SUFFICES ASSUME Stuck # {} PROVE FALSE
    OBVIOUS
  <2>0. Stuck \in SUBSET Nat
    OBVIOUS
  <2>1. PICK n \in Stuck : \A m \in Stuck : n <= m
    <3> HIDE DEF Stuck
    <3> QED
      BY <2>0, LeastOf
  <2>2. n # 0
    <3>1. FirstBy({}, 0, S, rank)
      BY FS_EmptySet DEF FirstBy
    <3> QED
      BY <2>1, <3>1
  <2>3. n - 1 \in 0..k /\ n - 1 \notin Stuck /\ n - 1 < Cardinality(S) /\ (n - 1) + 1 = n
    BY <1>0, <2>1, <2>2
  <2>4. PICK T : FirstBy(T, n - 1, S, rank)
    BY <2>3
  <2>5. \E U : FirstBy(U, (n - 1) + 1, S, rank)
    BY <2>3, <2>4, FirstByNext
  <2> QED
    BY <2>1, <2>3, <2>5
<1> QED
  BY <1>1

\* The book of a grid or a loop has finitely many lots.
BookInv == IsFiniteSet(book.lots)

LEMMA BookFinite == Spec => []BookInv
<1>1. Init => BookInv
  BY SMTT(60), FS_EmptySet DEF Init, BookInv
<1>2. TypeOK /\ BookInv /\ [Next]_vars => BookInv'
  <2> SUFFICES ASSUME TypeOK, IsFiniteSet(book.lots), [Next]_vars PROVE IsFiniteSet(book'.lots)
    BY DEF BookInv
  <2>0. book \in Book
    BY DEF TypeOK
  <2>1. CASE book' = book
    BY <2>1
  <2>2. ASSUME NEW r \in Runners, OpenLot(r) PROVE IsFiniteSet(book'.lots)
    <3>1. PICK lot, anchor : book' = Opened(lot, anchor)
      BY <2>2 DEF OpenLot
    <3>2. book'.lots = book.lots \cup {lot} \/ book'.lots = {lot}
      BY <2>0, <3>1 DEF Opened, Book
    <3>3. IsFiniteSet(book.lots \cup {lot}) /\ IsFiniteSet({lot})
      BY FS_AddElement, FS_Singleton
    <3> QED
      BY <3>2, <3>3
  <2>3. ASSUME NEW r \in Runners, CloseLot(r) \/ ClearBook(r) PROVE IsFiniteSet(book'.lots)
    <3>1. book'.lots \subseteq book.lots
      BY <2>0, <2>3 DEF CloseLot, ClearBook, Closed, Cleared, Book
    <3> QED
      BY <3>1, FS_Subset
  <2> QED
    BY <2>1, <2>2, <2>3 DEF Next, Tick, vars, Start, ReadBook, OrderNotSent, BuyAcked, BuyLost, SellAcked,
       SellLost, ExitNotSent, ExitAcked, ExitLost, Save, Abort, NextDay
<1> QED
  BY <1>1, <1>2, TypesHold, PTL DEF Spec

Evaluates(state, price) ==
    \E b \in SUBSET Rungs, s \in SUBSET book.lots : Orders(b, s, state, book, price)

LEMMA GridAnswers ==
    ASSUME TypeOK, IsFiniteSet(book.lots), NEW state \in WorkerState, NEW price
    PROVE  \E b \in SUBSET Rungs, s \in SUBSET book.lots : GridOrders(b, s, state, book.lots, price)
<1> DEFINE Buyable == BuyableRungs(book.lots, price)
           Sellable == SellableLots(book.lots, price)
           nb == Least(Cardinality(Buyable), Room(MaxDailyBuys, state.buys))
           ns == Least(Cardinality(Sellable), Room(MaxDailySells, state.sells))
           height == [rung \in Buyable |-> 100 - Drop[rung]]
           any == [lot \in Sellable |-> 0]
<1>1. Buyable \subseteq Rungs /\ Sellable \subseteq book.lots
  BY DEF BuyableRungs, SellableLots
<1>2. IsFiniteSet(Buyable) /\ IsFiniteSet(Sellable)
  BY <1>1, GridAssumption, FS_Subset
<1>3. Cardinality(Buyable) \in Nat /\ Cardinality(Sellable) \in Nat
  BY <1>2, FS_CardinalityType
<1>4. nb \in Nat /\ nb <= Cardinality(Buyable) /\ ns \in Nat /\ ns <= Cardinality(Sellable)
  <2>1. state.buys \in Nat /\ state.sells \in Nat /\ MaxDailyBuys \in Nat /\ MaxDailySells \in Nat
    BY GridAssumption DEF WorkerState
  <2> HIDE DEF Buyable, Sellable
  <2> QED
    BY <1>3, <2>1 DEF Least, Room
<1>5. \A rung \in Rungs : Drop[rung] \in 0..100
  BY GridAssumption
<1>6. height \in [Buyable -> Nat] /\ any \in [Sellable -> Nat]
  <2> HIDE DEF Buyable, Sellable
  <2> QED
    BY <1>1, <1>5
<1> HIDE DEF Buyable, Sellable, nb, ns
<1>7. PICK b : FirstBy(b, nb, Buyable, height)
  <2> HIDE DEF height
  <2> QED
    BY <1>2, <1>4, <1>6, FirstByExists
<1>8. PICK s : FirstBy(s, ns, Sellable, any)
  <2> HIDE DEF any
  <2> QED
    BY <1>2, <1>4, <1>6, FirstByExists
<1>9. ASSUME NEW rung \in b, NEW other \in Buyable \ b PROVE Drop[rung] >= Drop[other]
  <2>1. rung \in Buyable /\ height[rung] <= height[other]
    BY <1>7 DEF FirstBy
  <2>2. Drop[rung] \in Int /\ Drop[other] \in Int
    BY <1>1, <1>5, <2>1
  <2>3. 100 - Drop[rung] <= 100 - Drop[other]
    BY <2>1
  <2>4. \A x, y \in Int : 100 - x <= 100 - y => x >= y
    OBVIOUS
  <2> QED
    BY ONLY <2>2, <2>3, <2>4
<1>10. b \in SUBSET Rungs /\ s \in SUBSET book.lots
  BY <1>1, <1>7, <1>8 DEF FirstBy
<1>11. GridOrders(b, s, state, book.lots, price)
  BY <1>7, <1>8, <1>9 DEF GridOrders, FirstBy, nb, ns, Buyable, Sellable
<1> QED
  BY <1>10, <1>11

\* Whatever the book holds and the day has counted, a tick that reads a price has
\* a set of orders to send, possibly empty: the evaluation (evaluatePercentGrid,
\* evaluateLoopGrid) never leaves it without one, and the next-state relation of
\* the model hides no step behind an unsatisfiable condition.
THEOREM EvaluationAnswers ==
    Spec => [](\A state \in WorkerState, price \in Prices : Evaluates(state, price))
<1>1. TypeOK /\ BookInv => \A state \in WorkerState, price \in Prices : Evaluates(state, price)
  <2> SUFFICES ASSUME TypeOK, IsFiniteSet(book.lots), NEW state \in WorkerState, NEW price \in Prices
               PROVE  Evaluates(state, price)
    BY DEF BookInv
  <2>1. CASE mode = "percent-grid"
    BY <2>1, GridAnswers DEF Evaluates, Orders
  <2>2. CASE mode # "percent-grid"
    <3> DEFINE s == IF state.sells < MaxDailySells THEN SellableLots(book.lots, price) ELSE {}
               b == IF /\ book.lots = {}
                       /\ price <= BuyLevel(book.anchor, 1)
                       /\ ~TooDeep(book.anchor, price)
                       /\ state.buys < MaxDailyBuys
                    THEN {1} ELSE {}
    <3>1. s \in SUBSET book.lots /\ b \in SUBSET Rungs
      BY GridAssumption DEF SellableLots
    <3>2. LoopOrders(b, s, state, book, price)
      BY DEF LoopOrders
    <3> HIDE DEF b, s
    <3> QED
      BY <2>2, <3>1, <3>2 DEF Evaluates, Orders
  <2> QED
    BY <2>1, <2>2
<1> QED
  BY <1>1, BookFinite, TypesHold, PTL
-----------------------------------------------------------------------------
(* A rung is bought once, as long as nothing is lost.  The book never holds  *)
(* two lots of a rung, whatever is lost; where nothing is stranded the       *)
(* broker holds no other lots than those of the book and the one under way.  *)

\* What a tick means to buy it neither holds nor has under way.
OneLot(rec) ==
    mode = "percent-grid" =>
        /\ \A a, b \in book.lots \cup rec.acked : a.rung = b.rung => a = b
        /\ \A lot \in book.lots \cup rec.acked : lot.rung \notin rec.buys

OneLotInv ==
    /\ mode = "percent-grid" => \A a, b \in book.lots : a.rung = b.rung => a = b
    /\ \A r \in Runners : OneLot(runner[r])

LEMMA OneLotKept ==
    ASSUME TypeOK, ShapeInv, NEW r \in Runners, OneLot(runner[r]), Tick(r) \/ Abort(r)
    PROVE  OneLot(runner[r])'
<1> DEFINE rec == runner[r]
           new == runner'[r]
<1>0. Shape(rec) /\ rec \in Runner
  BY SMTT(60) DEF ShapeInv, TypeOK
<1>1. mode' = mode
  BY DEF Tick, Start, ReadBook, OrderNotSent, BuyAcked, BuyLost, SellAcked, SellLost, OpenLot, CloseLot,
     ExitNotSent, ExitAcked, ExitLost, ClearBook, Save, Abort
<1>2. ASSUME book'.lots \cup new.acked \subseteq book.lots \cup rec.acked, new.buys \subseteq rec.buys
      PROVE  OneLot(runner[r])'
  BY <1>1, <1>2 DEF OneLot
<1>3. CASE Start(r)
  <2>1. new.buys = {} /\ new.acked = {} /\ book' = book
    BY <1>3, Moves, BuysMove DEF Start
  <2> QED
    BY <1>2, <2>1
<1>4. CASE ReadBook(r)
  <2>1. rec.buys = {} /\ rec.acked = {} /\ new.acked = {} /\ book' = book
    BY <1>0, <1>4, Moves DEF ReadBook, Shape
  <2>2. CASE new.buys = rec.buys
    BY <1>2, <2>1, <2>2
  <2>3. CASE new.buys # rec.buys
    <3>1. PICK s, price : Orders(new.buys, s, rec.state, book, price)
      BY <1>4, <2>3, BuysMove
    <3>2. mode = "percent-grid" => new.buys \subseteq BuyableRungs(book.lots, price)
      BY <3>1 DEF Orders, GridOrders
    <3>3. mode = "percent-grid" => \A lot \in book.lots : lot.rung \notin new.buys
      BY <3>2 DEF BuyableRungs, HeldRungs
    <3> QED
      BY <1>1, <2>1, <3>3 DEF OneLot
  <2> QED
    BY SMTT(60), <2>2, <2>3
<1>5. CASE BuyAcked(r)
  <2>1. PICK rung \in rec.buys : \E lot \in NewLots(rec, rung) :
           Step(r, [rec EXCEPT !.pc = "opening", !.buys = @ \ {rung}, !.acked = {lot}])
    BY <1>5 DEF BuyAcked
  <2>2. PICK lot \in NewLots(rec, rung) :
           Step(r, [rec EXCEPT !.pc = "opening", !.buys = @ \ {rung}, !.acked = {lot}])
    BY <2>1
  <2>3. new.buys = rec.buys \ {rung} /\ new.acked = {lot} /\ lot.rung = rung
    BY <1>0, <2>2 DEF Step, TypeOK, Runner, NewLots, NewLot
  <2>4. book' = book /\ rec.acked = {}
    BY <1>0, <1>5 DEF BuyAcked, Shape
  <2> QED
    BY <1>1, <2>3, <2>4 DEF OneLot
<1>6. CASE OrderNotSent(r) \/ BuyLost(r) \/ SellLost(r)
  <2>1. new.acked = {} /\ book' = book
    BY <1>6, Moves DEF OrderNotSent, BuyLost, SellLost
  <2>2. new.buys \subseteq rec.buys
    BY <1>6, BuysMove
  <2> QED
    BY <1>2, <2>1, <2>2
<1>7. CASE SellAcked(r)
  <2>1. PICK lot \in rec.sells : new.acked = {lot}
    BY <1>7, SellEffect
  <2>2. book' = book /\ lot \in book.lots /\ new.buys = rec.buys
    BY <1>0, <1>7, BuysMove DEF SellAcked, Shape
  <2> QED
    BY <1>2, <2>1, <2>2
<1>8. CASE OpenLot(r) \/ CloseLot(r)
  <2>1. book'.lots \subseteq book.lots \cup rec.acked /\ new.acked = {} /\ new.buys = rec.buys
    BY <1>8, BookEffect, BuysMove, Moves
  <2> QED
    BY <1>2, <2>1
<1>9. CASE ExitNotSent(r) \/ ExitAcked(r) \/ ExitLost(r)
  <2>1. book' = book /\ new.acked = rec.acked /\ new.buys = rec.buys
    BY <1>9, BuysMove, Moves DEF ExitNotSent, ExitAcked, ExitLost
  <2> QED
    BY SMTT(60), <1>2, <2>1
<1>10. CASE ClearBook(r)
  <2>1. book'.lots = {} /\ new.acked = rec.acked /\ new.buys = rec.buys
    BY <1>10, BookEffect, BuysMove, Moves
  <2> QED
    BY <1>2, <2>1
<1>11. CASE Save(r) \/ Abort(r)
  <2>1. new = IdleRunner /\ book' = book
    BY <1>11 DEF Save, Abort, Step, TypeOK
  <2>2. new.acked = {} /\ new.buys = {}
    BY <2>1 DEF IdleRunner
  <2> QED
    BY <1>2, <2>1, <2>2
<1> QED
  BY <1>3, <1>4, <1>5, <1>6, <1>7, <1>8, <1>9, <1>10, <1>11 DEF Tick

\* The header of evaluate-percent-grid.ts says that an open lot keeps its rung
\* from being bought again.  So it does while no answer is lost and no tick
\* killed, and the broker does not take a second stop-loss of a day for the
\* first; the ticks of the strategy must not overlap.
THEOREM RungsAreBoughtOnce ==
    ASSUME \A x, y \in Runners : x = y
    PROVE  Spec => [](faults = 0 /\ ~reused => RungBoughtOnce)
<1>1. Init => OneLotInv
  BY DEF Init, IdleRunner, OneLotInv, OneLot
<1>2. TypeOK /\ ShapeInv /\ OneLotInv /\ [Next]_vars => OneLotInv'
  <2> SUFFICES ASSUME TypeOK, ShapeInv, OneLotInv, [Next]_vars PROVE OneLotInv'
    OBVIOUS
  <2>1. CASE NextDay \/ UNCHANGED vars
    BY <2>1 DEF NextDay, vars, OneLotInv, OneLot
  <2>2. ASSUME NEW r \in Runners, Tick(r) \/ Abort(r) PROVE OneLotInv'
    <3>1. OneLot(runner[r])'
      BY <2>2, OneLotKept DEF OneLotInv
    <3> QED
      BY <3>1 DEF OneLotInv, OneLot
  <2> QED
    BY <2>1, <2>2 DEF Next
<1>3. TypeOK /\ ShapeInv /\ StrandInv /\ OneLotInv => (faults = 0 /\ ~reused => RungBoughtOnce)
  <2> SUFFICES ASSUME TypeOK, StrandInv, OneLotInv, faults = 0, ~reused, mode = "percent-grid",
                      NEW a \in shares, NEW b \in shares, a.rung = b.rung
               PROVE  a = b
    BY DEF RungBoughtOnce
  <2>1. IsFiniteSet(Stranded) /\ Cardinality(Stranded) <= 0
    BY FS_Subset DEF StrandInv, StrandedByFaults, Stranded
  <2>2. Stranded = {}
    <3>1. Cardinality(Stranded) \in Nat
      BY <2>1, FS_CardinalityType
    <3>2. Cardinality(Stranded) = 0
      BY <2>1, <3>1
    <3> QED
      BY <2>1, <3>2, FS_EmptySet
  <2>3. shares \subseteq book.lots \cup UNION {runner[r].acked : r \in Runners}
    BY <2>2 DEF Stranded
  <2>4. CASE Runners = {}
    BY <2>3, <2>4 DEF OneLotInv
  <2>5. ASSUME NEW r \in Runners PROVE a = b
    <3>1. shares \subseteq book.lots \cup runner[r].acked
      BY <2>3
    <3> QED
      BY <3>1 DEF OneLotInv, OneLot
  <2> QED
    BY <2>4, <2>5
<1> QED
  BY <1>1, <1>2, <1>3, TypesHold, ShapeHolds, StrandHolds, PTL DEF Spec
=============================================================================
