------------------------------- MODULE GridTick -------------------------------
(***************************************************************************)
(* The two strategies that keep a position book of their own: the percent  *)
(* grid, with one lot per rung, and the loop, with one position and a      *)
(* moving anchor price.                                                    *)
(*                                                                         *)
(* A tick reads the day's worker state and the book, evaluates both        *)
(* against one price, sends the due orders one at a time, writes the book  *)
(* after each accepted one, and saves the worker state once, at its end.   *)
(* A stop-loss replaces the whole evaluation and sells the whole book.     *)
(*                                                                         *)
(* A grid order gets a new clientOrderId every time; only the stop-loss    *)
(* has one id per day.  What the accepted orders amount to (`shares`) and  *)
(* what the strategy believes it holds (`book`) are separate here, and the *)
(* properties are about how far apart they can get.                        *)
(*                                                                         *)
(* The worker state has one row per day (the Supabase backend; WorkerTick  *)
(* has the file too).  Every lot is one unit: sizing is left out, and so   *)
(* are the fills, because the code takes an accepted order for a fill.     *)
(***************************************************************************)
EXTENDS Integers, FiniteSets
LOCAL INSTANCE FiniteSetsExt

CONSTANTS
    Runners,            \* concurrent executions of the worker
    Modes,              \* the strategies to look at: "percent-grid", "loop-grid"
    Rungs,              \* the rungs of the grid; the loop uses rung 1
    Drop, Rise,         \* percentages of each rung
    BasePrice,          \* base price of the grid, first anchor of the loop
    Prices,             \* the market prices a tick may see
    StopLossPct,        \* 0: no stop-loss
    MaxLossPct,         \* 0: no limit
    MaxDailyBuys, MaxDailySells,
    MaxDay,             \* bound: the trading days 0..MaxDay
    MaxLots,            \* bound: lots of one rung alive at a time
    MaxFaults           \* bound: lost answers and kills

ASSUME GridAssumption ==
    /\ Modes \subseteq {"percent-grid", "loop-grid"}
    /\ Rungs \subseteq Nat /\ IsFiniteSet(Rungs) /\ 1 \in Rungs
    /\ Drop \in [Rungs -> 0..100] /\ Rise \in [Rungs -> Nat]
    /\ Prices \subseteq Nat
    /\ {BasePrice, MaxLossPct, MaxDailyBuys, MaxDailySells, MaxDay, MaxLots, MaxFaults} \subseteq Nat
    /\ StopLossPct \in 0..100

VARIABLES
    mode,       \* config.mode, fixed
    day,        \* today in the exchange's time zone
    store,      \* the saved worker state of each trading day
    book,       \* what the strategy believes it holds (grid-state, loop-state)
    runner,     \* what each execution is doing
    shares,     \* the lots that accepted orders bought and did not sell
    exits,      \* the days whose stop-loss id the broker has an order for
    accepted,   \* buy orders the broker accepted for each day
    oversold,   \* a lot was sold that `shares` did not hold
    reused,     \* a stop-loss was answered with an earlier order of the day
    faults      \* lost answers and kills so far

broker == <<shares, exits, accepted, oversold, reused>>
vars == <<mode, day, store, book, runner, broker, faults>>

-----------------------------------------------------------------------------
(* Types and null records. *)

Days == 0..MaxDay
WorkerState == [pending : BOOLEAN, buys : Nat, sells : Nat]
EmptyState == [pending |-> FALSE, buys |-> 0, sells |-> 0]

\* n tells apart the lots of a rung (the random lotId).
Lot == [rung : Rungs, n : 1..MaxLots, entry : Nat]

\* `anchor` and `cycled` (lastCycleAt is set) matter to the loop only.
Book == [lots : SUBSET Lot, anchor : Nat, cycled : BOOLEAN]

Runner == [pc : {"idle", "book", "orders", "opening", "closing", "exit", "clear", "save"},
           day : Days,              \* `state.date`, fixed when the tick started
           state : WorkerState,     \* the tick's own copy of the state
           anchor : Nat,            \* and of the anchor
           price : Nat,
           buys : SUBSET Rungs,     \* buys not yet sent
           sells : SUBSET Lot,      \* sells not yet sent, or the lots of the exit
           acked : SUBSET Lot]      \* the accepted order the book lacks
IdleRunner == [pc |-> "idle", day |-> 0, state |-> EmptyState, anchor |-> 0, price |-> 0,
               buys |-> {}, sells |-> {}, acked |-> {}]

-----------------------------------------------------------------------------
(* The evaluation of one price. *)

BuyLevel(base, rung) == (base * (100 - Drop[rung])) \div 100
SellLevel(lot) == (lot.entry * (100 + Rise[lot.rung])) \div 100

\* maxLossPct stops new buys only.
TooDeep(base, price) == MaxLossPct > 0 /\ price * 100 < base * (100 - MaxLossPct)

\* At or below the weighted average entry price less stopLossPct.
BelowStop(lots, price) ==
    price * 100 * Cardinality(lots)
        <= MapThenSumSet(LAMBDA lot : lot.entry, lots) * (100 - StopLossPct)

\* Mutant: a failed stop-loss is not remembered.
StopDueNow(state, lots, price) ==
    StopLossPct > 0 /\ lots # {} /\ BelowStop(lots, price)

StopDue(state, lots, price) ==
    StopLossPct > 0 /\ lots # {} /\ (state.pending \/ BelowStop(lots, price))

Least(a, b) == IF a < b THEN a ELSE b

\* Mutant: one order more than the limit.
RoomAndOne(limit, used) == IF used <= limit THEN limit - used + 1 ELSE 0

Room(limit, used) == IF used < limit THEN limit - used ELSE 0
HeldRungs(lots) == {lot.rung : lot \in lots}

\* The rungs whose price is reached and that are not held.
BuyableRungs(lots, price) ==
    {rung \in Rungs \ HeldRungs(lots) :
        LET level == BuyLevel(BasePrice, rung)
        IN  ~TooDeep(BasePrice, price) /\ ~TooDeep(BasePrice, level) /\ price <= level}

SellableLots(lots, price) == {lot \in lots : price >= SellLevel(lot)}

\* Within the daily limits, the deepest rungs first; of the lots, any (the order
\* of the book is not kept).
GridOrders(b, s, state, lots, price) ==
    /\ b \subseteq BuyableRungs(lots, price)
    /\ Cardinality(b) = Least(Cardinality(BuyableRungs(lots, price)), Room(MaxDailyBuys, state.buys))
    /\ \A rung \in b, other \in BuyableRungs(lots, price) \ b : Drop[rung] >= Drop[other]
    /\ s \subseteq SellableLots(lots, price)
    /\ Cardinality(s) = Least(Cardinality(SellableLots(lots, price)), Room(MaxDailySells, state.sells))

\* Time is not modelled: once the loop has traded, a tick may fall in its cooldown.
LoopOrders(b, s, state, bk, price) ==
    \/ bk.cycled /\ b = {} /\ s = {}
    \/ /\ s = IF state.sells < MaxDailySells THEN SellableLots(bk.lots, price) ELSE {}
       /\ b = IF /\ bk.lots = {}
                 /\ price <= BuyLevel(bk.anchor, 1)
                 /\ ~TooDeep(bk.anchor, price)
                 /\ state.buys < MaxDailyBuys
              THEN {1} ELSE {}

Orders(b, s, state, bk, price) ==
    IF mode = "percent-grid"
    THEN GridOrders(b, s, state, bk.lots, price)
    ELSE LoopOrders(b, s, state, bk, price)

-----------------------------------------------------------------------------
(* The book. *)

\* Mutant: the grid keeps one position, like the loop.
OpenedOver(lot, anchor) == [lots |-> {lot}, anchor |-> anchor, cycled |-> TRUE]

\* openGridLot appends; recordLoopGridBuy overwrites the position.
Opened(lot, anchor) ==
    IF mode = "percent-grid"
    THEN [book EXCEPT !.lots = @ \cup {lot}]
    ELSE [lots |-> {lot}, anchor |-> anchor, cycled |-> TRUE]

\* closeGridLot removes one lot; recordLoopGridSell empties the position and the
\* sale price is the next anchor.
Closed(lot) ==
    IF mode = "percent-grid"
    THEN [book EXCEPT !.lots = @ \ {lot}]
    ELSE [lots |-> {}, anchor |-> SellLevel(lot), cycled |-> TRUE]

\* Mutant: the book outlives the stop-loss.
ClearedNothing(price) == book

Cleared(price) ==
    IF mode = "percent-grid"
    THEN [book EXCEPT !.lots = {}]
    ELSE [lots |-> {}, anchor |-> price, cycled |-> TRUE]

-----------------------------------------------------------------------------
(* The broker, outside the repository. *)

\* A grid order is new to the broker whatever was sent before.
AcceptBuy(lot, d) ==
    /\ shares' = shares \cup {lot}
    /\ accepted' = [accepted EXCEPT ![d] = @ + 1]
    /\ UNCHANGED <<exits, oversold, reused>>

AcceptSell(lot) ==
    /\ shares' = shares \ {lot}
    /\ oversold' = (oversold \/ lot \notin shares)
    /\ UNCHANGED <<exits, accepted, reused>>

\* The id of the stop-loss is a hash of the strategy and the day: the broker
\* answers the second one of a day with the first one's order.
AcceptExit(lots, d) ==
    /\ exits' = exits \cup {d}
    /\ IF d \in exits
       THEN /\ reused' = (reused \/ lots \cap shares # {})
            /\ UNCHANGED <<shares, oversold>>
       ELSE /\ shares' = shares \ lots
            /\ oversold' = (oversold \/ ~(lots \subseteq shares))
            /\ UNCHANGED reused
    /\ UNCHANGED accepted

-----------------------------------------------------------------------------
(* The tick. *)

Step(r, rec) == runner' = [runner EXCEPT ![r] = rec]
Pending(rec) == IF rec.buys = {} /\ rec.sells = {} THEN "save" ELSE "orders"
Proceed(rec) == [rec EXCEPT !.pc = Pending(rec), !.acked = {}]
Fault == faults < MaxFaults /\ faults' = faults + 1

\* getWorkerState.
Start(r) ==
    /\ runner[r].pc = "idle"
    /\ Step(r, [IdleRunner EXCEPT !.pc = "book", !.day = day, !.state = store[day]])
    /\ UNCHANGED <<mode, day, store, book, broker, faults>>

\* getGridLots or getLoopGridState, then the evaluation.
ReadBook(r) ==
    /\ runner[r].pc = "book"
    /\ \E price \in Prices :
          LET rec == [runner[r] EXCEPT !.anchor = IF mode = "percent-grid" THEN BasePrice
                                                  ELSE book.anchor]
          IN  \/ /\ StopDue(rec.state, book.lots, price)
                 /\ Step(r, [rec EXCEPT !.pc = "exit", !.price = price, !.sells = book.lots])
              \/ /\ ~StopDue(rec.state, book.lots, price)
                 /\ \E b \in SUBSET Rungs, s \in SUBSET book.lots :
                       /\ Orders(b, s, rec.state, book, price)
                       /\ Step(r, Proceed([rec EXCEPT !.buys = b, !.sells = s]))
    /\ UNCHANGED <<mode, day, store, book, broker, faults>>

\* The buys go first, the deepest rung first.
DueBuy(rec, rung) == rung \in rec.buys /\ \A other \in rec.buys : Drop[rung] >= Drop[other]
DueSell(rec, lot) == rec.buys = {} /\ lot \in rec.sells

\* Refused by the precheck, blocked by the gate, refused by the broker or never
\* received: nothing is recorded.
OrderNotSent(r) ==
    /\ runner[r].pc = "orders"
    /\ LET rec == runner[r]
       IN  \/ \E rung \in rec.buys :
                 DueBuy(rec, rung) /\ Step(r, Proceed([rec EXCEPT !.buys = @ \ {rung}]))
           \/ \E lot \in rec.sells :
                 DueSell(rec, lot) /\ Step(r, Proceed([rec EXCEPT !.sells = @ \ {lot}]))
    /\ UNCHANGED <<mode, day, store, book, broker, faults>>

\* The lot the order would open, with the first number no living lot has.
Alive == shares \cup book.lots \cup UNION {runner[r].sells \cup runner[r].acked : r \in Runners}
Numbers(rung) == {lot.n : lot \in {x \in Alive : x.rung = rung}}
NewLot(rec, rung, lot) ==
    /\ lot.rung = rung
    /\ lot.entry = BuyLevel(rec.anchor, rung)
    /\ lot.n \notin Numbers(rung)
    /\ 1..(lot.n - 1) \subseteq Numbers(rung)
NewLots(rec, rung) ==
    {lot \in {[rung |-> rung, n |-> n, entry |-> BuyLevel(rec.anchor, rung)] : n \in 1..MaxLots} :
        NewLot(rec, rung, lot)}

BuyAcked(r) ==
    /\ runner[r].pc = "orders"
    /\ LET rec == runner[r]
       IN  \E rung \in rec.buys : \E lot \in NewLots(rec, rung) :
              /\ DueBuy(rec, rung)
              /\ AcceptBuy(lot, rec.day)
              /\ Step(r, [rec EXCEPT !.pc = "opening", !.buys = @ \ {rung}, !.acked = {lot}])
    /\ UNCHANGED <<mode, day, store, book, faults>>

\* The broker has the order but the answer is lost: an "error" outcome.
BuyLost(r) ==
    /\ runner[r].pc = "orders"
    /\ LET rec == runner[r]
       IN  \E rung \in rec.buys : \E lot \in NewLots(rec, rung) :
              /\ DueBuy(rec, rung)
              /\ AcceptBuy(lot, rec.day)
              /\ Step(r, Proceed([rec EXCEPT !.buys = @ \ {rung}]))
    /\ Fault
    /\ UNCHANGED <<mode, day, store, book>>

SellAcked(r) ==
    /\ runner[r].pc = "orders"
    /\ LET rec == runner[r]
       IN  \E lot \in rec.sells :
              /\ DueSell(rec, lot)
              /\ AcceptSell(lot)
              /\ Step(r, [rec EXCEPT !.pc = "closing", !.sells = @ \ {lot}, !.acked = {lot}])
    /\ UNCHANGED <<mode, day, store, book, faults>>

SellLost(r) ==
    /\ runner[r].pc = "orders"
    /\ LET rec == runner[r]
       IN  \E lot \in rec.sells :
              /\ DueSell(rec, lot)
              /\ AcceptSell(lot)
              /\ Step(r, Proceed([rec EXCEPT !.sells = @ \ {lot}]))
    /\ Fault
    /\ UNCHANGED <<mode, day, store, book>>

\* The read and the upsert of the book are one step; two executions can also
\* interleave between them.
OpenLot(r) ==
    /\ runner[r].pc = "opening"
    /\ \E lot \in runner[r].acked : book' = Opened(lot, runner[r].anchor)
    /\ Step(r, Proceed([runner[r] EXCEPT !.state.buys = @ + 1]))
    /\ UNCHANGED <<mode, day, store, broker, faults>>

\* Mutant: the counter runs down.
CloseDown(r) ==
    /\ runner[r].pc = "closing"
    /\ \E lot \in runner[r].acked : book' = Closed(lot)
    /\ Step(r, Proceed([runner[r] EXCEPT !.state.sells = @ - 1]))
    /\ UNCHANGED <<mode, day, store, broker, faults>>

CloseLot(r) ==
    /\ runner[r].pc = "closing"
    /\ \E lot \in runner[r].acked : book' = Closed(lot)
    /\ Step(r, Proceed([runner[r] EXCEPT !.state.sells = @ + 1]))
    /\ UNCHANGED <<mode, day, store, broker, faults>>

ExitUnsent(rec) == [rec EXCEPT !.pc = "save", !.sells = {}, !.state.pending = TRUE]

ExitNotSent(r) ==
    /\ runner[r].pc = "exit"
    /\ Step(r, ExitUnsent(runner[r]))
    /\ UNCHANGED <<mode, day, store, book, broker, faults>>

ExitAcked(r) ==
    /\ runner[r].pc = "exit"
    /\ AcceptExit(runner[r].sells, runner[r].day)
    /\ Step(r, [runner[r] EXCEPT !.pc = "clear", !.sells = {}])
    /\ UNCHANGED <<mode, day, store, book, faults>>

ExitLost(r) ==
    /\ runner[r].pc = "exit"
    /\ AcceptExit(runner[r].sells, runner[r].day)
    /\ Step(r, ExitUnsent(runner[r]))
    /\ Fault
    /\ UNCHANGED <<mode, day, store, book>>

ExitDone(rec) ==
    [rec EXCEPT !.pc = "save",
                !.state = [pending |-> FALSE, buys |-> @.buys, sells |-> @.sells + 1]]

\* clearGridLots, or recordLoopGridSell at the market price.
ClearBook(r) ==
    /\ runner[r].pc = "clear"
    /\ book' = Cleared(runner[r].price)
    /\ Step(r, ExitDone(runner[r]))
    /\ UNCHANGED <<mode, day, store, broker, faults>>

\* saveWorkerState: the whole row.
Save(r) ==
    /\ runner[r].pc = "save"
    /\ store' = [store EXCEPT ![runner[r].day] = runner[r].state]
    /\ Step(r, IdleRunner)
    /\ UNCHANGED <<mode, day, book, broker, faults>>

\* A read or a write throws out of the tick, or the process is killed.
Abort(r) ==
    /\ runner[r].pc # "idle"
    /\ Step(r, IdleRunner)
    /\ Fault
    /\ UNCHANGED <<mode, day, store, book, broker>>

NextDay ==
    /\ day < MaxDay
    /\ day' = day + 1
    /\ UNCHANGED <<mode, store, book, runner, broker, faults>>

-----------------------------------------------------------------------------
Init ==
    /\ mode \in Modes
    /\ day = 0
    /\ store = [d \in Days |-> EmptyState]
    /\ book = [lots |-> {}, anchor |-> BasePrice, cycled |-> FALSE]
    /\ runner = [r \in Runners |-> IdleRunner]
    /\ shares = {}
    /\ exits = {}
    /\ accepted = [d \in Days |-> 0]
    /\ oversold = FALSE
    /\ reused = FALSE
    /\ faults = 0

Tick(r) ==
    \/ Start(r) \/ ReadBook(r)
    \/ OrderNotSent(r) \/ BuyAcked(r) \/ BuyLost(r) \/ SellAcked(r) \/ SellLost(r)
    \/ OpenLot(r) \/ CloseLot(r)
    \/ ExitNotSent(r) \/ ExitAcked(r) \/ ExitLost(r) \/ ClearBook(r)
    \/ Save(r)

Next ==
    \/ \E r \in Runners : Tick(r) \/ Abort(r)
    \/ NextDay

Spec == Init /\ [][Next]_vars

\* The cron keeps calling, and a stop-loss that is tried again and again is at
\* last accepted.
FairSpec ==
    /\ Spec
    /\ WF_vars(NextDay)
    /\ \A r \in Runners : WF_vars(Tick(r)) /\ SF_vars(ExitAcked(r))

-----------------------------------------------------------------------------
(* Properties, of a strategy whose ticks do not overlap (one runner). *)

TypeOK ==
    /\ mode \in Modes
    /\ day \in Days
    /\ store \in [Days -> WorkerState]
    /\ book \in Book
    /\ runner \in [Runners -> Runner]
    /\ shares \subseteq Lot
    /\ exits \subseteq Days
    /\ accepted \in [Days -> Nat]
    /\ {oversold, reused} \subseteq BOOLEAN
    /\ faults \in 0..MaxFaults

\* Bought and neither sold nor known to any tick: no sell order and no stop-loss
\* will ever be sent for these.
Stranded == shares \ (book.lots \cup UNION {runner[r].acked : r \in Runners})

\* A lost answer or a kill strands at most one lot, and nothing else strands any,
\* except a second stop-loss of the day: the broker answers it with the order of
\* the first, and clearGridLots forgets lots that were not sold.
StrandedByFaults == ~reused => Cardinality(Stranded) <= faults

\* Without a fault no lot is sold twice, although no id tells the broker so: the
\* one save at the end, the midnight that empties the state and the stop-loss
\* that is retried all leave the book right.
SoldOnce == faults = 0 => ~oversold

\* A rung is not bought again until it is sold (evaluate-percent-grid.ts, the
\* header).  A lost answer breaks it: the grid has only its book to go by.
RungBoughtOnce ==
    mode = "percent-grid" => \A a, b \in shares : a.rung = b.rung => a = b

\* A kill forgets the buys its tick counted, so the day's limit holds only per
\* kill: this is all that maxDailyBuys promises.
DailyBuysPerFault == \A d \in Days : accepted[d] <= MaxDailyBuys * (1 + faults)

\* Without a fault a pending stop-loss keeps the tick from every other order.
PendingStopsGrid ==
    [][faults = 0 /\ store[day].pending =>
          /\ accepted' = accepted
          /\ shares' # shares => exits' # exits]_vars

\* A pending stop-loss of the last day empties the book in the end.
PendingLiquidated ==
    (day = MaxDay /\ store[day].pending /\ book.lots # {}) ~> (book.lots = {})
=============================================================================
