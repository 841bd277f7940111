------------------------------ MODULE WorkerTick ------------------------------
(***************************************************************************)
(* One ladder strategy driven by the polling worker.  A tick reads the     *)
(* day's worker state, evaluates the ladder and the exit rules against one *)
(* price, sends the orders to the broker one at a time, and saves the      *)
(* worker state once, at the very end; the caller then records the         *)
(* acknowledged orders in the tracking ledger.                             *)
(*                                                                         *)
(* Two callers run ticks and nothing serialises them: the cron cycle       *)
(* (run-automation-cycle.ts) and POST worker/tick.  Each is a runner here, *)
(* and every await at which another runner can get in ends an action.      *)
(*                                                                         *)
(* The broker is outside the repository: it keeps at most one order per    *)
(* clientOrderId, which is what the deterministic key of the code relies   *)
(* on.                                                                     *)
(***************************************************************************)
EXTENDS Integers, Sequences, FiniteSets
LOCAL INSTANCE FiniteSetsExt

CONSTANTS
    Runners,            \* concurrent executions of the worker
    Ladders,            \* the ladders the user may enable, each in evaluation order
    Prices,             \* the market prices a tick may see
    TakeLevel,          \* take-profit price
    StopLevel,          \* stop-loss price
    BuyStopLevel,       \* below it maxLossPct stops new buys
    MaxDailyBuys, MaxDailySells, MaxPositionValue,
    Backend,            \* where the worker state lives: "supabase" or "file"
    MaxDay              \* bound: the trading days 0..MaxDay

ExitKeys == {"exit:take-profit", "exit:stop-loss"}
PendingKey == "stop-loss-pending"
Steps == UNION {{l[i] : i \in 1..Len(l)} : l \in Ladders}
StepIds == {s.id : s \in Steps}
OrderKeys == StepIds \cup ExitKeys
Days == 0..MaxDay
StepsOf(l, side) == {i \in 1..Len(l) : l[i].side = side}

\* A ladder step is [id, side, price, notional]; an id keeps its side when the
\* ladder is edited.
ASSUME LadderAssumption ==
    /\ Ladders # {}
    /\ Ladders \subseteq Seq([id : STRING, side : {"buy", "sell"}, price : Nat, notional : Nat])
    /\ \A s, t \in Steps : s.id = t.id => s.side = t.side
    /\ StepIds \cap (ExitKeys \cup {PendingKey}) = {}

\* Only a ladder whose simulation passed is enabled (simulation.ts), and its
\* step ids differ.
ASSUME SimulationAssumption ==
    \A l \in Ladders :
        /\ Cardinality(StepsOf(l, "buy")) <= MaxDailyBuys
        /\ Cardinality(StepsOf(l, "sell")) <= MaxDailySells
        /\ \A i, j \in 1..Len(l) : l[i].id = l[j].id => i = j

ASSUME LimitAssumption ==
    /\ Prices \subseteq Nat
    /\ {TakeLevel, StopLevel, BuyStopLevel} \subseteq Nat
    /\ {MaxDailyBuys, MaxDailySells, MaxPositionValue, MaxDay} \subseteq Nat
    /\ Backend \in {"supabase", "file"}

VARIABLES
    day,        \* today in the exchange's time zone
    ladder,     \* the enabled ladder
    store,      \* the saved worker state of each trading day
    runner,     \* what each execution is doing
    orders,     \* the broker's orders, every one ever accepted
    tracked     \* clientOrderIds in the tracking ledger (order-tracker)

vars == <<day, ladder, store, runner, orders, tracked>>

-----------------------------------------------------------------------------
(* Types and null records. *)

WorkerState == [executed : SUBSET (OrderKeys \cup {PendingKey}), buys : Nat, sells : Nat]
EmptyState == [executed |-> {}, buys |-> 0, sells |-> 0]

ClientOrderIds == OrderKeys \X Nat
Order == [coid : ClientOrderIds, key : OrderKeys, day : Days]

Exits == {"none", "take-profit", "stop-loss"}
Runner == [pc : {"idle", "trigger", "exit", "save", "record"},
           day : Days,                 \* `today`, fixed when the tick started
           state : WorkerState,        \* the tick's own copy of the state
           todo : SUBSET (Nat \X StepIds), \* triggers not yet sent: <<position, id>>
           exit : Exits,
           acked : SUBSET ClientOrderIds]
IdleRunner == [pc |-> "idle", day |-> 0, state |-> EmptyState, todo |-> {},
               exit |-> "none", acked |-> {}]

-----------------------------------------------------------------------------
(* Worker state. *)

Side(key) == IF \E s \in Steps : s.id = key /\ s.side = "buy" THEN "buy" ELSE "sell"
ExitKey(exit) == IF exit = "stop-loss" THEN "exit:stop-loss" ELSE "exit:take-profit"

\* Mutant: the counters run down.
RecordedDown(st, key) ==
    [executed |-> st.executed \cup {key},
     buys  |-> IF Side(key) = "buy" THEN st.buys - 1 ELSE st.buys,
     sells |-> IF Side(key) = "sell" THEN st.sells - 1 ELSE st.sells]

RecordExecutedStep(st, key) ==
    [executed |-> st.executed \cup {key},
     buys  |-> IF Side(key) = "buy" THEN st.buys + 1 ELSE st.buys,
     sells |-> IF Side(key) = "sell" THEN st.sells + 1 ELSE st.sells]

MarkStopLossPending(st) == [st EXCEPT !.executed = @ \cup {PendingKey}]

\* Mutant: an accepted liquidation leaves the key.
ForgetToClear(st) == st

ClearStopLossPending(st) == [st EXCEPT !.executed = @ \ {PendingKey}]

\* Supabase keeps a row per trade_date; the file keeps one entry per strategy,
\* and an entry of another date reads as empty.
SavedState(d, st) ==
    IF Backend = "supabase"
    THEN [store EXCEPT ![d] = st]
    ELSE [x \in Days |-> IF x = d THEN st ELSE EmptyState]

-----------------------------------------------------------------------------
(* evaluateLadderTriggers. *)

\* Mutant: only the price decides.
PriceSignal(st, price) ==
    IF price >= TakeLevel THEN "take-profit"
    ELSE IF price <= StopLevel THEN "stop-loss"
    ELSE "none"

ExitSignal(st, price) ==
    IF PendingKey \in st.executed THEN "stop-loss"
    ELSE IF price >= TakeLevel THEN "take-profit"
    ELSE IF price <= StopLevel THEN "stop-loss"
    ELSE "none"

Reached(step, price) ==
    IF step.side = "buy" THEN price <= step.price ELSE price >= step.price

BuysAmong(P) == {i \in P : ladder[i].side = "buy"}
Committed(P) == MapThenSumSet(LAMBDA i : ladder[i].notional, BuysAmong(P))

\* Mutant: one buy more than the limit.
WithinLooseLimits(step, before, st, price) ==
    IF step.side = "buy"
    THEN /\ price >= BuyStopLevel
         /\ st.buys + Cardinality(BuysAmong(before)) <= MaxDailyBuys
         /\ Committed(before) + step.notional <= MaxPositionValue
    ELSE st.sells + Cardinality(before \ BuysAmong(before)) < MaxDailySells

\* The limits of the day, counted with the steps this tick picked before.
WithinLimits(step, before, st, price) ==
    IF step.side = "buy"
    THEN /\ price >= BuyStopLevel
         /\ st.buys + Cardinality(BuysAmong(before)) < MaxDailyBuys
         /\ Committed(before) + step.notional <= MaxPositionValue
    ELSE st.sells + Cardinality(before \ BuysAmong(before)) < MaxDailySells

\* One pass over the ladder: P is the set of positions it picks.
Evaluated(P, st, price) ==
    \A i \in 1..Len(ladder) :
        i \in P <=> /\ ladder[i].id \notin st.executed
                   /\ Reached(ladder[i], price)
                   /\ WithinLimits(ladder[i], {j \in P : j < i}, st, price)

\* A stop-loss skips the ladder.  Exactly one P satisfies this.
Triggers(P, st, price) ==
    IF ExitSignal(st, price) = "stop-loss" THEN P = {} ELSE Evaluated(P, st, price)

\* The triggers wait in the order of the ladder.
NextOf(todo) == CHOOSE t \in todo : \A u \in todo : t[1] <= u[1]

-----------------------------------------------------------------------------
(* The broker. *)

\* Mutant: a fresh id for every submission.
FreshOrderId(key, d) == <<key, Cardinality(orders)>>

ClientOrderId(key, d) == <<key, d>>

\* A POST the broker accepts creates an order unless it knows the clientOrderId.
Place(key, d) ==
    LET coid == ClientOrderId(key, d)
    IN  IF \E o \in orders : o.coid = coid
        THEN UNCHANGED orders
        ELSE orders' = orders \cup {[coid |-> coid, key |-> key, day |-> d]}

-----------------------------------------------------------------------------
(* The tick. *)

Step(r, rec) == runner' = [runner EXCEPT ![r] = rec]
After(todo, exit) == IF todo # {} THEN "trigger" ELSE IF exit # "none" THEN "exit" ELSE "save"

\* getWorkerState, then the evaluation of one price; an exit whose key is
\* already executed today is dropped.
Start(r) ==
    /\ runner[r].pc = "idle"
    /\ \E price \in Prices, P \in SUBSET (1..Len(ladder)) :
          LET st == store[day]
              signal == ExitSignal(st, price)
              exit == IF ExitKey(signal) \in st.executed THEN "none" ELSE signal
              todo == {<<i, ladder[i].id>> : i \in P}
          IN  /\ Triggers(P, st, price)
              /\ Step(r, [pc |-> After(todo, exit), day |-> day, state |-> st,
                          todo |-> todo, exit |-> exit, acked |-> {}])
    /\ UNCHANGED <<day, ladder, store, orders, tracked>>

\* Mutant: a step counts as executed whatever its outcome.
RecordedTrigger(rec) ==
    LET rest == rec.todo \ {NextOf(rec.todo)}
    IN  [rec EXCEPT !.todo = rest, !.pc = After(rest, rec.exit),
                    !.state = RecordExecutedStep(@, NextOf(rec.todo)[2])]

NextTrigger(rec) ==
    LET rest == rec.todo \ {NextOf(rec.todo)}
    IN  [rec EXCEPT !.todo = rest, !.pc = After(rest, rec.exit)]

\* The precheck refuses the trigger, the gate blocks it, or the broker refuses
\* it or never receives it: nothing is recorded, the next tick tries again.
TriggerNotSent(r) ==
    /\ runner[r].pc = "trigger"
    /\ Step(r, NextTrigger(runner[r]))
    /\ UNCHANGED <<day, ladder, store, orders, tracked>>

TriggerAcked(r) ==
    /\ runner[r].pc = "trigger"
    /\ LET rec == runner[r]
           key == NextOf(rec.todo)[2]
       IN  /\ Place(key, rec.day)
           /\ Step(r, [NextTrigger(rec) EXCEPT
                          !.state = RecordExecutedStep(@, key),
                          !.acked = @ \cup {ClientOrderId(key, rec.day)}])
    /\ UNCHANGED <<day, ladder, store, tracked>>

\* The broker has the order but the response is lost: an "error" outcome.
TriggerLost(r) ==
    /\ runner[r].pc = "trigger"
    /\ Place(NextOf(runner[r].todo)[2], runner[r].day)
    /\ Step(r, NextTrigger(runner[r]))
    /\ UNCHANGED <<day, ladder, store, tracked>>

\* cancelOpenOrdersForExit only cancels orders the broker already has, and any
\* of its calls may fail: whether an order is still open is not modelled.
\* Mutant: a failed liquidation is retried once.
ExitGivenUp(rec) ==
    [rec EXCEPT !.pc = "save",
                !.state = IF PendingKey \in @.executed THEN ClearStopLossPending(@)
                          ELSE IF rec.exit = "stop-loss" THEN MarkStopLossPending(@) ELSE @]

ExitUnsent(rec) ==
    [rec EXCEPT !.pc = "save",
                !.state = IF rec.exit = "stop-loss" THEN MarkStopLossPending(@) ELSE @]

\* Nothing to sell, or the liquidation is blocked or refused.
ExitNotSent(r) ==
    /\ runner[r].pc = "exit"
    /\ Step(r, ExitUnsent(runner[r]))
    /\ UNCHANGED <<day, ladder, store, orders, tracked>>

ExitAcked(r) ==
    /\ runner[r].pc = "exit"
    /\ LET rec == runner[r]
           key == ExitKey(rec.exit)
       IN  /\ Place(key, rec.day)
           /\ Step(r, [rec EXCEPT !.pc = "save",
                                  !.state = ClearStopLossPending(RecordExecutedStep(@, key)),
                                  !.acked = @ \cup {ClientOrderId(key, rec.day)}])
    /\ UNCHANGED <<day, ladder, store, tracked>>

ExitLost(r) ==
    /\ runner[r].pc = "exit"
    /\ Place(ExitKey(runner[r].exit), runner[r].day)
    /\ Step(r, ExitUnsent(runner[r]))
    /\ UNCHANGED <<day, ladder, store, tracked>>

\* saveWorkerState: the whole row, whatever another runner wrote meanwhile.
Save(r) ==
    /\ runner[r].pc = "save"
    /\ store' = SavedState(runner[r].day, runner[r].state)
    /\ Step(r, IF runner[r].acked = {} THEN IdleRunner ELSE [runner[r] EXCEPT !.pc = "record"])
    /\ UNCHANGED <<day, ladder, orders, tracked>>

\* The caller appends the acknowledged orders to the tracking ledger, one by one.
RecordSubmitted(r) ==
    /\ runner[r].pc = "record"
    /\ \E coid \in runner[r].acked :
          /\ tracked' = tracked \cup {coid}
          /\ Step(r, IF runner[r].acked = {coid} THEN IdleRunner
                     ELSE [runner[r] EXCEPT !.acked = @ \ {coid}])
    /\ UNCHANGED <<day, ladder, store, orders>>

\* A throw out of the tick or its caller (precheck, resolvers, save, ledger),
\* or the process is killed: what the tick held in memory is gone.
Abort(r) ==
    /\ runner[r].pc # "idle"
    /\ Step(r, IdleRunner)
    /\ UNCHANGED <<day, ladder, store, orders, tracked>>

\* The user edits the ladder, simulates it again and enables it.
EditLadder ==
    /\ ladder' \in Ladders
    /\ UNCHANGED <<day, store, runner, orders, tracked>>

NextDay ==
    /\ day < MaxDay
    /\ day' = day + 1
    /\ UNCHANGED <<ladder, store, runner, orders, tracked>>

-----------------------------------------------------------------------------
Init ==
    /\ day = 0
    /\ ladder \in Ladders
    /\ store = [d \in Days |-> EmptyState]
    /\ runner = [r \in Runners |-> IdleRunner]
    /\ orders = {}
    /\ tracked = {}

Tick(r) ==
    \/ Start(r)
    \/ TriggerNotSent(r) \/ TriggerAcked(r) \/ TriggerLost(r)
    \/ ExitNotSent(r) \/ ExitAcked(r) \/ ExitLost(r)
    \/ Save(r) \/ RecordSubmitted(r)

Next ==
    \/ \E r \in Runners : Tick(r) \/ Abort(r)
    \/ EditLadder
    \/ NextDay

Spec == Init /\ [][Next]_vars

\* A save that changes nothing looks like an abort, and is not a kill.
Killed(r) == Abort(r) /\ ~Tick(r)

\* The cron keeps calling, executions are not killed for ever, and a
\* liquidation that is tried again and again is at last accepted.
FairSpec ==
    /\ Spec
    /\ WF_vars(NextDay)
    /\ \A r \in Runners : WF_vars(Tick(r)) /\ SF_vars(ExitAcked(r))
    /\ <>[][\A r \in Runners : ~Killed(r)]_vars

-----------------------------------------------------------------------------
(* Properties. *)

TypeOK ==
    /\ day \in Days
    /\ ladder \in Ladders
    /\ store \in [Days -> WorkerState]
    /\ runner \in [Runners -> Runner]
    /\ orders \subseteq Order
    /\ tracked \subseteq ClientOrderIds

\* Whatever is lost, killed or run twice, a step or an exit of a day is one
\* order at the broker: the deterministic clientOrderId of submitTrigger and
\* submitExitOrder is what makes a retry safe.
OneOrderPerStep ==
    \A o, p \in orders : o.key = p.key /\ o.day = p.day => o = p

\* The saved state never claims a step the broker does not have: a step that
\* was refused or never sent stays open for the next tick.
ExecutedStepsWereSent ==
    \A d \in Days : \A key \in store[d].executed \ {PendingKey} :
        \E o \in orders : o.key = key /\ o.day = d

BuysIn(keys) == {key \in keys : Side(key) = "buy"}

\* The saved counters, which are all that maxDailyBuys is compared with, count
\* the executed buy steps and stay within the limit, whichever runner wrote last
\* and however often the ladder was edited during the day.
DailyBuysCounted ==
    \A d \in Days :
        /\ store[d].buys = Cardinality(BuysIn(store[d].executed))
        /\ store[d].buys <= MaxDailyBuys

\* While a failed stop-loss is pending the tick sends no ladder order
\* (run-automation-worker.ts, the comment on stopLossPendingKey).
PendingStopsEntries ==
    [][\A o \in orders' \ orders :
          o.key \in StepIds => PendingKey \notin store[o.day].executed]_vars

\* The pending key leaves the saved state of the current day only for a
\* liquidation that the broker has.
PendingKeptUntilLiquidated ==
    [][/\ PendingKey \in store[day].executed
       /\ PendingKey \notin store'[day].executed
       => \E o \in orders : o.key = "exit:stop-loss" /\ o.day = day]_vars

\* A step that will not be sent again because the state records it is in the
\* tracking ledger once no execution is running (order-tracker.ts: the ledger
\* of the orders the automation submitted).
ExecutedStepsTracked ==
    (\A r \in Runners : runner[r].pc = "idle") =>
        \A d \in Days : \A key \in store[d].executed \ {PendingKey} :
            ClientOrderId(key, d) \in tracked

\* A pending stop-loss of the last day is liquidated in the end.
PendingLiquidated ==
    (day = MaxDay /\ PendingKey \in store[day].executed)
        ~> (PendingKey \notin store[day].executed)
=============================================================================
