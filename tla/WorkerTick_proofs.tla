--------------------------- MODULE WorkerTick_proofs ---------------------------
(***************************************************************************)
(* What the ladder worker guarantees for any number of concurrent runners, *)
(* any ladders and limits, both backends and any number of days.           *)
(***************************************************************************)
EXTENDS WorkerTick, WellFoundedInduction, FiniteSetTheorems, TLAPS

-----------------------------------------------------------------------------
(* The inductive invariant. *)

Sent(os, key, d) == \E o \in os : o.key = key /\ o.day = d

\* The id of an order is a function of its step and its day.
OrdersOK(os) == \A o \in os : o.coid = <<o.key, o.day>>

\* A worker state, saved or in a tick's hands, claims only what was sent.
StateOK(os, st, d) == \A key \in st.executed \ {PendingKey} : Sent(os, key, d)

\* A runner that is to send has something to send.
RunnerOK(os, rec) ==
    /\ StateOK(os, rec.state, rec.day)
    /\ rec.pc = "trigger" => rec.todo # {}
    /\ rec.pc = "exit" => rec.exit # "none"

\* ExecutedStepsWereSent speaks of the saved states only; what a tick is about
\* to save must be as true.
IInv ==
    /\ TypeOK
    /\ OrdersOK(orders)
    /\ \A d \in Days : StateOK(orders, store[d], d)
    /\ \A r \in Runners : RunnerOK(orders, runner[r])

-----------------------------------------------------------------------------
(* Types of the operators. *)

LEMMA ZeroIsADay == 0 \in Days
BY LimitAssumption DEF Days

LEMMA NextOfIsFirst ==
    ASSUME NEW todo \in SUBSET (Nat \X StepIds), todo # {}
    PROVE  NextOf(todo) \in todo /\ \A u \in todo : NextOf(todo)[1] <= u[1]
<1> DEFINE S == {t[1] : t \in todo}
<1>1. S \subseteq Nat /\ S # {}
  OBVIOUS
<1>2. PICK x \in S : \A y \in S : ~ (<<y, x>> \in OpToRel(<, Nat))
  BY <1>1, NatLessThanWellFounded, WFMin
<1>3. \A y \in S : x <= y
  <2> TAKE y \in S
  <2>1. ~ (y < x)
    BY <1>1, <1>2 DEF OpToRel
  <2> QED
    BY <1>1, <2>1
<1>4. PICK t \in todo : t[1] = x
  BY <1>2
<1>5. \A u \in todo : t[1] <= u[1]
  BY <1>3, <1>4
<1> QED
  BY <1>5 DEF NextOf

LEMMA KeyTypes ==
    /\ \A exit : ExitKey(exit) \in OrderKeys
    /\ \A todo \in SUBSET (Nat \X StepIds) : todo # {} => NextOf(todo)[2] \in OrderKeys
<1>1. \A exit : ExitKey(exit) \in OrderKeys
  BY DEF ExitKey, OrderKeys, ExitKeys
<1>2. ASSUME NEW todo \in SUBSET (Nat \X StepIds), todo # {}
      PROVE  NextOf(todo)[2] \in OrderKeys
  <2>1. NextOf(todo) \in Nat \X StepIds
    BY <1>2, NextOfIsFirst
  <2> QED
    BY <2>1 DEF OrderKeys
<1> QED
  BY <1>1, <1>2

LEMMA StateTypes ==
    ASSUME NEW st \in WorkerState
    PROVE  /\ \A key \in OrderKeys : RecordExecutedStep(st, key) \in WorkerState
           /\ MarkStopLossPending(st) \in WorkerState
           /\ ClearStopLossPending(st) \in WorkerState
BY DEF WorkerState, RecordExecutedStep, MarkStopLossPending, ClearStopLossPending

LEMMA EmptyType == EmptyState \in WorkerState
BY DEF EmptyState, WorkerState

LEMMA IdleType == IdleRunner \in Runner
BY EmptyType, ZeroIsADay DEF IdleRunner, Runner, Exits

\* The fields of a runner may change one by one.
LEMMA RunnerTypes ==
    ASSUME NEW rec \in Runner
    PROVE  /\ NextTrigger(rec) \in Runner
           /\ NextTrigger(rec).state = rec.state
           /\ NextTrigger(rec).day = rec.day
           /\ NextTrigger(rec).exit = rec.exit
           /\ NextTrigger(rec).pc = "trigger" => NextTrigger(rec).todo # {}
           /\ NextTrigger(rec).pc = "exit" => rec.exit # "none"
           /\ NextTrigger(rec).pc \in {"trigger", "exit", "save"}
           /\ ExitUnsent(rec) \in Runner
           /\ ExitUnsent(rec).day = rec.day
           /\ ExitUnsent(rec).pc = "save"
           /\ ExitUnsent(rec).state \in {rec.state, MarkStopLossPending(rec.state)}
<1>1. rec.state \in WorkerState
  BY DEF Runner
<1>2. MarkStopLossPending(rec.state) \in WorkerState
  BY <1>1, StateTypes
<1>3. /\ NextTrigger(rec) \in Runner
      /\ NextTrigger(rec).state = rec.state
      /\ NextTrigger(rec).day = rec.day
      /\ NextTrigger(rec).exit = rec.exit
      /\ NextTrigger(rec).pc = "trigger" => NextTrigger(rec).todo # {}
      /\ NextTrigger(rec).pc = "exit" => rec.exit # "none"
  BY DEF NextTrigger, Runner, After
<1>5. NextTrigger(rec).pc \in {"trigger", "exit", "save"}
  BY DEF NextTrigger, Runner, After
<1>4. /\ ExitUnsent(rec) \in Runner
      /\ ExitUnsent(rec).day = rec.day
      /\ ExitUnsent(rec).pc = "save"
      /\ ExitUnsent(rec).state \in {rec.state, MarkStopLossPending(rec.state)}
  BY <1>1, <1>2 DEF ExitUnsent, Runner
<1> QED
  BY <1>3, <1>4, <1>5

-----------------------------------------------------------------------------
(* Orders only accumulate, and Place leaves its order at the broker. *)

LEMMA PlaceSends ==
    ASSUME NEW key \in OrderKeys, NEW d \in Days,
           orders \subseteq Order, OrdersOK(orders), Place(key, d)
    PROVE  /\ orders' \subseteq Order
           /\ OrdersOK(orders')
           /\ orders \subseteq orders'
           /\ Sent(orders', key, d)
           /\ \A o \in orders' \ orders : o.key = key /\ o.day = d
<1> DEFINE coid == <<key, d>>
           new == [coid |-> coid, key |-> key, day |-> d]
<1>1. CASE \E o \in orders : o.coid = coid
  <2>1. orders' = orders
    BY <1>1 DEF Place, ClientOrderId
  <2>2. PICK o \in orders : o.coid = coid
    BY <1>1
  <2>3. o.coid = <<o.key, o.day>>
    BY <2>2 DEF OrdersOK
  <2>4. o.key = key /\ o.day = d
    BY <2>2, <2>3
  <2> QED
    BY <2>1, <2>2, <2>4 DEF Sent
<1>2. CASE ~ \E o \in orders : o.coid = coid
  <2>1. orders' = orders \cup {new}
    BY <1>2 DEF Place, ClientOrderId
  <2>2. new.key = key /\ new.day = d /\ new.coid = coid
    OBVIOUS
  <2>3. new \in Order
    BY LimitAssumption DEF Order, ClientOrderIds, Days
  <2> QED
    BY <2>1, <2>2, <2>3 DEF Sent, OrdersOK
<1> QED
  BY <1>1, <1>2

LEMMA StateStays ==
    ASSUME NEW os, NEW ns, os \subseteq ns, NEW st, NEW d, StateOK(os, st, d)
    PROVE  StateOK(ns, st, d)
BY DEF StateOK, Sent

\* Recording a sent step, and setting or clearing the pending key, are safe.
LEMMA StateUpdates ==
    ASSUME NEW os, NEW st \in WorkerState, NEW d, StateOK(os, st, d)
    PROVE  /\ \A key : Sent(os, key, d) => StateOK(os, RecordExecutedStep(st, key), d)
           /\ StateOK(os, MarkStopLossPending(st), d)
           /\ StateOK(os, ClearStopLossPending(st), d)
BY DEF StateOK, RecordExecutedStep, MarkStopLossPending, ClearStopLossPending, WorkerState

LEMMA EmptyStateOK ==
    ASSUME NEW os, NEW d
    PROVE  StateOK(os, EmptyState, d)
BY DEF StateOK, EmptyState

LEMMA IdleRunnerOK ==
    ASSUME NEW os
    PROVE  RunnerOK(os, IdleRunner)
BY EmptyStateOK DEF RunnerOK, IdleRunner

\* A step that leaves the saved states alone, lets the orders grow and gives
\* one runner a sound record.
LEMMA RunnerStep ==
    ASSUME IInv, NEW r \in Runners, NEW rec \in Runner, Step(r, rec),
           day' = day, ladder' = ladder, store' = store, tracked' \subseteq ClientOrderIds,
           orders' \subseteq Order, OrdersOK(orders'), orders \subseteq orders',
           RunnerOK(orders', rec)
    PROVE  IInv'
<1>1. TypeOK'
  BY DEF IInv, TypeOK, Step
<1>2. \A d \in Days : StateOK(orders', store'[d], d)
  BY StateStays DEF IInv
<1>3. ASSUME NEW q \in Runners
      PROVE  RunnerOK(orders', runner'[q])
  <2>1. CASE q = r
    BY <2>1 DEF Step, IInv, TypeOK
  <2>2. CASE q # r
    <3>1. runner'[q] = runner[q]
      BY <2>2 DEF Step, IInv, TypeOK
    <3>2. RunnerOK(orders, runner[q])
      BY DEF IInv
    <3> QED
      BY <3>1, <3>2, StateStays DEF RunnerOK
  <2> QED
    BY <2>1, <2>2
<1> QED
  BY <1>1, <1>2, <1>3 DEF IInv

-----------------------------------------------------------------------------
(* Every step keeps the invariant. *)

LEMMA InitIInv == Init => IInv
<1> SUFFICES ASSUME Init PROVE IInv
  OBVIOUS
<1>1. TypeOK
  BY ZeroIsADay, IdleType, EmptyType DEF Init, TypeOK
<1>2. OrdersOK(orders)
  BY DEF Init, OrdersOK
<1>3. \A d \in Days : StateOK(orders, store[d], d)
  BY EmptyStateOK DEF Init
<1>4. \A r \in Runners : RunnerOK(orders, runner[r])
  BY IdleRunnerOK DEF Init
<1> QED
  BY <1>1, <1>2, <1>3, <1>4 DEF IInv

LEMMA StartStep ==
    ASSUME IInv, NEW r \in Runners, Start(r)
    PROVE  IInv'
<1>1. PICK price \in Prices, P \in SUBSET (1..Len(ladder)) :
        LET st == store[day]
            signal == ExitSignal(st, price)
            exit == IF ExitKey(signal) \in st.executed THEN "none" ELSE signal
            todo == {<<i, ladder[i].id>> : i \in P}
        IN  Step(r, [pc |-> After(todo, exit), day |-> day, state |-> st,
                     todo |-> todo, exit |-> exit, acked |-> {}])
  BY DEF Start
<1> DEFINE st == store[day]
           signal == ExitSignal(st, price)
           exit == IF ExitKey(signal) \in st.executed THEN "none" ELSE signal
           todo == {<<i, ladder[i].id>> : i \in P}
           rec == [pc |-> After(todo, exit), day |-> day, state |-> st,
                   todo |-> todo, exit |-> exit, acked |-> {}]
<1>2. Step(r, rec)
  BY <1>1
<1>3. st \in WorkerState /\ StateOK(orders, st, day) /\ day \in Days
  BY DEF IInv, TypeOK
<1>4. exit \in Exits
  BY DEF ExitSignal, Exits
<1>5. todo \in SUBSET (Nat \X StepIds)
  <2>1. ASSUME NEW i \in P PROVE ladder[i].id \in StepIds
    <3>1. ladder \in Ladders /\ i \in 1..Len(ladder)
      BY DEF IInv, TypeOK
    <3>2. ladder[i] \in Steps
      BY <3>1 DEF Steps
    <3> QED
      BY <3>2 DEF StepIds
  <2>2. Len(ladder) \in Nat
    BY LadderAssumption DEF IInv, TypeOK
  <2> QED
    BY <2>1, <2>2
<1> HIDE DEF exit, todo, st
<1>6. rec \in Runner
  BY <1>3, <1>4, <1>5 DEF Runner, After
<1>7. RunnerOK(orders, rec)
  BY <1>3 DEF RunnerOK, After
<1>8. /\ day' = day /\ ladder' = ladder /\ store' = store
      /\ orders' = orders /\ tracked' = tracked
  BY DEF Start
<1> HIDE DEF rec
<1> QED
  BY <1>2, <1>6, <1>7, <1>8, RunnerStep DEF IInv, TypeOK

\* The moves that only advance the tick's record.
LEMMA QuietSteps ==
    ASSUME IInv, NEW r \in Runners,
           TriggerNotSent(r) \/ ExitNotSent(r) \/ Abort(r)
    PROVE  IInv'
<1> DEFINE rec == runner[r]
<1>1. rec \in Runner /\ RunnerOK(orders, rec) /\ rec.state \in WorkerState
  BY DEF IInv, TypeOK, Runner
<1>2. /\ day' = day /\ ladder' = ladder /\ store' = store
      /\ orders' = orders /\ tracked' = tracked
  BY DEF TriggerNotSent, ExitNotSent, Abort
<1>3. ASSUME NEW new \in Runner, RunnerOK(orders, new), Step(r, new)
      PROVE  IInv'
  BY <1>2, <1>3, RunnerStep DEF IInv, TypeOK
<1>4. CASE TriggerNotSent(r)
  <2>1. RunnerOK(orders, NextTrigger(rec))
    BY <1>1, RunnerTypes DEF RunnerOK
  <2> QED
    BY <1>1, <1>3, <1>4, <2>1, RunnerTypes DEF TriggerNotSent
<1>5. CASE ExitNotSent(r)
  <2>1. RunnerOK(orders, ExitUnsent(rec))
    BY <1>1, RunnerTypes, StateUpdates DEF RunnerOK
  <2> QED
    BY <1>1, <1>3, <1>5, <2>1, RunnerTypes DEF ExitNotSent
<1>6. CASE Abort(r)
  BY <1>3, <1>6, IdleRunnerOK, IdleType DEF Abort
<1> QED
  BY <1>4, <1>5, <1>6

LEMMA TriggerSteps ==
    ASSUME IInv, NEW r \in Runners, TriggerAcked(r) \/ TriggerLost(r)
    PROVE  IInv'
<1> DEFINE rec == runner[r]
           key == NextOf(rec.todo)[2]
           coid == ClientOrderId(key, rec.day)
           next == NextTrigger(rec)
           ack == [next EXCEPT !.state = RecordExecutedStep(@, key), !.acked = @ \cup {coid}]
<1>1. rec \in Runner /\ RunnerOK(orders, rec) /\ rec.state \in WorkerState /\ rec.day \in Days
  BY DEF IInv, TypeOK, Runner
<1>2. /\ day' = day /\ ladder' = ladder /\ store' = store /\ tracked' = tracked
      /\ Place(key, rec.day) /\ rec.pc = "trigger"
  BY DEF TriggerAcked, TriggerLost
<1>3. key \in OrderKeys
  BY <1>1, <1>2, KeyTypes DEF Runner, RunnerOK
<1> HIDE DEF key
<1>4. /\ orders' \subseteq Order /\ OrdersOK(orders') /\ orders \subseteq orders'
      /\ Sent(orders', key, rec.day)
  BY <1>1, <1>2, <1>3, PlaceSends DEF IInv, TypeOK
<1>5. StateOK(orders', rec.state, rec.day)
  BY <1>1, <1>4, StateStays DEF RunnerOK
<1>6. next \in Runner /\ RunnerOK(orders', next)
  BY <1>1, <1>5, RunnerTypes DEF RunnerOK
<1>7. ASSUME NEW new \in Runner, RunnerOK(orders', new), Step(r, new)
      PROVE  IInv'
  BY <1>2, <1>4, <1>7, RunnerStep DEF IInv, TypeOK
<1>8. CASE TriggerAcked(r)
  <2>1. /\ StateOK(orders', RecordExecutedStep(rec.state, key), rec.day)
        /\ RecordExecutedStep(rec.state, key) \in WorkerState
    BY <1>1, <1>3, <1>4, <1>5, StateUpdates, StateTypes
  <2>2. coid \in ClientOrderIds
    BY <1>1, <1>3 DEF ClientOrderId, ClientOrderIds, Days
  <2>3. next.state = rec.state /\ next.day = rec.day
    BY <1>1, RunnerTypes
  <2> HIDE DEF next, coid
  <2>4. ack \in Runner
    BY <1>6, <2>1, <2>2, <2>3 DEF Runner
  <2>5. /\ ack.state = RecordExecutedStep(rec.state, key) /\ ack.day = rec.day
        /\ ack.pc = next.pc /\ ack.todo = next.todo /\ ack.exit = next.exit
    BY <1>6, <2>3 DEF Runner
  <2>6. RunnerOK(orders', ack)
    BY <1>6, <2>1, <2>5 DEF RunnerOK
  <2>7. Step(r, ack)
    BY <1>8 DEF TriggerAcked, next, coid, key
  <2> QED
    BY <1>7, <2>4, <2>6, <2>7
<1>9. CASE TriggerLost(r)
  BY <1>6, <1>7, <1>9 DEF TriggerLost
<1> QED
  BY <1>8, <1>9

LEMMA ExitSteps ==
    ASSUME IInv, NEW r \in Runners, ExitAcked(r) \/ ExitLost(r)
    PROVE  IInv'
<1> DEFINE rec == runner[r]
           key == ExitKey(rec.exit)
           coid == ClientOrderId(key, rec.day)
           done == ClearStopLossPending(RecordExecutedStep(rec.state, key))
           ack == [rec EXCEPT !.pc = "save",
                              !.state = ClearStopLossPending(RecordExecutedStep(@, key)),
                              !.acked = @ \cup {coid}]
<1>1. rec \in Runner /\ RunnerOK(orders, rec) /\ rec.state \in WorkerState /\ rec.day \in Days
  BY DEF IInv, TypeOK, Runner
<1>2. /\ day' = day /\ ladder' = ladder /\ store' = store /\ tracked' = tracked
      /\ Place(key, rec.day)
  BY DEF ExitAcked, ExitLost
<1>3. key \in OrderKeys
  BY KeyTypes
<1> HIDE DEF key
<1>4. /\ orders' \subseteq Order /\ OrdersOK(orders') /\ orders \subseteq orders'
      /\ Sent(orders', key, rec.day)
  BY <1>1, <1>2, <1>3, PlaceSends DEF IInv, TypeOK
<1>5. StateOK(orders', rec.state, rec.day)
  BY <1>1, <1>4, StateStays DEF RunnerOK
<1>6. ASSUME NEW new \in Runner, RunnerOK(orders', new), Step(r, new)
      PROVE  IInv'
  BY <1>2, <1>4, <1>6, RunnerStep DEF IInv, TypeOK
<1>7. CASE ExitAcked(r)
  <2>1. /\ StateOK(orders', RecordExecutedStep(rec.state, key), rec.day)
        /\ RecordExecutedStep(rec.state, key) \in WorkerState
    BY <1>1, <1>3, <1>4, <1>5, StateUpdates, StateTypes
  <2>2. StateOK(orders', done, rec.day) /\ done \in WorkerState
    BY <2>1, StateUpdates, StateTypes
  <2>3. coid \in ClientOrderIds
    BY <1>1, <1>3 DEF ClientOrderId, ClientOrderIds, Days
  <2> HIDE DEF coid
  <2>4. ack \in Runner /\ ack.state = done /\ ack.day = rec.day /\ ack.pc = "save"
    BY <1>1, <2>2, <2>3 DEF Runner
  <2>5. RunnerOK(orders', ack)
    BY <2>2, <2>4 DEF RunnerOK
  <2>6. Step(r, ack)
    BY <1>7 DEF ExitAcked, coid, key
  <2> QED
    BY <1>6, <2>4, <2>5, <2>6
<1>8. CASE ExitLost(r)
  <2>1. RunnerOK(orders', ExitUnsent(rec))
    BY <1>1, <1>5, RunnerTypes, StateUpdates DEF RunnerOK
  <2> QED
    BY <1>1, <1>6, <1>8, <2>1, RunnerTypes DEF ExitLost
<1> QED
  BY <1>7, <1>8

LEMMA SaveStep ==
    ASSUME IInv, NEW r \in Runners, Save(r)
    PROVE  IInv'
<1> DEFINE rec == runner[r]
           next == IF rec.acked = {} THEN IdleRunner ELSE [rec EXCEPT !.pc = "record"]
<1>1. rec \in Runner /\ RunnerOK(orders, rec) /\ rec.state \in WorkerState /\ rec.day \in Days
  BY DEF IInv, TypeOK, Runner
<1>2. next \in Runner /\ RunnerOK(orders, next)
  BY <1>1, IdleRunnerOK, IdleType DEF RunnerOK, Runner
<1>3. /\ day' = day /\ ladder' = ladder /\ orders' = orders /\ tracked' = tracked
      /\ Step(r, next)
      /\ store' = SavedState(rec.day, rec.state)
  BY DEF Save
<1> HIDE DEF next
<1>4. store' \in [Days -> WorkerState] /\ \A d \in Days : StateOK(orders, store'[d], d)
  BY <1>1, <1>3, EmptyStateOK, EmptyType DEF SavedState, IInv, TypeOK, RunnerOK
<1>5. runner' \in [Runners -> Runner] /\ \A q \in Runners : RunnerOK(orders, runner'[q])
  BY <1>2, <1>3 DEF Step, IInv, TypeOK
<1> QED
  BY <1>3, <1>4, <1>5 DEF IInv, TypeOK

LEMMA RecordStep ==
    ASSUME IInv, NEW r \in Runners, RecordSubmitted(r)
    PROVE  IInv'
<1> DEFINE rec == runner[r]
<1>1. rec \in Runner /\ RunnerOK(orders, rec)
  BY DEF IInv, TypeOK
<1>2. PICK coid \in rec.acked :
        /\ tracked' = tracked \cup {coid}
        /\ Step(r, IF rec.acked = {coid} THEN IdleRunner
                   ELSE [rec EXCEPT !.acked = @ \ {coid}])
  BY DEF RecordSubmitted
<1> DEFINE less == [rec EXCEPT !.acked = @ \ {coid}]
<1>3. less \in Runner /\ RunnerOK(orders, less)
  BY <1>1 DEF RunnerOK, Runner
<1>4. tracked' \subseteq ClientOrderIds
  BY <1>1, <1>2 DEF IInv, TypeOK, Runner
<1>5. /\ day' = day /\ ladder' = ladder /\ store' = store /\ orders' = orders
  BY DEF RecordSubmitted
<1>6. CASE rec.acked = {coid}
  BY <1>2, <1>4, <1>5, <1>6, IdleRunnerOK, IdleType, RunnerStep DEF IInv, TypeOK
<1>7. CASE rec.acked # {coid}
  BY <1>2, <1>3, <1>4, <1>5, <1>7, RunnerStep DEF IInv, TypeOK
<1> QED
  BY <1>6, <1>7

LEMMA Inductive == IInv /\ [Next]_vars => IInv'
<1> SUFFICES ASSUME IInv, [Next]_vars PROVE IInv'
  OBVIOUS
<1>1. ASSUME NEW r \in Runners, Tick(r) PROVE IInv'
  BY <1>1, StartStep, QuietSteps, TriggerSteps, ExitSteps, SaveStep, RecordStep DEF Tick
<1>2. ASSUME NEW r \in Runners, Abort(r) PROVE IInv'
  BY <1>2, QuietSteps
<1>3. CASE EditLadder
  BY <1>3 DEF EditLadder, IInv, TypeOK
<1>4. CASE NextDay
  <2>1. day' \in Days
    BY <1>4, LimitAssumption DEF NextDay, IInv, TypeOK, Days
  <2> QED
    BY <1>4, <2>1 DEF NextDay, IInv, TypeOK
<1>5. CASE UNCHANGED vars
  BY <1>5 DEF vars, IInv, TypeOK
<1> QED
  BY <1>1, <1>2, <1>3, <1>4, <1>5 DEF Next

LEMMA InvariantHolds == Spec => []IInv
BY InitIInv, Inductive, PTL DEF Spec

-----------------------------------------------------------------------------
(* The theorems. *)

\* Every reachable state is well-typed, whatever runners interleave: no
\* operation of the tick leaves the domain the code declares.
THEOREM TypesHold == Spec => []TypeOK
<1>1. IInv => TypeOK
  BY DEF IInv
<1> QED
  BY <1>1, InvariantHolds, PTL

\* However many executions overlap, crash or lose an answer, a step or an exit
\* of a trading day is at most one order at the broker (submitTrigger and
\* submitExitOrder derive the clientOrderId from step and day alone).
THEOREM StepsOrderOnce == Spec => []OneOrderPerStep
<1>1. IInv => OneOrderPerStep
  <2> SUFFICES ASSUME IInv, NEW o \in orders, NEW p \in orders,
                      o.key = p.key, o.day = p.day
               PROVE  o = p
    BY DEF OneOrderPerStep
  <2>1. o.coid = p.coid
    BY DEF IInv, OrdersOK
  <2>2. o \in Order /\ p \in Order
    BY DEF IInv, TypeOK
  <2> QED
    BY <2>1, <2>2 DEF Order
<1> QED
  BY <1>1, InvariantHolds, PTL

\* The saved worker state never claims a step the broker does not have, even
\* when two executions overwrite each other's state: what a tick claims, it
\* sent or read (runAutomationWorkerTick records a "submitted" outcome only).
THEOREM ClaimsAreOrders == Spec => []ExecutedStepsWereSent
<1>1. IInv => ExecutedStepsWereSent
  BY DEF IInv, StateOK, Sent, ExecutedStepsWereSent
<1> QED
  BY <1>1, InvariantHolds, PTL

-----------------------------------------------------------------------------
(* The daily buys.  A saved count is right because a tick's own count is,  *)
(* and that one stays within the limit because of how the evaluation picks *)
(* a buy: with room for every buy picked before it.                        *)

Counted(st) ==
    /\ IsFiniteSet(BuysIn(st.executed))
    /\ st.buys = Cardinality(BuysIn(st.executed))
    /\ st.buys <= MaxDailyBuys

BuysBefore(todo, t) == {u \in todo : u[1] < t[1] /\ Side(u[2]) = "buy"}

\* Every trigger still to send is new, and leaves room for the buys before it.
PlanOK(rec) ==
    /\ IsFiniteSet(rec.todo)
    /\ \A t, u \in rec.todo : t[1] = u[1] \/ t[2] = u[2] => t = u
    /\ \A t \in rec.todo : t[2] \notin rec.state.executed
    /\ \A t \in rec.todo : Side(t[2]) = "buy" =>
          rec.state.buys + Cardinality(BuysBefore(rec.todo, t)) < MaxDailyBuys

CountOK(rec) == Counted(rec.state) /\ PlanOK(rec)

CountInv ==
    /\ \A d \in Days : Counted(store[d])
    /\ \A r \in Runners : CountOK(runner[r])

LEMMA ReservedKeysAreNoBuys ==
    \A key \in ExitKeys \cup {PendingKey} : Side(key) = "sell"
<1> SUFFICES ASSUME NEW key \in ExitKeys \cup {PendingKey},
                    NEW s \in Steps, s.id = key
             PROVE  FALSE
  BY DEF Side
<1>1. key \in StepIds
  BY DEF StepIds
<1> QED
  BY <1>1, LadderAssumption

LEMMA SideOfPosition ==
    ASSUME NEW l \in Ladders, NEW i \in 1..Len(l)
    PROVE  (Side(l[i].id) = "buy") <=> (l[i].side = "buy")
<1>1. l[i] \in Steps
  BY DEF Steps
<1>2. \A s, t \in Steps : s.id = t.id => s.side = t.side
  BY LadderAssumption
<1> QED
  BY <1>1, <1>2 DEF Side

LEMMA EmptyCounted == Counted(EmptyState)
<1>1. BuysIn({}) = {}
  BY DEF BuysIn
<1> QED
  BY <1>1, FS_EmptySet, LimitAssumption DEF Counted, EmptyState

LEMMA CountUpdates ==
    ASSUME NEW st \in WorkerState, Counted(st)
    PROVE  /\ Counted(MarkStopLossPending(st))
           /\ Counted(ClearStopLossPending(st))
           /\ \A key \in OrderKeys :
                 /\ Side(key) = "buy" => key \notin st.executed /\ st.buys < MaxDailyBuys
                 => Counted(RecordExecutedStep(st, key))
<1>1. Side(PendingKey) = "sell"
  BY ReservedKeysAreNoBuys
<1>2. MarkStopLossPending(st) \in WorkerState /\ ClearStopLossPending(st) \in WorkerState
  BY StateTypes
<1>3. /\ MarkStopLossPending(st).executed = st.executed \cup {PendingKey}
      /\ MarkStopLossPending(st).buys = st.buys
      /\ ClearStopLossPending(st).executed = st.executed \ {PendingKey}
      /\ ClearStopLossPending(st).buys = st.buys
  BY DEF MarkStopLossPending, ClearStopLossPending, WorkerState
<1>4. /\ BuysIn(st.executed \cup {PendingKey}) = BuysIn(st.executed)
      /\ BuysIn(st.executed \ {PendingKey}) = BuysIn(st.executed)
  BY <1>1 DEF BuysIn
<1>5. ASSUME NEW key \in OrderKeys,
             Side(key) = "buy" => key \notin st.executed /\ st.buys < MaxDailyBuys
      PROVE  Counted(RecordExecutedStep(st, key))
  <2> DEFINE new == RecordExecutedStep(st, key)
  <2>1. /\ new.executed = st.executed \cup {key}
        /\ new.buys = IF Side(key) = "buy" THEN st.buys + 1 ELSE st.buys
    BY DEF RecordExecutedStep
  <2>2. st.buys \in Nat /\ MaxDailyBuys \in Nat
    BY LimitAssumption DEF WorkerState
  <2> HIDE DEF new
  <2>3. CASE Side(key) = "buy"
    <3>1. BuysIn(new.executed) = BuysIn(st.executed) \cup {key} /\ key \notin BuysIn(st.executed)
      BY <1>5, <2>1, <2>3 DEF BuysIn
    <3>2. /\ IsFiniteSet(BuysIn(new.executed))
          /\ Cardinality(BuysIn(new.executed)) = Cardinality(BuysIn(st.executed)) + 1
      BY <3>1, FS_AddElement DEF Counted
    <3> QED
      BY <1>5, <2>1, <2>2, <2>3, <3>2 DEF Counted, new
  <2>4. CASE Side(key) # "buy"
    <3>1. BuysIn(new.executed) = BuysIn(st.executed)
      BY <2>1, <2>4 DEF BuysIn
    <3> QED
      BY <2>1, <2>4, <3>1 DEF Counted, new
  <2> QED
    BY <2>3, <2>4
<1> QED
  BY <1>3, <1>4, <1>5 DEF Counted

\* Dropping the first trigger keeps the plan; so does recording it.
LEMMA PlanUpdates ==
    ASSUME NEW rec \in Runner, rec.todo # {}, CountOK(rec)
    PROVE  LET first == NextOf(rec.todo)
               rest == rec.todo \ {first}
               st == RecordExecutedStep(rec.state, first[2])
           IN  /\ \A new \in Runner : new.todo = rest /\ new.state = rec.state => CountOK(new)
               /\ \A new \in Runner : new.todo = rest /\ new.state = st => CountOK(new)
<1> DEFINE todo == rec.todo
           first == NextOf(todo)
           rest == todo \ {first}
           st == RecordExecutedStep(rec.state, first[2])
<1>1. /\ todo \in SUBSET (Nat \X StepIds)
      /\ rec.state \in WorkerState /\ rec.state.buys \in Nat /\ MaxDailyBuys \in Nat
  BY LimitAssumption DEF Runner, WorkerState
<1>2. first \in todo /\ \A u \in todo : first[1] <= u[1]
  BY <1>1, NextOfIsFirst
<1> HIDE DEF first
<1>3. /\ st.executed = rec.state.executed \cup {first[2]}
      /\ st.buys = IF Side(first[2]) = "buy" THEN rec.state.buys + 1 ELSE rec.state.buys
  BY DEF RecordExecutedStep
<1> HIDE DEF st
<1>4. IsFiniteSet(todo) /\ IsFiniteSet(rest)
  BY FS_RemoveElement DEF CountOK, PlanOK
<1>5. \A t \in rest : first[1] < t[1] /\ first[2] # t[2]
  <2> TAKE t \in rest
  <2>1. first[1] # t[1] /\ first[2] # t[2]
    BY <1>2 DEF CountOK, PlanOK
  <2>2. first[1] \in Nat /\ t[1] \in Nat
    BY <1>1, <1>2
  <2> QED
    BY <1>2, <2>1, <2>2
<1>6. ASSUME NEW t \in rest
      PROVE  /\ IsFiniteSet(BuysBefore(todo, t)) /\ Cardinality(BuysBefore(todo, t)) \in Nat
             /\ Cardinality(BuysBefore(rest, t)) \in Nat
             /\ Cardinality(BuysBefore(rest, t)) =
                   IF Side(first[2]) = "buy" THEN Cardinality(BuysBefore(todo, t)) - 1
                   ELSE Cardinality(BuysBefore(todo, t))
  <2>1. BuysBefore(rest, t) = BuysBefore(todo, t) \ {first}
    BY DEF BuysBefore
  <2>2. (first \in BuysBefore(todo, t)) <=> (Side(first[2]) = "buy")
    BY <1>2, <1>5 DEF BuysBefore
  <2>3. IsFiniteSet(BuysBefore(todo, t))
    BY <1>4, FS_Subset DEF BuysBefore
  <2> DEFINE B == BuysBefore(todo, t)
  <2>4. /\ IsFiniteSet(B \ {first})
        /\ Cardinality(B \ {first}) = IF first \in B THEN Cardinality(B) - 1 ELSE Cardinality(B)
    <3> HIDE DEF B
    <3> QED
      BY <2>3, FS_RemoveElement DEF B
  <2>5. Cardinality(B) \in Nat /\ Cardinality(B \ {first}) \in Nat
    BY <2>3, <2>4, FS_CardinalityType
  <2> QED
    BY <2>1, <2>2, <2>3, <2>4, <2>5
<1>7. ASSUME NEW t \in rest, Side(t[2]) = "buy"
      PROVE  /\ rec.state.buys + Cardinality(BuysBefore(rest, t)) < MaxDailyBuys
             /\ st.buys + Cardinality(BuysBefore(rest, t)) < MaxDailyBuys
  <2> DEFINE b == rec.state.buys
             c == Cardinality(BuysBefore(todo, t))
             d == Cardinality(BuysBefore(rest, t))
  <2>1. b + c < MaxDailyBuys
    BY <1>7 DEF CountOK, PlanOK
  <2>2. b \in Nat /\ c \in Nat /\ d \in Nat /\ MaxDailyBuys \in Nat
    BY <1>1, <1>6
  <2>3. CASE Side(first[2]) = "buy"
    <3>1. st.buys = b + 1 /\ d = c - 1
      BY <1>3, <1>6, <2>3
    <3> HIDE DEF b, c, d
    <3>2. b + d < MaxDailyBuys /\ (b + 1) + d < MaxDailyBuys
      BY <2>1, <2>2, <3>1
    <3> QED
      BY <3>1, <3>2 DEF b, d
  <2>4. CASE Side(first[2]) # "buy"
    <3>1. st.buys = b /\ d = c
      BY <1>3, <1>6, <2>4
    <3> QED
      BY <2>1, <3>1
  <2> QED
    BY <2>3, <2>4
<1>8. ASSUME NEW new \in Runner, new.todo = rest, new.state = rec.state
      PROVE  CountOK(new)
  BY <1>4, <1>7, <1>8 DEF CountOK, PlanOK
<1>9. Counted(st)
  <2>1. first[2] \in OrderKeys /\ first[2] \notin rec.state.executed
    BY <1>1, <1>2 DEF OrderKeys, CountOK, PlanOK
  <2>2. ASSUME Side(first[2]) = "buy" PROVE rec.state.buys < MaxDailyBuys
    <3>1. rec.state.buys + Cardinality(BuysBefore(todo, first)) < MaxDailyBuys
      BY <1>2, <2>2 DEF CountOK, PlanOK
    <3>2. Cardinality(BuysBefore(todo, first)) \in Nat
      <4>1. IsFiniteSet(BuysBefore(todo, first))
        BY <1>4, FS_Subset DEF BuysBefore
      <4> QED
        BY <4>1, FS_CardinalityType
    <3> QED
      BY <1>1, <3>1, <3>2
  <2> QED
    BY <1>1, <2>1, <2>2, CountUpdates DEF CountOK, st
<1>10. ASSUME NEW new \in Runner, new.todo = rest, new.state = st
       PROVE  CountOK(new)
  BY <1>3, <1>4, <1>5, <1>7, <1>9, <1>10 DEF CountOK, PlanOK
<1> QED
  BY <1>8, <1>10 DEF first, st

\* What the evaluation picks is a plan: with the bijection from the positions
\* picked to the triggers, its count of earlier buys is the plan's.
LEMMA EvaluationPlans ==
    ASSUME NEW st \in WorkerState, NEW price, ladder \in Ladders,
           NEW P \in SUBSET (1..Len(ladder)), Triggers(P, st, price),
           NEW rec \in Runner, rec.state = st,
           rec.todo = {<<i, ladder[i].id>> : i \in P}
    PROVE  PlanOK(rec)
<1> DEFINE todo == rec.todo
           Pair(i) == <<i, ladder[i].id>>
<1>1. Len(ladder) \in Nat
  BY LadderAssumption
<1>2. IsFiniteSet(P) /\ P \subseteq Nat
  <2>1. IsFiniteSet(1..Len(ladder))
    BY <1>1, FS_Interval
  <2>2. P \subseteq Nat
    BY <1>1
  <2> QED
    BY <2>1, <2>2, FS_Subset
<1>3. \A i, j \in P : ladder[i].id = ladder[j].id => i = j
  BY SimulationAssumption
<1>4. \A Q \in SUBSET P : /\ IsFiniteSet({Pair(i) : i \in Q})
                           /\ Cardinality({Pair(i) : i \in Q}) = Cardinality(Q)
  <2> TAKE Q \in SUBSET P
  <2> DEFINE T == {Pair(i) : i \in Q}
             f == [i \in Q |-> Pair(i)]
  <2>1. IsFiniteSet(Q)
    BY <1>2, FS_Subset
  <2>2. f \in [Q -> T] /\ \A t \in T : \E i \in Q : f[i] = t
    OBVIOUS
  <2>3. \A i, j \in Q : f[i] = f[j] => i = j
    OBVIOUS
  <2> HIDE DEF f, T
  <2>4. f \in Bijection(Q, T)
    BY <2>2, <2>3 DEF Bijection, Injection, Surjection, IsInjective
  <2> QED
    BY <2>1, <2>4, FS_Bijection DEF ExistsBijection, T
<1>5. \A t, u \in todo : t[1] = u[1] \/ t[2] = u[2] => t = u
  <2> SUFFICES ASSUME NEW i \in P, NEW j \in P,
                      Pair(i)[1] = Pair(j)[1] \/ Pair(i)[2] = Pair(j)[2]
               PROVE  Pair(i) = Pair(j)
    OBVIOUS
  <2> QED
    BY <1>3
<1>6. CASE ExitSignal(st, price) = "stop-loss"
  <2>1. todo = {}
    BY <1>6 DEF Triggers
  <2> QED
    BY <2>1, FS_EmptySet DEF PlanOK
<1>7. CASE ExitSignal(st, price) # "stop-loss"
  <2>1. Evaluated(P, st, price)
    BY <1>7 DEF Triggers
  <2>2. \A t \in todo : t[2] \notin rec.state.executed
    <3>1. \A i \in P : ladder[i].id \notin st.executed
      BY <2>1 DEF Evaluated
    <3> QED
      BY <3>1
  <2>3. ASSUME NEW t \in todo, Side(t[2]) = "buy"
        PROVE  rec.state.buys + Cardinality(BuysBefore(todo, t)) < MaxDailyBuys
    <3>1. PICK i \in P : t = Pair(i)
      OBVIOUS
    <3> DEFINE before == {j \in P : j < i}
               B == BuysAmong(before)
    <3>2. ladder[i].side = "buy" /\ i \in 1..Len(ladder)
      BY <2>3, <3>1, SideOfPosition
    <3>3. st.buys + Cardinality(B) < MaxDailyBuys
      <4>1. WithinLimits(ladder[i], before, st, price)
        BY <2>1, <3>2 DEF Evaluated
      <4> QED
        BY <3>2, <4>1 DEF WithinLimits
    <3>4. BuysBefore(todo, t) = {Pair(j) : j \in B}
      <4>1. \A j \in P : (Side(ladder[j].id) = "buy") <=> (ladder[j].side = "buy")
        BY SideOfPosition
      <4>2. \A j \in P : Pair(j)[1] = j /\ Pair(j)[2] = ladder[j].id
        OBVIOUS
      <4> HIDE DEF Pair
      <4> QED
        BY <3>1, <4>1, <4>2 DEF BuysBefore, BuysAmong, Pair
    <3>5. B \in SUBSET P
      BY DEF BuysAmong
    <3>6. Cardinality(BuysBefore(todo, t)) = Cardinality(B)
      BY <1>4, <3>4, <3>5
    <3> QED
      BY <3>3, <3>6
  <2>4. IsFiniteSet(todo)
    BY <1>4
  <2> QED
    BY <1>5, <2>2, <2>3, <2>4 DEF PlanOK
<1> QED
  BY <1>6, <1>7

\* A step of one runner that saves nothing.
LEMMA CountRunnerStep ==
    ASSUME IInv, CountInv, NEW r \in Runners, NEW rec, Step(r, rec), store' = store,
           CountOK(rec)
    PROVE  CountInv'
BY DEF CountInv, IInv, TypeOK, Step

LEMMA IdleCountOK == CountOK(IdleRunner)
<1>1. IdleRunner.todo = {} /\ IdleRunner.state = EmptyState
  BY DEF IdleRunner
<1> QED
  BY <1>1, EmptyCounted, FS_EmptySet DEF CountOK, PlanOK

\* A record with the same todo keeps the plan whatever exit it has executed.
LEMMA ExitCounts ==
    ASSUME NEW rec \in Runner, CountOK(rec), NEW new \in Runner,
           new.todo = rec.todo,
           LET done == RecordExecutedStep(rec.state, ExitKey(rec.exit))
           IN  new.state \in {rec.state, MarkStopLossPending(rec.state),
                              ClearStopLossPending(done)}
    PROVE  CountOK(new)
<1> DEFINE key == ExitKey(rec.exit)
           done == RecordExecutedStep(rec.state, key)
<1>1. Side(key) = "sell" /\ key \in OrderKeys
  BY ReservedKeysAreNoBuys, KeyTypes DEF ExitKey, ExitKeys
<1>2. rec.state \in WorkerState /\ Counted(rec.state)
  BY DEF Runner, CountOK
<1>3. done \in WorkerState /\ Counted(done)
  BY <1>1, <1>2, CountUpdates, StateTypes
<1>4. Counted(new.state)
  BY <1>2, <1>3, CountUpdates
<1>5. new.state.buys = rec.state.buys
  BY <1>1, <1>2, <1>3 DEF RecordExecutedStep, MarkStopLossPending, ClearStopLossPending, WorkerState
<1>6. new.state.executed \subseteq rec.state.executed \cup {key, PendingKey}
  BY <1>2, <1>3 DEF RecordExecutedStep, MarkStopLossPending, ClearStopLossPending, WorkerState
<1>7. \A t \in rec.todo : t[2] \notin {key, PendingKey}
  BY LadderAssumption DEF Runner, ExitKey, ExitKeys
<1> QED
  BY <1>4, <1>5, <1>6, <1>7 DEF CountOK, PlanOK

LEMMA CountTick ==
    ASSUME IInv, IInv', CountInv, NEW r \in Runners, Tick(r) \/ Abort(r)
    PROVE  CountInv'
<1> DEFINE rec == runner[r]
           new == runner'[r]
<1>1. rec \in Runner /\ CountOK(rec) /\ new \in Runner
  BY DEF IInv, TypeOK, CountInv
<1>2. rec.state \in WorkerState /\ store[day] \in WorkerState
  BY <1>1 DEF Runner, IInv, TypeOK
<1>3. ASSUME CountOK(new), Step(r, new), store' = store PROVE CountInv'
  BY <1>3, CountRunnerStep
<1>4. \A x : Step(r, x) => Step(r, new) /\ new = x
  BY DEF Step, IInv, TypeOK
<1>5. CASE Start(r)
  <2>1. PICK price \in Prices, P \in SUBSET (1..Len(ladder)) :
          /\ Triggers(P, store[day], price)
          /\ new.state = store[day]
          /\ new.todo = {<<i, ladder[i].id>> : i \in P}
          /\ Step(r, new)
    BY <1>4, <1>5 DEF Start
  <2>2. Counted(new.state)
    BY <2>1 DEF CountInv, IInv, TypeOK
  <2>3. PlanOK(new)
    BY <1>1, <1>2, <2>1, EvaluationPlans DEF IInv, TypeOK
  <2> QED
    BY <1>3, <1>5, <2>1, <2>2, <2>3 DEF Start, CountOK
<1>6. CASE TriggerNotSent(r) \/ TriggerLost(r) \/ TriggerAcked(r)
  <2> DEFINE first == NextOf(rec.todo)
             next == NextTrigger(rec)
  <2>1. rec.todo # {} /\ store' = store
    BY <1>6 DEF TriggerNotSent, TriggerLost, TriggerAcked, IInv, RunnerOK
  <2>2. next \in Runner /\ next.state = rec.state /\ next.todo = rec.todo \ {first}
    BY <1>1, RunnerTypes DEF NextTrigger, Runner
  <2>3. /\ Step(r, new) /\ new.todo = next.todo
        /\ new.state \in {rec.state, RecordExecutedStep(rec.state, first[2])}
    <3>1. CASE TriggerAcked(r)
      <4> DEFINE ack == [next EXCEPT !.state = RecordExecutedStep(@, first[2]),
                                     !.acked = @ \cup {ClientOrderId(first[2], rec.day)}]
      <4>1. Step(r, ack)
        BY <3>1 DEF TriggerAcked
      <4> HIDE DEF next, first
      <4>2. ack.todo = next.todo /\ ack.state = RecordExecutedStep(rec.state, first[2])
        BY <2>2 DEF Runner
      <4> HIDE DEF ack
      <4> QED
        BY <1>4, <4>1, <4>2
    <3>2. CASE TriggerNotSent(r) \/ TriggerLost(r)
      <4>1. Step(r, next)
        BY <3>2 DEF TriggerNotSent, TriggerLost
      <4> HIDE DEF next
      <4> QED
        BY <1>4, <2>2, <4>1
    <3> QED
      BY <1>6, <3>1, <3>2
  <2>4. CountOK(new)
    BY <1>1, <2>1, <2>2, <2>3, PlanUpdates
  <2> QED
    BY <1>3, <2>1, <2>3, <2>4
<1>7. CASE ExitNotSent(r) \/ ExitLost(r) \/ ExitAcked(r)
  <2> DEFINE key == ExitKey(rec.exit)
             done == ClearStopLossPending(RecordExecutedStep(rec.state, key))
             unsent == ExitUnsent(rec)
  <2>1. /\ Step(r, new) /\ new.todo = rec.todo
        /\ new.state \in {rec.state, MarkStopLossPending(rec.state), done}
    <3>1. CASE ExitAcked(r)
      <4> DEFINE ack == [rec EXCEPT !.pc = "save",
                             !.state = ClearStopLossPending(RecordExecutedStep(@, key)),
                             !.acked = @ \cup {ClientOrderId(key, rec.day)}]
      <4>1. Step(r, ack)
        BY <3>1 DEF ExitAcked
      <4>2. ack.todo = rec.todo /\ ack.state = done
        BY <1>1 DEF Runner
      <4> HIDE DEF ack, done
      <4> QED
        BY <1>4, <4>1, <4>2
    <3>2. CASE ExitNotSent(r) \/ ExitLost(r)
      <4>1. Step(r, unsent)
        BY <3>2 DEF ExitNotSent, ExitLost
      <4>2. unsent.todo = rec.todo /\ unsent.state \in {rec.state, MarkStopLossPending(rec.state)}
        BY <1>1, RunnerTypes DEF ExitUnsent, Runner
      <4> HIDE DEF unsent
      <4> QED
        BY <1>4, <4>1, <4>2
    <3> QED
      BY <1>7, <3>1, <3>2
  <2>2. CountOK(new)
    BY <1>1, <2>1, ExitCounts
  <2> QED
    BY <1>3, <1>7, <2>1, <2>2 DEF ExitNotSent, ExitLost, ExitAcked
<1>8. CASE Save(r)
  <2>1. /\ Step(r, IF rec.acked = {} THEN IdleRunner ELSE [rec EXCEPT !.pc = "record"])
        /\ store' = SavedState(rec.day, rec.state)
    BY <1>8 DEF Save
  <2> DEFINE recording == [rec EXCEPT !.pc = "record"]
  <2>2. recording.todo = rec.todo /\ recording.state = rec.state
    BY <1>1 DEF Runner
  <2>3. CountOK(recording)
    BY <1>1, <2>2 DEF CountOK, PlanOK
  <2>4. CountOK(new)
    BY <1>4, <2>1, <2>3, IdleCountOK
  <2>5. \A d \in Days : Counted(store'[d])
    BY <1>1, <2>1, EmptyCounted DEF SavedState, CountInv, CountOK, IInv, TypeOK
  <2> QED
    BY <2>1, <2>4, <2>5 DEF CountInv, Step, IInv, TypeOK
<1>9. CASE RecordSubmitted(r)
  <2>1. PICK coid \in rec.acked :
          Step(r, IF rec.acked = {coid} THEN IdleRunner ELSE [rec EXCEPT !.acked = @ \ {coid}])
    BY <1>9 DEF RecordSubmitted
  <2> DEFINE less == [rec EXCEPT !.acked = @ \ {coid}]
  <2>2. less.todo = rec.todo /\ less.state = rec.state
    BY <1>1 DEF Runner
  <2>3. CountOK(less)
    BY <1>1, <2>2 DEF CountOK, PlanOK
  <2>4. CountOK(new) /\ Step(r, new)
    BY <1>4, <2>1, <2>3, IdleCountOK
  <2> QED
    BY <1>3, <1>9, <2>4 DEF RecordSubmitted
<1>10. CASE Abort(r)
  BY <1>3, <1>4, <1>10, IdleCountOK DEF Abort
<1> QED
  BY <1>5, <1>6, <1>7, <1>8, <1>9, <1>10 DEF Tick

LEMMA CountInductive == IInv /\ IInv' /\ CountInv /\ [Next]_vars => CountInv'
<1> SUFFICES ASSUME IInv, IInv', CountInv, [Next]_vars PROVE CountInv'
  OBVIOUS
<1>1. CASE \E r \in Runners : Tick(r) \/ Abort(r)
  BY <1>1, CountTick
<1>2. CASE EditLadder \/ NextDay \/ UNCHANGED vars
  BY <1>2 DEF EditLadder, NextDay, vars, CountInv
<1> QED
  BY <1>1, <1>2 DEF Next

\* The buys a saved state counts are its executed buy steps and never exceed
\* maxDailyBuys, although two ticks may evaluate the same state, the ladder may
\* change between ticks and the last tick to save wins: each tick evaluates and
\* records against its own copy (evaluateLadderTriggers, recordExecutedStep).
THEOREM BuysStayCounted == Spec => []DailyBuysCounted
<1>1. Init => CountInv
  BY EmptyCounted, IdleCountOK DEF Init, CountInv
<1>2. CountInv => DailyBuysCounted
  BY DEF CountInv, Counted, DailyBuysCounted
<1> QED
  BY <1>1, <1>2, CountInductive, InvariantHolds, PTL DEF Spec

-----------------------------------------------------------------------------
(* A pending stop-loss, where one runner alone drives the strategy.        *)

\* A tick that has triggers to send set out from a state without the key, and
\* nobody saves one while it sends.
NoPendingWhileSending ==
    \A r \in Runners :
        runner[r].pc = "trigger" => PendingKey \notin store[runner[r].day].executed

LEMMA SendingInductive ==
    ASSUME \A r, q \in Runners : r = q
    PROVE  IInv /\ NoPendingWhileSending /\ [Next]_vars => NoPendingWhileSending'
<1> SUFFICES ASSUME IInv, NoPendingWhileSending, [Next]_vars,
                    NEW r \in Runners, runner'[r].pc = "trigger"
             PROVE  PendingKey \notin store'[runner'[r].day].executed
  BY DEF NoPendingWhileSending
<1> DEFINE rec == runner[r]
           new == runner'[r]
<1>1. rec \in Runner
  BY DEF IInv, TypeOK
<1>2. \A x : Step(r, x) => new = x
  BY DEF Step, IInv, TypeOK
<1>3. ASSUME store' = store, new.day = rec.day, rec.pc = "trigger"
      PROVE  PendingKey \notin store'[new.day].executed
  BY <1>3 DEF NoPendingWhileSending
<1>4. CASE Start(r)
  <2>1. PICK price \in Prices, P \in SUBSET (1..Len(ladder)) :
          LET st == store[day]
              signal == ExitSignal(st, price)
              exit == IF ExitKey(signal) \in st.executed THEN "none" ELSE signal
              todo == {<<i, ladder[i].id>> : i \in P}
          IN  /\ Triggers(P, st, price)
              /\ Step(r, [pc |-> After(todo, exit), day |-> day, state |-> st,
                          todo |-> todo, exit |-> exit, acked |-> {}])
    BY <1>4 DEF Start
  <2>2. new.day = day /\ P # {}
    BY <1>2, <2>1 DEF After
  <2>3. ExitSignal(store[day], price) # "stop-loss"
    BY <2>1, <2>2 DEF Triggers
  <2> QED
    BY <1>4, <2>2, <2>3 DEF Start, ExitSignal
<1>5. CASE TriggerNotSent(r) \/ TriggerLost(r)
  <2>1. Step(r, NextTrigger(rec)) /\ store' = store /\ rec.pc = "trigger"
    BY <1>5 DEF TriggerNotSent, TriggerLost
  <2> QED
    BY <1>1, <1>2, <1>3, <2>1, RunnerTypes
<1>6. CASE TriggerAcked(r)
  <2> DEFINE next == NextTrigger(rec)
             key == NextOf(rec.todo)[2]
             ack == [next EXCEPT !.state = RecordExecutedStep(@, key),
                                 !.acked = @ \cup {ClientOrderId(key, rec.day)}]
  <2>1. Step(r, ack) /\ store' = store /\ rec.pc = "trigger"
    BY <1>6 DEF TriggerAcked
  <2>2. next \in Runner /\ next.day = rec.day
    BY <1>1, RunnerTypes
  <2> HIDE DEF next, key
  <2>3. ack.day = rec.day
    BY <2>2 DEF Runner
  <2> HIDE DEF ack
  <2> QED
    BY <1>2, <1>3, <2>1, <2>3
<1>7. CASE ExitNotSent(r) \/ ExitLost(r) \/ ExitAcked(r)
  <2>1. new.pc = "save"
    BY <1>1, <1>2, <1>7, RunnerTypes DEF ExitNotSent, ExitLost, ExitAcked, Runner
  <2> QED
    BY <2>1
<1>8. CASE Save(r) \/ RecordSubmitted(r) \/ Abort(r)
  <2>1. IdleRunner.pc = "idle"
    BY DEF IdleRunner
  <2>2. CASE Save(r)
    <3>1. [rec EXCEPT !.pc = "record"].pc = "record"
      BY <1>1 DEF Runner
    <3> QED
      BY <1>2, <2>1, <2>2, <3>1 DEF Save
  <2>3. CASE RecordSubmitted(r)
    <3>1. PICK coid : Step(r, IF rec.acked = {coid} THEN IdleRunner
                              ELSE [rec EXCEPT !.acked = @ \ {coid}])
      BY <2>3 DEF RecordSubmitted
    <3>2. [rec EXCEPT !.acked = @ \ {coid}].pc = "record"
      BY <1>1, <2>3 DEF RecordSubmitted, Runner
    <3> QED
      BY <1>2, <2>1, <3>1, <3>2
  <2>4. CASE Abort(r)
    BY <1>2, <2>1, <2>4 DEF Abort
  <2> QED
    BY <1>8, <2>2, <2>3, <2>4
<1>9. CASE EditLadder \/ NextDay \/ UNCHANGED vars
  BY <1>9 DEF EditLadder, NextDay, vars, NoPendingWhileSending
<1> QED
  BY <1>4, <1>5, <1>6, <1>7, <1>8, <1>9 DEF Next, Tick

\* With one runner, no ladder order leaves while a failed stop-loss is pending,
\* whatever the market does: the pending key outranks the price in
\* evaluateExit, and the ladder is skipped.  (Two runners break it: one saves
\* the key while the other is sending.)
THEOREM PendingOutranksLadder ==
    ASSUME \A r, q \in Runners : r = q
    PROVE  Spec => PendingStopsEntries
<1> DEFINE NoEntry == \A o \in orders' \ orders :
                         o.key \in StepIds => PendingKey \notin store[o.day].executed
<1>1. Init => NoPendingWhileSending
  BY DEF Init, NoPendingWhileSending, IdleRunner
<1>2. IInv /\ NoPendingWhileSending /\ [Next]_vars => NoPendingWhileSending'
  BY SendingInductive
<1>3. IInv /\ NoPendingWhileSending /\ [Next]_vars => [NoEntry]_vars
  <2> SUFFICES ASSUME IInv, NoPendingWhileSending, Next, NEW o \in orders' \ orders,
                      o.key \in StepIds
               PROVE  PendingKey \notin store[o.day].executed
    OBVIOUS
  <2>1. ASSUME NEW r \in Runners, TriggerAcked(r) \/ TriggerLost(r)
        PROVE  PendingKey \notin store[o.day].executed
    <3> DEFINE rec == runner[r]
    <3>1. rec \in Runner /\ rec.day \in Days /\ rec.pc = "trigger"
      BY <2>1 DEF TriggerAcked, TriggerLost, IInv, TypeOK, Runner
    <3>2. NextOf(rec.todo)[2] \in OrderKeys
      BY <3>1, KeyTypes DEF IInv, RunnerOK, Runner
    <3>3. Place(NextOf(rec.todo)[2], rec.day)
      BY <2>1 DEF TriggerAcked, TriggerLost
    <3>4. o.day = rec.day
      BY <3>1, <3>2, <3>3, PlaceSends DEF IInv, TypeOK
    <3> QED
      BY <3>1, <3>4 DEF NoPendingWhileSending
  <2>2. ASSUME NEW r \in Runners, ExitAcked(r) \/ ExitLost(r)
        PROVE  FALSE
    <3> DEFINE rec == runner[r]
    <3>1. rec.day \in Days /\ ExitKey(rec.exit) \in OrderKeys
      BY KeyTypes DEF IInv, TypeOK, Runner
    <3>2. Place(ExitKey(rec.exit), rec.day)
      BY <2>2 DEF ExitAcked, ExitLost
    <3>3. o.key = ExitKey(rec.exit)
      BY <3>1, <3>2, PlaceSends DEF IInv, TypeOK
    <3>4. ExitKey(rec.exit) \in ExitKeys
      BY DEF ExitKey, ExitKeys
    <3> QED
      BY <3>3, <3>4, LadderAssumption
  <2>3. ASSUME orders' = orders
        PROVE  FALSE
    BY <2>3
  <2> QED
    BY <2>1, <2>2, <2>3 DEF Next, Tick, Start, TriggerNotSent, ExitNotSent, Save,
       RecordSubmitted, Abort, EditLadder, NextDay
<1> QED
  BY <1>1, <1>2, <1>3, InvariantHolds, PTL DEF Spec, PendingStopsEntries
-----------------------------------------------------------------------------
(* A pending stop-loss stays pending until it is sold, with one runner.    *)

HasKey(st) == PendingKey \in st.executed

\* No row later than the tick's own has the key; a tick that has yet to sell
\* carries the key of the row it read, and one that drops the key has an order for it.
Keeps(rec) ==
    /\ rec.pc # "idle" => rec.day <= day
    /\ \A d \in Days : d > day \/ (rec.pc # "idle" /\ d > rec.day) => ~HasKey(store[d])
    /\ rec.pc \in {"trigger", "exit"} /\ HasKey(store[rec.day]) => HasKey(rec.state)
    /\ rec.pc \in {"trigger", "exit"} /\ HasKey(rec.state) => rec.exit # "take-profit"
    /\ rec.pc = "save" /\ HasKey(store[rec.day]) /\ ~HasKey(rec.state) =>
          Sent(orders, "exit:stop-loss", rec.day)

KeepInv == \A r \in Runners : Keeps(runner[r])

\* What the operators on a worker state do to the key.
LEMMA KeyEffects ==
    ASSUME NEW st \in WorkerState
    PROVE  /\ \A key \in OrderKeys : HasKey(RecordExecutedStep(st, key)) <=> HasKey(st)
           /\ HasKey(MarkStopLossPending(st))
           /\ ~HasKey(EmptyState)
<1>1. PendingKey \notin OrderKeys
  BY LadderAssumption DEF OrderKeys, ExitKeys, PendingKey
<1>2. st.executed \subseteq OrderKeys \cup {PendingKey}
  BY DEF WorkerState
<1>3. \A key : RecordExecutedStep(st, key).executed = st.executed \cup {key}
  BY DEF RecordExecutedStep
<1>4. MarkStopLossPending(st).executed = st.executed \cup {PendingKey}
  BY DEF MarkStopLossPending, WorkerState
<1> QED
  BY <1>1, <1>3, <1>4 DEF HasKey, EmptyState

\* The actions that leave the saved states alone, but Start.
LEMMA KeepsInMemory ==
    ASSUME IInv, KeepInv, NEW r \in Runners,
           \/ TriggerNotSent(r) \/ TriggerAcked(r) \/ TriggerLost(r)
           \/ ExitNotSent(r) \/ ExitAcked(r) \/ ExitLost(r)
    PROVE  Keeps(runner[r])'
<1> DEFINE rec == runner[r]
           new == runner'[r]
<1>1. /\ rec \in Runner /\ rec.state \in WorkerState /\ rec.day \in Days
      /\ RunnerOK(orders, rec) /\ Keeps(rec)
      /\ rec.todo \in SUBSET (Nat \X StepIds)
  BY DEF IInv, TypeOK, Runner, KeepInv
<1>2. \A x : Step(r, x) => new = x
  BY DEF Step, IInv, TypeOK
<1>3. store' = store /\ day' = day /\ rec.pc # "idle"
  <2>1. CASE TriggerNotSent(r) \/ TriggerAcked(r) \/ TriggerLost(r)
    BY ZenonT(60), <2>1 DEF TriggerNotSent, TriggerAcked, TriggerLost
  <2>2. CASE ExitNotSent(r) \/ ExitAcked(r) \/ ExitLost(r)
    BY ZenonT(60), <2>2 DEF ExitNotSent, ExitAcked, ExitLost
  <2> QED
    BY <2>1, <2>2
<1>4. CASE TriggerNotSent(r) \/ TriggerAcked(r) \/ TriggerLost(r)
  <2> DEFINE next == NextTrigger(rec)
             key == NextOf(rec.todo)[2]
             ack == [next EXCEPT !.state = RecordExecutedStep(@, key),
                                 !.acked = @ \cup {ClientOrderId(key, rec.day)}]
  <2>1. rec.pc = "trigger" /\ (new = next \/ new = ack)
    BY <1>2, <1>4 DEF TriggerNotSent, TriggerAcked, TriggerLost
  <2>2. /\ next \in Runner /\ next.day = rec.day /\ next.exit = rec.exit /\ next.state = rec.state
        /\ next.pc \in {"trigger", "exit", "save"}
    <3>1. rec \in Runner
      BY <1>1
    <3> HIDE DEF rec
    <3> QED
      BY <3>1, RunnerTypes
  <2>3. key \in OrderKeys
    BY <1>1, <2>1, KeyTypes DEF RunnerOK
  <2> HIDE DEF next, key
  <2>4. /\ ack.day = rec.day /\ ack.exit = rec.exit /\ ack.pc = next.pc
        /\ ack.state = RecordExecutedStep(rec.state, key)
    BY <2>2 DEF Runner
  <2>5. /\ new.day = rec.day /\ new.exit = rec.exit
        /\ HasKey(new.state) <=> HasKey(rec.state)
        /\ new.pc \in {"trigger", "exit", "save"}
    <3>1. CASE new = next
      BY <2>2, <3>1
    <3>2. CASE new = ack
      <4>1. HasKey(RecordExecutedStep(rec.state, key)) <=> HasKey(rec.state)
        BY <1>1, <2>3, KeyEffects
      <4> HIDE DEF new, rec, ack
      <4> QED
        BY <2>2, <2>4, <3>2, <4>1
    <3> QED
      BY <2>1, <3>1, <3>2
  <2> HIDE DEF rec, new, ack
  <2> QED
    BY <1>1, <1>3, <2>1, <2>5 DEF Keeps, rec, new
<1>5. CASE ExitNotSent(r) \/ ExitLost(r)
  <2>1. new = ExitUnsent(rec) /\ rec.pc = "exit"
    BY <1>2, <1>5 DEF ExitNotSent, ExitLost
  <2>2. /\ new.day = rec.day /\ new.pc = "save"
        /\ HasKey(rec.state) => HasKey(new.state)
    BY <1>1, <2>1, RunnerTypes, KeyEffects
  <2> HIDE DEF rec, new
  <2> QED
    BY <1>1, <1>3, <2>1, <2>2 DEF Keeps, rec, new
<1>6. CASE ExitAcked(r)
  <2> DEFINE key == ExitKey(rec.exit)
  <2>1. rec.pc = "exit" /\ Place(key, rec.day)
        /\ new = [rec EXCEPT !.pc = "save",
                             !.state = ClearStopLossPending(RecordExecutedStep(@, key)),
                             !.acked = @ \cup {ClientOrderId(key, rec.day)}]
    BY <1>2, <1>6 DEF ExitAcked
  <2>2. new.day = rec.day /\ new.pc = "save"
    BY <1>1, <2>1 DEF Runner
  <2>3. Sent(orders', key, rec.day)
    BY <1>1, <2>1, KeyTypes, PlaceSends DEF IInv, TypeOK
  <2>4. HasKey(store[rec.day]) => key = "exit:stop-loss"
    <3>1. rec.exit \in Exits \ {"none"}
      BY <1>1, <2>1 DEF RunnerOK, Runner
    <3>2. HasKey(store[rec.day]) => rec.exit # "take-profit"
      BY <1>1, <2>1 DEF Keeps
    <3> QED
      BY <3>1, <3>2 DEF Exits, ExitKey
  <2> HIDE DEF rec, new, key
  <2> QED
    BY <1>1, <1>3, <2>1, <2>2, <2>3, <2>4 DEF Keeps, rec, new
<1> QED
  BY <1>4, <1>5, <1>6

\* The tick takes the key of the row it reads, and the key asks for the stop-loss.
LEMMA KeepsAtStart ==
    ASSUME IInv, KeepInv, NEW r \in Runners, Start(r)
    PROVE  Keeps(runner[r])'
<1> DEFINE rec == runner[r]
           new == runner'[r]
<1>1. day \in Days /\ Days \subseteq Int /\ Keeps(rec) /\ rec.pc = "idle"
  BY DEF IInv, TypeOK, KeepInv, Days, Start
<1>2. UNCHANGED <<day, store, orders>>
  BY ZenonT(60) DEF Start
<1>3. PICK price \in Prices, P \in SUBSET (1..Len(ladder)) :
        LET st == store[day]
            signal == ExitSignal(st, price)
            exit == IF ExitKey(signal) \in st.executed THEN "none" ELSE signal
            todo == {<<i, ladder[i].id>> : i \in P}
        IN  /\ Triggers(P, st, price)
            /\ Step(r, [pc |-> After(todo, exit), day |-> day, state |-> st,
                        todo |-> todo, exit |-> exit, acked |-> {}])
  BY DEF Start
<1> DEFINE signal == ExitSignal(store[day], price)
           exit == IF ExitKey(signal) \in store[day].executed THEN "none" ELSE signal
<1>4. /\ new.day = day /\ new.state = store[day] /\ new.exit = exit
      /\ new.pc \in {"trigger", "exit", "save"}
  BY <1>3 DEF Step, After, IInv, TypeOK
<1>5. HasKey(store[day]) => exit # "take-profit"
  BY DEF HasKey, ExitSignal
<1> HIDE DEF rec, new, exit
<1> QED
  BY <1>1, <1>2, <1>4, <1>5 DEF Keeps, rec, new

\* The actions that end a tick: only Save writes, and in one row or for one date.
LEMMA KeepsAtEnd ==
    ASSUME IInv, KeepInv, NEW r \in Runners, Save(r) \/ RecordSubmitted(r) \/ Abort(r)
    PROVE  Keeps(runner[r])'
<1> DEFINE rec == runner[r]
           new == runner'[r]
<1>1. /\ day \in Days /\ Days \subseteq Int /\ Keeps(rec) /\ rec \in Runner /\ rec.day \in Days
      /\ store \in [Days -> WorkerState]
  BY DEF IInv, TypeOK, KeepInv, Days, Runner
<1>2. \A x : Step(r, x) => new = x
  BY DEF Step, IInv, TypeOK
<1>3. IdleRunner.pc = "idle"
  BY DEF IdleRunner
<1>4. CASE Save(r)
  <2>1. /\ rec.pc = "save" /\ store' = SavedState(rec.day, rec.state) /\ day' = day
        /\ new = IF rec.acked = {} THEN IdleRunner ELSE [rec EXCEPT !.pc = "record"]
    BY <1>2, <1>4 DEF Save
  <2>2. new.pc = "idle" \/ (new.pc = "record" /\ new.day = rec.day)
    BY <1>1, <1>3, <2>1 DEF Runner
  <2>3. ASSUME NEW d \in Days, d > rec.day PROVE ~HasKey(store'[d])
    <3>1. d # rec.day
      BY <1>1, <2>3
    <3>2. ~HasKey(store[d])
      BY <1>1, <2>1, <2>3 DEF Keeps
    <3>3. store'[d] \in {store[d], EmptyState}
      BY <1>1, <2>1, <3>1 DEF SavedState
    <3> QED
      BY <3>2, <3>3 DEF HasKey, EmptyState
  <2>4. rec.day <= day
    BY <1>1, <2>1 DEF Keeps
  <2>5. ASSUME NEW d \in Days, d > day PROVE d > rec.day
    <3>1. d \in Int /\ day \in Int /\ rec.day \in Int
      BY <1>1
    <3> QED
      BY <2>4, <2>5, <3>1
  <2> HIDE DEF rec, new
  <2> QED
    BY <2>1, <2>2, <2>3, <2>4, <2>5 DEF Keeps, rec, new
<1>5. CASE RecordSubmitted(r)
  <2>1. PICK coid : Step(r, IF rec.acked = {coid} THEN IdleRunner
                            ELSE [rec EXCEPT !.acked = @ \ {coid}])
    BY <1>5 DEF RecordSubmitted
  <2>2. new.pc = "idle" \/ (new.pc = "record" /\ new.day = rec.day)
    BY <1>1, <1>2, <1>3, <1>5, <2>1 DEF RecordSubmitted, Runner
  <2>3. rec.pc = "record" /\ UNCHANGED <<day, store>>
    BY ZenonT(60), <1>5 DEF RecordSubmitted
  <2> HIDE DEF rec, new
  <2> QED
    BY <1>1, <2>2, <2>3 DEF Keeps, rec, new
<1>6. CASE Abort(r)
  <2>1. new.pc = "idle" /\ UNCHANGED <<day, store>>
    BY <1>2, <1>3, <1>6 DEF Abort
  <2> HIDE DEF rec, new
  <2> QED
    BY <1>1, <2>1 DEF Keeps, rec, new
<1> QED
  BY <1>4, <1>5, <1>6

LEMMA KeepInductive ==
    ASSUME \A r, q \in Runners : r = q
    PROVE  IInv /\ KeepInv /\ [Next]_vars => KeepInv'
<1> SUFFICES ASSUME IInv, KeepInv, [Next]_vars PROVE KeepInv'
  OBVIOUS
<1>1. ASSUME NEW r \in Runners, Tick(r) \/ Abort(r) PROVE KeepInv'
  <2>1. Keeps(runner[r])'
    BY <1>1, KeepsAtStart, KeepsInMemory, KeepsAtEnd DEF Tick
  <2> QED
    BY <2>1 DEF KeepInv
<1>2. CASE NextDay
  <2>1. UNCHANGED <<store, runner, orders>> /\ day' = day + 1
    BY <1>2 DEF NextDay
  <2>2. day \in Int /\ Days \subseteq Int
    BY DEF IInv, TypeOK, Days
  <2>3. ASSUME NEW r \in Runners PROVE Keeps(runner[r])'
    <3>1. Keeps(runner[r]) /\ runner[r].day \in Int
      BY <2>2 DEF KeepInv, IInv, TypeOK, Runner
    <3>2. runner[r].pc # "idle" => runner[r].day <= day'
      BY <2>1, <2>2, <3>1 DEF Keeps
    <3>3. \A d \in Days : d > day' => d > day
      BY <2>1, <2>2
    <3> QED
      BY <2>1, <3>1, <3>2, <3>3 DEF Keeps
  <2> QED
    BY <2>3 DEF KeepInv
<1>3. CASE EditLadder \/ UNCHANGED vars
  BY <1>3 DEF EditLadder, vars, KeepInv, Keeps
<1> QED
  BY <1>1, <1>2, <1>3 DEF Next

\* With one runner and either backend a failed stop-loss stays in the saved state
\* of its day, through retries, kills, the midnight and edits of the ladder, until
\* the broker has the liquidation (clearStopLossPending, after an accepted exit).
THEOREM PendingIsKept ==
    ASSUME \A r, q \in Runners : r = q
    PROVE  Spec => PendingKeptUntilLiquidated
<1> DEFINE Kept == /\ PendingKey \in store[day].executed
                   /\ PendingKey \notin store'[day].executed
                   => \E o \in orders : o.key = "exit:stop-loss" /\ o.day = day
<1>1. Init => KeepInv
  BY SMTT(60), LimitAssumption DEF Init, KeepInv, Keeps, IdleRunner, HasKey, EmptyState
<1>2. IInv /\ KeepInv /\ [Next]_vars => KeepInv'
  BY KeepInductive
<1>3. IInv /\ KeepInv /\ [Next]_vars => [Kept]_vars
  <2> SUFFICES ASSUME IInv, KeepInv, Next, HasKey(store[day]), ~HasKey(store'[day])
               PROVE  Sent(orders, "exit:stop-loss", day)
    BY DEF HasKey, Sent
  <2>1. ASSUME NEW r \in Runners, Save(r) PROVE Sent(orders, "exit:stop-loss", day)
    <3> DEFINE rec == runner[r]
    <3>1. /\ rec.pc = "save" /\ store' = SavedState(rec.day, rec.state) /\ Keeps(rec)
          /\ day \in Days /\ rec.day \in Days /\ Days \subseteq Int
          /\ store \in [Days -> WorkerState]
      BY <2>1 DEF Save, KeepInv, IInv, TypeOK, Runner, Days
    <3>2. rec.day <= day
      BY <3>1 DEF Keeps
    <3>3. ~(day > rec.day)
      BY <3>1 DEF Keeps
    <3>4. day = rec.day
      <4>1. day \in Int /\ rec.day \in Int
        BY <3>1
      <4> QED
        BY <3>2, <3>3, <4>1
    <3>5. store'[day] = rec.state
      BY <3>1, <3>4 DEF SavedState
    <3> QED
      BY <3>1, <3>4, <3>5 DEF Keeps
  <2>2. ASSUME store' = store PROVE FALSE
    BY <2>2
  <2> QED
    BY <2>1, <2>2 DEF Next, Tick, Start, TriggerNotSent, TriggerAcked, TriggerLost,
       ExitNotSent, ExitAcked, ExitLost, RecordSubmitted, Abort, EditLadder, NextDay
<1> QED
  BY <1>1, <1>2, <1>3, InvariantHolds, PTL DEF Spec, PendingKeptUntilLiquidated
-----------------------------------------------------------------------------
(* The evaluation is a function of the state and the price.                *)

\* The least member of a set of naturals.
LEMMA LeastOf ==
    ASSUME NEW T \in SUBSET Nat, T # {}
    PROVE  \E n \in T : \A m \in T : n <= m
<1> DEFINE R == OpToRel(<, Nat)
<1>1. IsWellFoundedOn(R, Nat)
  BY NatLessThanWellFounded
<1>2. \A i, j \in Nat : i < j => <<i, j>> \in R
  BY DEF OpToRel
<1> HIDE DEF R
<1>3. PICK n \in T : \A m \in T : ~ (<<m, n>> \in R)
  BY <1>1, WFMin
<1>4. ASSUME NEW m \in T PROVE n <= m
  <2>1. m \in Nat /\ n \in Nat /\ ~(m < n)
    BY <1>2, <1>3
  <2> QED
    BY <2>1
<1> QED
  BY <1>4

\* The pass over the first n steps picks a position by the ones it picked before.
Picked(P, n, st, price) ==
    \A i \in 1..n :
        i \in P <=> /\ ladder[i].id \notin st.executed
                   /\ Reached(ladder[i], price)
                   /\ WithinLimits(ladder[i], {j \in P : j < i}, st, price)

\* One position more: the pass goes on from what it has.
LEMMA PickNext ==
    ASSUME NEW n \in Nat, NEW P \in SUBSET (1..n), NEW st, NEW price, Picked(P, n, st, price)
    PROVE  \E Q \in SUBSET (1..(n + 1)) : Picked(Q, n + 1, st, price)
<1> DEFINE Due(i, before) == /\ ladder[i].id \notin st.executed
                             /\ Reached(ladder[i], price)
                             /\ WithinLimits(ladder[i], before, st, price)
           Q == IF Due(n + 1, P) THEN P \cup {n + 1} ELSE P
<1>1. \A i \in 1..n : i \in P <=> Due(i, {j \in P : j < i})
  BY DEF Picked
<1> HIDE DEF Due
<1>2. Q \in SUBSET (1..(n + 1)) /\ (n + 1 \in Q <=> Due(n + 1, P))
  <2>1. n + 1 \notin P
    OBVIOUS
  <2> QED
    BY <2>1
<1>3. {j \in Q : j < n + 1} = P
  <2>1. \A j \in P : j < n + 1
    OBVIOUS
  <2>2. \A j \in Q : j \in P \/ j = n + 1
    OBVIOUS
  <2>3. ~(n + 1 < n + 1) /\ P \subseteq Q
    OBVIOUS
  <2> HIDE DEF Q
  <2> QED
    BY <2>1, <2>2, <2>3
<1>4. \A i \in 1..n : i \in Q <=> i \in P
  OBVIOUS
<1>5. \A i \in 1..n : {j \in Q : j < i} = {j \in P : j < i}
  OBVIOUS
<1> HIDE DEF Q
<1>6. ASSUME NEW i \in 1..(n + 1) PROVE i \in Q <=> Due(i, {j \in Q : j < i})
  <2>1. CASE i = n + 1
    BY <1>2, <1>3, <2>1
  <2>2. CASE i \in 1..n
    BY <1>1, <1>4, <1>5, <2>2
  <2> QED
    BY <2>1, <2>2
<1> QED
  BY <1>2, <1>6 DEF Picked, Due

\* For any ladder, state and price the one pass of evaluateLadderTriggers has a
\* result and no second one: the limits it counts depend on its own picks, and
\* still no two sets of triggers fit the description Start uses.
THEOREM OneEvaluation ==
    ASSUME TypeOK, NEW st \in WorkerState, NEW price \in Prices
    PROVE  \E P \in SUBSET (1..Len(ladder)) :
              /\ Triggers(P, st, price)
              /\ \A Q \in SUBSET (1..Len(ladder)) : Triggers(Q, st, price) => Q = P
<1> DEFINE N == Len(ladder)
<1>0. N \in Nat
  BY LadderAssumption DEF TypeOK
<1> HIDE DEF N
<1>1. \E P \in SUBSET (1..N) : Picked(P, N, st, price)
  <2> DEFINE Stuck == {n \in Nat : ~\E P \in SUBSET (1..n) : Picked(P, n, st, price)}
  <2>1. Stuck = {}
    <3> SUFFICES ASSUME Stuck # {} PROVE FALSE
      OBVIOUS
    <3>1. PICK n \in Stuck : \A m \in Stuck : n <= m
      BY LeastOf
    <3>2. n # 0
      <4>1. Picked({}, 0, st, price)
        BY DEF Picked
      <4> QED
        BY <4>1
    <3>3. n - 1 \in Nat /\ n - 1 \notin Stuck
      BY <3>1, <3>2
    <3>4. PICK P \in SUBSET (1..(n - 1)) : Picked(P, n - 1, st, price)
      BY <3>3
    <3>5. \E Q \in SUBSET (1..((n - 1) + 1)) : Picked(Q, (n - 1) + 1, st, price)
      BY <3>3, <3>4, PickNext
    <3>6. (n - 1) + 1 = n
      BY <3>3
    <3> QED
      BY <3>1, <3>5, <3>6
  <2> QED
    BY <1>0, <2>1
<1>2. ASSUME NEW P \in SUBSET (1..N), NEW Q \in SUBSET (1..N),
             Picked(P, N, st, price), Picked(Q, N, st, price)
      PROVE  Q = P
  <2> DEFINE Differ == {i \in 1..N : ~(i \in P <=> i \in Q)}
             Due(i, before) == /\ ladder[i].id \notin st.executed
                               /\ Reached(ladder[i], price)
                               /\ WithinLimits(ladder[i], before, st, price)
  <2>1. \A i \in 1..N : /\ i \in P <=> Due(i, {j \in P : j < i})
                        /\ i \in Q <=> Due(i, {j \in Q : j < i})
    BY <1>2 DEF Picked
  <2> HIDE DEF Due
  <2>2. Differ = {}
    <3> SUFFICES ASSUME Differ # {} PROVE FALSE
      OBVIOUS
    <3>1. Differ \in SUBSET Nat
      BY <1>0
    <3>2. PICK i \in Differ : \A j \in Differ : i <= j
      BY <3>1, LeastOf
    <3>3. {j \in P : j < i} = {j \in Q : j < i}
      <4>1. ASSUME NEW j \in 1..N, j < i PROVE j \in P <=> j \in Q
        <5>1. j \notin Differ
          BY <1>0, <3>1, <3>2, <4>1
        <5> QED
          BY <5>1
      <4> QED
        BY <4>1
    <3> QED
      BY <2>1, <3>2, <3>3
  <2> QED
    BY <2>2
<1>3. \A P \in SUBSET (1..N) : Evaluated(P, st, price) <=> Picked(P, N, st, price)
  BY DEF Evaluated, Picked, N
<1>4. CASE ExitSignal(st, price) = "stop-loss"
  <2>1. \A P : Triggers(P, st, price) <=> P = {}
    BY <1>4 DEF Triggers
  <2>2. {} \in SUBSET (1..Len(ladder))
    OBVIOUS
  <2> QED
    BY <2>1, <2>2
<1>5. CASE ExitSignal(st, price) # "stop-loss"
  <2>1. \A P \in SUBSET (1..N) : Triggers(P, st, price) <=> Picked(P, N, st, price)
    BY <1>3, <1>5 DEF Triggers
  <2>2. PICK P \in SUBSET (1..N) : Picked(P, N, st, price)
    BY <1>1
  <2>3. \A Q \in SUBSET (1..N) : Triggers(Q, st, price) => Q = P
    BY <1>2, <2>1, <2>2
  <2> QED
    BY <2>1, <2>2, <2>3 DEF N
<1> QED
  BY <1>4, <1>5
-----------------------------------------------------------------------------
(* The tracking ledger.  What a saved state or a copy of it records, the     *)
(* ledger has, a caller is about to enter, or the tick itself was told.      *)

Recording(coid) == \E r \in Runners : runner[r].pc = "record" /\ coid \in runner[r].acked
Known(coid) == coid \in tracked \/ Recording(coid)

CopyKnown(rec) ==
    rec.pc \notin {"idle", "record"} =>
        \A key \in rec.state.executed \ {PendingKey} :
            \/ ClientOrderId(key, rec.day) \in rec.acked
            \/ Known(ClientOrderId(key, rec.day))

TrackInv ==
    /\ \A d \in Days : \A key \in store[d].executed \ {PendingKey} : Known(ClientOrderId(key, d))
    /\ \A r \in Runners : CopyKnown(runner[r])

\* What is known stays known while no caller is killed at the ledger.
LEMMA KnownStays ==
    ASSUME TypeOK, NEW r \in Runners, Tick(r) \/ Abort(r),
           runner[r].pc = "record" => RecordSubmitted(r),
           NEW coid, Known(coid)
    PROVE  Known(coid)'
<1>1. PICK rec : runner' = [runner EXCEPT ![r] = rec]
  BY ZenonT(60) DEF Tick, Start, TriggerNotSent, TriggerAcked, TriggerLost, ExitNotSent, ExitAcked, ExitLost,
     Save, RecordSubmitted, Abort, Step
<1>2. tracked \subseteq tracked'
  BY DEF Tick, Start, TriggerNotSent, TriggerAcked, TriggerLost, ExitNotSent, ExitAcked, ExitLost,
     Save, RecordSubmitted, Abort
<1>3. runner \in [Runners -> Runner]
  BY DEF TypeOK
<1>4. CASE coid \in tracked
  BY <1>2, <1>4 DEF Known
<1>5. ASSUME NEW q \in Runners, runner[q].pc = "record", coid \in runner[q].acked PROVE Known(coid)'
  <2>1. CASE q # r
    BY <1>1, <1>3, <1>5, <2>1 DEF Known, Recording
  <2>2. CASE q = r
    <3>1. PICK done \in runner[r].acked :
             /\ tracked' = tracked \cup {done}
             /\ Step(r, IF runner[r].acked = {done} THEN IdleRunner
                        ELSE [runner[r] EXCEPT !.acked = @ \ {done}])
      BY <1>5, <2>2 DEF RecordSubmitted
    <3>2. CASE coid = done
      BY <3>1, <3>2 DEF Known
    <3>3. CASE coid # done
      <4>1. runner'[r] = [runner[r] EXCEPT !.acked = @ \ {done}]
        BY <1>3, <1>5, <2>2, <3>1, <3>3 DEF Step
      <4>2. runner'[r].pc = "record" /\ coid \in runner'[r].acked
        BY <1>3, <1>5, <2>2, <3>3, <4>1 DEF Runner
      <4> QED
        BY <4>2 DEF Known, Recording
    <3> QED
      BY <3>2, <3>3
  <2> QED
    BY <2>1, <2>2
<1> QED
  BY <1>4, <1>5 DEF Known, Recording

\* What each action writes of what it was told.
LEMMA ToldEffects ==
    ASSUME TypeOK, NEW r \in Runners
    PROVE  /\ Start(r) => /\ runner'[r].day = day /\ runner'[r].state = store[day]
           /\ TriggerNotSent(r) \/ TriggerLost(r) =>
                 /\ runner[r].pc = "trigger" /\ runner'[r].day = runner[r].day
                 /\ runner'[r].state = runner[r].state /\ runner'[r].acked = runner[r].acked
           /\ ExitNotSent(r) \/ ExitLost(r) =>
                 /\ runner[r].pc = "exit" /\ runner'[r].day = runner[r].day
                 /\ runner'[r].state.executed \ {PendingKey} \subseteq runner[r].state.executed
                 /\ runner'[r].acked = runner[r].acked
           /\ TriggerAcked(r) \/ ExitAcked(r) =>
                 /\ runner[r].pc \in {"trigger", "exit"} /\ runner'[r].day = runner[r].day
                 /\ \E key :
                       /\ runner'[r].state.executed \subseteq runner[r].state.executed \cup {key}
                       /\ runner'[r].acked = runner[r].acked \cup {ClientOrderId(key, runner[r].day)}
<1> DEFINE rec == runner[r]
<1>0. rec \in Runner /\ rec.state \in WorkerState /\ \A new : Step(r, new) => runner'[r] = new
  BY DEF TypeOK, Step, Runner
<1>1. ASSUME Start(r) PROVE runner'[r].day = day /\ runner'[r].state = store[day]
  <2>1. PICK todo, exit : Step(r, [pc |-> After(todo, exit), day |-> day, state |-> store[day],
                                   todo |-> todo, exit |-> exit, acked |-> {}])
    BY <1>1 DEF Start
  <2> QED
    BY <1>0, <2>1
<1>2. /\ NextTrigger(rec).day = rec.day /\ NextTrigger(rec).state = rec.state
      /\ NextTrigger(rec).acked = rec.acked
  BY <1>0 DEF NextTrigger, Runner
<1>3. ASSUME TriggerNotSent(r) \/ TriggerLost(r)
      PROVE  /\ rec.pc = "trigger" /\ runner'[r].day = rec.day
             /\ runner'[r].state = rec.state /\ runner'[r].acked = rec.acked
  BY <1>0, <1>2, <1>3 DEF TriggerNotSent, TriggerLost
<1>4. ASSUME ExitNotSent(r) \/ ExitLost(r)
      PROVE  /\ rec.pc = "exit" /\ runner'[r].day = rec.day
             /\ runner'[r].state.executed \ {PendingKey} \subseteq rec.state.executed
             /\ runner'[r].acked = rec.acked
  <2>1. rec.pc = "exit" /\ runner'[r] = ExitUnsent(rec)
    BY <1>0, <1>4 DEF ExitNotSent, ExitLost
  <2>2. ExitUnsent(rec).state \in {rec.state, MarkStopLossPending(rec.state)}
    BY <1>0 DEF ExitUnsent, Runner
  <2>3. ExitUnsent(rec).day = rec.day /\ ExitUnsent(rec).acked = rec.acked
    BY <1>0 DEF ExitUnsent, Runner
  <2>4. MarkStopLossPending(rec.state).executed = rec.state.executed \cup {PendingKey}
    BY <1>0 DEF MarkStopLossPending, WorkerState
  <2> QED
    BY <2>1, <2>2, <2>3, <2>4
<1>5. ASSUME TriggerAcked(r) PROVE \E key :
         /\ rec.pc = "trigger" /\ runner'[r].day = rec.day
         /\ runner'[r].state.executed \subseteq rec.state.executed \cup {key}
         /\ runner'[r].acked = rec.acked \cup {ClientOrderId(key, rec.day)}
  <2> DEFINE key == NextOf(rec.todo)[2]
             new == [NextTrigger(rec) EXCEPT !.state = RecordExecutedStep(@, key),
                                             !.acked = @ \cup {ClientOrderId(key, rec.day)}]
  <2>1. rec.pc = "trigger" /\ runner'[r] = new
    BY <1>0, <1>5 DEF TriggerAcked
  <2> HIDE DEF key
  <2>2. NextTrigger(rec) = [rec EXCEPT !.todo = NextTrigger(rec).todo, !.pc = NextTrigger(rec).pc]
    BY <1>0 DEF NextTrigger, Runner
  <2>3. /\ new.day = rec.day /\ new.state = RecordExecutedStep(rec.state, key)
        /\ new.acked = rec.acked \cup {ClientOrderId(key, rec.day)}
    BY <1>0, <2>2 DEF Runner
  <2>4. RecordExecutedStep(rec.state, key).executed = rec.state.executed \cup {key}
    BY DEF RecordExecutedStep
  <2> HIDE DEF new
  <2> QED
    BY <2>1, <2>3, <2>4
<1>6. ASSUME ExitAcked(r) PROVE \E key :
         /\ rec.pc = "exit" /\ runner'[r].day = rec.day
         /\ runner'[r].state.executed \subseteq rec.state.executed \cup {key}
         /\ runner'[r].acked = rec.acked \cup {ClientOrderId(key, rec.day)}
  <2> DEFINE key == ExitKey(rec.exit)
             new == [rec EXCEPT !.pc = "save",
                                !.state = ClearStopLossPending(RecordExecutedStep(@, key)),
                                !.acked = @ \cup {ClientOrderId(key, rec.day)}]
  <2>1. rec.pc = "exit" /\ runner'[r] = new
    BY <1>0, <1>6 DEF ExitAcked
  <2> HIDE DEF key
  <2>3. /\ new.day = rec.day /\ new.state = ClearStopLossPending(RecordExecutedStep(rec.state, key))
        /\ new.acked = rec.acked \cup {ClientOrderId(key, rec.day)}
    BY <1>0 DEF Runner
  <2>4. ClearStopLossPending(RecordExecutedStep(rec.state, key)).executed \subseteq rec.state.executed \cup {key}
    BY DEF RecordExecutedStep, ClearStopLossPending
  <2> HIDE DEF new
  <2> QED
    BY <2>1, <2>3, <2>4
<1> QED
  BY <1>1, <1>3, <1>4, <1>5, <1>6

\* What a tick does to its copy.
LEMMA CopyStaysKnown ==
    ASSUME TypeOK, TrackInv, NEW r \in Runners, Tick(r) \/ Abort(r),
           runner[r].pc = "record" => RecordSubmitted(r)
    PROVE  CopyKnown(runner[r])'
<1> DEFINE rec == runner[r]
           new == runner'[r]
<1>0. CopyKnown(rec) /\ \A coid : Known(coid) => Known(coid)'
  BY KnownStays DEF TrackInv
<1>q. SUFFICES ASSUME new.pc \notin {"idle", "record"}, NEW k \in new.state.executed \ {PendingKey},
                      NEW coid, coid = ClientOrderId(k, new.day)
               PROVE  coid \in new.acked \/ Known(coid)'
  BY DEF CopyKnown, ClientOrderId, Known, Recording
<1>1. CASE Start(r)
  <2>1. new.day = day /\ k \in store[day].executed \ {PendingKey} /\ day \in Days
    BY <1>1, ToldEffects DEF TypeOK
  <2> QED
    BY <1>0, <1>q, <2>1 DEF TrackInv
<1>2. CASE TriggerNotSent(r) \/ TriggerLost(r) \/ ExitNotSent(r) \/ ExitLost(r)
  <2>1. /\ rec.pc \notin {"idle", "record"} /\ new.day = rec.day /\ new.acked = rec.acked
        /\ k \in rec.state.executed \ {PendingKey}
    BY <1>2, ToldEffects
  <2> QED
    BY <1>0, <1>q, <2>1 DEF CopyKnown
<1>3. CASE TriggerAcked(r) \/ ExitAcked(r)
  <2>1. PICK key :
          /\ rec.pc \notin {"idle", "record"} /\ new.day = rec.day
          /\ new.state.executed \subseteq rec.state.executed \cup {key}
          /\ new.acked = rec.acked \cup {ClientOrderId(key, rec.day)}
    BY <1>3, ToldEffects
  <2>2. CASE k = key
    BY <1>q, <2>1, <2>2
  <2>3. CASE k # key
    <3>1. k \in rec.state.executed \ {PendingKey}
      BY <2>1, <2>3
    <3> QED
      BY <1>0, <1>q, <2>1, <3>1 DEF CopyKnown
  <2> QED
    BY <2>2, <2>3
<1>4. CASE Save(r) \/ RecordSubmitted(r) \/ Abort(r)
  <2>1. rec \in Runner /\ \A x : Step(r, x) => runner'[r] = x
    BY DEF TypeOK, Step
  <2>2. new.pc \in {"idle", "record"}
    <3>1. CASE Save(r)
      BY <2>1, <3>1 DEF Save, IdleRunner, Runner
    <3>2. CASE RecordSubmitted(r)
      BY <2>1, <3>2 DEF RecordSubmitted, IdleRunner, Runner
    <3>3. CASE Abort(r)
      BY <2>1, <3>3 DEF Abort, IdleRunner
    <3> QED
      BY <1>4, <3>1, <3>2, <3>3
  <2> QED
    BY <1>q, <2>2
<1> QED
  BY <1>1, <1>2, <1>3, <1>4 DEF Tick

\* What is saved, the ledger has or gets.
LEMMA SavedIsKnown ==
    ASSUME TypeOK, TrackInv, NEW r \in Runners, Tick(r) \/ Abort(r),
           runner[r].pc = "record" => RecordSubmitted(r),
           NEW d \in Days, NEW key \in store'[d].executed \ {PendingKey}
    PROVE  Known(ClientOrderId(key, d))'
<1> DEFINE rec == runner[r]
<1>0. CopyKnown(rec) /\ \A coid : Known(coid) => Known(coid)'
  BY KnownStays DEF TrackInv
<1>1. CASE key \in store[d].executed
  BY <1>0, <1>1 DEF TrackInv
<1>2. CASE key \notin store[d].executed
  <2>1. store' # store
    BY <1>2
  <2>2. Save(r)
    BY <2>1 DEF Tick, Start, TriggerNotSent, TriggerAcked, TriggerLost, ExitNotSent, ExitAcked, ExitLost,
       RecordSubmitted, Abort
  <2>3. d = rec.day /\ key \in rec.state.executed
    BY <1>2, <2>2 DEF Save, SavedState, EmptyState, TypeOK
  <2>4. \/ ClientOrderId(key, d) \in rec.acked
        \/ Known(ClientOrderId(key, d))
    BY <1>0, <2>2, <2>3 DEF Save, CopyKnown
  <2>5. CASE ClientOrderId(key, d) \in rec.acked
    <3>1. runner'[r] = [rec EXCEPT !.pc = "record"]
      BY <2>2, <2>5 DEF Save, Step, TypeOK
    <3>2. runner'[r].pc = "record" /\ ClientOrderId(key, d) \in runner'[r].acked
      BY <2>5, <3>1 DEF TypeOK, Runner
    <3> QED
      BY <3>2 DEF Known, Recording
  <2> QED
    BY <1>0, <2>4, <2>5
<1> QED
  BY <1>1, <1>2

LEMMA TrackInductive ==
    TypeOK /\ TrackInv /\ [Next]_vars /\ [\A r \in Runners : runner[r].pc = "record" => ~Killed(r)]_vars
        => TrackInv'
<1> SUFFICES ASSUME TypeOK, TrackInv, [Next]_vars,
                    [\A r \in Runners : runner[r].pc = "record" => ~Killed(r)]_vars
             PROVE  TrackInv'
  OBVIOUS
<1>1. CASE UNCHANGED <<store, runner, tracked>>
  BY <1>1 DEF TrackInv, CopyKnown, Known, Recording, ClientOrderId
<1>2. CASE UNCHANGED vars \/ EditLadder \/ NextDay
  BY <1>1, <1>2 DEF vars, EditLadder, NextDay
<1>3. ASSUME NEW r \in Runners, Tick(r) \/ Abort(r), ~UNCHANGED vars PROVE TrackInv'
  <2>1. runner[r].pc = "record" => Tick(r)
    BY <1>3 DEF Killed
  <2>2. runner[r].pc = "record" => RecordSubmitted(r)
    BY <2>1 DEF Tick, Start, TriggerNotSent, TriggerAcked, TriggerLost, ExitNotSent, ExitAcked, ExitLost, Save
  <2>3. \A q \in Runners \ {r} : runner'[q] = runner[q]
    BY <1>3 DEF Tick, Start, TriggerNotSent, TriggerAcked, TriggerLost, ExitNotSent, ExitAcked, ExitLost, Save,
       RecordSubmitted, Abort, Step, TypeOK
  <2>4. ASSUME NEW q \in Runners PROVE CopyKnown(runner[q])'
    <3>1. CASE q = r
      BY <1>3, <2>2, <3>1, CopyStaysKnown
    <3>2. CASE q # r
      <4>1. CopyKnown(runner[q]) /\ runner'[q] = runner[q]
        BY <2>3, <3>2 DEF TrackInv
      <4>2. \A coid : Known(coid) => Known(coid)'
        BY <1>3, <2>2, KnownStays
      <4> QED
        BY <4>1, <4>2 DEF CopyKnown, ClientOrderId
    <3> QED
      BY <3>1, <3>2
  <2>5. \A d \in Days : \A key \in store'[d].executed \ {PendingKey} : Known(ClientOrderId(key, d))'
    BY <1>3, <2>2, SavedIsKnown
  <2> QED
    BY <2>4, <2>5 DEF TrackInv, ClientOrderId
<1> QED
  BY <1>2, <1>3 DEF Next

\* The tracking ledger is written after the state that says a step is done, so a
\* kill between the two loses the order for good (run-automation-cycle.ts).
\* Nothing else loses one: not an overlapping runner's stale save, an answer
\* lost, or a tick killed anywhere before.
THEOREM OnlyKilledCallersLoseOrders ==
    Spec /\ [][\A r \in Runners : runner[r].pc = "record" => ~Killed(r)]_vars => []ExecutedStepsTracked
<1>1. Init => TrackInv
  BY DEF Init, TrackInv, EmptyState, CopyKnown, IdleRunner
<1>2. TrackInv => ExecutedStepsTracked
  BY DEF TrackInv, ExecutedStepsTracked, Known, Recording
<1> QED
  BY <1>1, <1>2, TrackInductive, TypesHold, PTL DEF Spec
================================================================================
