--------------------------- MODULE Scheduler_proofs ---------------------------
(***************************************************************************)
(* One scheduled cycle at a time, and a next run for an enabled scheduler, *)
(* for any number of requests, executions and changes of the settings.     *)
(***************************************************************************)
EXTENDS Scheduler, TLAPS

\* From the first await of runNow to its finally block.
Active(r) == run[r].pc \in {"read", "save", "cycle", "ended", "saving", "caught", "catching"}

\* The flag is up exactly while one execution is between the two.
FlagInv ==
    /\ \A r \in Runs : Active(r) => running
    /\ \A r, s \in Runs : Active(r) /\ Active(s) => r = s
    /\ running => \E r \in Runs : Active(r)

TypeInv == TypeOK
IInv == TypeInv /\ FlagInv /\ EnabledStaysArmed

-----------------------------------------------------------------------------
(* Types. *)

LEMMA IdleType == Idle \in Caller /\ Idle \in Run
BY DEF Idle, Caller, Run

LEMMA AfterType ==
    ASSUME NEW copy \in BOOLEAN
    PROVE  After(copy) \in Caller /\ After(copy) \in Run
BY DEF After, Caller, Run

LEMMA CallerStep ==
    ASSUME TypeInv, NEW q \in Requests, NEW rec \in Caller, Asking(q, rec),
           timer' \in BOOLEAN, enabled' \in BOOLEAN, wanted' \in BOOLEAN, broken' \in BOOLEAN,
           stray' \in Nat, changes' \in 0..MaxChanges
    PROVE  TypeInv'
BY DEF Asking, TypeInv, TypeOK

LEMMA RunningStep ==
    ASSUME TypeInv, NEW r \in Runs, NEW rec \in Run, Running(r, rec),
           timer' \in BOOLEAN, enabled' \in BOOLEAN, running' \in BOOLEAN, broken' \in BOOLEAN,
           stray' \in Nat
    PROVE  TypeInv'
BY DEF Running, TypeInv, TypeOK

LEMMA ExpiredType ==
    ASSUME TypeInv, NEW left \in BOOLEAN, Expired(left)
    PROVE  timer' \in BOOLEAN /\ stray' \in Nat
<1>1. CASE timer /\ timer' = FALSE /\ UNCHANGED stray
  BY <1>1 DEF TypeInv, TypeOK
<1>2. CASE stray > 0 /\ stray' = stray - 1 /\ timer' = left
  BY <1>2 DEF TypeInv, TypeOK
<1> QED
  BY <1>1, <1>2 DEF Expired

LEMMA ArmedType ==
    ASSUME TypeInv, NEW copy \in BOOLEAN, Armed(copy)
    PROVE  /\ timer' = TRUE /\ stray' \in Nat /\ enabled' \in BOOLEAN /\ broken' \in BOOLEAN
<1>1. stray \in Nat
  BY DEF TypeInv, TypeOK
<1>2. stray' = stray \/ stray' = stray + 1
  BY DEF Armed
<1>3. timer' = TRUE /\ enabled' \in BOOLEAN /\ broken' \in BOOLEAN
  BY DEF Armed
<1> QED
  BY <1>1, <1>2, <1>3

LEMMA TypeStep ==
    ASSUME TypeInv, [Next]_vars
    PROVE  TypeInv'
<1>1. /\ \A q \in Requests : request[q] \in Caller /\ request[q].copy \in BOOLEAN
      /\ \A r \in Runs : run[r] \in Run /\ run[r].copy \in BOOLEAN
      /\ starter \in Caller /\ starter.copy \in BOOLEAN
      /\ up \in BOOLEAN /\ enabled \in BOOLEAN /\ wanted \in BOOLEAN
      /\ timer \in BOOLEAN /\ running \in BOOLEAN /\ broken \in BOOLEAN
      /\ stray \in Nat /\ changes \in 0..MaxChanges
  BY DEF TypeInv, TypeOK, Caller, Run
<1>2. CASE Launch \/ Exit
  <2>1. [Idle EXCEPT !.pc = "read"] \in Caller
    BY DEF Idle, Caller
  <2>2. CASE Launch
    BY <1>1, <2>1, <2>2 DEF Launch, TypeInv, TypeOK
  <2>3. CASE Exit
    <3>1. request' \in [Requests -> Caller] /\ run' \in [Runs -> Run] /\ starter' \in Caller
      BY <2>3, IdleType DEF Exit
    <3> QED
      BY <1>1, <2>3, <3>1 DEF Exit, TypeInv, TypeOK
  <2> QED
    BY <1>2, <2>2, <2>3
<1>3. CASE StartRead \/ StartFails
  BY <1>1, <1>3, IdleType, AfterType DEF StartRead, StartFails, TypeInv, TypeOK
<1>4. CASE StartArm
  BY <1>1, <1>4, IdleType, ArmedType DEF StartArm, TypeInv, TypeOK
<1>5. ASSUME NEW q \in Requests, Configure(q) \/ ConfigureStep(q) \/ ConfigureFails(q)
      PROVE  TypeInv'
  <2>1. CASE Configure(q)
    <3>1. PICK want \in BOOLEAN : Asking(q, [pc |-> "read", copy |-> want])
      BY <2>1 DEF Configure
    <3>2. [pc |-> "read", copy |-> want] \in Caller
      BY DEF Caller
    <3>3. changes' \in 0..MaxChanges
      BY <1>1, <2>1, SchedulerAssumption DEF Configure
    <3> QED
      BY <1>1, <2>1, <3>1, <3>2, <3>3, CallerStep DEF Configure
  <2>2. CASE ConfigureRead(q)
    <3>1. [request[q] EXCEPT !.pc = "save"] \in Caller
      BY <1>1 DEF Caller
    <3> QED
      BY <1>1, <2>2, <3>1, CallerStep DEF ConfigureRead
  <2>3. CASE ConfigureSave(q)
    BY <1>1, <1>5, <2>3, AfterType, CallerStep DEF ConfigureSave
  <2>4. CASE ConfigureArm(q)
    BY <1>1, <1>5, <2>4, IdleType, ArmedType, CallerStep DEF ConfigureArm
  <2>5. CASE ConfigureFails(q)
    BY <1>1, <2>5, IdleType, CallerStep DEF ConfigureFails
  <2> QED
    BY <1>5, <2>1, <2>2, <2>3, <2>4, <2>5 DEF ConfigureStep
<1>6. CASE FireBusy
  BY <1>1, <1>6, ExpiredType DEF FireBusy, TypeInv, TypeOK
<1>7. ASSUME NEW r \in Runs, Fire(r) \/ RunStep(r) \/ EndFails(r)
      PROVE  TypeInv'
  <2>1. CASE Fire(r)
    <3>1. [Idle EXCEPT !.pc = "read"] \in Run
      BY DEF Idle, Run
    <3> QED
      BY <1>1, <2>1, <3>1, ExpiredType, RunningStep DEF Fire
  <2>2. CASE ReadState(r)
    <3>1. PICK pc \in {"save", "saving", "catching"} : Running(r, [pc |-> pc, copy |-> enabled])
      BY <2>2 DEF ReadState
    <3>2. [pc |-> pc, copy |-> enabled] \in Run
      BY <1>1 DEF Run
    <3> QED
      BY <1>1, <2>2, <3>1, <3>2, RunningStep DEF ReadState
  <2>3. \A pc \in {"cycle", "ended", "caught", "final"} : [run[r] EXCEPT !.pc = pc] \in Run
    BY <1>1, <1>7 DEF Run
  <2>4. CASE SaveStarted(r)
    BY <1>1, <1>7, <2>3, <2>4, RunningStep DEF SaveStarted
  <2>5. CASE CycleEnds(r)
    BY <1>1, <2>3, <2>5, RunningStep DEF CycleEnds
  <2>6. CASE SaveEnded(r)
    BY <1>1, <1>7, <2>3, <2>6, RunningStep DEF SaveEnded, DropFlag
  <2>7. CASE FinalRead(r)
    BY <1>1, <2>7, AfterType, RunningStep DEF FinalRead
  <2>8. CASE RunArm(r)
    BY <1>1, <1>7, <2>8, IdleType, ArmedType, RunningStep DEF RunArm
  <2>9. CASE EndFails(r)
    BY <1>1, <2>3, <2>9, RunningStep DEF EndFails, DropFlag
  <2> QED
    BY <1>7, <2>1, <2>2, <2>4, <2>5, <2>6, <2>7, <2>8, <2>9 DEF RunStep
<1>8. CASE UNCHANGED vars
  BY <1>8 DEF vars, TypeInv, TypeOK
<1> QED
  BY <1>2, <1>3, <1>4, <1>5, <1>6, <1>7, <1>8 DEF Next, StartStep

-----------------------------------------------------------------------------
(* The flag. *)

\* A step of one execution that keeps it active keeps everything.
LEMMA KeepsActive ==
    ASSUME TypeInv, FlagInv, NEW r \in Runs, NEW rec, Running(r, rec), UNCHANGED running,
           Active(r) <=> rec.pc \in {"read", "save", "cycle", "ended", "saving", "caught", "catching"}
    PROVE  FlagInv'
<1>1. \A s \in Runs : Active(s)' <=> Active(s)
  BY DEF Running, TypeInv, TypeOK, Active
<1> QED
  BY <1>1 DEF FlagInv

\* The one active execution enters its finally block and drops the flag.
LEMMA DropsFlag ==
    ASSUME TypeInv, FlagInv, NEW r \in Runs, NEW rec, Running(r, rec), DropFlag,
           Active(r), rec.pc = "final"
    PROVE  FlagInv'
<1>1. \A s \in Runs : ~ Active(s)'
  BY DEF Running, TypeInv, TypeOK, Active, FlagInv
<1> QED
  BY <1>1 DEF FlagInv, DropFlag

LEMMA FlagStep ==
    ASSUME TypeInv, FlagInv, [Next]_vars
    PROVE  FlagInv'
<1>1. CASE UNCHANGED <<run, running>>
  BY <1>1 DEF FlagInv, Active
<1>2. CASE Exit
  <2>1. \A r \in Runs : ~ Active(r)'
    BY <1>2 DEF Exit, Idle, Active
  <2> QED
    BY <1>2, <2>1 DEF Exit, FlagInv
<1>3. ASSUME NEW r \in Runs, Fire(r) \/ RunStep(r) \/ EndFails(r)
      PROVE  FlagInv'
  <2>0. run[r] \in Run
    BY DEF TypeInv, TypeOK
  <2>1. CASE Fire(r)
    <3>1. \A s \in Runs : Active(s)' <=> s = r
      BY <2>1 DEF Fire, Free, Running, TypeInv, TypeOK, Active, FlagInv, Idle
    <3> QED
      BY <2>1, <3>1 DEF Fire, FlagInv
  <2>2. CASE ReadState(r)
    <3>1. PICK pc \in {"save", "saving", "catching"} : Running(r, [pc |-> pc, copy |-> enabled])
      BY <2>2 DEF ReadState
    <3>2. Active(r) /\ UNCHANGED running
      BY <2>2 DEF ReadState, Active
    <3> QED
      BY <3>1, <3>2, KeepsActive
  <2>3. CASE SaveStarted(r) \/ CycleEnds(r)
    <3>1. PICK pc \in {"cycle", "ended", "caught"} : Running(r, [run[r] EXCEPT !.pc = pc])
      BY <2>3 DEF SaveStarted, CycleEnds
    <3>2. Active(r) /\ UNCHANGED running /\ [run[r] EXCEPT !.pc = pc].pc = pc
      BY <2>0, <2>3 DEF SaveStarted, CycleEnds, Active, Run
    <3> QED
      BY <3>1, <3>2, KeepsActive
  <2>4. [run[r] EXCEPT !.pc = "final"].pc = "final" /\ [run[r] EXCEPT !.pc = "caught"].pc = "caught"
    BY <2>0 DEF Run
  <2>5. CASE SaveEnded(r)
    BY <2>4, <2>5, DropsFlag DEF SaveEnded, Active
  <2>6. CASE FinalRead(r)
    <3>1. ~ Active(r) /\ After(enabled).pc \in {"arm", "idle"} /\ Running(r, After(enabled)) /\ UNCHANGED running
      BY <2>6 DEF FinalRead, After, Active
    <3> QED
      BY <3>1, KeepsActive
  <2>7. CASE RunArm(r)
    BY <2>7, KeepsActive DEF RunArm, Idle, Active
  <2>8. CASE EndFails(r)
    <3>1. CASE run[r].pc \in {"ended", "saving"}
      BY <2>4, <2>8, <3>1, KeepsActive DEF EndFails, Active
    <3>2. CASE run[r].pc \in {"caught", "catching"}
      BY <2>4, <2>8, <3>2, DropsFlag DEF EndFails, Active
    <3> QED
      BY <2>8, <3>1, <3>2 DEF EndFails
  <2> QED
    BY <1>3, <2>1, <2>2, <2>3, <2>5, <2>6, <2>7, <2>8 DEF RunStep
<1>4. ASSUME NEW q \in Requests, Configure(q) \/ ConfigureStep(q) \/ ConfigureFails(q)
      PROVE  UNCHANGED <<run, running>>
  BY <1>4 DEF Configure, ConfigureStep, ConfigureRead, ConfigureSave, ConfigureArm, ConfigureFails, Asking
<1>5. CASE Launch \/ StartRead \/ StartArm \/ StartFails \/ FireBusy \/ UNCHANGED vars
  BY <1>1, <1>5 DEF Launch, StartRead, StartArm, StartFails, FireBusy, vars
<1> QED
  BY <1>1, <1>2, <1>3, <1>4, <1>5 DEF Next, StartStep

-----------------------------------------------------------------------------
(* The next run. *)

LEMMA ArmedStep ==
    ASSUME TypeInv, FlagInv, EnabledStaysArmed, [Next]_vars
    PROVE  EnabledStaysArmed'
<1>0. /\ \A r \in Runs : run[r] \in Run
      /\ \A q \in Requests : request[q] \in Caller
      /\ run \in [Runs -> Run] /\ request \in [Requests -> Caller]
  BY DEF TypeInv, TypeOK
<1>1. CASE Launch
  BY <1>1 DEF Launch, EnabledStaysArmed, Quiet, Idle
<1>2. CASE Exit
  BY <1>2 DEF Exit, EnabledStaysArmed
<1>3. CASE StartRead
  BY <1>3 DEF StartRead, After, EnabledStaysArmed, Quiet
<1>4. CASE StartArm
  BY <1>4 DEF StartArm, Armed, EnabledStaysArmed
<1>5. CASE StartFails
  BY <1>5 DEF StartFails, EnabledStaysArmed
<1>6. ASSUME NEW q \in Requests, Configure(q) \/ ConfigureStep(q) \/ ConfigureFails(q)
      PROVE  EnabledStaysArmed'
  <2>1. CASE Configure(q) \/ ConfigureRead(q)
    <3>1. request'[q].pc # "idle"
      BY <1>0, <2>1 DEF Configure, ConfigureRead, Asking, Caller
    <3> QED
      BY <3>1 DEF EnabledStaysArmed, Quiet
  <2>2. CASE ConfigureSave(q)
    <3>1. request'[q] = After(request[q].copy) /\ enabled' = request[q].copy
      BY <1>0, <2>2 DEF ConfigureSave, Asking
    <3> QED
      BY <3>1 DEF EnabledStaysArmed, Quiet, After
  <2>3. CASE ConfigureArm(q) \/ ConfigureFails(q)
    BY <2>3 DEF ConfigureArm, ConfigureFails, Armed, EnabledStaysArmed
  <2> QED
    BY <1>6, <2>1, <2>2, <2>3 DEF ConfigureStep
<1>7. CASE FireBusy
  <2>1. PICK r \in Runs : Active(r)
    BY <1>7 DEF FireBusy, FlagInv
  <2>2. run'[r].pc # "idle"
    BY <1>7, <2>1 DEF FireBusy, Active
  <2> QED
    BY <2>2 DEF EnabledStaysArmed, Quiet
<1>8. ASSUME NEW r \in Runs, Fire(r) \/ RunStep(r) \/ EndFails(r)
      PROVE  EnabledStaysArmed'
  <2>1. CASE FinalRead(r)
    <3>1. run'[r] = After(enabled) /\ enabled' = enabled
      BY <1>0, <2>1 DEF FinalRead, Running
    <3> QED
      BY <3>1 DEF EnabledStaysArmed, Quiet, After
  <2>2. CASE RunArm(r)
    BY <2>2 DEF RunArm, Armed, EnabledStaysArmed
  <2>3. CASE Fire(r) \/ ReadState(r)
    <3>1. CASE Fire(r)
      BY <1>0, <3>1 DEF Fire, Running, Idle, EnabledStaysArmed, Quiet
    <3>2. CASE ReadState(r)
      <4>1. PICK pc \in {"save", "saving", "catching"} : Running(r, [pc |-> pc, copy |-> enabled])
        BY <3>2 DEF ReadState
      <4>2. run'[r].pc # "idle"
        BY <1>0, <4>1 DEF Running
      <4> QED
        BY <4>2 DEF EnabledStaysArmed, Quiet
    <3> QED
      BY <2>3, <3>1, <3>2
  <2>4. CASE SaveStarted(r) \/ CycleEnds(r) \/ SaveEnded(r) \/ EndFails(r)
    <3>1. PICK pc \in {"cycle", "ended", "caught", "final"} : Running(r, [run[r] EXCEPT !.pc = pc])
      BY <2>4 DEF SaveStarted, CycleEnds, SaveEnded, EndFails
    <3>2. run'[r].pc # "idle"
      BY <1>0, <3>1 DEF Running, Run
    <3> QED
      BY <3>2 DEF EnabledStaysArmed, Quiet
  <2> QED
    BY <1>8, <2>1, <2>2, <2>3, <2>4 DEF RunStep
<1>9. CASE UNCHANGED vars
  BY <1>9 DEF vars, EnabledStaysArmed, Quiet
<1> QED
  BY <1>1, <1>2, <1>3, <1>4, <1>5, <1>6, <1>7, <1>8, <1>9 DEF Next, StartStep

-----------------------------------------------------------------------------
(* Theorems. *)

LEMMA InitHolds == Init => IInv
<1> SUFFICES ASSUME Init PROVE IInv
  OBVIOUS
<1>1. TypeInv
  <2>1. request \in [Requests -> Caller] /\ run \in [Runs -> Run] /\ starter \in Caller
    BY IdleType DEF Init
  <2>2. stray \in Nat /\ changes \in 0..MaxChanges
    BY SchedulerAssumption DEF Init
  <2>3. wanted \in BOOLEAN /\ enabled \in BOOLEAN
    BY Zenon DEF Init
  <2> QED
    BY <2>1, <2>2, <2>3 DEF Init, TypeInv, TypeOK
<1>2. FlagInv
  BY DEF Init, FlagInv, Active, Idle
<1>3. EnabledStaysArmed
  BY DEF Init, EnabledStaysArmed
<1> QED
  BY <1>1, <1>2, <1>3 DEF IInv

LEMMA Invariance == Spec => []IInv
<1>1. IInv /\ [Next]_vars => IInv'
  BY TypeStep, FlagStep, ArmedStep DEF IInv
<1> QED
  BY <1>1, InitHolds, PTL DEF Spec

\* The scheduler, its callers and executions stay within their types.
THEOREM TypesHold == Spec => []TypeOK
<1>1. IInv => TypeOK
  BY DEF IInv, TypeInv
<1> QED
  BY <1>1, Invariance, PTL

\* One scheduled cycle at a time, however many timers are armed and however the
\* settings change: the running flag of runNow is enough.
THEOREM CyclesDoNotOverlap == Spec => []OneCycle
<1>1. IInv => OneCycle
  BY DEF IInv, FlagInv, Active, OneCycle
<1> QED
  BY <1>1, Invariance, PTL

\* When nothing is in progress an enabled scheduler has its next run, unless a
\* file operation failed: runNow and configure never both leave it to the other.
THEOREM EnabledHasNextRun == Spec => []EnabledStaysArmed
<1>1. IInv => EnabledStaysArmed
  BY DEF IInv
<1> QED
  BY <1>1, Invariance, PTL
=============================================================================
