------------------------------ MODULE Scheduler ------------------------------
(***************************************************************************)
(* The continuous automation of the sidecar (local-scheduler.ts): one      *)
(* timer, a running flag in memory, and a settings file that three         *)
(* operations read, wait, and write back whole.                            *)
(*                                                                         *)
(* The sidecar is one thread.  An action runs from one file operation to   *)
(* the next: the effect of the operation and the code after it.  Of the    *)
(* file only `enabled` decides anything; interval, messages and times are  *)
(* carried along.                                                          *)
(***************************************************************************)
EXTENDS Integers, FiniteSets

CONSTANTS
    Requests,       \* concurrent PUT requests
    Runs,           \* bound: executions of runNow at a time
    MaxChanges      \* bound: PUT requests in all

ASSUME SchedulerAssumption == MaxChanges \in Nat

VARIABLES
    up,
    enabled,        \* the file
    wanted,         \* what the last configure wrote
    timer,          \* this.timer is armed
    stray,          \* armed timers whose handle was overwritten
    running,        \* this.running
    broken,         \* a configure or start failed and nothing was armed since
    changes,        \* PUT requests so far
    starter, request, run

vars == <<up, enabled, wanted, timer, stray, running, broken, changes, starter, request, run>>

\* copy is the `enabled` the operation has read, or is to write.
Caller == [pc : {"idle", "read", "save", "arm"}, copy : BOOLEAN]
Run == [pc : {"idle", "read", "save", "cycle", "ended", "saving", "caught", "catching", "final", "arm"},
        copy : BOOLEAN]
Idle == [pc |-> "idle", copy |-> FALSE]

-----------------------------------------------------------------------------
(* The timer. *)

\* Mutant: every expiry is taken for a stray one.
ExpiredStray(left) == (timer \/ stray > 0) /\ stray' = stray - 1 /\ timer' = left

\* A timer expires; `left` is what becomes of the handle when it was not its own.
Expired(left) ==
    \/ /\ timer
       /\ timer' = FALSE
       /\ UNCHANGED stray
    \/ /\ stray > 0
       /\ stray' = stray - 1
       /\ timer' = left

\* Mutant: nobody is scheduled.
NeverAfter(copy) == [pc |-> "idle", copy |-> copy]

\* if (state.enabled) scheduleNext
After(copy) == [pc |-> IF copy THEN "arm" ELSE "idle", copy |-> copy]

\* The end of scheduleNext: the save, then setTimeout.  Its stop() ran before
\* the save, so a timer armed meanwhile loses its handle.
Armed(copy) ==
    /\ enabled' = copy
    /\ stray' = IF timer THEN stray + 1 ELSE stray
    /\ timer' = TRUE
    /\ broken' = FALSE

-----------------------------------------------------------------------------
(* start *)

Launch ==
    /\ ~up
    /\ up' = TRUE
    /\ starter' = [Idle EXCEPT !.pc = "read"]
    /\ UNCHANGED <<enabled, wanted, timer, stray, running, broken, changes, request, run>>

\* scheduleNext begins with stop().
StartRead ==
    /\ starter.pc = "read"
    /\ starter' = After(enabled)
    /\ timer' = (timer /\ ~enabled)
    /\ UNCHANGED <<up, enabled, wanted, stray, running, broken, changes, request, run>>

StartArm ==
    /\ starter.pc = "arm"
    /\ Armed(starter.copy)
    /\ starter' = Idle
    /\ UNCHANGED <<up, wanted, running, changes, request, run>>

\* A failed file operation ends the start; the server keeps serving.
StartFails ==
    /\ starter.pc # "idle"
    /\ starter' = Idle
    /\ broken' = TRUE
    /\ UNCHANGED <<up, enabled, wanted, timer, stray, running, changes, request, run>>

-----------------------------------------------------------------------------
(* configure *)

Asking(q, rec) ==
    /\ request' = [request EXCEPT ![q] = rec]
    /\ UNCHANGED <<up, running, starter, run>>

\* stop(), then the read; copy is what the user wants.
Configure(q) ==
    /\ up /\ request[q].pc = "idle"
    /\ changes < MaxChanges
    /\ changes' = changes + 1
    /\ \E want \in BOOLEAN : Asking(q, [pc |-> "read", copy |-> want])
    /\ timer' = FALSE
    /\ UNCHANGED <<enabled, wanted, stray, broken>>

\* What is read is overwritten, apart from the fields left out here.
ConfigureRead(q) ==
    /\ request[q].pc = "read"
    /\ Asking(q, [request[q] EXCEPT !.pc = "save"])
    /\ UNCHANGED <<enabled, wanted, timer, stray, broken, changes>>

ConfigureSave(q) ==
    /\ request[q].pc = "save"
    /\ LET want == request[q].copy
       IN  /\ enabled' = want /\ wanted' = want
           /\ Asking(q, After(want))
           /\ timer' = (timer /\ ~want)
    /\ UNCHANGED <<stray, broken, changes>>

ConfigureArm(q) ==
    /\ request[q].pc = "arm"
    /\ Armed(request[q].copy)
    /\ Asking(q, Idle)
    /\ UNCHANGED <<wanted, changes>>

ConfigureFails(q) ==
    /\ request[q].pc # "idle"
    /\ Asking(q, Idle)
    /\ broken' = TRUE
    /\ UNCHANGED <<enabled, wanted, timer, stray, changes>>

-----------------------------------------------------------------------------
(* runNow *)

Running(r, rec) ==
    /\ run' = [run EXCEPT ![r] = rec]
    /\ UNCHANGED <<up, wanted, changes, starter, request>>

\* Mutant: the flag is not asked.
AlwaysFree == TRUE

Free == ~running

\* The flag is up before the first await.
Fire(r) ==
    /\ Free
    /\ run[r].pc = "idle"
    /\ Expired(FALSE)
    /\ running' = TRUE
    /\ Running(r, [Idle EXCEPT !.pc = "read"])
    /\ UNCHANGED <<enabled, broken>>

\* "The previous cycle is still running": nothing is scheduled here.
FireBusy ==
    /\ running
    /\ Expired(timer)
    /\ UNCHANGED <<up, enabled, wanted, running, broken, changes, starter, request, run>>

\* The three read-then-save pairs: before the cycle, after it, in the catch.
ReadState(r) ==
    /\ \E step \in {<<"read", "save">>, <<"ended", "saving">>, <<"caught", "catching">>} :
          run[r].pc = step[1] /\ Running(r, [pc |-> step[2], copy |-> enabled])
    /\ UNCHANGED <<enabled, timer, stray, running, broken>>

SaveStarted(r) ==
    /\ run[r].pc = "save"
    /\ enabled' = run[r].copy
    /\ Running(r, [run[r] EXCEPT !.pc = "cycle"])
    /\ UNCHANGED <<timer, stray, running, broken>>

\* runCycle returns or throws.
CycleEnds(r) ==
    /\ run[r].pc = "cycle"
    /\ \E pc \in {"ended", "caught"} : Running(r, [run[r] EXCEPT !.pc = pc])
    /\ UNCHANGED <<enabled, timer, stray, running, broken>>

\* Mutant: the flag stays up.
KeepFlag == UNCHANGED running

\* The finally block begins.
DropFlag == running' = FALSE

SaveEnded(r) ==
    /\ run[r].pc \in {"saving", "catching"}
    /\ enabled' = run[r].copy
    /\ Running(r, [run[r] EXCEPT !.pc = "final"])
    /\ DropFlag
    /\ UNCHANGED <<timer, stray, broken>>

\* A failed read or save after the cycle is caught and the catch tries again;
\* a failure of the catch goes through the finally block (and then out of
\* runNow: see Exit).
EndFails(r) ==
    /\ \/ /\ run[r].pc \in {"ended", "saving"}
          /\ Running(r, [run[r] EXCEPT !.pc = "caught"])
          /\ UNCHANGED running
       \/ /\ run[r].pc \in {"caught", "catching"}
          /\ Running(r, [run[r] EXCEPT !.pc = "final"])
          /\ DropFlag
    /\ UNCHANGED <<enabled, timer, stray, broken>>

FinalRead(r) ==
    /\ run[r].pc = "final"
    /\ Running(r, After(enabled))
    /\ timer' = (timer /\ ~enabled)
    /\ UNCHANGED <<enabled, stray, running, broken>>

RunArm(r) ==
    /\ run[r].pc = "arm"
    /\ Armed(run[r].copy)
    /\ Running(r, Idle)
    /\ UNCHANGED running

\* The process ends: a quit, a crash, or an exception out of runNow, which
\* nothing awaits (an unhandled rejection).
Exit ==
    /\ up
    /\ up' = FALSE /\ timer' = FALSE /\ stray' = 0 /\ running' = FALSE /\ broken' = FALSE
    /\ starter' = Idle
    /\ request' = [q \in Requests |-> Idle]
    /\ run' = [r \in Runs |-> Idle]
    /\ UNCHANGED <<enabled, wanted, changes>>

-----------------------------------------------------------------------------
Init ==
    /\ up = FALSE
    /\ enabled \in BOOLEAN
    /\ wanted = enabled
    /\ timer = FALSE /\ stray = 0 /\ running = FALSE /\ broken = FALSE
    /\ changes = 0
    /\ starter = Idle
    /\ request = [q \in Requests |-> Idle]
    /\ run = [r \in Runs |-> Idle]

StartStep == StartRead \/ StartArm
ConfigureStep(q) == ConfigureRead(q) \/ ConfigureSave(q) \/ ConfigureArm(q)
RunStep(r) ==
    \/ ReadState(r) \/ SaveStarted(r) \/ CycleEnds(r) \/ SaveEnded(r) \/ FinalRead(r) \/ RunArm(r)

Next ==
    \/ Launch \/ Exit \/ StartStep \/ StartFails
    \/ \E q \in Requests : Configure(q) \/ ConfigureStep(q) \/ ConfigureFails(q)
    \/ FireBusy
    \/ \E r \in Runs : Fire(r) \/ RunStep(r) \/ EndFails(r)

Spec == Init /\ [][Next]_vars

\* File operations and cycles end and timers expire.  A user who changes the
\* settings for ever would restart the interval for ever; MaxChanges stops that.
FairSpec ==
    /\ Spec
    /\ WF_vars(StartStep)
    /\ \A q \in Requests : WF_vars(ConfigureStep(q))
    /\ \A r \in Runs : WF_vars(RunStep(r))
    /\ WF_vars(FireBusy \/ \E r \in Runs : Fire(r))

-----------------------------------------------------------------------------
(* Properties. *)

TypeOK ==
    /\ up \in BOOLEAN /\ enabled \in BOOLEAN /\ wanted \in BOOLEAN
    /\ timer \in BOOLEAN /\ running \in BOOLEAN /\ broken \in BOOLEAN
    /\ stray \in Nat /\ changes \in 0..MaxChanges
    /\ starter \in Caller
    /\ request \in [Requests -> Caller]
    /\ run \in [Runs -> Run]

\* However many timers were armed, one scheduled cycle runs at a time
\* ("prevents overlap", local_engine.test.mts).
OneCycle == \A r, s \in Runs : run[r].pc = "cycle" /\ run[s].pc = "cycle" => r = s

Quiet ==
    /\ starter.pc = "idle"
    /\ \A q \in Requests : request[q].pc = "idle"
    /\ \A r \in Runs : run[r].pc = "idle"

\* Settings, cycles and restarts may cross in any order: when all of them are
\* done an enabled scheduler has its next run, unless a file operation failed.
EnabledStaysArmed == up /\ Quiet /\ enabled /\ ~broken => timer

\* An enabled scheduler comes to run a cycle.
EnabledRuns ==
    (up /\ enabled /\ ~broken)
        ~> (~up \/ ~enabled \/ broken \/ \E r \in Runs : run[r].pc = "cycle")

\* Once the user's disable is in the file it stays there until the user enables
\* again ("OFF: active strategies are not run automatically",
\* StockAnalysisMacApp.swift).
DisableStays ==
    (\A q \in Requests : request[q].pc = "idle") /\ ~wanted => ~enabled
=============================================================================
