----------------------------- MODULE PaperAccount -----------------------------
(***************************************************************************)
(* The paper accounts of the sidecar: one file with an account for each     *)
(* session, and the requests that change it -- the daily run, a manual      *)
(* order, the automation cycle, a reset -- or only look at it.              *)
(*                                                                         *)
(* Every request reads the whole file, works on its copy and writes the    *)
(* whole copy back.  The write is not atomic (writeFile truncates, then    *)
(* writes), and whoever reads a file it cannot parse puts it aside and     *)
(* writes fresh accounts in its place, a mere look included.  The cycle    *)
(* also writes the worker state, a second file, before the first.          *)
(*                                                                         *)
(* A run or a cycle is synchronous between its awaits; its loops over      *)
(* positions, candidates and orders are steps here, on its own copy only.  *)
(* Average prices, realised gains, logs and the trimming of the histories  *)
(* are left out; the signals that pick trades are choices.                 *)
(***************************************************************************)
EXTENDS Integers, FiniteSets

CONSTANTS
    Requests,           \* concurrent requests
    Jobs,               \* what each of them may ask for
    Sessions, Symbols,
    Steps,              \* the ladder steps and stop-losses of the strategies
    StepOf,             \* session, symbol, side, quantity and price of each
    Stages,             \* partial sales of the daily run (completedStages)
    Prices, Quantities,
    InitialCash,
    MaxDailyEntries, MaxPositions,
    MaxDay,             \* bound: the days 0..MaxDay
    MaxRequests         \* bound: requests made

ASSUME PaperAssumption ==
    /\ Sessions # {}
    /\ Jobs \in [Requests -> SUBSET {"daily", "order", "cycle", "reset", "look"}]
    /\ StepOf \in [Steps -> [session : Sessions, symbol : Symbols, quantity : Nat, price : Nat,
                            side : {"buy", "sell", "stop-loss"}]]
    /\ Prices \subseteq Nat \ {0} /\ Quantities \subseteq Nat \ {0}
    /\ {InitialCash, MaxDailyEntries, MaxPositions, MaxDay, MaxRequests} \subseteq Nat

VARIABLES
    day,        \* the date (UTC)
    file,       \* state.json
    steps,      \* the worker state of each session's strategy: one date
    enabled,    \* the sessions whose strategy is enabled
    request,    \* what each request is doing
    made,       \* requests so far
    told,       \* executions the callers were told of since the last reset
    disturbed   \* a request overlapped another or was killed while writing

vars == <<day, file, steps, enabled, request, made, told, disturbed>>

-----------------------------------------------------------------------------
(* Types. *)

Days == 0..MaxDay

\* The account of a session with its positions and its history; the history as
\* the number of executions, and which are of a step or an entry of a day.
Account == [cash : Nat,
            held : [Symbols -> Nat],
            stages : [Symbols -> SUBSET Stages],
            lastRun : Days \cup {-1},
            executions : Nat,
            entries : [Days -> Nat],
            fills : [Days -> [Steps -> Nat]]]

DefaultAccount == [cash |-> InitialCash,
                   held |-> [x \in Symbols |-> 0],
                   stages |-> [x \in Symbols |-> {}],
                   lastRun |-> -1,
                   executions |-> 0,
                   entries |-> [d \in Days |-> 0],
                   fills |-> [d \in Days |-> [s \in Steps |-> 0]]]
Accounts == [Sessions -> Account]
DefaultAccounts == [s \in Sessions |-> DefaultAccount]

\* "torn": truncated or with the rest of a longer one behind it.
File == [kind : {"ok", "torn", "missing"}, accounts : Accounts]

WorkerState == [day : Days, done : SUBSET Steps]

Request == [pc : {"idle", "read", "repair", "repairing", "work", "enter", "steps", "fill",
                  "write", "writing"},
            job : {"daily", "order", "cycle", "reset", "look"},
            session : Sessions,         \* of the run, the order or the strategy in turn
            day : Days,                 \* the date when it had read the file
            copy : Accounts,
            left : SUBSET Symbols,      \* positions the run has not looked at
            entered : Nat,              \* its new entries
            todo : SUBSET Sessions,     \* strategies the cycle has not evaluated
            orders : SUBSET Steps,      \* submitted by the tick, not yet filled
            added : [Sessions -> Nat],  \* executions of this request
            attached : BOOLEAN]         \* its open file is still state.json
IdleRequest == [pc |-> "idle", job |-> "look", session |-> CHOOSE s \in Sessions : TRUE,
                day |-> 0, copy |-> DefaultAccounts, left |-> Symbols, entered |-> 0,
                todo |-> {}, orders |-> {}, added |-> [s \in Sessions |-> 0],
                attached |-> FALSE]

-----------------------------------------------------------------------------
(* Trades on a copy of the account. *)

\* Mutant: the cash is not asked.
AffordableAlways(account, quantity, price) == TRUE

Affordable(account, quantity, price) == account.cash >= quantity * price

Buy(account, x, quantity, price) ==
    [account EXCEPT !.cash = @ - quantity * price,
                    !.held[x] = @ + quantity,
                    !.executions = @ + 1]

\* A position sold out is gone, and the stages with it.
Sell(account, x, quantity, price) ==
    [account EXCEPT !.cash = @ + quantity * price,
                    !.held[x] = @ - quantity,
                    !.stages[x] = IF account.held[x] = quantity THEN {} ELSE @,
                    !.executions = @ + 1]

Positions(account) == {x \in Symbols : account.held[x] > 0}

\* Floor of 30%.
Part(quantity) == (quantity * 3) \div 10

SellPart(account, x, stage, price) ==
    [Sell(account, x, Part(account.held[x]), price) EXCEPT !.stages[x] = @ \cup {stage}]

BuyEntry(account, x, quantity, price, d) ==
    [Buy(account, x, quantity, price) EXCEPT !.entries[d] = @ + 1]

-----------------------------------------------------------------------------
Step(r, rec) == request' = [request EXCEPT ![r] = rec]
Busy == {r \in Requests : request[r].pc # "idle"}

\* Mutant: the write drops the other session's account.
WrittenAlone(rec, account) == [DefaultAccounts EXCEPT ![rec.session] = account]

\* applyPaperTradingRunResult.
Written(rec, account) == [rec.copy EXCEPT ![rec.session] = account]

Traded(rec, account, pc) ==
    [rec EXCEPT !.pc = pc, !.copy = Written(rec, account), !.added[rec.session] = @ + 1]

Ask(r) ==
    /\ request[r].pc = "idle"
    /\ made < MaxRequests
    /\ made' = made + 1
    /\ \E job \in Jobs[r], s \in Sessions :
          /\ job = "cycle" => enabled # {}
          /\ Step(r, [IdleRequest EXCEPT !.pc = IF job = "reset" THEN "write" ELSE "read",
                                         !.job = job, !.session = s,
                                         !.todo = IF job = "cycle" THEN enabled ELSE {}])
    /\ disturbed' = (disturbed \/ Busy # {})
    /\ UNCHANGED <<day, file, steps, enabled, told>>

\* A look, or a dry run, ends here.
Begun(rec, accounts) ==
    CASE rec.job = "look" -> IdleRequest
      [] rec.job = "cycle" -> [rec EXCEPT !.copy = accounts, !.day = day, !.pc = "steps"]
      [] OTHER -> [rec EXCEPT !.copy = accounts, !.day = day, !.pc = "work"]

\* A file that does not parse is put aside: whoever is writing it writes the
\* copy put aside.
Read(r) ==
    /\ request[r].pc = "read"
    /\ \/ /\ file.kind = "ok"
          /\ Step(r, Begun(request[r], file.accounts))
          /\ UNCHANGED file
       \/ /\ file.kind = "torn"
          /\ file' = [file EXCEPT !.kind = "missing"]
          /\ request' = [q \in Requests |->
                            [request[q] EXCEPT !.attached = FALSE,
                                               !.pc = IF q = r THEN "repair" ELSE @]]
       \/ /\ file.kind = "missing"
          /\ Step(r, [request[r] EXCEPT !.pc = "repair"])
          /\ UNCHANGED file
    /\ UNCHANGED <<day, steps, enabled, made, told, disturbed>>

\* writeFile truncates; what it writes is there later.
Truncate(r) ==
    /\ request[r].pc \in {"repair", "write"}
    /\ file' = [file EXCEPT !.kind = "torn"]
    /\ Step(r, [request[r] EXCEPT !.pc = IF @ = "repair" THEN "repairing" ELSE "writing",
                                  !.attached = TRUE])
    /\ UNCHANGED <<day, steps, enabled, made, told, disturbed>>

\* Over what another request wrote meanwhile, the longer one keeps its rest.
Flush(rec, accounts) ==
    IF rec.attached
    THEN \/ file' = [kind |-> "ok", accounts |-> accounts]
         \/ file.kind = "ok" /\ file' = [file EXCEPT !.kind = "torn"]
    ELSE UNCHANGED file

Repair(r) ==
    /\ request[r].pc = "repairing"
    /\ Flush(request[r], DefaultAccounts)
    /\ Step(r, [Begun(request[r], DefaultAccounts) EXCEPT !.attached = FALSE])
    /\ UNCHANGED <<day, steps, enabled, made, told, disturbed>>

Write(r) ==
    /\ request[r].pc = "writing"
    /\ Flush(request[r], request[r].copy)
    /\ Step(r, IdleRequest)
    /\ told' = IF request[r].job = "reset"
               THEN [s \in Sessions |-> 0]
               ELSE [s \in Sessions |-> told[s] + request[r].added[s]]
    /\ UNCHANGED <<day, steps, enabled, made, disturbed>>

-----------------------------------------------------------------------------
(* The manual order: filled at its price, or refused without a write. *)

PlaceOrder(r) ==
    /\ request[r].pc = "work" /\ request[r].job = "order"
    /\ LET rec == request[r]
           account == rec.copy[rec.session]
       IN  \E x \in Symbols, quantity \in Quantities, price \in Prices :
              \/ /\ Affordable(account, quantity, price)
                 /\ Step(r, Traded(rec, Buy(account, x, quantity, price), "write"))
              \/ /\ account.held[x] >= quantity
                 /\ Step(r, Traded(rec, Sell(account, x, quantity, price), "write"))
    /\ UNCHANGED <<day, file, steps, enabled, made, told, disturbed>>

Refuse(r) ==
    /\ request[r].pc = "work" /\ request[r].job = "order"
    /\ Step(r, IdleRequest)
    /\ UNCHANGED <<day, file, steps, enabled, made, told, disturbed>>

-----------------------------------------------------------------------------
(* The daily run, after the candidates are in: the sales of the positions, then *)
(* the entries.                                                                *)

\* A second run of the day changes nothing and is written all the same.
Skip(r) ==
    /\ request[r].pc = "work" /\ request[r].job = "daily"
    /\ request[r].copy[request[r].session].lastRun = request[r].day
    /\ Step(r, [request[r] EXCEPT !.pc = "write"])
    /\ UNCHANGED <<day, file, steps, enabled, made, told, disturbed>>

Looked(rec, x) == [rec EXCEPT !.left = @ \ {x}]

\* Each position once: sold out at the portfolio stop, in part at another stage
\* not completed before.
SellHolding(r) ==
    /\ request[r].pc = "work" /\ request[r].job = "daily"
    /\ LET rec == request[r]
           account == rec.copy[rec.session]
       IN  /\ account.lastRun # rec.day
           /\ \E x \in Positions(account) \cap rec.left, price \in Prices :
                 \/ Step(r, Looked(Traded(rec, Sell(account, x, account.held[x], price), "work"), x))
                 \/ \E stage \in Stages \ account.stages[x] :
                       /\ Part(account.held[x]) > 0
                       /\ Step(r, Looked(Traded(rec, SellPart(account, x, stage, price), "work"), x))
    /\ UNCHANGED <<day, file, steps, enabled, made, told, disturbed>>

\* The sales are done; a failed scan comes here at once and enters nothing.
EntriesDue(r) ==
    /\ request[r].pc = "work" /\ request[r].job = "daily"
    /\ request[r].copy[request[r].session].lastRun # request[r].day
    /\ Step(r, [request[r] EXCEPT !.pc = "enter"])
    /\ UNCHANGED <<day, file, steps, enabled, made, told, disturbed>>

Counted(rec) == [rec EXCEPT !.entered = @ + 1]

Enter(r) ==
    /\ request[r].pc = "enter"
    /\ LET rec == request[r]
           account == rec.copy[rec.session]
       IN  /\ rec.entered < MaxDailyEntries
           /\ Cardinality(Positions(account)) < MaxPositions
           /\ \E x \in Symbols \ Positions(account), quantity \in Quantities, price \in Prices :
                 /\ Affordable(account, quantity, price)
                 /\ Step(r, Counted(Traded(rec,
                                BuyEntry(account, x, quantity, price, rec.day), "enter")))
    /\ UNCHANGED <<day, file, steps, enabled, made, told, disturbed>>

\* Mutant: the run is not dated.
EndRunUndated(r) ==
    /\ request[r].pc = "enter"
    /\ Step(r, [request[r] EXCEPT !.pc = "write"])
    /\ UNCHANGED <<day, file, steps, enabled, made, told, disturbed>>

EndRun(r) ==
    /\ request[r].pc = "enter"
    /\ LET rec == request[r]
       IN  Step(r, [rec EXCEPT !.pc = "write", !.copy[rec.session].lastRun = rec.day])
    /\ UNCHANGED <<day, file, steps, enabled, made, told, disturbed>>

-----------------------------------------------------------------------------
(* The cycle: a tick of the worker for each enabled strategy, then its orders    *)
(* on the copy.  WorkerTick has the tick itself; here it is one step.           *)

StepsOf(s) == {step \in Steps : StepOf[step].session = s}
StopLosses == {step \in Steps : StepOf[step].side = "stop-loss"}

\* The worker state of another date reads as empty.
Executed(s, d) == IF steps[s].day = d THEN steps[s].done ELSE {}

\* Mutant: a tick offers what it has executed.
DueAgain(s, d) == StepsOf(s)

Due(s, d) == StepsOf(s) \ Executed(s, d)

\* Any ladder orders, or a stop-loss of what the copy holds.
Ticked(orders, s, rec) ==
    \/ orders \subseteq Due(s, rec.day) \ StopLosses
    \/ \E step \in Due(s, rec.day) \cap StopLosses :
          orders = {step} /\ rec.copy[s].held[StepOf[step].symbol] > 0

\* The paper broker takes everything, so the worker state has every order when the
\* tick ends; no order is filled yet.
Evaluate(r) ==
    /\ request[r].pc = "steps"
    /\ LET rec == request[r]
       IN  \E s \in rec.todo, orders \in SUBSET Steps :
              /\ Ticked(orders, s, rec)
              /\ steps' = [steps EXCEPT ![s] =
                              [day |-> rec.day, done |-> Executed(s, rec.day) \cup orders]]
              /\ Step(r, [rec EXCEPT !.session = s, !.todo = @ \ {s}, !.orders = orders,
                                     !.pc = IF orders = {} THEN "steps" ELSE "fill"])
    /\ UNCHANGED <<day, file, enabled, made, told, disturbed>>

AfterFill(rec, step) == IF rec.orders = {step} THEN "steps" ELSE "fill"

Filled(rec, step, account) ==
    [Traded(rec, [account EXCEPT !.fills[rec.day][step] = @ + 1], AfterFill(rec, step))
        EXCEPT !.orders = @ \ {step}]

FillOrder(r) ==
    /\ request[r].pc = "fill"
    /\ LET rec == request[r]
           account == rec.copy[rec.session]
       IN  \E step \in rec.orders :
              LET order == StepOf[step]
              IN  \/ /\ order.side = "buy"
                     /\ Affordable(account, order.quantity, order.price)
                     /\ Step(r, Filled(rec, step,
                            Buy(account, order.symbol, order.quantity, order.price)))
                  \/ /\ order.side = "sell"
                     /\ account.held[order.symbol] >= order.quantity
                     /\ Step(r, Filled(rec, step,
                            Sell(account, order.symbol, order.quantity, order.price)))
    /\ UNCHANGED <<day, file, steps, enabled, made, told, disturbed>>

\* At the market price; the strategy is disabled before the file is written.
FillStopLoss(r) ==
    /\ request[r].pc = "fill"
    /\ LET rec == request[r]
           account == rec.copy[rec.session]
       IN  /\ \E step \in rec.orders \cap StopLosses, price \in Prices :
                 LET x == StepOf[step].symbol
                 IN  Step(r, Filled(rec, step, Sell(account, x, account.held[x], price)))
           /\ enabled' = enabled \ {rec.session}
    /\ UNCHANGED <<day, file, steps, made, told, disturbed>>

\* No cash, or too little held: nothing is filled, and the step stays executed.
RejectFill(r) ==
    /\ request[r].pc = "fill"
    /\ LET rec == request[r]
           account == rec.copy[rec.session]
       IN  \E step \in rec.orders :
              LET order == StepOf[step]
              IN  /\ \/ order.side = "buy" /\ ~Affordable(account, order.quantity, order.price)
                     \/ order.side = "sell" /\ account.held[order.symbol] < order.quantity
                  /\ Step(r, [rec EXCEPT !.orders = @ \ {step}, !.pc = AfterFill(rec, step)])
    /\ UNCHANGED <<day, file, steps, enabled, made, told, disturbed>>

EndCycle(r) ==
    /\ request[r].pc = "steps"
    /\ request[r].todo = {}
    /\ Step(r, [request[r] EXCEPT !.pc = "write"])
    /\ UNCHANGED <<day, file, steps, enabled, made, told, disturbed>>

-----------------------------------------------------------------------------
\* Killed, or a read or write throws.
Abort(r) ==
    /\ request[r].pc # "idle"
    /\ Step(r, IdleRequest)
    /\ disturbed' = (disturbed \/ request[r].pc \in {"repairing", "writing"})
    /\ UNCHANGED <<day, file, steps, enabled, made, told>>

\* The user simulates and enables the strategy again.
Enable ==
    /\ enabled # Sessions
    /\ enabled' = Sessions
    /\ UNCHANGED <<day, file, steps, request, made, told, disturbed>>

NextDay ==
    /\ day < MaxDay
    /\ day' = day + 1
    /\ UNCHANGED <<file, steps, enabled, request, made, told, disturbed>>

Init ==
    /\ day = 0
    /\ file = [kind |-> "missing", accounts |-> DefaultAccounts]
    /\ steps = [s \in Sessions |-> [day |-> 0, done |-> {}]]
    /\ enabled = Sessions
    /\ request = [r \in Requests |-> IdleRequest]
    /\ made = 0
    /\ told = [s \in Sessions |-> 0]
    /\ disturbed = FALSE

Trade(r) ==
    \/ PlaceOrder(r) \/ Refuse(r)
    \/ Skip(r) \/ SellHolding(r) \/ EntriesDue(r) \/ Enter(r) \/ EndRun(r)
    \/ Evaluate(r) \/ FillOrder(r) \/ FillStopLoss(r) \/ RejectFill(r) \/ EndCycle(r)

Next ==
    \/ \E r \in Requests :
          Ask(r) \/ Read(r) \/ Truncate(r) \/ Repair(r) \/ Write(r) \/ Trade(r) \/ Abort(r)
    \/ Enable
    \/ NextDay

Spec == Init /\ [][Next]_vars

-----------------------------------------------------------------------------
(* Properties. *)

TypeOK ==
    /\ day \in Days
    /\ file \in File
    /\ steps \in [Sessions -> WorkerState]
    /\ enabled \subseteq Sessions
    /\ request \in [Requests -> Request]
    /\ made \in 0..MaxRequests
    /\ told \in [Sessions -> Nat]
    /\ disturbed \in BOOLEAN

\* With one cycle at a time a strategy fills a step at most once a day, although
\* requests overwrite each other's accounts and the two files of the cycle are
\* written apart (the dedup keys of worker-state.ts).
StepFilledOnce ==
    \A s \in Sessions, d \in Days, step \in Steps : file.accounts[s].fills[d][step] <= 1

\* The daily run enters at most MaxDailyEntries positions a day, however often it
\* is asked for, overlapped or killed.
EntriesADay ==
    \A s \in Sessions, d \in Days : file.accounts[s].entries[d] <= MaxDailyEntries

\* If no two requests overlap and none is killed while it writes, the file has
\* every execution a caller was told of, in both sessions.
FillsKept ==
    ~disturbed /\ Busy = {} =>
        /\ file.kind # "torn"
        /\ \A s \in Sessions : file.accounts[s].executions = told[s]
=============================================================================
