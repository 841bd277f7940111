------------------------- MODULE PaperAccount_proofs -------------------------
(***************************************************************************)
(* Theorems about PaperAccount, for any sessions, strategies, requests and *)
(* limits.                                                                 *)
(***************************************************************************)
EXTENDS PaperAccount, TLAPS

-----------------------------------------------------------------------------
(* Types. *)

Pcs == {"idle", "read", "repair", "repairing", "work", "enter", "steps", "fill", "write", "writing"}
Kinds == {"daily", "order", "cycle", "reset", "look"}

LEMMA DefaultTypes ==
    /\ DefaultAccount \in Account /\ DefaultAccounts \in Accounts
    /\ IdleRequest \in Request
<1>1. InitialCash \in Nat /\ 0 \in Days /\ -1 \in Days \cup {-1}
  BY PaperAssumption DEF Days
<1>2. DefaultAccount \in Account
  BY <1>1 DEF DefaultAccount, Account
<1>3. DefaultAccounts \in Accounts
  BY <1>2 DEF DefaultAccounts, Accounts
<1>4. (CHOOSE s \in Sessions : TRUE) \in Sessions
  BY PaperAssumption
<1> QED
  BY <1>1, <1>2, <1>3, <1>4 DEF IdleRequest, Request

\* A trade keeps an account an account, and its dates, entries and fills.
LEMMA BuyTypes ==
    ASSUME NEW account \in Account, NEW x \in Symbols, NEW quantity \in Nat, NEW price \in Nat,
           Affordable(account, quantity, price)
    PROVE  /\ Buy(account, x, quantity, price) \in Account
           /\ Buy(account, x, quantity, price).entries = account.entries
           /\ Buy(account, x, quantity, price).fills = account.fills
           /\ Buy(account, x, quantity, price).lastRun = account.lastRun
           /\ Buy(account, x, quantity, price).executions = account.executions + 1
<1>1. quantity * price \in Nat /\ account.cash - quantity * price \in Nat
  BY DEF Affordable, Account
<1> DEFINE cost == quantity * price
<1> HIDE DEF cost
<1>2. account.cash - cost \in Nat
  BY <1>1 DEF cost
<1> DEFINE held == [account.held EXCEPT ![x] = @ + quantity]
<1>3. held \in [Symbols -> Nat]
  BY DEF Account
<1>b. Buy(account, x, quantity, price)
        = [account EXCEPT !.cash = account.cash - cost, !.held = held,
                          !.executions = account.executions + 1]
  BY DEF Buy, cost, Account
<1> HIDE DEF held
<1>4. Buy(account, x, quantity, price)
        = [cash |-> account.cash - cost, held |-> held, stages |-> account.stages,
           lastRun |-> account.lastRun, executions |-> account.executions + 1,
           entries |-> account.entries, fills |-> account.fills]
  BY <1>b DEF Account
<1>5. account.executions + 1 \in Nat
  BY DEF Account
<1>6. /\ account.stages \in [Symbols -> SUBSET Stages] /\ account.lastRun \in Days \cup {-1}
      /\ account.entries \in [Days -> Nat] /\ account.fills \in [Days -> [Steps -> Nat]]
  BY DEF Account
<1>7. Buy(account, x, quantity, price) \in Account
  BY <1>2, <1>3, <1>4, <1>5, <1>6 DEF Account
<1> QED
  BY <1>4, <1>7

LEMMA SellTypes ==
    ASSUME NEW account \in Account, NEW x \in Symbols, NEW quantity \in Nat, NEW price \in Nat,
           account.held[x] >= quantity
    PROVE  /\ Sell(account, x, quantity, price) \in Account
           /\ Sell(account, x, quantity, price).entries = account.entries
           /\ Sell(account, x, quantity, price).fills = account.fills
           /\ Sell(account, x, quantity, price).lastRun = account.lastRun
           /\ Sell(account, x, quantity, price).executions = account.executions + 1
<1>1. quantity * price \in Nat
  OBVIOUS
<1> DEFINE income == quantity * price
<1> HIDE DEF income
<1>2. income \in Nat
  BY <1>1 DEF income
<1>a. account.cash + income \in Nat /\ account.held[x] - quantity \in Nat
  BY <1>2 DEF Account
<1> DEFINE held == [account.held EXCEPT ![x] = @ - quantity]
           stages == [account.stages EXCEPT ![x] = IF account.held[x] = quantity THEN {} ELSE @]
<1>3. held \in [Symbols -> Nat]
  BY <1>a DEF Account
<1>4. stages \in [Symbols -> SUBSET Stages]
  BY DEF Account
<1>b. Sell(account, x, quantity, price)
        = [account EXCEPT !.cash = account.cash + income, !.held = held, !.stages = stages,
                          !.executions = account.executions + 1]
  BY DEF Sell, income, Account
<1> HIDE DEF held, stages
<1>5. Sell(account, x, quantity, price)
        = [cash |-> account.cash + income, held |-> held, stages |-> stages,
           lastRun |-> account.lastRun, executions |-> account.executions + 1,
           entries |-> account.entries, fills |-> account.fills]
  BY <1>b DEF Account
<1>6. account.executions + 1 \in Nat
  BY DEF Account
<1>7. /\ account.lastRun \in Days \cup {-1}
      /\ account.entries \in [Days -> Nat] /\ account.fills \in [Days -> [Steps -> Nat]]
  BY DEF Account
<1>8. Sell(account, x, quantity, price) \in Account
  BY <1>a, <1>3, <1>4, <1>5, <1>6, <1>7 DEF Account
<1> QED
  BY <1>5, <1>8

LEMMA PartTypes == \A n \in Nat : Part(n) \in Nat /\ Part(n) <= n
<1> TAKE n \in Nat
<1> DEFINE m == n * 3
<1>1. m \in Nat /\ m <= 10 * n
  OBVIOUS
<1> HIDE DEF m
<1>2. m \div 10 \in Nat /\ m \div 10 <= n
  BY <1>1, SMTT(30)
<1> QED
  BY <1>2 DEF Part, m

LEMMA SellPartTypes ==
    ASSUME NEW account \in Account, NEW x \in Symbols, NEW stage \in Stages, NEW price \in Nat,
           NEW sold, sold = SellPart(account, x, stage, price)
    PROVE  /\ sold \in Account
           /\ sold.entries = account.entries /\ sold.fills = account.fills
           /\ sold.lastRun = account.lastRun /\ sold.executions = account.executions + 1
<1>1. account.held[x] \in Nat
  BY DEF Account
<1>2. PICK quantity \in Nat : quantity = Part(account.held[x]) /\ quantity <= account.held[x]
  BY <1>1, PartTypes
<1>3. PICK a : a = Sell(account, x, quantity, price)
  OBVIOUS
<1>4. /\ a \in Account
      /\ a.entries = account.entries /\ a.fills = account.fills
      /\ a.lastRun = account.lastRun /\ a.executions = account.executions + 1
  BY <1>1, <1>2, <1>3, SellTypes
<1>5. sold = [a EXCEPT !.stages = [a.stages EXCEPT ![x] = @ \cup {stage}]]
  BY <1>2, <1>3, <1>4 DEF SellPart, Account
<1>6. [a.stages EXCEPT ![x] = @ \cup {stage}] \in [Symbols -> SUBSET Stages]
  BY <1>4 DEF Account
<1> QED
  BY <1>4, <1>5, <1>6 DEF Account

LEMMA BuyEntryTypes ==
    ASSUME NEW account \in Account, NEW x \in Symbols, NEW quantity \in Nat, NEW price \in Nat,
           NEW d \in Days, Affordable(account, quantity, price),
           NEW bought, bought = BuyEntry(account, x, quantity, price, d)
    PROVE  /\ bought \in Account
           /\ bought.entries = [account.entries EXCEPT ![d] = @ + 1]
           /\ bought.fills = account.fills
           /\ bought.lastRun = account.lastRun /\ bought.executions = account.executions + 1
<1>1. PICK a : a = Buy(account, x, quantity, price)
  OBVIOUS
<1>2. /\ a \in Account
      /\ a.entries = account.entries /\ a.fills = account.fills
      /\ a.lastRun = account.lastRun /\ a.executions = account.executions + 1
  BY <1>1, BuyTypes
<1>3. bought = [a EXCEPT !.entries = [a.entries EXCEPT ![d] = @ + 1]]
  BY <1>1, <1>2 DEF BuyEntry, Account
<1>4. [a.entries EXCEPT ![d] = @ + 1] \in [Days -> Nat]
  BY <1>2 DEF Account
<1> QED
  BY <1>2, <1>3, <1>4 DEF Account

-----------------------------------------------------------------------------
(* What the steps of a request do, in terms of the old and the new request. *)

\* The request goes on with the same job, session and day.
Same(old, new) ==
    /\ new.job = old.job /\ new.session = old.session
    /\ new.day = old.day /\ new.attached = old.attached

\* One more execution, in the account of the session.
Deal(old, new, account) ==
    /\ new.copy = [old.copy EXCEPT ![old.session] = account]
    /\ new.added = [old.added EXCEPT ![old.session] = @ + 1]
    /\ account.executions = old.copy[old.session].executions + 1
    /\ account.lastRun = old.copy[old.session].lastRun

\* What a trade makes of a request.
LEMMA TradedEffect ==
    ASSUME NEW old \in Request, NEW account \in Account, NEW pc \in Pcs,
           account.executions = old.copy[old.session].executions + 1,
           account.lastRun = old.copy[old.session].lastRun,
           NEW new, new = Traded(old, account, pc)
    PROVE  /\ new \in Request
           /\ new.pc = pc /\ Same(old, new) /\ Deal(old, new, account)
           /\ new.left = old.left /\ new.entered = old.entered
           /\ new.todo = old.todo /\ new.orders = old.orders
<1> DEFINE copy == [old.copy EXCEPT ![old.session] = account]
           added == [old.added EXCEPT ![old.session] = @ + 1]
<1>1. copy \in Accounts
  BY DEF Request, Accounts
<1>2. added \in [Sessions -> Nat]
  BY DEF Request
<1>3. new = [old EXCEPT !.pc = pc, !.copy = copy, !.added = added]
  BY DEF Traded, Written, Request
<1> HIDE DEF copy, added
<1>4. new \in Request
  BY <1>1, <1>2, <1>3 DEF Request, Pcs
<1>5. /\ new.pc = pc /\ new.copy = copy /\ new.added = added
      /\ new.job = old.job /\ new.session = old.session /\ new.day = old.day
      /\ new.left = old.left /\ new.entered = old.entered /\ new.todo = old.todo
      /\ new.orders = old.orders /\ new.attached = old.attached
  BY <1>3 DEF Request
<1> QED
  BY <1>4, <1>5 DEF copy, added, Same, Deal

Replaced(r, new) ==
    /\ request' = [request EXCEPT ![r] = new]
    /\ day' = day /\ file' = file /\ made' = made /\ told' = told /\ disturbed' = disturbed

\* A sale of the daily run, or a manual order.
Bargain(old, new, account) ==
    /\ old.pc = "work" /\ new.pc \in {"work", "write"}
    /\ Same(old, new) /\ Deal(old, new, account)
    /\ account.entries = old.copy[old.session].entries
    /\ account.fills = old.copy[old.session].fills
    /\ new.entered = old.entered /\ new.orders = old.orders

LEMMA OrderEffect ==
    ASSUME TypeOK, NEW r \in Requests, PlaceOrder(r)
    PROVE  /\ steps' = steps /\ enabled' = enabled
           /\ \E new \in Request, account \in Account :
                 Replaced(r, new) /\ Bargain(request[r], new, account)
<1>1. steps' = steps /\ enabled' = enabled /\ request[r].pc = "work"
  BY DEF PlaceOrder
<1>2. request[r] \in Request
  BY DEF TypeOK
<1>3. PICK old \in Request : old = request[r]
  BY <1>2
<1>4. old.copy[old.session] \in Account
  BY DEF Request, Accounts
<1>5. PICK account \in Account : account = old.copy[old.session]
  BY <1>4
<1>6. PICK x \in Symbols, quantity \in Quantities, price \in Prices :
         \/ /\ Affordable(account, quantity, price)
            /\ Step(r, Traded(old, Buy(account, x, quantity, price), "write"))
         \/ /\ account.held[x] >= quantity
            /\ Step(r, Traded(old, Sell(account, x, quantity, price), "write"))
  BY <1>3, <1>5 DEF PlaceOrder
<1>7. quantity \in Nat /\ price \in Nat
  BY PaperAssumption
<1>8. PICK a \in Account :
         /\ Step(r, Traded(old, a, "write"))
         /\ a.entries = account.entries /\ a.fills = account.fills
         /\ a.lastRun = account.lastRun /\ a.executions = account.executions + 1
  BY <1>6, <1>7, BuyTypes, SellTypes
<1>9. PICK new : new = Traded(old, a, "write")
  OBVIOUS
<1>10. /\ new \in Request /\ new.pc = "write" /\ Same(old, new) /\ Deal(old, new, a)
       /\ new.entered = old.entered /\ new.orders = old.orders
  <2>1. "write" \in Pcs
    BY DEF Pcs
  <2> QED
    BY <2>1, <1>8, <1>9, <1>5, TradedEffect
<1>11. Replaced(r, new)
  BY <1>8, <1>9 DEF PlaceOrder, Replaced, Step
<1> QED
  BY <1>1, <1>3, <1>5, <1>8, <1>10, <1>11 DEF Bargain

LEMMA SaleEffect ==
    ASSUME TypeOK, NEW r \in Requests, SellHolding(r)
    PROVE  /\ steps' = steps /\ enabled' = enabled
           /\ \E new \in Request, account \in Account :
                 Replaced(r, new) /\ Bargain(request[r], new, account)
<1>1. steps' = steps /\ enabled' = enabled /\ request[r].pc = "work"
  BY DEF SellHolding
<1>2. request[r] \in Request
  BY DEF TypeOK
<1>3. PICK old \in Request : old = request[r]
  BY <1>2
<1>4. old.copy[old.session] \in Account
  BY DEF Request, Accounts
<1>5. PICK account \in Account : account = old.copy[old.session]
  BY <1>4
<1>6. PICK x \in Positions(account) \cap old.left, price \in Prices :
         \/ Step(r, Looked(Traded(old, Sell(account, x, account.held[x], price), "work"), x))
         \/ \E stage \in Stages \ account.stages[x] :
               /\ Part(account.held[x]) > 0
               /\ Step(r, Looked(Traded(old, SellPart(account, x, stage, price), "work"), x))
  BY <1>3, <1>5 DEF SellHolding
<1>7. x \in Symbols /\ price \in Nat
  BY PaperAssumption DEF Positions
<1>8. account.held[x] \in Nat
  BY <1>7 DEF Account
<1>9. PICK a \in Account :
         /\ Step(r, Looked(Traded(old, a, "work"), x))
         /\ a.entries = account.entries /\ a.fills = account.fills
         /\ a.lastRun = account.lastRun /\ a.executions = account.executions + 1
  BY <1>6, <1>7, <1>8, SellTypes, SellPartTypes
<1>10. PICK t : t = Traded(old, a, "work")
  OBVIOUS
<1>11. /\ t \in Request /\ t.pc = "work" /\ Same(old, t) /\ Deal(old, t, a)
       /\ t.entered = old.entered /\ t.orders = old.orders
  <2>1. "work" \in Pcs
    BY DEF Pcs
  <2> QED
    BY <2>1, <1>9, <1>10, <1>5, TradedEffect
<1>12. PICK new : new = Looked(t, x)
  OBVIOUS
<1>13. new \in Request /\ new = [t EXCEPT !.left = t.left \ {x}]
  BY <1>11, <1>12 DEF Looked, Request
<1>14. /\ new.pc = "work" /\ Same(old, new) /\ Deal(old, new, a)
       /\ new.entered = old.entered /\ new.orders = old.orders
  BY SMTT(60), <1>11, <1>13 DEF Request, Same, Deal
<1>15. Replaced(r, new)
  <2>1. UNCHANGED <<day, file, made, told, disturbed>>
    BY Zenon DEF SellHolding
  <2>2. request' = [request EXCEPT ![r] = new]
    BY <1>9, <1>10, <1>12 DEF Step
  <2> QED
    BY <2>1, <2>2 DEF Replaced
<1> QED
  BY <1>1, <1>3, <1>5, <1>9, <1>13, <1>14, <1>15 DEF Bargain

\* A new position of the daily run.
Entry(old, new, account) ==
    /\ old.pc = "enter" /\ new.pc = "enter" /\ old.entered < MaxDailyEntries
    /\ Same(old, new) /\ Deal(old, new, account)
    /\ account.entries = [old.copy[old.session].entries EXCEPT ![old.day] = @ + 1]
    /\ account.fills = old.copy[old.session].fills
    /\ new.entered = old.entered + 1 /\ new.orders = old.orders

LEMMA EntryEffect ==
    ASSUME TypeOK, NEW r \in Requests, Enter(r)
    PROVE  /\ steps' = steps /\ enabled' = enabled
           /\ \E new \in Request, account \in Account :
                 Replaced(r, new) /\ Entry(request[r], new, account)
<1>1. steps' = steps /\ enabled' = enabled /\ request[r].pc = "enter"
  BY DEF Enter
<1>2. request[r] \in Request
  BY DEF TypeOK
<1>3. PICK old \in Request : old = request[r]
  BY <1>2
<1>4. old.copy[old.session] \in Account /\ old.day \in Days
  BY DEF Request, Accounts
<1>5. PICK account \in Account : account = old.copy[old.session]
  BY <1>4
<1>6. PICK x \in Symbols \ Positions(account), quantity \in Quantities, price \in Prices :
         /\ Affordable(account, quantity, price)
         /\ Step(r, Counted(Traded(old, BuyEntry(account, x, quantity, price, old.day), "enter")))
  BY <1>3, <1>5 DEF Enter
<1>7. x \in Symbols /\ quantity \in Nat /\ price \in Nat
  BY PaperAssumption
<1>d. PICK d \in Days : d = old.day
  BY <1>4
<1>8. PICK a : a = BuyEntry(account, x, quantity, price, d)
  OBVIOUS
<1>9. /\ a \in Account
      /\ a.entries = [account.entries EXCEPT ![d] = @ + 1] /\ a.fills = account.fills
      /\ a.lastRun = account.lastRun /\ a.executions = account.executions + 1
  <2>1. Affordable(account, quantity, price)
    BY <1>6
  <2> QED
    BY <2>1, <1>7, <1>8, BuyEntryTypes
<1>10. PICK t : t = Traded(old, a, "enter")
  OBVIOUS
<1>11. /\ t \in Request /\ t.pc = "enter" /\ Same(old, t) /\ Deal(old, t, a)
       /\ t.entered = old.entered /\ t.orders = old.orders
  <2>1. "enter" \in Pcs
    BY DEF Pcs
  <2> QED
    BY <2>1, <1>9, <1>10, <1>5, TradedEffect
<1>12. PICK new : new = Counted(t)
  OBVIOUS
<1>13. new \in Request /\ new = [t EXCEPT !.entered = t.entered + 1]
  BY <1>11, <1>12 DEF Counted, Request
<1>14. /\ new.pc = "enter" /\ Same(old, new) /\ Deal(old, new, a)
       /\ new.entered = old.entered + 1 /\ new.orders = old.orders
  BY <1>11, <1>13 DEF Request, Same, Deal
<1>15. Replaced(r, new)
  BY <1>6, <1>8, <1>d, <1>10, <1>12 DEF Enter, Replaced, Step
<1>16. old.entered < MaxDailyEntries
  BY <1>3 DEF Enter
<1> QED
  BY ZenonT(60), <1>1, <1>3, <1>5, <1>d, <1>9, <1>13, <1>14, <1>15, <1>16 DEF Entry

\* A fill of a step.
Fulfilment(old, new, account, step) ==
    /\ old.pc = "fill" /\ new.pc \in {"steps", "fill"}
    /\ Same(old, new) /\ Deal(old, new, account)
    /\ account.entries = old.copy[old.session].entries
    /\ account.fills = [old.copy[old.session].fills EXCEPT ![old.day][step] = @ + 1]
    /\ step \in old.orders
    /\ new.entered = old.entered /\ new.orders = old.orders \ {step}

LEMMA CountedUp ==
    ASSUME NEW count \in [Steps -> Nat], NEW step \in Steps
    PROVE  [count EXCEPT ![step] = @ + 1] \in [Steps -> Nat]
OBVIOUS

LEMMA FilledEffect ==
    ASSUME NEW old \in Request, old.pc = "fill", NEW step \in old.orders, NEW traded \in Account,
           traded.entries = old.copy[old.session].entries,
           traded.fills = old.copy[old.session].fills,
           traded.lastRun = old.copy[old.session].lastRun,
           traded.executions = old.copy[old.session].executions + 1,
           NEW new, new = Filled(old, step, traded)
    PROVE  new \in Request /\ \E account \in Account : Fulfilment(old, new, account, step)
<1>1. step \in Steps /\ old.day \in Days
  BY SMTT(60) DEF Request
<1> DEFINE fills == [traded.fills EXCEPT ![old.day][step] = @ + 1]
<1>2. fills \in [Days -> [Steps -> Nat]]
  <2>1. traded.fills \in [Days -> [Steps -> Nat]]
    BY DEF Account
  <2>2. traded.fills[old.day] \in [Steps -> Nat]
    BY <1>1, <2>1
  <2>3. [traded.fills[old.day] EXCEPT ![step] = @ + 1] \in [Steps -> Nat]
    BY <1>1, <2>2, CountedUp
  <2> QED
    BY <1>1, <2>1, <2>3
<1>3. PICK account : account = [traded EXCEPT !.fills[old.day][step] = @ + 1]
  OBVIOUS
<1>4. account = [traded EXCEPT !.fills = fills]
  BY <1>3
<1>5. /\ account \in Account /\ account.fills = fills
      /\ account.entries = traded.entries
      /\ account.lastRun = traded.lastRun /\ account.executions = traded.executions
  <2> HIDE DEF fills
  <2> QED
    BY <1>2, <1>4 DEF Account
<1>6. AfterFill(old, step) \in {"steps", "fill"}
  BY DEF AfterFill
<1>7. PICK pc \in {"steps", "fill"} : pc = AfterFill(old, step)
  BY <1>6
<1>8. PICK t : t = Traded(old, account, pc)
  OBVIOUS
<1>9. /\ t \in Request /\ t.pc = pc /\ Same(old, t) /\ Deal(old, t, account)
      /\ t.entered = old.entered /\ t.orders = old.orders
  <2>1. pc \in Pcs
    BY SMTT(60) DEF Pcs
  <2> QED
    BY <2>1, <1>5, <1>8, TradedEffect
<1>10. new = [t EXCEPT !.orders = t.orders \ {step}]
  BY <1>3, <1>7, <1>8 DEF Filled
<1>11. new \in Request
  BY <1>9, <1>10 DEF Request
<1>12. /\ new.pc = pc /\ Same(old, new) /\ Deal(old, new, account)
       /\ new.entered = old.entered /\ new.orders = old.orders \ {step}
  BY <1>9, <1>10 DEF Request, Same, Deal
<1> QED
  BY <1>5, <1>11, <1>12 DEF Fulfilment

LEMMA FillEffect ==
    ASSUME TypeOK, NEW r \in Requests, FillOrder(r) \/ FillStopLoss(r)
    PROVE  /\ steps' = steps /\ enabled' \subseteq Sessions
           /\ \E new \in Request, account \in Account, step \in Steps :
                 Replaced(r, new) /\ Fulfilment(request[r], new, account, step)
<1>1. steps' = steps /\ enabled' \subseteq Sessions /\ request[r].pc = "fill"
  BY DEF FillOrder, FillStopLoss, TypeOK
<1>2. request[r] \in Request
  BY DEF TypeOK
<1>3. PICK old \in Request : old = request[r]
  BY <1>2
<1>4. old.copy[old.session] \in Account /\ old.orders \subseteq Steps
  BY DEF Request, Accounts
<1>5. PICK account \in Account : account = old.copy[old.session]
  BY <1>4
<1>6. \E step \in old.orders, a \in Account :
         /\ Step(r, Filled(old, step, a))
         /\ a.entries = account.entries /\ a.fills = account.fills
         /\ a.lastRun = account.lastRun /\ a.executions = account.executions + 1
  <2>1. CASE FillOrder(r)
    <3>1. PICK step \in old.orders :
             \/ /\ Affordable(account, StepOf[step].quantity, StepOf[step].price)
                /\ Step(r, Filled(old, step, Buy(account, StepOf[step].symbol,
                                        StepOf[step].quantity, StepOf[step].price)))
             \/ /\ account.held[StepOf[step].symbol] >= StepOf[step].quantity
                /\ Step(r, Filled(old, step, Sell(account, StepOf[step].symbol,
                                        StepOf[step].quantity, StepOf[step].price)))
      BY <2>1, <1>3, <1>5 DEF FillOrder
    <3>2. /\ StepOf[step].symbol \in Symbols
          /\ StepOf[step].quantity \in Nat /\ StepOf[step].price \in Nat
      BY <1>4, PaperAssumption
    <3> QED
      BY SMTT(60), <3>1, <3>2, BuyTypes, SellTypes
  <2>2. CASE FillStopLoss(r)
    <3>1. PICK step \in old.orders \cap StopLosses, price \in Prices :
             Step(r, Filled(old, step, Sell(account, StepOf[step].symbol,
                                            account.held[StepOf[step].symbol], price)))
      BY <2>2, <1>3, <1>5 DEF FillStopLoss
    <3>2. StepOf[step].symbol \in Symbols /\ price \in Nat
      BY <1>4, PaperAssumption
    <3>3. PICK x \in Symbols : x = StepOf[step].symbol
      BY <3>2
    <3>4. account.held[x] \in Nat
      BY DEF Account
    <3> QED
      BY SMTT(60), <3>1, <3>2, <3>3, <3>4, SellTypes
  <2> QED
    BY <2>1, <2>2
<1>7. PICK step \in old.orders, a \in Account :
         /\ Step(r, Filled(old, step, a))
         /\ a.entries = account.entries /\ a.fills = account.fills
         /\ a.lastRun = account.lastRun /\ a.executions = account.executions + 1
  BY <1>6
<1>8. PICK new : new = Filled(old, step, a)
  OBVIOUS
<1>9. new \in Request /\ \E b \in Account : Fulfilment(old, new, b, step)
  BY SMTT(60), <1>1, <1>3, <1>5, <1>7, <1>8, FilledEffect
<1>10. Replaced(r, new)
  BY <1>7, <1>8 DEF FillOrder, FillStopLoss, Replaced, Step
<1> QED
  BY SMTT(60), <1>1, <1>3, <1>4, <1>9, <1>10

\* The copy stays as it is.
Quiet(old, new) ==
    /\ Same(old, new)
    /\ new.copy = old.copy /\ new.added = old.added /\ new.entered = old.entered

\* Only the request's place changes.
Onward(old, new) == Quiet(old, new) /\ new.orders = old.orders

LEMMA PlaceEffect ==
    ASSUME NEW old \in Request, NEW pc \in Pcs, NEW new, new = [old EXCEPT !.pc = pc]
    PROVE  new \in Request /\ new.pc = pc /\ Onward(old, new)
<1>1. new \in Request
  BY DEF Request, Pcs
<1> QED
  BY <1>1 DEF Request, Onward, Quiet, Same

LEMMA OnwardEffect ==
    ASSUME TypeOK, NEW r \in Requests, Skip(r) \/ EntriesDue(r) \/ EndCycle(r)
    PROVE  /\ steps' = steps /\ enabled' = enabled
           /\ \E new \in Request :
                 /\ Replaced(r, new) /\ Onward(request[r], new)
                 /\ \/ request[r].pc \in {"work", "steps"} /\ new.pc = "write"
                    \/ /\ request[r].pc = "work" /\ new.pc = "enter"
                       /\ request[r].copy[request[r].session].lastRun # request[r].day
<1>1. steps' = steps /\ enabled' = enabled
  BY DEF Skip, EntriesDue, EndCycle
<1>2. request[r] \in Request
  BY DEF TypeOK
<1>3. PICK old \in Request : old = request[r]
  BY <1>2
<1>4. \E pc \in {"write", "enter"} :
         /\ Step(r, [old EXCEPT !.pc = pc])
         /\ \/ request[r].pc \in {"work", "steps"} /\ pc = "write"
            \/ /\ request[r].pc = "work" /\ pc = "enter"
               /\ request[r].copy[request[r].session].lastRun # request[r].day
  BY <1>3 DEF Skip, EntriesDue, EndCycle
<1>5. PICK pc \in {"write", "enter"} :
         /\ Step(r, [old EXCEPT !.pc = pc])
         /\ \/ request[r].pc \in {"work", "steps"} /\ pc = "write"
            \/ /\ request[r].pc = "work" /\ pc = "enter"
               /\ request[r].copy[request[r].session].lastRun # request[r].day
  BY <1>4
<1>6. PICK new : new = [old EXCEPT !.pc = pc]
  OBVIOUS
<1>7. new \in Request /\ new.pc = pc /\ Onward(old, new)
  BY <1>6, PlaceEffect DEF Pcs
<1>8. Replaced(r, new)
  BY <1>5, <1>6 DEF Skip, EntriesDue, EndCycle, Replaced, Step
<1> QED
  BY <1>1, <1>3, <1>5, <1>7, <1>8

\* The end of the daily run: the account is dated.
Dating(old, new, account) ==
    /\ old.pc = "enter" /\ new.pc = "write"
    /\ Same(old, new) /\ new.added = old.added
    /\ new.copy = [old.copy EXCEPT ![old.session] = account]
    /\ account.lastRun = old.day
    /\ account.executions = old.copy[old.session].executions
    /\ account.entries = old.copy[old.session].entries
    /\ account.fills = old.copy[old.session].fills

LEMMA DatingEffect ==
    ASSUME TypeOK, NEW r \in Requests, EndRun(r)
    PROVE  /\ steps' = steps /\ enabled' = enabled
           /\ \E new \in Request, account \in Account :
                 Replaced(r, new) /\ Dating(request[r], new, account)
<1>1. steps' = steps /\ enabled' = enabled /\ request[r].pc = "enter"
  BY DEF EndRun
<1>2. request[r] \in Request
  BY DEF TypeOK
<1>3. PICK old \in Request : old = request[r]
  BY <1>2
<1>4. old.copy[old.session] \in Account /\ old.day \in Days
  BY DEF Request, Accounts
<1>5. PICK b \in Account : b = old.copy[old.session]
  BY <1>4
<1>6. PICK account : account = [b EXCEPT !.lastRun = old.day]
  OBVIOUS
<1>7. /\ account \in Account /\ account.lastRun = old.day
      /\ account.executions = b.executions /\ account.entries = b.entries
      /\ account.fills = b.fills
  BY <1>4, <1>6 DEF Account
<1>8. PICK copy : copy = [old.copy EXCEPT ![old.session] = account]
  OBVIOUS
<1>9. copy \in Accounts
  BY <1>7, <1>8 DEF Request, Accounts
<1>10. PICK new : new = [old EXCEPT !.pc = "write", !.copy[old.session].lastRun = old.day]
  OBVIOUS
<1>11. new = [old EXCEPT !.pc = "write", !.copy = copy]
  BY <1>5, <1>6, <1>8, <1>10 DEF Request
<1>12. new \in Request
  BY <1>9, <1>11 DEF Request
<1>13. new.pc = "write" /\ Same(old, new) /\ new.added = old.added /\ new.copy = copy
  BY <1>11 DEF Request, Same
<1>14. Replaced(r, new)
  BY <1>3, <1>10 DEF EndRun, Replaced, Step
<1> QED
  BY ZenonT(60), <1>1, <1>3, <1>5, <1>7, <1>8, <1>12, <1>13, <1>14 DEF Dating

\* A step that cannot be filled.
Rejection(old, new) ==
    /\ old.pc = "fill" /\ new.pc \in {"steps", "fill"}
    /\ Quiet(old, new) /\ new.orders \subseteq old.orders

LEMMA RejectEffect ==
    ASSUME TypeOK, NEW r \in Requests, RejectFill(r)
    PROVE  /\ steps' = steps /\ enabled' = enabled
           /\ \E new \in Request : Replaced(r, new) /\ Rejection(request[r], new)
<1>1. steps' = steps /\ enabled' = enabled /\ request[r].pc = "fill"
  BY SMTT(60) DEF RejectFill
<1>2. request[r] \in Request
  BY DEF TypeOK
<1>3. PICK old \in Request : old = request[r]
  BY <1>2
<1>4. PICK step \in old.orders :
         Step(r, [old EXCEPT !.orders = @ \ {step}, !.pc = AfterFill(old, step)])
  BY <1>3 DEF RejectFill
<1>5. PICK new : new = [old EXCEPT !.orders = @ \ {step}, !.pc = AfterFill(old, step)]
  OBVIOUS
<1>6. PICK pc \in {"steps", "fill"} : pc = AfterFill(old, step)
  BY DEF AfterFill
<1>7. new = [old EXCEPT !.orders = old.orders \ {step}, !.pc = pc]
  BY <1>5, <1>6
<1>8. new \in Request
  BY <1>7 DEF Request
<1>9. new.pc = pc /\ Quiet(old, new) /\ new.orders \subseteq old.orders
  BY <1>7 DEF Request, Quiet, Same
<1>10. Replaced(r, new)
  BY <1>4, <1>5 DEF RejectFill, Replaced, Step
<1> QED
  BY <1>1, <1>3, <1>8, <1>9, <1>10 DEF Rejection

\* A tick of the cycle.
Tick(old, new, s, orders) ==
    /\ old.pc = "steps" /\ new.pc = (IF orders = {} THEN "steps" ELSE "fill")
    /\ new.job = old.job /\ new.day = old.day /\ new.attached = old.attached
    /\ new.copy = old.copy /\ new.added = old.added /\ new.entered = old.entered
    /\ new.session = s /\ new.orders = orders
    /\ orders \subseteq Due(s, old.day)

LEMMA TickEffect ==
    ASSUME TypeOK, NEW r \in Requests, Evaluate(r)
    PROVE  /\ enabled' = enabled
           /\ \E new \in Request, s \in Sessions, orders \in SUBSET Steps :
                 /\ Replaced(r, new) /\ Tick(request[r], new, s, orders)
                 /\ steps' = [steps EXCEPT ![s] =
                                 [day |-> new.day, done |-> Executed(s, new.day) \cup orders]]
<1>1. enabled' = enabled /\ request[r].pc = "steps"
  BY DEF Evaluate
<1>2. request[r] \in Request
  BY DEF TypeOK
<1>3. PICK old \in Request : old = request[r]
  BY <1>2
<1>4. PICK s \in old.todo, orders \in SUBSET Steps :
         /\ Ticked(orders, s, old)
         /\ steps' = [steps EXCEPT ![s] =
                         [day |-> old.day, done |-> Executed(s, old.day) \cup orders]]
         /\ Step(r, [old EXCEPT !.session = s, !.todo = @ \ {s}, !.orders = orders,
                                !.pc = IF orders = {} THEN "steps" ELSE "fill"])
  BY <1>3 DEF Evaluate
<1>5. s \in Sessions
  BY DEF Request
<1>6. PICK new : new = [old EXCEPT !.session = s, !.todo = @ \ {s}, !.orders = orders,
                                   !.pc = IF orders = {} THEN "steps" ELSE "fill"]
  OBVIOUS
<1>7. new \in Request
  BY <1>5, <1>6 DEF Request
<1>8. orders \subseteq Due(s, old.day)
  BY <1>4 DEF Ticked
<1>9. Tick(old, new, s, orders)
  BY <1>1, <1>3, <1>6, <1>8 DEF Request, Tick
<1>10. Replaced(r, new)
  BY <1>4, <1>6 DEF Evaluate, Replaced, Step
<1>11. new.day = old.day
  BY <1>9 DEF Tick
<1> QED
  BY <1>1, <1>3, <1>4, <1>5, <1>7, <1>9, <1>10, <1>11

-----------------------------------------------------------------------------
(* Type correctness. *)

\* A request begins its work on the accounts it has read, or is over.
Beginning(old, new, accounts) ==
    \/ new = IdleRequest /\ old.job = "look"
    \/ /\ old.job # "look" /\ new.job = old.job /\ new.session = old.session
       /\ new.day = day /\ new.copy = accounts /\ new.attached = old.attached
       /\ new.entered = old.entered /\ new.added = old.added /\ new.orders = old.orders
       /\ \/ new.pc = "steps" /\ old.job = "cycle"
          \/ new.pc = "work" /\ old.job # "cycle"

LEMMA BegunEffect ==
    ASSUME day \in Days, NEW old \in Request, NEW accounts \in Accounts,
           NEW new, new = Begun(old, accounts)
    PROVE  new \in Request /\ Beginning(old, new, accounts)
<1>1. CASE old.job = "look"
  BY <1>1, DefaultTypes DEF Begun, Beginning
<1>2. CASE old.job = "cycle"
  <2>1. new = [old EXCEPT !.copy = accounts, !.day = day, !.pc = "steps"]
    BY <1>2 DEF Begun
  <2> QED
    BY ZenonT(60), <1>2, <2>1 DEF Request, Beginning
<1>3. CASE old.job \notin {"look", "cycle"}
  <2>1. new = [old EXCEPT !.copy = accounts, !.day = day, !.pc = "work"]
    BY <1>3 DEF Begun
  <2> QED
    BY ZenonT(60), <1>3, <2>1 DEF Request, Beginning
<1> QED
  BY <1>1, <1>2, <1>3

\* What a step of the request r leaves of the others, and of itself a request.
LEMMA ReplacedTypes ==
    ASSUME TypeOK, NEW r \in Requests, NEW new \in Request,
           request' = [request EXCEPT ![r] = new]
    PROVE  /\ request' \in [Requests -> Request]
           /\ request'[r] = new
           /\ \A q \in Requests \ {r} : request'[q] = request[q]
BY DEF TypeOK

LEMMA TypeInit == Init => TypeOK
<1> SUFFICES ASSUME Init PROVE TypeOK
  OBVIOUS
<1>a. MaxDay \in Nat /\ MaxRequests \in Nat
  BY PaperAssumption
<1>0. day = 0 /\ made = 0 /\ disturbed = FALSE
  BY DEF Init
<1>b. day \in Days /\ made \in 0..MaxRequests
  BY <1>0, <1>a DEF Days
<1>1. day \in Days /\ made \in 0..MaxRequests /\ disturbed \in BOOLEAN
  BY <1>0, <1>b
<1>2. file \in File
  BY DefaultTypes DEF Init, File
<1>3. steps \in [Sessions -> WorkerState] /\ enabled \subseteq Sessions
  BY <1>1 DEF Init, WorkerState
<1>4. request \in [Requests -> Request] /\ told \in [Sessions -> Nat]
  BY DefaultTypes DEF Init
<1> QED
  BY <1>1, <1>2, <1>3, <1>4 DEF TypeOK

LEMMA TypeTrade ==
    ASSUME TypeOK, NEW r \in Requests, Trade(r)
    PROVE  TypeOK'
<1>1. ASSUME NEW new \in Request, Replaced(r, new), steps' \in [Sessions -> WorkerState],
             enabled' \subseteq Sessions
      PROVE  TypeOK'
  BY <1>1, ReplacedTypes DEF Replaced, TypeOK
<1>2. enabled \subseteq Sessions /\ steps \in [Sessions -> WorkerState]
  BY DEF TypeOK
<1>3. CASE PlaceOrder(r)
  BY <1>1, <1>2, <1>3, OrderEffect
<1>4. CASE SellHolding(r)
  BY <1>1, <1>2, <1>4, SaleEffect
<1>5. CASE Enter(r)
  BY <1>1, <1>2, <1>5, EntryEffect
<1>6. CASE FillOrder(r) \/ FillStopLoss(r)
  BY <1>1, <1>2, <1>6, FillEffect
<1>7. CASE Skip(r) \/ EntriesDue(r) \/ EndCycle(r)
  BY <1>1, <1>2, <1>7, OnwardEffect
<1>8. CASE EndRun(r)
  BY <1>1, <1>2, <1>8, DatingEffect
<1>9. CASE RejectFill(r)
  BY <1>1, <1>2, <1>9, RejectEffect
<1>10. CASE Evaluate(r)
  <2>1. PICK new \in Request, s \in Sessions, orders \in SUBSET Steps :
           /\ Replaced(r, new)
           /\ steps' = [steps EXCEPT ![s] =
                           [day |-> new.day, done |-> Executed(s, new.day) \cup orders]]
    BY <1>10, TickEffect
  <2>2. new.day \in Days
    BY DEF Request
  <2>3. Executed(s, new.day) \subseteq Steps
    BY <1>2 DEF Executed, WorkerState
  <2>4. [day |-> new.day, done |-> Executed(s, new.day) \cup orders] \in WorkerState
    BY <2>2, <2>3 DEF WorkerState
  <2>5. steps' \in [Sessions -> WorkerState]
    BY <1>2, <2>1, <2>4
  <2>6. enabled' \subseteq Sessions
    BY <1>2, <1>10, TickEffect
  <2> QED
    BY <1>1, <2>1, <2>5, <2>6
<1>11. CASE Refuse(r)
  BY <1>1, <1>2, <1>11, DefaultTypes DEF Refuse, Replaced, Step
<1> QED
  BY <1>3, <1>4, <1>5, <1>6, <1>7, <1>8, <1>9, <1>10, <1>11 DEF Trade

\* A flush writes the accounts, or leaves the file torn, or as it is.
LEMMA FlushEffect ==
    ASSUME TypeOK, NEW rec \in Request, NEW accounts \in Accounts, Flush(rec, accounts)
    PROVE  /\ file' \in File
           /\ \/ file' = [kind |-> "ok", accounts |-> accounts] /\ rec.attached
              \/ file'.accounts = file.accounts /\ (file' = file \/ file.kind = "ok")
           /\ rec.attached /\ file.kind # "ok" => file' = [kind |-> "ok", accounts |-> accounts]
BY DEF Flush, TypeOK, File

LEMMA AskEffect ==
    ASSUME TypeOK, NEW r \in Requests, Ask(r)
    PROVE  \E new \in Request :
              /\ request' = [request EXCEPT ![r] = new]
              /\ request[r].pc = "idle" /\ new.job \in Jobs[r]
              /\ new.pc = IF new.job = "reset" THEN "write" ELSE "read"
              /\ new.day = 0 /\ new.entered = 0 /\ new.copy = DefaultAccounts
              /\ new.added = [s \in Sessions |-> 0] /\ new.orders = {}
<1>1. PICK job \in Jobs[r], s \in Sessions :
         Step(r, [IdleRequest EXCEPT !.pc = IF job = "reset" THEN "write" ELSE "read",
                                     !.job = job, !.session = s,
                                     !.todo = IF job = "cycle" THEN enabled ELSE {}])
  BY DEF Ask
<1>2. job \in Kinds
  BY PaperAssumption DEF Kinds
<1>3. PICK new : new = [IdleRequest EXCEPT !.pc = IF job = "reset" THEN "write" ELSE "read",
                                     !.job = job, !.session = s,
                                     !.todo = IF job = "cycle" THEN enabled ELSE {}]
  OBVIOUS
<1>4. PICK todo \in SUBSET Sessions : todo = IF job = "cycle" THEN enabled ELSE {}
  BY DEF TypeOK
<1>a. PICK pc \in Pcs : pc = IF job = "reset" THEN "write" ELSE "read"
  BY DEF Pcs
<1>b. PICK idle \in Request : idle = IdleRequest
  BY DefaultTypes
<1>c. new = [idle EXCEPT !.pc = pc, !.job = job, !.session = s, !.todo = todo]
  BY <1>3, <1>4, <1>a, <1>b
<1>5. new \in Request
  BY <1>2, <1>c DEF Request, Kinds, Pcs
<1>d. /\ idle.day = 0 /\ idle.entered = 0 /\ idle.copy = DefaultAccounts
      /\ idle.added = [x \in Sessions |-> 0] /\ idle.orders = {}
  BY <1>b DEF IdleRequest
<1>6. /\ new.job = job /\ new.pc = (IF job = "reset" THEN "write" ELSE "read")
      /\ new.day = 0 /\ new.entered = 0 /\ new.copy = DefaultAccounts
      /\ new.added = [x \in Sessions |-> 0] /\ new.orders = {}
  BY <1>a, <1>c, <1>d DEF Request
<1> QED
  <2>1. request' = [request EXCEPT ![r] = new]
    BY <1>1, <1>3 DEF Step
  <2>2. request[r].pc = "idle"
    BY DEF Ask
  <2> QED
    BY <2>1, <2>2, <1>5, <1>6

\* The steps that lie around the work: what becomes of the request and the file.
LEMMA ReadEffect ==
    ASSUME TypeOK, NEW r \in Requests, Read(r)
    PROVE  /\ request[r].pc = "read"
           /\ \/ /\ file.kind = "ok" /\ file' = file
                 /\ \E new \in Request :
                       /\ request' = [request EXCEPT ![r] = new]
                       /\ Beginning(request[r], new, file.accounts)
              \/ /\ file.kind = "torn" /\ file' = [file EXCEPT !.kind = "missing"]
                 /\ request' = [q \in Requests |->
                                   [request[q] EXCEPT !.attached = FALSE,
                                                      !.pc = IF q = r THEN "repair" ELSE @]]
              \/ /\ file.kind = "missing" /\ file' = file
                 /\ \E new \in Request :
                       /\ request' = [request EXCEPT ![r] = new]
                       /\ new.pc = "repair" /\ Onward(request[r], new)
<1>1. request[r] \in Request /\ file.accounts \in Accounts /\ day \in Days
  BY DEF TypeOK, File
<1>2. PICK old \in Request : old = request[r]
  BY <1>1
<1>3. CASE file.kind = "ok"
  <2>1. PICK accounts \in Accounts : accounts = file.accounts
    BY <1>1
  <2>2. PICK new : new = Begun(old, accounts)
    OBVIOUS
  <2>3. new \in Request /\ Beginning(old, new, accounts)
    BY <1>1, <2>2, BegunEffect
  <2> QED
    BY <1>2, <1>3, <2>1, <2>2, <2>3 DEF Read, Step
<1>4. CASE file.kind = "torn"
  BY <1>4 DEF Read
<1>5. CASE file.kind = "missing"
  <2>1. PICK new : new = [old EXCEPT !.pc = "repair"]
    OBVIOUS
  <2>2. new \in Request /\ new.pc = "repair" /\ Onward(old, new)
    BY <2>1, PlaceEffect DEF Pcs
  <2> QED
    BY <1>2, <1>5, <2>1, <2>2 DEF Read, Step
<1> QED
  BY <1>3, <1>4, <1>5 DEF Read

LEMMA TruncateEffect ==
    ASSUME TypeOK, NEW r \in Requests, Truncate(r)
    PROVE  /\ file' = [file EXCEPT !.kind = "torn"]
           /\ \E new \in Request :
                 /\ request' = [request EXCEPT ![r] = new]
                 /\ \/ request[r].pc = "repair" /\ new.pc = "repairing"
                    \/ request[r].pc = "write" /\ new.pc = "writing"
                 /\ new.attached /\ new.job = request[r].job /\ new.session = request[r].session
                 /\ new.day = request[r].day /\ new.copy = request[r].copy
                 /\ new.added = request[r].added /\ new.entered = request[r].entered
                 /\ new.orders = request[r].orders
<1>1. request[r] \in Request
  BY DEF TypeOK
<1>2. PICK old \in Request : old = request[r]
  BY <1>1
<1>3. PICK pc \in Pcs : pc = IF old.pc = "repair" THEN "repairing" ELSE "writing"
  BY DEF Pcs
<1>4. PICK new : new = [old EXCEPT !.pc = IF @ = "repair" THEN "repairing" ELSE "writing",
                                   !.attached = TRUE]
  OBVIOUS
<1>5. new = [old EXCEPT !.pc = pc, !.attached = TRUE]
  BY <1>3, <1>4
<1>6. /\ new \in Request /\ new.pc = pc /\ new.attached
      /\ new.job = old.job /\ new.session = old.session
      /\ new.day = old.day /\ new.copy = old.copy /\ new.added = old.added
      /\ new.entered = old.entered /\ new.orders = old.orders
  BY <1>5 DEF Request, Pcs
<1>7. file' = [file EXCEPT !.kind = "torn"] /\ request' = [request EXCEPT ![r] = new]
  BY <1>2, <1>4 DEF Truncate, Step
<1>8. old.pc \in {"repair", "write"}
  BY <1>2 DEF Truncate
<1> QED
  BY <1>2, <1>3, <1>6, <1>7, <1>8

LEMMA RepairEffect ==
    ASSUME TypeOK, NEW r \in Requests, Repair(r)
    PROVE  /\ request[r].pc = "repairing" /\ Flush(request[r], DefaultAccounts)
           /\ \E new \in Request, begun \in Request :
                 /\ request' = [request EXCEPT ![r] = new]
                 /\ Beginning(request[r], begun, DefaultAccounts)
                 /\ new = [begun EXCEPT !.attached = FALSE]
<1>1. request[r] \in Request /\ day \in Days
  BY DEF TypeOK
<1>2. PICK old \in Request : old = request[r]
  BY <1>1
<1>3. PICK begun : begun = Begun(old, DefaultAccounts)
  OBVIOUS
<1>4. begun \in Request /\ Beginning(old, begun, DefaultAccounts)
  BY <1>1, <1>3, BegunEffect, DefaultTypes
<1>5. PICK new : new = [begun EXCEPT !.attached = FALSE]
  OBVIOUS
<1>6. new \in Request
  BY <1>4, <1>5 DEF Request
<1> QED
  BY <1>2, <1>3, <1>4, <1>5, <1>6 DEF Repair, Step

LEMMA IdleEffect ==
    ASSUME TypeOK, NEW r \in Requests, Write(r) \/ Abort(r)
    PROVE  request' = [request EXCEPT ![r] = IdleRequest]
BY DEF Write, Abort, Step

LEMMA TypeInductive == TypeOK /\ [Next]_vars => TypeOK'
<1> SUFFICES ASSUME TypeOK, [Next]_vars PROVE TypeOK'
  OBVIOUS
<1>1. DefaultAccounts \in Accounts /\ IdleRequest \in Request
  BY DefaultTypes
<1>2. /\ day \in Days /\ file \in File /\ steps \in [Sessions -> WorkerState]
      /\ enabled \subseteq Sessions /\ made \in 0..MaxRequests
      /\ told \in [Sessions -> Nat] /\ disturbed \in BOOLEAN
  BY DEF TypeOK
<1>3. ASSUME NEW r \in Requests, Ask(r) PROVE TypeOK'
  <2>1. request' \in [Requests -> Request]
    BY <1>3, AskEffect, ReplacedTypes
  <2>2. /\ day' = day /\ file' = file /\ steps' = steps /\ enabled' = enabled /\ told' = told
        /\ made < MaxRequests /\ made' = made + 1
    BY <1>3 DEF Ask
  <2>3. disturbed' \in BOOLEAN
    BY <1>3 DEF Ask
  <2>4. made' \in 0..MaxRequests
    BY <1>2, <2>2, PaperAssumption
  <2> QED
    BY <1>2, <2>1, <2>2, <2>3, <2>4 DEF TypeOK
<1>4. ASSUME NEW r \in Requests, Read(r) PROVE TypeOK'
  <2>1. /\ day' = day /\ steps' = steps /\ enabled' = enabled /\ made' = made
        /\ told' = told /\ disturbed' = disturbed
    BY <1>4 DEF Read
  <2>2. file' \in File
    BY <1>2, <1>4, ReadEffect DEF File
  <2>3. request' \in [Requests -> Request]
    <3>1. CASE \E new \in Request : request' = [request EXCEPT ![r] = new]
      BY <3>1, ReplacedTypes
    <3>2. CASE request' = [q \in Requests |->
                              [request[q] EXCEPT !.attached = FALSE,
                                                 !.pc = IF q = r THEN "repair" ELSE @]]
      <4>1. ASSUME NEW q \in Requests
            PROVE  [request[q] EXCEPT !.attached = FALSE,
                                      !.pc = IF q = r THEN "repair" ELSE @] \in Request
        <5>1. PICK old \in Request : old = request[q]
          BY DEF TypeOK
        <5>2. PICK pc \in Pcs : pc = IF q = r THEN "repair" ELSE old.pc
          BY DEF Pcs, Request
        <5>3. [old EXCEPT !.attached = FALSE, !.pc = pc] \in Request
          BY DEF Pcs, Request
        <5> QED
          BY <5>1, <5>2, <5>3
      <4> QED
        BY <3>2, <4>1
    <3> QED
      BY <1>4, <3>1, <3>2, ReadEffect
  <2> QED
    BY <1>2, <2>1, <2>2, <2>3 DEF TypeOK
<1>5. ASSUME NEW r \in Requests, Truncate(r) PROVE TypeOK'
  <2>1. /\ day' = day /\ steps' = steps /\ enabled' = enabled /\ made' = made
        /\ told' = told /\ disturbed' = disturbed
    BY <1>5 DEF Truncate
  <2>2. file' \in File
    BY <1>2, <1>5, TruncateEffect DEF File
  <2>3. request' \in [Requests -> Request]
    BY <1>5, TruncateEffect, ReplacedTypes
  <2> QED
    BY <1>2, <2>1, <2>2, <2>3 DEF TypeOK
<1>6. ASSUME NEW r \in Requests, Repair(r) PROVE TypeOK'
  <2>1. /\ day' = day /\ steps' = steps /\ enabled' = enabled /\ made' = made
        /\ told' = told /\ disturbed' = disturbed
    BY <1>6 DEF Repair
  <2>2. request[r] \in Request
    BY DEF TypeOK
  <2>3. file' \in File
    BY <1>1, <1>6, <2>2, RepairEffect, FlushEffect
  <2>4. request' \in [Requests -> Request]
    BY <1>6, RepairEffect, ReplacedTypes
  <2> QED
    BY <1>2, <2>1, <2>3, <2>4 DEF TypeOK
<1>7. ASSUME NEW r \in Requests, Write(r) PROVE TypeOK'
  <2>1. /\ day' = day /\ steps' = steps /\ enabled' = enabled /\ made' = made
        /\ disturbed' = disturbed
    BY <1>7 DEF Write
  <2>2. request[r] \in Request /\ request[r].copy \in Accounts
    BY DEF TypeOK, Request
  <2>3. Flush(request[r], request[r].copy)
    BY <1>7 DEF Write
  <2>4. file' \in File
    BY <2>2, <2>3, FlushEffect
  <2>5. request' \in [Requests -> Request]
    BY <1>1, <1>7, IdleEffect, ReplacedTypes
  <2>6. \A s \in Sessions : told[s] + request[r].added[s] \in Nat
    BY <1>2, <2>2 DEF Request
  <2>7. told' \in [Sessions -> Nat]
    BY <1>7, <2>6 DEF Write
  <2> QED
    BY <1>2, <2>1, <2>4, <2>5, <2>7 DEF TypeOK
<1>8. ASSUME NEW r \in Requests, Abort(r) PROVE TypeOK'
  <2>1. /\ day' = day /\ file' = file /\ steps' = steps /\ enabled' = enabled
        /\ made' = made /\ told' = told
    BY <1>8 DEF Abort
  <2>2. request' \in [Requests -> Request]
    BY <1>1, <1>8, IdleEffect, ReplacedTypes
  <2>3. disturbed' \in BOOLEAN
    BY <1>8 DEF Abort
  <2> QED
    BY <1>2, <2>1, <2>2, <2>3 DEF TypeOK
<1>9. CASE Enable
  BY <1>9 DEF TypeOK, Enable
<1>10. CASE NextDay
  <2>1. MaxDay \in Nat
    BY PaperAssumption
  <2>2. day' \in Days
    BY <1>2, <1>10, <2>1 DEF NextDay, Days
  <2> QED
    BY <1>2, <1>10, <2>2 DEF TypeOK, NextDay
<1>11. CASE UNCHANGED vars
  BY <1>11 DEF TypeOK, vars
<1> QED
  BY <1>3, <1>4, <1>5, <1>6, <1>7, <1>8, <1>9, <1>10, <1>11, TypeTrade DEF Next

\* Every state has the types declared for it: no account has more shares sold than held, and none
\* spends more than its cash.
THEOREM TypesHold == Spec => []TypeOK
BY TypeInit, TypeInductive, PTL DEF Spec

-----------------------------------------------------------------------------
(* The entries of a day.  An account has entries only on days up to its last   *)
(* run, and a run enters nothing on a day it has run before; while it enters,  *)
(* its account has today's entries and is not dated yet.                       *)

CountedTo(account, d) ==
    /\ account.entries[d] <= MaxDailyEntries
    /\ account.entries[d] > 0 => d <= account.lastRun

InOrder(account, limit) ==
    /\ account.lastRun <= limit
    /\ \A d \in Days : CountedTo(account, d)

Entering(rec, account) ==
    /\ account.lastRun < rec.day
    /\ account.entries[rec.day] = rec.entered /\ rec.entered <= MaxDailyEntries
    /\ \A d \in Days \ {rec.day} : CountedTo(account, d)

Orderly(rec, today) ==
    /\ rec.day <= today
    /\ \A s \in Sessions : (rec.pc = "enter" => s # rec.session) => InOrder(rec.copy[s], rec.day)
    /\ rec.pc = "enter" => Entering(rec, rec.copy[rec.session])
    /\ rec.pc \in {"read", "repair", "repairing", "work"} => rec.entered = 0

EntryInv ==
    /\ \A s \in Sessions : InOrder(file.accounts[s], day)
    /\ \A r \in Requests : Orderly(request[r], day)

LEMMA AccountNumbers ==
    ASSUME NEW account \in Account
    PROVE  account.lastRun \in Int /\ \A d \in Days : account.entries[d] \in Nat /\ d \in Nat
<1>1. account.lastRun \in Days \cup {-1} /\ account.entries \in [Days -> Nat]
  BY DEF Account
<1>2. Days \subseteq Nat
  BY DEF Days
<1>3. account.lastRun \in Int
  <2>1. CASE account.lastRun \in Days
    BY <2>1 DEF Days
  <2>2. CASE account.lastRun = -1
    BY <2>2
  <2> QED
    BY <1>1, <2>1, <2>2
<1>4. \A d \in Days : account.entries[d] \in Nat /\ d \in Nat
  BY <1>1, <1>2
<1> QED
  BY <1>3, <1>4

LEMMA DefaultInOrder ==
    /\ \A limit \in Nat, s \in Sessions : InOrder(DefaultAccounts[s], limit)
    /\ \A today \in Nat : Orderly(IdleRequest, today)
<1>1. MaxDailyEntries \in Nat
  BY PaperAssumption
<1>2. ASSUME NEW limit \in Nat PROVE InOrder(DefaultAccount, limit)
  BY <1>1 DEF InOrder, CountedTo, DefaultAccount, Days
<1>3. \A s \in Sessions : DefaultAccounts[s] = DefaultAccount
  BY DEF DefaultAccounts
<1>4. /\ IdleRequest.pc = "idle" /\ IdleRequest.day = 0
      /\ IdleRequest.copy = DefaultAccounts
  BY DEF IdleRequest
<1> QED
  BY <1>2, <1>3, <1>4 DEF Orderly

LEMMA BargainOrderly ==
    ASSUME NEW today \in Nat, NEW old \in Request, NEW new \in Request, NEW account \in Account,
           Bargain(old, new, account), Orderly(old, today)
    PROVE  Orderly(new, today)
<1>1. /\ old.pc = "work" /\ new.pc \in {"work", "write"} /\ new.day = old.day
      /\ new.entered = old.entered /\ new.copy = [old.copy EXCEPT ![old.session] = account]
  BY DEF Bargain, Same, Deal
<1>2. /\ account.lastRun = old.copy[old.session].lastRun
      /\ account.entries = old.copy[old.session].entries
  BY DEF Bargain, Deal
<1>3. old.session \in Sessions /\ old.copy \in Accounts
  BY DEF Request
<1>4. InOrder(account, old.day)
  BY <1>1, <1>2, <1>3 DEF Orderly, InOrder, CountedTo
<1>5. \A s \in Sessions : InOrder(new.copy[s], new.day)
  BY <1>1, <1>3, <1>4 DEF Orderly, Accounts
<1> QED
  BY <1>1, <1>5 DEF Orderly

LEMMA FulfilmentOrderly ==
    ASSUME NEW today \in Nat, NEW old \in Request, NEW new \in Request, NEW account \in Account,
           NEW step, Fulfilment(old, new, account, step), Orderly(old, today)
    PROVE  Orderly(new, today)
<1>1. /\ old.pc = "fill" /\ new.pc \in {"steps", "fill"} /\ new.day = old.day
      /\ new.copy = [old.copy EXCEPT ![old.session] = account]
  BY DEF Fulfilment, Same, Deal
<1>2. /\ account.lastRun = old.copy[old.session].lastRun
      /\ account.entries = old.copy[old.session].entries
  BY DEF Fulfilment, Deal
<1>3. old.session \in Sessions /\ old.copy \in Accounts
  BY DEF Request
<1>4. InOrder(account, old.day)
  BY <1>1, <1>2, <1>3 DEF Orderly, InOrder, CountedTo
<1>5. \A s \in Sessions : InOrder(new.copy[s], new.day)
  BY <1>1, <1>3, <1>4 DEF Orderly, Accounts
<1> QED
  BY <1>1, <1>5 DEF Orderly

LEMMA EntryOrderly ==
    ASSUME NEW today \in Nat, NEW old \in Request, NEW new \in Request, NEW account \in Account,
           Entry(old, new, account), Orderly(old, today)
    PROVE  Orderly(new, today)
<1>1. /\ old.pc = "enter" /\ new.pc = "enter" /\ new.day = old.day
      /\ new.session = old.session /\ new.entered = old.entered + 1
      /\ old.entered < MaxDailyEntries
      /\ new.copy = [old.copy EXCEPT ![old.session] = account]
  BY DEF Entry, Same, Deal
<1>2. /\ account.lastRun = old.copy[old.session].lastRun
      /\ account.entries = [old.copy[old.session].entries EXCEPT ![old.day] = @ + 1]
  BY DEF Entry, Deal
<1>3. /\ old.session \in Sessions /\ old.copy \in Accounts /\ old.day \in Days
      /\ old.entered \in Nat
  BY DEF Request
<1>4. MaxDailyEntries \in Nat
  BY PaperAssumption
<1>5. old.copy[old.session] \in Account
  BY <1>3 DEF Accounts
<1>6. PICK b \in Account : b = old.copy[old.session]
  BY <1>5
<1>7. b.entries \in [Days -> Nat]
  BY DEF Account
<1>8. Entering(old, b)
  BY <1>1, <1>6 DEF Orderly
<1>9. account.entries[old.day] = b.entries[old.day] + 1
  BY <1>2, <1>3, <1>6, <1>7
<1>10. \A d \in Days \ {old.day} : account.entries[d] = b.entries[d]
  BY <1>2, <1>3, <1>6, <1>7
<1>11. Entering(new, account)
  <2>1. account.lastRun < new.day /\ \A d \in Days \ {new.day} : CountedTo(account, d)
    BY <1>1, <1>2, <1>6, <1>8, <1>10 DEF Entering, CountedTo
  <2>2. account.entries[new.day] = new.entered
    BY <1>1, <1>8, <1>9 DEF Entering
  <2>3. new.entered <= MaxDailyEntries
    BY <1>1, <1>3, <1>4
  <2> QED
    BY SMTT(60), <2>1, <2>2, <2>3 DEF Entering
<1>12. new.copy[new.session] = account
  BY <1>1, <1>3 DEF Accounts
<1>13. \A s \in Sessions \ {new.session} : InOrder(new.copy[s], new.day)
  BY <1>1, <1>3 DEF Orderly, Accounts
<1> QED
  BY <1>1, <1>11, <1>12, <1>13 DEF Orderly

LEMMA DatingOrderly ==
    ASSUME NEW today \in Nat, NEW old \in Request, NEW new \in Request, NEW account \in Account,
           Dating(old, new, account), Orderly(old, today)
    PROVE  Orderly(new, today)
<1>1. /\ old.pc = "enter" /\ new.pc = "write" /\ new.day = old.day
      /\ new.copy = [old.copy EXCEPT ![old.session] = account]
      /\ account.lastRun = old.day
      /\ account.entries = old.copy[old.session].entries
  BY DEF Dating, Same
<1>2. /\ old.session \in Sessions /\ old.copy \in Accounts /\ old.day \in Days
      /\ old.day \in Nat
  BY DEF Request, Days
<1>3. old.copy[old.session] \in Account
  BY <1>2 DEF Accounts
<1>4. PICK b \in Account : b = old.copy[old.session]
  BY <1>3
<1>5. Entering(old, b)
  BY <1>1, <1>4 DEF Orderly
<1>6. b.lastRun \in Int /\ \A d \in Days : b.entries[d] \in Nat /\ d \in Nat
  BY AccountNumbers
<1>7. ASSUME NEW d \in Days PROVE CountedTo(account, d)
  <2>1. CASE d = old.day
    BY <1>1, <1>2, <1>4, <1>5, <2>1 DEF Entering, CountedTo
  <2>2. CASE d # old.day
    <3>1. CountedTo(b, d)
      BY <1>5, <2>2 DEF Entering
    <3>2. b.lastRun < old.day
      BY <1>5 DEF Entering
    <3> QED
      BY <1>1, <1>2, <1>4, <1>6, <3>1, <3>2 DEF CountedTo
  <2> QED
    BY <2>1, <2>2
<1>8. InOrder(account, new.day)
  BY <1>1, <1>2, <1>7 DEF InOrder
<1>9. \A s \in Sessions : InOrder(new.copy[s], new.day)
  BY <1>1, <1>2, <1>8 DEF Orderly, Accounts
<1>10. new.day <= today
  BY <1>1 DEF Orderly
<1> QED
  BY <1>1, <1>9, <1>10 DEF Orderly

\* The sales are done: today's entries start from none.
LEMMA DueOrderly ==
    ASSUME NEW today \in Nat, NEW old \in Request, NEW new \in Request,
           Onward(old, new), old.pc = "work", new.pc = "enter",
           old.copy[old.session].lastRun # old.day, Orderly(old, today)
    PROVE  Orderly(new, today)
<1>1. /\ new.day = old.day /\ new.session = old.session /\ new.copy = old.copy
      /\ new.entered = old.entered
  BY DEF Onward, Quiet, Same
<1>2. /\ old.session \in Sessions /\ old.copy \in Accounts /\ old.day \in Days
      /\ old.day \in Nat
  BY DEF Request, Days
<1>3. old.copy[old.session] \in Account
  BY <1>2 DEF Accounts
<1>4. PICK b \in Account : b = old.copy[old.session]
  BY <1>3
<1>5. b.lastRun \in Int /\ \A d \in Days : b.entries[d] \in Nat /\ d \in Nat
  BY AccountNumbers
<1>6. InOrder(b, old.day) /\ old.entered = 0
  BY <1>2, <1>4 DEF Orderly
<1>7. b.lastRun < old.day
  BY <1>2, <1>4, <1>5, <1>6 DEF InOrder
<1>8. b.entries[old.day] = 0
  BY <1>2, <1>5, <1>6, <1>7 DEF InOrder, CountedTo
<1>9. 0 <= MaxDailyEntries
  BY PaperAssumption
<1>10. Entering(new, b)
  BY <1>1, <1>6, <1>7, <1>8, <1>9 DEF Entering, InOrder
<1> QED
  BY <1>1, <1>4, <1>10 DEF Orderly

\* Any other step of a request on an unchanged copy.
LEMMA QuietOrderly ==
    ASSUME NEW today \in Nat, NEW old \in Request, NEW new \in Request,
           new.day = old.day, new.copy = old.copy, new.entered = old.entered,
           old.pc # "enter", new.pc # "enter",
           \/ new.pc \notin {"read", "repair", "repairing", "work"}
           \/ old.pc \in {"read", "repair", "repairing", "work"},
           Orderly(old, today)
    PROVE  Orderly(new, today)
BY DEF Orderly

\* The request begins on accounts in order.
LEMMA BeginningOrderly ==
    ASSUME day \in Nat, NEW old \in Request, NEW new \in Request, NEW accounts \in Accounts,
           Beginning(old, new, accounts), old.entered = 0,
           \A s \in Sessions : InOrder(accounts[s], day)
    PROVE  Orderly(new, day)
BY DefaultInOrder DEF Beginning, Orderly

LEMMA LaterOrderly ==
    ASSUME NEW today \in Nat, NEW later \in Nat, today <= later
    PROVE  /\ \A account \in Account : InOrder(account, today) => InOrder(account, later)
           /\ \A rec \in Request : Orderly(rec, today) => Orderly(rec, later)
<1>1. ASSUME NEW account \in Account, InOrder(account, today) PROVE InOrder(account, later)
  BY <1>1, AccountNumbers DEF InOrder
<1>2. ASSUME NEW rec \in Request, Orderly(rec, today) PROVE Orderly(rec, later)
  <2>1. rec.day \in Nat
    BY DEF Request, Days
  <2>2. rec.day <= later
    BY <1>2, <2>1 DEF Orderly
  <2> QED
    BY <1>2, <2>2 DEF Orderly
<1> QED
  BY <1>1, <1>2

LEMMA EntryTrade ==
    ASSUME TypeOK, EntryInv, NEW r \in Requests, Trade(r)
    PROVE  EntryInv'
<1>1. request[r] \in Request /\ day \in Nat /\ Orderly(request[r], day)
  BY DEF TypeOK, Days, EntryInv
<1>2. PICK old \in Request : old = request[r]
  BY <1>1
<1>3. PICK today \in Nat : today = day
  BY <1>1
<1>4. Orderly(old, today)
  BY <1>1, <1>2, <1>3
<1>5. ASSUME NEW new \in Request, Replaced(r, new), Orderly(new, today)
      PROVE  EntryInv'
  <2>1. \A q \in Requests : Orderly(request[q], today) /\ (q # r => request'[q] = request[q])
    BY <1>3, <1>5, ReplacedTypes DEF EntryInv, Replaced
  <2>2. request'[r] = new
    BY <1>5, ReplacedTypes DEF Replaced
  <2>3. \A q \in Requests : Orderly(request'[q], today)
    BY <1>5, <2>1, <2>2
  <2>4. day' = today /\ file' = file
    BY <1>3, <1>5 DEF Replaced
  <2>5. \A s \in Sessions : InOrder(file.accounts[s], today)
    BY <1>3 DEF EntryInv
  <2> QED
    BY <2>3, <2>4, <2>5 DEF EntryInv
<1>6. CASE PlaceOrder(r) \/ SellHolding(r)
  <2>1. PICK new \in Request, account \in Account :
           Replaced(r, new) /\ Bargain(old, new, account)
    BY <1>2, <1>6, OrderEffect, SaleEffect
  <2> QED
    BY <1>4, <1>5, <2>1, BargainOrderly
<1>7. CASE Enter(r)
  <2>1. PICK new \in Request, account \in Account :
           Replaced(r, new) /\ Entry(old, new, account)
    BY <1>2, <1>7, EntryEffect
  <2> QED
    BY <1>4, <1>5, <2>1, EntryOrderly
<1>8. CASE FillOrder(r) \/ FillStopLoss(r)
  <2>1. PICK new \in Request, account \in Account, step \in Steps :
           Replaced(r, new) /\ Fulfilment(old, new, account, step)
    BY <1>2, <1>8, FillEffect
  <2> QED
    BY <1>4, <1>5, <2>1, FulfilmentOrderly
<1>9. CASE Skip(r) \/ EntriesDue(r) \/ EndCycle(r)
  <2>1. PICK new \in Request :
           /\ Replaced(r, new) /\ Onward(old, new)
           /\ \/ old.pc \in {"work", "steps"} /\ new.pc = "write"
              \/ /\ old.pc = "work" /\ new.pc = "enter"
                 /\ old.copy[old.session].lastRun # old.day
    BY <1>2, <1>9, OnwardEffect
  <2>2. CASE new.pc = "write"
    BY <1>4, <1>5, <2>1, <2>2, QuietOrderly DEF Onward, Quiet, Same
  <2>3. CASE new.pc = "enter"
    BY <1>4, <1>5, <2>1, <2>3, DueOrderly
  <2> QED
    BY <2>1, <2>2, <2>3
<1>10. CASE EndRun(r)
  <2>1. PICK new \in Request, account \in Account :
           Replaced(r, new) /\ Dating(old, new, account)
    BY <1>2, <1>10, DatingEffect
  <2> QED
    BY <1>4, <1>5, <2>1, DatingOrderly
<1>11. CASE RejectFill(r)
  <2>1. PICK new \in Request : Replaced(r, new) /\ Rejection(old, new)
    BY <1>2, <1>11, RejectEffect
  <2> QED
    BY <1>4, <1>5, <2>1, QuietOrderly DEF Rejection, Quiet, Same
<1>12. CASE Evaluate(r)
  <2>1. PICK new \in Request, s \in Sessions, orders \in SUBSET Steps :
           Replaced(r, new) /\ Tick(old, new, s, orders)
    BY <1>2, <1>12, TickEffect
  <2>2. new.pc \in {"steps", "fill"}
    BY <2>1 DEF Tick
  <2> QED
    BY <1>4, <1>5, <2>1, <2>2, QuietOrderly DEF Tick
<1>13. CASE Refuse(r)
  <2>1. Replaced(r, IdleRequest)
    BY <1>13 DEF Refuse, Replaced, Step
  <2> QED
    BY <1>5, <2>1, DefaultTypes, DefaultInOrder
<1> QED
  BY <1>6, <1>7, <1>8, <1>9, <1>10, <1>11, <1>12, <1>13 DEF Trade

LEMMA EntryInit == Init => EntryInv
BY DefaultInOrder DEF Init, EntryInv

LEMMA EntryInductive == TypeOK /\ EntryInv /\ [Next]_vars => EntryInv'
<1> SUFFICES ASSUME TypeOK, EntryInv, [Next]_vars PROVE EntryInv'
  OBVIOUS
<1>1. day \in Nat /\ file.accounts \in Accounts
  BY DEF TypeOK, Days, File
<1>2. PICK today \in Nat : today = day
  BY <1>1
<1>3. /\ \A q \in Requests : request[q] \in Request /\ Orderly(request[q], today)
      /\ \A s \in Sessions : InOrder(file.accounts[s], today)
  BY <1>2 DEF TypeOK, EntryInv
<1>4. ASSUME NEW r \in Requests, NEW new \in Request, request' = [request EXCEPT ![r] = new],
             Orderly(new, today), day' = day
      PROVE  \A q \in Requests : Orderly(request'[q], day')
  <2>1. \A q \in Requests : q # r => request'[q] = request[q]
    BY <1>4, ReplacedTypes
  <2>2. request'[r] = new
    BY <1>4, ReplacedTypes
  <2> QED
    BY <1>2, <1>3, <1>4, <2>1, <2>2
<1>5. ASSUME NEW r \in Requests, Ask(r) PROVE EntryInv'
  <2>1. PICK new \in Request :
           /\ request' = [request EXCEPT ![r] = new]
           /\ new.pc = (IF new.job = "reset" THEN "write" ELSE "read")
           /\ new.day = 0 /\ new.entered = 0 /\ new.copy = DefaultAccounts
    BY <1>5, AskEffect
  <2>2. Orderly(new, today)
    BY <2>1, DefaultInOrder DEF Orderly
  <2>3. day' = day /\ file' = file
    BY <1>5 DEF Ask
  <2> QED
    BY <1>2, <1>3, <1>4, <2>1, <2>2, <2>3 DEF EntryInv
<1>6. ASSUME NEW r \in Requests, Read(r) PROVE EntryInv'
  <2>1. day' = day /\ request[r].pc = "read" /\ request[r].entered = 0
    BY <1>3, <1>6, ReadEffect DEF Read, Orderly
  <2>2. \A s \in Sessions : InOrder(file'.accounts[s], day')
    BY <1>2, <1>3, <1>6, <2>1, ReadEffect DEF TypeOK, File
  <2>3. CASE \E new \in Request :
                request' = [request EXCEPT ![r] = new] /\ Beginning(request[r], new, file.accounts)
    <3>1. PICK new \in Request :
              request' = [request EXCEPT ![r] = new] /\ Beginning(request[r], new, file.accounts)
      BY <2>3
    <3>2. Orderly(new, day)
      BY <1>1, <1>2, <1>3, <2>1, <3>1, BeginningOrderly
    <3> QED
      BY <1>2, <1>4, <2>1, <2>2, <3>1, <3>2 DEF EntryInv
  <2>4. CASE request' = [q \in Requests |->
                            [request[q] EXCEPT !.attached = FALSE,
                                               !.pc = IF q = r THEN "repair" ELSE @]]
    <3>1. ASSUME NEW q \in Requests PROVE Orderly(request'[q], day')
      <4>1. PICK old \in Request : old = request[q]
        BY <1>3
      <4>2. PICK new : new = request'[q]
        OBVIOUS
      <4>3. PICK pc \in Pcs : pc = IF q = r THEN "repair" ELSE old.pc
        BY DEF Pcs, Request
      <4>4. new = [old EXCEPT !.attached = FALSE, !.pc = pc]
        BY <2>4, <4>1, <4>2, <4>3
      <4>5. new \in Request /\ new.pc = pc /\ new.day = old.day /\ new.copy = old.copy
        BY <4>4 DEF Request, Pcs
      <4>6. new.entered = old.entered /\ new.session = old.session
        BY <4>4 DEF Request
      <4>7. Orderly(old, today)
        BY <1>3, <4>1
      <4>8. pc = old.pc \/ (pc = "repair" /\ old.pc = "read")
        <5>1. CASE q = r
          <6>1. old.pc = "read"
            BY <2>1, <4>1, <5>1
          <6>2. pc = "repair"
            BY <4>3, <5>1
          <6> QED
            BY <6>1, <6>2
        <5>2. CASE q # r
          BY <4>3, <5>2
        <5> QED
          BY <5>1, <5>2
      <4> QED
        <5>1. Orderly(new, today)
          <6>1. CASE pc = old.pc
            BY <6>1, <4>5, <4>6, <4>7 DEF Orderly, Entering
          <6>2. CASE pc = "repair" /\ old.pc = "read"
            BY <6>2, <4>5, <4>6, <4>7 DEF Orderly
          <6> QED
            BY <6>1, <6>2, <4>8
        <5> QED
          BY <1>2, <2>1, <4>2, <5>1
    <3> QED
      BY <2>2, <3>1 DEF EntryInv
  <2>5. CASE \E new \in Request :
                /\ request' = [request EXCEPT ![r] = new]
                /\ new.pc = "repair" /\ Onward(request[r], new)
    <3>1. PICK new \in Request :
              /\ request' = [request EXCEPT ![r] = new]
              /\ new.pc = "repair" /\ Onward(request[r], new)
      BY <2>5
    <3>2. Orderly(new, today)
      BY <1>3, <2>1, <3>1, QuietOrderly DEF Onward, Quiet, Same
    <3> QED
      BY <1>4, <2>1, <2>2, <3>1, <3>2 DEF EntryInv
  <2> QED
    BY ZenonT(60), <1>6, <2>3, <2>4, <2>5, ReadEffect
<1>7. ASSUME NEW r \in Requests, Truncate(r) PROVE EntryInv'
  <2>1. PICK new \in Request :
           /\ request' = [request EXCEPT ![r] = new]
           /\ \/ request[r].pc = "repair" /\ new.pc = "repairing"
              \/ request[r].pc = "write" /\ new.pc = "writing"
           /\ new.day = request[r].day /\ new.copy = request[r].copy
           /\ new.entered = request[r].entered
    BY <1>7, TruncateEffect
  <2>2. Orderly(new, today)
    BY <1>3, <2>1, QuietOrderly
  <2>3. day' = day /\ file'.accounts = file.accounts
    BY <1>7, TruncateEffect DEF Truncate, TypeOK, File
  <2> QED
    BY <1>2, <1>3, <1>4, <2>1, <2>2, <2>3 DEF EntryInv
<1>8. ASSUME NEW r \in Requests, Repair(r) PROVE EntryInv'
  <2>1. PICK new \in Request, begun \in Request :
           /\ request' = [request EXCEPT ![r] = new]
           /\ Beginning(request[r], begun, DefaultAccounts)
           /\ new = [begun EXCEPT !.attached = FALSE]
    BY <1>8, RepairEffect
  <2>2. request[r].pc = "repairing" /\ request[r].entered = 0
    BY <1>3, <1>8, RepairEffect DEF Orderly
  <2>3. Orderly(begun, day)
    BY <1>1, <1>3, <2>1, <2>2, BeginningOrderly, DefaultInOrder, DefaultTypes
  <2>a. /\ new.pc = begun.pc /\ new.day = begun.day /\ new.copy = begun.copy
        /\ new.session = begun.session /\ new.entered = begun.entered
    BY <2>1 DEF Request
  <2>4. Orderly(new, today)
    BY <1>2, <2>3, <2>a DEF Orderly, Entering
  <2>5. day' = day
    BY <1>8 DEF Repair
  <2>6. file'.accounts = file.accounts \/ file'.accounts = DefaultAccounts
    BY <1>3, <1>8, RepairEffect, FlushEffect, DefaultTypes
  <2> QED
    BY <1>2, <1>3, <1>4, <2>1, <2>4, <2>5, <2>6, DefaultInOrder DEF EntryInv
<1>9. ASSUME NEW r \in Requests, Write(r) PROVE EntryInv'
  <2>1. PICK old \in Request : old = request[r]
    BY <1>3
  <2>2. old.pc = "writing" /\ Flush(old, old.copy) /\ day' = day
    BY <1>9, <2>1 DEF Write
  <2>3. old.copy \in Accounts /\ old.day \in Nat
    BY DEF Request, Days
  <2>4. file'.accounts = file.accounts \/ file'.accounts = old.copy
    BY <2>2, <2>3, FlushEffect
  <2>5. Orderly(old, today)
    BY <1>3, <2>1
  <2>6. \A s \in Sessions : InOrder(old.copy[s], old.day) /\ old.copy[s] \in Account
    BY <2>2, <2>3, <2>5 DEF Orderly, Accounts
  <2>7. \A s \in Sessions : InOrder(old.copy[s], today)
    BY <2>3, <2>5, <2>6, LaterOrderly DEF Orderly
  <2>8. Orderly(IdleRequest, today) /\ IdleRequest \in Request
    BY DefaultInOrder, DefaultTypes
  <2> QED
    BY <1>2, <1>3, <1>4, <1>9, <2>2, <2>4, <2>7, <2>8, IdleEffect DEF EntryInv
<1>10. ASSUME NEW r \in Requests, Abort(r) PROVE EntryInv'
  <2>1. Orderly(IdleRequest, today) /\ IdleRequest \in Request
    BY DefaultInOrder, DefaultTypes
  <2>2. day' = day /\ file' = file
    BY <1>10 DEF Abort
  <2> QED
    BY <1>2, <1>3, <1>4, <1>10, <2>1, <2>2, IdleEffect DEF EntryInv
<1>11. CASE NextDay
  <2>1. PICK later \in Nat : later = day' /\ today <= later
    BY <1>1, <1>2, <1>11 DEF NextDay
  <2>2. file' = file /\ request' = request
    BY <1>11 DEF NextDay
  <2>3. \A s \in Sessions : file.accounts[s] \in Account
    BY <1>1 DEF Accounts
  <2> QED
    BY <1>3, <2>1, <2>2, <2>3, LaterOrderly DEF EntryInv
<1>12. CASE Enable \/ UNCHANGED vars
  BY <1>12 DEF EntryInv, Enable, vars
<1> QED
  BY <1>5, <1>6, <1>7, <1>8, <1>9, <1>10, <1>11, <1>12, EntryTrade DEF Next

\* A session's account never has more new positions of a day than MaxDailyEntries, however often
\* the daily run is asked for, and whatever overlaps it or kills it.
THEOREM EntriesStayLimited == Spec => []EntriesADay
<1>1. EntryInv => EntriesADay
  BY DEF EntryInv, EntriesADay, InOrder, CountedTo
<1> QED
  BY <1>1, TypeInit, TypeInductive, EntryInit, EntryInductive, PTL DEF Spec

-----------------------------------------------------------------------------
(* The executions of the file.  Without an overlap there is one request, and  *)
(* what it holds is what the callers were told plus its own executions; the   *)
(* file is torn while it writes, and only then.                               *)

Settled(f, t) == f.kind # "torn" /\ \A s \in Sessions : f.accounts[s].executions = t[s]

Untold(t) == \A s \in Sessions : t[s] = 0

Owing(rec, f, t) ==
    /\ rec.pc \in {"repairing", "writing"} => rec.attached /\ f.kind = "torn"
    /\ rec.pc \notin {"repairing", "writing"} => Settled(f, t)
    /\ rec.pc \in {"repair", "repairing"} => Untold(t)
    /\ rec.pc \in {"read", "repair", "repairing"} => Untold(rec.added)
    /\ rec.pc \notin {"write", "writing"} => rec.job # "reset"
    /\ rec.pc \in {"work", "enter", "steps", "fill", "write", "writing"} =>
          IF rec.job = "reset" THEN \A s \in Sessions : rec.copy[s].executions = 0
          ELSE \A s \in Sessions : rec.copy[s].executions = t[s] + rec.added[s]

KeptInv ==
    ~disturbed =>
        /\ file.kind = "missing" => Untold(told)
        /\ \A q, r \in Busy : q = r
        /\ Busy = {} => Settled(file, told)
        /\ \A r \in Busy : Owing(request[r], file, told)

LEMMA DefaultExecutions == \A s \in Sessions : DefaultAccounts[s].executions = 0
BY DEF DefaultAccounts, DefaultAccount

\* A step of the only request.
LEMMA KeptFrom ==
    ASSUME TypeOK, ~disturbed, KeptInv, NEW r \in Requests, request[r].pc # "idle",
           NEW new \in Request, request' = [request EXCEPT ![r] = new],
           file'.kind = "missing" => Untold(told'),
           new.pc = "idle" => Settled(file', told'),
           new.pc # "idle" => Owing(new, file', told')
    PROVE  KeptInv'
<1>1. \A q \in Requests \ {r} : request'[q] = request[q] /\ request[q].pc = "idle"
  BY ReplacedTypes DEF KeptInv, Busy
<1>2. request'[r] = new
  BY ReplacedTypes
<1>3. Busy' = IF new.pc = "idle" THEN {} ELSE {r}
  BY <1>1, <1>2 DEF Busy
<1> QED
  BY <1>2, <1>3 DEF KeptInv

LEMMA KeptBefore ==
    ASSUME ~disturbed, KeptInv, NEW r \in Requests, request[r].pc # "idle"
    PROVE  Owing(request[r], file, told) /\ (file.kind = "missing" => Untold(told))
BY DEF KeptInv, Busy

\* An execution more in the copy is one more of the request.
LEMMA DealOwing ==
    ASSUME NEW f, NEW t \in [Sessions -> Nat], NEW old \in Request, NEW new \in Request,
           NEW account \in Account, Deal(old, new, account), Same(old, new),
           old.pc \in {"work", "enter", "steps", "fill"},
           new.pc \in {"work", "enter", "steps", "fill", "write"},
           Owing(old, f, t)
    PROVE  Owing(new, f, t)
<1>1. old.job # "reset" /\ new.job = old.job /\ Settled(f, t)
  BY DEF Owing, Same
<1>2. \A s \in Sessions : old.copy[s].executions = t[s] + old.added[s]
  BY <1>1 DEF Owing
<1>3. /\ old.copy \in Accounts /\ old.added \in [Sessions -> Nat] /\ old.session \in Sessions
  BY DEF Request
<1>4. ASSUME NEW s \in Sessions PROVE new.copy[s].executions = t[s] + new.added[s]
  <2>1. CASE s = old.session
    <3>1. /\ new.copy[s].executions = old.copy[s].executions + 1
          /\ new.added[s] = old.added[s] + 1
      BY <1>3, <2>1 DEF Deal, Accounts
    <3>2. t[s] \in Nat /\ old.added[s] \in Nat
      BY <1>3
    <3> QED
      BY <1>2, <3>1, <3>2
  <2>2. CASE s # old.session
    BY <1>2, <1>3, <2>2 DEF Deal, Accounts
  <2> QED
    BY <2>1, <2>2
<1> QED
  BY <1>1, <1>4 DEF Owing

\* A step that executes nothing.
LEMMA StillOwing ==
    ASSUME NEW f, NEW t \in [Sessions -> Nat], NEW old \in Request, NEW new \in Request,
           new.job = old.job, new.added = old.added,
           \A s \in Sessions : new.copy[s].executions = old.copy[s].executions,
           old.pc \in {"work", "enter", "steps", "fill"},
           new.pc \in {"work", "enter", "steps", "fill", "write"},
           Owing(old, f, t)
    PROVE  Owing(new, f, t)
BY DEF Owing

LEMMA KeptTrade ==
    ASSUME TypeOK, ~disturbed, KeptInv, NEW r \in Requests, Trade(r)
    PROVE  KeptInv'
<1>1. request[r] \in Request /\ told \in [Sessions -> Nat]
  BY DEF TypeOK
<1>2. PICK old \in Request : old = request[r]
  BY <1>1
<1>3. PICK t \in [Sessions -> Nat] : t = told
  BY SMTT(60), <1>1
<1>4. old.pc \in {"work", "enter", "steps", "fill"}
  BY <1>2 DEF Trade, PlaceOrder, Refuse, Skip, SellHolding, EntriesDue, Enter, EndRun, Evaluate,
              FillOrder, FillStopLoss, RejectFill, EndCycle
<1>5. Owing(old, file, t) /\ (file.kind = "missing" => Untold(t))
  BY <1>2, <1>3, <1>4, KeptBefore
<1>6. ASSUME NEW new \in Request, Replaced(r, new), Owing(new, file, t), new.pc # "idle"
      PROVE  KeptInv'
  <2>1. file' = file /\ told' = t /\ request' = [request EXCEPT ![r] = new]
    BY <1>3, <1>6 DEF Replaced
  <2> QED
    BY <1>2, <1>4, <1>5, <1>6, <2>1, KeptFrom
<1>7. CASE PlaceOrder(r) \/ SellHolding(r)
  <2>1. PICK new \in Request, account \in Account :
           Replaced(r, new) /\ Bargain(old, new, account)
    BY <1>2, <1>7, OrderEffect, SaleEffect
  <2>2. /\ Deal(old, new, account) /\ Same(old, new)
        /\ new.pc \in {"work", "enter", "steps", "fill", "write"}
    BY <2>1 DEF Bargain
  <2> QED
    BY <1>4, <1>5, <1>6, <2>1, <2>2, DealOwing
<1>8. CASE Enter(r)
  <2>1. PICK new \in Request, account \in Account :
           Replaced(r, new) /\ Entry(old, new, account)
    BY <1>2, <1>8, EntryEffect
  <2>2. /\ Deal(old, new, account) /\ Same(old, new)
        /\ new.pc \in {"work", "enter", "steps", "fill", "write"}
    BY <2>1 DEF Entry
  <2> QED
    BY <1>4, <1>5, <1>6, <2>1, <2>2, DealOwing
<1>9. CASE FillOrder(r) \/ FillStopLoss(r)
  <2>1. PICK new \in Request, account \in Account, step \in Steps :
           Replaced(r, new) /\ Fulfilment(old, new, account, step)
    BY <1>2, <1>9, FillEffect
  <2>2. /\ Deal(old, new, account) /\ Same(old, new)
        /\ new.pc \in {"work", "enter", "steps", "fill", "write"}
    BY <2>1 DEF Fulfilment
  <2> QED
    BY <1>4, <1>5, <1>6, <2>1, <2>2, DealOwing
<1>10. CASE Skip(r) \/ EntriesDue(r) \/ EndCycle(r)
  <2>1. PICK new \in Request :
           Replaced(r, new) /\ Onward(old, new) /\ new.pc \in {"write", "enter"}
    BY <1>2, <1>10, OnwardEffect
  <2>2. new.job = old.job /\ new.added = old.added /\ new.copy = old.copy
    BY <2>1 DEF Onward, Quiet, Same
  <2> QED
    BY <1>4, <1>5, <1>6, <2>1, <2>2, StillOwing
<1>11. CASE EndRun(r)
  <2>1. PICK new \in Request, account \in Account :
           Replaced(r, new) /\ Dating(old, new, account)
    BY <1>2, <1>11, DatingEffect
  <2>2. /\ new.job = old.job /\ new.added = old.added /\ new.pc = "write"
        /\ new.copy = [old.copy EXCEPT ![old.session] = account]
        /\ account.executions = old.copy[old.session].executions
    BY <2>1 DEF Dating, Same
  <2>3. old.copy \in Accounts /\ old.session \in Sessions
    BY DEF Request
  <2>4. \A s \in Sessions : new.copy[s].executions = old.copy[s].executions
    BY <2>2, <2>3 DEF Accounts
  <2> QED
    BY <1>4, <1>5, <1>6, <2>1, <2>2, <2>4, StillOwing
<1>12. CASE RejectFill(r)
  <2>1. PICK new \in Request : Replaced(r, new) /\ Rejection(old, new)
    BY <1>2, <1>12, RejectEffect
  <2>2. /\ new.job = old.job /\ new.added = old.added /\ new.copy = old.copy
        /\ new.pc \in {"work", "enter", "steps", "fill", "write"}
    BY <2>1 DEF Rejection, Quiet, Same
  <2> QED
    BY <1>4, <1>5, <1>6, <2>1, <2>2, StillOwing
<1>13. CASE Evaluate(r)
  <2>1. PICK new \in Request, s \in Sessions, orders \in SUBSET Steps :
           Replaced(r, new) /\ Tick(old, new, s, orders)
    BY <1>2, <1>13, TickEffect
  <2>2. /\ new.job = old.job /\ new.added = old.added /\ new.copy = old.copy
        /\ new.pc \in {"work", "enter", "steps", "fill", "write"}
    BY <2>1 DEF Tick
  <2> QED
    BY <1>4, <1>5, <1>6, <2>1, <2>2, StillOwing
<1>14. CASE Refuse(r)
  <2>1. request' = [request EXCEPT ![r] = IdleRequest] /\ file' = file /\ told' = t
    BY <1>3, <1>14 DEF Refuse, Step
  <2>2. IdleRequest \in Request /\ IdleRequest.pc = "idle"
    BY DefaultTypes DEF IdleRequest
  <2>3. Settled(file, t)
    BY <1>4, <1>5 DEF Owing
  <2> QED
    BY <1>2, <1>4, <1>5, <2>1, <2>2, <2>3, KeptFrom
<1> QED
  BY <1>7, <1>8, <1>9, <1>10, <1>11, <1>12, <1>13, <1>14 DEF Trade

LEMMA KeptInit == Init => KeptInv
<1> SUFFICES ASSUME Init PROVE KeptInv
  OBVIOUS
<1>1. Busy = {}
  BY DEF Init, Busy, IdleRequest
<1>2. Settled(file, told) /\ Untold(told)
  BY DefaultExecutions DEF Init, Settled, Untold
<1> QED
  BY <1>1, <1>2 DEF KeptInv

\* A request begins on what the file has.
LEMMA BeginningOwing ==
    ASSUME NEW f, NEW t \in [Sessions -> Nat], NEW old \in Request, NEW new \in Request,
           NEW accounts \in Accounts, Beginning(old, new, accounts),
           old.job # "reset", Untold(old.added), Settled(f, t),
           \A s \in Sessions : accounts[s].executions = t[s]
    PROVE  new.pc # "idle" => Owing(new, f, t)
<1>1. IdleRequest.pc = "idle"
  BY DEF IdleRequest
<1>2. CASE new # IdleRequest
  <2>1. /\ new.job = old.job /\ new.copy = accounts /\ new.added = old.added
        /\ new.pc \in {"steps", "work"}
    BY <1>2 DEF Beginning
  <2>2. \A s \in Sessions : new.copy[s].executions = t[s] + new.added[s]
    BY <2>1 DEF Untold
  <2> QED
    BY <2>1, <2>2 DEF Owing
<1> QED
  BY <1>1, <1>2

LEMMA KeptInductive == TypeOK /\ KeptInv /\ [Next]_vars => KeptInv'
<1> SUFFICES ASSUME TypeOK, KeptInv, [Next]_vars, ~disturbed' PROVE KeptInv'
  BY DEF KeptInv
<1>1. told \in [Sessions -> Nat] /\ file \in File /\ \A q \in Requests : request[q] \in Request
  BY DEF TypeOK
<1>2. PICK t \in [Sessions -> Nat] : t = told
  BY <1>1
<1>3. ASSUME NEW r \in Requests, Ask(r) PROVE KeptInv'
  <2>1. ~disturbed /\ Busy = {} /\ file' = file /\ told' = told
    BY <1>3 DEF Ask
  <2>2. PICK new \in Request :
           /\ request' = [request EXCEPT ![r] = new]
           /\ new.pc = (IF new.job = "reset" THEN "write" ELSE "read")
           /\ new.copy = DefaultAccounts /\ new.added = [s \in Sessions |-> 0]
    BY <1>3, AskEffect
  <2>3. Settled(file, told) /\ (file.kind = "missing" => Untold(told))
    BY <2>1 DEF KeptInv
  <2>4. Owing(new, file, told)
    <3>1. CASE new.job = "reset"
      BY <2>2, <2>3, <3>1, DefaultExecutions DEF Owing
    <3>2. CASE new.job # "reset"
      BY <2>2, <2>3, <3>2 DEF Owing, Untold
    <3> QED
      BY <3>1, <3>2
  <2>5. \A q \in Requests \ {r} : request'[q].pc = "idle"
    BY <2>1, <2>2, ReplacedTypes DEF Busy
  <2>6. request'[r] = new
    BY <2>2, ReplacedTypes
  <2>7. Busy' = {r}
    BY <2>2, <2>5, <2>6 DEF Busy
  <2> QED
    BY <2>1, <2>3, <2>4, <2>6, <2>7 DEF KeptInv
<1>4. ASSUME NEW r \in Requests, Read(r) PROVE KeptInv'
  <2>1. PICK old \in Request : old = request[r]
    BY <1>1
  <2>2. ~disturbed /\ old.pc = "read" /\ told' = t
    BY <1>2, <1>4, <2>1 DEF Read
  <2>3. Owing(old, file, t) /\ (file.kind = "missing" => Untold(t))
    BY <1>2, <2>1, <2>2, KeptBefore
  <2>4. Settled(file, t) /\ Untold(old.added) /\ old.job # "reset"
    BY <2>2, <2>3 DEF Owing
  <2>5. CASE file.kind = "ok"
    <3>1. PICK new \in Request :
             /\ request' = [request EXCEPT ![r] = new] /\ file' = file
             /\ Beginning(old, new, file.accounts)
      BY <1>4, <2>1, <2>5, ReadEffect
    <3>2. file.accounts \in Accounts
      BY <1>1 DEF File
    <3>3. new.pc # "idle" => Owing(new, file, t)
      BY <2>4, <3>1, <3>2, BeginningOwing DEF Settled
    <3> QED
      BY <2>1, <2>2, <2>3, <2>4, <3>1, <3>3, KeptFrom
  <2>6. CASE file.kind = "missing"
    <3>1. PICK new \in Request :
             /\ request' = [request EXCEPT ![r] = new] /\ file' = file
             /\ new.pc = "repair" /\ Onward(old, new)
      BY <1>4, <2>1, <2>6, ReadEffect
    <3>2. Owing(new, file, t)
      BY <2>3, <2>4, <2>6, <3>1 DEF Owing, Onward, Quiet, Same
    <3> QED
      BY <2>1, <2>2, <2>3, <3>1, <3>2, KeptFrom
  <2> QED
    BY <1>1, <2>4, <2>5, <2>6 DEF Settled, File
<1>5. ASSUME NEW r \in Requests, Truncate(r) PROVE KeptInv'
  <2>1. PICK old \in Request : old = request[r]
    BY <1>1
  <2>2. PICK new \in Request :
           /\ request' = [request EXCEPT ![r] = new]
           /\ \/ old.pc = "repair" /\ new.pc = "repairing"
              \/ old.pc = "write" /\ new.pc = "writing"
           /\ new.attached /\ new.job = old.job
           /\ new.copy = old.copy /\ new.added = old.added
    BY <1>5, <2>1, TruncateEffect
  <2>3. ~disturbed /\ told' = t
    BY <1>2, <1>5 DEF Truncate
  <2>4. file'.kind = "torn"
    BY <1>1, <1>5, TruncateEffect DEF File
  <2>5. Owing(old, file, t)
    BY <1>2, <2>1, <2>2, <2>3, KeptBefore
  <2>6. PICK f : f = file'
    OBVIOUS
  <2>7. Owing(new, f, t)
    BY <2>2, <2>4, <2>5, <2>6 DEF Owing
  <2> QED
    BY <2>1, <2>2, <2>3, <2>4, <2>6, <2>7, KeptFrom
<1>6. ASSUME NEW r \in Requests, Repair(r) PROVE KeptInv'
  <2>1. PICK old \in Request : old = request[r]
    BY <1>1
  <2>2. ~disturbed /\ told' = t /\ old.pc = "repairing" /\ Flush(old, DefaultAccounts)
    BY <1>2, <1>6, <2>1 DEF Repair
  <2>3. Owing(old, file, t)
    BY <1>2, <2>1, <2>2, KeptBefore
  <2>4. /\ old.attached /\ file.kind = "torn" /\ Untold(t) /\ Untold(old.added)
        /\ old.job # "reset"
    BY <2>2, <2>3 DEF Owing
  <2>5. file' = [kind |-> "ok", accounts |-> DefaultAccounts]
    BY <2>2, <2>4, FlushEffect, DefaultTypes
  <2>6. PICK f : f = file'
    OBVIOUS
  <2>7. Settled(f, t) /\ f.kind # "missing"
    BY <2>4, <2>5, <2>6, DefaultExecutions DEF Settled, Untold
  <2>8. PICK new \in Request, begun \in Request :
           /\ request' = [request EXCEPT ![r] = new]
           /\ Beginning(old, begun, DefaultAccounts)
           /\ new = [begun EXCEPT !.attached = FALSE]
    BY <1>6, <2>1, RepairEffect
  <2>9. begun.pc # "idle" => Owing(begun, f, t)
    BY <2>4, <2>7, <2>8, BeginningOwing, DefaultTypes, DefaultExecutions DEF Untold
  <2>10. /\ new.pc = begun.pc /\ new.job = begun.job /\ new.copy = begun.copy
         /\ new.added = begun.added
    BY <2>8 DEF Request
  <2>11. begun.pc \notin {"repairing", "writing"}
    BY <2>8 DEF Beginning, IdleRequest
  <2>12. new.pc # "idle" => Owing(new, f, t)
    BY <2>9, <2>10, <2>11 DEF Owing
  <2> QED
    BY <2>1, <2>2, <2>6, <2>7, <2>8, <2>12, KeptFrom
<1>7. ASSUME NEW r \in Requests, Write(r) PROVE KeptInv'
  <2>1. PICK old \in Request : old = request[r]
    BY <1>1
  <2>2. ~disturbed /\ old.pc = "writing" /\ Flush(old, old.copy)
    BY <1>7, <2>1 DEF Write
  <2>3. Owing(old, file, t)
    BY <1>2, <2>1, <2>2, KeptBefore
  <2>4. old.attached /\ file.kind = "torn" /\ old.copy \in Accounts
    BY <2>2, <2>3 DEF Owing, Request
  <2>5. file' = [kind |-> "ok", accounts |-> old.copy]
    BY <2>2, <2>4, FlushEffect
  <2>6. told' = IF old.job = "reset" THEN [s \in Sessions |-> 0]
                ELSE [s \in Sessions |-> t[s] + old.added[s]]
    BY <1>2, <1>7, <2>1 DEF Write
  <2>7. \A s \in Sessions : old.copy[s].executions = told'[s]
    BY <2>2, <2>3, <2>6 DEF Owing
  <2>8. Settled(file', told') /\ file'.kind # "missing"
    BY <2>5, <2>7 DEF Settled
  <2>9. IdleRequest \in Request /\ IdleRequest.pc = "idle"
    BY DefaultTypes DEF IdleRequest
  <2> QED
    BY <1>7, <2>1, <2>2, <2>8, <2>9, IdleEffect, KeptFrom
<1>8. ASSUME NEW r \in Requests, Abort(r) PROVE KeptInv'
  <2>1. PICK old \in Request : old = request[r]
    BY <1>1
  <2>2. /\ ~disturbed /\ old.pc \notin {"idle", "repairing", "writing"}
        /\ file' = file /\ told' = t
    BY <1>2, <1>8, <2>1 DEF Abort
  <2>3. Owing(old, file, t) /\ (file.kind = "missing" => Untold(t))
    BY <1>2, <2>1, <2>2, KeptBefore
  <2>4. Settled(file, t)
    BY <2>2, <2>3 DEF Owing
  <2>5. IdleRequest \in Request /\ IdleRequest.pc = "idle"
    BY DefaultTypes DEF IdleRequest
  <2> QED
    BY <1>8, <2>1, <2>2, <2>3, <2>4, <2>5, IdleEffect, KeptFrom
<1>9. ASSUME NEW r \in Requests, Trade(r) PROVE KeptInv'
  <2>1. ~disturbed
    BY <1>9 DEF Trade, PlaceOrder, Refuse, Skip, SellHolding, EntriesDue, Enter, EndRun,
                Evaluate, FillOrder, FillStopLoss, RejectFill, EndCycle
  <2> QED
    BY <1>9, <2>1, KeptTrade
<1>10. CASE Enable \/ NextDay \/ UNCHANGED vars
  <2>1. file' = file /\ told' = told /\ request' = request /\ disturbed' = disturbed
    BY <1>10 DEF Enable, NextDay, vars
  <2>2. Busy' = Busy
    BY <2>1 DEF Busy
  <2> QED
    BY <2>1, <2>2 DEF KeptInv
<1> QED
  BY <1>3, <1>4, <1>5, <1>6, <1>7, <1>8, <1>9, <1>10 DEF Next

\* As long as no two requests overlap and none is killed while it writes, the file has between
\* them exactly the executions the callers were told of, in every session.
THEOREM FillsAreKept == Spec => []FillsKept
<1>1. KeptInv => FillsKept
  BY DEF KeptInv, FillsKept, Settled
<1> QED
  BY <1>1, TypeInit, TypeInductive, KeptInit, KeptInductive, PTL DEF Spec

-----------------------------------------------------------------------------
(* The fills of a step.  An account may be old, but it never has a fill that  *)
(* the worker state does not claim, nor any of an order still to be filled:   *)
(* the worker state had the step before its order was made.                   *)

\* The worker state w says that the step was executed on day d, or is past it.
Claimed(w, d, step) == d < w.day \/ (d = w.day /\ step \in w.done)

Unfilled(account, d, orders) == \A step \in orders : account.fills[d][step] = 0

\* An account of session s, given the worker state and the requests.
Fine(account, s, w, requests) ==
    /\ \A d \in Days, step \in Steps :
          /\ account.fills[d][step] <= 1
          /\ account.fills[d][step] > 0 => Claimed(w[s], d, step)
    /\ \A q \in Requests : requests[q].pc = "fill" /\ requests[q].session = s
                               => Unfilled(account, requests[q].day, requests[q].orders)

Cycling(rec, jobs, w, today) ==
    /\ rec.pc # "idle" => rec.job \in jobs
    /\ rec.pc \in {"steps", "fill"} => /\ rec.job = "cycle" /\ rec.day <= today
                                       /\ \A s \in Sessions : w[s].day <= rec.day
    /\ rec.pc = "fill" => /\ w[rec.session].day = rec.day
                          /\ rec.orders \subseteq w[rec.session].done

FillInv ==
    /\ \A s \in Sessions : steps[s].day <= day
    /\ \A r \in Requests : Cycling(request[r], Jobs[r], steps, day)
    /\ \A s \in Sessions : Fine(file.accounts[s], s, steps, request)
    /\ \A r \in Requests, s \in Sessions : Fine(request[r].copy[s], s, steps, request)

\* No orders but those it had.
Shrinks(old, new) ==
    new.pc = "fill" => /\ old.pc = "fill" /\ new.session = old.session /\ new.day = old.day
                       /\ new.orders \subseteq old.orders

LEMMA FineKept ==
    ASSUME NEW w, NEW before, NEW after, \A q \in Requests : Shrinks(before[q], after[q])
    PROVE  \A account, s : Fine(account, s, w, before) => Fine(account, s, w, after)
BY DEF Fine, Shrinks, Unfilled

LEMMA DefaultFine ==
    ASSUME NEW w, NEW requests \in [Requests -> Request]
    PROVE  \A s \in Sessions : Fine(DefaultAccounts[s], s, w, requests)
<1>1. \A d \in Days, step \in Steps : DefaultAccount.fills[d][step] = 0
  BY DEF DefaultAccount
<1>2. \A s \in Sessions : DefaultAccounts[s] = DefaultAccount
  BY DEF DefaultAccounts
<1>3. \A q \in Requests : requests[q].day \in Days /\ requests[q].orders \subseteq Steps
  BY DEF Request
<1> QED
  BY <1>1, <1>2, <1>3 DEF Fine, Unfilled

\* A step of one request that adds no order.
LEMMA FillFrom ==
    ASSUME TypeOK, FillInv, NEW r \in Requests, NEW new \in Request,
           request' = [request EXCEPT ![r] = new], steps' = steps, day' = day,
           Shrinks(request[r], new), Cycling(new, Jobs[r], steps, day),
           \A s \in Sessions : Fine(file'.accounts[s], s, steps, request),
           \A s \in Sessions : Fine(new.copy[s], s, steps, request')
    PROVE  FillInv'
<1>1. request'[r] = new /\ \A q \in Requests \ {r} : request'[q] = request[q]
  BY ReplacedTypes
<1>2. \A q \in Requests : Shrinks(request[q], request'[q])
  BY <1>1 DEF Shrinks
<1>3. PICK after : after = request'
  OBVIOUS
<1>4. \A account, s : Fine(account, s, steps, request) => Fine(account, s, steps, after)
  BY <1>2, <1>3, FineKept
<1>5. \A s \in Sessions : Fine(file'.accounts[s], s, steps, after)
  BY <1>4
<1>6. \A q \in Requests, s \in Sessions : Fine(after[q].copy[s], s, steps, after)
  BY <1>1, <1>3, <1>4 DEF FillInv
<1>7. \A q \in Requests : Cycling(after[q], Jobs[q], steps, day)
  BY <1>1, <1>3 DEF FillInv
<1> QED
  BY <1>3, <1>5, <1>6, <1>7 DEF FillInv

\* ... and whose copy has only fills already there.
LEMMA FillQuiet ==
    ASSUME TypeOK, FillInv, NEW r \in Requests, NEW new \in Request,
           request' = [request EXCEPT ![r] = new], steps' = steps, day' = day,
           Shrinks(request[r], new), Cycling(new, Jobs[r], steps, day),
           \A s \in Sessions : Fine(file'.accounts[s], s, steps, request),
           \A s \in Sessions : Fine(new.copy[s], s, steps, request)
    PROVE  FillInv'
<1>1. request'[r] = new /\ \A q \in Requests \ {r} : request'[q] = request[q]
  BY ReplacedTypes
<1>2. \A q \in Requests : Shrinks(request[q], request'[q])
  BY <1>1 DEF Shrinks
<1>3. PICK after : after = request'
  OBVIOUS
<1>4. \A account, s : Fine(account, s, steps, request) => Fine(account, s, steps, after)
  BY <1>2, <1>3, FineKept
<1> QED
  BY <1>3, <1>4, FillFrom

\* A trade of no step leaves the fills.
LEMMA SameFills ==
    ASSUME NEW w, NEW requests, NEW old \in Request, NEW new \in Request, NEW account \in Account,
           new.copy = [old.copy EXCEPT ![old.session] = account],
           account.fills = old.copy[old.session].fills,
           \A s \in Sessions : Fine(old.copy[s], s, w, requests)
    PROVE  \A s \in Sessions : Fine(new.copy[s], s, w, requests)
<1>1. old.copy \in Accounts /\ old.session \in Sessions
  BY DEF Request
<1>2. \A s \in Sessions : new.copy[s].fills = old.copy[s].fills
  BY <1>1 DEF Accounts
<1> QED
  BY <1>2 DEF Fine, Unfilled

\* One request at a time runs cycles.
OneCycle == \A q, r \in Requests : "cycle" \in Jobs[q] /\ "cycle" \in Jobs[r] => q = r

\* Its orders are nobody else's.
LEMMA OnlyCycle ==
    ASSUME OneCycle, FillInv, NEW r \in Requests, request[r].pc \in {"steps", "fill"}
    PROVE  \A q \in Requests \ {r} : request[q].pc \notin {"steps", "fill"}
<1>1. ASSUME NEW q \in Requests, request[q].pc \in {"steps", "fill"} PROVE "cycle" \in Jobs[q]
  BY <1>1 DEF FillInv, Cycling
<1> QED
  BY <1>1 DEF OneCycle

\* A fill: the step is claimed, it was unfilled, and is no longer an order.
LEMMA FulfilmentFine ==
    ASSUME TypeOK, FillInv, OneCycle, NEW r \in Requests, NEW old \in Request, old = request[r],
           NEW new \in Request, NEW account \in Account, NEW step \in Steps,
           Fulfilment(old, new, account, step), request' = [request EXCEPT ![r] = new]
    PROVE  \A s \in Sessions : Fine(new.copy[s], s, steps, request')
<1>1. /\ old.pc = "fill" /\ new.session = old.session /\ new.day = old.day
      /\ new.copy = [old.copy EXCEPT ![old.session] = account]
      /\ account.fills = [old.copy[old.session].fills EXCEPT ![old.day][step] = @ + 1]
      /\ step \in old.orders /\ new.orders = old.orders \ {step}
  BY DEF Fulfilment, Same, Deal
<1>2. /\ old.copy \in Accounts /\ old.session \in Sessions /\ old.day \in Days
      /\ old.orders \subseteq Steps
  BY DEF Request
<1>3. request'[r] = new /\ \A q \in Requests \ {r} : request'[q] = request[q]
  BY ReplacedTypes
<1>4. \A q \in Requests \ {r} : request[q].pc # "fill"
  BY ZenonT(60), <1>1, OnlyCycle
<1>5. \A q \in Requests : Shrinks(request[q], request'[q])
  BY ZenonT(60), <1>1, <1>3 DEF Shrinks
<1>6. PICK after : after = request'
  OBVIOUS
<1>7. \A s \in Sessions : Fine(old.copy[s], s, steps, request)
  BY DEF FillInv
<1>8. \A s \in Sessions : Fine(old.copy[s], s, steps, after)
  BY <1>5, <1>6, <1>7, FineKept
<1>9. PICK b \in Account : b = old.copy[old.session]
  BY <1>2 DEF Accounts
<1>10. /\ b.fills \in [Days -> [Steps -> Nat]] /\ b.fills[old.day][step] = 0
       /\ Fine(b, old.session, steps, request)
  <2>1. b.fills \in [Days -> [Steps -> Nat]]
    BY DEF Account
  <2>2. Unfilled(b, old.day, old.orders)
    BY <1>1, <1>2, <1>7, <1>9 DEF Fine
  <2> QED
    BY ZenonT(60), <2>1, <2>2, <1>1, <1>2, <1>7, <1>9 DEF Unfilled
<1>11. /\ account.fills[old.day][step] = 1
       /\ \A d \in Days, st \in Steps : d # old.day \/ st # step
              => account.fills[d][st] = b.fills[d][st]
  <2>1. PICK f \in [Days -> [Steps -> Nat]] : f = b.fills
    BY <1>10
  <2>2. PICK d0 \in Days : d0 = old.day
    BY SMTT(60), <1>2
  <2>3. account.fills = [f EXCEPT ![d0] = [f[d0] EXCEPT ![step] = f[d0][step] + 1]]
    BY <1>1, <1>9, <2>1, <2>2
  <2>4. account.fills[d0] = [f[d0] EXCEPT ![step] = f[d0][step] + 1] /\ f[d0] \in [Steps -> Nat]
    BY <2>3
  <2>5. account.fills[d0][step] = 1
    BY <1>10, <2>1, <2>2, <2>4
  <2>6. ASSUME NEW d \in Days, NEW st \in Steps, d # d0 \/ st # step
        PROVE  account.fills[d][st] = f[d][st]
    <3>1. CASE d = d0
      BY <2>4, <2>6, <3>1
    <3>2. CASE d # d0
      BY <2>3, <3>2
    <3> QED
      BY <3>1, <3>2
  <2> QED
    BY <2>1, <2>2, <2>5, <2>6
<1>12. Claimed(steps[old.session], old.day, step)
  BY <1>1 DEF FillInv, Cycling, Claimed
<1>13. Fine(account, old.session, steps, after)
  <2>1. ASSUME NEW d \in Days, NEW st \in Steps
        PROVE  /\ account.fills[d][st] <= 1
               /\ account.fills[d][st] > 0 => Claimed(steps[old.session], d, st)
    <3>1. CASE d = old.day /\ st = step
      BY <1>11, <1>12, <3>1
    <3>2. CASE d # old.day \/ st # step
      <4>1. /\ b.fills[d][st] <= 1
            /\ b.fills[d][st] > 0 => Claimed(steps[old.session], d, st)
        BY <1>10 DEF Fine
      <4>2. account.fills[d][st] = b.fills[d][st]
        BY <1>11, <3>2
      <4> QED
        BY <4>1, <4>2
    <3> QED
      BY <3>1, <3>2
  <2>2. Unfilled(account, new.day, new.orders)
    <3>1. Unfilled(b, old.day, old.orders)
      BY <1>1, <1>10 DEF Fine
    <3> QED
      <4>1. ASSUME NEW st \in new.orders PROVE account.fills[new.day][st] = 0
        <5>1. st \in old.orders /\ st # step /\ st \in Steps
          BY <1>1, <1>2
        <5>2. b.fills[old.day][st] = 0
          BY <3>1, <5>1 DEF Unfilled
        <5>3. account.fills[old.day][st] = b.fills[old.day][st]
          BY SMTT(60), <1>2, <1>11, <5>1
        <5> QED
          BY ZenonT(60), <1>1, <5>2, <5>3
      <4> QED
        BY SMTT(60), <4>1 DEF Unfilled
  <2>3. \A q \in Requests : after[q].pc = "fill" => q = r
    BY <1>3, <1>4, <1>6
  <2>4. after[r] = new
    BY SMTT(60), <1>3, <1>6
  <2> QED
    BY <2>1, <2>2, <2>3, <2>4 DEF Fine
<1>14. \A s \in Sessions : s # old.session => new.copy[s] = old.copy[s]
  BY ZenonT(60), <1>1, <1>2 DEF Accounts
<1>15. new.copy[old.session] = account
  BY <1>1, <1>2 DEF Accounts
<1>16. \A s \in Sessions : Fine(new.copy[s], s, steps, after)
  BY <1>8, <1>13, <1>14, <1>15
<1> QED
  BY <1>6, <1>16

\* A tick claims its orders; no account has a fill of them, since none was claimed before.
LEMMA TickFine ==
    ASSUME TypeOK, FillInv, OneCycle, NEW r \in Requests, Evaluate(r)
    PROVE  FillInv'
<1>1. request[r] \in Request /\ day \in Nat /\ steps \in [Sessions -> WorkerState]
  BY DEF TypeOK, Days
<1>2. PICK old \in Request : old = request[r]
  BY <1>1
<1>3. PICK new \in Request, s \in Sessions, orders \in SUBSET Steps :
         /\ Replaced(r, new) /\ Tick(old, new, s, orders)
         /\ steps' = [steps EXCEPT ![s] =
                         [day |-> new.day, done |-> Executed(s, new.day) \cup orders]]
  BY <1>2, TickEffect
<1>4. /\ old.pc = "steps" /\ new.pc = (IF orders = {} THEN "steps" ELSE "fill")
      /\ new.job = old.job /\ new.day = old.day /\ new.copy = old.copy
      /\ new.session = s /\ new.orders = orders /\ orders \subseteq Due(s, new.day)
  BY <1>3 DEF Tick
<1>5. /\ request' = [request EXCEPT ![r] = new] /\ file' = file /\ day' = day
  BY <1>3 DEF Replaced
<1>6. request'[r] = new /\ \A q \in Requests \ {r} : request'[q] = request[q]
  BY <1>5, ReplacedTypes
<1>7. \A q \in Requests \ {r} : request[q].pc \notin {"steps", "fill"}
  BY <1>2, <1>4, OnlyCycle
<1>8. /\ old.job = "cycle" /\ old.day <= day /\ \A x \in Sessions : steps[x].day <= old.day
      /\ old.job \in Jobs[r]
  BY <1>2, <1>4 DEF FillInv, Cycling
<1>9. PICK after : after = request'
  OBVIOUS
<1>10. PICK w : w = steps'
  OBVIOUS
<1>11. /\ w[s].day = new.day /\ w[s].done = Executed(s, new.day) \cup orders
       /\ \A x \in Sessions \ {s} : w[x] = steps[x]
  BY <1>1, <1>3, <1>10
<1>12. new.day \in Nat /\ \A x \in Sessions : steps[x].day \in Nat
  BY <1>1 DEF Request, WorkerState, Days
<1>13. ASSUME NEW x \in Sessions, NEW d \in Days, NEW step \in Steps, Claimed(steps[x], d, step)
       PROVE  Claimed(w[x], d, step)
  <2>1. CASE x # s
    BY <1>11, <1>13, <2>1
  <2>2. CASE x = s /\ steps[s].day = new.day
    BY <1>11, <1>13, <2>2 DEF Claimed, Executed
  <2>3. CASE x = s /\ steps[s].day < new.day
    <3>1. d \in Nat
      BY DEF Days
    <3>2. d <= steps[s].day
      BY <1>13, <1>12, <2>3, <3>1 DEF Claimed
    <3> QED
      BY <1>11, <1>12, <2>3, <3>1, <3>2 DEF Claimed
  <2> QED
    BY <1>4, <1>8, <1>12, <2>1, <2>2, <2>3
<1>14. ASSUME NEW step \in orders PROVE ~Claimed(steps[s], new.day, step)
  <2>1. step \notin Executed(s, new.day) /\ steps[s].day <= new.day
    BY <1>4, <1>8 DEF Due
  <2> QED
    BY <1>12, <2>1 DEF Claimed, Executed
<1>15. ASSUME NEW account \in Account, NEW x \in Sessions, Fine(account, x, steps, request)
       PROVE  Fine(account, x, w, after)
  <2>1. \A d \in Days, step \in Steps :
           /\ account.fills[d][step] <= 1
           /\ account.fills[d][step] > 0 => Claimed(w[x], d, step)
    BY <1>13, <1>15 DEF Fine
  <2>2. ASSUME x = s PROVE Unfilled(account, new.day, orders)
    <3>1. ASSUME NEW step \in orders PROVE account.fills[new.day][step] = 0
      <4>1. step \in Steps /\ new.day \in Days
        BY DEF Request
      <4>2. account.fills[new.day][step] \in Nat
        BY <4>1 DEF Account
      <4>3. ~(account.fills[new.day][step] > 0)
        BY <1>14, <1>15, <2>2, <4>1 DEF Fine
      <4> QED
        BY <4>2, <4>3
    <3> QED
      BY <3>1 DEF Unfilled
  <2>3. \A q \in Requests : after[q].pc = "fill" => q = r
    BY <1>6, <1>7, <1>9
  <2>4. after[r] = new
    BY <1>6, <1>9
  <2> QED
    BY <1>4, <2>1, <2>2, <2>3, <2>4 DEF Fine
<1>16. \A x \in Sessions : w[x].day <= new.day
  BY <1>4, <1>8, <1>11, <1>12
<1>17. Cycling(new, Jobs[r], w, day)
  BY <1>4, <1>8, <1>11, <1>16 DEF Cycling
<1>18. \A q \in Requests : Cycling(after[q], Jobs[q], w, day)
  <2>1. ASSUME NEW q \in Requests, q # r PROVE Cycling(after[q], Jobs[q], w, day)
    <3>1. Cycling(request[q], Jobs[q], steps, day)
      BY DEF FillInv
    <3> QED
      BY <1>6, <1>7, <1>9, <2>1, <3>1 DEF Cycling
  <2> QED
    BY <1>6, <1>9, <1>17, <2>1
<1>19. \A x \in Sessions : Fine(file.accounts[x], x, w, after)
  <2>1. \A x \in Sessions : file.accounts[x] \in Account
    BY DEF TypeOK, File, Accounts
  <2> QED
    BY <1>15, <2>1 DEF FillInv
<1>20. \A q \in Requests, x \in Sessions : Fine(after[q].copy[x], x, w, after)
  <2>1. ASSUME NEW q \in Requests, NEW x \in Sessions PROVE Fine(after[q].copy[x], x, w, after)
    <3>1. request[q].copy[x] \in Account /\ Fine(request[q].copy[x], x, steps, request)
      BY DEF TypeOK, Request, Accounts, FillInv
    <3>2. after[q].copy[x] = request[q].copy[x]
      BY <1>2, <1>4, <1>6, <1>9
    <3> QED
      BY <1>15, <3>1, <3>2
  <2> QED
    BY <2>1
<1>21. \A x \in Sessions : w[x].day <= day
  BY <1>1, <1>4, <1>8, <1>12, <1>11, <1>16
<1> QED
  BY <1>5, <1>9, <1>10, <1>18, <1>19, <1>20, <1>21 DEF FillInv

LEMMA FillTrade ==
    ASSUME TypeOK, FillInv, OneCycle, NEW r \in Requests, Trade(r)
    PROVE  FillInv'
<1>1. request[r] \in Request
  BY DEF TypeOK
<1>2. PICK old \in Request : old = request[r]
  BY <1>1
<1>3. /\ Cycling(old, Jobs[r], steps, day)
      /\ \A s \in Sessions : Fine(old.copy[s], s, steps, request)
      /\ \A s \in Sessions : Fine(file.accounts[s], s, steps, request)
  BY <1>2 DEF FillInv
<1>4. ASSUME NEW new \in Request, Replaced(r, new), steps' = steps, Shrinks(old, new),
             Cycling(new, Jobs[r], steps, day),
             \A s \in Sessions : Fine(new.copy[s], s, steps, request)
      PROVE  FillInv'
  BY <1>2, <1>3, <1>4, FillQuiet DEF Replaced
<1>5. CASE PlaceOrder(r) \/ SellHolding(r)
  <2>1. PICK new \in Request, account \in Account :
           Replaced(r, new) /\ Bargain(old, new, account)
    BY <1>2, <1>5, OrderEffect, SaleEffect
  <2>2. steps' = steps
    BY <1>5, OrderEffect, SaleEffect
  <2>3. \A s \in Sessions : Fine(new.copy[s], s, steps, request)
    BY <1>3, <2>1, SameFills DEF Bargain, Deal
  <2>4. Shrinks(old, new) /\ Cycling(new, Jobs[r], steps, day)
    BY <1>3, <2>1 DEF Bargain, Same, Shrinks, Cycling
  <2> QED
    BY <1>4, <2>1, <2>2, <2>3, <2>4
<1>6. CASE Enter(r)
  <2>1. PICK new \in Request, account \in Account :
           Replaced(r, new) /\ Entry(old, new, account)
    BY <1>2, <1>6, EntryEffect
  <2>2. steps' = steps
    BY <1>6, EntryEffect
  <2>3. \A s \in Sessions : Fine(new.copy[s], s, steps, request)
    BY <1>3, <2>1, SameFills DEF Entry, Deal
  <2>4. Shrinks(old, new) /\ Cycling(new, Jobs[r], steps, day)
    BY <1>3, <2>1 DEF Entry, Same, Shrinks, Cycling
  <2> QED
    BY <1>4, <2>1, <2>2, <2>3, <2>4
<1>7. CASE FillOrder(r) \/ FillStopLoss(r)
  <2>1. PICK new \in Request, account \in Account, step \in Steps :
           Replaced(r, new) /\ Fulfilment(old, new, account, step)
    BY <1>2, <1>7, FillEffect
  <2>2. /\ steps' = steps /\ day' = day /\ file' = file
        /\ request' = [request EXCEPT ![r] = new]
    BY <1>7, <2>1, FillEffect DEF Replaced
  <2>3. \A s \in Sessions : Fine(new.copy[s], s, steps, request')
    BY <1>2, <2>1, <2>2, FulfilmentFine
  <2>4. Shrinks(old, new) /\ Cycling(new, Jobs[r], steps, day)
    BY <1>3, <2>1 DEF Fulfilment, Same, Shrinks, Cycling
  <2> QED
    BY <1>2, <1>3, <2>2, <2>3, <2>4, FillFrom
<1>8. CASE Skip(r) \/ EntriesDue(r) \/ EndCycle(r)
  <2>1. PICK new \in Request :
           Replaced(r, new) /\ Onward(old, new) /\ new.pc \in {"write", "enter"}
                            /\ old.pc \in {"work", "steps"}
    BY <1>2, <1>8, OnwardEffect
  <2>2. steps' = steps
    BY <1>8, OnwardEffect
  <2>3. Shrinks(old, new) /\ Cycling(new, Jobs[r], steps, day) /\ new.copy = old.copy
    BY <1>3, <2>1 DEF Onward, Quiet, Same, Shrinks, Cycling
  <2> QED
    BY <1>3, <1>4, <2>1, <2>2, <2>3
<1>9. CASE EndRun(r)
  <2>1. PICK new \in Request, account \in Account :
           Replaced(r, new) /\ Dating(old, new, account)
    BY <1>2, <1>9, DatingEffect
  <2>2. steps' = steps
    BY <1>9, DatingEffect
  <2>3. \A s \in Sessions : Fine(new.copy[s], s, steps, request)
    BY <1>3, <2>1, SameFills DEF Dating
  <2>4. Shrinks(old, new) /\ Cycling(new, Jobs[r], steps, day)
    BY <1>3, <2>1 DEF Dating, Same, Shrinks, Cycling
  <2> QED
    BY <1>4, <2>1, <2>2, <2>3, <2>4
<1>10. CASE RejectFill(r)
  <2>1. PICK new \in Request : Replaced(r, new) /\ Rejection(old, new)
    BY <1>2, <1>10, RejectEffect
  <2>2. steps' = steps
    BY <1>10, RejectEffect
  <2>3. Shrinks(old, new) /\ Cycling(new, Jobs[r], steps, day) /\ new.copy = old.copy
    BY <1>3, <2>1 DEF Rejection, Quiet, Same, Shrinks, Cycling
  <2> QED
    BY <1>3, <1>4, <2>1, <2>2, <2>3
<1>11. CASE Refuse(r)
  <2>1. Replaced(r, IdleRequest) /\ steps' = steps
    BY <1>11 DEF Refuse, Replaced, Step
  <2>2. /\ IdleRequest \in Request /\ IdleRequest.pc = "idle"
        /\ IdleRequest.copy = DefaultAccounts
    BY DefaultTypes DEF IdleRequest
  <2>3. \A s \in Sessions : Fine(IdleRequest.copy[s], s, steps, request)
    BY <2>2, DefaultFine DEF TypeOK
  <2> QED
    BY <1>4, <2>1, <2>2, <2>3 DEF Shrinks, Cycling
<1> QED
  BY <1>5, <1>6, <1>7, <1>8, <1>9, <1>10, <1>11, TickFine DEF Trade

LEMMA FillInit == Init => FillInv
<1> SUFFICES ASSUME Init PROVE FillInv
  OBVIOUS
<1>1. request \in [Requests -> Request] /\ \A r \in Requests : request[r] = IdleRequest
  BY DefaultTypes DEF Init
<1>2. IdleRequest.pc = "idle" /\ IdleRequest.copy = DefaultAccounts
  BY DEF IdleRequest
<1>3. \A s \in Sessions : Fine(DefaultAccounts[s], s, steps, request)
  BY <1>1, DefaultFine
<1>4. \A s \in Sessions : steps[s].day <= day
  BY DEF Init
<1>5. \A r \in Requests : Cycling(request[r], Jobs[r], steps, day)
  BY <1>1, <1>2 DEF Cycling
<1>6. file.accounts = DefaultAccounts
  BY DEF Init
<1> QED
  BY <1>1, <1>2, <1>3, <1>4, <1>5, <1>6 DEF FillInv

\* A request begins: the accounts are as fine as they were.
LEMMA BeginningFill ==
    ASSUME TypeOK, FillInv, NEW r \in Requests, NEW old \in Request, old = request[r],
           old.pc # "idle", NEW new \in Request, NEW accounts, Beginning(old, new, accounts)
    PROVE  Shrinks(old, new) /\ Cycling(new, Jobs[r], steps, day)
           /\ (new.copy = accounts \/ new.copy = DefaultAccounts)
<1>1. IdleRequest.pc = "idle" /\ IdleRequest.copy = DefaultAccounts
  BY DEF IdleRequest
<1>2. old.job \in Jobs[r] /\ day \in Nat /\ \A s \in Sessions : steps[s].day <= day
  BY DEF FillInv, Cycling, TypeOK, Days
<1>3. CASE new = IdleRequest
  BY <1>1, <1>3 DEF Shrinks, Cycling
<1>4. CASE new # IdleRequest
  BY <1>2, <1>4 DEF Beginning, Shrinks, Cycling
<1> QED
  BY <1>3, <1>4

LEMMA FillInductive ==
    ASSUME OneCycle PROVE TypeOK /\ FillInv /\ [Next]_vars => FillInv'
<1> SUFFICES ASSUME TypeOK, FillInv, [Next]_vars PROVE FillInv'
  OBVIOUS
<1>1. /\ \A r \in Requests : request[r] \in Request /\ request[r].copy \in Accounts
      /\ request \in [Requests -> Request]
  BY DEF TypeOK, Request
<1>2. /\ \A r \in Requests : Cycling(request[r], Jobs[r], steps, day)
      /\ \A s \in Sessions : Fine(file.accounts[s], s, steps, request)
      /\ \A r \in Requests, s \in Sessions : Fine(request[r].copy[s], s, steps, request)
      /\ \A s \in Sessions : Fine(DefaultAccounts[s], s, steps, request)
  BY <1>1, DefaultFine DEF FillInv
<1>3. /\ IdleRequest \in Request /\ IdleRequest.pc = "idle"
      /\ IdleRequest.copy = DefaultAccounts /\ DefaultAccounts \in Accounts
  BY DefaultTypes DEF IdleRequest
<1>4. ASSUME NEW r \in Requests, Ask(r) PROVE FillInv'
  <2>1. PICK new \in Request :
           /\ request' = [request EXCEPT ![r] = new] /\ new.job \in Jobs[r]
           /\ new.pc = (IF new.job = "reset" THEN "write" ELSE "read")
           /\ new.copy = DefaultAccounts
    BY <1>4, AskEffect
  <2>2. day' = day /\ steps' = steps /\ file' = file
    BY <1>4 DEF Ask
  <2>3. Shrinks(request[r], new) /\ Cycling(new, Jobs[r], steps, day)
    BY <2>1 DEF Shrinks, Cycling
  <2> QED
    BY <1>2, <2>1, <2>2, <2>3, FillQuiet
<1>5. ASSUME NEW r \in Requests, Read(r) PROVE FillInv'
  <2>1. PICK old \in Request : old = request[r]
    BY <1>1
  <2>2. old.pc = "read" /\ day' = day /\ steps' = steps
    BY <1>5, <2>1 DEF Read
  <2>3. CASE file.kind = "ok"
    <3>1. PICK new \in Request :
             /\ request' = [request EXCEPT ![r] = new] /\ file' = file
             /\ Beginning(old, new, file.accounts)
      BY <1>5, <2>1, <2>3, ReadEffect
    <3>2. /\ Shrinks(old, new) /\ Cycling(new, Jobs[r], steps, day)
          /\ (new.copy = file.accounts \/ new.copy = DefaultAccounts)
      BY <2>1, <2>2, <3>1, BeginningFill
    <3> QED
      BY <1>2, <2>1, <2>2, <3>1, <3>2, FillQuiet
  <2>4. CASE file.kind = "missing"
    <3>1. PICK new \in Request :
             /\ request' = [request EXCEPT ![r] = new] /\ file' = file
             /\ new.pc = "repair" /\ Onward(old, new)
      BY <1>5, <2>1, <2>4, ReadEffect
    <3>2. Cycling(old, Jobs[r], steps, day)
      BY <1>2, <2>1
    <3>3. /\ Shrinks(old, new) /\ Cycling(new, Jobs[r], steps, day)
          /\ new.copy = old.copy
      BY <2>2, <3>1, <3>2 DEF Onward, Quiet, Same, Shrinks, Cycling
    <3> QED
      BY <1>2, <2>1, <2>2, <3>1, <3>3, FillQuiet
  <2>5. CASE file.kind = "torn"
    <3>1. /\ file' = [file EXCEPT !.kind = "missing"]
          /\ request' = [q \in Requests |->
                            [request[q] EXCEPT !.attached = FALSE,
                                               !.pc = IF q = r THEN "repair" ELSE @]]
      BY <1>5, <2>5, ReadEffect
    <3>2. PICK after : after = request'
      OBVIOUS
    <3>3. ASSUME NEW q \in Requests
          PROVE  /\ after[q].copy = request[q].copy
                 /\ Shrinks(request[q], after[q]) /\ Cycling(after[q], Jobs[q], steps, day)
      <4>1. PICK was \in Request : was = request[q]
        BY <1>1
      <4>2. PICK new : new = after[q]
        OBVIOUS
      <4>3. PICK pc \in Pcs : pc = IF q = r THEN "repair" ELSE was.pc
        BY DEF Pcs, Request
      <4>4. new = [was EXCEPT !.attached = FALSE, !.pc = pc]
        BY <3>1, <3>2, <4>1, <4>2, <4>3
      <4>5. /\ new.pc = pc /\ new.job = was.job /\ new.session = was.session
            /\ new.day = was.day /\ new.copy = was.copy /\ new.orders = was.orders
        BY <4>4 DEF Request
      <4>6. pc = was.pc \/ (pc = "repair" /\ was.pc = "read")
        <5>1. CASE q = r
          <6>1. was.pc = "read"
            BY <2>1, <2>2, <4>1, <5>1
          <6>2. pc = "repair"
            BY <4>3, <5>1
          <6> QED
            BY <6>1, <6>2
        <5>2. CASE q # r
          BY <4>3, <5>2
        <5> QED
          BY <5>1, <5>2
      <4>7. Cycling(was, Jobs[q], steps, day)
        BY <1>2, <4>1
      <4>8. Shrinks(was, new) /\ Cycling(new, Jobs[q], steps, day)
        BY <4>5, <4>6, <4>7 DEF Shrinks, Cycling
      <4> QED
        BY <4>1, <4>2, <4>5, <4>8
    <3>4. \A account, s : Fine(account, s, steps, request) => Fine(account, s, steps, after)
      BY <3>3, FineKept
    <3>5. file'.accounts = file.accounts
      BY <3>1 DEF TypeOK, File
    <3> QED
      BY <1>2, <2>2, <3>2, <3>3, <3>4, <3>5 DEF FillInv
  <2> QED
    BY <2>3, <2>4, <2>5 DEF TypeOK, File
<1>6. ASSUME NEW r \in Requests, Truncate(r) PROVE FillInv'
  <2>1. PICK new \in Request :
           /\ request' = [request EXCEPT ![r] = new]
           /\ \/ request[r].pc = "repair" /\ new.pc = "repairing"
              \/ request[r].pc = "write" /\ new.pc = "writing"
           /\ new.job = request[r].job /\ new.copy = request[r].copy
    BY <1>6, TruncateEffect
  <2>2. day' = day /\ steps' = steps /\ file'.accounts = file.accounts
    BY <1>6, TruncateEffect DEF Truncate, TypeOK, File
  <2>3. Shrinks(request[r], new) /\ Cycling(new, Jobs[r], steps, day)
    BY <1>2, <2>1 DEF Shrinks, Cycling
  <2> QED
    BY <1>2, <2>1, <2>2, <2>3, FillQuiet
<1>7. ASSUME NEW r \in Requests, Repair(r) PROVE FillInv'
  <2>1. PICK old \in Request : old = request[r]
    BY <1>1
  <2>2. PICK new \in Request, begun \in Request :
           /\ request' = [request EXCEPT ![r] = new]
           /\ Beginning(old, begun, DefaultAccounts)
           /\ new = [begun EXCEPT !.attached = FALSE]
    BY <1>7, <2>1, RepairEffect
  <2>3. old.pc = "repairing" /\ day' = day /\ steps' = steps
    BY <1>7, <2>1 DEF Repair
  <2>4. Shrinks(old, begun) /\ Cycling(begun, Jobs[r], steps, day) /\ begun.copy = DefaultAccounts
    BY <2>1, <2>2, <2>3, BeginningFill
  <2>5. /\ new.pc = begun.pc /\ new.job = begun.job /\ new.session = begun.session
        /\ new.day = begun.day /\ new.orders = begun.orders /\ new.copy = begun.copy
    BY <2>2 DEF Request
  <2>6. Shrinks(old, new) /\ Cycling(new, Jobs[r], steps, day) /\ new.copy = DefaultAccounts
    BY <2>4, <2>5 DEF Shrinks, Cycling
  <2>7. file'.accounts = file.accounts \/ file'.accounts = DefaultAccounts
    BY <1>1, <1>3, <1>7, RepairEffect, FlushEffect
  <2> QED
    BY <1>2, <2>1, <2>2, <2>3, <2>6, <2>7, FillQuiet
<1>8. ASSUME NEW r \in Requests, Write(r) PROVE FillInv'
  <2>1. day' = day /\ steps' = steps /\ Flush(request[r], request[r].copy)
    BY <1>8 DEF Write
  <2>2. file'.accounts = file.accounts \/ file'.accounts = request[r].copy
    BY <1>1, <2>1, FlushEffect
  <2>3. Shrinks(request[r], IdleRequest) /\ Cycling(IdleRequest, Jobs[r], steps, day)
    BY <1>3 DEF Shrinks, Cycling
  <2> QED
    BY <1>2, <1>3, <1>8, <2>1, <2>2, <2>3, IdleEffect, FillQuiet
<1>9. ASSUME NEW r \in Requests, Abort(r) PROVE FillInv'
  <2>1. day' = day /\ steps' = steps /\ file' = file
    BY <1>9 DEF Abort
  <2>2. Shrinks(request[r], IdleRequest) /\ Cycling(IdleRequest, Jobs[r], steps, day)
    BY <1>3 DEF Shrinks, Cycling
  <2> QED
    BY <1>2, <1>3, <1>9, <2>1, <2>2, IdleEffect, FillQuiet
<1>10. CASE NextDay
  <2>1. /\ day \in Nat /\ day' = day + 1 /\ file' = file /\ steps' = steps
        /\ request' = request
    BY <1>10 DEF NextDay, TypeOK, Days
  <2>2. \A s \in Sessions : steps[s].day \in Nat /\ steps[s].day <= day
    BY DEF TypeOK, WorkerState, Days, FillInv
  <2>3. \A r \in Requests : request[r].day \in Nat
    BY <1>1 DEF Request, Days
  <2>4. \A r \in Requests : Cycling(request[r], Jobs[r], steps, day')
    BY <1>2, <2>1, <2>3 DEF Cycling
  <2>5. \A s \in Sessions : steps[s].day <= day'
    BY <2>1, <2>2
  <2> QED
    BY <1>2, <2>1, <2>4, <2>5 DEF FillInv
<1>11. CASE Enable \/ UNCHANGED vars
  BY <1>11 DEF FillInv, Enable, vars
<1> QED
  BY <1>4, <1>5, <1>6, <1>7, <1>8, <1>9, <1>10, <1>11, FillTrade DEF Next

\* If only one request runs cycles, a strategy fills a step at most once a day, although the other
\* requests overwrite the accounts and a kill may part the two files.
THEOREM StepsFillOnce == ASSUME OneCycle PROVE Spec => []StepFilledOnce
<1>1. FillInv => StepFilledOnce
  BY DEF FillInv, Fine, StepFilledOnce
<1> QED
  BY <1>1, TypeInit, TypeInductive, FillInit, FillInductive, PTL DEF Spec
==============================================================================
