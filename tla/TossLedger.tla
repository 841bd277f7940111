------------------------------ MODULE TossLedger ------------------------------
(***************************************************************************)
(* The live-order ledger of the Toss account in the macOS sidecar          *)
(* (local-live-trading.ts): a policy bound to one account and API key, and *)
(* the attempts, written before every POST.  Its operations run in a queue *)
(* around one file, each is one action.                                    *)
(*                                                                         *)
(* The submit handler and the automation broker of local_engine.mts call   *)
(* them with network calls and writes to other files in between: each of   *)
(* those is a step of its own, and everything else may happen between two. *)
(*                                                                         *)
(* The API key, the selected account, the kill switch and the worker pause *)
(* are other files that change at any time, and what order-tracker.json    *)
(* says of a preview or an order may be overwritten (OrderTracker): a step *)
(* that reads one of these takes whatever it may hold then, so they need   *)
(* no variables here.                                                      *)
(*                                                                         *)
(* The routes of this build answer with the pre-release lock; the ledger   *)
(* is the machinery behind it, and reads the file an open build may have   *)
(* left.  A locked build is this specification without the two submissions *)
(* and the two enabling operations, so what holds here holds there too.    *)
(***************************************************************************)
EXTENDS Integers, FiniteSets, FiniteSetsExt

CONSTANTS
    Handlers,           \* concurrent submissions
    Manual, Automated,  \* clientOrderIds: of previews, of the steps of a day
    Sells,              \* those that sell
    Value,              \* KRW equivalent of each order
    Accounts, ApiKeys,
    PreviewAccount,     \* the account a manual order was previewed for
    MaxBuyOrder,        \* LOCAL_LIVE_TRADING_MAX_BUY_ORDER_KRW
    MaxDailyBuy,        \* LOCAL_LIVE_TRADING_MAX_DAILY_BUY_KRW
    RequiredManual,     \* LOCAL_LIVE_TRADING_REQUIRED_MANUAL_ORDERS
    None,               \* null
    MaxDay,             \* bound: KST days 0..MaxDay
    MaxForgotten        \* bound: the file is not lost again once so many orders were

Orders == Manual \cup Automated

ASSUME TossAssumption ==
    /\ Manual \cap Automated = {} /\ Sells \subseteq Orders /\ IsFiniteSet(Manual)
    /\ Value \in [Orders -> Nat \ {0}] /\ PreviewAccount \in [Manual -> Accounts]
    /\ {MaxBuyOrder, MaxDailyBuy, RequiredManual, MaxDay, MaxForgotten} \subseteq Nat
    /\ None \notin Accounts \cup ApiKeys \cup Orders

VARIABLES
    day,
    policy, attempts,   \* the ledger file
    handler,
    book, wire,         \* orders the broker has; POSTs that may still reach it
    posted,             \* POSTs sent for each order, counted up to 2
    forgotten           \* orders with an entry in a ledger file that was lost

ledger == <<policy, attempts>>
broker == <<book, wire, posted, forgotten>>
vars == <<day, ledger, handler, broker>>

-----------------------------------------------------------------------------
(* Types and null records. *)

Statuses == {"submission_pending", "submitted", "unknown", "rejected", "reconciled"}

\* lock is the attempt of unknownLock.  safety: safetyGateVerifiedAt is set;
\* reconciled: lastReconciliationAt is, and is later than the completion of every
\* manual order that counts.
Policy == [account : Accounts \cup {None}, hash : ApiKeys \cup {None}, consent : BOOLEAN,
           manual : BOOLEAN, auto : BOOLEAN, date : 0..MaxDay, daily : Nat,
           reconciled : BOOLEAN, safety : BOOLEAN, lock : Orders \cup {None}]

Attempt == [status : Statuses \cup {"none"}, day : 0..MaxDay]
NoAttempt == [status |-> "none", day |-> 0]

\* kept: the handler's attempt is still in the file.  reply is how the POST, or
\* what follows it in the same try, ended, as isUnknownSubmissionError tells it.
Handler == [pc : {"idle", "gated", "ready", "answered", "marked"},
            order : Orders \cup {None}, kept : BOOLEAN,
            reply : {"none", "ok", "rejected", "unknown"}]
IdleHandler == [pc |-> "idle", order |-> None, kept |-> FALSE, reply |-> "none"]

-----------------------------------------------------------------------------
(* The policy and the gate. *)

DefaultPolicy(d) ==
    [account |-> None, hash |-> None, consent |-> FALSE, manual |-> FALSE, auto |-> FALSE,
     date |-> d, daily |-> 0, reconciled |-> FALSE, safety |-> FALSE, lock |-> None]

\* resetDailyLimitIfNeeded
Today(pol) == IF pol.date = day THEN pol ELSE [pol EXCEPT !.date = day, !.daily = 0]

Bound(a) == policy.account = a /\ policy.hash # None

Enabled(o) == IF o \in Manual THEN policy.manual ELSE policy.auto

\* getLocalLiveTradingGate for an account, when there is a verified key and
\* nothing is halted.
GateOpen(o, a) ==
    /\ Bound(a) /\ policy.consent
    /\ policy.lock = None
    /\ Enabled(o)

Counted(o) == o \in Manual /\ attempts[o].status \in {"submitted", "reconciled"}
Unknown(o) == attempts[o].status = "unknown"

\* automationEligibility: the orders of every account count.
Eligible ==
    /\ Cardinality({o \in Manual : Counted(o)}) >= RequiredManual
    /\ policy.reconciled /\ policy.safety
    /\ policy.lock = None /\ \A o \in Orders : ~Unknown(o)

-----------------------------------------------------------------------------
(* Policy operations. *)

SetPolicy(pol) ==
    /\ policy' = pol
    /\ UNCHANGED <<day, attempts, handler, broker>>

\* resetBinding: the day's budget stays.
Rebound(a, k) ==
    [DefaultPolicy(day) EXCEPT !.account = a, !.hash = k, !.daily = Today(policy).daily]

\* verifyLocalManualReadiness, at the end of a read-only check of a key and an
\* account that were selected when it began.
VerifyReadiness ==
    \E a \in Accounts, k \in ApiKeys :
        IF policy.account = a /\ policy.hash = k
        THEN SetPolicy(Today(policy))
        ELSE policy.lock = None /\ SetPolicy(Rebound(a, k))

Consent ==
    /\ \E a \in Accounts : Bound(a)
    /\ SetPolicy([policy EXCEPT !.consent = TRUE])

EnableManual ==
    /\ (\E a \in Accounts : Bound(a)) /\ policy.consent
    /\ policy.lock = None
    /\ SetPolicy([Today(policy) EXCEPT !.manual = TRUE])

EnableAutomation ==
    /\ policy.account # None /\ policy.manual
    /\ Eligible
    /\ SetPolicy([Today(policy) EXCEPT !.auto = TRUE])

BothOff(pol) == [pol EXCEPT !.manual = FALSE, !.auto = FALSE]

\* Also resetPreReleaseLivePolicies, at the start of a locked build.
Disable ==
    \/ SetPolicy(BothOff(Today(policy)))
    \/ SetPolicy([Today(policy) EXCEPT !.auto = FALSE])

\* recordLocalLiveSafetyProof, when the route has read both switches as on.
RecordSafetyProof == SetPolicy([policy EXCEPT !.safety = TRUE])

-----------------------------------------------------------------------------
(* Submission. *)

Handling(h, rec) ==
    /\ handler' = [handler EXCEPT ![h] = rec]
    /\ UNCHANGED day

\* localLiveOrderSubmit up to the gate, for a preview (recordOrderPreview mints its
\* clientOrderId) of the account selected now, unexpired and, unless its mark was
\* overwritten, unused.
ManualSubmit(h) ==
    /\ handler[h].pc = "idle"
    /\ \E o \in Manual :
          /\ GateOpen(o, PreviewAccount[o])
          /\ Handling(h, [IdleHandler EXCEPT !.pc = "gated", !.order = o])
    /\ policy' = Today(policy)
    /\ UNCHANGED <<attempts, broker>>

\* runAutomation starts a cycle for the account selected then; a tick of it sends
\* the order of a step, and the broker asks the gate for that account once more.
AutomationSubmit(h) ==
    /\ handler[h].pc = "idle"
    /\ \E o \in Automated, a \in Accounts :
          /\ GateOpen(o, a)
          /\ Handling(h, [IdleHandler EXCEPT !.pc = "gated", !.order = o])
    /\ policy' = Today(policy)
    /\ UNCHANGED <<attempts, broker>>

\* Mutant: the day's total is compared before the order is added.
BudgetLeft(o) == o \notin Sells => Value[o] <= MaxBuyOrder /\ Today(policy).daily < MaxDailyBuy

BudgetAllows(o) ==
    o \notin Sells => /\ Value[o] <= MaxBuyOrder
                      /\ Today(policy).daily + Value[o] <= MaxDailyBuy

\* Mutant: a repeated clientOrderId is not refused.
PreparesAgain(o) == BudgetAllows(o)

Prepares(o) == attempts[o].status = "none" /\ BudgetAllows(o)

Charged(o) == [Today(policy) EXCEPT !.daily = @ + IF o \in Sells THEN 0 ELSE Value[o]]

\* prepareLocalLiveOrderAttempt, after the precheck and the conversion: budget
\* and pending attempt reach the file together.  The gate is not asked again.
Prepare(h) ==
    /\ handler[h].pc = "gated"
    /\ LET o == handler[h].order
       IN  /\ Prepares(o)
           /\ policy' = Charged(o)
           /\ attempts' = [attempts EXCEPT ![o] =
                 [status |-> "submission_pending", day |-> day]]
           /\ Handling(h, [handler[h] EXCEPT !.pc = "ready", !.kept = TRUE])
    /\ UNCHANGED <<broker>>

\* The precheck, the conversion or the ledger refuses, or a read throws.
Refuse(h) ==
    /\ handler[h].pc = "gated"
    /\ Handling(h, IdleHandler)
    /\ UNCHANGED <<ledger, broker>>

\* markOrderPreviewSubmitted, before the POST of a manual order, throws: the
\* attempt stays as it is.
MarkPreviewFails(h) ==
    /\ handler[h].pc = "ready" /\ handler[h].order \in Manual
    /\ Handling(h, IdleHandler)
    /\ UNCHANGED <<ledger, broker>>

\* submitOrder: a price off the tick grid is refused before createOrder, a POST the
\* client never repeats.  A 4xx is a refusal, any other end leaves the result
\* unknown: answered too late, lost, or on its way.
Post(h) ==
    /\ handler[h].pc = "ready"
    /\ LET o == handler[h].order
           answer(reply) == Handling(h, [handler[h] EXCEPT !.pc = "answered", !.reply = reply])
       IN  \/ answer("rejected") /\ UNCHANGED <<book, wire, posted>>
           \/ /\ posted' = [posted EXCEPT ![o] = IF @ < 2 THEN @ + 1 ELSE @]
              /\ \/ answer("ok") /\ book' = book \cup {o} /\ UNCHANGED wire
                 \/ answer("unknown") /\ book' = book \cup {o} /\ UNCHANGED wire
                 \/ answer("rejected") /\ UNCHANGED <<book, wire>>
                 \/ answer("unknown") /\ UNCHANGED <<book, wire>>
                 \/ answer("unknown") /\ wire' = wire \cup {o} /\ UNCHANGED book
    /\ UNCHANGED <<ledger, forgotten>>

Mark(o, status) == attempts' = [attempts EXCEPT ![o].status = status]

MarkSubmitted(h) ==
    /\ handler[h].pc = "answered" /\ handler[h].reply = "ok" /\ handler[h].kept
    /\ Mark(handler[h].order, "submitted")
    /\ policy' = [policy EXCEPT !.reconciled = @ /\ handler[h].order \notin Manual]
    /\ Handling(h, [handler[h] EXCEPT !.pc = "marked"])
    /\ UNCHANGED broker

\* recordSubmittedOrder, in the same try.
Track(h) ==
    /\ handler[h].pc = "marked"
    /\ Handling(h, IdleHandler)
    /\ UNCHANGED <<ledger, broker>>

\* A failed write, or an attempt no longer in the file, after an accepted POST:
\* the catch takes it for an unknown result.
AfterPostFails(h) ==
    /\ handler[h].pc \in {"answered", "marked"} /\ handler[h].reply = "ok"
    /\ Handling(h, [handler[h] EXCEPT !.pc = "answered", !.reply = "unknown"])
    /\ UNCHANGED <<ledger, broker>>

\* Mutant: a refusal gives its value back.
MarkRejectedRefunding(h) ==
    /\ handler[h].pc = "answered" /\ handler[h].reply = "rejected" /\ handler[h].kept
    /\ Mark(handler[h].order, "rejected")
    /\ policy' = [policy EXCEPT !.daily = @ - Value[handler[h].order]]
    /\ Handling(h, IdleHandler)
    /\ UNCHANGED broker

MarkRejected(h) ==
    /\ handler[h].pc = "answered" /\ handler[h].reply = "rejected" /\ handler[h].kept
    /\ Mark(handler[h].order, "rejected")
    /\ Handling(h, IdleHandler)
    /\ UNCHANGED <<policy, broker>>

\* Mutant: automation stays on.
UnknownLocked(o) == [policy EXCEPT !.lock = o]

Locked(o) == [policy EXCEPT !.auto = FALSE, !.lock = o]

MarkUnknown(h) ==
    /\ handler[h].pc = "answered" /\ handler[h].reply = "unknown" /\ handler[h].kept
    /\ Mark(handler[h].order, "unknown")
    /\ policy' = Locked(handler[h].order)
    /\ Handling(h, IdleHandler)
    /\ UNCHANGED <<broker>>

\* The mark itself cannot be written: the attempt stays submission_pending.
MarkFails(h) ==
    /\ handler[h].pc = "answered" /\ handler[h].reply # "ok"
    /\ Handling(h, IdleHandler)
    /\ UNCHANGED <<ledger, broker>>

-----------------------------------------------------------------------------
(* The startup synchronisation. *)

\* Mutant: only the automation's unknown attempts are looked at.
NoAutomatedUnknown == \A o \in Automated : ~Unknown(o)

NoUnknown == \A o \in Orders : ~Unknown(o)

\* localOrderSync with startup = true ends in recordLocalLiveReconciliation, for
\* the orders of one account the tracker held open when it began, also when no
\* lookup succeeded.  An attempt it reconciles is completed at the time it then
\* records, or just before.
Reconcile ==
    /\ \E matched \in SUBSET {o \in Orders : attempts[o].status = "submitted"}, sameTime \in BOOLEAN :
          LET before == matched \cap Manual = {} \/ ~sameTime
          IN  /\ attempts' = [o \in Orders |-> [attempts[o] EXCEPT !.status =
                                  IF o \in matched THEN "reconciled" ELSE @]]
              /\ policy' = IF NoUnknown
                           THEN [Today(policy) EXCEPT !.reconciled = before, !.lock = None]
                           ELSE [Today(policy) EXCEPT !.reconciled = @ /\ matched \cap Manual = {}]
    /\ UNCHANGED <<day, handler, broker>>

-----------------------------------------------------------------------------
(* The outside world. *)

\* Quit or crash, and the next start.
Restart ==
    /\ handler' = [h \in Handlers |-> IdleHandler]
    /\ UNCHANGED <<day, ledger, broker>>

\* readStore answers an unreadable file with the defaults.  What was sent of the
\* orders it held is out of the ledger's sight from here on.
LedgerLost ==
    LET held == {o \in Orders : attempts[o].status # "none"}
    IN  /\ Cardinality(forgotten) < MaxForgotten
        /\ policy' = DefaultPolicy(day)
        /\ attempts' = [o \in Orders |-> NoAttempt]
        /\ handler' = [h \in Handlers |-> [handler[h] EXCEPT !.kept = FALSE]]
        /\ forgotten' = forgotten \cup held
        /\ book' = book \ held /\ wire' = wire \ held
        /\ posted' = [o \in Orders |-> IF o \in held THEN 0 ELSE posted[o]]
        /\ UNCHANGED day

Arrive ==
    /\ \E o \in wire : wire' = wire \ {o} /\ book' = book \cup {o}
    /\ UNCHANGED <<day, ledger, handler, posted, forgotten>>

NextDay ==
    /\ day < MaxDay /\ day' = day + 1
    /\ UNCHANGED <<ledger, handler, broker>>

-----------------------------------------------------------------------------
Init ==
    /\ day = 0
    /\ policy = DefaultPolicy(0)
    /\ attempts = [o \in Orders |-> NoAttempt]
    /\ handler = [h \in Handlers |-> IdleHandler]
    /\ book = {} /\ wire = {}
    /\ posted = [o \in Orders |-> 0]
    /\ forgotten = {}

User ==
    \/ VerifyReadiness \/ Consent \/ EnableManual \/ EnableAutomation \/ Disable \/ RecordSafetyProof

Submission(h) ==
    \/ ManualSubmit(h) \/ AutomationSubmit(h) \/ Prepare(h) \/ Refuse(h)
    \/ MarkPreviewFails(h) \/ Post(h) \/ MarkSubmitted(h) \/ Track(h) \/ AfterPostFails(h)
    \/ MarkRejected(h) \/ MarkUnknown(h) \/ MarkFails(h)

World ==
    \/ Reconcile \/ Restart \/ LedgerLost \/ Arrive \/ NextDay

Next == User \/ (\E h \in Handlers : Submission(h)) \/ World

Spec == Init /\ [][Next]_vars

-----------------------------------------------------------------------------
(* Properties. *)

TypeOK ==
    /\ day \in 0..MaxDay
    /\ policy \in Policy
    /\ attempts \in [Orders -> Attempt]
    /\ handler \in [Handlers -> Handler]
    /\ book \subseteq Orders /\ wire \subseteq Orders
    /\ posted \in [Orders -> 0..2] /\ forgotten \subseteq Orders

\* The lock stands exactly while some attempt is unknown: neither a rebinding,
\* nor a reconciliation of another account, lifts it, and it is never left
\* behind ("any unknown order locks live trading until an operator has looked").
LockMeansUnknown == (policy.lock # None) <=> (\E o \in Orders : Unknown(o))

\* Live automation is on only under a standing binding and consent, with the
\* manual toggle on, the safety check and the manual orders behind it, and
\* nothing unknown; turning manual off, binding another account or an unknown
\* result takes it down with them.
AutomationEarned ==
    policy.auto => /\ policy.manual /\ policy.consent
                   /\ policy.account # None /\ policy.hash # None
                   /\ policy.safety
                   /\ \A o \in Orders : ~Unknown(o)
                   /\ Cardinality({o \in Manual : Counted(o)}) >= RequiredManual

\* The budget of the day is what the attempts of the day add up to, whatever
\* became of them, under every binding, and within the limit: a rebinding, a
\* refusal or a lost answer gives nothing back.
BudgetIsCounted ==
    LET buys == {o \in Orders \ Sells : attempts[o].status # "none" /\ attempts[o].day = policy.date}
    IN  policy.daily = MapThenSumSet(LAMBDA o : Value[o], buys) /\ policy.daily <= MaxDailyBuy

\* What the file says of an order, as OrderJournal words it.
Word(status) ==
    CASE status = "none" -> "unsent"
      [] status = "submission_pending" -> "pending"
      [] status = "unknown" -> "unclear"
      [] status = "rejected" -> "refused"
      [] status \in {"submitted", "reconciled"} -> "accepted"

Entry(o) == IF o \in forgotten THEN "lost" ELSE Word(attempts[o].status)

Journaled == INSTANCE OrderJournal WITH
    journal <- [o \in Orders |-> Entry(o)],
    posts <- [o \in Orders |-> IF o \in forgotten THEN 0 ELSE posted[o]],
    taken <- book \ forgotten,
    wire <- wire \ forgotten

\* The ledger implements OrderJournal: whatever the previews, the tracker and the
\* other handlers do, an order is written down before it is sent, sent once, and
\* recorded as accepted or refused only when it is.
ImplementsJournal == Journaled!Spec
=============================================================================
