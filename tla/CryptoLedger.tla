----------------------------- MODULE CryptoLedger -----------------------------
(***************************************************************************)
(* The live-order ledger of one crypto exchange in the macOS sidecar: the  *)
(* policy that opens and closes submission, the previews an order must     *)
(* start from, the attempts written before every POST, and the handlers    *)
(* that submit, synchronise and reconcile them.                            *)
(*                                                                         *)
(* Every operation of local-crypto-live-trading.ts runs in withStore, a    *)
(* promise queue around one file, and is one action.  The handlers of      *)
(* local_engine.mts call several of them with network calls in between;    *)
(* each call is a step of its own, so that everything can happen between   *)
(* two of them: other handlers, a crash, a re-registered API key.          *)
(*                                                                         *)
(* This build answers every live route with PRE_RELEASE_LIVE_LOCK.  The    *)
(* ledger and its handlers are the machinery behind that lock and read the *)
(* file an open build left: `locked` is the lock, and an installation may  *)
(* be upgraded into it at any restart.                                     *)
(***************************************************************************)
EXTENDS Integers, FiniteSets

CONSTANTS
    Handlers,           \* concurrent submissions (HTTP handlers, automation brokers)
    Syncers,            \* concurrent order synchronisations and reconciliations
    PreviewIds,         \* preview UUIDs; the clientOrderId is minted with the preview
    ApiKeys,            \* API keys the user may register
    StepKeys,           \* strategy step keys of the automation
    Sides,              \* sides of the orders
    Values,             \* KRW values of orders
    MaxBuyOrder,        \* LOCAL_CRYPTO_LIVE_TRADING_MAX_BUY_ORDER_KRW
    MaxDailyBuy,        \* LOCAL_CRYPTO_LIVE_TRADING_MAX_DAILY_BUY_KRW
    ManualRequirement,  \* LOCAL_CRYPTO_AUTOMATION_MANUAL_ORDER_REQUIREMENT
    None,               \* null
    MaxAttempts,        \* bound: attempts ever minted
    MaxDay,             \* bound: KST days 0..MaxDay
    MaxRegistrations,   \* bound: credential registrations and deletions
    StoreCanFail        \* the file may become unreadable

ASSUME LedgerAssumption ==
    /\ "buy" \in Sides /\ Sides \subseteq {"buy", "sell"}
    /\ Values \subseteq Nat \ {0}
    /\ {MaxBuyOrder, MaxDailyBuy, ManualRequirement, MaxAttempts, MaxDay, MaxRegistrations} \subseteq Nat
    /\ None \notin ApiKeys \cup StepKeys \cup PreviewIds
    /\ StoreCanFail \in BOOLEAN

VARIABLES
    up, locked,     \* the sidecar is serving; the build is submission-locked
    day,
    cred,           \* the API key in the credential store
    unbound,        \* a credential was saved or deleted, its binding not cleared yet
    replaced,       \* keys that were replaced while the sidecar served
    halted,         \* kill switch engaged or worker paused
    registrations,
    policy, previews, attempts,     \* the ledger file
    minted,         \* attempt UUIDs drawn so far
    executed,       \* the worker state: a day and the automation steps recorded for it
    handler, syncer,
    wire,           \* POSTs given up on that may still reach the exchange
    exchange,       \* the exchange's order of each clientOrderId
    posted          \* how many POSTs were sent for each preview

ledger == <<policy, previews, attempts>>
session == <<handler, syncer>>
environment == <<up, locked, day, cred, unbound, replaced, halted, registrations>>
world == <<wire, exchange, posted>>
vars == <<environment, ledger, minted, executed, session, world>>

-----------------------------------------------------------------------------
(* Types and null records. *)

Sources == {"manual", "automation"}
OrderStates == {"open", "filled", "cancelled"}
Statuses == OrderStates \cup {"submission_pending", "submitted", "unknown", "rejected"}
PendingStatuses == {"submission_pending", "submitted", "open", "unknown"}

AttemptIds == 1..MaxAttempts

\* A binding is the hash of an API key.  It carries the readiness stamp with it:
\* the two are always written and cleared together.  lock is the attempt of
\* unknownLock, 0 when there is none.
Policy == [binding : ApiKeys \cup {None}, consent : BOOLEAN, manual : BOOLEAN,
           auto : BOOLEAN, confirmed : Nat, restart : BOOLEAN, kill : BOOLEAN,
           date : 0..MaxDay, daily : Nat, lock : {0} \cup AttemptIds]

\* "gone": expired unconsumed and pruned, or lost with the file.
Preview == [state : {"none", "open", "consumed", "gone"}, source : Sources,
            key : StepKeys \cup {None}, side : Sides, value : Nat]
NoPreview == [state |-> "none", source |-> "manual", key |-> None, side |-> "buy", value |-> 0]

Attempt == [status : Statuses \cup {"none"}, preview : PreviewIds \cup {None}, source : Sources,
            key : StepKeys \cup {None}, side : Sides, value : Nat, day : 0..MaxDay]
NoAttempt == [status |-> "none", preview |-> None, source |-> "manual", key |-> None,
              side |-> "buy", value |-> 0, day |-> 0]

\* reply is how the POST ended, as isUnknownCryptoSubmissionError tells it.
Handler == [pc : {"idle", "gated", "ready", "begun", "answered"}, source : Sources,
            key : StepKeys \cup {None}, preview : PreviewIds \cup {None},
            cred : ApiKeys \cup {None}, attempt : {0} \cup AttemptIds,
            reply : {"none", "ok", "rejected", "unknown"}]
IdleHandler == [pc |-> "idle", source |-> "manual", key |-> None, preview |-> None,
                cred |-> None, attempt |-> 0, reply |-> "none"]

\* todo are the attempts still to look up, pending those of them the listing
\* saw as submission_pending, single marks the one-order reconcile handler.
Syncer == [pc : {"idle", "lookup", "apply", "step", "miss", "final", "proof"},
           todo : SUBSET AttemptIds, pending : SUBSET AttemptIds,
           found : OrderStates \cup {"none"}, single : BOOLEAN]
IdleSyncer == [pc |-> "idle", todo |-> {}, pending |-> {}, found |-> "none", single |-> FALSE]

-----------------------------------------------------------------------------
(* The policy and the gate. *)

DefaultPolicy(d) ==
    [binding |-> None, consent |-> FALSE, manual |-> FALSE, auto |-> FALSE, confirmed |-> 0,
     restart |-> FALSE, kill |-> FALSE, date |-> d, daily |-> 0, lock |-> 0]

\* resetDailyLimitIfNeeded
Today(pol) == IF pol.date = day THEN pol ELSE [pol EXCEPT !.date = day, !.daily = 0]

Enabled(source) == IF source = "manual" THEN policy.manual ELSE policy.auto
Consented == policy.binding # None /\ policy.consent

GateOpen(source) ==
    /\ cred # None
    /\ Consented
    /\ policy.lock = 0
    /\ ~halted
    /\ Enabled(source)
    /\ source = "automation" =>
          policy.confirmed >= ManualRequirement /\ policy.restart /\ policy.kill

Pending(a) == attempts[a].status \in PendingStatuses

\* Mutant: an order the exchange has confirmed no longer counts.
StepUnanswered(key) ==
    \E a \in AttemptIds : attempts[a].key = key /\ Pending(a) /\ attempts[a].status # "open"

StepBusy(key) == \E a \in AttemptIds : attempts[a].key = key /\ Pending(a)

NewPreview(pid, source, key, side, value) ==
    /\ previews[pid].state = "none"
    /\ previews' = [previews EXCEPT ![pid] =
          [state |-> "open", source |-> source, key |-> key, side |-> side, value |-> value]]

-----------------------------------------------------------------------------
(* Policy operations. *)

\* Mutant: the lock is not asked.
SubmissionAlwaysEnabled == TRUE

\* liveSubmissionEnabled, behind every route that opens or submits.
LiveSubmissionEnabled == ~locked

Serving == up /\ UNCHANGED <<up, locked, day, executed, session, world>>

\* saveBrokerCredentials / deleteBrokerCredentials, then
\* clearLocalCryptoLiveTradingBinding: two files, two steps.
SaveCredential ==
    /\ Serving
    /\ registrations < MaxRegistrations
    /\ \E k \in ApiKeys \cup {None} : cred' = k
    /\ unbound' = TRUE
    /\ replaced' = replaced \cup ({cred} \ {None})
    /\ registrations' = registrations + 1
    /\ UNCHANGED <<halted, ledger, minted>>

ClearBinding ==
    /\ Serving
    /\ unbound
    /\ unbound' = FALSE
    /\ policy' = DefaultPolicy(day)
    /\ UNCHANGED <<cred, replaced, halted, registrations, previews, attempts, minted>>

SetPolicy(pol) ==
    /\ policy' = pol
    /\ UNCHANGED <<cred, unbound, replaced, halted, registrations, previews, attempts, minted>>

\* verifyLocalCryptoReadiness: another key starts over.
Unbound == [DefaultPolicy(policy.date) EXCEPT !.daily = policy.daily]

\* Mutant: the automation toggle survives a new key.
BoundKeepingToggle(k) ==
    IF policy.binding = k THEN policy ELSE [Unbound EXCEPT !.binding = k, !.auto = policy.auto]

Bound(k) == IF policy.binding = k THEN policy ELSE [Unbound EXCEPT !.binding = k]

\* The end of a read-only readiness check: it binds the key it read when it
\* started, which may have been replaced meanwhile.
VerifyReadiness ==
    /\ Serving
    /\ \E k \in (replaced \cup {cred}) \ {None} : SetPolicy(Bound(k))

GiveConsent ==
    /\ Serving
    /\ cred # None /\ policy.binding # None
    /\ SetPolicy([policy EXCEPT !.consent = TRUE])

EnableManual ==
    /\ Serving
    /\ LiveSubmissionEnabled /\ cred # None
    /\ Consented /\ policy.lock = 0
    /\ SetPolicy([Today(policy) EXCEPT !.manual = TRUE])

EnableAutomation ==
    /\ Serving
    /\ LiveSubmissionEnabled /\ cred # None
    /\ Consented /\ policy.manual /\ policy.lock = 0
    /\ policy.confirmed >= ManualRequirement /\ policy.restart /\ policy.kill
    /\ SetPolicy([policy EXCEPT !.auto = TRUE])

Disable ==
    /\ Serving
    /\ cred # None
    /\ \/ SetPolicy([Today(policy) EXCEPT !.manual = FALSE])
       \/ SetPolicy([policy EXCEPT !.auto = FALSE])

\* recordLocalCryptoRecoveryProof, the developer route.
RecordProof ==
    /\ Serving
    /\ \/ SetPolicy([policy EXCEPT !.kill = TRUE])
       \/ SetPolicy([policy EXCEPT !.restart = TRUE])

ToggleHalt ==
    /\ Serving
    /\ halted' = ~halted
    /\ UNCHANGED <<cred, unbound, replaced, registrations, ledger, minted>>

-----------------------------------------------------------------------------
(* Submission. *)

Handling(h, rec) ==
    /\ handler' = [handler EXCEPT ![h] = rec]
    /\ UNCHANGED <<environment, executed, syncer>>

\* cryptoLiveOrderPrecheck: a manual preview, for an order the gate and the risk
\* check let through.
ManualPreview ==
    /\ Serving
    /\ GateOpen("manual")
    /\ \E pid \in PreviewIds, side \in Sides, value \in Values :
          value <= MaxBuyOrder /\ NewPreview(pid, "manual", None, side, value)
    /\ policy' = Today(policy)
    /\ UNCHANGED <<cred, unbound, replaced, halted, registrations, attempts, minted>>

\* submitCryptoLiveOrder up to the precheck: the preview, the gate and the key
\* are read here, and used after the network calls that follow.  The id of an
\* automation preview never leaves the sidecar.
ManualSubmit(h) ==
    /\ up /\ LiveSubmissionEnabled
    /\ handler[h].pc = "idle"
    /\ GateOpen("manual")
    /\ \E pid \in PreviewIds :
          /\ previews[pid].state \in {"open", "consumed"}
          /\ previews[pid].source = "manual"
          /\ Handling(h, [IdleHandler EXCEPT !.pc = "ready", !.preview = pid, !.cred = cred])
    /\ policy' = Today(policy)
    /\ UNCHANGED <<previews, attempts, minted, world>>

ExecutedToday == IF executed.day = day THEN executed.keys ELSE {}

\* A tick of the live automation found a step to send and its gate open.
AutomationSubmit(h) ==
    /\ up /\ LiveSubmissionEnabled
    /\ handler[h].pc = "idle"
    /\ GateOpen("automation")
    /\ \E key \in StepKeys \ ExecutedToday :
          Handling(h, [IdleHandler EXCEPT !.pc = "gated", !.source = "automation",
                                          !.key = key, !.cred = cred])
    /\ policy' = Today(policy)
    /\ UNCHANGED <<previews, attempts, minted, world>>

\* recordLocalCryptoOrderPreview refuses a step with a pending attempt.
AutomationPreview(h) ==
    /\ up
    /\ handler[h].pc = "gated"
    /\ IF StepBusy(handler[h].key)
       THEN Handling(h, IdleHandler) /\ UNCHANGED previews
       ELSE \E pid \in PreviewIds, side \in Sides, value \in Values :
               /\ NewPreview(pid, "automation", handler[h].key, side, value)
               /\ Handling(h, [handler[h] EXCEPT !.pc = "ready", !.preview = pid])
    /\ UNCHANGED <<policy, attempts, minted, world>>

\* The precheck fails, the client disconnects, or an await throws.
Abandon(h) ==
    /\ up
    /\ handler[h].pc \in {"gated", "ready"}
    /\ Handling(h, IdleHandler)
    /\ UNCHANGED <<ledger, minted, world>>

\* Mutant: the day's total is compared before the order is added.
BudgetLeft(p) ==
    p.side = "buy" => p.value <= MaxBuyOrder /\ Today(policy).daily < MaxDailyBuy

BudgetAllows(p) ==
    p.side = "buy" => /\ p.value <= MaxBuyOrder
                      /\ Today(policy).daily + p.value <= MaxDailyBuy

\* Mutant: consumedAt is not looked at.
BeginsAgain(p) ==
    /\ p.state \in {"open", "consumed"}
    /\ Consented /\ Enabled(p.source)
    /\ policy.lock = 0
    /\ BudgetAllows(p)

Begins(p) ==
    /\ p.state = "open"
    /\ Consented /\ Enabled(p.source)
    /\ policy.lock = 0
    /\ BudgetAllows(p)

\* Mutant: a sell gives its value back.
NetCharged(p) == [Today(policy) EXCEPT !.daily = IF p.side = "buy" THEN @ + p.value ELSE @ - p.value]

Charged(p) ==
    IF p.side = "buy" THEN [Today(policy) EXCEPT !.daily = @ + p.value] ELSE Today(policy)

\* beginLocalCryptoOrderSubmission: the budget, the consumed preview and the
\* pending attempt reach the file together, before the POST.
Begin(h) ==
    /\ up
    /\ handler[h].pc = "ready"
    /\ minted < MaxAttempts
    /\ LET pid == handler[h].preview
           p == previews[pid]
       IN  /\ Begins(p)
           /\ policy' = Charged(p)
           /\ previews' = [previews EXCEPT ![pid].state = "consumed"]
           /\ attempts' = [attempts EXCEPT ![minted + 1] =
                 [status |-> "submission_pending", preview |-> pid, source |-> p.source,
                  key |-> p.key, side |-> p.side, value |-> p.value, day |-> day]]
           /\ minted' = minted + 1
           /\ Handling(h, [handler[h] EXCEPT !.pc = "begun", !.attempt = minted + 1])
    /\ UNCHANGED world

BeginRefused(h) ==
    /\ up
    /\ handler[h].pc = "ready"
    /\ ~Begins(previews[handler[h].preview])
    /\ Handling(h, IdleHandler)
    /\ UNCHANGED <<ledger, minted, world>>

\* broker.submitOrder, never retried.  The exchange takes one order per
\* clientOrderId; the request may be refused, lost, answered too late, or still
\* be on its way when the client gives up.
Post(h) ==
    /\ up
    /\ handler[h].pc = "begun"
    /\ LET pid == handler[h].preview
           answer(reply) == Handling(h, [handler[h] EXCEPT !.pc = "answered", !.reply = reply])
           accepted == exchange' = [exchange EXCEPT ![pid] = IF @ = "none" THEN "open" ELSE @]
       IN  /\ posted' = [posted EXCEPT ![pid] = @ + 1]
           /\ \/ accepted /\ answer("ok") /\ UNCHANGED wire
              \/ accepted /\ answer("unknown") /\ UNCHANGED wire
              \/ answer("rejected") /\ UNCHANGED <<wire, exchange>>
              \/ answer("unknown") /\ UNCHANGED <<wire, exchange>>
              \/ answer("unknown") /\ wire' = wire \cup {pid} /\ UNCHANGED exchange
    /\ UNCHANGED <<ledger, minted>>

\* Mutants: an unknown attempt is dropped; the lock leaves the toggles on.
UnknownDropped(a) ==
    /\ attempts' = [attempts EXCEPT ![a] = NoAttempt]
    /\ policy' = [policy EXCEPT !.manual = FALSE, !.auto = FALSE, !.lock = a]
UnknownLeftOpen(a) ==
    /\ attempts' = [attempts EXCEPT ![a].status = "unknown"]
    /\ policy' = [policy EXCEPT !.lock = a]

\* markLocalCryptoOrderSubmitted / Rejected / Unknown overwrite whatever status
\* the attempt has by now; an attempt no longer in the file makes them throw.
MarkedUnknown(a) ==
    /\ attempts' = [attempts EXCEPT ![a].status = "unknown"]
    /\ policy' = [policy EXCEPT !.manual = FALSE, !.auto = FALSE, !.lock = a]

Mark(h) ==
    /\ up
    /\ handler[h].pc = "answered"
    /\ LET a == handler[h].attempt
           reply == handler[h].reply
       IN  IF attempts[a].status = "none"
           THEN UNCHANGED <<policy, attempts>>
           ELSE \/ /\ reply = "unknown"
                   /\ MarkedUnknown(a)
                \/ /\ reply # "unknown"
                   /\ attempts' = [attempts EXCEPT ![a].status =
                                      IF reply = "ok" THEN "submitted" ELSE "rejected"]
                   /\ UNCHANGED policy
    /\ Handling(h, IdleHandler)
    /\ UNCHANGED <<previews, minted, world>>

\* The write of a mark fails.  After an accepted POST that throw is inside the
\* try of the POST, so the attempt is marked unknown next; otherwise it stays
\* submission_pending.
MarkFails(h) ==
    /\ up
    /\ handler[h].pc = "answered"
    /\ Handling(h, IF handler[h].reply = "ok"
                   THEN [handler[h] EXCEPT !.reply = "unknown"]
                   ELSE IdleHandler)
    /\ UNCHANGED <<ledger, minted, world>>

-----------------------------------------------------------------------------
(* Synchronisation and reconciliation. *)

Syncing(s, rec) ==
    /\ syncer' = [syncer EXCEPT ![s] = rec]
    /\ UNCHANGED <<environment, handler>>

First(S) == CHOOSE a \in S : \A b \in S : a <= b

\* listLocalCryptoPendingAttempts: the statuses seen here are used to the end.
SyncStart(s) ==
    /\ up
    /\ syncer[s].pc = "idle"
    /\ LET todo == {a \in AttemptIds : Pending(a)}
           pending == {a \in todo : attempts[a].status = "submission_pending"}
       IN  \/ /\ todo = {}
              /\ Syncing(s, [IdleSyncer EXCEPT !.pc = "proof"])
           \/ /\ todo # {} /\ cred # None
              /\ Syncing(s, [IdleSyncer EXCEPT !.pc = "lookup", !.todo = todo, !.pending = pending])
    /\ UNCHANGED <<ledger, minted, executed, world>>

\* reconcileCryptoLiveOrder takes the first unknown attempt of the file.
ReconcileStart(s) ==
    /\ up
    /\ syncer[s].pc = "idle"
    /\ cred # None
    /\ LET unknown == {a \in AttemptIds : attempts[a].status = "unknown"}
       IN  /\ unknown # {}
           /\ Syncing(s, [IdleSyncer EXCEPT !.pc = "lookup", !.todo = {First(unknown)}, !.single = TRUE])
    /\ UNCHANGED <<ledger, minted, executed, world>>

\* The exchange is asked for the order of the attempt's clientOrderId; it may
\* not have it, or the call may fail.
Lookup(s) ==
    /\ up
    /\ syncer[s].pc = "lookup"
    /\ LET pid == attempts[First(syncer[s].todo)].preview
           state == IF pid = None THEN "none" ELSE exchange[pid]
       IN  \/ /\ state # "none"
              /\ Syncing(s, [syncer[s] EXCEPT !.pc = "apply", !.found = state])
           \/ Syncing(s, [syncer[s] EXCEPT !.pc = "miss"])
    /\ UNCHANGED <<ledger, minted, executed, world>>

AfterAttempt(rec) ==
    LET rest == rec.todo \ {First(rec.todo)}
    IN  IF rec.single THEN IdleSyncer
        ELSE [rec EXCEPT !.todo = rest, !.found = "none",
                         !.pc = IF rest = {} THEN "final" ELSE "lookup"]

\* An automation step is recorded only by the sync handler.
StepToRecord(a, rec) ==
    ~rec.single /\ rec.found = "filled" /\ attempts[a].source = "automation"

\* Mutant: the state is left to its default.
ReconciledAsOpen(a, state) ==
    /\ attempts' = [attempts EXCEPT ![a].status = "open"]
    /\ policy' = [policy EXCEPT !.lock = IF @ = a THEN 0 ELSE @]

\* reconcileLocalCryptoOrder: the looked-up state becomes the status, the lock is
\* released if it names this attempt, a manual order counts as confirmed.
Reconciled(a, state) ==
    LET old == attempts[a]
        counts == old.source = "manual" /\ old.status \in {"submission_pending", "submitted", "unknown"}
        count == IF counts /\ policy.confirmed < ManualRequirement THEN 1 ELSE 0
    IN  /\ attempts' = [attempts EXCEPT ![a].status = state]
        /\ policy' = [policy EXCEPT !.lock = IF @ = a THEN 0 ELSE @, !.confirmed = @ + count]

Apply(s) ==
    /\ up
    /\ syncer[s].pc = "apply"
    /\ LET rec == syncer[s]
           a == First(rec.todo)
       IN  IF attempts[a].status = "none"
           THEN Syncing(s, [rec EXCEPT !.pc = "miss"]) /\ UNCHANGED <<policy, attempts>>
           ELSE /\ Reconciled(a, rec.found)
                /\ Syncing(s, IF StepToRecord(a, rec) THEN [rec EXCEPT !.pc = "step"] ELSE AfterAttempt(rec))
    /\ UNCHANGED <<previews, minted, executed, world>>

\* recordExecutedStep for the day the attempt was created, in the worker state
\* file, which keeps one day; a failed save is caught like a failed lookup.
StepRecorded(a) ==
    LET d == attempts[a].day
        keys == IF executed.day = d THEN executed.keys ELSE {}
    IN  executed' = IF attempts[a].key \in keys THEN executed
                    ELSE [day |-> d, keys |-> keys \cup {attempts[a].key}]

RecordStep(s) ==
    /\ up
    /\ syncer[s].pc = "step"
    /\ \/ /\ StepRecorded(First(syncer[s].todo))
          /\ Syncing(s, AfterAttempt(syncer[s]))
       \/ /\ UNCHANGED executed
          /\ Syncing(s, [syncer[s] EXCEPT !.pc = "miss"])
    /\ UNCHANGED <<ledger, minted, world>>

\* The catch of the loop: an attempt that was submission_pending when the sync
\* began becomes unknown.
Miss(s) ==
    /\ up
    /\ syncer[s].pc = "miss"
    /\ LET a == First(syncer[s].todo)
       IN  IF a \in syncer[s].pending /\ attempts[a].status # "none"
           THEN MarkedUnknown(a)
           ELSE UNCHANGED <<policy, attempts>>
    /\ Syncing(s, AfterAttempt(syncer[s]))
    /\ UNCHANGED <<previews, minted, executed, world>>

SyncEnd(s) ==
    /\ up
    /\ syncer[s].pc = "final"
    /\ LET clear == \A a \in AttemptIds : attempts[a].status \notin {"unknown", "submission_pending"}
       IN  Syncing(s, IF clear THEN [IdleSyncer EXCEPT !.pc = "proof"] ELSE IdleSyncer)
    /\ UNCHANGED <<ledger, minted, executed, world>>

RestartProof(s) ==
    /\ up
    /\ syncer[s].pc = "proof"
    /\ policy' = [policy EXCEPT !.restart = TRUE]
    /\ Syncing(s, IdleSyncer)
    /\ UNCHANGED <<previews, attempts, minted, executed, world>>

-----------------------------------------------------------------------------
(* The outside world. *)

\* Quit or crash; what is in the files stays.
Stop ==
    /\ up
    /\ up' = FALSE
    /\ handler' = [h \in Handlers |-> IdleHandler]
    /\ syncer' = [s \in Syncers |-> IdleSyncer]
    /\ unbound' = FALSE /\ replaced' = {}
    /\ UNCHANGED <<locked, day, cred, halted, registrations, ledger, minted, executed, world>>

\* Mutant: only the manual toggle.
ManualReset(pol) == [Today(pol) EXCEPT !.manual = FALSE]

TogglesReset(pol) == [Today(pol) EXCEPT !.manual = FALSE, !.auto = FALSE]

\* startLocalEngineServer; a locked build first turns both toggles off
\* (resetPreReleaseLivePolicies).
Start ==
    /\ ~up
    /\ up' = TRUE
    /\ \/ /\ ~locked
          /\ UNCHANGED <<locked, policy>>
       \/ /\ locked' = TRUE
          /\ policy' = TogglesReset(policy)
    /\ UNCHANGED <<day, cred, unbound, replaced, halted, registrations, previews, attempts,
                   minted, executed, session, world>>

\* A preview past its ten minutes is pruned by the next operation that reads it.
Expire ==
    /\ \E pid \in PreviewIds :
          /\ previews[pid].state = "open"
          /\ previews' = [previews EXCEPT ![pid] = [NoPreview EXCEPT !.state = "gone"]]
    /\ UNCHANGED <<environment, policy, attempts, minted, executed, session, world>>

\* readStore answers an unreadable file with the defaults, and the operation
\* that read it writes them back.
StoreLost ==
    /\ StoreCanFail /\ up
    /\ policy' = DefaultPolicy(day)
    /\ previews' = [pid \in PreviewIds |->
          IF previews[pid].state = "none" THEN NoPreview ELSE [NoPreview EXCEPT !.state = "gone"]]
    /\ attempts' = [a \in AttemptIds |-> NoAttempt]
    /\ UNCHANGED <<environment, minted, executed, session, world>>

\* A request given up on reaches the exchange after all.
Arrive ==
    /\ \E pid \in wire :
          /\ wire' = wire \ {pid}
          /\ exchange' = [exchange EXCEPT ![pid] = IF @ = "none" THEN "open" ELSE @]
    /\ UNCHANGED <<environment, ledger, minted, executed, session, posted>>

Settle ==
    /\ \E pid \in PreviewIds, state \in {"filled", "cancelled"} :
          exchange[pid] = "open" /\ exchange' = [exchange EXCEPT ![pid] = state]
    /\ UNCHANGED <<environment, ledger, minted, executed, session, wire, posted>>

NextDay ==
    /\ day < MaxDay
    /\ day' = day + 1
    /\ UNCHANGED <<up, locked, cred, unbound, replaced, halted, registrations, ledger, minted, executed,
                   session, world>>

-----------------------------------------------------------------------------
Init ==
    /\ up = FALSE /\ locked = FALSE
    /\ day = 0
    /\ cred \in ApiKeys \cup {None} \* a key may have been stored long before
    /\ unbound = FALSE /\ replaced = {}
    /\ halted = FALSE
    /\ registrations = 0
    /\ policy = DefaultPolicy(0)
    /\ previews = [pid \in PreviewIds |-> NoPreview]
    /\ attempts = [a \in AttemptIds |-> NoAttempt]
    /\ minted = 0
    /\ executed = [day |-> 0, keys |-> {}]
    /\ handler = [h \in Handlers |-> IdleHandler]
    /\ syncer = [s \in Syncers |-> IdleSyncer]
    /\ wire = {}
    /\ exchange = [pid \in PreviewIds |-> "none"]
    /\ posted = [pid \in PreviewIds |-> 0]

User ==
    \/ SaveCredential \/ ClearBinding \/ VerifyReadiness \/ GiveConsent
    \/ EnableManual \/ EnableAutomation \/ Disable \/ RecordProof \/ ToggleHalt
    \/ ManualPreview

Submission(h) ==
    \/ ManualSubmit(h) \/ AutomationSubmit(h) \/ AutomationPreview(h) \/ Abandon(h)
    \/ Begin(h) \/ BeginRefused(h) \/ Post(h) \/ Mark(h) \/ MarkFails(h)

Sync(s) ==
    \/ SyncStart(s) \/ ReconcileStart(s) \/ Lookup(s) \/ Apply(s) \/ RecordStep(s)
    \/ Miss(s) \/ SyncEnd(s) \/ RestartProof(s)

World == Stop \/ Start \/ Expire \/ StoreLost \/ Arrive \/ Settle \/ NextDay

Next ==
    \/ User
    \/ \E h \in Handlers : Submission(h)
    \/ \E s \in Syncers : Sync(s)
    \/ World

Spec == Init /\ [][Next]_vars

Found(s, a) == First(syncer[s].todo) = a /\ Lookup(s) /\ syncer'[s].pc = "apply"

\* The sidecar is started again and in the end left running, the app polls the
\* live-trading state, which synchronises, and the exchange, asked again and
\* again for an order it has, at last answers.
FairSpec ==
    /\ Spec
    /\ WF_vars(Start) /\ <>[][~Stop]_vars
    /\ \A s \in Syncers :
          /\ WF_vars(Sync(s)) /\ SF_vars(SyncStart(s))
          /\ \A a \in AttemptIds : SF_vars(syncer[s].todo # {} /\ Found(s, a))

-----------------------------------------------------------------------------
(* Properties. *)

TypeOK ==
    /\ up \in BOOLEAN /\ locked \in BOOLEAN /\ halted \in BOOLEAN /\ unbound \in BOOLEAN
    /\ day \in 0..MaxDay
    /\ cred \in ApiKeys \cup {None}
    /\ replaced \subseteq ApiKeys
    /\ registrations \in 0..MaxRegistrations
    /\ policy \in Policy
    /\ previews \in [PreviewIds -> Preview]
    /\ attempts \in [AttemptIds -> Attempt]
    /\ minted \in 0..MaxAttempts
    /\ executed \in [day : 0..MaxDay, keys : SUBSET (StepKeys \cup {None})]
    /\ handler \in [Handlers -> Handler]
    /\ syncer \in [Syncers -> Syncer]
    /\ wire \subseteq PreviewIds
    /\ exchange \in [PreviewIds -> OrderStates \cup {"none"}]
    /\ posted \in [PreviewIds -> Nat]

\* A previewed order is sent once: double clicks, two handlers, a crash or a lost
\* file never make a second POST of it ("do not resubmit the same order").
OnePostPerPreview == \A pid \in PreviewIds : posted[pid] <= 1

\* Whatever the exchange received has an attempt in the file, so that a restart
\* can ask for it: the attempt is written before the POST.
PostsAreJournaled ==
    \A pid \in PreviewIds :
        posted[pid] > 0 => \E a \in AttemptIds : attempts[a].preview = pid

\* While an unknown result locks the exchange both toggles are off: releasing
\* the lock reopens nothing by itself.
LockClosesToggles == policy.lock # 0 => ~policy.manual /\ ~policy.auto

\* Automation is on only for a bound, consenting user who earned it, also after
\* another key was bound.
AutomationEarned ==
    policy.auto => /\ Consented
                   /\ policy.confirmed >= ManualRequirement
                   /\ policy.restart /\ policy.kill

\* The buys begun on a day.
BuysOf(d) == {a \in AttemptIds : attempts[a].status # "none" /\ attempts[a].side = "buy" /\ attempts[a].day = d}
Spent(d) ==
    LET sum[n \in 0..MaxAttempts] ==
            IF n = 0 THEN 0
            ELSE sum[n - 1] + IF n \in BuysOf(d) THEN attempts[n].value ELSE 0
    IN  sum[MaxAttempts]

\* The buys of a KST day, manual and automated together, stay within the daily
\* limit; a cancel, a refusal or an unknown result gives nothing back
\* (docs/macos-native.md: one limit per exchange).  Where keys are saved or
\* deleted it fails: ClearBinding starts the day's total over.
DailyCap == \A d \in 0..MaxDay : Spent(d) <= MaxDailyBuy

\* Any unknown attempt keeps the exchange locked until a lookup confirms it
\* (docs/macos-native.md).
UnknownLocks == (\E a \in AttemptIds : attempts[a].status = "unknown") => policy.lock # 0

\* The exchange never works two orders of one strategy step at a time, whatever
\* is lost, killed or late: while an attempt may still fill, the step is busy.
OneOpenOrderPerStep ==
    \A a, b \in AttemptIds :
        /\ attempts[a].key # None /\ attempts[a].key = attempts[b].key
        /\ exchange[attempts[a].preview] = "open" /\ exchange[attempts[b].preview] = "open"
        => a = b

\* A strategy step fills at most once a day (worker-state.ts: the executed keys
\* keep an order from being sent twice).
StepFillsOnce ==
    \A a, b \in AttemptIds :
        /\ attempts[a].key # None /\ attempts[a].key = attempts[b].key
        /\ attempts[a].day = attempts[b].day
        /\ exchange[attempts[a].preview] = "filled" /\ exchange[attempts[b].preview] = "filled"
        => a = b

\* A submission-locked build sends nothing, whatever toggles, previews and
\* attempts the file holds from an open one.
LockedBuildSendsNothing == [][locked => posted' = posted]_vars

\* An order the exchange has done with does not stay unsettled in the ledger:
\* the synchronisation finds it, whatever its attempt was left as, unless the
\* key to ask with was deleted.
OrdersSettle ==
    \A a \in AttemptIds :
        (/\ cred # None /\ Pending(a)
         /\ attempts[a].preview # None /\ exchange[attempts[a].preview] \in {"filled", "cancelled"})
            ~> (~Pending(a) \/ cred = None)

\* A locked build serves with both toggles off.
LockedBuildStaysClosed == up /\ locked => ~policy.manual /\ ~policy.auto

\* What the file says of the order of a preview, as OrderJournal words it.
JournalEntry(pid) ==
    LET status == {attempts[a].status : a \in {b \in AttemptIds : attempts[b].preview = pid}}
    IN  CASE status = {} -> "unsent"
          [] status = {"submission_pending"} -> "pending"
          [] status = {"unknown"} -> "unclear"
          [] status = {"rejected"} -> "refused"
          [] OTHER -> "accepted"

Journal == INSTANCE OrderJournal WITH
    Orders <- PreviewIds,
    journal <- [pid \in PreviewIds |-> JournalEntry(pid)],
    posts <- posted,
    taken <- {pid \in PreviewIds : exchange[pid] # "none"}

\* The ledger implements OrderJournal: entry before POST, one POST, and no
\* verdict the exchange contradicts, whichever of the handler's mark and the
\* synchronisation's answer is written last.
ImplementsJournal == Journal!Spec
=============================================================================
