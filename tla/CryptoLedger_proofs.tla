-------------------------- MODULE CryptoLedger_proofs --------------------------
(***************************************************************************)
(* What the live-order ledger guarantees for any number of concurrent      *)
(* handlers and synchronisations, previews, keys, limits and days.         *)
(***************************************************************************)
EXTENDS CryptoLedger, WellFoundedInduction, TLAPS

-----------------------------------------------------------------------------
(* Types: what a handler or a synchronisation holds depends on where it is. *)

HandlerOK(rec) ==
    /\ rec.pc \in {"ready", "begun", "answered"} => rec.preview \in PreviewIds
    /\ rec.pc \in {"begun", "answered"} => rec.attempt \in AttemptIds

SyncerOK(rec) ==
    /\ rec.pc \in {"lookup", "apply", "step", "miss"} => rec.todo # {}
    /\ rec.pc = "apply" => rec.found \in OrderStates

TypeInv ==
    /\ TypeOK
    /\ \A h \in Handlers : HandlerOK(handler[h])
    /\ \A s \in Syncers : SyncerOK(syncer[s])

LEMMA FirstIsMember ==
    ASSUME NEW S \in SUBSET AttemptIds, S # {}
    PROVE  First(S) \in S
<1>1. S \subseteq Nat
  BY LedgerAssumption DEF AttemptIds
<1>2. PICK x \in S : \A y \in S : ~ (<<y, x>> \in OpToRel(<, Nat))
  BY <1>1, NatLessThanWellFounded, WFMin
<1>3. \A y \in S : x <= y
  <2> TAKE y \in S
  <2>1. ~ (y < x)
    BY <1>1, <1>2 DEF OpToRel
  <2> QED
    BY <1>1, <2>1
<1> QED
  BY <1>2, <1>3 DEF First

LEMMA PolicyTypes ==
    ASSUME NEW pol \in Policy, NEW d \in 0..MaxDay
    PROVE  /\ DefaultPolicy(d) \in Policy
           /\ day \in 0..MaxDay => Today(pol) \in Policy
           /\ \A b \in BOOLEAN : /\ [pol EXCEPT !.consent = b] \in Policy
                                 /\ [pol EXCEPT !.manual = b] \in Policy
                                 /\ [pol EXCEPT !.auto = b] \in Policy
                                 /\ [pol EXCEPT !.manual = b, !.auto = b] \in Policy
           /\ [pol EXCEPT !.kill = TRUE] \in Policy
           /\ [pol EXCEPT !.restart = TRUE] \in Policy
           /\ \A a \in AttemptIds : [pol EXCEPT !.manual = FALSE, !.auto = FALSE, !.lock = a] \in Policy
<1>1. DefaultPolicy(d) \in Policy
  BY DEF DefaultPolicy, Policy
<1> QED
  BY ZenonT(60), <1>1 DEF Policy, Today

LEMMA IdleTypes ==
    /\ IdleHandler \in Handler /\ HandlerOK(IdleHandler)
    /\ IdleSyncer \in Syncer /\ SyncerOK(IdleSyncer)
    /\ NoPreview \in Preview
    /\ "buy" \in Sides
<1>1. "buy" \in Sides
  BY LedgerAssumption
<1>2. 0 \in 0..MaxDay
  BY LedgerAssumption
<1> QED
  BY <1>1, <1>2 DEF IdleHandler, Handler, HandlerOK, IdleSyncer, Syncer, SyncerOK, NoPreview,
     Preview, Sources

LEMMA NoAttemptType == NoAttempt \in Attempt
BY LedgerAssumption DEF NoAttempt, Attempt, Sources

LEMMA InitTypes == Init => TypeInv
<1> SUFFICES ASSUME Init PROVE TypeInv
  OBVIOUS
<1>1. 0 \in 0..MaxDay /\ 0 \in 0..MaxRegistrations /\ 0 \in 0..MaxAttempts
  BY LedgerAssumption
<1>2. DefaultPolicy(0) \in Policy
  BY <1>1 DEF DefaultPolicy, Policy
<1>3. TypeOK
  BY <1>1, <1>2, IdleTypes, NoAttemptType DEF Init, TypeOK
<1> QED
  BY <1>3, IdleTypes DEF Init, TypeInv

\* A step of the user or of the world that leaves the session alone.
LEMMA UserTypes ==
    ASSUME TypeInv, User
    PROVE  TypeInv'
<1> USE DEF Serving, session, world
<1>1. session' = session
  BY DEF User, SaveCredential, ClearBinding, VerifyReadiness, GiveConsent, EnableManual,
     EnableAutomation, Disable, RecordProof, ToggleHalt, ManualPreview, SetPolicy
<1>2. policy' \in Policy
  <2>1. policy \in Policy /\ day \in 0..MaxDay /\ cred \in ApiKeys \cup {None} /\ replaced \subseteq ApiKeys
    BY DEF TypeInv, TypeOK
  <2>2. Today(policy) \in Policy
    BY <2>1, PolicyTypes
  <2>3. CASE SaveCredential \/ ToggleHalt
    BY <2>1, <2>3 DEF SaveCredential, ToggleHalt, ledger
  <2>4. CASE ClearBinding
    BY <2>1, <2>4, PolicyTypes DEF ClearBinding
  <2>5. CASE VerifyReadiness
    <3>1. ASSUME NEW k \in ApiKeys PROVE Bound(k) \in Policy
      BY <2>1 DEF Bound, Unbound, DefaultPolicy, Policy
    <3> QED
      BY <2>1, <2>5, <3>1 DEF VerifyReadiness, SetPolicy
  <2>6. CASE GiveConsent \/ EnableManual \/ EnableAutomation \/ Disable \/ RecordProof
    BY <2>1, <2>2, <2>6, PolicyTypes
       DEF GiveConsent, EnableManual, EnableAutomation, Disable, RecordProof, SetPolicy
  <2>7. CASE ManualPreview
    BY <2>2, <2>7 DEF ManualPreview
  <2> QED
    BY <2>3, <2>4, <2>5, <2>6, <2>7 DEF User
<1>3. previews' \in [PreviewIds -> Preview]
  <2>1. previews \in [PreviewIds -> Preview]
    BY DEF TypeInv, TypeOK
  <2>2. CASE ManualPreview
    <3>1. PICK pid \in PreviewIds, side \in Sides, value \in Values :
            NewPreview(pid, "manual", None, side, value)
      BY <2>2 DEF ManualPreview
    <3>2. value \in Nat
      BY LedgerAssumption
    <3>3. [state |-> "open", source |-> "manual", key |-> None, side |-> side, value |-> value] \in Preview
      BY <3>2 DEF Preview, Sources
    <3> QED
      BY <2>1, <3>1, <3>3 DEF NewPreview
  <2>3. CASE ~ ManualPreview
    BY <2>1, <2>3 DEF User, SaveCredential, ClearBinding, VerifyReadiness, GiveConsent, EnableManual,
       EnableAutomation, Disable, RecordProof, ToggleHalt, SetPolicy, ledger
  <2> QED
    BY <2>2, <2>3
<1>4. /\ up' = up /\ locked' = locked /\ day' = day /\ executed' = executed
      /\ attempts' = attempts /\ minted' = minted
      /\ wire' = wire /\ exchange' = exchange /\ posted' = posted
  BY DEF User, SaveCredential, ClearBinding, VerifyReadiness, GiveConsent, EnableManual,
     EnableAutomation, Disable, RecordProof, ToggleHalt, ManualPreview, SetPolicy, ledger
<1>5. /\ cred' \in ApiKeys \cup {None} /\ unbound' \in BOOLEAN /\ replaced' \subseteq ApiKeys
      /\ halted' \in BOOLEAN /\ registrations' \in 0..MaxRegistrations
  <2>1. /\ cred \in ApiKeys \cup {None} /\ unbound \in BOOLEAN /\ replaced \subseteq ApiKeys
        /\ halted \in BOOLEAN /\ registrations \in 0..MaxRegistrations /\ MaxRegistrations \in Nat
    BY LedgerAssumption DEF TypeInv, TypeOK
  <2>2. CASE SaveCredential
    <3>1. registrations' \in 0..MaxRegistrations
      BY <2>1, <2>2 DEF SaveCredential
    <3> QED
      BY <2>1, <2>2, <3>1 DEF SaveCredential
  <2>3. CASE ~ SaveCredential
    BY <2>1, <2>3 DEF User, ClearBinding, VerifyReadiness, GiveConsent, EnableManual,
       EnableAutomation, Disable, RecordProof, ToggleHalt, ManualPreview, SetPolicy
  <2> QED
    BY <2>2, <2>3
<1> QED
  BY <1>1, <1>2, <1>3, <1>4, <1>5 DEF TypeInv, TypeOK

\* A step of one handler gives it a sound record and leaves the others alone.
LEMMA HandlerStep ==
    ASSUME TypeInv, NEW h \in Handlers, NEW rec \in Handler, HandlerOK(rec), Handling(h, rec),
           policy' \in Policy, previews' \in [PreviewIds -> Preview],
           attempts' \in [AttemptIds -> Attempt], minted' \in 0..MaxAttempts,
           wire' \subseteq PreviewIds, exchange' \in [PreviewIds -> OrderStates \cup {"none"}],
           posted' \in [PreviewIds -> Nat]
    PROVE  TypeInv'
<1>1. /\ handler' = [handler EXCEPT ![h] = rec]
      /\ UNCHANGED <<up, locked, day, cred, unbound, replaced, halted, registrations, executed, syncer>>
  BY DEF Handling, environment
<1>2. handler' \in [Handlers -> Handler] /\ \A g \in Handlers : HandlerOK(handler'[g])
  BY <1>1 DEF TypeInv, TypeOK
<1> QED
  BY <1>1, <1>2 DEF TypeInv, TypeOK

\* Statuses and marks keep the types of the attempts and the policy.
LEMMA AttemptTypes ==
    ASSUME attempts \in [AttemptIds -> Attempt], policy \in Policy, NEW a \in AttemptIds
    PROVE  /\ \A x \in Statuses : [attempts EXCEPT ![a].status = x] \in [AttemptIds -> Attempt]
           /\ MarkedUnknown(a) => policy' \in Policy /\ attempts' \in [AttemptIds -> Attempt]
<1>1. ASSUME NEW x \in Statuses PROVE [attempts EXCEPT ![a].status = x] \in [AttemptIds -> Attempt]
  BY DEF Attempt
<1>2. "unknown" \in Statuses
  BY DEF Statuses
<1> QED
  <2>1. 0 \in 0..MaxDay
    BY LedgerAssumption
  <2>2. [policy EXCEPT !.manual = FALSE, !.auto = FALSE, !.lock = a] \in Policy
    BY <2>1, PolicyTypes
  <2> QED
    BY <1>1, <1>2, <2>2 DEF MarkedUnknown

LEMMA SubmissionTypes ==
    ASSUME TypeInv, NEW h \in Handlers, Submission(h)
    PROVE  TypeInv'
<1> DEFINE rec == handler[h]
<1>1. /\ rec \in Handler /\ HandlerOK(rec) /\ policy \in Policy /\ day \in 0..MaxDay
      /\ previews \in [PreviewIds -> Preview] /\ attempts \in [AttemptIds -> Attempt]
      /\ minted \in 0..MaxAttempts /\ wire \subseteq PreviewIds
      /\ exchange \in [PreviewIds -> OrderStates \cup {"none"}] /\ posted \in [PreviewIds -> Nat]
      /\ cred \in ApiKeys \cup {None}
  BY DEF TypeInv, TypeOK
<1>2. Today(policy) \in Policy
  BY <1>1, PolicyTypes
<1>3. ASSUME NEW new \in Handler, HandlerOK(new), Handling(h, new),
             policy' \in {policy, Today(policy)}, UNCHANGED <<previews, attempts, minted, world>>
      PROVE  TypeInv'
  BY <1>1, <1>2, <1>3, HandlerStep DEF world
<1>4. CASE ManualSubmit(h)
  <2>1. PICK pid \in PreviewIds :
          Handling(h, [IdleHandler EXCEPT !.pc = "ready", !.preview = pid, !.cred = cred])
    BY <1>4 DEF ManualSubmit
  <2> DEFINE new == [IdleHandler EXCEPT !.pc = "ready", !.preview = pid, !.cred = cred]
  <2>2. new \in Handler /\ HandlerOK(new)
    BY ZenonT(60), <1>1, IdleTypes DEF Handler, HandlerOK
  <2> QED
    BY <1>3, <1>4, <2>1, <2>2 DEF ManualSubmit
<1>5. CASE AutomationSubmit(h)
  <2>1. PICK key \in StepKeys :
          Handling(h, [IdleHandler EXCEPT !.pc = "gated", !.source = "automation",
                                          !.key = key, !.cred = cred])
    BY <1>5 DEF AutomationSubmit
  <2> DEFINE new == [IdleHandler EXCEPT !.pc = "gated", !.source = "automation",
                                        !.key = key, !.cred = cred]
  <2>2. new \in Handler /\ HandlerOK(new)
    <3>1. new.pc = "gated"
      BY IdleTypes DEF Handler
    <3>2. new \in Handler
      BY ZenonT(60), <1>1, IdleTypes DEF Handler, Sources
    <3> HIDE DEF new
    <3> QED
      BY <3>1, <3>2 DEF HandlerOK
  <2> QED
    BY <1>3, <1>5, <2>1, <2>2 DEF AutomationSubmit
<1>6. CASE AutomationPreview(h)
  <2>1. CASE StepBusy(rec.key)
    BY <1>3, <1>6, <2>1, IdleTypes DEF AutomationPreview
  <2>2. CASE ~ StepBusy(rec.key)
    <3>1. PICK pid \in PreviewIds, side \in Sides, value \in Values :
            /\ NewPreview(pid, "automation", rec.key, side, value)
            /\ Handling(h, [rec EXCEPT !.pc = "ready", !.preview = pid])
      BY <1>6, <2>2 DEF AutomationPreview
    <3> DEFINE new == [rec EXCEPT !.pc = "ready", !.preview = pid]
    <3>2. new \in Handler /\ HandlerOK(new)
      BY <1>1 DEF Handler, HandlerOK
    <3>3. [state |-> "open", source |-> "automation", key |-> rec.key, side |-> side, value |-> value]
            \in Preview
      BY <1>1, LedgerAssumption DEF Preview, Handler, Sources
    <3>4. previews' \in [PreviewIds -> Preview]
      BY <1>1, <3>1, <3>3 DEF NewPreview
    <3> HIDE DEF new
    <3> QED
      BY <1>1, <1>6, <3>1, <3>2, <3>4, HandlerStep DEF AutomationPreview, world, new
  <2> QED
    BY <2>1, <2>2
<1>7. CASE Abandon(h) \/ BeginRefused(h)
  BY <1>3, <1>7, IdleTypes DEF Abandon, BeginRefused, ledger
<1>8. CASE Begin(h)
  <2> DEFINE pid == rec.preview
             p == previews[pid]
             new == [rec EXCEPT !.pc = "begun", !.attempt = minted + 1]
             att == [status |-> "submission_pending", preview |-> pid, source |-> p.source,
                     key |-> p.key, side |-> p.side, value |-> p.value, day |-> day]
  <2>1. pid \in PreviewIds /\ minted + 1 \in AttemptIds /\ minted + 1 \in 0..MaxAttempts
    BY <1>1, <1>8, LedgerAssumption DEF Begin, HandlerOK, AttemptIds
  <2>2. p \in Preview /\ p.value \in Nat
    BY <1>1, <2>1 DEF Preview
  <2>3. att \in Attempt
    BY <1>1, <2>1, <2>2 DEF Attempt, Preview, Statuses
  <2>4. Charged(p) \in Policy
    BY <1>2, <2>2 DEF Charged, Policy
  <2>5. [previews EXCEPT ![pid].state = "consumed"] \in [PreviewIds -> Preview]
    BY <1>1, <2>1 DEF Preview
  <2>6. new \in Handler /\ HandlerOK(new)
    BY <1>1, <2>1 DEF Handler, HandlerOK
  <2>7. /\ policy' = Charged(p) /\ previews' = [previews EXCEPT ![pid].state = "consumed"]
        /\ attempts' = [attempts EXCEPT ![minted + 1] = att] /\ minted' = minted + 1
        /\ Handling(h, new) /\ UNCHANGED world
    BY <1>8 DEF Begin
  <2> HIDE DEF att, new, p, pid
  <2>8. attempts' \in [AttemptIds -> Attempt]
    BY <1>1, <2>1, <2>3, <2>7
  <2> QED
    BY <1>1, <2>1, <2>4, <2>5, <2>6, <2>7, <2>8, HandlerStep DEF world
<1>9. CASE Post(h)
  <2> DEFINE pid == rec.preview
  <2>1. pid \in PreviewIds
    BY <1>1, <1>9 DEF Post, HandlerOK
  <2>2. PICK reply \in {"ok", "rejected", "unknown"} :
          Handling(h, [rec EXCEPT !.pc = "answered", !.reply = reply])
    BY <1>9 DEF Post
  <2> DEFINE new == [rec EXCEPT !.pc = "answered", !.reply = reply]
  <2>3. new \in Handler /\ HandlerOK(new)
    BY <1>1, <1>9 DEF Handler, HandlerOK, Post
  <2>4. exchange' \in [PreviewIds -> OrderStates \cup {"none"}] /\ wire' \subseteq PreviewIds
    <3>1. [exchange EXCEPT ![pid] = IF @ = "none" THEN "open" ELSE @]
            \in [PreviewIds -> OrderStates \cup {"none"}]
      BY <1>1, <2>1 DEF OrderStates
    <3> QED
      BY <1>1, <1>9, <2>1, <3>1 DEF Post
  <2>5. posted' \in [PreviewIds -> Nat]
    <3>1. posted' = [posted EXCEPT ![pid] = @ + 1]
      BY <1>9 DEF Post
    <3>2. posted[pid] + 1 \in Nat
      BY <1>1, <2>1
    <3> QED
      BY <1>1, <3>1, <3>2
  <2>6. UNCHANGED <<policy, previews, attempts, minted>>
    BY <1>9 DEF Post, ledger
  <2> HIDE DEF new
  <2>7. Handling(h, new)
    BY <2>2 DEF new
  <2> QED
    BY <1>1, <2>3, <2>4, <2>5, <2>6, <2>7, HandlerStep
<1>10. CASE Mark(h)
  <2>1. rec.attempt \in AttemptIds
    BY <1>1, <1>10 DEF Mark, HandlerOK
  <2>2. policy' \in Policy /\ attempts' \in [AttemptIds -> Attempt]
    <3>1. "submitted" \in Statuses /\ "rejected" \in Statuses
      BY DEF Statuses
    <3> QED
      BY <1>1, <1>10, <2>1, <3>1, AttemptTypes DEF Mark
  <2> QED
    BY <1>1, <1>10, <2>2, IdleTypes, HandlerStep DEF Mark, world
<1>11. CASE MarkFails(h)
  <2> DEFINE new == [rec EXCEPT !.reply = "unknown"]
  <2>1. new \in Handler /\ HandlerOK(new)
    BY <1>1 DEF Handler, HandlerOK
  <2>2. UNCHANGED <<policy, previews, attempts, minted, world>>
    BY <1>11 DEF MarkFails, ledger
  <2> HIDE DEF new
  <2> QED
    BY <1>3, <1>11, <2>1, <2>2, IdleTypes DEF MarkFails, new
<1> QED
  BY <1>4, <1>5, <1>6, <1>7, <1>8, <1>9, <1>10, <1>11 DEF Submission

\* A step of one synchronisation.
LEMMA SyncerStep ==
    ASSUME TypeInv, NEW s \in Syncers, NEW rec \in Syncer, SyncerOK(rec), Syncing(s, rec),
           policy' \in Policy, previews' = previews,
           attempts' \in [AttemptIds -> Attempt], minted' = minted,
           executed' \in [day : 0..MaxDay, keys : SUBSET (StepKeys \cup {None})],
           UNCHANGED world
    PROVE  TypeInv'
<1>1. /\ syncer' = [syncer EXCEPT ![s] = rec]
      /\ UNCHANGED <<up, locked, day, cred, unbound, replaced, halted, registrations, handler>>
      /\ UNCHANGED <<wire, exchange, posted>>
  BY DEF Syncing, environment, world
<1>2. syncer' \in [Syncers -> Syncer] /\ \A q \in Syncers : SyncerOK(syncer'[q])
  BY <1>1 DEF TypeInv, TypeOK
<1> QED
  BY <1>1, <1>2 DEF TypeInv, TypeOK

LEMMA AfterAttemptTypes ==
    ASSUME NEW rec \in Syncer
    PROVE  AfterAttempt(rec) \in Syncer /\ SyncerOK(AfterAttempt(rec))
BY ZenonT(60), IdleTypes DEF AfterAttempt, Syncer, SyncerOK

LEMMA SyncTypes ==
    ASSUME TypeInv, NEW s \in Syncers, Sync(s)
    PROVE  TypeInv'
<1> DEFINE rec == syncer[s]
           a == First(rec.todo)
<1>1. /\ rec \in Syncer /\ SyncerOK(rec) /\ policy \in Policy
      /\ attempts \in [AttemptIds -> Attempt] /\ exchange \in [PreviewIds -> OrderStates \cup {"none"}]
      /\ executed \in [day : 0..MaxDay, keys : SUBSET (StepKeys \cup {None})]
  BY DEF TypeInv, TypeOK
<1>2. rec.pc \in {"lookup", "apply", "step", "miss"} => a \in AttemptIds
  BY <1>1, FirstIsMember DEF Syncer, SyncerOK
<1>3. AfterAttempt(rec) \in Syncer /\ SyncerOK(AfterAttempt(rec))
  BY <1>1, AfterAttemptTypes
<1> HIDE DEF a
<1>4. ASSUME NEW new \in Syncer, SyncerOK(new), Syncing(s, new),
             UNCHANGED <<ledger, minted, executed, world>>
      PROVE  TypeInv'
  BY <1>1, <1>4, SyncerStep DEF ledger
<1>5. CASE SyncStart(s)
  <2> DEFINE todo == {b \in AttemptIds : Pending(b)}
             pending == {b \in todo : attempts[b].status = "submission_pending"}
             proof == [IdleSyncer EXCEPT !.pc = "proof"]
             begin == [IdleSyncer EXCEPT !.pc = "lookup", !.todo = todo, !.pending = pending]
  <2>1. todo \subseteq AttemptIds /\ pending \subseteq AttemptIds
    OBVIOUS
  <2>2. Syncing(s, proof) \/ (todo # {} /\ Syncing(s, begin))
    BY <1>5 DEF SyncStart
  <2> HIDE DEF todo, pending
  <2>3. proof \in Syncer /\ SyncerOK(proof)
    BY IdleTypes DEF Syncer, SyncerOK
  <2>4. begin \in Syncer /\ (todo # {} => SyncerOK(begin))
    BY <2>1, IdleTypes DEF Syncer, SyncerOK
  <2> HIDE DEF proof, begin
  <2> QED
    BY <1>4, <1>5, <2>2, <2>3, <2>4 DEF SyncStart
<1>6. CASE ReconcileStart(s)
  <2> DEFINE unknown == {b \in AttemptIds : attempts[b].status = "unknown"}
             begin == [IdleSyncer EXCEPT !.pc = "lookup", !.todo = {First(unknown)}, !.single = TRUE]
  <2>1. unknown # {} /\ Syncing(s, begin)
    BY <1>6 DEF ReconcileStart
  <2>2. First(unknown) \in AttemptIds
    BY <2>1, FirstIsMember
  <2> HIDE DEF unknown
  <2>3. begin \in Syncer /\ SyncerOK(begin)
    BY <2>2, IdleTypes DEF Syncer, SyncerOK
  <2> HIDE DEF begin
  <2> QED
    BY <1>4, <1>6, <2>1, <2>3 DEF ReconcileStart
<1>7. CASE Lookup(s)
  <2> DEFINE pid == attempts[a].preview
             state == IF pid = None THEN "none" ELSE exchange[pid]
             hit == [rec EXCEPT !.pc = "apply", !.found = state]
             miss == [rec EXCEPT !.pc = "miss"]
  <2>1. (state # "none" /\ Syncing(s, hit)) \/ Syncing(s, miss)
    BY <1>7 DEF Lookup, a
  <2>2. a \in AttemptIds /\ rec.todo # {}
    BY <1>1, <1>2, <1>7 DEF Lookup, SyncerOK
  <2>3. state # "none" => state \in OrderStates
    BY <1>1, <2>2 DEF Attempt
  <2> HIDE DEF state
  <2>4. miss \in Syncer /\ SyncerOK(miss)
    BY <1>1, <2>2 DEF Syncer, SyncerOK
  <2>5. state # "none" => hit \in Syncer /\ SyncerOK(hit)
    BY <1>1, <2>2, <2>3 DEF Syncer, SyncerOK
  <2> HIDE DEF hit, miss
  <2> QED
    BY <1>4, <1>7, <2>1, <2>4, <2>5 DEF Lookup
<1>8. CASE Apply(s)
  <2> DEFINE miss == [rec EXCEPT !.pc = "miss"]
             step == [rec EXCEPT !.pc = "step"]
  <2>1. a \in AttemptIds /\ rec.todo # {} /\ rec.found \in OrderStates
    BY <1>1, <1>2, <1>8 DEF Apply, SyncerOK
  <2>2. miss \in Syncer /\ SyncerOK(miss) /\ step \in Syncer /\ SyncerOK(step)
    BY <1>1, <2>1 DEF Syncer, SyncerOK
  <2>3. PICK new \in {miss, step, AfterAttempt(rec)} : Syncing(s, new)
    BY <1>8 DEF Apply, a
  <2>4. policy' \in Policy /\ attempts' \in [AttemptIds -> Attempt]
    <3>1. CASE Reconciled(a, rec.found)
      <4>1. rec.found \in Statuses
        BY <2>1 DEF Statuses
      <4>2. policy' \in Policy
        <5>1. ASSUME NEW c \in Nat, NEW k \in {0} \cup AttemptIds
              PROVE  [policy EXCEPT !.lock = k, !.confirmed = c] \in Policy
          BY <1>1 DEF Policy
        <5>2. /\ \A n \in {0, 1} : policy.confirmed + n \in Nat
              /\ policy.lock \in {0} \cup AttemptIds
          BY <1>1 DEF Policy
        <5>3. PICK n \in {0, 1} : policy' = [policy EXCEPT !.lock = IF @ = a THEN 0 ELSE @,
                                                           !.confirmed = @ + n]
          BY <3>1 DEF Reconciled
        <5> QED
          BY <5>1, <5>2, <5>3
      <4> QED
        BY <1>1, <2>1, <3>1, <4>1, <4>2, AttemptTypes DEF Reconciled
    <3>2. CASE UNCHANGED <<policy, attempts>>
      BY <1>1, <3>2
    <3> QED
      BY <1>8, <3>1, <3>2 DEF Apply, a
  <2>5. UNCHANGED <<previews, minted, executed, world>>
    BY <1>8 DEF Apply
  <2> HIDE DEF miss, step
  <2> QED
    BY <1>1, <1>3, <2>2, <2>3, <2>4, <2>5, SyncerStep
<1>9. CASE RecordStep(s)
  <2> DEFINE miss == [rec EXCEPT !.pc = "miss"]
  <2>1. a \in AttemptIds /\ rec.todo # {}
    BY <1>1, <1>2, <1>9 DEF RecordStep, SyncerOK
  <2>2. miss \in Syncer /\ SyncerOK(miss)
    BY <1>1, <2>1 DEF Syncer, SyncerOK
  <2>3. PICK new \in {miss, AfterAttempt(rec)} : Syncing(s, new)
    BY <1>9 DEF RecordStep
  <2>4. executed' \in [day : 0..MaxDay, keys : SUBSET (StepKeys \cup {None})]
    <3>1. attempts[a].key \in StepKeys \cup {None} /\ attempts[a].day \in 0..MaxDay
      BY <1>1, <2>1 DEF Attempt
    <3> QED
      BY <1>1, <1>9, <3>1 DEF RecordStep, StepRecorded, a
  <2>5. UNCHANGED <<policy, previews, attempts, minted, world>>
    BY <1>9 DEF RecordStep, ledger
  <2> HIDE DEF miss
  <2> QED
    BY <1>1, <1>3, <2>2, <2>3, <2>4, <2>5, SyncerStep
<1>10. CASE Miss(s)
  <2>1. a \in AttemptIds
    BY <1>2, <1>10 DEF Miss
  <2>2. policy' \in Policy /\ attempts' \in [AttemptIds -> Attempt]
    BY <1>1, <1>10, <2>1, AttemptTypes DEF Miss, a
  <2>3. UNCHANGED <<previews, minted, executed, world>> /\ Syncing(s, AfterAttempt(rec))
    BY <1>10 DEF Miss
  <2> QED
    BY <1>1, <1>3, <2>2, <2>3, SyncerStep
<1>11. CASE SyncEnd(s)
  <2> DEFINE proof == [IdleSyncer EXCEPT !.pc = "proof"]
  <2>1. proof \in Syncer /\ SyncerOK(proof)
    BY IdleTypes DEF Syncer, SyncerOK
  <2> HIDE DEF proof
  <2>2. PICK new \in {proof, IdleSyncer} : Syncing(s, new)
    BY <1>11 DEF SyncEnd, proof
  <2> QED
    BY <1>4, <1>11, <2>1, <2>2, IdleTypes DEF SyncEnd
<1>12. CASE RestartProof(s)
  <2>1. [policy EXCEPT !.restart = TRUE] \in Policy
    BY <1>1 DEF Policy
  <2> QED
    BY <1>1, <1>12, <2>1, IdleTypes, SyncerStep DEF RestartProof
<1> QED
  BY <1>5, <1>6, <1>7, <1>8, <1>9, <1>10, <1>11, <1>12 DEF Sync

LEMMA WorldTypes ==
    ASSUME TypeInv, World
    PROVE  TypeInv'
<1> USE DEF environment, ledger, session, world
<1>1. policy \in Policy /\ day \in 0..MaxDay /\ previews \in [PreviewIds -> Preview]
      /\ exchange \in [PreviewIds -> OrderStates \cup {"none"}]
  BY DEF TypeInv, TypeOK
<1>2. [NoPreview EXCEPT !.state = "gone"] \in Preview /\ NoPreview \in Preview
  BY IdleTypes DEF Preview
<1>3. CASE Stop
  BY <1>3, IdleTypes DEF Stop, TypeInv, TypeOK
<1>4. CASE Start
  <2>1. TogglesReset(policy) \in Policy
    BY <1>1, PolicyTypes DEF TogglesReset
  <2> QED
    BY <1>4, <2>1 DEF Start, TypeInv, TypeOK
<1>5. CASE Expire
  <2>1. previews' \in [PreviewIds -> Preview]
    BY <1>1, <1>2, <1>5 DEF Expire
  <2> QED
    BY <1>5, <2>1 DEF Expire, TypeInv, TypeOK
<1>6. CASE StoreLost
  <2>1. /\ policy' \in Policy /\ previews' \in [PreviewIds -> Preview]
        /\ attempts' \in [AttemptIds -> Attempt]
    BY <1>1, <1>2, <1>6, PolicyTypes, NoAttemptType DEF StoreLost
  <2> QED
    BY <1>6, <2>1 DEF StoreLost, TypeInv, TypeOK
<1>7. CASE Arrive \/ Settle
  <2>1. exchange' \in [PreviewIds -> OrderStates \cup {"none"}]
    BY <1>1, <1>7 DEF Arrive, Settle, OrderStates
  <2>2. wire' \subseteq PreviewIds
    BY <1>7 DEF Arrive, Settle, TypeInv, TypeOK
  <2> QED
    BY <1>7, <2>1, <2>2 DEF Arrive, Settle, TypeInv, TypeOK
<1>8. CASE NextDay
  <2>1. day' \in 0..MaxDay
    BY <1>1, <1>8, LedgerAssumption DEF NextDay
  <2> QED
    BY <1>8, <2>1 DEF NextDay, TypeInv, TypeOK
<1> QED
  BY <1>3, <1>4, <1>5, <1>6, <1>7, <1>8 DEF World

LEMMA TypesInductive == TypeInv /\ [Next]_vars => TypeInv'
<1> SUFFICES ASSUME TypeInv, [Next]_vars PROVE TypeInv'
  OBVIOUS
<1>1. CASE UNCHANGED vars
  BY <1>1 DEF vars, environment, ledger, session, world, TypeInv, TypeOK
<1> QED
  BY <1>1, UserTypes, SubmissionTypes, SyncTypes, WorldTypes DEF Next

LEMMA TypesInvariant == Spec => []TypeInv
BY InitTypes, TypesInductive, PTL DEF Spec

\* Every reachable state is well-typed: a handler that posts holds a preview and
\* an attempt, a synchronisation that asks holds an attempt to ask for, and no
\* operation of the ledger leaves the shape of the file.
THEOREM TypesHold == Spec => []TypeOK
<1>1. TypeInv => TypeOK
  BY DEF TypeInv
<1> QED
  BY <1>1, TypesInvariant, PTL

-----------------------------------------------------------------------------
(* One POST per preview.  A preview is used up in the write that precedes  *)
(* the POST, and nothing makes it open again; so two handlers about to     *)
(* post hold different previews, none of which was posted.                 *)

UsedUp(pid) == previews[pid].state \in {"consumed", "gone"}
AboutToPost(h) == handler[h].pc = "begun"

OnceInv ==
    /\ \A pid \in PreviewIds : posted[pid] = 0 \/ (posted[pid] = 1 /\ UsedUp(pid))
    /\ \A h \in Handlers : AboutToPost(h) =>
          posted[handler[h].preview] = 0 /\ UsedUp(handler[h].preview)
    /\ \A h, g \in Handlers :
          AboutToPost(h) /\ AboutToPost(g) /\ handler[h].preview = handler[g].preview => h = g

LEMMA UsedUpStays ==
    ASSUME TypeInv, [Next]_vars, NEW pid \in PreviewIds, UsedUp(pid)
    PROVE  UsedUp(pid)'
<1>1. previews \in [PreviewIds -> Preview]
  BY DEF TypeInv, TypeOK
<1>2. CASE User
  <2>1. ASSUME NEW q \in PreviewIds, NEW source, NEW key, NEW side, NEW value,
               NewPreview(q, source, key, side, value)
        PROVE  UsedUp(pid)'
    BY SMTT(60), <1>1, <2>1 DEF NewPreview, UsedUp
  <2> QED
    BY <1>2, <2>1 DEF User, SaveCredential, ClearBinding, VerifyReadiness, GiveConsent, EnableManual,
       EnableAutomation, Disable, RecordProof, ToggleHalt, ManualPreview, SetPolicy, ledger, UsedUp
<1>3. ASSUME NEW h \in Handlers, Submission(h) PROVE UsedUp(pid)'
  <2>1. CASE AutomationPreview(h)
    BY <1>1, <2>1 DEF AutomationPreview, NewPreview, UsedUp
  <2>2. CASE Begin(h)
    <3>1. previews' = [previews EXCEPT ![handler[h].preview].state = "consumed"]
      BY <2>2 DEF Begin
    <3> QED
      BY <1>1, <3>1 DEF UsedUp, Preview
  <2>3. CASE previews' = previews
    BY <2>3 DEF UsedUp
  <2> QED
    BY <1>3, <2>1, <2>2, <2>3 DEF Submission, ManualSubmit, AutomationSubmit, Abandon,
       BeginRefused, Post, Mark, MarkFails, ledger
<1>4. ASSUME NEW s \in Syncers, Sync(s) PROVE UsedUp(pid)'
  BY <1>4 DEF Sync, SyncStart, ReconcileStart, Lookup, Apply, RecordStep, Miss, SyncEnd,
     RestartProof, ledger, UsedUp
<1>5. CASE World
  <2>1. [NoPreview EXCEPT !.state = "gone"].state = "gone"
    BY DEF NoPreview
  <2>2. CASE Expire
    BY <1>1, <2>1, <2>2 DEF Expire, UsedUp
  <2>3. CASE StoreLost
    BY <1>1, <2>1, <2>3 DEF StoreLost, UsedUp
  <2>4. CASE previews' = previews
    BY <2>4 DEF UsedUp
  <2> QED
    BY <1>5, <2>2, <2>3, <2>4 DEF World, Stop, Start, Arrive, Settle, NextDay, ledger
<1>6. CASE UNCHANGED vars
  BY <1>6 DEF vars, ledger, UsedUp
<1> QED
  BY <1>2, <1>3, <1>4, <1>5, <1>6 DEF Next

\* Only Begin makes a handler ready to post, and only Post posts.
LEMMA NobodyElsePosts ==
    ASSUME TypeInv, [Next]_vars, ~ \E h \in Handlers : Begin(h) \/ Post(h)
    PROVE  /\ posted' = posted
           /\ \A h \in Handlers : AboutToPost(h)' =>
                 AboutToPost(h) /\ handler'[h].preview = handler[h].preview
<1>1. handler \in [Handlers -> Handler]
  BY DEF TypeInv, TypeOK
<1>2. CASE User
  BY <1>2 DEF User, SaveCredential, ClearBinding, VerifyReadiness, GiveConsent, EnableManual,
     EnableAutomation, Disable, RecordProof, ToggleHalt, ManualPreview, Serving, session, world,
     AboutToPost
<1>3. ASSUME NEW g \in Handlers, Submission(g)
      PROVE  /\ posted' = posted
             /\ \A h \in Handlers : AboutToPost(h)' =>
                   AboutToPost(h) /\ handler'[h].preview = handler[h].preview
  <2>1. posted' = posted
    BY <1>3 DEF Submission, ManualSubmit, AutomationSubmit, AutomationPreview, Abandon, BeginRefused,
       Mark, MarkFails, world
  <2>2. PICK rec \in Handler : handler' = [handler EXCEPT ![g] = rec] /\ rec.pc # "begun"
    <3>1. ASSUME NEW rec, Handling(g, rec), rec.pc # "begun"
          PROVE  handler' = [handler EXCEPT ![g] = rec] /\ handler'[g].pc # "begun"
      BY <1>1, <3>1 DEF Handling
    <3>2. \E rec : Handling(g, rec) /\ rec.pc # "begun"
      <4>1. IdleHandler \in Handler /\ IdleHandler.pc = "idle"
        BY IdleTypes DEF IdleHandler
      <4>2. CASE ManualSubmit(g)
        <5>1. PICK pid \in PreviewIds :
                Handling(g, [IdleHandler EXCEPT !.pc = "ready", !.preview = pid, !.cred = cred])
          BY <4>2 DEF ManualSubmit
        <5>2. [IdleHandler EXCEPT !.pc = "ready", !.preview = pid, !.cred = cred].pc = "ready"
          BY <4>1 DEF Handler
        <5> QED
          BY <5>1, <5>2
      <4>3. CASE AutomationSubmit(g)
        <5>1. PICK key \in StepKeys :
                Handling(g, [IdleHandler EXCEPT !.pc = "gated", !.source = "automation",
                                                !.key = key, !.cred = cred])
          BY <4>3 DEF AutomationSubmit
        <5>2. [IdleHandler EXCEPT !.pc = "gated", !.source = "automation",
                                  !.key = key, !.cred = cred].pc = "gated"
          BY <4>1 DEF Handler
        <5> QED
          BY <5>1, <5>2
      <4>4. CASE AutomationPreview(g)
        <5>1. \A pid : [handler[g] EXCEPT !.pc = "ready", !.preview = pid].pc = "ready"
          BY <1>1 DEF Handler
        <5>2. \/ Handling(g, IdleHandler)
              \/ \E pid \in PreviewIds :
                    Handling(g, [handler[g] EXCEPT !.pc = "ready", !.preview = pid])
          BY <4>4 DEF AutomationPreview
        <5> QED
          BY <4>1, <5>1, <5>2
      <4>5. CASE Abandon(g) \/ BeginRefused(g) \/ Mark(g)
        BY <4>1, <4>5 DEF Abandon, BeginRefused, Mark
      <4>6. CASE MarkFails(g)
        <5>1. [handler[g] EXCEPT !.reply = "unknown"].pc # "begun"
          BY <1>1, <4>6 DEF MarkFails, Handler
        <5> QED
          BY <4>1, <4>6, <5>1 DEF MarkFails
      <4> QED
        BY <1>3, <4>2, <4>3, <4>4, <4>5, <4>6 DEF Submission
    <3>3. handler' \in [Handlers -> Handler]
      BY TypesInductive DEF TypeInv, TypeOK
    <3> QED
      BY <1>1, <3>1, <3>2, <3>3
  <2> QED
    BY SMTT(60), <1>1, <2>1, <2>2 DEF AboutToPost
<1>4. ASSUME NEW s \in Syncers, Sync(s)
      PROVE  posted' = posted /\ handler' = handler
  BY <1>4 DEF Sync, SyncStart, ReconcileStart, Lookup, Apply, RecordStep, Miss, SyncEnd,
     RestartProof, Syncing, world
<1>5. CASE World
  <2>1. CASE Stop
    BY <2>1 DEF Stop, world, IdleHandler, AboutToPost
  <2> QED
    BY <1>5, <2>1 DEF World, Start, Expire, StoreLost, Arrive, Settle, NextDay, session, world,
       AboutToPost
<1>6. CASE UNCHANGED vars
  BY <1>6 DEF vars, session, world, AboutToPost
<1> QED
  BY <1>2, <1>3, <1>4, <1>5, <1>6 DEF Next, AboutToPost

LEMMA OnceInductive == TypeInv /\ OnceInv /\ [Next]_vars => OnceInv'
<1> SUFFICES ASSUME TypeInv, OnceInv, [Next]_vars PROVE OnceInv'
  OBVIOUS
<1>1. /\ handler \in [Handlers -> Handler] /\ previews \in [PreviewIds -> Preview]
      /\ posted \in [PreviewIds -> Nat] /\ \A h \in Handlers : HandlerOK(handler[h])
  BY DEF TypeInv, TypeOK
<1>2. \A h \in Handlers : AboutToPost(h) => handler[h].preview \in PreviewIds
  BY <1>1 DEF AboutToPost, HandlerOK
<1>3. \A pid \in PreviewIds : UsedUp(pid) => UsedUp(pid)'
  BY UsedUpStays
<1>4. ASSUME NEW h \in Handlers, Begin(h) PROVE OnceInv'
  <2> DEFINE pid == handler[h].preview
             new == [handler[h] EXCEPT !.pc = "begun", !.attempt = minted + 1]
  <2>1. /\ handler' = [handler EXCEPT ![h] = new] /\ posted' = posted
        /\ previews[pid].state = "open"
        /\ previews' = [previews EXCEPT ![pid].state = "consumed"]
    BY <1>4 DEF Begin, Begins, Handling, world
  <2>2. pid \in PreviewIds /\ new.preview = pid
    BY <1>1, <1>4 DEF Begin, HandlerOK, Handler
  <2>3. UsedUp(pid)' /\ posted[pid] = 0
    BY <1>1, <2>1, <2>2 DEF OnceInv, UsedUp, Preview
  <2>4. \A g \in Handlers : AboutToPost(g) => handler[g].preview # pid
    BY <2>1 DEF OnceInv, UsedUp
  <2>5. \A g \in Handlers : g # h => handler'[g] = handler[g]
    BY <1>1, <2>1
  <2>6. handler'[h].preview = pid
    BY <1>1, <2>1, <2>2
  <2> QED
    BY <1>2, <1>3, <2>1, <2>2, <2>3, <2>4, <2>5, <2>6 DEF OnceInv, AboutToPost
<1>5. ASSUME NEW h \in Handlers, Post(h) PROVE OnceInv'
  <2> DEFINE pid == handler[h].preview
  <2>1. AboutToPost(h) /\ posted' = [posted EXCEPT ![pid] = @ + 1]
    BY <1>5 DEF Post, AboutToPost
  <2>2. PICK rec : handler' = [handler EXCEPT ![h] = rec] /\ rec.pc = "answered"
    BY <1>1, <1>5 DEF Post, Handling, Handler
  <2>3. /\ \A g \in Handlers : AboutToPost(g)' => g # h /\ AboutToPost(g) /\ handler'[g] = handler[g]
    BY <1>1, <2>2 DEF AboutToPost
  <2>4. posted[pid] = 0 /\ UsedUp(pid) /\ pid \in PreviewIds
    BY <1>2, <2>1 DEF OnceInv
  <2>5. posted'[pid] = 1 /\ \A q \in PreviewIds : q # pid => posted'[q] = posted[q]
    BY <1>1, <2>1, <2>4
  <2>6. \A g \in Handlers : AboutToPost(g)' => handler[g].preview # pid
    BY <2>1, <2>3 DEF OnceInv
  <2> QED
    BY <1>2, <1>3, <2>3, <2>4, <2>5, <2>6 DEF OnceInv
<1>6. CASE ~ \E h \in Handlers : Begin(h) \/ Post(h)
  BY <1>2, <1>3, <1>6, NobodyElsePosts DEF OnceInv
<1> QED
  BY <1>4, <1>5, <1>6

\* The order of a preview is posted at most once, however many handlers submit
\* it at the same time, crash or lose the file: consumedAt is written before
\* the POST and never taken back (beginLocalCryptoOrderSubmission).
THEOREM PreviewsPostOnce == Spec => []OnePostPerPreview
<1>1. Init => OnceInv
  BY IdleTypes DEF Init, OnceInv, AboutToPost, IdleHandler
<1>2. OnceInv => OnePostPerPreview
  BY DEF OnceInv, OnePostPerPreview
<1> QED
  BY <1>1, <1>2, OnceInductive, TypesInvariant, PTL DEF Spec

-----------------------------------------------------------------------------
(* The toggles.  Every operation but the two that enable leaves them       *)
(* closed, or no more open than they were and as well founded.             *)

Closes ==
    /\ policy'.manual => policy.manual
    /\ policy'.auto => /\ policy.auto
                       /\ policy'.binding = policy.binding
                       /\ policy.consent => policy'.consent
                       /\ policy'.confirmed >= policy.confirmed
                       /\ policy.restart => policy'.restart
                       /\ policy.kill => policy'.kill
    /\ policy'.lock # 0 => \/ policy'.lock = policy.lock
                           \/ ~policy'.manual /\ ~policy'.auto

LEMMA UnchangedCloses ==
    ASSUME TypeInv, policy' = policy
    PROVE  Closes
<1>1. policy \in Policy
  BY DEF TypeInv, TypeOK
<1>2. policy.confirmed >= policy.confirmed
  BY <1>1 DEF Policy
<1> QED
  BY <1>2 DEF Closes

LEMMA TodayKeeps ==
    ASSUME NEW pol \in Policy
    PROVE  /\ Today(pol).manual = pol.manual /\ Today(pol).auto = pol.auto
           /\ Today(pol).binding = pol.binding /\ Today(pol).consent = pol.consent
           /\ Today(pol).confirmed = pol.confirmed /\ Today(pol).restart = pol.restart
           /\ Today(pol).kill = pol.kill /\ Today(pol).lock = pol.lock
BY DEF Today, Policy

LEMMA MarkingCloses ==
    ASSUME TypeInv, NEW a \in AttemptIds,
           MarkedUnknown(a) \/ \E state : Reconciled(a, state)
    PROVE  Closes
<1>1. policy \in Policy /\ policy.confirmed \in Nat
  BY DEF TypeInv, TypeOK, Policy
<1>2. CASE MarkedUnknown(a)
  BY <1>1, <1>2 DEF MarkedUnknown, Closes, Policy
<1>3. CASE \E state : Reconciled(a, state)
  <2>1. PICK n \in {0, 1} : policy' = [policy EXCEPT !.lock = IF @ = a THEN 0 ELSE @,
                                                     !.confirmed = @ + n]
    BY <1>3 DEF Reconciled
  <2>2. policy.confirmed + n >= policy.confirmed
    BY <1>1
  <2> QED
    BY <1>1, <2>1, <2>2 DEF Closes, Policy
<1> QED
  BY <1>2, <1>3

LEMMA OnlyEnablingOpens ==
    ASSUME TypeInv, [Next]_vars, ~ EnableManual, ~ EnableAutomation
    PROVE  Closes
<1>1. policy \in Policy /\ policy.confirmed \in Nat /\ Today(policy) \in Policy
  BY ZenonT(60), PolicyTypes DEF TypeInv, TypeOK, Policy
<1>2. ASSUME NEW d, policy' = DefaultPolicy(d) PROVE Closes
  BY <1>2 DEF DefaultPolicy, Closes
<1>3. ASSUME policy' = Today(policy) PROVE Closes
  BY <1>1, <1>3, TodayKeeps DEF Closes
<1>4. CASE User
  <2>1. CASE VerifyReadiness
    <3>1. PICK k : policy' = Bound(k)
      BY <2>1 DEF VerifyReadiness, SetPolicy
    <3>2. CASE policy.binding = k
      BY <3>1, <3>2, UnchangedCloses DEF Bound
    <3>3. CASE policy.binding # k
      BY <3>1, <3>3 DEF Bound, Unbound, DefaultPolicy, Closes
    <3> QED
      BY <3>2, <3>3
  <2>2. CASE GiveConsent \/ RecordProof
    BY <1>1, <2>2 DEF GiveConsent, RecordProof, SetPolicy, Closes, Policy
  <2>3. CASE Disable
    <3>1. CASE policy' = [Today(policy) EXCEPT !.manual = FALSE]
      BY <1>1, <3>1, TodayKeeps DEF Closes, Policy
    <3>2. CASE policy' = [policy EXCEPT !.auto = FALSE]
      BY <1>1, <3>2 DEF Closes, Policy
    <3> QED
      BY <2>3, <3>1, <3>2 DEF Disable, SetPolicy
  <2> QED
    BY <1>2, <1>3, <1>4, <2>1, <2>2, <2>3, UnchangedCloses
       DEF User, SaveCredential, ClearBinding, ToggleHalt, ManualPreview, ledger
<1>5. ASSUME NEW h \in Handlers, Submission(h) PROVE Closes
  <2>1. CASE Begin(h)
    <3>1. PICK p : policy' = Charged(p)
      BY <2>1 DEF Begin
    <3>2. /\ Charged(p).manual = Today(policy).manual /\ Charged(p).auto = Today(policy).auto
          /\ Charged(p).binding = Today(policy).binding /\ Charged(p).consent = Today(policy).consent
          /\ Charged(p).confirmed = Today(policy).confirmed /\ Charged(p).restart = Today(policy).restart
          /\ Charged(p).kill = Today(policy).kill /\ Charged(p).lock = Today(policy).lock
      BY <1>1 DEF Charged, Policy
    <3> QED
      BY <1>1, <3>1, <3>2, TodayKeeps DEF Closes
  <2>2. CASE Mark(h)
    <3>1. handler[h].attempt \in AttemptIds
      BY <2>2 DEF Mark, TypeInv, HandlerOK
    <3> QED
      BY <2>2, <3>1, MarkingCloses, UnchangedCloses DEF Mark
  <2> QED
    BY <1>3, <1>5, <2>1, <2>2, UnchangedCloses DEF Submission, ManualSubmit, AutomationSubmit,
       AutomationPreview, Abandon, BeginRefused, Post, MarkFails, ledger
<1>6. ASSUME NEW s \in Syncers, Sync(s) PROVE Closes
  <2> DEFINE a == First(syncer[s].todo)
  <2>1. syncer[s].pc \in {"apply", "miss"} => a \in AttemptIds
    BY FirstIsMember DEF TypeInv, TypeOK, Syncer, SyncerOK
  <2>2. CASE Apply(s)
    BY <2>1, <2>2, MarkingCloses, UnchangedCloses DEF Apply
  <2>3. CASE Miss(s)
    BY <2>1, <2>3, MarkingCloses, UnchangedCloses DEF Miss
  <2>4. CASE RestartProof(s)
    BY <1>1, <2>4 DEF RestartProof, Closes, Policy
  <2> QED
    BY <1>6, <2>2, <2>3, <2>4, UnchangedCloses DEF Sync, SyncStart, ReconcileStart, Lookup,
       RecordStep, SyncEnd, ledger
<1>7. CASE World
  <2>1. CASE policy' = TogglesReset(policy)
    BY <1>1, <2>1, TodayKeeps DEF TogglesReset, Closes, Policy
  <2> QED
    BY <1>2, <1>7, <2>1, UnchangedCloses DEF World, Stop, Start, Expire, StoreLost, Arrive, Settle,
       NextDay, ledger
<1>8. CASE UNCHANGED vars
  BY <1>8, UnchangedCloses DEF vars, ledger
<1> QED
  BY <1>4, <1>5, <1>6, <1>7, <1>8 DEF Next

PolicyInv == LockClosesToggles /\ AutomationEarned

LEMMA PolicyInductive == TypeInv /\ PolicyInv /\ [Next]_vars => PolicyInv'
<1> SUFFICES ASSUME TypeInv, PolicyInv, [Next]_vars PROVE PolicyInv'
  OBVIOUS
<1>1. /\ policy \in Policy /\ Today(policy) \in Policy
      /\ policy.confirmed \in Nat /\ policy'.confirmed \in Nat /\ ManualRequirement \in Nat
  BY ZenonT(60), TypesInductive, PolicyTypes, LedgerAssumption DEF TypeInv, TypeOK, Policy
<1>2. CASE EnableManual
  <2>1. policy' = [Today(policy) EXCEPT !.manual = TRUE] /\ policy.lock = 0
    BY <1>2 DEF EnableManual, SetPolicy
  <2>2. /\ policy'.lock = 0 /\ policy'.auto = policy.auto /\ policy'.binding = policy.binding
        /\ policy'.consent = policy.consent /\ policy'.confirmed = policy.confirmed
        /\ policy'.restart = policy.restart /\ policy'.kill = policy.kill
    BY <1>1, <2>1, TodayKeeps DEF Policy
  <2> QED
    BY <2>2 DEF PolicyInv, LockClosesToggles, AutomationEarned, Consented
<1>3. CASE EnableAutomation
  BY <1>1, <1>3 DEF EnableAutomation, SetPolicy, Policy, PolicyInv, LockClosesToggles,
     AutomationEarned, Consented
<1>4. CASE ~ EnableManual /\ ~ EnableAutomation
  <2>1. Closes
    BY <1>4, OnlyEnablingOpens
  <2>2. LockClosesToggles'
    BY <2>1 DEF Closes, PolicyInv, LockClosesToggles
  <2>3. AutomationEarned'
    BY <1>1, <2>1 DEF Closes, PolicyInv, AutomationEarned, Consented
  <2> QED
    BY <2>2, <2>3 DEF PolicyInv
<1> QED
  BY <1>2, <1>3, <1>4

LEMMA PolicyInvariant == Spec => []PolicyInv
<1>1. Init => PolicyInv
  BY DEF Init, DefaultPolicy, PolicyInv, LockClosesToggles, AutomationEarned
<1> QED
  BY <1>1, PolicyInductive, TypesInvariant, PTL DEF Spec

\* An exchange locked by an unknown result has both toggles off, whichever
\* handler or synchronisation set the lock and whatever the user clicked
\* meanwhile (lockUnknownSubmission, the enable operations).
THEOREM LockMeansClosed == Spec => []LockClosesToggles
<1>1. PolicyInv => LockClosesToggles
  BY DEF PolicyInv
<1> QED
  BY <1>1, PolicyInvariant, PTL

\* Automation is never on without a bound and consenting key, the confirmed
\* manual orders and both recovery proofs, also after keys were exchanged.
THEOREM AutomationIsEarned == Spec => []AutomationEarned
<1>1. PolicyInv => AutomationEarned
  BY DEF PolicyInv
<1> QED
  BY <1>1, PolicyInvariant, PTL

-----------------------------------------------------------------------------
(* A submission-locked build.  It starts with the toggles off, no route    *)
(* turns them on, and the handlers of an open build died with it.          *)

LockedInv ==
    /\ LockedBuildStaysClosed
    /\ ~up \/ locked => \A h \in Handlers : handler[h] = IdleHandler

LEMMA LockedInductive == TypeInv /\ LockedInv /\ [Next]_vars => LockedInv'
<1> SUFFICES ASSUME TypeInv, LockedInv, [Next]_vars PROVE LockedInv'
  OBVIOUS
<1>1. /\ policy \in Policy /\ Today(policy) \in Policy
      /\ up \in BOOLEAN /\ locked \in BOOLEAN
  BY PolicyTypes DEF TypeInv, TypeOK
<1>2. CASE EnableManual \/ EnableAutomation
  BY <1>2 DEF EnableManual, EnableAutomation, LiveSubmissionEnabled, Serving, session, LockedInv,
     LockedBuildStaysClosed
<1>3. CASE ~ EnableManual /\ ~ EnableAutomation
  <2>1. Closes
    BY <1>3, OnlyEnablingOpens
  <2>2. CASE UNCHANGED <<up, locked, handler>>
    BY <2>1, <2>2 DEF Closes, LockedInv, LockedBuildStaysClosed
  <2>3. ASSUME NEW h \in Handlers, Submission(h) PROVE LockedInv'
    <3>1. up /\ UNCHANGED <<up, locked>> /\ (LiveSubmissionEnabled \/ handler[h].pc # "idle")
      BY <2>3 DEF Submission, ManualSubmit, AutomationSubmit, AutomationPreview, Abandon, Begin,
         BeginRefused, Post, Mark, MarkFails, Handling, environment
    <3>2. ~ locked
      BY <3>1 DEF LiveSubmissionEnabled, LockedInv, IdleHandler
    <3> QED
      BY SMTT(60), <3>1, <3>2 DEF LockedInv, LockedBuildStaysClosed
  <2>4. CASE Stop
    BY <2>4 DEF Stop, LockedInv, LockedBuildStaysClosed
  <2>5. CASE Start
    <3>1. locked' => ~policy'.manual /\ ~policy'.auto
      BY <1>1, <2>5 DEF Start, TogglesReset, Policy
    <3> QED
      BY <2>5, <3>1 DEF Start, session, LockedInv, LockedBuildStaysClosed
  <2>6. CASE User
    BY <2>2, <2>6 DEF User, SaveCredential, ClearBinding, VerifyReadiness, GiveConsent, EnableManual,
       EnableAutomation, Disable, RecordProof, ToggleHalt, ManualPreview, Serving, session
  <2>7. ASSUME NEW s \in Syncers, Sync(s) PROVE LockedInv'
    BY <2>2, <2>7 DEF Sync, SyncStart, ReconcileStart, Lookup, Apply, RecordStep, Miss, SyncEnd,
       RestartProof, Syncing, environment
  <2>8. CASE Expire \/ StoreLost \/ Arrive \/ Settle \/ NextDay
    BY <2>2, <2>8 DEF Expire, StoreLost, Arrive, Settle, NextDay, session, environment
  <2>9. CASE UNCHANGED vars
    BY <2>2, <2>9 DEF vars, session, environment
  <2> QED
    BY <2>3, <2>4, <2>5, <2>6, <2>7, <2>8, <2>9 DEF Next, World
<1> QED
  BY <1>2, <1>3

LEMMA LockedInvariant == Spec => []LockedInv
<1>1. Init => LockedInv
  BY DEF Init, LockedInv, LockedBuildStaysClosed
<1> QED
  BY <1>1, LockedInductive, TypesInvariant, PTL DEF Spec

\* A locked build serves with both toggles off, although its file may come
\* from an open build that had them on (resetPreReleaseLivePolicies).
THEOREM LockedStaysClosed == Spec => []LockedBuildStaysClosed
<1>1. LockedInv => LockedBuildStaysClosed
  BY DEF LockedInv
<1> QED
  BY <1>1, LockedInvariant, PTL

\* A locked build never posts an order, whatever previews, toggles, attempts
\* and pending synchronisations it inherits (PRE_RELEASE_LIVE_LOCK).
THEOREM LockedSendsNothing == Spec => LockedBuildSendsNothing
<1>1. TypeInv /\ LockedInv /\ [Next]_vars => [locked => posted' = posted]_vars
  <2> SUFFICES ASSUME TypeInv, LockedInv, Next, locked PROVE posted' = posted
    OBVIOUS
  <2>1. ASSUME NEW h \in Handlers, Begin(h) \/ Post(h) PROVE FALSE
    BY <2>1 DEF Begin, Post, LockedInv, IdleHandler
  <2> QED
    BY <2>1, NobodyElsePosts
<1> QED
  BY <1>1, LockedInvariant, TypesInvariant, PTL DEF Spec, LockedBuildSendsNothing

-----------------------------------------------------------------------------
(* The journal, as long as the file stays readable. *)

Journaled(pid) == \E a \in AttemptIds : a <= minted /\ attempts[a].preview = pid

JournalInv ==
    /\ \A pid \in PreviewIds : posted[pid] > 0 => Journaled(pid)
    /\ \A h \in Handlers : AboutToPost(h) => Journaled(handler[h].preview)

LEMMA JournalKept ==
    ASSUME ~StoreCanFail, TypeInv, [Next]_vars, NEW pid, Journaled(pid)
    PROVE  Journaled(pid)'
<1>1. PICK a \in AttemptIds : a <= minted /\ attempts[a].preview = pid
  BY DEF Journaled
<1>2. /\ attempts \in [AttemptIds -> Attempt] /\ minted \in Nat /\ a \in Nat
      /\ \A h \in Handlers : HandlerOK(handler[h])
  BY LedgerAssumption DEF TypeInv, TypeOK, AttemptIds
<1>3. \A b, x : [attempts EXCEPT ![b].status = x][a].preview = pid
  BY <1>1, <1>2 DEF Attempt
<1>4. ASSUME UNCHANGED minted,
             \/ UNCHANGED attempts
             \/ \E b, x : attempts' = [attempts EXCEPT ![b].status = x]
      PROVE  Journaled(pid)'
  <2>1. attempts'[a].preview = pid
    <3>1. CASE UNCHANGED attempts
      BY <1>1, <3>1
    <3>2. CASE \E b, x : attempts' = [attempts EXCEPT ![b].status = x]
      <4>1. PICK b, x : attempts' = [attempts EXCEPT ![b].status = x]
        BY <3>2
      <4> QED
        BY <1>3, <4>1
    <3> QED
      BY <1>4, <3>1, <3>2
  <2> QED
    BY <1>1, <1>4, <2>1 DEF Journaled
<1>5. \A b : /\ MarkedUnknown(b) => \E c, x : attempts' = [attempts EXCEPT ![c].status = x]
             /\ \A state : Reconciled(b, state) => \E c, x : attempts' = [attempts EXCEPT ![c].status = x]
  BY DEF MarkedUnknown, Reconciled
<1>6. ASSUME NEW h \in Handlers, Begin(h) PROVE Journaled(pid)'
  <2>1. minted' = minted + 1 /\ \E new : attempts' = [attempts EXCEPT ![minted + 1] = new]
    BY <1>6 DEF Begin
  <2>2. a # minted + 1 /\ a <= minted + 1
    BY <1>1, <1>2
  <2>3. attempts'[a] = attempts[a]
    BY <1>2, <2>1, <2>2
  <2> QED
    BY <1>1, <2>1, <2>2, <2>3 DEF Journaled
<1>7. ASSUME NEW h \in Handlers, Submission(h) PROVE Journaled(pid)'
  <2>1. CASE Mark(h)
    BY <1>4, <1>5, <2>1 DEF Mark
  <2> QED
    BY <1>4, <1>6, <1>7, <2>1 DEF Submission, ManualSubmit, AutomationSubmit, AutomationPreview,
       Abandon, BeginRefused, Post, MarkFails, ledger
<1>8. ASSUME NEW s \in Syncers, Sync(s) PROVE Journaled(pid)'
  <2>1. CASE Apply(s) \/ Miss(s)
    BY <1>4, <1>5, <2>1 DEF Apply, Miss
  <2> QED
    BY <1>4, <1>8, <2>1 DEF Sync, SyncStart, ReconcileStart, Lookup, RecordStep, SyncEnd,
       RestartProof, ledger
<1>9. CASE User
  BY <1>4, <1>9 DEF User, SaveCredential, ClearBinding, VerifyReadiness, GiveConsent, EnableManual,
     EnableAutomation, Disable, RecordProof, ToggleHalt, ManualPreview, SetPolicy, ledger
<1>10. CASE World
  BY <1>4, <1>10 DEF World, Stop, Start, Expire, StoreLost, Arrive, Settle, NextDay, ledger
<1>11. CASE UNCHANGED vars
  BY <1>4, <1>11 DEF vars, ledger
<1> QED
  BY <1>7, <1>8, <1>9, <1>10, <1>11 DEF Next

LEMMA JournalInductive ==
    ASSUME ~StoreCanFail
    PROVE  TypeInv /\ JournalInv /\ [Next]_vars => JournalInv'
<1> SUFFICES ASSUME TypeInv, JournalInv, [Next]_vars PROVE JournalInv'
  OBVIOUS
<1>1. /\ handler \in [Handlers -> Handler] /\ attempts \in [AttemptIds -> Attempt]
      /\ posted \in [PreviewIds -> Nat] /\ minted \in Nat
      /\ \A h \in Handlers : HandlerOK(handler[h])
  BY LedgerAssumption DEF TypeInv, TypeOK
<1>2. \A pid : Journaled(pid) => Journaled(pid)'
  BY JournalKept
<1>3. ASSUME NEW h \in Handlers, Begin(h) PROVE JournalInv'
  <2> DEFINE pid == handler[h].preview
             new == [handler[h] EXCEPT !.pc = "begun", !.attempt = minted + 1]
  <2>1. /\ handler' = [handler EXCEPT ![h] = new] /\ posted' = posted
        /\ minted' = minted + 1 /\ minted + 1 <= MaxAttempts
    BY <1>1, <1>3, LedgerAssumption DEF Begin, Handling, world
  <2>2. minted + 1 \in AttemptIds /\ attempts'[minted + 1].preview = pid
    BY <1>1, <1>3, <2>1, LedgerAssumption DEF Begin, AttemptIds
  <2>3. Journaled(pid)'
    BY <1>1, <2>1, <2>2 DEF Journaled
  <2>4. new.preview = pid
    BY <1>1 DEF Handler
  <2> QED
    BY <1>1, <1>2, <2>1, <2>3, <2>4 DEF JournalInv, AboutToPost
<1>4. ASSUME NEW h \in Handlers, Post(h) PROVE JournalInv'
  <2> DEFINE pid == handler[h].preview
  <2>1. AboutToPost(h) /\ posted' = [posted EXCEPT ![pid] = @ + 1]
    BY <1>4 DEF Post, AboutToPost
  <2>2. PICK rec : handler' = [handler EXCEPT ![h] = rec] /\ rec.pc = "answered"
    BY <1>1, <1>4 DEF Post, Handling, Handler
  <2>3. \A g \in Handlers : AboutToPost(g)' => AboutToPost(g) /\ handler'[g] = handler[g]
    BY <1>1, <2>2 DEF AboutToPost
  <2>4. \A q \in PreviewIds : q # pid => posted'[q] = posted[q]
    BY <1>1, <2>1
  <2> QED
    BY <1>2, <2>1, <2>3, <2>4 DEF JournalInv
<1>5. CASE ~ \E h \in Handlers : Begin(h) \/ Post(h)
  BY <1>2, <1>5, NobodyElsePosts DEF JournalInv
<1> QED
  BY <1>3, <1>4, <1>5

\* As long as the file stays readable, every order that was ever posted has an
\* attempt in it, whatever handler crashed or lost the answer: a restart knows
\* what to ask the exchange for (the attempt is written before the POST).
THEOREM PostsStayJournaled ==
    ASSUME ~StoreCanFail
    PROVE  Spec => []PostsAreJournaled
<1>1. Init => JournalInv
  <2> SUFFICES ASSUME Init PROVE JournalInv
    OBVIOUS
  <2>1. \A pid \in PreviewIds : posted[pid] = 0
    BY DEF Init
  <2> QED
    BY <2>1 DEF Init, JournalInv, AboutToPost, IdleHandler
<1>2. JournalInv => PostsAreJournaled
  BY DEF JournalInv, Journaled, PostsAreJournaled
<1>3. TypeInv /\ JournalInv /\ [Next]_vars => JournalInv'
  BY JournalInductive
<1> QED
  BY <1>1, <1>2, <1>3, TypesInvariant, PTL DEF Spec

-----------------------------------------------------------------------------
(* The ledger implements OrderJournal, as long as the file stays readable. *)
(* AgreeInv relates the file to the exchange: an accepted order is there,  *)
(* a refused one is not and will not be, and whoever is about to write a   *)
(* verdict has the grounds for it.                                         *)

Begun(a) == attempts[a].status # "none"
Accepted(status) == status \in {"submitted"} \cup OrderStates
Refused(pid) == exchange[pid] = "none" /\ pid \notin wire /\ posted[pid] = 1
Ended == {"filled", "cancelled"}

\* What the exchange must be like for a status to be written or kept.
Grounds(status, pid) ==
    /\ Accepted(status) => exchange[pid] # "none"
    /\ status \in Ended => exchange[pid] \in Ended
    /\ status = "rejected" => Refused(pid)

AttemptOK(a) ==
    IF Begun(a)
    THEN /\ a <= minted
         /\ attempts[a].preview \in PreviewIds /\ UsedUp(attempts[a].preview)
         /\ Grounds(attempts[a].status, attempts[a].preview)
    ELSE attempts[a].preview = None

Distinct ==
    \A a, b \in AttemptIds :
        Begun(a) /\ Begun(b) /\ attempts[a].preview = attempts[b].preview => a = b

HolderOK(h) ==
    LET a == handler[h].attempt
        pid == handler[h].preview
    IN  /\ handler[h].pc \in {"begun", "answered"} => Begun(a) /\ attempts[a].preview = pid
        /\ handler[h].pc = "begun" => attempts[a].status \in {"submission_pending", "unknown"}
        /\ handler[h].pc = "answered" =>
              /\ handler[h].reply # "none" /\ posted[pid] = 1
              /\ handler[h].reply = "ok" => exchange[pid] # "none"
              /\ handler[h].reply = "rejected" => Refused(pid)

AskerOK(s) ==
    syncer[s].pc = "apply" =>
        LET a == First(syncer[s].todo)
        IN  Begun(a) /\ Grounds(syncer[s].found, attempts[a].preview)

Reached == \A pid \in PreviewIds : exchange[pid] # "none" \/ pid \in wire => posted[pid] = 1

AgreeInv ==
    /\ \A a \in AttemptIds : AttemptOK(a)
    /\ Distinct
    /\ \A h \in Handlers : HolderOK(h)
    /\ \A s \in Syncers : AskerOK(s)
    /\ Reached

\* Writing a verdict that has its grounds.
Rewrites(a, status) ==
    /\ a \in AttemptIds /\ Begun(a)
    /\ status \in {"submitted", "unknown", "rejected"} \cup OrderStates
    /\ attempts' = [attempts EXCEPT ![a].status = status]
    /\ Grounds(status, attempts[a].preview)

\* A step that sends nothing and begins nothing: it leaves the attempts alone or
\* writes one such verdict.
Concludes ==
    /\ UNCHANGED <<minted, wire, exchange, posted>>
    /\ \A pid \in PreviewIds : UsedUp(pid) => UsedUp(pid)'
    /\ UNCHANGED attempts \/ \E a, status : Rewrites(a, status)

LEMMA ConcludesKeeps ==
    ASSUME TypeInv, OnceInv, AgreeInv, Concludes
    PROVE  /\ \A a \in AttemptIds : AttemptOK(a)'
           /\ Distinct' /\ Reached'
           /\ \A h \in Handlers : handler'[h] = handler[h] => HolderOK(h)'
           /\ \A s \in Syncers : syncer'[s] = syncer[s] => AskerOK(s)'
<1>1. /\ attempts \in [AttemptIds -> Attempt] /\ handler \in [Handlers -> Handler]
      /\ \A h \in Handlers : HandlerOK(handler[h])
      /\ UNCHANGED <<minted, wire, exchange, posted>>
  BY DEF TypeInv, TypeOK, Concludes
<1>2. CASE UNCHANGED attempts
  BY <1>1, <1>2 DEF AgreeInv, Concludes, AttemptOK, Begun, Grounds, Accepted, Refused, Distinct,
     HolderOK, AskerOK, Reached
<1>3. CASE \E a, status : Rewrites(a, status)
  <2>1. PICK a, status : Rewrites(a, status)
    BY <1>3
  <2>2. /\ a \in AttemptIds /\ Begun(a) /\ status # "none"
        /\ status \notin {"submission_pending", "none"}
        /\ \A b \in AttemptIds : /\ b # a => attempts'[b] = attempts[b]
                                 /\ attempts'[b].preview = attempts[b].preview
                                 /\ Begun(b)' = Begun(b)
        /\ attempts'[a].status = status
    BY <1>1, <2>1 DEF Rewrites, Begun, Attempt, OrderStates
  <2>3. ASSUME NEW b \in AttemptIds PROVE AttemptOK(b)'
    <3>1. CASE b = a
      BY <1>1, <2>1, <2>2, <3>1 DEF AttemptOK, AgreeInv, Rewrites, Grounds, Refused, Concludes
    <3>2. CASE b # a
      BY <1>1, <2>2, <3>2 DEF AttemptOK, AgreeInv, Grounds, Refused, Concludes
    <3> QED
      BY <3>1, <3>2
  <2>4. Distinct' /\ Reached'
    BY <1>1, <2>2 DEF AgreeInv, Distinct, Reached
  <2>5. ASSUME NEW h \in Handlers, handler'[h] = handler[h] PROVE HolderOK(h)'
    <3>1. CASE handler[h].pc \in {"begun", "answered"}
      <4>1. /\ handler[h].attempt \in AttemptIds /\ HolderOK(h) /\ handler[h].preview \in PreviewIds
        BY <1>1, <3>1 DEF HandlerOK, AgreeInv
      <4>2. Begun(handler[h].attempt)' /\ attempts'[handler[h].attempt].preview = handler[h].preview
        BY <2>2, <2>5, <3>1, <4>1 DEF HolderOK, Begun
      <4>3. ASSUME handler[h].pc = "begun"
            PROVE  attempts'[handler[h].attempt].status \in {"submission_pending", "unknown"}
        <5>1. posted[handler[h].preview] = 0
          BY <4>3 DEF OnceInv, AboutToPost
        <5>2. CASE handler[h].attempt = a
          <6>1. attempts[a].preview = handler[h].preview
            BY <3>1, <4>1, <5>2 DEF HolderOK
          <6>2. ~ Accepted(status) /\ status # "rejected"
            BY <2>1, <4>1, <5>1, <6>1 DEF Rewrites, Grounds, Refused, AgreeInv, Reached
          <6> QED
            BY <2>1, <2>2, <5>2, <6>2 DEF Rewrites, Accepted
        <5>3. CASE handler[h].attempt # a
          BY <2>2, <4>1, <4>3, <5>3 DEF HolderOK
        <5> QED
          BY <5>2, <5>3
      <4> QED
        BY <1>1, <2>5, <4>1, <4>2, <4>3 DEF HolderOK, Refused
    <3>2. CASE handler[h].pc \notin {"begun", "answered"}
      BY <2>5, <3>2 DEF HolderOK
    <3> QED
      BY <3>1, <3>2
  <2>6. ASSUME NEW s \in Syncers, syncer'[s] = syncer[s] PROVE AskerOK(s)'
    <3>1. CASE syncer[s].pc = "apply"
      <4>1. First(syncer[s].todo) \in AttemptIds
        BY <3>1, FirstIsMember DEF TypeInv, TypeOK, Syncer, SyncerOK
      <4> QED
        BY <1>1, <2>2, <2>6, <3>1, <4>1 DEF AskerOK, AgreeInv, Grounds, Refused
    <3>2. CASE syncer[s].pc # "apply"
      BY <2>6, <3>2 DEF AskerOK
    <3> QED
      BY <3>1, <3>2
  <2> QED
    BY <2>3, <2>4, <2>5, <2>6
<1> QED
  BY <1>2, <1>3 DEF Concludes

\* The verdicts the program writes have their grounds.
LEMMA ConcludingSteps ==
    ASSUME ~StoreCanFail, TypeInv, OnceInv, AgreeInv, [Next]_vars
    PROVE  \/ Concludes
           \/ \E h \in Handlers : Begin(h) \/ Post(h)
           \/ Arrive \/ Settle
<1>1. /\ attempts \in [AttemptIds -> Attempt] /\ handler \in [Handlers -> Handler]
      /\ \A h \in Handlers : HandlerOK(handler[h])
      /\ \A pid \in PreviewIds : UsedUp(pid) => UsedUp(pid)'
  BY UsedUpStays DEF TypeInv, TypeOK
<1>2. CASE User
  BY <1>1, <1>2 DEF User, SaveCredential, ClearBinding, VerifyReadiness, GiveConsent, EnableManual,
     EnableAutomation, Disable, RecordProof, ToggleHalt, ManualPreview, SetPolicy, ledger, Serving,
     world, Concludes
<1>3. ASSUME NEW h \in Handlers, Submission(h), ~Begin(h), ~Post(h) PROVE Concludes
  <2>1. CASE Mark(h)
    <3> DEFINE a == handler[h].attempt
               status == CASE handler[h].reply = "unknown" -> "unknown"
                           [] handler[h].reply = "ok" -> "submitted"
                           [] OTHER -> "rejected"
    <3>1. /\ a \in AttemptIds /\ HolderOK(h) /\ handler[h].pc = "answered"
          /\ handler[h].reply \in {"none", "ok", "rejected", "unknown"}
      BY <1>1, <2>1 DEF Mark, HandlerOK, AgreeInv, Handler
    <3>2. Begun(a) /\ attempts[a].preview = handler[h].preview /\ handler[h].reply # "none"
      BY <3>1 DEF HolderOK
    <3>3. attempts' = [attempts EXCEPT ![a].status = status]
      BY <2>1, <3>1, <3>2 DEF Mark, Begun, MarkedUnknown
    <3>4. Rewrites(a, status)
      BY <3>1, <3>2, <3>3 DEF Rewrites, Grounds, Ended, Accepted, HolderOK, OrderStates
    <3> HIDE DEF a, status
    <3> QED
      BY <1>1, <2>1, <3>4 DEF Mark, world, Concludes
  <2> QED
    BY <1>1, <1>3, <2>1 DEF Submission, ManualSubmit, AutomationSubmit, AutomationPreview, Abandon,
       BeginRefused, MarkFails, ledger, world, Concludes
<1>4. ASSUME NEW s \in Syncers, Sync(s) PROVE Concludes
  <2> DEFINE a == First(syncer[s].todo)
  <2>1. syncer[s].pc \in {"apply", "miss"} => a \in AttemptIds
    BY FirstIsMember DEF TypeInv, TypeOK, Syncer, SyncerOK
  <2>2. CASE Apply(s)
    <3>1. /\ a \in AttemptIds /\ Begun(a) /\ Grounds(syncer[s].found, attempts[a].preview)
          /\ syncer[s].found \in OrderStates
      BY <2>1, <2>2 DEF Apply, AgreeInv, AskerOK, TypeInv, SyncerOK
    <3>2. attempts' = [attempts EXCEPT ![a].status = syncer[s].found]
      BY <2>2, <3>1 DEF Apply, Begun, Reconciled
    <3>3. Rewrites(a, syncer[s].found)
      BY <3>1, <3>2 DEF Rewrites, OrderStates
    <3> HIDE DEF a
    <3> QED
      BY <1>1, <2>2, <3>3 DEF Apply, world, Concludes
  <2>3. CASE Miss(s)
    <3>1. CASE attempts' = attempts
      BY <1>1, <2>3, <3>1 DEF Miss, world, Concludes
    <3>2. CASE Begun(a) /\ attempts' = [attempts EXCEPT ![a].status = "unknown"]
      <4>1. Rewrites(a, "unknown")
        BY <2>1, <2>3, <3>2 DEF Miss, Rewrites, Grounds, Ended, Accepted, OrderStates
      <4> HIDE DEF a
      <4> QED
        BY <1>1, <2>3, <4>1 DEF Miss, world, Concludes
    <3> QED
      BY <2>3, <3>1, <3>2 DEF Miss, MarkedUnknown, Begun
  <2> QED
    BY <1>1, <1>4, <2>2, <2>3 DEF Sync, SyncStart, ReconcileStart, Lookup, RecordStep, SyncEnd,
       RestartProof, ledger, world, Concludes
<1>5. CASE Stop \/ Start \/ Expire \/ NextDay
  BY <1>1, <1>5 DEF Stop, Start, Expire, NextDay, ledger, world, Concludes
<1>6. CASE UNCHANGED vars
  BY <1>1, <1>6 DEF vars, ledger, world, Concludes
<1>7. ~StoreLost
  BY DEF StoreLost
<1> QED
  BY <1>2, <1>3, <1>4, <1>5, <1>6, <1>7 DEF Next, World

\* A handler is unchanged, not yet past begin, or has an ok turned into unknown; a
\* synchronisation is unchanged, away from a verdict, or has found the order.
LEMMA SessionSteps ==
    ASSUME TypeInv, [Next]_vars, ~ \E h \in Handlers : Begin(h) \/ Post(h)
    PROVE  /\ \A h \in Handlers :
                 \/ handler'[h] = handler[h]
                 \/ handler'[h].pc \notin {"begun", "answered"}
                 \/ /\ handler'[h] = [handler[h] EXCEPT !.reply = "unknown"]
                    /\ UNCHANGED <<attempts, posted>>
           /\ \A s \in Syncers :
                 \/ syncer'[s] = syncer[s]
                 \/ syncer'[s].pc # "apply"
                 \/ /\ UNCHANGED <<attempts, exchange>>
                    /\ First(syncer'[s].todo) \in AttemptIds
                    /\ attempts[First(syncer'[s].todo)].preview # None
                    /\ exchange[attempts[First(syncer'[s].todo)].preview] # "none"
                    /\ syncer'[s].found = exchange[attempts[First(syncer'[s].todo)].preview]
<1> DEFINE HandlersMove ==
             \A h \in Handlers :
                 \/ handler'[h] = handler[h]
                 \/ handler'[h].pc \notin {"begun", "answered"}
                 \/ /\ handler'[h] = [handler[h] EXCEPT !.reply = "unknown"]
                    /\ UNCHANGED <<attempts, posted>>
           SyncersMove ==
             \A s \in Syncers :
                 \/ syncer'[s] = syncer[s]
                 \/ syncer'[s].pc # "apply"
                 \/ /\ UNCHANGED <<attempts, exchange>>
                    /\ First(syncer'[s].todo) \in AttemptIds
                    /\ attempts[First(syncer'[s].todo)].preview # None
                    /\ exchange[attempts[First(syncer'[s].todo)].preview] # "none"
                    /\ syncer'[s].found = exchange[attempts[First(syncer'[s].todo)].preview]
<1>1. handler \in [Handlers -> Handler] /\ syncer \in [Syncers -> Syncer]
  BY DEF TypeInv, TypeOK
<1>2. CASE User
  BY <1>2 DEF User, SaveCredential, ClearBinding, VerifyReadiness, GiveConsent, EnableManual,
     EnableAutomation, Disable, RecordProof, ToggleHalt, ManualPreview, Serving, session
<1>3. ASSUME NEW g \in Handlers, Submission(g) PROVE HandlersMove /\ SyncersMove
  <2>1. syncer' = syncer
    BY <1>3 DEF Submission, ManualSubmit, AutomationSubmit, AutomationPreview, Abandon, Begin,
       BeginRefused, Post, Mark, MarkFails, Handling
  <2>2. ASSUME NEW rec, Handling(g, rec) PROVE handler'[g] = rec /\ \A h \in Handlers \ {g} : handler'[h] = handler[h]
    BY <1>1, <2>2 DEF Handling
  <2>3. IdleHandler \in Handler /\ IdleHandler.pc = "idle"
    BY IdleTypes DEF IdleHandler
  <2>4. CASE ManualSubmit(g)
    <3>1. PICK pid \in PreviewIds :
            Handling(g, [IdleHandler EXCEPT !.pc = "ready", !.preview = pid, !.cred = cred])
      BY <2>4 DEF ManualSubmit
    <3>2. [IdleHandler EXCEPT !.pc = "ready", !.preview = pid, !.cred = cred].pc = "ready"
      BY <2>3 DEF Handler
    <3> QED
      BY <2>1, <2>2, <3>1, <3>2
  <2>5. CASE AutomationSubmit(g)
    <3>1. PICK key \in StepKeys :
            Handling(g, [IdleHandler EXCEPT !.pc = "gated", !.source = "automation",
                                            !.key = key, !.cred = cred])
      BY <2>5 DEF AutomationSubmit
    <3>2. [IdleHandler EXCEPT !.pc = "gated", !.source = "automation",
                              !.key = key, !.cred = cred].pc = "gated"
      BY <2>3 DEF Handler
    <3> QED
      BY <2>1, <2>2, <3>1, <3>2
  <2>6. CASE AutomationPreview(g)
    <3>1. \A pid : [handler[g] EXCEPT !.pc = "ready", !.preview = pid].pc = "ready"
      BY <1>1 DEF Handler
    <3>2. \/ Handling(g, IdleHandler)
          \/ \E pid \in PreviewIds :
                Handling(g, [handler[g] EXCEPT !.pc = "ready", !.preview = pid])
      BY <2>6 DEF AutomationPreview
    <3>3. handler'[g].pc \in {"idle", "ready"} /\ \A h \in Handlers \ {g} : handler'[h] = handler[h]
      BY <2>2, <2>3, <3>1, <3>2
    <3> QED
      BY <2>1, <3>3
  <2>7. CASE Abandon(g) \/ BeginRefused(g) \/ Mark(g)
    <3>1. Handling(g, IdleHandler)
      BY <2>7 DEF Abandon, BeginRefused, Mark
    <3> QED
      BY <2>1, <2>2, <2>3, <3>1
  <2>8. CASE MarkFails(g)
    <3>1. Handling(g, IdleHandler) \/ Handling(g, [handler[g] EXCEPT !.reply = "unknown"])
      BY <2>8 DEF MarkFails
    <3>2. UNCHANGED <<attempts, posted>>
      BY <2>8 DEF MarkFails, ledger, world
    <3>3. /\ \A h \in Handlers \ {g} : handler'[h] = handler[h]
          /\ handler'[g].pc = "idle" \/ handler'[g] = [handler[g] EXCEPT !.reply = "unknown"]
      BY <2>2, <2>3, <3>1
    <3> QED
      BY <2>1, <3>2, <3>3
  <2> QED
    BY ZenonT(60), <1>3, <2>4, <2>5, <2>6, <2>7, <2>8 DEF Submission
<1>4. ASSUME NEW s \in Syncers, Sync(s) PROVE HandlersMove /\ SyncersMove
  <2> DEFINE rec == syncer[s]
  <2>1. handler' = handler
    BY <1>4 DEF Sync, SyncStart, ReconcileStart, Lookup, Apply, RecordStep, Miss, SyncEnd,
       RestartProof, Syncing
  <2>2. ASSUME NEW new, Syncing(s, new)
        PROVE  syncer'[s] = new /\ \A q \in Syncers \ {s} : syncer'[q] = syncer[q]
    BY <1>1, <2>2 DEF Syncing
  <2>3. \A x : /\ x # "apply" => [rec EXCEPT !.pc = x].pc # "apply"
               /\ [rec EXCEPT !.pc = "apply", !.found = x].todo = rec.todo
               /\ [rec EXCEPT !.pc = "apply", !.found = x].found = x
    BY <1>1 DEF Syncer
  <2>4. IdleSyncer \in Syncer /\ IdleSyncer.pc = "idle" /\ AfterAttempt(rec).pc # "apply"
    BY <1>1, IdleTypes DEF IdleSyncer, AfterAttempt, Syncer
  <2>5. \A S, T : /\ [IdleSyncer EXCEPT !.pc = "proof"].pc # "apply"
                  /\ [IdleSyncer EXCEPT !.pc = "lookup", !.todo = S, !.pending = T].pc # "apply"
                  /\ [IdleSyncer EXCEPT !.pc = "lookup", !.todo = S, !.single = TRUE].pc # "apply"
    BY SMTT(60), <2>4 DEF Syncer
  <2>6. CASE Lookup(s)
    <3> DEFINE a == First(rec.todo)
               state == IF attempts[a].preview = None THEN "none" ELSE exchange[attempts[a].preview]
    <3>1. a \in AttemptIds
      BY <2>6, FirstIsMember DEF Lookup, TypeInv, TypeOK, Syncer, SyncerOK
    <3>2. UNCHANGED <<attempts, exchange>>
      BY <2>6 DEF Lookup, ledger, world
    <3>3. \/ state # "none" /\ Syncing(s, [rec EXCEPT !.pc = "apply", !.found = state])
          \/ Syncing(s, [rec EXCEPT !.pc = "miss"])
      BY <2>6 DEF Lookup
    <3>4. CASE state # "none" /\ Syncing(s, [rec EXCEPT !.pc = "apply", !.found = state])
      <4>1. /\ syncer'[s] = [rec EXCEPT !.pc = "apply", !.found = state]
            /\ \A q \in Syncers \ {s} : syncer'[q] = syncer[q]
        BY <2>2, <3>4
      <4>2. First(syncer'[s].todo) = a /\ syncer'[s].found = state
        BY <2>3, <4>1
      <4>3. /\ attempts[a].preview # None /\ exchange[attempts[a].preview] # "none"
            /\ state = exchange[attempts[a].preview]
        BY <3>4
      <4> QED
        BY <2>1, <3>1, <3>2, <4>1, <4>2, <4>3
    <3>5. CASE Syncing(s, [rec EXCEPT !.pc = "miss"])
      <4>1. [rec EXCEPT !.pc = "miss"].pc # "apply"
        BY <2>3
      <4>2. syncer'[s].pc # "apply" /\ \A q \in Syncers \ {s} : syncer'[q] = syncer[q]
        BY <2>2, <3>5, <4>1
      <4> QED
        BY <2>1, <4>2
    <3> QED
      BY <3>3, <3>4, <3>5
  <2>7. ASSUME NEW new, Syncing(s, new), new.pc # "apply" PROVE HandlersMove /\ SyncersMove
    BY <2>1, <2>2, <2>7
  <2>8. CASE SyncStart(s) \/ ReconcileStart(s)
    BY <2>5, <2>7, <2>8 DEF SyncStart, ReconcileStart
  <2>9. CASE Apply(s)
    BY <2>3, <2>4, <2>7, <2>9 DEF Apply
  <2>10. CASE RecordStep(s) \/ Miss(s)
    BY <2>3, <2>4, <2>7, <2>10 DEF RecordStep, Miss
  <2>11. CASE SyncEnd(s) \/ RestartProof(s)
    BY <2>4, <2>5, <2>7, <2>11 DEF SyncEnd, RestartProof
  <2> QED
    BY <1>4, <2>6, <2>8, <2>9, <2>10, <2>11 DEF Sync
<1>5. CASE World
  <2>1. CASE Stop
    <3>1. \A h \in Handlers : handler'[h].pc = "idle"
      BY <2>1 DEF Stop, IdleHandler
    <3>2. \A s \in Syncers : syncer'[s].pc = "idle"
      BY <2>1 DEF Stop, IdleSyncer
    <3> QED
      BY <3>1, <3>2
  <2> QED
    BY <1>5, <2>1 DEF World, Start, Expire, StoreLost, Arrive, Settle, NextDay, session
<1>6. CASE UNCHANGED vars
  BY <1>6 DEF vars, session
<1> QED
  BY <1>2, <1>3, <1>4, <1>5, <1>6 DEF Next

LEMMA AgreeInductive ==
    ASSUME ~StoreCanFail
    PROVE  TypeInv /\ OnceInv /\ AgreeInv /\ [Next]_vars => AgreeInv'
<1> SUFFICES ASSUME TypeInv, OnceInv, AgreeInv, [Next]_vars PROVE AgreeInv'
  OBVIOUS
<1>1. /\ attempts \in [AttemptIds -> Attempt] /\ handler \in [Handlers -> Handler]
      /\ previews \in [PreviewIds -> Preview] /\ posted \in [PreviewIds -> Nat]
      /\ exchange \in [PreviewIds -> OrderStates \cup {"none"}] /\ minted \in Nat
      /\ \A h \in Handlers : HandlerOK(handler[h])
      /\ \A pid \in PreviewIds : UsedUp(pid) => UsedUp(pid)'
  BY UsedUpStays, LedgerAssumption DEF TypeInv, TypeOK
<1>2. ASSUME NEW h \in Handlers, handler[h].pc \in {"begun", "answered"}
      PROVE  /\ handler[h].attempt \in AttemptIds /\ handler[h].preview \in PreviewIds
             /\ HolderOK(h) /\ Begun(handler[h].attempt)
             /\ attempts[handler[h].attempt].preview = handler[h].preview
  BY <1>1, <1>2 DEF HandlerOK, AgreeInv, HolderOK
<1>3. \A s \in Syncers : syncer[s].pc = "apply" =>
        First(syncer[s].todo) \in AttemptIds /\ attempts[First(syncer[s].todo)].preview \in PreviewIds
  <2> SUFFICES ASSUME NEW s \in Syncers, syncer[s].pc = "apply"
               PROVE  First(syncer[s].todo) \in AttemptIds
                      /\ attempts[First(syncer[s].todo)].preview \in PreviewIds
    OBVIOUS
  <2>1. First(syncer[s].todo) \in AttemptIds
    BY FirstIsMember DEF TypeInv, TypeOK, Syncer, SyncerOK
  <2>2. Begun(First(syncer[s].todo)) /\ AttemptOK(First(syncer[s].todo))
    BY <2>1 DEF AgreeInv, AskerOK
  <2> QED
    BY <2>1, <2>2 DEF AttemptOK
<1>4. CASE Concludes /\ ~ \E h \in Handlers : Begin(h) \/ Post(h)
  <2>1. /\ \A a \in AttemptIds : AttemptOK(a)'
        /\ Distinct' /\ Reached'
        /\ \A h \in Handlers : handler'[h] = handler[h] => HolderOK(h)'
        /\ \A s \in Syncers : syncer'[s] = syncer[s] => AskerOK(s)'
    BY <1>4, ConcludesKeeps
  <2>2. ASSUME NEW h \in Handlers PROVE HolderOK(h)'
    <3>1. CASE handler'[h].pc \notin {"begun", "answered"}
      BY <3>1 DEF HolderOK
    <3>2. CASE handler'[h] = [handler[h] EXCEPT !.reply = "unknown"] /\ UNCHANGED <<attempts, posted>>
      <4>1. /\ handler'[h].pc = handler[h].pc /\ handler'[h].attempt = handler[h].attempt
            /\ handler'[h].preview = handler[h].preview /\ handler'[h].reply = "unknown"
        BY <1>1, <3>2 DEF Handler
      <4> QED
        BY <3>2, <4>1 DEF AgreeInv, HolderOK, Begun
    <3> QED
      BY <1>4, <2>1, <3>1, <3>2, SessionSteps
  <2>3. ASSUME NEW s \in Syncers PROVE AskerOK(s)'
    <3> DEFINE a == First(syncer'[s].todo)
    <3>1. CASE /\ UNCHANGED <<attempts, exchange>>
               /\ a \in AttemptIds /\ attempts[a].preview # None
               /\ exchange[attempts[a].preview] # "none"
               /\ syncer'[s].found = exchange[attempts[a].preview]
      <4>1. Begun(a) /\ exchange[attempts[a].preview] \in OrderStates
        BY <1>1, <3>1 DEF AgreeInv, AttemptOK
      <4> QED
        BY <3>1, <4>1 DEF AskerOK, Begun, Grounds, OrderStates
    <3>2. CASE syncer'[s].pc # "apply"
      BY <3>2 DEF AskerOK
    <3> QED
      BY <1>4, <2>1, <3>1, <3>2, SessionSteps
  <2> QED
    BY <2>1, <2>2, <2>3 DEF AgreeInv
<1>5. ASSUME NEW h \in Handlers, Begin(h) PROVE AgreeInv'
  <2> DEFINE pid == handler[h].preview
             n == minted + 1
             new == [handler[h] EXCEPT !.pc = "begun", !.attempt = n]
  <2>1. /\ handler' = [handler EXCEPT ![h] = new] /\ minted' = n /\ n \in AttemptIds
        /\ previews[pid].state = "open" /\ pid \in PreviewIds
        /\ UNCHANGED <<wire, exchange, posted, syncer>>
    BY <1>1, <1>5, LedgerAssumption DEF Begin, Begins, Handling, world, AttemptIds, HandlerOK
  <2>2. /\ attempts'[n].status = "submission_pending" /\ attempts'[n].preview = pid
        /\ \A a \in AttemptIds : a # n => attempts'[a] = attempts[a]
    BY <1>1, <1>5, <2>1 DEF Begin
  <2>3. /\ ~Begun(n) /\ \A a \in AttemptIds : Begun(a) => attempts[a].preview # pid
    BY SMTT(60), <1>1, <2>1 DEF AgreeInv, AttemptOK, UsedUp, AttemptIds
  <2>4. UsedUp(pid)'
    BY <1>1, <1>5, <2>1 DEF Begin, UsedUp, Preview
  <2>5. ASSUME NEW a \in AttemptIds PROVE AttemptOK(a)'
    <3>1. CASE a = n
      BY <1>1, <2>1, <2>2, <2>4, <3>1 DEF AttemptOK, Begun, Grounds, Ended, Accepted, OrderStates
    <3>2. CASE a # n
      <4>1. a \in Nat
        BY DEF AttemptIds
      <4> QED
        BY <1>1, <2>1, <2>2, <3>2, <4>1 DEF AgreeInv, AttemptOK, Begun, Grounds, Refused
    <3> QED
      BY <3>1, <3>2
  <2>6. Distinct' /\ Reached'
    BY <2>1, <2>2, <2>3 DEF AgreeInv, Distinct, Reached, Begun
  <2>7. ASSUME NEW g \in Handlers PROVE HolderOK(g)'
    <3>1. CASE g = h
      <4>1. handler'[h].pc = "begun" /\ handler'[h].attempt = n /\ handler'[h].preview = pid
        BY <1>1, <2>1 DEF Handler
      <4> QED
        BY <2>2, <3>1, <4>1 DEF HolderOK, Begun
    <3>2. CASE g # h /\ handler[g].pc \in {"begun", "answered"}
      <4>1. handler'[g] = handler[g] /\ handler[g].attempt # n
        BY <1>1, <1>2, <2>1, <2>3, <3>2
      <4> QED
        BY <1>2, <2>1, <2>2, <3>2, <4>1 DEF HolderOK, Begun, Refused
    <3>3. CASE g # h /\ handler[g].pc \notin {"begun", "answered"}
      BY <1>1, <2>1, <3>3 DEF HolderOK
    <3> QED
      BY <3>1, <3>2, <3>3
  <2>8. ASSUME NEW s \in Syncers PROVE AskerOK(s)'
    <3>1. CASE syncer[s].pc = "apply"
      <4>1. First(syncer[s].todo) # n
        BY <2>3, <3>1 DEF AgreeInv, AskerOK
      <4> QED
        BY <1>3, <2>1, <2>2, <3>1, <4>1 DEF AgreeInv, AskerOK, Begun, Grounds, Refused
    <3>2. CASE syncer[s].pc # "apply"
      BY <2>1, <3>2 DEF AskerOK
    <3> QED
      BY <3>1, <3>2
  <2> QED
    BY <2>5, <2>6, <2>7, <2>8 DEF AgreeInv
<1>6. ASSUME NEW h \in Handlers, Post(h) PROVE AgreeInv'
  <2> DEFINE pid == handler[h].preview
  <2>1. /\ handler[h].pc = "begun" /\ pid \in PreviewIds /\ posted[pid] = 0
        /\ UNCHANGED <<attempts, minted, previews, syncer>>
        /\ posted' = [posted EXCEPT ![pid] = @ + 1]
    BY <1>1, <1>6 DEF Post, OnceInv, AboutToPost, HandlerOK, Handling, ledger
  <2>2. PICK reply \in {"ok", "rejected", "unknown"} :
          /\ Handling(h, [handler[h] EXCEPT !.pc = "answered", !.reply = reply])
          /\ reply = "ok" => exchange' = [exchange EXCEPT ![pid] = IF @ = "none" THEN "open" ELSE @]
          /\ reply = "rejected" => UNCHANGED <<wire, exchange>>
    BY <1>6 DEF Post
  <2>3. /\ wire' \in {wire, wire \cup {pid}}
        /\ exchange' \in {exchange, [exchange EXCEPT ![pid] = IF @ = "none" THEN "open" ELSE @]}
    BY <1>6 DEF Post
  <2>4. /\ posted'[pid] = 1
        /\ \A q \in PreviewIds : q # pid => /\ posted'[q] = posted[q] /\ exchange'[q] = exchange[q]
                                            /\ q \in wire' <=> q \in wire
        /\ \A q \in PreviewIds : exchange[q] # "none" => exchange'[q] = exchange[q]
    BY <1>1, <2>1, <2>3
  <2>5. exchange[pid] = "none" /\ pid \notin wire
    BY <2>1 DEF AgreeInv, Reached
  <2>6. /\ \A q \in PreviewIds : Refused(q) => q # pid /\ Refused(q)'
        /\ \A q \in PreviewIds : \A status : Grounds(status, q) => Grounds(status, q)'
    BY <2>1, <2>4 DEF Refused, Grounds, Ended
  <2>7. ASSUME NEW a \in AttemptIds PROVE AttemptOK(a)'
    BY <2>1, <2>4, <2>6 DEF AgreeInv, AttemptOK, Begun, UsedUp, Grounds, Refused
  <2>8. Distinct' /\ Reached'
    BY <2>1, <2>4 DEF AgreeInv, Distinct, Begun, Reached
  <2>9. ASSUME NEW g \in Handlers PROVE HolderOK(g)'
    <3>1. CASE g = h
      <4>1. /\ handler'[h] = [handler[h] EXCEPT !.pc = "answered", !.reply = reply]
        BY <1>1, <2>2 DEF Handling
      <4>2. /\ handler'[h].pc = "answered" /\ handler'[h].attempt = handler[h].attempt
            /\ handler'[h].preview = pid /\ handler'[h].reply = reply
        BY <1>1, <4>1 DEF Handler
      <4>3. reply = "ok" => exchange'[pid] # "none"
        BY <1>1, <2>1, <2>2, <2>5
      <4>4. reply = "rejected" => Refused(pid)'
        BY <2>1, <2>2, <2>4, <2>5, <4>2 DEF Refused
      <4>5. Begun(handler[h].attempt) /\ attempts[handler[h].attempt].preview = pid
        BY <1>2, <2>1
      <4> QED
        BY <2>1, <2>2, <2>4, <3>1, <4>2, <4>3, <4>4, <4>5 DEF HolderOK, Begun, Refused
    <3>2. CASE g # h
      <4>1. handler'[g] = handler[g]
        BY <1>1, <2>2, <3>2 DEF Handling
      <4>2. CASE handler[g].pc \in {"begun", "answered"}
        <5>1. handler[g].pc = "answered" => handler[g].preview # pid
          BY <1>2, <2>1, <4>2 DEF HolderOK
        <5> QED
          BY <1>2, <2>1, <2>4, <2>6, <4>1, <4>2, <5>1 DEF HolderOK, Begun, Refused
      <4>3. CASE handler[g].pc \notin {"begun", "answered"}
        BY <4>1, <4>3 DEF HolderOK
      <4> QED
        BY <4>2, <4>3
    <3> QED
      BY <3>1, <3>2
  <2>10. ASSUME NEW s \in Syncers PROVE AskerOK(s)'
    BY <1>3, <2>1, <2>6 DEF AgreeInv, AskerOK, Begun, Grounds, Refused
  <2> QED
    BY <2>7, <2>8, <2>9, <2>10 DEF AgreeInv
<1>7. CASE Arrive \/ Settle
  <2>1. UNCHANGED <<attempts, minted, previews, handler, syncer, posted>>
    BY <1>7 DEF Arrive, Settle, ledger, session
  <2>2. /\ \A q \in PreviewIds : exchange[q] # "none" => exchange'[q] # "none"
        /\ \A q \in PreviewIds : exchange'[q] # "none" \/ q \in wire' => exchange[q] # "none" \/ q \in wire
    BY <1>1, <1>7 DEF Arrive, Settle
  <2>3. /\ \A q \in PreviewIds : Refused(q) => Refused(q)'
        /\ \A q \in PreviewIds : \A status : Grounds(status, q) => Grounds(status, q)'
    <3>1. \A q \in PreviewIds : exchange[q] \in Ended => exchange'[q] \in Ended
      BY <1>1, <1>7 DEF Arrive, Settle, Ended
    <3> QED
      BY <2>1, <2>2, <3>1 DEF Refused, Grounds
  <2>4. ASSUME NEW a \in AttemptIds PROVE AttemptOK(a)'
    BY <2>1, <2>2, <2>3 DEF AgreeInv, AttemptOK, Begun, UsedUp, Grounds, Refused
  <2>5. Distinct' /\ Reached'
    BY <2>1, <2>2 DEF AgreeInv, Distinct, Begun, Reached
  <2>6. ASSUME NEW h \in Handlers PROVE HolderOK(h)'
    <3>1. CASE handler[h].pc \in {"begun", "answered"}
      BY <1>2, <2>1, <2>2, <2>3, <3>1 DEF HolderOK, Begun, Refused
    <3>2. CASE handler[h].pc \notin {"begun", "answered"}
      BY <2>1, <3>2 DEF HolderOK
    <3> QED
      BY <3>1, <3>2
  <2>7. ASSUME NEW s \in Syncers PROVE AskerOK(s)'
    BY <1>3, <2>1, <2>3 DEF AgreeInv, AskerOK, Begun, Grounds, Refused
  <2> QED
    BY <2>4, <2>5, <2>6, <2>7 DEF AgreeInv
<1> QED
  BY <1>4, <1>5, <1>6, <1>7, ConcludingSteps

\* The abstract journal, under names of its own.  EntryOf is JournalEntry for any
\* attempts.
EntryOf(att, pid) ==
    LET status == {att[a].status : a \in {b \in AttemptIds : att[b].preview = pid}}
    IN  CASE status = {} -> "unsent"
          [] status = {"submission_pending"} -> "pending"
          [] status = {"unknown"} -> "unclear"
          [] status = {"rejected"} -> "refused"
          [] OTHER -> "accepted"

AJournal == [pid \in PreviewIds |-> EntryOf(attempts, pid)]
ATaken == {pid \in PreviewIds : exchange[pid] # "none"}

Verdict(status) ==
    CASE status = "submission_pending" -> "pending"
      [] status = "unknown" -> "unclear"
      [] status = "rejected" -> "refused"
      [] OTHER -> "accepted"

\* The entry of a preview is that of its one attempt.
LEMMA OneEntry ==
    ASSUME NEW att, NEW a \in AttemptIds,
           \A b \in AttemptIds : att[b].preview = att[a].preview => b = a
    PROVE  EntryOf(att, att[a].preview) = Verdict(att[a].status)
<1> DEFINE pid == att[a].preview
           status == {att[b].status : b \in {c \in AttemptIds : att[c].preview = pid}}
<1>1. status = {att[a].status}
  OBVIOUS
<1>2. EntryOf(att, pid) = CASE status = {} -> "unsent"
                            [] status = {"submission_pending"} -> "pending"
                            [] status = {"unknown"} -> "unclear"
                            [] status = {"rejected"} -> "refused"
                            [] OTHER -> "accepted"
  BY DEF EntryOf
<1> HIDE DEF status, pid
<1>3. status # {} /\ \A x : status = {x} <=> att[a].status = x
  BY <1>1
<1>4. EntryOf(att, pid) = Verdict(att[a].status)
  BY <1>2, <1>3 DEF Verdict
<1> QED
  BY <1>4 DEF pid

LEMMA NoEntry ==
    ASSUME NEW att, NEW pid, \A a \in AttemptIds : att[a].preview # pid
    PROVE  EntryOf(att, pid) = "unsent"
<1>1. {a \in AttemptIds : att[a].preview = pid} = {}
  OBVIOUS
<1>2. {att[a].status : a \in {b \in AttemptIds : att[b].preview = pid}} = {}
  BY <1>1
<1> QED
  BY <1>2 DEF EntryOf

\* Attempts that are not begun or rewritten keep the entry of their preview.
LEMMA EntryKept ==
    ASSUME NEW att, NEW new, NEW pid,
           \A a \in AttemptIds : new[a] = att[a] \/ (att[a].preview # pid /\ new[a].preview # pid)
    PROVE  EntryOf(new, pid) = EntryOf(att, pid)
<1>1. {a \in AttemptIds : new[a].preview = pid} = {a \in AttemptIds : att[a].preview = pid}
  OBVIOUS
<1>2. \A a \in {b \in AttemptIds : att[b].preview = pid} : new[a].status = att[a].status
  OBVIOUS
<1>3. {new[a].status : a \in {b \in AttemptIds : new[b].preview = pid}}
        = {att[a].status : a \in {b \in AttemptIds : att[b].preview = pid}}
  BY <1>1, <1>2
<1> QED
  BY <1>3 DEF EntryOf

\* A step on the ledger or the exchange is a step of the journal or a stutter.
LEMMA StepImplements ==
    ASSUME ~StoreCanFail, TypeInv, OnceInv, AgreeInv, [Next]_vars
    PROVE  Journal!Next \/ UNCHANGED Journal!vars
<1>1. /\ attempts \in [AttemptIds -> Attempt] /\ handler \in [Handlers -> Handler]
      /\ posted \in [PreviewIds -> Nat] /\ minted \in Nat
      /\ exchange \in [PreviewIds -> OrderStates \cup {"none"}] /\ wire \subseteq PreviewIds
      /\ \A h \in Handlers : HandlerOK(handler[h])
  BY LedgerAssumption DEF TypeInv, TypeOK
<1>2. ASSUME UNCHANGED <<AJournal, posted, ATaken, wire>> PROVE UNCHANGED Journal!vars
  BY <1>2 DEF AJournal, EntryOf, JournalEntry, ATaken, Journal!vars
<1>3. ASSUME UNCHANGED attempts PROVE UNCHANGED AJournal
  BY <1>3 DEF AJournal
<1>4. CASE Concludes
  <2>1. UNCHANGED <<posted, wire, ATaken>>
    BY <1>4 DEF Concludes, ATaken
  <2>2. CASE UNCHANGED attempts
    BY <1>2, <1>3, <2>1, <2>2
  <2>3. CASE \E a, status : Rewrites(a, status)
    <3>1. PICK a, status : Rewrites(a, status)
      BY <2>3
    <3> DEFINE pid == attempts[a].preview
               verdict == Verdict(status)
    <3>2. /\ a \in AttemptIds /\ Begun(a) /\ pid \in PreviewIds
          /\ attempts'[a].status = status /\ attempts'[a].preview = pid
          /\ status \in {"submitted", "unknown", "rejected"} \cup OrderStates
          /\ \A b \in AttemptIds : b # a => attempts'[b] = attempts[b]
      BY <1>1, <3>1 DEF Rewrites, AgreeInv, AttemptOK, Attempt
    <3>3. /\ EntryOf(attempts, pid) = Verdict(attempts[a].status)
          /\ EntryOf(attempts', pid) = verdict
      <4>1. \A b \in AttemptIds : attempts[b].preview = pid => b = a
        BY <3>2, LedgerAssumption DEF AgreeInv, AttemptOK, Distinct
      <4>2. \A b \in AttemptIds : attempts'[b].preview = attempts'[a].preview => b = a
        BY <3>2, <4>1
      <4>3. EntryOf(attempts', attempts'[a].preview) = Verdict(attempts'[a].status)
        BY <3>2, <4>2, OneEntry
      <4> QED
        BY <3>2, <4>1, <4>3, OneEntry
    <3>4. \A q \in PreviewIds : q # pid => EntryOf(attempts', q) = EntryOf(attempts, q)
      <4> SUFFICES ASSUME NEW q \in PreviewIds, q # pid
                   PROVE  EntryOf(attempts', q) = EntryOf(attempts, q)
        OBVIOUS
      <4>1. \A b \in AttemptIds : attempts'[b] = attempts[b]
                                  \/ (attempts[b].preview # q /\ attempts'[b].preview # q)
        BY <3>2
      <4> QED
        BY <4>1, EntryKept
    <3>5. AJournal' = [AJournal EXCEPT ![pid] = verdict]
      <4>1. AJournal' = [q \in PreviewIds |-> EntryOf(attempts', q)]
        BY DEF AJournal
      <4> HIDE DEF verdict, pid
      <4> QED
        BY <3>2, <3>3, <3>4, <4>1 DEF AJournal
    <3>6. AJournal[pid] \notin {"unsent", "lost"} /\ verdict \in {"accepted", "refused", "unclear"}
      BY <3>2, <3>3 DEF AJournal, Verdict, OrderStates
    <3>7. verdict = "accepted" => pid \in ATaken
      BY <3>1, <3>2 DEF Verdict, Rewrites, Grounds, Accepted, ATaken, OrderStates
    <3>8. verdict = "refused" => pid \notin ATaken \cup wire
      BY <3>1, <3>2 DEF Verdict, Rewrites, Grounds, Refused, ATaken
    <3>9. PICK o \in PreviewIds : o = pid
      BY SMTT(60), <3>2
    <3>10. Journal!Conclude(o, verdict)
      BY <2>1, <3>5, <3>6, <3>7, <3>8, <3>9
         DEF Journal!Conclude, AJournal, EntryOf, JournalEntry, ATaken
    <3> QED
      BY <3>6, <3>10 DEF Journal!Next, Journal!Verdicts
  <2> QED
    BY <1>4, <2>2, <2>3 DEF Concludes
<1>5. ASSUME NEW h \in Handlers, Begin(h) PROVE Journal!Next
  <2> DEFINE n == minted + 1
  <2>1. PICK pid \in PreviewIds : pid = handler[h].preview
    BY <1>1, <1>5 DEF Begin, HandlerOK
  <2>2. /\ n \in AttemptIds /\ previews[pid].state = "open"
        /\ UNCHANGED <<wire, exchange, posted>>
    BY <1>1, <1>5, <2>1, LedgerAssumption DEF Begin, Begins, world, AttemptIds
  <2>3. /\ attempts'[n].status = "submission_pending" /\ attempts'[n].preview = pid
        /\ \A a \in AttemptIds : a # n => attempts'[a] = attempts[a]
    BY <1>1, <1>5, <2>1, <2>2 DEF Begin
  <2>4. \A a \in AttemptIds : attempts[a].preview # pid
    BY <1>1, <2>2, LedgerAssumption DEF AgreeInv, AttemptOK, UsedUp
  <2>5. attempts[n].preview = None
    BY <1>1, <2>2 DEF AgreeInv, AttemptOK, AttemptIds
  <2>6. EntryOf(attempts, pid) = "unsent"
    BY <2>4, NoEntry
  <2>7. EntryOf(attempts', pid) = "pending"
    <3>1. \A b \in AttemptIds : attempts'[b].preview = attempts'[n].preview => b = n
      BY <2>3, <2>4
    <3>2. EntryOf(attempts', attempts'[n].preview) = Verdict(attempts'[n].status)
      BY <2>2, <3>1, OneEntry
    <3> QED
      BY <2>3, <3>2 DEF Verdict
  <2>8. \A q \in PreviewIds : q # pid => EntryOf(attempts', q) = EntryOf(attempts, q)
    <3> SUFFICES ASSUME NEW q \in PreviewIds, q # pid
                 PROVE  EntryOf(attempts', q) = EntryOf(attempts, q)
      OBVIOUS
    <3>1. attempts[n].preview # q /\ attempts'[n].preview # q
      BY <2>3, <2>5, LedgerAssumption
    <3>2. \A b \in AttemptIds : attempts'[b] = attempts[b]
                                \/ (attempts[b].preview # q /\ attempts'[b].preview # q)
      BY <2>3, <3>1
    <3> QED
      BY <3>2, EntryKept
  <2>9. AJournal[pid] = "unsent" /\ AJournal' = [AJournal EXCEPT ![pid] = "pending"]
    <3>1. AJournal' = [q \in PreviewIds |-> EntryOf(attempts', q)]
      BY DEF AJournal
    <3> QED
      BY <2>6, <2>7, <2>8, <3>1 DEF AJournal
  <2>10. Journal!Journal(pid)
    BY <2>2, <2>9 DEF Journal!Journal, AJournal, EntryOf, JournalEntry
  <2> QED
    BY <2>10 DEF Journal!Next
<1>6. ASSUME NEW h \in Handlers, Post(h) PROVE Journal!Next
  <2>1. PICK pid \in PreviewIds : pid = handler[h].preview
    BY <1>1, <1>6 DEF Post, HandlerOK
  <2>2. /\ handler[h].pc = "begun" /\ posted[pid] = 0
        /\ UNCHANGED attempts
        /\ posted' = [posted EXCEPT ![pid] = 1]
    <3>1. /\ handler[h].pc = "begun" /\ UNCHANGED attempts
          /\ posted' = [posted EXCEPT ![handler[h].preview] = @ + 1]
      BY <1>6 DEF Post, ledger
    <3>2. posted[handler[h].preview] = 0
      BY <3>1 DEF OnceInv, AboutToPost
    <3> QED
      BY <2>1, <3>1, <3>2
  <2>3. AJournal' = AJournal /\ AJournal[pid] \in {"pending", "unclear"}
    <3> DEFINE a == handler[h].attempt
    <3>1. /\ a \in AttemptIds /\ Begun(a) /\ attempts[a].preview = pid
          /\ attempts[a].status \in {"submission_pending", "unknown"}
      BY <1>1, <2>1, <2>2 DEF HandlerOK, AgreeInv, HolderOK
    <3> HIDE DEF a
    <3>2. \A b \in AttemptIds : attempts[b].preview = attempts[a].preview => b = a
      BY <3>1, LedgerAssumption DEF AgreeInv, AttemptOK, Distinct
    <3>3. EntryOf(attempts, attempts[a].preview) = Verdict(attempts[a].status)
      BY <3>1, <3>2, OneEntry
    <3>4. EntryOf(attempts, pid) \in {"pending", "unclear"}
      BY <3>1, <3>3 DEF Verdict
    <3> QED
      BY <1>3, <2>2, <3>4 DEF AJournal
  <2>4. \/ ATaken' = ATaken \cup {pid} /\ UNCHANGED wire
        \/ wire' = wire \cup {pid} /\ UNCHANGED ATaken
        \/ UNCHANGED <<ATaken, wire>>
    <3>1. ASSUME exchange' = [exchange EXCEPT ![pid] = IF @ = "none" THEN "open" ELSE @]
          PROVE  ATaken' = ATaken \cup {pid}
      BY <1>1, <3>1 DEF ATaken
    <3>2. UNCHANGED exchange => UNCHANGED ATaken
      BY DEF ATaken
    <3> QED
      BY <1>6, <2>1, <3>1, <3>2 DEF Post
  <2>5. Journal!Send(pid)
    BY <2>2, <2>3, <2>4 DEF Journal!Send, AJournal, EntryOf, JournalEntry, ATaken
  <2> QED
    BY <2>5 DEF Journal!Next
<1>7. CASE Arrive
  <2>1. PICK pid \in wire :
          /\ wire' = wire \ {pid}
          /\ exchange' = [exchange EXCEPT ![pid] = IF @ = "none" THEN "open" ELSE @]
    BY <1>7 DEF Arrive
  <2>2. UNCHANGED <<AJournal, posted>>
    BY <1>3, <1>7 DEF Arrive, ledger
  <2>3. ATaken' = ATaken \cup {pid}
    BY <1>1, <2>1 DEF ATaken
  <2>4. Journal!Arrive(pid)
    BY <2>1, <2>2, <2>3 DEF Journal!Arrive, AJournal, EntryOf, JournalEntry, ATaken
  <2> QED
    BY <1>1, <2>1, <2>4 DEF Journal!Next
<1>8. CASE Settle
  <2>1. UNCHANGED <<AJournal, posted, wire>>
    BY <1>3, <1>8 DEF Settle, ledger
  <2>2. UNCHANGED ATaken
    BY <1>1, <1>8 DEF Settle, ATaken
  <2> QED
    BY <1>2, <2>1, <2>2
<1> QED
  BY <1>4, <1>5, <1>6, <1>7, <1>8, ConcludingSteps

\* As long as the file stays readable the ledger implements OrderJournal for any
\* number of handlers, synchronisations, crashes and late requests: an order is
\* written down before it is sent, sent once, and no verdict, whoever writes it
\* last, is one the exchange contradicts.
THEOREM LedgerImplementsJournal ==
    ASSUME ~StoreCanFail
    PROVE  Spec => ImplementsJournal
<1>1. Init => Journal!Init
  <2> SUFFICES ASSUME Init PROVE Journal!Init
    OBVIOUS
  <2>1. \A pid \in PreviewIds : JournalEntry(pid) = "unsent"
    <3> SUFFICES ASSUME NEW pid \in PreviewIds PROVE JournalEntry(pid) = "unsent"
      OBVIOUS
    <3>1. {a \in AttemptIds : attempts[a].preview = pid} = {}
      BY LedgerAssumption DEF Init, NoAttempt
    <3>2. {attempts[a].status : a \in {b \in AttemptIds : attempts[b].preview = pid}} = {}
      BY <3>1
    <3> QED
      BY <3>2 DEF JournalEntry
  <2> QED
    BY <2>1 DEF Init, Journal!Init
<1>2. Init => OnceInv /\ AgreeInv
  <2> SUFFICES ASSUME Init PROVE OnceInv /\ AgreeInv
    OBVIOUS
  <2>1. OnceInv
    BY IdleTypes DEF Init, OnceInv, AboutToPost, IdleHandler
  <2>2. AgreeInv
    BY DEF Init, AgreeInv, AttemptOK, Begun, Distinct, HolderOK, AskerOK, Reached, NoAttempt,
       IdleHandler, IdleSyncer
  <2> QED
    BY <2>1, <2>2
<1>3. TypeInv /\ OnceInv /\ AgreeInv /\ [Next]_vars => OnceInv' /\ AgreeInv'
  BY OnceInductive, AgreeInductive
<1>4. TypeInv /\ OnceInv /\ AgreeInv /\ [Next]_vars => [Journal!Next]_(Journal!vars)
  BY StepImplements
<1> QED
  BY <1>1, <1>2, <1>3, <1>4, TypesInvariant, PTL DEF Spec, ImplementsJournal, Journal!Spec

-----------------------------------------------------------------------------
(* One order of a step at a time.  An attempt is at large while the exchange *)
(* may still fill its order; KeyInv says that no two attempts at large are   *)
(* of one step, and that none is of the step a handler is about to begin.    *)

AtLarge(a) ==
    /\ Begun(a)
    /\ exchange[attempts[a].preview] \notin Ended
    /\ ~Refused(attempts[a].preview)

KeyFree(key) == \A a \in AttemptIds : AtLarge(a) => attempts[a].key # key

KeyInv ==
    /\ \A pid \in PreviewIds : previews[pid].source = "manual" => previews[pid].key = None
    /\ \A h \in Handlers :
          handler[h].pc = "ready" =>
              previews[handler[h].preview].key = None \/ KeyFree(previews[handler[h].preview].key)
    /\ \A a \in AttemptIds : ~Begun(a) => attempts[a].key = None
    /\ \A a, b \in AttemptIds :
          AtLarge(a) /\ AtLarge(b) /\ attempts[a].key # None /\ attempts[a].key = attempts[b].key
          => a = b

\* A step that is not busy has no attempt at large: an attempt leaves the pending
\* statuses only with the exchange's word.
LEMMA NotBusyIsFree ==
    ASSUME TypeInv, AgreeInv, NEW key, ~StepBusy(key)
    PROVE  KeyFree(key)
<1> SUFFICES ASSUME NEW a \in AttemptIds, AtLarge(a) PROVE Pending(a)
  BY DEF KeyFree, StepBusy
<1>1. attempts[a].status \in Statuses \cup {"none"}
  BY DEF TypeInv, TypeOK, Attempt
<1>2. Grounds(attempts[a].status, attempts[a].preview)
  BY DEF AtLarge, AgreeInv, AttemptOK
<1> QED
  BY <1>1, <1>2 DEF AtLarge, Begun, Grounds, Ended, Pending, PendingStatuses, Statuses, OrderStates

\* What ended or was refused stays so, and only Begin puts an attempt at large.
LEMMA LargeShrinks ==
    ASSUME ~StoreCanFail, TypeInv, OnceInv, AgreeInv, [Next]_vars, NEW a \in AttemptIds,
           a # minted + 1 \/ ~ \E h \in Handlers : Begin(h)
    PROVE  /\ AtLarge(a)' => AtLarge(a)
           /\ Begun(a)' = Begun(a) /\ attempts'[a].key = attempts[a].key
<1>1. /\ attempts \in [AttemptIds -> Attempt]
      /\ exchange \in [PreviewIds -> OrderStates \cup {"none"}] /\ wire \subseteq PreviewIds
      /\ posted \in [PreviewIds -> Nat]
      /\ \A h \in Handlers : HandlerOK(handler[h])
      /\ Begun(a) => attempts[a].preview \in PreviewIds
  BY DEF TypeInv, TypeOK, AgreeInv, AttemptOK
<1>2. CASE Concludes
  <2>1. CASE UNCHANGED attempts
    BY <1>2, <2>1 DEF Concludes, AtLarge, Begun, Refused
  <2>2. CASE \E b, status : Rewrites(b, status)
    <3>1. PICK b, status : Rewrites(b, status)
      BY <2>2
    <3>2. /\ attempts'[a].preview = attempts[a].preview /\ attempts'[a].key = attempts[a].key
          /\ Begun(a)' = Begun(a)
      BY SMTT(60), <1>1, <3>1 DEF Rewrites, Begun, Attempt, OrderStates
    <3> QED
      BY <1>2, <3>2 DEF Concludes, AtLarge, Refused
  <2> QED
    BY <1>2, <2>1, <2>2 DEF Concludes
<1>3. ASSUME NEW h \in Handlers, Begin(h) PROVE UNCHANGED <<attempts[a], exchange, wire, posted>>
  BY <1>1, <1>3 DEF Begin, world
<1>4. ASSUME UNCHANGED attempts,
             \A q \in PreviewIds : /\ exchange[q] \in Ended => exchange'[q] \in Ended
                                   /\ Refused(q) => Refused(q)'
      PROVE  /\ AtLarge(a)' => AtLarge(a)
             /\ Begun(a)' = Begun(a) /\ attempts'[a].key = attempts[a].key
  BY <1>1, <1>4 DEF AtLarge, Begun
<1>5. ASSUME NEW h \in Handlers, Post(h)
      PROVE  \A q \in PreviewIds : /\ exchange[q] \in Ended => exchange'[q] \in Ended
                                   /\ Refused(q) => Refused(q)'
  <2> DEFINE pid == handler[h].preview
  <2>1. pid \in PreviewIds /\ posted[pid] = 0 /\ posted' = [posted EXCEPT ![pid] = @ + 1]
    BY <1>1, <1>5 DEF Post, OnceInv, AboutToPost, HandlerOK
  <2>2. /\ wire' \in {wire, wire \cup {pid}}
        /\ exchange' \in {exchange, [exchange EXCEPT ![pid] = IF @ = "none" THEN "open" ELSE @]}
    BY <1>5 DEF Post
  <2>3. \A q \in PreviewIds : Refused(q) => q # pid
    BY <2>1 DEF Refused
  <2>4. /\ \A q \in PreviewIds : q # pid => /\ posted'[q] = posted[q] /\ exchange'[q] = exchange[q]
                                            /\ q \in wire' <=> q \in wire
        /\ \A q \in PreviewIds : exchange[q] # "none" => exchange'[q] = exchange[q]
    BY <1>1, <2>1, <2>2
  <2> QED
    BY <2>3, <2>4 DEF Refused, Ended
<1>6. CASE Arrive \/ Settle
  <2>1. /\ \A q \in PreviewIds : exchange[q] \in Ended => exchange'[q] \in Ended
        /\ \A q \in PreviewIds : Refused(q) => exchange'[q] = "none" /\ q \notin wire'
    BY <1>1, <1>6 DEF Arrive, Settle, Ended, Refused
  <2>2. UNCHANGED <<attempts, posted>>
    BY <1>6 DEF Arrive, Settle, ledger
  <2> QED
    BY <1>4, <2>1, <2>2 DEF Refused
<1>7. CASE \E h \in Handlers : Begin(h)
  BY <1>3, <1>7 DEF AtLarge, Begun, Refused
<1>8. CASE \E h \in Handlers : Post(h)
  <2>1. UNCHANGED attempts
    BY <1>8 DEF Post, ledger
  <2> QED
    BY <1>4, <1>5, <1>8, <2>1
<1> QED
  BY <1>2, <1>6, <1>7, <1>8, ConcludingSteps

\* A handler gets ready from a manual preview or by recording its own.
LEMMA GettingReady ==
    ASSUME TypeInv, [Next]_vars, NEW h \in Handlers, handler'[h].pc = "ready"
    PROVE  handler'[h] = handler[h] \/ ManualSubmit(h) \/ AutomationPreview(h)
<1>1. handler \in [Handlers -> Handler]
  BY DEF TypeInv, TypeOK
<1>2. CASE User
  BY <1>2 DEF User, SaveCredential, ClearBinding, VerifyReadiness, GiveConsent, EnableManual,
     EnableAutomation, Disable, RecordProof, ToggleHalt, ManualPreview, Serving, session
<1>3. ASSUME NEW g \in Handlers, Submission(g), ~ManualSubmit(g), ~AutomationPreview(g)
      PROVE  handler'[h] = handler[h]
  <2>1. CASE g = h
    <3>1. IdleHandler \in Handler /\ IdleHandler.pc = "idle"
      BY IdleTypes DEF IdleHandler
    <3>2. ASSUME NEW rec, Handling(h, rec) PROVE rec.pc = "ready"
      BY <1>1, <3>2 DEF Handling
    <3>3. CASE AutomationSubmit(h)
      <4>1. PICK key \in StepKeys :
              Handling(h, [IdleHandler EXCEPT !.pc = "gated", !.source = "automation",
                                              !.key = key, !.cred = cred])
        BY <3>3 DEF AutomationSubmit
      <4>2. [IdleHandler EXCEPT !.pc = "gated", !.source = "automation",
                                !.key = key, !.cred = cred].pc = "gated"
        BY <3>1 DEF Handler
      <4> QED
        BY <3>2, <4>1, <4>2
    <3>4. CASE Abandon(h) \/ BeginRefused(h) \/ Mark(h)
      BY <3>1, <3>2, <3>4 DEF Abandon, BeginRefused, Mark
    <3>5. CASE Begin(h)
      <4>1. Handling(h, [handler[h] EXCEPT !.pc = "begun", !.attempt = minted + 1])
        BY <3>5 DEF Begin
      <4>2. [handler[h] EXCEPT !.pc = "begun", !.attempt = minted + 1].pc = "begun"
        BY <1>1 DEF Handler
      <4> QED
        BY <3>2, <4>1, <4>2
    <3>6. CASE Post(h)
      <4>1. PICK reply : Handling(h, [handler[h] EXCEPT !.pc = "answered", !.reply = reply])
        BY <3>6 DEF Post
      <4>2. [handler[h] EXCEPT !.pc = "answered", !.reply = reply].pc = "answered"
        BY <1>1 DEF Handler
      <4> QED
        BY <3>2, <4>1, <4>2
    <3>7. CASE MarkFails(h)
      <4>1. [handler[h] EXCEPT !.reply = "unknown"].pc # "ready"
        BY <1>1, <3>7 DEF MarkFails, Handler
      <4> QED
        BY <3>1, <3>2, <3>7, <4>1 DEF MarkFails
    <3> QED
      BY <1>3, <2>1, <3>3, <3>4, <3>5, <3>6, <3>7 DEF Submission
  <2>2. CASE g # h
    BY <1>1, <1>3, <2>2 DEF Submission, AutomationSubmit, Abandon, Begin, BeginRefused, Post, Mark,
       MarkFails, Handling
  <2> QED
    BY <2>1, <2>2
<1>4. ASSUME NEW g \in Handlers, ManualSubmit(g) \/ AutomationPreview(g), g # h
      PROVE  handler'[h] = handler[h]
  BY <1>1, <1>4 DEF ManualSubmit, AutomationPreview, Handling
<1>5. ASSUME NEW s \in Syncers, Sync(s) PROVE handler' = handler
  BY <1>5 DEF Sync, SyncStart, ReconcileStart, Lookup, Apply, RecordStep, Miss, SyncEnd,
     RestartProof, Syncing
<1>6. CASE World
  <2>1. ~Stop
    <3> SUFFICES ASSUME Stop PROVE FALSE
      OBVIOUS
    <3>1. handler'[h].pc = "idle"
      BY DEF Stop, IdleHandler
    <3> QED
      BY <3>1
  <2> QED
    BY <1>6, <2>1 DEF World, Start, Expire, StoreLost, Arrive, Settle, NextDay, session
<1>7. CASE UNCHANGED vars
  BY <1>7 DEF vars, session
<1> QED
  BY <1>2, <1>3, <1>4, <1>5, <1>6, <1>7 DEF Next

\* A preview keeps its source and key, is a manual one, or was pruned to nothing,
\* unless the automation records it.
LEMMA KeysKept ==
    ASSUME TypeInv, [Next]_vars, ~ \E h \in Handlers : AutomationPreview(h),
           NEW pid \in PreviewIds
    PROVE  \/ previews'[pid].key = previews[pid].key /\ previews'[pid].source = previews[pid].source
           \/ previews'[pid].key = None
<1>1. previews \in [PreviewIds -> Preview]
  BY DEF TypeInv, TypeOK
<1>2. [NoPreview EXCEPT !.state = "gone"].key = None /\ NoPreview.key = None
  BY DEF NoPreview
<1>3. CASE User
  <2>1. CASE ManualPreview
    <3>1. PICK q \in PreviewIds, side \in Sides, value \in Values :
            NewPreview(q, "manual", None, side, value)
      BY SMTT(60), <2>1 DEF ManualPreview
    <3> QED
      BY <1>1, <3>1 DEF NewPreview
  <2> QED
    BY <1>3, <2>1 DEF User, SaveCredential, ClearBinding, VerifyReadiness, GiveConsent, EnableManual,
       EnableAutomation, Disable, RecordProof, ToggleHalt, SetPolicy, ledger
<1>4. ASSUME NEW h \in Handlers, Submission(h), ~AutomationPreview(h)
      PROVE  previews'[pid].key = previews[pid].key /\ previews'[pid].source = previews[pid].source
  <2>1. CASE Begin(h)
    <3>1. previews' = [previews EXCEPT ![handler[h].preview].state = "consumed"]
      BY <2>1 DEF Begin
    <3> QED
      BY <1>1, <3>1 DEF Preview
  <2> QED
    BY <1>4, <2>1 DEF Submission, ManualSubmit, AutomationSubmit, Abandon, BeginRefused, Post, Mark,
       MarkFails, ledger
<1>5. ASSUME NEW s \in Syncers, Sync(s) PROVE previews' = previews
  BY <1>5 DEF Sync, SyncStart, ReconcileStart, Lookup, Apply, RecordStep, Miss, SyncEnd,
     RestartProof, ledger
<1>6. CASE World
  <2>1. CASE Expire
    BY <1>1, <1>2, <2>1 DEF Expire
  <2>2. CASE StoreLost
    BY <1>1, <1>2, <2>2 DEF StoreLost
  <2> QED
    BY <1>6, <2>1, <2>2 DEF World, Stop, Start, Arrive, Settle, NextDay, ledger
<1>7. CASE UNCHANGED vars
  BY <1>7 DEF vars, ledger
<1> QED
  BY <1>3, <1>4, <1>5, <1>6, <1>7 DEF Next

LEMMA KeyInductive ==
    ASSUME ~StoreCanFail, \A g, h \in Handlers : g = h
    PROVE  TypeInv /\ OnceInv /\ AgreeInv /\ KeyInv /\ [Next]_vars => KeyInv'
<1> SUFFICES ASSUME TypeInv, OnceInv, AgreeInv, KeyInv, [Next]_vars PROVE KeyInv'
  OBVIOUS
<1>1. /\ attempts \in [AttemptIds -> Attempt] /\ handler \in [Handlers -> Handler]
      /\ previews \in [PreviewIds -> Preview] /\ minted \in Nat
      /\ \A h \in Handlers : HandlerOK(handler[h])
  BY LedgerAssumption DEF TypeInv, TypeOK
<1>2. ASSUME ~ \E h \in Handlers : Begin(h)
      PROVE  /\ \A key : KeyFree(key) => KeyFree(key)'
             /\ \A a \in AttemptIds : /\ AtLarge(a)' => AtLarge(a)
                                      /\ Begun(a)' = Begun(a) /\ attempts'[a].key = attempts[a].key
  BY <1>2, LargeShrinks DEF KeyFree
<1>3. CASE \E h \in Handlers : Begin(h)
  <2>1. PICK h \in Handlers : Begin(h)
    BY <1>3
  <2> DEFINE n == minted + 1
             key == previews[handler[h].preview].key
  <2>2. /\ handler[h].pc = "ready" /\ handler[h].preview \in PreviewIds /\ n \in AttemptIds
        /\ handler' = [handler EXCEPT ![h] = [handler[h] EXCEPT !.pc = "begun", !.attempt = n]]
        /\ previews' = [previews EXCEPT ![handler[h].preview].state = "consumed"]
        /\ attempts'[n].status = "submission_pending" /\ attempts'[n].key = key
        /\ \A a \in AttemptIds : a # n => attempts'[a] = attempts[a]
    BY <1>1, <2>1, LedgerAssumption DEF Begin, Handling, HandlerOK, AttemptIds
  <2>3. /\ \A pid \in PreviewIds : /\ previews'[pid].key = previews[pid].key
                                   /\ previews'[pid].source = previews[pid].source
        /\ \A g \in Handlers : handler'[g].pc = "begun"
    BY <1>1, <2>2 DEF Preview, Handler
  <2>4. \A a \in AttemptIds : a # n => /\ AtLarge(a)' => AtLarge(a)
                                       /\ Begun(a)' = Begun(a) /\ attempts'[a].key = attempts[a].key
    BY LargeShrinks
  <2>5. key = None \/ KeyFree(key)
    BY <2>2 DEF KeyInv
  <2>6. \A a, b \in AttemptIds :
          AtLarge(a)' /\ AtLarge(b)' /\ attempts'[a].key # None /\ attempts'[a].key = attempts'[b].key
          => a = b
    BY <2>2, <2>4, <2>5 DEF KeyInv, KeyFree
  <2>7. \A a \in AttemptIds : ~Begun(a)' => attempts'[a].key = None
    BY <2>2, <2>4 DEF KeyInv, Begun
  <2> QED
    BY <2>3, <2>6, <2>7 DEF KeyInv
<1>4. CASE /\ \E h \in Handlers : AutomationPreview(h)
           /\ ~ \E h \in Handlers : Begin(h)
  <2>1. PICK h \in Handlers : AutomationPreview(h)
    BY <1>4
  <2>2. UNCHANGED <<attempts, wire, exchange, posted>>
    BY <2>1 DEF AutomationPreview, world
  <2>3. CASE StepBusy(handler[h].key)
    <3>1. previews' = previews /\ handler' = [handler EXCEPT ![h] = IdleHandler]
      BY <2>1, <2>3 DEF AutomationPreview, Handling
    <3>2. \A g \in Handlers : handler'[g].pc # "ready"
      BY <1>1, <3>1 DEF IdleHandler
    <3> QED
      BY <1>2, <1>4, <3>1, <3>2 DEF KeyInv
  <2>4. CASE ~StepBusy(handler[h].key)
    <3>1. PICK pid \in PreviewIds, side \in Sides, value \in Values :
            /\ NewPreview(pid, "automation", handler[h].key, side, value)
            /\ handler' = [handler EXCEPT ![h] = [handler[h] EXCEPT !.pc = "ready", !.preview = pid]]
      BY <2>1, <2>4 DEF AutomationPreview, Handling
    <3>2. /\ \A q \in PreviewIds : q # pid => previews'[q] = previews[q]
          /\ previews'[pid].source = "automation" /\ previews'[pid].key = handler[h].key
      BY <1>1, <3>1 DEF NewPreview
    <3>3. \A g \in Handlers : handler'[g].preview = pid
      BY <1>1, <3>1 DEF Handler
    <3>4. PICK key : key = handler[h].key
      OBVIOUS
    <3>5. KeyFree(key)'
      <4>1. KeyFree(key)
        BY <2>4, <3>4, NotBusyIsFree
      <4> QED
        BY <1>2, <1>4, <4>1
    <3>6. \A g \in Handlers : KeyFree(previews[handler[g].preview].key)'
      BY <3>2, <3>3, <3>4, <3>5 DEF KeyFree
    <3>7. \A q \in PreviewIds : (previews[q].source = "manual" => previews[q].key = None)'
      BY <3>2 DEF KeyInv
    <3> QED
      BY <1>2, <1>4, <3>6, <3>7 DEF KeyInv
  <2> QED
    BY <2>3, <2>4
<1>5. CASE ~ \E h \in Handlers : Begin(h) \/ AutomationPreview(h)
  <2>1. \A pid \in PreviewIds :
          \/ previews'[pid].key = previews[pid].key /\ previews'[pid].source = previews[pid].source
          \/ previews'[pid].key = None
    BY <1>5, KeysKept
  <2>2. ASSUME NEW h \in Handlers, handler'[h].pc = "ready"
        PROVE  (\/ previews[handler[h].preview].key = None
                \/ KeyFree(previews[handler[h].preview].key))'
    <3>1. CASE handler'[h] = handler[h]
      <4>1. handler[h].preview \in PreviewIds /\ handler[h].pc = "ready"
        BY <1>1, <2>2, <3>1 DEF HandlerOK
      <4>2. PICK key : key = previews[handler[h].preview].key
        OBVIOUS
      <4>3. key = None \/ KeyFree(key)
        BY <4>1, <4>2 DEF KeyInv
      <4>4. key = None \/ KeyFree(key)'
        BY <1>2, <1>5, <4>3
      <4> QED
        BY <2>1, <3>1, <4>1, <4>2, <4>4 DEF KeyFree
    <3>2. CASE ManualSubmit(h)
      <4>1. PICK pid \in PreviewIds :
              /\ previews[pid].source = "manual"
              /\ Handling(h, [IdleHandler EXCEPT !.pc = "ready", !.preview = pid, !.cred = cred])
        BY <3>2 DEF ManualSubmit
      <4>2. handler'[h].preview = pid
        BY <1>1, <4>1, IdleTypes DEF Handling, Handler
      <4> QED
        BY <2>1, <4>1, <4>2 DEF KeyInv
    <3> QED
      BY <1>5, <2>2, <3>1, <3>2, GettingReady
  <2> QED
    BY <1>2, <1>5, <2>1, <2>2 DEF KeyInv
<1> QED
  BY <1>3, <1>4, <1>5

\* With one submission at a time and a readable file the exchange never works two
\* orders of one strategy step, whatever is lost, killed, late or looked up stale.
THEOREM OneStepOneOrder ==
    ASSUME ~StoreCanFail, \A g, h \in Handlers : g = h
    PROVE  Spec => []OneOpenOrderPerStep
<1>1. Init => OnceInv /\ AgreeInv /\ KeyInv
  <2> SUFFICES ASSUME Init PROVE OnceInv /\ AgreeInv /\ KeyInv
    OBVIOUS
  <2>1. OnceInv
    BY IdleTypes DEF Init, OnceInv, AboutToPost, IdleHandler
  <2>2. AgreeInv
    BY DEF Init, AgreeInv, AttemptOK, Begun, Distinct, HolderOK, AskerOK, Reached, NoAttempt,
       IdleHandler, IdleSyncer
  <2>3. KeyInv
    BY DEF Init, KeyInv, AtLarge, Begun, NoAttempt, NoPreview, IdleHandler
  <2> QED
    BY <2>1, <2>2, <2>3
<1>2. TypeInv /\ OnceInv /\ AgreeInv /\ KeyInv /\ [Next]_vars => OnceInv' /\ AgreeInv' /\ KeyInv'
  BY OnceInductive, AgreeInductive, KeyInductive
<1>3. KeyInv => OneOpenOrderPerStep
  BY DEF KeyInv, OneOpenOrderPerStep, AtLarge, Refused, Ended
<1> QED
  BY <1>1, <1>2, <1>3, TypesInvariant, PTL DEF Spec
-----------------------------------------------------------------------------
(* What a day's buys cost.  Spent is a sum over the attempts, taken from the *)
(* first to the last; both it and its value on a changed file are found by   *)
(* way of the least attempt at which a claim about the partial sums fails.   *)

LEMMA LeastOf ==
    ASSUME NEW T \in SUBSET Nat, T # {}
    PROVE  \E n \in T : \A m \in T : n <= m
<1> DEFINE R == OpToRel(<, Nat)
<1>1. IsWellFoundedOn(R, Nat)
  BY NatLessThanWellFounded
<1>2. \A i, j \in Nat : i < j => <<i, j>> \in R
  BY DEF OpToRel
<1> HIDE DEF R
<1>3. PICK n \in T : \A m \in T : ~ (<<m, n>> \in R)
  BY <1>1, WFMin
<1>4. ASSUME NEW m \in T PROVE n <= m
  <2>1. m \in Nat /\ n \in Nat /\ ~(m < n)
    BY <1>2, <1>3
  <2> QED
    BY <2>1
<1> QED
  BY <1>4

\* Spent and BuysOf of a given array of attempts.
BuysIn(att, d) == {a \in AttemptIds : att[a].status # "none" /\ att[a].side = "buy" /\ att[a].day = d}
SpentIn(att, d) ==
    LET sum[n \in 0..MaxAttempts] ==
            IF n = 0 THEN 0
            ELSE sum[n - 1] + IF n \in BuysIn(att, d) THEN att[n].value ELSE 0
    IN  sum[MaxAttempts]

\* f holds the partial sums, of which the first n are computed.
Charge(att, d, a) == IF a \in BuysIn(att, d) THEN att[a].value ELSE 0
Sums(f, n, att, d) ==
    /\ f \in [0..n -> Nat]
    /\ f[0] = 0
    /\ \A i \in 1..n : f[i] = f[i - 1] + Charge(att, d, i)

LEMMA ChargeNat ==
    ASSUME NEW att \in [AttemptIds -> Attempt], NEW d, NEW a \in AttemptIds
    PROVE  Charge(att, d, a) \in Nat
BY DEF Charge, Attempt

LEMMA SumsNext ==
    ASSUME NEW att \in [AttemptIds -> Attempt], NEW d, NEW n \in Nat, n + 1 <= MaxAttempts,
           NEW f, Sums(f, n, att, d)
    PROVE  \E g : Sums(g, n + 1, att, d)
<1> DEFINE c == Charge(att, d, n + 1)
           g == [i \in 0..(n + 1) |-> IF i = n + 1 THEN f[n] + c ELSE f[i]]
<1>1. MaxAttempts \in Nat /\ n + 1 \in AttemptIds
  BY LedgerAssumption DEF AttemptIds
<1>2. c \in Nat
  BY <1>1, ChargeNat
<1>3. f \in [0..n -> Nat] /\ f[0] = 0
  BY DEF Sums
<1>4. \A i \in 1..n : f[i] = f[i - 1] + Charge(att, d, i)
  BY DEF Sums
<1> HIDE DEF c
<1>5. g \in [0..(n + 1) -> Nat] /\ g[0] = 0
  BY <1>2, <1>3
<1>6. ASSUME NEW i \in 1..(n + 1) PROVE g[i] = g[i - 1] + Charge(att, d, i)
  <2>1. CASE i = n + 1
    <3>1. g[i] = f[n] + c /\ g[i - 1] = f[n]
      BY <2>1
    <3> QED
      BY <2>1, <3>1 DEF c
  <2>2. CASE i \in 1..n
    <3>1. g[i] = f[i] /\ g[i - 1] = f[i - 1]
      BY <2>2
    <3> QED
      BY <1>4, <2>2, <3>1
  <2> QED
    BY <2>1, <2>2
<1> HIDE DEF g
<1> QED
  BY <1>5, <1>6 DEF Sums

LEMMA SumsExist ==
    ASSUME NEW att \in [AttemptIds -> Attempt], NEW d
    PROVE  \E f : Sums(f, MaxAttempts, att, d)
<1> DEFINE Stuck == {n \in 0..MaxAttempts : ~\E f : Sums(f, n, att, d)}
<1>1. MaxAttempts \in Nat
  BY LedgerAssumption
<1>2. Stuck = {}
  <2> SUFFICES ASSUME Stuck # {} PROVE FALSE
    OBVIOUS
  <2>0. Stuck \in SUBSET Nat
    BY <1>1
  <2>1. PICK n \in Stuck : \A m \in Stuck : n <= m
    <3> HIDE DEF Stuck
    <3> QED
      BY <2>0, LeastOf
  <2>2. n # 0
    <3>1. Sums([i \in 0..0 |-> 0], 0, att, d)
      BY DEF Sums
    <3> QED
      BY <2>1, <3>1
  <2>3. n - 1 \in Nat /\ n - 1 \in 0..MaxAttempts /\ n - 1 \notin Stuck /\ (n - 1) + 1 = n
    BY <1>1, <2>1, <2>2
  <2>4. PICK f : Sums(f, n - 1, att, d)
    BY <2>3
  <2>5. (n - 1) + 1 <= MaxAttempts
    BY <1>1, <2>1
  <2>6. \E f1 : Sums(f1, (n - 1) + 1, att, d)
    BY <2>3, <2>4, <2>5, SumsNext
  <2> QED
    BY <2>1, <2>3, <2>6
<1> QED
  BY <1>1, <1>2

\* The recursive definition computes such sums.
LEMMA SpentIsSum ==
    ASSUME NEW att \in [AttemptIds -> Attempt], NEW d
    PROVE  \E f : Sums(f, MaxAttempts, att, d) /\ SpentIn(att, d) = f[MaxAttempts]
<1> DEFINE sum[n \in 0..MaxAttempts] ==
               IF n = 0 THEN 0
               ELSE sum[n - 1] + IF n \in BuysIn(att, d) THEN att[n].value ELSE 0
<1>0. MaxAttempts \in Nat
  BY LedgerAssumption
<1>1. PICK f : Sums(f, MaxAttempts, att, d)
  BY SumsExist
<1>2. f = [n \in 0..MaxAttempts |->
               IF n = 0 THEN 0
               ELSE f[n - 1] + IF n \in BuysIn(att, d) THEN att[n].value ELSE 0]
  BY <1>0, <1>1 DEF Sums, Charge
<1>3. sum = [n \in 0..MaxAttempts |->
               IF n = 0 THEN 0
               ELSE sum[n - 1] + IF n \in BuysIn(att, d) THEN att[n].value ELSE 0]
  BY <1>2
<1>4. SpentIn(att, d) = sum[MaxAttempts]
  BY DEF SpentIn
<1> HIDE DEF sum
<1>5. \A i \in 1..MaxAttempts : i # 0 /\ i \in 0..MaxAttempts
  BY <1>0
<1>6. sum[0] = 0
  BY <1>0, <1>3
<1>7. \A i \in 1..MaxAttempts : sum[i] = sum[i - 1] + Charge(att, d, i)
  BY <1>3, <1>5 DEF Charge
<1>8. sum \in [0..MaxAttempts -> Nat]
  <2> DEFINE Odd == {n \in 0..MaxAttempts : sum[n] \notin Nat}
  <2>1. Odd = {}
    <3> SUFFICES ASSUME Odd # {} PROVE FALSE
      OBVIOUS
    <3>0. Odd \in SUBSET Nat
      BY <1>0
    <3>1. PICK n \in Odd : \A m \in Odd : n <= m
      <4> HIDE DEF Odd
      <4> QED
        BY <3>0, LeastOf
    <3>2. n # 0
      BY <1>6, <3>1
    <3>3. n \in 1..MaxAttempts /\ n - 1 \in 0..MaxAttempts /\ n - 1 \notin Odd
      BY <1>0, <3>1, <3>2
    <3>4. sum[n] = sum[n - 1] + Charge(att, d, n) /\ Charge(att, d, n) \in Nat
      BY <1>7, <3>3, ChargeNat DEF AttemptIds
    <3> QED
      BY <3>1, <3>3, <3>4
  <2>2. DOMAIN sum = 0..MaxAttempts /\ \A n \in 0..MaxAttempts : sum[n] \in Nat
    BY <1>3, <2>1
  <2> QED
    BY <1>3, <2>2
<1> QED
  BY <1>4, <1>6, <1>7, <1>8 DEF Sums

\* Where one charge grows by v and the others stay, the sum grows by v.
LEMMA SpentGrows ==
    ASSUME NEW att \in [AttemptIds -> Attempt], NEW att2 \in [AttemptIds -> Attempt], NEW d,
           NEW k \in AttemptIds, NEW v \in Nat,
           Charge(att2, d, k) = Charge(att, d, k) + v,
           \A a \in AttemptIds \ {k} : Charge(att2, d, a) = Charge(att, d, a)
    PROVE  SpentIn(att2, d) = SpentIn(att, d) + v
<1>0. MaxAttempts \in Nat /\ AttemptIds = 1..MaxAttempts
  BY LedgerAssumption DEF AttemptIds
<1>1. PICK f : Sums(f, MaxAttempts, att, d) /\ SpentIn(att, d) = f[MaxAttempts]
  BY SpentIsSum
<1>2. PICK g : Sums(g, MaxAttempts, att2, d) /\ SpentIn(att2, d) = g[MaxAttempts]
  BY SpentIsSum
<1> DEFINE Off == {n \in 0..MaxAttempts : g[n] # f[n] + IF n >= k THEN v ELSE 0}
<1>3. /\ f[0] = 0 /\ \A i \in 1..MaxAttempts : f[i] = f[i - 1] + Charge(att, d, i)
      /\ g[0] = 0 /\ \A i \in 1..MaxAttempts : g[i] = g[i - 1] + Charge(att2, d, i)
      /\ \A i \in 0..MaxAttempts : f[i] \in Nat /\ g[i] \in Nat
  BY <1>1, <1>2 DEF Sums
<1>4. Off = {}
  <2> SUFFICES ASSUME Off # {} PROVE FALSE
    OBVIOUS
  <2>0. Off \in SUBSET Nat
    BY <1>0
  <2>1. PICK n \in Off : \A m \in Off : n <= m
    <3> HIDE DEF Off
    <3> QED
      BY <2>0, LeastOf
  <2>2. n # 0
    BY <1>0, <1>3, <2>1
  <2>3. n \in 1..MaxAttempts /\ n - 1 \in 0..MaxAttempts /\ n - 1 \notin Off
    BY <1>0, <2>1, <2>2
  <2>4. g[n - 1] = f[n - 1] + IF n - 1 >= k THEN v ELSE 0
    BY <2>3
  <2>5. /\ f[n] = f[n - 1] + Charge(att, d, n) /\ g[n] = g[n - 1] + Charge(att2, d, n)
        /\ f[n - 1] \in Nat /\ g[n - 1] \in Nat
        /\ Charge(att, d, n) \in Nat /\ Charge(att2, d, n) \in Nat
    BY <1>0, <1>3, <2>3, ChargeNat
  <2>6. CASE n = k
    BY SMTT(60), <1>0, <2>1, <2>3, <2>4, <2>5, <2>6
  <2>7. CASE n # k
    <3>1. Charge(att2, d, n) = Charge(att, d, n)
      BY <1>0, <2>3, <2>7
    <3> QED
      BY <1>0, <2>1, <2>3, <2>4, <2>5, <2>7, <3>1
  <2> QED
    BY <2>6, <2>7
<1>5. g[MaxAttempts] = f[MaxAttempts] + v
  BY <1>0, <1>4
<1> QED
  BY <1>1, <1>2, <1>5

LEMMA SpentNat ==
    ASSUME NEW att \in [AttemptIds -> Attempt], NEW d
    PROVE  SpentIn(att, d) \in Nat
BY SpentIsSum, LedgerAssumption DEF Sums

\* A day on which no buy was begun cost nothing.
LEMMA NothingSpent ==
    ASSUME NEW att \in [AttemptIds -> Attempt], NEW d, BuysIn(att, d) = {}
    PROVE  SpentIn(att, d) = 0
<1>0. MaxAttempts \in Nat
  BY LedgerAssumption
<1>1. PICK f : Sums(f, MaxAttempts, att, d) /\ SpentIn(att, d) = f[MaxAttempts]
  BY SpentIsSum
<1> DEFINE Off == {n \in 0..MaxAttempts : f[n] # 0}
<1>2. Off = {}
  <2> SUFFICES ASSUME Off # {} PROVE FALSE
    OBVIOUS
  <2>0. Off \in SUBSET Nat
    BY <1>0
  <2>1. PICK n \in Off : \A m \in Off : n <= m
    <3> HIDE DEF Off
    <3> QED
      BY <2>0, LeastOf
  <2>2. n # 0
    BY <1>1, <2>1 DEF Sums
  <2>3. n \in 1..MaxAttempts /\ n - 1 \in 0..MaxAttempts /\ n - 1 \notin Off
    BY <1>0, <2>1, <2>2
  <2>4. f[n] = f[n - 1] + Charge(att, d, n) /\ Charge(att, d, n) = 0
    BY <1>1, <2>3 DEF Sums, Charge
  <2> QED
    BY <2>1, <2>3, <2>4
<1> QED
  BY <1>0, <1>1, <1>2
-----------------------------------------------------------------------------
(* The daily limit.  The policy's total is what the buys of its date cost,   *)
(* and no attempt is younger than that date: when the total starts over for  *)
(* a new day, nothing was begun on it.                                       *)

CapInv ==
    /\ policy.date <= day
    /\ \A a \in AttemptIds : attempts[a].status # "none" => /\ a <= minted
                                                            /\ attempts[a].day <= policy.date
    /\ SpentIn(attempts, policy.date) <= policy.daily
    /\ \A d \in 0..MaxDay : SpentIn(attempts, d) <= MaxDailyBuy

\* What an attempt costs, and on which day, never changes while it is in the file.
SameCost(a) ==
    /\ attempts'[a].status = "none" <=> attempts[a].status = "none"
    /\ attempts'[a].side = attempts[a].side
    /\ attempts'[a].value = attempts[a].value
    /\ attempts'[a].day = attempts[a].day

SameTotal(pol) == policy'.date = pol.date /\ policy'.daily = pol.daily

LEMMA StatusKeepsCost ==
    ASSUME TypeInv, NEW a \in AttemptIds, attempts[a].status # "none", NEW status, status # "none",
           attempts' = [attempts EXCEPT ![a].status = status]
    PROVE  \A b \in AttemptIds : SameCost(b)
<1>1. attempts \in [AttemptIds -> Attempt]
  BY DEF TypeInv, TypeOK
<1>2. ASSUME NEW b \in AttemptIds PROVE SameCost(b)
  <2>1. attempts[b] \in Attempt
    BY <1>1
  <2>2. attempts'[b] = IF b = a THEN [attempts[b] EXCEPT !.status = status] ELSE attempts[b]
    BY <1>1
  <2> QED
    BY <2>1, <2>2 DEF SameCost, Attempt
<1> QED
  BY <1>2

LEMMA TotalMoves ==
    ASSUME TypeInv
    PROVE  /\ Today(policy) \in Policy
           /\ TogglesReset(policy).date = Today(policy).date
           /\ TogglesReset(policy).daily = Today(policy).daily
           /\ \A k : Bound(k).date = policy.date /\ Bound(k).daily = policy.daily
<1>1. policy \in Policy /\ Today(policy) \in Policy
  BY PolicyTypes DEF TypeInv, TypeOK
<1> QED
  BY <1>1 DEF TogglesReset, Bound, Unbound, DefaultPolicy, Policy

LEMMA UserTotals ==
    ASSUME TypeInv, User, ~ClearBinding
    PROVE  /\ UNCHANGED <<minted, day, attempts>>
           /\ SameTotal(policy) \/ SameTotal(Today(policy))
<1>1. policy \in Policy /\ Today(policy) \in Policy
  BY TotalMoves DEF TypeInv, TypeOK
<1>2. CASE SaveCredential \/ ToggleHalt \/ ManualPreview
  BY <1>2 DEF SaveCredential, ToggleHalt, ManualPreview, Serving, ledger, SameTotal
<1>3. CASE VerifyReadiness
  <2>1. PICK k : SetPolicy(Bound(k))
    BY <1>3 DEF VerifyReadiness
  <2> QED
    BY <1>3, <2>1, TotalMoves DEF VerifyReadiness, SetPolicy, Serving, SameTotal
<1>4. CASE GiveConsent
  BY <1>1, <1>4 DEF GiveConsent, SetPolicy, Serving, SameTotal, Policy
<1>5. CASE EnableManual
  BY <1>1, <1>5 DEF EnableManual, SetPolicy, Serving, SameTotal, Policy
<1>6. CASE EnableAutomation
  BY <1>1, <1>6 DEF EnableAutomation, SetPolicy, Serving, SameTotal, Policy
<1>7. CASE Disable
  BY <1>1, <1>7 DEF Disable, SetPolicy, Serving, SameTotal, Policy
<1>8. CASE RecordProof
  BY <1>1, <1>8 DEF RecordProof, SetPolicy, Serving, SameTotal, Policy
<1> QED
  BY <1>2, <1>3, <1>4, <1>5, <1>6, <1>7, <1>8 DEF User

LEMMA MarksKeepTotals ==
    ASSUME TypeInv, NEW a \in AttemptIds, attempts[a].status # "none",
           MarkedUnknown(a) \/ \E state \in OrderStates : Reconciled(a, state)
    PROVE  SameTotal(policy) /\ \A b \in AttemptIds : SameCost(b)
<1>1. policy \in Policy
  BY DEF TypeInv, TypeOK
<1>2. CASE MarkedUnknown(a)
  BY <1>1, <1>2, StatusKeepsCost DEF MarkedUnknown, SameTotal, Policy
<1>3. ASSUME NEW state \in OrderStates, Reconciled(a, state)
      PROVE  SameTotal(policy) /\ \A b \in AttemptIds : SameCost(b)
  <2>1. state # "none"
    BY DEF OrderStates
  <2>2. attempts' = [attempts EXCEPT ![a].status = state]
    BY <1>3 DEF Reconciled
  <2>3. PICK n : policy' = [policy EXCEPT !.lock = IF @ = a THEN 0 ELSE @, !.confirmed = @ + n]
    BY <1>3 DEF Reconciled
  <2> QED
    BY <1>1, <2>1, <2>2, <2>3, StatusKeepsCost DEF SameTotal, Policy
<1> QED
  BY <1>2, <1>3

LEMMA SubmissionTotals ==
    ASSUME TypeInv, NEW h \in Handlers, Submission(h), ~Begin(h)
    PROVE  /\ UNCHANGED <<minted, day>>
           /\ SameTotal(policy) \/ SameTotal(Today(policy))
           /\ \A a \in AttemptIds : SameCost(a)
<1>1. CASE \/ ManualSubmit(h) \/ AutomationSubmit(h) \/ AutomationPreview(h) \/ Abandon(h)
           \/ BeginRefused(h) \/ Post(h) \/ MarkFails(h)
  BY <1>1 DEF ManualSubmit, AutomationSubmit, AutomationPreview, Abandon, BeginRefused, Post, MarkFails,
     Handling, environment, ledger, SameTotal, SameCost
<1>2. CASE Mark(h)
  <2>1. UNCHANGED <<minted, day>>
    BY <1>2 DEF Mark, Handling, environment
  <2>2. handler[h].attempt \in AttemptIds
    BY <1>2 DEF Mark, TypeInv, HandlerOK
  <2> DEFINE a == handler[h].attempt
  <2>3. CASE UNCHANGED <<policy, attempts>>
    BY <2>1, <2>3 DEF SameTotal, SameCost
  <2>4. CASE attempts[a].status # "none" /\ MarkedUnknown(a)
    BY <2>1, <2>2, <2>4, MarksKeepTotals
  <2>5. CASE /\ attempts[a].status # "none" /\ policy' = policy
             /\ attempts' = [attempts EXCEPT ![a].status =
                                IF handler[h].reply = "ok" THEN "submitted" ELSE "rejected"]
    <3> DEFINE status == IF handler[h].reply = "ok" THEN "submitted" ELSE "rejected"
    <3>1. status # "none" /\ attempts' = [attempts EXCEPT ![a].status = status]
      BY <2>5
    <3> HIDE DEF status
    <3>2. \A b \in AttemptIds : SameCost(b)
      BY ONLY TypeInv, <2>2, <2>5, <3>1, StatusKeepsCost
    <3> QED
      BY <2>1, <2>5, <3>2 DEF SameTotal
  <2> QED
    BY <1>2, <2>3, <2>4, <2>5 DEF Mark
<1> QED
  BY SMTT(60), <1>1, <1>2 DEF Submission

LEMMA SyncTotals ==
    ASSUME TypeInv, NEW s \in Syncers, Sync(s)
    PROVE  /\ UNCHANGED <<minted, day>>
           /\ SameTotal(policy)
           /\ \A a \in AttemptIds : SameCost(a)
<1>0. UNCHANGED <<minted, day>>
  BY DEF Sync, SyncStart, ReconcileStart, Lookup, Apply, RecordStep, Miss, SyncEnd, RestartProof,
     Syncing, environment
<1>1. CASE SyncStart(s) \/ ReconcileStart(s) \/ Lookup(s) \/ RecordStep(s) \/ SyncEnd(s)
  BY <1>0, <1>1 DEF SyncStart, ReconcileStart, Lookup, RecordStep, SyncEnd, ledger, SameTotal, SameCost
<1>2. CASE UNCHANGED <<policy, attempts>>
  BY <1>0, <1>2 DEF SameTotal, SameCost
<1>3. CASE RestartProof(s)
  BY <1>0, <1>3 DEF RestartProof, SameTotal, SameCost, TypeInv, TypeOK, Policy
<1> DEFINE a == First(syncer[s].todo)
<1>4. syncer[s].pc \in {"apply", "miss"} => a \in AttemptIds
  <2>1. syncer[s] \in Syncer /\ SyncerOK(syncer[s])
    BY DEF TypeInv, TypeOK
  <2>2. syncer[s].todo \in SUBSET AttemptIds
    BY <2>1 DEF Syncer
  <2> QED
    BY <2>1, <2>2, FirstIsMember DEF SyncerOK
<1>5. CASE Apply(s)
  <2>1. a \in AttemptIds /\ syncer[s].found \in OrderStates
    BY <1>4, <1>5 DEF Apply, TypeInv, SyncerOK
  <2>2. CASE attempts[a].status # "none" /\ Reconciled(a, syncer[s].found)
    BY <1>0, <2>1, <2>2, MarksKeepTotals
  <2> QED
    BY <1>2, <1>5, <2>2 DEF Apply
<1>6. CASE Miss(s)
  <2>1. a \in AttemptIds
    BY <1>4, <1>6 DEF Miss
  <2>2. CASE attempts[a].status # "none" /\ MarkedUnknown(a)
    BY <1>0, <2>1, <2>2, MarksKeepTotals
  <2> QED
    BY <1>2, <1>6, <2>2 DEF Miss
<1> QED
  BY <1>1, <1>3, <1>5, <1>6 DEF Sync

\* The same buys cost the same.
LEMMA SpentSame ==
    ASSUME TypeInv, TypeInv', \A a \in AttemptIds : SameCost(a), NEW d
    PROVE  SpentIn(attempts', d) = SpentIn(attempts, d)
<1>1. attempts \in [AttemptIds -> Attempt] /\ attempts' \in [AttemptIds -> Attempt]
  BY DEF TypeInv, TypeOK
<1>2. \A a \in AttemptIds : Charge(attempts', d, a) = Charge(attempts, d, a) + 0
  <2> TAKE a \in AttemptIds
  <2>1. Charge(attempts', d, a) = Charge(attempts, d, a)
    BY DEF SameCost, Charge, BuysIn
  <2>2. Charge(attempts, d, a) \in Nat
    BY <1>1, ChargeNat
  <2> QED
    BY <2>1, <2>2
<1>3. CASE AttemptIds = {}
  BY <1>1, <1>3, NothingSpent DEF BuysIn
<1>4. CASE AttemptIds # {}
  <2>1. PICK k \in AttemptIds : TRUE
    BY <1>4
  <2>2. \A a \in AttemptIds \ {k} : Charge(attempts', d, a) = Charge(attempts, d, a)
    BY <1>1, <1>2, ChargeNat
  <2>3. SpentIn(attempts', d) = SpentIn(attempts, d) + 0
    BY <1>1, <1>2, <2>1, <2>2, SpentGrows
  <2> QED
    BY <1>1, <2>3, SpentNat
<1> QED
  BY <1>3, <1>4

\* Today's total covers today's buys: those counted, or none.
LEMMA TodayCovers ==
    ASSUME TypeInv, CapInv
    PROVE  /\ Today(policy).date = day
           /\ Today(policy).daily \in Nat
           /\ SpentIn(attempts, day) <= Today(policy).daily
<1>1. policy \in Policy /\ policy.date \in Nat /\ day \in Nat
  BY LedgerAssumption DEF TypeInv, TypeOK, Policy
<1>2. attempts \in [AttemptIds -> Attempt]
  BY DEF TypeInv, TypeOK
<1>3. CASE policy.date = day
  BY <1>1, <1>3 DEF Today, CapInv, Policy
<1>4. CASE policy.date # day
  <2>1. \A a \in AttemptIds : attempts[a].day \in Int
    BY <1>2 DEF Attempt
  <2>2. BuysIn(attempts, day) = {}
    BY <1>1, <1>4, <2>1 DEF CapInv, BuysIn
  <2>3. SpentIn(attempts, day) = 0
    BY <1>2, <2>2, NothingSpent
  <2>4. Today(policy) = [policy EXCEPT !.date = day, !.daily = 0]
    BY <1>4 DEF Today
  <2> QED
    BY <1>1, <2>3, <2>4 DEF Policy
<1> QED
  BY <1>3, <1>4

LEMMA CapKept ==
    ASSUME TypeInv, TypeInv', CapInv,
           minted' = minted, day' \in {day, day + 1},
           \A a \in AttemptIds : SameCost(a),
           SameTotal(policy) \/ SameTotal(Today(policy))
    PROVE  CapInv'
<1>1. /\ policy \in Policy /\ policy.date \in Nat /\ policy.daily \in Nat /\ day \in Nat
      /\ minted \in Nat /\ day <= day'
  BY LedgerAssumption DEF TypeInv, TypeOK, Policy
<1>2. \A a \in AttemptIds : attempts[a].day \in Nat
  BY DEF TypeInv, TypeOK, Attempt
<1>3. \A d : SpentIn(attempts', d) = SpentIn(attempts, d)
  BY SpentSame
<1>4. \A d \in 0..MaxDay : SpentIn(attempts', d) <= MaxDailyBuy
  BY <1>3 DEF CapInv
<1>5. CASE SameTotal(policy)
  <2>1. policy'.date <= day'
    BY <1>1, <1>5 DEF SameTotal, CapInv
  <2>2. SpentIn(attempts', policy'.date) <= policy'.daily
    BY <1>3, <1>5 DEF SameTotal, CapInv
  <2> QED
    BY <1>4, <1>5, <2>1, <2>2 DEF SameTotal, SameCost, CapInv
<1>6. CASE SameTotal(Today(policy))
  <2>1. policy'.date = day /\ SpentIn(attempts, day) <= policy'.daily
    BY <1>6, TodayCovers DEF SameTotal
  <2>2. SpentIn(attempts', policy'.date) <= policy'.daily
    BY <1>3, <2>1
  <2>3. \A a \in AttemptIds : attempts'[a].status # "none" => attempts'[a].day <= day
    BY <1>1, <1>2 DEF SameCost, CapInv
  <2> QED
    BY <1>1, <1>4, <2>1, <2>2, <2>3 DEF SameCost, CapInv
<1> QED
  BY <1>5, <1>6

LEMMA BeginKeepsCap ==
    ASSUME TypeInv, TypeInv', CapInv, NEW h \in Handlers, Begin(h)
    PROVE  CapInv'
<1> DEFINE p == previews[handler[h].preview]
           k == minted + 1
           cost == IF p.side = "buy" THEN p.value ELSE 0
<1>1. /\ policy \in Policy /\ Today(policy) \in Policy /\ policy.date \in Nat /\ day \in 0..MaxDay
      /\ minted \in Nat /\ MaxAttempts \in Nat /\ MaxDay \in Nat /\ MaxDailyBuy \in Nat
  BY LedgerAssumption, TotalMoves DEF TypeInv, TypeOK, Policy
<1>2. k \in AttemptIds
  BY <1>1 DEF Begin, AttemptIds
<1>3. p \in Preview
  BY DEF Begin, TypeInv, HandlerOK, TypeOK
<1>4. attempts \in [AttemptIds -> Attempt] /\ attempts' \in [AttemptIds -> Attempt]
  BY DEF TypeInv, TypeOK
<1>5. /\ minted' = k /\ day' = day /\ policy' = Charged(p) /\ BudgetAllows(p)
      /\ attempts' = [attempts EXCEPT ![k] =
            [status |-> "submission_pending", preview |-> handler[h].preview, source |-> p.source,
             key |-> p.key, side |-> p.side, value |-> p.value, day |-> day]]
  BY DEF Begin, Begins, Handling, environment
<1>6. p.value \in Nat /\ cost \in Nat
  BY <1>3 DEF Preview
<1>7. attempts[k].status = "none"
  BY <1>1, <1>2 DEF CapInv
<1>8. \A a \in AttemptIds \ {k} : attempts'[a] = attempts[a]
  BY <1>4, <1>5
<1>9. /\ attempts'[k].status # "none" /\ attempts'[k].side = p.side
      /\ attempts'[k].value = p.value /\ attempts'[k].day = day
  BY <1>2, <1>4, <1>5
<1>10. policy'.date = day /\ policy'.daily = Today(policy).daily + cost
  BY <1>1, <1>5, <1>6, TodayCovers DEF Charged, Policy
<1>11. p.side = "buy" => Today(policy).daily + cost <= MaxDailyBuy
  BY <1>5 DEF BudgetAllows
<1> HIDE DEF p, k, cost
<1>12. \A d : Charge(attempts, d, k) = 0
  BY <1>7 DEF Charge, BuysIn
<1>13. \A d : Charge(attempts', d, k) = IF d = day THEN cost ELSE 0
  BY <1>2, <1>9 DEF Charge, BuysIn, cost
<1>14. \A d : \A a \in AttemptIds \ {k} : Charge(attempts', d, a) = Charge(attempts, d, a)
  BY <1>8 DEF Charge, BuysIn
<1>15. \A d : SpentIn(attempts', d) = SpentIn(attempts, d) + IF d = day THEN cost ELSE 0
  <2> TAKE d
  <2> DEFINE v == IF d = day THEN cost ELSE 0
  <2>1. v \in Nat
    BY <1>6
  <2>2. Charge(attempts', d, k) = Charge(attempts, d, k) + v
    BY <1>12, <1>13, <2>1
  <2> HIDE DEF v
  <2>3. SpentIn(attempts', d) = SpentIn(attempts, d) + v
    BY <1>2, <1>4, <1>14, <2>1, <2>2, SpentGrows
  <2> QED
    BY <2>3 DEF v
<1>16. \A d : SpentIn(attempts, d) \in Nat
  BY <1>4, SpentNat
<1>17. SpentIn(attempts', policy'.date) <= policy'.daily
  BY <1>1, <1>6, <1>10, <1>15, <1>16, TodayCovers
<1>18. ASSUME NEW d \in 0..MaxDay PROVE SpentIn(attempts', d) <= MaxDailyBuy
  <2>1. SpentIn(attempts, d) <= MaxDailyBuy
    BY DEF CapInv
  <2>2. CASE d = day /\ p.side = "buy"
    BY <1>1, <1>6, <1>11, <1>15, <1>16, <2>2, TodayCovers
  <2>3. CASE ~(d = day /\ p.side = "buy")
    <3>1. (IF d = day THEN cost ELSE 0) = 0
      BY <2>3 DEF cost
    <3> QED
      BY <1>15, <1>16, <2>1, <3>1
  <2> QED
    BY <2>2, <2>3
<1>19. ASSUME NEW a \in AttemptIds, attempts'[a].status # "none"
       PROVE  a <= minted' /\ attempts'[a].day <= policy'.date
  <2>1. CASE a = k
    BY <1>1, <1>5, <1>9, <1>10, <2>1 DEF k
  <2>2. CASE a # k
    <3>1. attempts'[a] = attempts[a] /\ a \in Nat /\ attempts[a].day \in Nat
      BY <1>4, <1>8, <2>2 DEF AttemptIds, Attempt
    <3>2. a <= minted /\ attempts[a].day <= policy.date /\ policy.date <= day
      BY <1>19, <3>1 DEF CapInv
    <3> QED
      BY <1>1, <1>5, <1>10, <3>1, <3>2 DEF k
  <2> QED
    BY <2>1, <2>2
<1>20. policy'.date <= day'
  BY <1>1, <1>5, <1>10
<1> QED
  BY <1>17, <1>18, <1>19, <1>20 DEF CapInv

LEMMA CapInductive == TypeInv /\ CapInv /\ [Next]_vars /\ [~ClearBinding]_vars => CapInv'
<1> SUFFICES ASSUME TypeInv, CapInv, [Next]_vars, [~ClearBinding]_vars PROVE CapInv'
  OBVIOUS
<1>0. TypeInv'
  BY TypesInductive
<1>1. /\ day \in Nat /\ MaxDailyBuy \in Nat
      /\ minted \in Nat
  BY LedgerAssumption DEF TypeInv, TypeOK
<1>2. CASE /\ UNCHANGED <<minted, attempts>> /\ day' \in {day, day + 1}
           /\ SameTotal(policy) \/ SameTotal(Today(policy))
  BY <1>0, <1>2, CapKept DEF SameCost
<1>3. CASE UNCHANGED vars
  BY <1>2, <1>3 DEF vars, ledger, environment, SameTotal
<1>4. CASE User /\ ~ClearBinding
  BY <1>2, <1>4, UserTotals
<1>5. ASSUME NEW h \in Handlers, Submission(h) PROVE CapInv'
  BY <1>0, <1>5, BeginKeepsCap, SubmissionTotals, CapKept
<1>6. ASSUME NEW s \in Syncers, Sync(s) PROVE CapInv'
  BY <1>0, <1>6, SyncTotals, CapKept
<1>7. CASE Stop \/ Expire \/ Arrive \/ Settle
  BY <1>2, <1>7 DEF Stop, Expire, Arrive, Settle, ledger, environment, SameTotal
<1>8. CASE NextDay
  BY <1>2, <1>8 DEF NextDay, ledger, SameTotal
<1>9. CASE Start
  BY <1>2, <1>9, TotalMoves DEF Start, SameTotal
<1>10. CASE StoreLost
  <2>1. policy'.date = day /\ policy'.daily = 0 /\ day' = day /\ minted' = minted
    BY <1>10 DEF StoreLost, DefaultPolicy, environment
  <2>2. \A a \in AttemptIds : attempts'[a].status = "none"
    BY <1>10 DEF StoreLost, NoAttempt
  <2>3. ASSUME NEW d PROVE SpentIn(attempts', d) = 0
    <3>1. attempts' \in [AttemptIds -> Attempt] /\ BuysIn(attempts', d) = {}
      BY <1>0, <2>2 DEF TypeInv, TypeOK, BuysIn
    <3> QED
      BY <3>1, NothingSpent
  <2> QED
    BY <1>1, <2>1, <2>2, <2>3 DEF CapInv
<1> QED
  BY <1>3, <1>4, <1>5, <1>6, <1>7, <1>8, <1>9, <1>10 DEF Next, World, vars

\* The buys begun on a KST day cost no more than the daily limit, whatever
\* handlers, previews, synchronisations and clocks do, unless the binding is
\* cleared: saving or deleting a key puts the whole policy back to its defaults,
\* the day's total with it (clearLocalCryptoLiveTradingBinding).  A lost file
\* forgets the buys with the total, and the limit is about those it holds.
THEOREM BuysStayWithinDailyLimit == Spec /\ [][~ClearBinding]_vars => []DailyCap
<1>1. Init => CapInv
  <2> SUFFICES ASSUME Init PROVE CapInv
    OBVIOUS
  <2>1. attempts \in [AttemptIds -> Attempt] /\ \A d : BuysIn(attempts, d) = {}
    BY NoAttemptType DEF Init, NoAttempt, BuysIn
  <2>2. \A d : SpentIn(attempts, d) = 0
    BY <2>1, NothingSpent
  <2> QED
    BY <2>2, LedgerAssumption DEF Init, CapInv, DefaultPolicy, NoAttempt
<1>2. CapInv => DailyCap
  BY DEF CapInv, DailyCap, Spent, SpentIn, BuysOf, BuysIn
<1> QED
  BY <1>1, <1>2, CapInductive, TypesInvariant, PTL DEF Spec
==============================================================================
