--------------------------- MODULE TossLedger_proofs ---------------------------
(***************************************************************************)
(* What the Toss ledger guarantees for any number of concurrent            *)
(* submissions, previews, strategy steps, accounts, API keys, limits and   *)
(* days: its lock, what live automation rests on, and that it implements   *)
(* OrderJournal.                                                           *)
(***************************************************************************)
EXTENDS TossLedger, FiniteSetTheorems, WellFoundedInduction, TLAPS

-----------------------------------------------------------------------------
(* Types. *)

TypeInv ==
    /\ TypeOK
    /\ \A h \in Handlers : handler[h].pc # "idle" => handler[h].order \in Orders

LEMMA InitTypes == Init => TypeInv
<1> SUFFICES ASSUME Init PROVE TypeInv
  OBVIOUS
<1>1. 0 \in 0..MaxDay
  BY TossAssumption
<1>2. DefaultPolicy(0) \in Policy
  BY <1>1 DEF DefaultPolicy, Policy
<1>3. NoAttempt \in Attempt /\ IdleHandler \in Handler /\ IdleHandler.pc = "idle"
  BY <1>1 DEF NoAttempt, Attempt, IdleHandler, Handler
<1> QED
  BY <1>1, <1>2, <1>3 DEF Init, TypeInv, TypeOK

\* Every policy an operation writes.
LEMMA PolicyTypes ==
    ASSUME TypeOK
    PROVE  /\ Today(policy) \in Policy /\ DefaultPolicy(day) \in Policy
           /\ \A a \in Accounts, k \in ApiKeys : Rebound(a, k) \in Policy
           /\ \A o \in Orders : Charged(o) \in Policy /\ Locked(o) \in Policy
           /\ [policy EXCEPT !.consent = TRUE] \in Policy
           /\ [policy EXCEPT !.safety = TRUE] \in Policy
           /\ \A pol \in {policy, Today(policy)} :
                 /\ BothOff(pol) \in Policy
                 /\ \A b \in BOOLEAN : /\ [pol EXCEPT !.manual = b] \in Policy
                                       /\ [pol EXCEPT !.auto = b] \in Policy
                                       /\ [pol EXCEPT !.reconciled = b] \in Policy
                                       /\ [pol EXCEPT !.reconciled = b, !.lock = None] \in Policy
<1>1. policy \in Policy /\ day \in 0..MaxDay
  BY DEF TypeOK
<1>2. Today(policy) \in Policy
  BY <1>1 DEF Today, Policy
<1>3. DefaultPolicy(day) \in Policy
  BY <1>1 DEF DefaultPolicy, Policy
<1>4. \A a \in Accounts, k \in ApiKeys : Rebound(a, k) \in Policy
  <2>1. Today(policy).daily \in Nat
    BY <1>2 DEF Policy
  <2> QED
    BY <1>3, <2>1 DEF Rebound, Policy
<1>5. ASSUME NEW o \in Orders PROVE Charged(o) \in Policy /\ Locked(o) \in Policy
  <2>1. Value[o] \in Nat
    BY TossAssumption
  <2>2. Today(policy).daily + (IF o \in Sells THEN 0 ELSE Value[o]) \in Nat
    BY <1>2, <2>1 DEF Policy
  <2>3. Charged(o) \in Policy
    BY <1>2, <2>2 DEF Charged, Policy
  <2>4. Locked(o) \in Policy
    BY <1>1 DEF Locked, Policy
  <2> QED
    BY <2>3, <2>4
<1>6. ASSUME NEW pol \in Policy, NEW b \in BOOLEAN
      PROVE  /\ BothOff(pol) \in Policy
             /\ [pol EXCEPT !.manual = b] \in Policy /\ [pol EXCEPT !.auto = b] \in Policy
             /\ [pol EXCEPT !.reconciled = b] \in Policy
             /\ [pol EXCEPT !.reconciled = b, !.lock = None] \in Policy
  BY DEF BothOff, Policy
<1>7. [policy EXCEPT !.consent = TRUE] \in Policy /\ [policy EXCEPT !.safety = TRUE] \in Policy
  BY <1>1 DEF Policy
<1> QED
  BY <1>1, <1>2, <1>3, <1>4, <1>5, <1>6, <1>7

LEMMA UserTypes ==
    ASSUME TypeInv, User
    PROVE  TypeInv'
<1>1. UNCHANGED <<day, attempts, handler, broker>>
  BY DEF User, VerifyReadiness, Consent, EnableManual, EnableAutomation, Disable,
     RecordSafetyProof, SetPolicy
<1>2. policy' \in Policy
  <2>1. TypeOK
    BY DEF TypeInv
  <2>2. CASE VerifyReadiness
    BY <2>1, <2>2, PolicyTypes DEF VerifyReadiness, SetPolicy
  <2>3. CASE Consent \/ RecordSafetyProof
    BY <2>1, <2>3, PolicyTypes DEF Consent, RecordSafetyProof, SetPolicy
  <2>4. CASE EnableManual \/ EnableAutomation
    BY <2>1, <2>4, PolicyTypes DEF EnableManual, EnableAutomation, SetPolicy
  <2>5. CASE Disable
    BY <2>1, <2>5, PolicyTypes DEF Disable, SetPolicy
  <2> QED
    BY <2>2, <2>3, <2>4, <2>5 DEF User
<1> QED
  BY <1>1, <1>2 DEF TypeInv, TypeOK, broker

\* What a step of a handler makes of its record.
LEMMA RecordTypes ==
    ASSUME NEW rec \in Handler
    PROVE  /\ IdleHandler \in Handler /\ IdleHandler.pc = "idle"
           /\ \A o \in Orders : [IdleHandler EXCEPT !.pc = "gated", !.order = o] \in Handler
           /\ \A r \in {"ok", "rejected", "unknown"} :
                 [rec EXCEPT !.pc = "answered", !.reply = r] \in Handler
           /\ [rec EXCEPT !.pc = "ready", !.kept = TRUE] \in Handler
           /\ [rec EXCEPT !.pc = "marked"] \in Handler
           /\ [rec EXCEPT !.kept = FALSE] \in Handler
BY ZenonT(60) DEF Handler, IdleHandler

LEMMA RecordOrders ==
    ASSUME NEW rec \in Handler
    PROVE  /\ \A o \in Orders : [IdleHandler EXCEPT !.pc = "gated", !.order = o].order = o
           /\ \A r \in {"ok", "rejected", "unknown"} :
                 [rec EXCEPT !.pc = "answered", !.reply = r].order = rec.order
           /\ [rec EXCEPT !.pc = "ready", !.kept = TRUE].order = rec.order
           /\ [rec EXCEPT !.pc = "marked"].order = rec.order
           /\ [rec EXCEPT !.kept = FALSE].order = rec.order
           /\ [rec EXCEPT !.kept = FALSE].pc = rec.pc
BY DEF Handler, IdleHandler

LEMMA SubmissionTypes ==
    ASSUME TypeInv, NEW h \in Handlers, Submission(h)
    PROVE  TypeInv'
<1> DEFINE rec == handler[h]
<1>1. /\ TypeOK /\ handler \in [Handlers -> Handler] /\ rec \in Handler
      /\ attempts \in [Orders -> Attempt] /\ day \in 0..MaxDay
      /\ posted \in [Orders -> 0..2] /\ book \subseteq Orders /\ wire \subseteq Orders
      /\ \A g \in Handlers : handler[g].pc # "idle" => handler[g].order \in Orders
  BY DEF TypeInv, TypeOK
<1>2. UNCHANGED <<day, forgotten>>
  BY DEF Submission, ManualSubmit, AutomationSubmit, Prepare, Refuse, MarkPreviewFails, Post,
     MarkSubmitted, Track, AfterPostFails, MarkRejected, MarkUnknown, MarkFails, Handling, broker
<1>3. \E new \in Handler : /\ handler' = [handler EXCEPT ![h] = new]
                           /\ new.pc # "idle" => new.order \in Orders
  <2>1. CASE Refuse(h) \/ MarkPreviewFails(h) \/ Track(h) \/ MarkRejected(h) \/ MarkUnknown(h) \/ MarkFails(h)
    BY <1>1, <2>1, RecordTypes
       DEF Refuse, MarkPreviewFails, Track, MarkRejected, MarkUnknown, MarkFails, Handling
  <2>2. CASE ManualSubmit(h)
    <3>1. PICK o \in Manual : handler' = [handler EXCEPT ![h] = [IdleHandler EXCEPT !.pc = "gated", !.order = o]]
      BY <2>2 DEF ManualSubmit, Handling
    <3> DEFINE new == [IdleHandler EXCEPT !.pc = "gated", !.order = o]
    <3>2. new \in Handler /\ new.order \in Orders
      BY ZenonT(60), <1>1, RecordTypes, RecordOrders DEF Orders
    <3> HIDE DEF new
    <3>3. handler' = [handler EXCEPT ![h] = new]
      BY <3>1 DEF new
    <3> QED
      BY <3>2, <3>3
  <2>3. CASE AutomationSubmit(h)
    <3>1. PICK o \in Automated : handler' = [handler EXCEPT ![h] = [IdleHandler EXCEPT !.pc = "gated", !.order = o]]
      BY <2>3 DEF AutomationSubmit, Handling
    <3> DEFINE new == [IdleHandler EXCEPT !.pc = "gated", !.order = o]
    <3>2. new \in Handler /\ new.order \in Orders
      BY ZenonT(60), <1>1, RecordTypes, RecordOrders DEF Orders
    <3> HIDE DEF new
    <3>3. handler' = [handler EXCEPT ![h] = new]
      BY <3>1 DEF new
    <3> QED
      BY <3>2, <3>3
  <2>4. CASE Prepare(h)
    <3>1. handler' = [handler EXCEPT ![h] = [rec EXCEPT !.pc = "ready", !.kept = TRUE]]
      BY <2>4 DEF Prepare, Handling
    <3> DEFINE new == [rec EXCEPT !.pc = "ready", !.kept = TRUE]
    <3>2. rec.order \in Orders
      BY SMTT(60), <1>1, <2>4 DEF Prepare
    <3>3. new \in Handler /\ new.order \in Orders
      BY <1>1, <3>2, RecordTypes, RecordOrders
    <3> QED
      BY <3>1, <3>3
  <2>5. CASE Post(h)
    <3>1. PICK r \in {"ok", "rejected", "unknown"} :
             handler' = [handler EXCEPT ![h] = [rec EXCEPT !.pc = "answered", !.reply = r]]
      BY <2>5 DEF Post, Handling
    <3>2. rec.order \in Orders
      BY <1>1, <2>5 DEF Post
    <3> DEFINE new == [rec EXCEPT !.pc = "answered", !.reply = r]
    <3>3. new \in Handler /\ new.order \in Orders
      BY <1>1, <3>2 DEF Handler
    <3> QED
      BY <3>1, <3>3
  <2>6. CASE MarkSubmitted(h)
    BY ZenonT(60), <1>1, <2>6, RecordTypes, RecordOrders DEF MarkSubmitted, Handling
  <2>7. CASE AfterPostFails(h)
    BY ZenonT(60), <1>1, <2>7, RecordTypes, RecordOrders DEF AfterPostFails, Handling
  <2> QED
    BY SMTT(60), <2>1, <2>2, <2>3, <2>4, <2>5, <2>6, <2>7 DEF Submission
<1>4. policy' \in Policy
  <2>1. CASE ManualSubmit(h) \/ AutomationSubmit(h)
    BY <1>1, <2>1, PolicyTypes DEF ManualSubmit, AutomationSubmit
  <2>2. CASE Prepare(h)
    BY <1>1, <2>2, PolicyTypes DEF Prepare
  <2>3. CASE MarkSubmitted(h)
    <3>1. policy \in Policy
      BY <1>1 DEF TypeOK
    <3>2. (policy.reconciled /\ handler[h].order \notin Manual) \in BOOLEAN
      OBVIOUS
    <3>3. policy' = [policy EXCEPT !.reconciled = policy.reconciled /\ handler[h].order \notin Manual]
      BY <2>3 DEF MarkSubmitted
    <3> QED
      BY <1>1, <3>1, <3>2, <3>3, PolicyTypes
  <2>4. CASE MarkUnknown(h)
    BY <1>1, <2>4, PolicyTypes DEF MarkUnknown
  <2>5. CASE Refuse(h) \/ MarkPreviewFails(h) \/ Post(h) \/ Track(h) \/ AfterPostFails(h)
             \/ MarkRejected(h) \/ MarkFails(h)
    BY <1>1, <2>5 DEF Refuse, MarkPreviewFails, Post, Track, AfterPostFails, MarkRejected,
       MarkFails, ledger, TypeOK
  <2> QED
    BY <2>1, <2>2, <2>3, <2>4, <2>5 DEF Submission
<1>5. attempts' \in [Orders -> Attempt]
  <2>1. CASE Prepare(h)
    <3>1. [status |-> "submission_pending", day |-> day] \in Attempt
      BY <1>1 DEF Attempt, Statuses
    <3> QED
      BY <1>1, <2>1, <3>1 DEF Prepare
  <2>2. ASSUME NEW status \in Statuses, Mark(handler[h].order, status) PROVE attempts' \in [Orders -> Attempt]
    BY <1>1, <2>2 DEF Mark, Attempt
  <2>3. CASE MarkSubmitted(h) \/ MarkRejected(h) \/ MarkUnknown(h)
    BY <2>2, <2>3 DEF MarkSubmitted, MarkRejected, MarkUnknown, Statuses
  <2>4. CASE ~ (Prepare(h) \/ MarkSubmitted(h) \/ MarkRejected(h) \/ MarkUnknown(h))
    BY <1>1, <2>4 DEF Submission, ManualSubmit, AutomationSubmit, Refuse, MarkPreviewFails, Post,
       Track, AfterPostFails, MarkFails, ledger
  <2> QED
    BY <2>1, <2>3, <2>4
<1>6. book' \subseteq Orders /\ wire' \subseteq Orders /\ posted' \in [Orders -> 0..2]
  <2>1. CASE Post(h)
    <3> DEFINE o == handler[h].order
    <3>1. o \in Orders
      BY <1>1, <2>1 DEF Post
    <3>2. posted' \in {posted, [posted EXCEPT ![o] = IF @ < 2 THEN @ + 1 ELSE @]}
      BY <2>1 DEF Post
    <3>3. (IF posted[o] < 2 THEN posted[o] + 1 ELSE posted[o]) \in 0..2
      BY <1>1, <3>1
    <3>4. book' \in {book, book \cup {o}} /\ wire' \in {wire, wire \cup {o}}
      BY <2>1 DEF Post
    <3> QED
      BY <1>1, <3>1, <3>2, <3>3, <3>4
  <2>2. CASE ~ Post(h)
    BY <1>1, <2>2 DEF Submission, ManualSubmit, AutomationSubmit, Prepare, Refuse, MarkPreviewFails,
       MarkSubmitted, Track, AfterPostFails, MarkRejected, MarkUnknown, MarkFails, broker
  <2> QED
    BY <2>1, <2>2
<1>7. TypeOK'
  BY <1>1, <1>2, <1>3, <1>4, <1>5, <1>6 DEF TypeOK
<1>8. \A g \in Handlers : handler'[g].pc # "idle" => handler'[g].order \in Orders
  BY <1>1, <1>3
<1> QED
  BY <1>7, <1>8 DEF TypeInv

LEMMA WorldTypes ==
    ASSUME TypeInv, World
    PROVE  TypeInv'
<1>1. /\ TypeOK /\ handler \in [Handlers -> Handler] /\ policy \in Policy
      /\ attempts \in [Orders -> Attempt] /\ day \in 0..MaxDay
      /\ posted \in [Orders -> 0..2] /\ book \subseteq Orders /\ wire \subseteq Orders
      /\ forgotten \subseteq Orders
      /\ \A g \in Handlers : handler[g].pc # "idle" => handler[g].order \in Orders
  BY DEF TypeInv, TypeOK
<1>2. CASE Reconcile
  <2>1. PICK matched \in SUBSET Orders, sameTime \in BOOLEAN :
          LET before == matched \cap Manual = {} \/ ~sameTime
          IN  /\ attempts' = [o \in Orders |-> [attempts[o] EXCEPT !.status =
                                  IF o \in matched THEN "reconciled" ELSE @]]
              /\ policy' = IF NoUnknown
                           THEN [Today(policy) EXCEPT !.reconciled = before, !.lock = None]
                           ELSE [Today(policy) EXCEPT !.reconciled = @ /\ matched \cap Manual = {}]
    BY <1>2 DEF Reconcile
  <2>2. attempts' \in [Orders -> Attempt]
    BY <1>1, <2>1 DEF Attempt, Statuses
  <2>3. policy' \in Policy
    <3>1. (matched \cap Manual = {} \/ ~sameTime) \in BOOLEAN
          /\ (Today(policy).reconciled /\ matched \cap Manual = {}) \in BOOLEAN
      BY SMTT(60), ZenonT(60)
    <3> QED
      BY <1>1, <2>1, <3>1, PolicyTypes
  <2> QED
    BY SMTT(60), <1>1, <1>2, <2>2, <2>3 DEF Reconcile, TypeInv, TypeOK, broker
<1>3. CASE Restart
  BY <1>1, <1>3, RecordTypes DEF Restart, TypeInv, TypeOK, ledger, broker
<1>4. CASE LedgerLost
  <2>1. NoAttempt \in Attempt
    BY TossAssumption DEF NoAttempt, Attempt
  <2>2. attempts' \in [Orders -> Attempt] /\ policy' \in Policy
    BY <1>1, <1>4, <2>1, PolicyTypes DEF LedgerLost
  <2>3. posted' \in [Orders -> 0..2] /\ book' \subseteq Orders /\ wire' \subseteq Orders
        /\ forgotten' \subseteq Orders /\ day' = day
    BY <1>1, <1>4 DEF LedgerLost
  <2>4. handler' = [h \in Handlers |-> [handler[h] EXCEPT !.kept = FALSE]]
    BY SMTT(60), <1>4 DEF LedgerLost
  <2>5. handler' \in [Handlers -> Handler]
        /\ \A g \in Handlers : handler'[g].pc # "idle" => handler'[g].order \in Orders
    BY <1>1, <2>4, RecordTypes, RecordOrders
  <2> QED
    BY <1>1, <2>2, <2>3, <2>5 DEF TypeInv, TypeOK
<1>5. CASE Arrive
  BY <1>1, <1>5 DEF Arrive, TypeInv, TypeOK, ledger
<1>6. CASE NextDay
  <2>1. day' \in 0..MaxDay
    BY <1>1, <1>6, TossAssumption DEF NextDay
  <2> QED
    BY <1>1, <1>6, <2>1 DEF NextDay, TypeInv, TypeOK, ledger, broker
<1> QED
  BY <1>2, <1>3, <1>4, <1>5, <1>6 DEF World

\* The ledger file, the handlers and the broker keep their types.
THEOREM TypesHold == Spec => []TypeOK
<1>1. TypeInv /\ [Next]_vars => TypeInv'
  <2> SUFFICES ASSUME TypeInv, [Next]_vars PROVE TypeInv'
    OBVIOUS
  <2>1. CASE UNCHANGED vars
    BY <2>1 DEF vars, ledger, broker, TypeInv, TypeOK
  <2> QED
    BY <2>1, UserTypes, SubmissionTypes, WorldTypes DEF Next
<1>2. TypeInv => TypeOK
  BY DEF TypeInv
<1> QED
  BY <1>1, <1>2, InitTypes, PTL DEF Spec

-----------------------------------------------------------------------------
(* A handler whose attempt is still in the file knows its status, and is the *)
(* only one: prepare refused every other.                                    *)

KeptOK(h) ==
    handler[h].kept =>
        /\ handler[h].pc \in {"ready", "answered", "marked"}
        /\ handler[h].pc = "ready" => attempts[handler[h].order].status = "submission_pending"
        /\ handler[h].pc = "answered" =>
              /\ attempts[handler[h].order].status \in {"submission_pending", "submitted", "reconciled"}
              /\ handler[h].reply # "unknown" => attempts[handler[h].order].status = "submission_pending"
        /\ handler[h].pc = "marked" => attempts[handler[h].order].status \in {"submitted", "reconciled"}

KeptOnce ==
    \A g, h \in Handlers :
        handler[g].kept /\ handler[h].kept /\ handler[g].order = handler[h].order => g = h

KeptInv == (\A h \in Handlers : KeptOK(h)) /\ KeptOnce

LEMMA InitKept == Init => KeptInv
BY DEF Init, KeptInv, KeptOK, KeptOnce, IdleHandler

\* A handler changes the status of no order another one holds.
LEMMA OthersKeep ==
    ASSUME TypeInv, KeptInv, NEW h \in Handlers, Submission(h),
           NEW g \in Handlers, g # h, handler[g].kept
    PROVE  /\ handler'[g] = handler[g]
           /\ attempts'[handler[g].order] = attempts[handler[g].order]
<1>1. /\ handler \in [Handlers -> Handler] /\ attempts \in [Orders -> Attempt]
      /\ KeptOK(g) /\ KeptOnce
      /\ handler[g].pc # "idle" => handler[g].order \in Orders
      /\ handler[h].pc # "idle" => handler[h].order \in Orders
  BY DEF TypeInv, TypeOK, KeptInv
<1>2. /\ handler[g].order \in Orders
      /\ attempts[handler[g].order].status # "none"
  BY <1>1 DEF KeptOK
<1>3. handler'[g] = handler[g]
  BY <1>1 DEF Submission, ManualSubmit, AutomationSubmit, Prepare, Refuse, MarkPreviewFails, Post,
     MarkSubmitted, Track, AfterPostFails, MarkRejected, MarkUnknown, MarkFails, Handling
<1>4. CASE Prepare(h)
  <2>1. handler[h].order # handler[g].order
    BY <1>2, <1>4 DEF Prepare, Prepares
  <2> QED
    BY <1>1, <1>2, <1>3, <1>4, <2>1 DEF Prepare
<1>5. CASE MarkSubmitted(h) \/ MarkRejected(h) \/ MarkUnknown(h)
  <2>1. handler[h].kept /\ \E status : Mark(handler[h].order, status)
    BY <1>5 DEF MarkSubmitted, MarkRejected, MarkUnknown
  <2>2. handler[h].order # handler[g].order
    BY <1>1, <2>1 DEF KeptOnce
  <2> QED
    BY <1>1, <1>2, <1>3, <2>1, <2>2 DEF Mark
<1>6. CASE ~ (Prepare(h) \/ MarkSubmitted(h) \/ MarkRejected(h) \/ MarkUnknown(h))
  BY <1>3, <1>6 DEF Submission, ManualSubmit, AutomationSubmit, Refuse, MarkPreviewFails, Post,
     Track, AfterPostFails, MarkFails, ledger
<1> QED
  BY <1>4, <1>5, <1>6

\* What a step leaves the handler that takes it with.
LEMMA OwnKept ==
    ASSUME TypeInv, KeptInv, NEW h \in Handlers, Submission(h)
    PROVE  /\ KeptOK(h)'
           /\ handler'[h].kept => /\ handler'[h].order = handler[h].order
                                  /\ handler[h].kept \/ attempts[handler[h].order].status = "none"
<1> DEFINE rec == handler[h]
           o == rec.order
<1>1. /\ handler \in [Handlers -> Handler] /\ attempts \in [Orders -> Attempt]
      /\ rec \in Handler /\ KeptOK(h)
      /\ rec.pc # "idle" => o \in Orders
  BY DEF TypeInv, TypeOK, KeptInv
<1>2. CASE Refuse(h) \/ MarkPreviewFails(h) \/ Track(h) \/ MarkRejected(h) \/ MarkUnknown(h) \/ MarkFails(h)
  <2>1. handler' = [handler EXCEPT ![h] = IdleHandler]
    BY <1>2 DEF Refuse, MarkPreviewFails, Track, MarkRejected, MarkUnknown, MarkFails, Handling
  <2>2. ~ handler'[h].kept
    BY <1>1, <2>1 DEF IdleHandler
  <2> QED
    BY <2>2 DEF KeptOK
<1>3. CASE ManualSubmit(h) \/ AutomationSubmit(h)
  <2>1. \E x : handler' = [handler EXCEPT ![h] = [IdleHandler EXCEPT !.pc = "gated", !.order = x]]
    BY <1>3 DEF ManualSubmit, AutomationSubmit, Handling
  <2>2. ~ handler'[h].kept
    BY <1>1, <2>1 DEF IdleHandler
  <2> QED
    BY <2>2 DEF KeptOK
<1>4. CASE Prepare(h)
  <2>1. /\ handler' = [handler EXCEPT ![h] = [rec EXCEPT !.pc = "ready", !.kept = TRUE]]
        /\ attempts' = [attempts EXCEPT ![o] = [status |-> "submission_pending", day |-> day]]
        /\ attempts[o].status = "none" /\ rec.pc = "gated"
    BY <1>4 DEF Prepare, Prepares, Handling
  <2>2. handler'[h].pc = "ready" /\ handler'[h].order = o
    BY <1>1, <2>1 DEF Handler
  <2>3. attempts'[o].status = "submission_pending"
    BY <1>1, <2>1
  <2> QED
    BY <2>1, <2>2, <2>3 DEF KeptOK
<1>5. CASE Post(h)
  <2>1. PICK r \in {"ok", "rejected", "unknown"} :
           handler' = [handler EXCEPT ![h] = [rec EXCEPT !.pc = "answered", !.reply = r]]
    BY <1>5 DEF Post, Handling
  <2>2. rec.pc = "ready" /\ attempts' = attempts
    BY <1>5 DEF Post, ledger
  <2>3. handler'[h].pc = "answered" /\ handler'[h].order = o /\ handler'[h].kept = rec.kept
    BY <1>1, <2>1 DEF Handler
  <2> QED
    BY <1>1, <2>2, <2>3 DEF KeptOK
<1>6. CASE MarkSubmitted(h)
  <2>1. /\ handler' = [handler EXCEPT ![h] = [rec EXCEPT !.pc = "marked"]]
        /\ attempts' = [attempts EXCEPT ![o].status = "submitted"]
        /\ rec.kept /\ rec.pc = "answered"
    BY <1>6 DEF MarkSubmitted, Mark, Handling
  <2>2. handler'[h].pc = "marked" /\ handler'[h].order = o
    BY <1>1, <2>1 DEF Handler
  <2>3. attempts'[o].status = "submitted"
    BY <1>1, <2>1 DEF Attempt
  <2> QED
    BY <2>1, <2>2, <2>3 DEF KeptOK
<1>7. CASE AfterPostFails(h)
  <2>1. /\ handler' = [handler EXCEPT ![h] = [rec EXCEPT !.pc = "answered", !.reply = "unknown"]]
        /\ attempts' = attempts /\ rec.pc \in {"answered", "marked"}
    BY <1>7 DEF AfterPostFails, Handling, ledger
  <2>2. handler'[h].pc = "answered" /\ handler'[h].order = o /\ handler'[h].kept = rec.kept
        /\ handler'[h].reply = "unknown"
    BY <1>1, <2>1 DEF Handler
  <2> QED
    BY <1>1, <2>1, <2>2 DEF KeptOK
<1> QED
  BY <1>2, <1>3, <1>4, <1>5, <1>6, <1>7 DEF Submission

LEMMA KeptInductive == TypeInv /\ KeptInv /\ [Next]_vars => KeptInv'
<1> SUFFICES ASSUME TypeInv, KeptInv, [Next]_vars PROVE KeptInv'
  OBVIOUS
<1>1. /\ handler \in [Handlers -> Handler] /\ attempts \in [Orders -> Attempt]
      /\ \A h \in Handlers : handler[h].pc # "idle" => handler[h].order \in Orders
  BY DEF TypeInv, TypeOK
<1>2. ASSUME UNCHANGED <<handler, attempts>> PROVE KeptInv'
  BY <1>2 DEF KeptInv, KeptOK, KeptOnce
<1>3. ASSUME NEW h \in Handlers, Submission(h) PROVE KeptInv'
  <2>1. \A g \in Handlers : KeptOK(g)'
    <3>1. \A g \in Handlers : g # h => (handler[g].kept \/ ~handler'[g].kept)
      BY <1>1, <1>3 DEF Submission, ManualSubmit, AutomationSubmit, Prepare, Refuse, MarkPreviewFails,
         Post, MarkSubmitted, Track, AfterPostFails, MarkRejected, MarkUnknown, MarkFails, Handling
    <3>2. ASSUME NEW g \in Handlers, g # h, handler[g].kept PROVE KeptOK(g)'
      BY <1>3, <3>2, OthersKeep DEF KeptInv, KeptOK
    <3>3. KeptOK(h)'
      BY <1>3, OwnKept
    <3> QED
      BY <3>1, <3>2, <3>3 DEF KeptOK
  <2>2. KeptOnce'
    <3> SUFFICES ASSUME NEW f \in Handlers, NEW g \in Handlers, f # g,
                        handler'[f].kept, handler'[g].kept, handler'[f].order = handler'[g].order
                 PROVE  FALSE
      BY DEF KeptOnce
    <3>1. \A x \in Handlers : x # h => handler'[x] = handler[x]
      BY <1>1, <1>3 DEF Submission, ManualSubmit, AutomationSubmit, Prepare, Refuse, MarkPreviewFails,
         Post, MarkSubmitted, Track, AfterPostFails, MarkRejected, MarkUnknown, MarkFails, Handling
    <3>2. handler'[h].kept => /\ handler'[h].order = handler[h].order
                              /\ handler[h].kept \/ attempts[handler[h].order].status = "none"
      BY <1>3, OwnKept
    <3>3. \A x \in Handlers : handler[x].kept => attempts[handler[x].order].status # "none"
      BY DEF KeptInv, KeptOK
    <3> QED
      BY <3>1, <3>2, <3>3 DEF KeptInv, KeptOnce
  <2> QED
    BY <2>1, <2>2 DEF KeptInv
<1>4. CASE User
  BY <1>2, <1>4 DEF User, VerifyReadiness, Consent, EnableManual, EnableAutomation, Disable,
     RecordSafetyProof, SetPolicy
<1>5. CASE Reconcile
  <2>1. PICK matched \in SUBSET {o \in Orders : attempts[o].status = "submitted"} :
          attempts' = [o \in Orders |-> [attempts[o] EXCEPT !.status = IF o \in matched THEN "reconciled" ELSE @]]
    BY <1>5 DEF Reconcile
  <2>2. \A o \in Orders : \/ attempts'[o].status = attempts[o].status
                          \/ attempts[o].status = "submitted" /\ attempts'[o].status = "reconciled"
    BY <1>1, <2>1 DEF Attempt
  <2>3. handler' = handler
    BY <1>5 DEF Reconcile
  <2>4. ASSUME NEW h \in Handlers PROVE KeptOK(h)'
    BY <1>1, <2>2, <2>3 DEF KeptInv, KeptOK
  <2> QED
    BY <2>3, <2>4 DEF KeptInv, KeptOnce
<1>6. CASE Restart \/ LedgerLost
  <2>1. \A h \in Handlers : ~ handler'[h].kept
    BY <1>1, <1>6 DEF Restart, LedgerLost, IdleHandler, Handler
  <2> QED
    BY <2>1 DEF KeptInv, KeptOK, KeptOnce
<1>7. CASE Arrive \/ NextDay \/ UNCHANGED vars
  BY <1>2, <1>7 DEF Arrive, NextDay, ledger, vars
<1> QED
  BY <1>3, <1>4, <1>5, <1>6, <1>7 DEF Next, World

-----------------------------------------------------------------------------
(* The lock. *)

\* Operations that neither mark nor reconcile leave the set of unknown attempts
\* and the lock alone.
LEMMA LockUntouched ==
    ASSUME TypeInv, LockMeansUnknown, policy'.lock = policy.lock,
           \A o \in Orders : (attempts'[o].status = "unknown") <=> (attempts[o].status = "unknown")
    PROVE  LockMeansUnknown'
BY DEF LockMeansUnknown, Unknown

LEMMA LockInductive ==
    ASSUME TypeInv, KeptInv, LockMeansUnknown, [Next]_vars
    PROVE  LockMeansUnknown'
<1>1. /\ handler \in [Handlers -> Handler] /\ attempts \in [Orders -> Attempt]
      /\ policy \in Policy /\ Today(policy).lock = policy.lock
      /\ \A h \in Handlers : handler[h].pc # "idle" => handler[h].order \in Orders
  BY DEF TypeInv, TypeOK, Today, Policy
<1>2. CASE User
  <2>1. attempts' = attempts
    BY <1>2 DEF User, VerifyReadiness, Consent, EnableManual, EnableAutomation, Disable,
       RecordSafetyProof, SetPolicy
  <2>2. policy'.lock = policy.lock
    <3>1. CASE VerifyReadiness
      <4>1. \A a \in Accounts, k \in ApiKeys : Rebound(a, k).lock = None
        BY DEF Rebound, DefaultPolicy
      <4> QED
        BY <1>1, <3>1, <4>1 DEF VerifyReadiness, SetPolicy
    <3>2. CASE Consent \/ RecordSafetyProof
      BY <1>1, <3>2 DEF Consent, RecordSafetyProof, SetPolicy, Policy
    <3>3. CASE EnableManual \/ EnableAutomation \/ Disable
      <4>1. Today(policy) \in Policy
        BY PolicyTypes DEF TypeInv
      <4>2. \A b \in BOOLEAN : /\ [Today(policy) EXCEPT !.manual = b].lock = policy.lock
                               /\ [Today(policy) EXCEPT !.auto = b].lock = policy.lock
        BY <1>1, <4>1 DEF Policy
      <4>3. BothOff(Today(policy)).lock = policy.lock
        BY <1>1, <4>1 DEF Policy, BothOff
      <4> QED
        BY <3>3, <4>2, <4>3 DEF EnableManual, EnableAutomation, Disable, SetPolicy
    <3> QED
      BY <1>2, <3>1, <3>2, <3>3 DEF User
  <2> QED
    BY <2>1, <2>2, LockUntouched
<1>3. ASSUME NEW h \in Handlers, Submission(h) PROVE LockMeansUnknown'
  <2> DEFINE o == handler[h].order
  <2>1. CASE MarkUnknown(h)
    <3>1. /\ attempts' = [attempts EXCEPT ![o].status = "unknown"]
          /\ policy' = [policy EXCEPT !.auto = FALSE, !.lock = o]
          /\ o \in Orders
      BY <1>1, <2>1 DEF MarkUnknown, Mark, Locked
    <3>2. attempts'[o].status = "unknown" /\ policy'.lock = o /\ o # None
      BY <1>1, <3>1, TossAssumption DEF Attempt, Policy
    <3> QED
      BY <3>1, <3>2 DEF LockMeansUnknown, Unknown
  <2>2. CASE MarkSubmitted(h) \/ MarkRejected(h)
    <3>1. /\ \E status \in {"submitted", "rejected"} : attempts' = [attempts EXCEPT ![o].status = status]
          /\ handler[h].kept /\ handler[h].pc = "answered" /\ handler[h].reply # "unknown"
      BY <2>2 DEF MarkSubmitted, MarkRejected, Mark
    <3>2. attempts[o].status = "submission_pending" /\ o \in Orders
      BY <1>1, <3>1 DEF KeptInv, KeptOK
    <3>3. policy'.lock = policy.lock
      BY <1>1, <2>2 DEF MarkSubmitted, MarkRejected, Policy
    <3>4. \A x \in Orders : (attempts'[x].status = "unknown") <=> (attempts[x].status = "unknown")
      BY <1>1, <3>1, <3>2 DEF Attempt
    <3> QED
      BY <3>3, <3>4, LockUntouched
  <2>3. CASE Prepare(h)
    <3>1. /\ attempts' = [attempts EXCEPT ![o] = [status |-> "submission_pending", day |-> day]]
          /\ attempts[o].status = "none" /\ policy' = Charged(o)
      BY <2>3 DEF Prepare, Prepares
    <3>2. policy'.lock = policy.lock
      <4>1. Today(policy) \in Policy
        BY PolicyTypes DEF TypeInv
      <4> QED
        BY <1>1, <3>1, <4>1 DEF Charged, Policy
    <3>3. \A x \in Orders : (attempts'[x].status = "unknown") <=> (attempts[x].status = "unknown")
      BY <1>1, <3>1
    <3> QED
      BY <3>2, <3>3, LockUntouched
  <2>4. CASE ManualSubmit(h) \/ AutomationSubmit(h)
    BY <1>1, <2>4, LockUntouched DEF ManualSubmit, AutomationSubmit
  <2>5. CASE Refuse(h) \/ MarkPreviewFails(h) \/ Post(h) \/ Track(h) \/ AfterPostFails(h) \/ MarkFails(h)
    <3>1. UNCHANGED ledger
      BY <2>5 DEF Refuse, MarkPreviewFails, Post, Track, AfterPostFails, MarkFails
    <3> QED
      BY <3>1, LockUntouched DEF ledger
  <2> QED
    BY <1>3, <2>1, <2>2, <2>3, <2>4, <2>5 DEF Submission
<1>4. CASE Reconcile
  <2>1. PICK matched \in SUBSET {x \in Orders : attempts[x].status = "submitted"}, b \in BOOLEAN :
          /\ attempts' = [o \in Orders |-> [attempts[o] EXCEPT !.status = IF o \in matched THEN "reconciled" ELSE @]]
          /\ policy' = IF NoUnknown THEN [Today(policy) EXCEPT !.reconciled = b, !.lock = None]
                       ELSE [Today(policy) EXCEPT !.reconciled = @ /\ matched \cap Manual = {}]
    <3>1. PICK matched \in SUBSET {x \in Orders : attempts[x].status = "submitted"}, sameTime \in BOOLEAN :
          LET before == matched \cap Manual = {} \/ ~sameTime
          IN  /\ attempts' = [o \in Orders |-> [attempts[o] EXCEPT !.status = IF o \in matched THEN "reconciled" ELSE @]]
              /\ policy' = IF NoUnknown
                           THEN [Today(policy) EXCEPT !.reconciled = before, !.lock = None]
                           ELSE [Today(policy) EXCEPT !.reconciled = @ /\ matched \cap Manual = {}]
      BY <1>4 DEF Reconcile
    <3> DEFINE b == matched \cap Manual = {} \/ ~sameTime
    <3>2. b \in BOOLEAN
      OBVIOUS
    <3> QED
      BY ZenonT(60), <3>1, <3>2
  <2>2. \A o \in Orders : (attempts'[o].status = "unknown") <=> (attempts[o].status = "unknown")
    BY <1>1, <2>1 DEF Attempt
  <2>3. Today(policy) \in Policy
    BY PolicyTypes DEF TypeInv
  <2>4. CASE NoUnknown
    <3>1. policy'.lock = None
      BY <2>1, <2>3, <2>4 DEF Policy
    <3> QED
      BY <2>2, <2>4, <3>1 DEF NoUnknown, LockMeansUnknown, Unknown
  <2>5. CASE ~ NoUnknown
    <3>1. policy'.lock = policy.lock
      BY <1>1, <2>1, <2>3, <2>5 DEF Policy
    <3> QED
      BY <2>2, <3>1, LockUntouched
  <2> QED
    BY SMTT(60), <2>4, <2>5
<1>5. CASE LedgerLost
  <2>1. policy'.lock = None /\ \A o \in Orders : attempts'[o].status = "none"
    BY <1>5 DEF LedgerLost, DefaultPolicy, NoAttempt
  <2> QED
    BY <2>1 DEF LockMeansUnknown, Unknown
<1>6. CASE Restart \/ Arrive \/ NextDay \/ UNCHANGED vars
  BY <1>6, LockUntouched DEF Restart, Arrive, NextDay, ledger, vars
<1> QED
  BY <1>2, <1>3, <1>4, <1>5, <1>6 DEF Next, World

LEMMA StateInvariant == Spec => [](TypeInv /\ KeptInv /\ LockMeansUnknown)
<1>1. Init => LockMeansUnknown
  BY DEF Init, LockMeansUnknown, Unknown, DefaultPolicy, NoAttempt
<1>2. TypeInv /\ [Next]_vars => TypeInv'
  <2> SUFFICES ASSUME TypeInv, [Next]_vars PROVE TypeInv'
    OBVIOUS
  <2>1. CASE UNCHANGED vars
    BY <2>1 DEF vars, ledger, broker, TypeInv, TypeOK
  <2> QED
    BY <2>1, UserTypes, SubmissionTypes, WorldTypes DEF Next
<1>3. TypeInv /\ KeptInv /\ LockMeansUnknown /\ [Next]_vars => LockMeansUnknown'
  BY LockInductive
<1> QED
  BY <1>1, <1>2, <1>3, InitTypes, InitKept, KeptInductive, PTL DEF Spec

\* The lock stands exactly while an attempt is unknown, for any number of unknown
\* results, rebindings and reconciliations: the mark writes both at once, and only
\* a reconciliation that finds no unknown attempt lifts it.
THEOREM LockHolds == Spec => []LockMeansUnknown
BY StateInvariant, PTL

-----------------------------------------------------------------------------
(* What live automation rests on. *)

Enough == Cardinality({o \in Manual : Counted(o)}) >= RequiredManual

AutoInv ==
    /\ policy.manual => policy.consent
    /\ policy.consent => policy.account # None
    /\ policy.account # None => policy.hash # None
    /\ policy.auto => policy.manual /\ policy.safety /\ policy.lock = None /\ Enough

\* Orders that count never make the total smaller.
LEMMA EnoughKept ==
    ASSUME TypeInv, Enough, \A o \in Manual : Counted(o) => Counted(o)'
    PROVE  Enough'
<1> DEFINE S == {o \in Manual : Counted(o)}
           T == {o \in Manual : Counted(o)'}
<1>1. IsFiniteSet(Manual)
  BY TossAssumption
<1>2. S \subseteq T /\ T \subseteq Manual
  OBVIOUS
<1>3. IsFiniteSet(T) /\ Cardinality(S) <= Cardinality(T)
  BY <1>1, <1>2, FS_Subset
<1>4. IsFiniteSet(S) /\ Cardinality(S) \in Nat /\ Cardinality(T) \in Nat
  BY <1>2, <1>3, FS_Subset, FS_CardinalityType
<1>5. RequiredManual \in Nat
  BY TossAssumption
<1>6. Cardinality(S) >= RequiredManual
  BY DEF Enough
<1>7. Cardinality(T) >= RequiredManual
  BY <1>3, <1>4, <1>5, <1>6
<1> QED
  BY <1>7 DEF Enough

\* Operations that leave the binding, the consent, the manual toggle and the
\* proofs alone, and turn nothing on.
LEMMA AutoUntouched ==
    ASSUME TypeInv, AutoInv,
           policy'.account = policy.account, policy'.hash = policy.hash,
           policy'.consent = policy.consent, policy'.manual = policy.manual,
           policy.safety => policy'.safety,
           policy'.auto => policy.auto /\ policy'.lock \in {policy.lock, None}
                           /\ \A o \in Manual : Counted(o) => Counted(o)'
    PROVE  AutoInv'
<1>1. policy'.auto => Enough'
  BY EnoughKept DEF AutoInv
<1> QED
  BY <1>1 DEF AutoInv

LEMMA AutoUser ==
    ASSUME TypeInv, LockMeansUnknown, AutoInv, User
    PROVE  AutoInv'
<1>0. policy \in Policy /\ Today(policy) \in Policy
  BY PolicyTypes DEF TypeInv, TypeOK
<1>1. /\ policy \in Policy /\ Today(policy) \in Policy
      /\ Today(policy).account = policy.account /\ Today(policy).hash = policy.hash
      /\ Today(policy).consent = policy.consent /\ Today(policy).manual = policy.manual
      /\ Today(policy).safety = policy.safety /\ Today(policy).auto = policy.auto
      /\ Today(policy).lock = policy.lock
  BY <1>0 DEF Today, Policy
<1>2. attempts' = attempts
  BY DEF User, VerifyReadiness, Consent, EnableManual, EnableAutomation, Disable,
     RecordSafetyProof, SetPolicy
<1>3. \A o \in Manual : Counted(o)' = Counted(o)
  BY <1>2 DEF Counted
<1>4. CASE VerifyReadiness
  <2>1. CASE policy' = Today(policy)
    BY <1>1, <1>3, <2>1, AutoUntouched
  <2>2. ASSUME NEW a \in Accounts, NEW k \in ApiKeys, policy' = Rebound(a, k) PROVE AutoInv'
    <3>1. /\ policy'.manual = FALSE /\ policy'.consent = FALSE /\ policy'.auto = FALSE
          /\ policy'.account = a /\ policy'.hash = k
      BY <2>2 DEF Rebound, DefaultPolicy
    <3>2. a # None /\ k # None
      BY TossAssumption
    <3> QED
      BY <3>1, <3>2 DEF AutoInv
  <2> QED
    BY <1>4, <2>1, <2>2 DEF VerifyReadiness, SetPolicy
<1>5. CASE Consent
  <2>1. policy.account # None
    BY <1>5, TossAssumption DEF Consent, Bound
  <2>2. policy' = [policy EXCEPT !.consent = TRUE]
    BY <1>5 DEF Consent, SetPolicy
  <2>3. /\ policy'.consent = TRUE /\ policy'.account = policy.account /\ policy'.hash = policy.hash
        /\ policy'.manual = policy.manual /\ policy'.auto = policy.auto
        /\ policy'.safety = policy.safety /\ policy'.lock = policy.lock
    BY <1>1, <2>2 DEF Policy
  <2>4. Enough => Enough'
    BY <1>3, EnoughKept
  <2> QED
    BY <2>1, <2>3, <2>4 DEF AutoInv
<1>6. CASE EnableManual
  <2>1. policy' = [Today(policy) EXCEPT !.manual = TRUE] /\ policy.consent
    BY <1>6 DEF EnableManual, SetPolicy
  <2>2. /\ policy'.consent = policy.consent /\ policy'.account = policy.account
        /\ policy'.hash = policy.hash /\ policy'.manual = TRUE /\ policy'.auto = policy.auto
        /\ policy'.safety = policy.safety /\ policy'.lock = policy.lock
    BY <1>1, <2>1 DEF Policy
  <2>3. Enough => Enough'
    BY <1>3, EnoughKept
  <2> QED
    BY <2>1, <2>2, <2>3 DEF AutoInv
<1>7. CASE EnableAutomation
  <2>1. policy' = [Today(policy) EXCEPT !.auto = TRUE]
    BY <1>7 DEF EnableAutomation, SetPolicy
  <2>2. policy.manual /\ policy.safety /\ policy.lock = None /\ Enough
    BY <1>7 DEF EnableAutomation, Eligible, Enough
  <2>3. /\ policy'.consent = policy.consent /\ policy'.account = policy.account
        /\ policy'.hash = policy.hash /\ policy'.manual = policy.manual
        /\ policy'.safety = policy.safety /\ policy'.lock = policy.lock
    BY <1>1, <2>1 DEF Policy
  <2>4. Enough'
    BY <1>3, <2>2, EnoughKept
  <2> QED
    BY <2>2, <2>3, <2>4 DEF AutoInv
<1>8. CASE Disable
  <2>1. CASE policy' = BothOff(Today(policy))
    <3>1. /\ policy'.manual = FALSE /\ policy'.auto = FALSE /\ policy'.consent = policy.consent
          /\ policy'.account = policy.account /\ policy'.hash = policy.hash
      BY <1>1, <2>1 DEF Policy, BothOff
    <3> QED
      BY <3>1 DEF AutoInv
  <2>2. CASE policy' = [Today(policy) EXCEPT !.auto = FALSE]
    <3>1. /\ policy'.manual = policy.manual /\ policy'.auto = FALSE /\ policy'.consent = policy.consent
          /\ policy'.account = policy.account /\ policy'.hash = policy.hash
      BY <1>1, <2>2 DEF Policy
    <3> QED
      BY <3>1 DEF AutoInv
  <2> QED
    BY <1>8, <2>1, <2>2 DEF Disable, SetPolicy
<1>9. CASE RecordSafetyProof
  <2>1. policy' = [policy EXCEPT !.safety = TRUE]
    BY <1>9 DEF RecordSafetyProof, SetPolicy
  <2>2. /\ policy'.consent = policy.consent /\ policy'.account = policy.account
        /\ policy'.hash = policy.hash /\ policy'.manual = policy.manual
        /\ policy'.safety = TRUE /\ policy'.lock = policy.lock /\ policy'.auto = policy.auto
    BY <1>1, <2>1 DEF Policy
  <2> QED
    BY <1>3, <2>2, AutoUntouched
<1> QED
  BY <1>4, <1>5, <1>6, <1>7, <1>8, <1>9 DEF User

LEMMA AutoInductive ==
    ASSUME TypeInv, KeptInv, LockMeansUnknown, AutoInv, [Next]_vars
    PROVE  AutoInv'
<1>1. /\ handler \in [Handlers -> Handler] /\ attempts \in [Orders -> Attempt]
      /\ \A h \in Handlers : handler[h].pc # "idle" => handler[h].order \in Orders
      /\ Manual \subseteq Orders
  BY DEF TypeInv, TypeOK, Orders
<1>0. policy \in Policy /\ Today(policy) \in Policy
  BY PolicyTypes DEF TypeInv, TypeOK
<1>2. /\ policy \in Policy /\ Today(policy) \in Policy
      /\ Today(policy).account = policy.account /\ Today(policy).hash = policy.hash
      /\ Today(policy).consent = policy.consent /\ Today(policy).manual = policy.manual
      /\ Today(policy).safety = policy.safety /\ Today(policy).auto = policy.auto
      /\ Today(policy).lock = policy.lock
  BY <1>0 DEF Today, Policy
<1>3. ASSUME attempts' = attempts PROVE \A o \in Manual : Counted(o) => Counted(o)'
  BY <1>3 DEF Counted
<1>4. ASSUME NEW h \in Handlers, Submission(h) PROVE AutoInv'
  <2> DEFINE o == handler[h].order
  <2>1. CASE Prepare(h)
    <3>1. /\ attempts' = [attempts EXCEPT ![o] = [status |-> "submission_pending", day |-> day]]
          /\ attempts[o].status = "none" /\ policy' = Charged(o)
      BY <2>1 DEF Prepare, Prepares
    <3>2. \A x \in Manual : Counted(x) => Counted(x)'
      BY <1>1, <3>1 DEF Counted
    <3>3. /\ policy'.consent = policy.consent /\ policy'.account = policy.account
          /\ policy'.hash = policy.hash /\ policy'.manual = policy.manual
          /\ policy'.safety = policy.safety /\ policy'.lock = policy.lock /\ policy'.auto = policy.auto
      BY <1>2, <3>1 DEF Charged, Policy
    <3> QED
      BY <3>2, <3>3, AutoUntouched
  <2>2. CASE MarkSubmitted(h) \/ MarkRejected(h)
    <3>1. /\ \E status \in {"submitted", "rejected"} : attempts' = [attempts EXCEPT ![o].status = status]
          /\ handler[h].kept /\ handler[h].pc = "answered" /\ handler[h].reply # "unknown"
      BY <2>2 DEF MarkSubmitted, MarkRejected, Mark
    <3>2. attempts[o].status = "submission_pending" /\ o \in Orders
      BY <1>1, <3>1 DEF KeptInv, KeptOK
    <3>3. \A x \in Manual : Counted(x) => Counted(x)'
      <4> SUFFICES ASSUME NEW x \in Manual, Counted(x) PROVE Counted(x)'
        OBVIOUS
      <4>1. x # o
        BY <3>2 DEF Counted
      <4>2. attempts'[x] = attempts[x]
        BY <1>1, <3>1, <4>1
      <4> QED
        BY <4>2 DEF Counted
    <3>4. /\ policy'.consent = policy.consent /\ policy'.account = policy.account
          /\ policy'.hash = policy.hash /\ policy'.manual = policy.manual
          /\ policy'.safety = policy.safety /\ policy'.lock = policy.lock /\ policy'.auto = policy.auto
      BY <1>2, <2>2 DEF MarkSubmitted, MarkRejected, Policy
    <3> QED
      BY <3>3, <3>4, AutoUntouched
  <2>3. CASE MarkUnknown(h)
    <3>1. /\ policy'.consent = policy.consent /\ policy'.account = policy.account
          /\ policy'.hash = policy.hash /\ policy'.manual = policy.manual /\ policy'.auto = FALSE
      BY <1>2, <2>3 DEF MarkUnknown, Locked, Policy
    <3> QED
      BY <3>1 DEF AutoInv
  <2>4. CASE ManualSubmit(h) \/ AutomationSubmit(h)
    BY <1>2, <1>3, <2>4, AutoUntouched DEF ManualSubmit, AutomationSubmit
  <2>5. CASE Refuse(h) \/ MarkPreviewFails(h) \/ Post(h) \/ Track(h) \/ AfterPostFails(h) \/ MarkFails(h)
    <3>1. UNCHANGED ledger
      BY <2>5 DEF Refuse, MarkPreviewFails, Post, Track, AfterPostFails, MarkFails
    <3> QED
      BY <1>3, <3>1, AutoUntouched DEF ledger
  <2> QED
    BY <1>4, <2>1, <2>2, <2>3, <2>4, <2>5 DEF Submission
<1>5. CASE Reconcile
  <2>1. PICK matched \in SUBSET {x \in Orders : attempts[x].status = "submitted"}, sameTime \in BOOLEAN :
          LET before == matched \cap Manual = {} \/ ~sameTime
          IN  /\ attempts' = [x \in Orders |-> [attempts[x] EXCEPT !.status = IF x \in matched THEN "reconciled" ELSE @]]
              /\ policy' = IF NoUnknown
                           THEN [Today(policy) EXCEPT !.reconciled = before, !.lock = None]
                           ELSE [Today(policy) EXCEPT !.reconciled = @ /\ matched \cap Manual = {}]
    BY <1>5 DEF Reconcile
  <2>2. \A x \in Manual : Counted(x) => Counted(x)'
    BY <1>1, <2>1 DEF Counted, Attempt
  <2>3. /\ policy'.consent = policy.consent /\ policy'.account = policy.account
        /\ policy'.hash = policy.hash /\ policy'.manual = policy.manual
        /\ policy'.safety = policy.safety /\ policy'.auto = policy.auto
        /\ policy'.lock \in {policy.lock, None}
    BY <1>2, <2>1 DEF Policy
  <2> QED
    BY SMTT(60), <2>2, <2>3, AutoUntouched
<1>6. CASE LedgerLost
  <2>1. policy' = DefaultPolicy(day)
    BY <1>6 DEF LedgerLost
  <2> QED
    BY <2>1 DEF AutoInv, DefaultPolicy
<1>7. CASE Restart \/ Arrive \/ NextDay \/ UNCHANGED vars
  <2>1. UNCHANGED ledger
    BY <1>7 DEF Restart, Arrive, NextDay, vars
  <2> QED
    BY <1>3, <2>1, AutoUntouched DEF ledger
<1> QED
  BY <1>4, <1>5, <1>6, <1>7, AutoUser DEF Next, World

\* Live automation is on only under a standing binding and consent, with the
\* manual toggle, the manual orders and the safety check behind it and nothing
\* unknown, for any number of submissions, accounts and keys.
THEOREM AutomationIsEarned == Spec => []AutomationEarned
<1>1. Init => AutoInv
  BY DEF Init, AutoInv, DefaultPolicy
<1>2. TypeInv /\ KeptInv /\ LockMeansUnknown /\ AutoInv /\ [Next]_vars => AutoInv'
  BY AutoInductive
<1>3. LockMeansUnknown /\ AutoInv => AutomationEarned
  BY DEF LockMeansUnknown, AutoInv, AutomationEarned, Enough
<1> QED
  BY <1>1, <1>2, <1>3, StateInvariant, PTL DEF Spec

-----------------------------------------------------------------------------
(* The ledger implements OrderJournal. *)

\* Of an order whose entry was not lost: what its status says of the broker.
OrderOK(o) ==
    o \notin forgotten =>
        /\ attempts[o].status = "none" => posted[o] = 0
        /\ attempts[o].status \in {"submitted", "reconciled"} => o \in book
        /\ attempts[o].status = "rejected" => o \notin book /\ o \notin wire
        /\ o \in book \/ o \in wire => posted[o] = 1
        /\ posted[o] # 2

\* What the place of a handler says of it.
SentOK(h) ==
    /\ handler[h].pc \in {"ready", "answered", "marked"} /\ ~ handler[h].kept =>
          handler[h].order \in forgotten
    /\ handler[h].kept /\ handler[h].order \notin forgotten =>
          /\ handler[h].pc = "ready" => posted[handler[h].order] = 0
          /\ handler[h].pc \in {"answered", "marked"} /\ handler[h].reply # "rejected" =>
                posted[handler[h].order] = 1
          /\ handler[h].pc \in {"answered", "marked"} /\ handler[h].reply = "ok" =>
                handler[h].order \in book
          /\ handler[h].pc = "answered" /\ handler[h].reply = "rejected" =>
                handler[h].order \notin book /\ handler[h].order \notin wire

JournalInv ==
    /\ \A o \in Orders : OrderOK(o)
    /\ \A h \in Handlers : SentOK(h)

LEMMA InitJournal == Init => JournalInv
BY DEF Init, JournalInv, OrderOK, SentOK, IdleHandler, NoAttempt

\* An order a step leaves alone, and a handler it leaves alone that holds such an
\* order or a forgotten one.
LEMMA Untouched ==
    ASSUME JournalInv, UNCHANGED forgotten
    PROVE  /\ \A o \in Orders :
                 attempts'[o] = attempts[o] /\ posted'[o] = posted[o]
                 /\ (o \in book' <=> o \in book) /\ (o \in wire' <=> o \in wire)
                 => OrderOK(o)'
           /\ \A h \in Handlers :
                 /\ handler'[h] = handler[h]
                 /\ \/ handler[h].order \in forgotten
                    \/ /\ posted'[handler[h].order] = posted[handler[h].order]
                       /\ handler[h].order \in book' <=> handler[h].order \in book
                       /\ handler[h].order \in wire' <=> handler[h].order \in wire
                 => SentOK(h)'
BY DEF JournalInv, OrderOK, SentOK

\* A step of a handler changes what is known of its own order only.
LEMMA OwnOrder ==
    ASSUME TypeInv, NEW h \in Handlers, Submission(h)
    PROVE  /\ UNCHANGED forgotten
           /\ \A g \in Handlers : g # h => handler'[g] = handler[g]
           /\ \A o \in Orders : o # handler[h].order =>
                 /\ attempts'[o] = attempts[o] /\ posted'[o] = posted[o]
                 /\ o \in book' <=> o \in book
                 /\ o \in wire' <=> o \in wire
           /\ ~ Post(h) => UNCHANGED <<posted, book, wire>>
<1>1. /\ handler \in [Handlers -> Handler] /\ attempts \in [Orders -> Attempt]
      /\ posted \in [Orders -> 0..2]
  BY DEF TypeInv, TypeOK
<1>2. UNCHANGED forgotten /\ \A g \in Handlers : g # h => handler'[g] = handler[g]
  BY <1>1 DEF Submission, ManualSubmit, AutomationSubmit, Prepare, Refuse, MarkPreviewFails, Post,
     MarkSubmitted, Track, AfterPostFails, MarkRejected, MarkUnknown, MarkFails, Handling, broker
<1>3. ~ Post(h) => UNCHANGED <<posted, book, wire>>
  BY ZenonT(60) DEF Submission, ManualSubmit, AutomationSubmit, Prepare, Refuse, MarkPreviewFails,
     MarkSubmitted, Track, AfterPostFails, MarkRejected, MarkUnknown, MarkFails, broker
<1>4. ASSUME NEW o \in Orders, o # handler[h].order PROVE attempts'[o] = attempts[o]
  BY <1>1, <1>4 DEF Submission, ManualSubmit, AutomationSubmit, Prepare, Refuse, MarkPreviewFails, Post,
     MarkSubmitted, Track, AfterPostFails, MarkRejected, MarkUnknown, MarkFails, Mark, ledger
<1>5. ASSUME NEW o \in Orders, o # handler[h].order, Post(h)
      PROVE  posted'[o] = posted[o] /\ (o \in book' <=> o \in book) /\ (o \in wire' <=> o \in wire)
  <2>1. posted'[o] = posted[o]
    BY <1>1, <1>5 DEF Post
  <2>2. book' \in {book, book \cup {handler[h].order}} /\ wire' \in {wire, wire \cup {handler[h].order}}
    BY <1>5 DEF Post
  <2> QED
    BY <1>5, <2>1, <2>2
<1> QED
  BY <1>2, <1>3, <1>4, <1>5

\* Where a step leaves its handler is what it knows of its order.
LEMMA OwnJournal ==
    ASSUME TypeInv, KeptInv, JournalInv, NEW h \in Handlers, Submission(h)
    PROVE  SentOK(h)' /\ \A x \in Orders : x = handler[h].order => OrderOK(x)'
<1> DEFINE rec == handler[h]
           o == rec.order
<1>1. /\ handler \in [Handlers -> Handler] /\ attempts \in [Orders -> Attempt]
      /\ posted \in [Orders -> 0..2] /\ rec \in Handler /\ KeptOK(h) /\ SentOK(h)
      /\ rec.pc # "idle" => o \in Orders
      /\ o \in Orders => OrderOK(o)
  BY DEF TypeInv, TypeOK, KeptInv, JournalInv
<1>2. UNCHANGED forgotten /\ (~ Post(h) => UNCHANGED <<posted, book, wire>>)
  BY OwnOrder
<1>3. ASSUME UNCHANGED <<attempts, posted, book, wire>> PROVE \A x \in Orders : x = o => OrderOK(x)'
  BY <1>1, <1>2, <1>3 DEF OrderOK
<1>4. ASSUME handler' = [handler EXCEPT ![h] = IdleHandler] PROVE SentOK(h)'
  <2>1. handler'[h] = IdleHandler
    BY <1>1, <1>4
  <2> QED
    BY <2>1 DEF SentOK, IdleHandler
<1>5. CASE ManualSubmit(h) \/ AutomationSubmit(h)
  <2>1. \E x : handler' = [handler EXCEPT ![h] = [IdleHandler EXCEPT !.pc = "gated", !.order = x]]
    BY <1>5 DEF ManualSubmit, AutomationSubmit, Handling
  <2>2. handler'[h].pc = "gated" /\ handler'[h].kept = FALSE
    BY <1>1, <2>1 DEF IdleHandler
  <2>3. UNCHANGED <<attempts, posted, book, wire>>
    BY <1>5 DEF ManualSubmit, AutomationSubmit, broker
  <2> QED
    BY <1>3, <2>2, <2>3 DEF SentOK
<1>6. CASE Refuse(h) \/ MarkPreviewFails(h) \/ Track(h) \/ MarkFails(h)
  <2>1. handler' = [handler EXCEPT ![h] = IdleHandler] /\ UNCHANGED <<attempts, posted, book, wire>>
    BY <1>6 DEF Refuse, MarkPreviewFails, Track, MarkFails, Handling, ledger, broker
  <2> QED
    BY <1>3, <1>4, <2>1
<1>7. CASE Prepare(h)
  <2>1. /\ handler' = [handler EXCEPT ![h] = [rec EXCEPT !.pc = "ready", !.kept = TRUE]]
        /\ attempts' = [attempts EXCEPT ![o] = [status |-> "submission_pending", day |-> day]]
        /\ attempts[o].status = "none" /\ o \in Orders /\ UNCHANGED <<posted, book, wire>>
    BY <1>1, <1>7 DEF Prepare, Prepares, Handling, broker
  <2>2. handler'[h].pc = "ready" /\ handler'[h].order = o /\ handler'[h].kept
    BY <1>1, <2>1 DEF Handler
  <2>3. attempts'[o].status = "submission_pending"
    BY <1>1, <2>1
  <2>4. SentOK(h)'
    BY <1>1, <1>2, <2>1, <2>2 DEF SentOK, OrderOK
  <2>5. \A x \in Orders : x = o => OrderOK(x)'
    BY <1>1, <1>2, <2>1, <2>3 DEF OrderOK
  <2> QED
    BY <2>4, <2>5
<1>8. CASE Post(h)
  <2>1. rec.pc = "ready" /\ o \in Orders /\ attempts' = attempts
    BY <1>1, <1>8 DEF Post, ledger
  <2>2. PICK r \in {"ok", "rejected", "unknown"} :
          /\ handler' = [handler EXCEPT ![h] = [rec EXCEPT !.pc = "answered", !.reply = r]]
          /\ r = "ok" => book' = book \cup {o}
          /\ r = "rejected" => UNCHANGED <<book, wire>>
          /\ \/ posted' = [posted EXCEPT ![o] = IF @ < 2 THEN @ + 1 ELSE @]
             \/ r = "rejected" /\ posted' = posted
    BY <1>8 DEF Post, Handling
  <2>3. /\ handler'[h].pc = "answered" /\ handler'[h].order = o
        /\ handler'[h].kept = rec.kept /\ handler'[h].reply = r
    BY <1>1, <2>2 DEF Handler
  <2>4. CASE o \in forgotten
    BY <1>2, <2>3, <2>4 DEF SentOK, OrderOK
  <2>5. CASE o \notin forgotten
    <3>1. /\ rec.kept /\ posted[o] = 0 /\ attempts[o].status = "submission_pending"
          /\ o \notin book /\ o \notin wire
      BY <1>1, <2>1, <2>5 DEF SentOK, KeptOK, OrderOK
    <3>2. posted'[o] \in {0, 1} /\ (r # "rejected" => posted'[o] = 1)
      BY <1>1, <2>1, <2>2, <3>1
    <3>3. SentOK(h)'
      BY <2>2, <2>3, <3>1, <3>2 DEF SentOK
    <3>4. \A x \in Orders : x = o => OrderOK(x)'
      BY <2>1, <2>2, <3>1, <3>2 DEF OrderOK
    <3> QED
      BY <3>3, <3>4
  <2> QED
    BY <2>4, <2>5
<1>9. CASE MarkSubmitted(h)
  <2>1. /\ handler' = [handler EXCEPT ![h] = [rec EXCEPT !.pc = "marked"]]
        /\ attempts' = [attempts EXCEPT ![o].status = "submitted"]
        /\ rec.kept /\ rec.pc = "answered" /\ rec.reply = "ok" /\ o \in Orders
        /\ UNCHANGED <<posted, book, wire>>
    BY <1>1, <1>9 DEF MarkSubmitted, Mark, Handling, broker
  <2>2. handler'[h].pc = "marked" /\ handler'[h].order = o /\ handler'[h].reply = "ok" /\ handler'[h].kept
    BY <1>1, <2>1 DEF Handler
  <2>3. attempts'[o].status = "submitted"
    BY <1>1, <2>1 DEF Attempt
  <2>4. o \notin forgotten => posted[o] = 1 /\ o \in book
    BY <1>1, <2>1 DEF SentOK
  <2>5. SentOK(h)'
    BY <1>2, <2>1, <2>2, <2>4 DEF SentOK
  <2>6. \A x \in Orders : x = o => OrderOK(x)'
    BY <1>2, <2>1, <2>3, <2>4 DEF OrderOK
  <2> QED
    BY <2>5, <2>6
<1>10. CASE AfterPostFails(h)
  <2>1. /\ handler' = [handler EXCEPT ![h] = [rec EXCEPT !.pc = "answered", !.reply = "unknown"]]
        /\ UNCHANGED <<attempts, posted, book, wire>> /\ rec.pc \in {"answered", "marked"}
        /\ rec.reply = "ok"
    BY <1>10 DEF AfterPostFails, Handling, ledger, broker
  <2>2. /\ handler'[h].pc = "answered" /\ handler'[h].order = o
        /\ handler'[h].kept = rec.kept /\ handler'[h].reply = "unknown"
    BY <1>1, <2>1 DEF Handler
  <2>3. SentOK(h)'
    BY <1>1, <1>2, <2>1, <2>2 DEF SentOK
  <2> QED
    BY <1>3, <2>1, <2>3
<1>11. CASE MarkRejected(h)
  <2>1. /\ handler' = [handler EXCEPT ![h] = IdleHandler]
        /\ attempts' = [attempts EXCEPT ![o].status = "rejected"]
        /\ rec.kept /\ rec.pc = "answered" /\ rec.reply = "rejected" /\ o \in Orders
        /\ UNCHANGED <<posted, book, wire>>
    BY <1>1, <1>11 DEF MarkRejected, Mark, Handling, broker
  <2>2. attempts'[o].status = "rejected"
    BY <1>1, <2>1 DEF Attempt
  <2>3. o \notin forgotten => o \notin book /\ o \notin wire
    BY <1>1, <2>1 DEF SentOK
  <2>4. \A x \in Orders : x = o => OrderOK(x)'
    BY <1>1, <1>2, <2>1, <2>2, <2>3 DEF OrderOK
  <2> QED
    BY <1>4, <2>1, <2>4
<1>12. CASE MarkUnknown(h)
  <2>1. /\ handler' = [handler EXCEPT ![h] = IdleHandler]
        /\ attempts' = [attempts EXCEPT ![o].status = "unknown"] /\ o \in Orders
        /\ UNCHANGED <<posted, book, wire>>
    BY <1>1, <1>12 DEF MarkUnknown, Mark, Handling, broker
  <2>2. attempts'[o].status = "unknown"
    BY <1>1, <2>1 DEF Attempt
  <2>3. \A x \in Orders : x = o => OrderOK(x)'
    BY <1>1, <1>2, <2>1, <2>2 DEF OrderOK
  <2> QED
    BY <1>4, <2>1, <2>3
<1> QED
  BY <1>5, <1>6, <1>7, <1>8, <1>9, <1>10, <1>11, <1>12 DEF Submission

LEMMA JournalInductive == TypeInv /\ KeptInv /\ JournalInv /\ [Next]_vars => JournalInv'
<1> SUFFICES ASSUME TypeInv, KeptInv, JournalInv, [Next]_vars PROVE JournalInv'
  OBVIOUS
<1>1. /\ handler \in [Handlers -> Handler] /\ attempts \in [Orders -> Attempt]
      /\ posted \in [Orders -> 0..2]
      /\ \A h \in Handlers : handler[h].pc # "idle" => handler[h].order \in Orders
  BY DEF TypeInv, TypeOK
<1>2. ASSUME NEW h \in Handlers, Submission(h) PROVE JournalInv'
  <2>1. ASSUME NEW o \in Orders PROVE OrderOK(o)'
    BY <1>2, OwnJournal, OwnOrder, Untouched
  <2>2. ASSUME NEW g \in Handlers, g # h PROVE SentOK(g)'
    <3>1. UNCHANGED forgotten /\ handler'[g] = handler[g]
      BY <1>2, <2>2, OwnOrder
    <3>2. CASE ~ Post(h)
      <4>1. UNCHANGED <<posted, book, wire>>
        BY <1>2, <3>2, OwnOrder
      <4> QED
        BY <3>1, <4>1, Untouched
    <3>3. CASE handler[g].order = handler[h].order /\ Post(h)
      <4>1. handler[h].pc = "ready" /\ SentOK(h) /\ SentOK(g) /\ KeptOK(g)
        BY <3>3 DEF Post, JournalInv, KeptInv
      <4>2. ~ handler[g].kept \/ ~ handler[h].kept
        BY <2>2, <3>3 DEF KeptInv, KeptOnce
      <4>3. handler[g].pc \in {"ready", "answered", "marked"} => handler[g].order \in forgotten
        BY <3>3, <4>1, <4>2 DEF SentOK
      <4>4. handler[g].kept => handler[g].pc \in {"ready", "answered", "marked"}
        BY <4>1 DEF KeptOK
      <4> QED
        BY <3>1, <4>3, <4>4 DEF SentOK
    <3>4. CASE handler[g].order # handler[h].order
      <4>1. CASE handler[g].order \in Orders
        BY <1>2, <3>1, <3>4, <4>1, OwnOrder, Untouched
      <4>2. CASE handler[g].order \notin Orders
        BY <1>1, <3>1, <4>2 DEF SentOK, KeptInv, KeptOK
      <4> QED
        BY <4>1, <4>2
    <3> QED
      BY <3>2, <3>3, <3>4
  <2> QED
    BY <1>2, <2>1, <2>2, OwnJournal DEF JournalInv
<1>3. CASE User
  BY <1>3 DEF User, VerifyReadiness, Consent, EnableManual, EnableAutomation, Disable,
     RecordSafetyProof, SetPolicy, broker, JournalInv, OrderOK, SentOK
<1>4. CASE Reconcile
  <2>1. PICK matched \in SUBSET {x \in Orders : attempts[x].status = "submitted"} :
          attempts' = [x \in Orders |-> [attempts[x] EXCEPT !.status = IF x \in matched THEN "reconciled" ELSE @]]
    BY <1>4 DEF Reconcile
  <2>2. \A x \in Orders : \/ attempts'[x].status = attempts[x].status
                          \/ attempts[x].status = "submitted" /\ attempts'[x].status = "reconciled"
    BY <1>1, <2>1 DEF Attempt
  <2>3. UNCHANGED <<handler, book, wire, posted, forgotten>>
    BY <1>4 DEF Reconcile, broker
  <2>4. ASSUME NEW x \in Orders PROVE OrderOK(x)'
    BY <2>2, <2>3 DEF JournalInv, OrderOK
  <2> QED
    BY <2>3, <2>4 DEF JournalInv, SentOK
<1>5. CASE Restart
  BY <1>5 DEF Restart, JournalInv, OrderOK, SentOK, IdleHandler, ledger, broker
<1>6. CASE LedgerLost
  <2> DEFINE held == {o \in Orders : attempts[o].status # "none"}
  <2>1. /\ attempts' = [o \in Orders |-> NoAttempt]
        /\ handler' = [h \in Handlers |-> [handler[h] EXCEPT !.kept = FALSE]]
        /\ forgotten' = forgotten \cup held
        /\ book' = book \ held /\ wire' = wire \ held
        /\ posted' = [o \in Orders |-> IF o \in held THEN 0 ELSE posted[o]]
    BY <1>6 DEF LedgerLost
  <2>2. ASSUME NEW o \in Orders PROVE OrderOK(o)'
    BY <1>1, <2>1 DEF JournalInv, OrderOK, NoAttempt
  <2>3. ASSUME NEW h \in Handlers PROVE SentOK(h)'
    <3>1. /\ handler'[h].pc = handler[h].pc /\ handler'[h].order = handler[h].order
          /\ ~ handler'[h].kept
      BY <1>1, <2>1 DEF Handler
    <3>2. handler[h].kept /\ handler[h].pc \in {"ready", "answered", "marked"} => handler[h].order \in held
      BY <1>1 DEF KeptInv, KeptOK
    <3>3. ~ handler[h].kept /\ handler[h].pc \in {"ready", "answered", "marked"} => handler[h].order \in forgotten
      BY DEF JournalInv, SentOK
    <3> QED
      BY <2>1, <3>1, <3>2, <3>3 DEF SentOK
  <2> QED
    BY <2>2, <2>3 DEF JournalInv
<1>7. CASE Arrive
  <2>1. PICK o \in wire : wire' = wire \ {o} /\ book' = book \cup {o}
    BY <1>7 DEF Arrive
  <2>2. UNCHANGED <<ledger, handler, posted, forgotten>>
    BY <1>7 DEF Arrive
  <2>3. ASSUME NEW x \in Orders PROVE OrderOK(x)'
    BY <2>1, <2>2 DEF JournalInv, OrderOK, ledger
  <2>4. ASSUME NEW h \in Handlers PROVE SentOK(h)'
    BY <2>1, <2>2 DEF JournalInv, SentOK
  <2> QED
    BY <2>3, <2>4 DEF JournalInv
<1>8. CASE NextDay \/ UNCHANGED vars
  BY <1>8 DEF NextDay, vars, ledger, broker, JournalInv, OrderOK, SentOK
<1> QED
  BY <1>2, <1>3, <1>4, <1>5, <1>6, <1>7, <1>8 DEF Next, World

\* The abstract journal, under names of its own.
AJournal == [o \in Orders |-> Entry(o)]
APosts == [o \in Orders |-> IF o \in forgotten THEN 0 ELSE posted[o]]
ATaken == book \ forgotten
AWire == wire \ forgotten

LEMMA Words ==
    /\ Word("none") = "unsent" /\ Word("submission_pending") = "pending"
    /\ Word("unknown") = "unclear" /\ Word("rejected") = "refused"
    /\ Word("submitted") = "accepted" /\ Word("reconciled") = "accepted"
BY DEF Word

\* A step that leaves the abstract journal alone.
LEMMA Stutter ==
    ASSUME UNCHANGED <<AJournal, APosts, ATaken, AWire>>
    PROVE  UNCHANGED Journaled!vars
BY DEF AJournal, APosts, ATaken, AWire, Journaled!vars

\* What a step makes of an order that is not forgotten is what it makes of its
\* entry.
LEMMA EntryStep ==
    ASSUME TypeInv, NEW o \in Orders, UNCHANGED forgotten,
           \A x \in Orders : x # o => attempts'[x] = attempts[x]
    PROVE  /\ o \in forgotten => UNCHANGED AJournal
           /\ o \notin forgotten => /\ AJournal[o] = Word(attempts[o].status)
                                    /\ AJournal' = [AJournal EXCEPT ![o] = Word(attempts'[o].status)]
<1>1. ASSUME NEW x \in Orders, x # o PROVE Entry(x)' = Entry(x)
  BY <1>1 DEF Entry
<1>2. CASE o \in forgotten
  <2>1. Entry(o)' = Entry(o)
    BY <1>2 DEF Entry
  <2> QED
    BY <1>1, <1>2, <2>1 DEF AJournal
<1>3. CASE o \notin forgotten
  <2>1. Entry(o)' = Word(attempts'[o].status) /\ Entry(o) = Word(attempts[o].status)
    BY <1>3 DEF Entry
  <2> QED
    BY <1>1, <1>3, <2>1 DEF AJournal
<1> QED
  BY <1>2, <1>3

LEMMA SubmissionImplements ==
    ASSUME TypeInv, KeptInv, JournalInv, NEW h \in Handlers, Submission(h)
    PROVE  Journaled!Next \/ UNCHANGED Journaled!vars
<1> DEFINE rec == handler[h]
           o == rec.order
<1>1. /\ attempts \in [Orders -> Attempt] /\ posted \in [Orders -> 0..2]
      /\ KeptOK(h) /\ SentOK(h) /\ \A x \in Orders : OrderOK(x)
      /\ rec.pc # "idle" => o \in Orders
  BY DEF TypeInv, TypeOK, KeptInv, JournalInv
<1>2. /\ UNCHANGED forgotten /\ (~ Post(h) => UNCHANGED <<posted, book, wire>>)
      /\ \A x \in Orders : x # o => attempts'[x] = attempts[x]
  BY OwnOrder
<1>3. ~ Post(h) => UNCHANGED <<APosts, ATaken, AWire>>
  BY <1>2 DEF APosts, ATaken, AWire
<1>4. ASSUME UNCHANGED attempts PROVE UNCHANGED AJournal
  BY <1>2, <1>4 DEF AJournal, Entry
<1>5. CASE UNCHANGED attempts /\ ~ Post(h)
  BY <1>3, <1>4, <1>5, Stutter
<1>6. CASE Prepare(h)
  <2>1. o \in Orders /\ attempts[o].status = "none" /\ attempts'[o].status = "submission_pending"
    BY <1>1, <1>6 DEF Prepare, Prepares
  <2>2. ~ Post(h)
    BY <1>6 DEF Prepare, Post
  <2>3. CASE o \in forgotten
    BY <1>2, <1>3, <2>1, <2>2, <2>3, EntryStep, Stutter
  <2>4. CASE o \notin forgotten
    <3>1. AJournal[o] = "unsent" /\ AJournal' = [AJournal EXCEPT ![o] = "pending"]
      BY <1>2, <2>1, <2>4, EntryStep, Words
    <3>2. Journaled!Journal(o)
      BY <1>3, <2>2, <3>1 DEF Journaled!Journal, AJournal, APosts, ATaken, AWire
    <3> QED
      BY <2>1, <3>2 DEF Journaled!Next
  <2> QED
    BY <2>3, <2>4
<1>7. CASE Post(h)
  <2>1. rec.pc = "ready" /\ o \in Orders /\ UNCHANGED attempts
    BY <1>1, <1>7 DEF Post, ledger
  <2>2. UNCHANGED AJournal
    BY <1>4, <2>1
  <2>3. CASE UNCHANGED <<posted, book, wire>>
    <3>1. UNCHANGED <<APosts, ATaken, AWire>>
      BY <1>2, <2>3 DEF APosts, ATaken, AWire
    <3> QED
      BY <2>2, <3>1, Stutter
  <2>4. CASE /\ posted' = [posted EXCEPT ![o] = IF @ < 2 THEN @ + 1 ELSE @]
             /\ \/ book' = book \cup {o} /\ wire' = wire
                \/ wire' = wire \cup {o} /\ book' = book
                \/ book' = book /\ wire' = wire
    <3>1. CASE o \in forgotten
      <4>1. UNCHANGED APosts
        BY <1>1, <1>2, <2>4, <3>1 DEF APosts
      <4>2. UNCHANGED <<ATaken, AWire>>
        BY <1>2, <2>4, <3>1 DEF ATaken, AWire
      <4> QED
        BY <2>2, <4>1, <4>2, Stutter
    <3>2. CASE o \notin forgotten
      <4>1. rec.kept /\ posted[o] = 0 /\ attempts[o].status = "submission_pending"
        BY <1>1, <2>1, <3>2 DEF SentOK, KeptOK
      <4>2. AJournal[o] = "pending"
        BY <2>1, <3>2, <4>1, Words DEF AJournal, Entry
      <4>3. APosts[o] = 0 /\ APosts' = [APosts EXCEPT ![o] = 1]
        BY <1>1, <1>2, <2>1, <2>4, <3>2, <4>1 DEF APosts
      <4>4. \/ ATaken' = ATaken \cup {o} /\ AWire' = AWire
            \/ AWire' = AWire \cup {o} /\ ATaken' = ATaken
            \/ ATaken' = ATaken /\ AWire' = AWire
        BY <1>2, <2>4, <3>2 DEF ATaken, AWire
      <4>5. PICK x \in Orders : x = o
        BY <2>1
      <4>6. Journaled!Send(x)
        BY <2>2, <4>2, <4>3, <4>4, <4>5 DEF Journaled!Send, AJournal, APosts, ATaken, AWire
      <4> QED
        BY <4>6 DEF Journaled!Next
    <3> QED
      BY <3>1, <3>2
  <2> QED
    BY <1>7, <2>3, <2>4 DEF Post
<1>8. ASSUME NEW status, NEW verdict \in {"accepted", "refused", "unclear"},
             Mark(o, status), Word(status) = verdict, rec.kept, rec.pc = "answered", ~ Post(h),
             o \notin forgotten =>
                /\ verdict = "accepted" => o \in book
                /\ verdict = "refused" => o \notin book /\ o \notin wire
      PROVE  Journaled!Next \/ UNCHANGED Journaled!vars
  <2>1. o \in Orders /\ attempts'[o].status = status
    BY <1>1, <1>8 DEF Mark, Attempt
  <2>2. CASE o \in forgotten
    BY <1>2, <1>3, <1>8, <2>1, <2>2, EntryStep, Stutter
  <2>3. CASE o \notin forgotten
    <3>1. AJournal[o] = Word(attempts[o].status) /\ AJournal' = [AJournal EXCEPT ![o] = verdict]
      BY <1>2, <1>8, <2>1, <2>3, EntryStep
    <3>2. attempts[o].status \in {"submission_pending", "submitted", "reconciled"}
      BY <1>1, <1>8 DEF KeptOK
    <3>3. AJournal[o] \notin {"unsent", "lost"}
      BY <3>1, <3>2, Words
    <3>4. verdict = "accepted" => o \in ATaken
      BY <1>8, <2>3 DEF ATaken
    <3>5. verdict = "refused" => o \notin ATaken \cup AWire
      BY <1>8, <2>1, <2>3 DEF ATaken, AWire
    <3>6. UNCHANGED <<APosts, ATaken, AWire>>
      BY <1>3, <1>8
    <3>7. Journaled!Conclude(o, verdict)
      BY <3>1, <3>3, <3>4, <3>5, <3>6 DEF Journaled!Conclude, AJournal, APosts, ATaken, AWire
    <3> QED
      BY <2>1, <3>7 DEF Journaled!Next, Journaled!Verdicts
  <2> QED
    BY <2>2, <2>3
<1>9. CASE MarkSubmitted(h)
  <2>1. /\ Mark(o, "submitted") /\ rec.kept /\ rec.pc = "answered" /\ rec.reply = "ok" /\ ~ Post(h)
    BY <1>9 DEF MarkSubmitted, Post
  <2>2. o \notin forgotten => o \in book
    BY <1>1, <2>1 DEF SentOK
  <2> QED
    BY <1>8, <2>1, <2>2, Words
<1>10. CASE MarkRejected(h)
  <2>1. /\ Mark(o, "rejected") /\ rec.kept /\ rec.pc = "answered" /\ rec.reply = "rejected" /\ ~ Post(h)
    BY <1>10 DEF MarkRejected, Post
  <2>2. o \notin forgotten => o \notin book /\ o \notin wire
    BY <1>1, <2>1 DEF SentOK
  <2> QED
    BY <1>8, <2>1, <2>2, Words
<1>11. CASE MarkUnknown(h)
  <2>1. /\ Mark(o, "unknown") /\ rec.kept /\ rec.pc = "answered" /\ ~ Post(h)
    BY <1>11 DEF MarkUnknown, Post
  <2> QED
    BY <1>8, <2>1, Words
<1>12. CASE \/ ManualSubmit(h) \/ AutomationSubmit(h) \/ Refuse(h) \/ MarkPreviewFails(h)
            \/ Track(h) \/ AfterPostFails(h) \/ MarkFails(h)
  <2>1. UNCHANGED attempts
    BY <1>12 DEF ManualSubmit, AutomationSubmit, Refuse, MarkPreviewFails, Track, AfterPostFails,
       MarkFails, ledger
  <2>2. CASE Post(h)
    BY <1>7, <2>2
  <2> QED
    BY <1>5, <2>1, <2>2
<1> QED
  BY <1>6, <1>7, <1>9, <1>10, <1>11, <1>12 DEF Submission

LEMMA WorldImplements ==
    ASSUME TypeInv, KeptInv, JournalInv, World
    PROVE  Journaled!Next \/ UNCHANGED Journaled!vars
<1>1. /\ attempts \in [Orders -> Attempt] /\ posted \in [Orders -> 0..2]
      /\ wire \subseteq Orders /\ book \subseteq Orders
      /\ \A x \in Orders : OrderOK(x)
  BY DEF TypeInv, TypeOK, JournalInv
<1>2. CASE Reconcile
  <2>1. PICK matched \in SUBSET {x \in Orders : attempts[x].status = "submitted"} :
          attempts' = [x \in Orders |-> [attempts[x] EXCEPT !.status = IF x \in matched THEN "reconciled" ELSE @]]
    BY <1>2 DEF Reconcile
  <2>2. \A x \in Orders : \/ attempts'[x].status = attempts[x].status
                          \/ attempts[x].status = "submitted" /\ attempts'[x].status = "reconciled"
    BY <1>1, <2>1 DEF Attempt
  <2>3. UNCHANGED <<book, wire, posted, forgotten>>
    BY <1>2 DEF Reconcile, broker
  <2>4. ASSUME NEW x \in Orders PROVE Entry(x)' = Entry(x)
    BY <2>2, <2>3, Words DEF Entry
  <2>5. UNCHANGED <<AJournal, APosts, ATaken, AWire>>
    BY <2>3, <2>4 DEF AJournal, APosts, ATaken, AWire
  <2> QED
    BY <2>5, Stutter
<1>3. CASE Restart \/ NextDay
  <2>1. UNCHANGED <<attempts, book, wire, posted, forgotten>>
    BY <1>3 DEF Restart, NextDay, ledger, broker
  <2>2. UNCHANGED <<AJournal, APosts, ATaken, AWire>>
    BY <2>1 DEF AJournal, Entry, APosts, ATaken, AWire
  <2> QED
    BY <2>2, Stutter
<1>4. CASE LedgerLost
  <2> DEFINE held == {o \in Orders : attempts[o].status # "none"}
             begun == {o \in Orders : AJournal[o] # "unsent"}
  <2>1. /\ attempts' = [o \in Orders |-> NoAttempt]
        /\ forgotten' = forgotten \cup held
        /\ book' = book \ held /\ wire' = wire \ held
        /\ posted' = [o \in Orders |-> IF o \in held THEN 0 ELSE posted[o]]
    BY <1>4 DEF LedgerLost
  <2>2. \A o \in Orders : o \in begun <=> o \in forgotten \cup held
    <3> SUFFICES ASSUME NEW o \in Orders PROVE o \in begun <=> o \in forgotten \cup held
      OBVIOUS
    <3>1. attempts[o].status \in Statuses \cup {"none"}
      BY <1>1 DEF Attempt
    <3>2. o \notin forgotten => (Entry(o) = "unsent" <=> attempts[o].status = "none")
      BY <3>1, Words DEF Entry, Statuses
    <3>3. o \in forgotten => Entry(o) = "lost"
      BY DEF Entry
    <3> QED
      BY <3>2, <3>3 DEF AJournal
  <2>3. AJournal' = [o \in Orders |-> IF o \in begun THEN "lost" ELSE "unsent"]
    <3>1. ASSUME NEW o \in Orders PROVE Entry(o)' = IF o \in begun THEN "lost" ELSE "unsent"
      <4>1. attempts'[o].status = "none"
        BY <2>1 DEF NoAttempt
      <4>2. o \in forgotten' <=> o \in begun
        BY <2>1, <2>2
      <4> HIDE DEF begun
      <4> QED
        BY <4>1, <4>2, Words DEF Entry
    <3> HIDE DEF begun
    <3> QED
      BY <3>1 DEF AJournal
  <2>4. APosts' = [o \in Orders |-> IF o \in begun THEN 0 ELSE APosts[o]]
    <3>1. \A o \in Orders : o \in forgotten' <=> o \in begun
      BY <2>1, <2>2
    <3>2. \A o \in Orders : o \notin begun => posted'[o] = posted[o] /\ o \notin forgotten
      BY <1>1, <2>1, <2>2
    <3> HIDE DEF begun
    <3> QED
      BY <3>1, <3>2 DEF APosts
  <2>5. ATaken' = ATaken \ begun /\ AWire' = AWire \ begun
    <3> HIDE DEF begun
    <3> QED
      BY <1>1, <2>1, <2>2 DEF ATaken, AWire
  <2>6. Journaled!Lose
    <3>1. begun = {o \in Orders : [x \in Orders |-> Entry(x)][o] # "unsent"}
      BY DEF AJournal
    <3> QED
      BY <2>3, <2>4, <2>5, <3>1 DEF Journaled!Lose, AJournal, APosts, ATaken, AWire
  <2> QED
    BY <2>6 DEF Journaled!Next
<1>5. CASE Arrive
  <2>1. PICK o \in wire : wire' = wire \ {o} /\ book' = book \cup {o}
    BY <1>5 DEF Arrive
  <2>2. UNCHANGED <<attempts, posted, forgotten>>
    BY <1>5 DEF Arrive, ledger
  <2>3. UNCHANGED <<AJournal, APosts>>
    BY <2>2 DEF AJournal, Entry, APosts
  <2>4. CASE o \in forgotten
    <3>1. UNCHANGED <<ATaken, AWire>>
      BY <2>1, <2>2, <2>4 DEF ATaken, AWire
    <3> QED
      BY <2>3, <3>1, Stutter
  <2>5. CASE o \notin forgotten
    <3>1. o \in AWire /\ AWire' = AWire \ {o} /\ ATaken' = ATaken \cup {o}
      BY <2>1, <2>2, <2>5 DEF ATaken, AWire
    <3>2. Journaled!Arrive(o)
      BY <2>3, <3>1 DEF Journaled!Arrive, AJournal, APosts, ATaken, AWire
    <3> QED
      BY <1>1, <2>1, <3>2 DEF Journaled!Next
  <2> QED
    BY <2>4, <2>5
<1> QED
  BY <1>2, <1>3, <1>4, <1>5 DEF World

\* The ledger implements OrderJournal for any number of submissions, restarts and
\* lost files: an order is written down before it is sent, sent once, and recorded
\* as accepted or refused only when it is.
THEOREM LedgerImplementsJournal == Spec => ImplementsJournal
<1>1. Init => Journaled!Init
  <2> SUFFICES ASSUME Init PROVE Journaled!Init
    OBVIOUS
  <2>1. \A o \in Orders : Entry(o) = "unsent"
    BY Words DEF Init, Entry, NoAttempt
  <2> QED
    BY <2>1 DEF Init, Journaled!Init
<1>2. TypeInv /\ KeptInv /\ JournalInv /\ [Next]_vars => [Journaled!Next]_(Journaled!vars)
  <2> SUFFICES ASSUME TypeInv, KeptInv, JournalInv, [Next]_vars
               PROVE  Journaled!Next \/ UNCHANGED Journaled!vars
    OBVIOUS
  <2>1. CASE User \/ UNCHANGED vars
    <3>1. UNCHANGED <<attempts, book, wire, posted, forgotten>>
      BY <2>1 DEF User, VerifyReadiness, Consent, EnableManual, EnableAutomation, Disable,
         RecordSafetyProof, SetPolicy, broker, ledger, vars
    <3>2. UNCHANGED <<AJournal, APosts, ATaken, AWire>>
      BY <3>1 DEF AJournal, Entry, APosts, ATaken, AWire
    <3> QED
      BY <3>2, Stutter
  <2> QED
    BY <2>1, SubmissionImplements, WorldImplements DEF Next
<1>3. TypeInv /\ KeptInv /\ JournalInv /\ [Next]_vars => JournalInv'
  BY JournalInductive
<1> QED
  BY <1>1, <1>2, <1>3, InitJournal, StateInvariant, PTL DEF Spec, ImplementsJournal, Journaled!Spec
-----------------------------------------------------------------------------
(* What a set of orders costs.  MapThenSumSet takes the orders in an order *)
(* of its own; the sum does not depend on it.                              *)

Cost(S) == MapThenSumSet(LAMBDA o : Value[o], S)
First(S) == CHOOSE x \in S : TRUE

\* f has the cost of every set of orders of U.
Adds(f, U) ==
    f = [s \in SUBSET U |-> IF s = {} THEN 0 ELSE Value[First(s)] + f[s \ {First(s)}]]

\* Of some subsets of a finite set one is smallest.
LEMMA LeastSet ==
    ASSUME NEW S, IsFiniteSet(S), NEW T \in SUBSET (SUBSET S), T # {}
    PROVE  \E U \in T : \A V \in T : V \subseteq U => V = U
<1> DEFINE R == StrictSubsetOrdering(S)
           F == FiniteSubsetsOf(S)
<1>1. IsWellFoundedOn(R, F)
  BY FS_StrictSubsetOrderingWellFounded
<1>2. \A U, V \in SUBSET S : U \subseteq V /\ U # V => <<U, V>> \in R
  BY DEF StrictSubsetOrdering
<1>3. T \subseteq F
  BY FS_Subset DEF FiniteSubsetsOf
<1> HIDE DEF R, F
<1>4. PICK U \in T : \A V \in T : ~ (<<V, U>> \in R)
  BY <1>1, <1>3, WFMin
<1> QED
  BY <1>2, <1>4

LEMMA AddsAt ==
    ASSUME NEW U, NEW f, Adds(f, U)
    PROVE  /\ f[{}] = 0
           /\ \A s \in SUBSET U : s # {} => /\ First(s) \in s
                                            /\ f[s] = Value[First(s)] + f[s \ {First(s)}]
<1>1. \A s \in SUBSET U : f[s] = IF s = {} THEN 0 ELSE Value[First(s)] + f[s \ {First(s)}]
  BY DEF Adds
<1>2. \A s : s # {} => First(s) \in s
  BY DEF First
<1> QED
  BY <1>1, <1>2

LEMMA AddsAgree ==
    ASSUME NEW U, NEW V, NEW f, NEW g, IsFiniteSet(U), Adds(f, U), Adds(g, V)
    PROVE  \A s \in SUBSET (U \cap V) : f[s] = g[s]
<1> DEFINE T == {s \in SUBSET (U \cap V) : f[s] # g[s]}
<1> SUFFICES ASSUME T # {} PROVE FALSE
  OBVIOUS
<1>1. IsFiniteSet(U) /\ T \in SUBSET (SUBSET U)
  OBVIOUS
<1>2. PICK s \in T : \A t \in T : t \subseteq s => t = s
  <2> HIDE DEF T
  <2> QED
    BY <1>1, LeastSet
<1>3. s # {} /\ s \in SUBSET U /\ s \in SUBSET V
  BY AddsAt
<1> DEFINE t == s \ {First(s)}
<1>4. First(s) \in s /\ f[s] = Value[First(s)] + f[t] /\ g[s] = Value[First(s)] + g[t]
  BY <1>3, AddsAt
<1>5. t \notin T /\ t \in SUBSET (U \cap V)
  BY <1>2, <1>4
<1>6. f[t] = g[t]
  BY <1>5
<1> QED
  BY <1>2, <1>4, <1>6

LEMMA AddsExists ==
    ASSUME NEW U, IsFiniteSet(U)
    PROVE  \E f : Adds(f, U)
<1> DEFINE T == {s \in SUBSET U : ~ \E f : Adds(f, s)}
<1> SUFFICES ASSUME T # {} PROVE FALSE
  OBVIOUS
<1>1. IsFiniteSet(U) /\ T \in SUBSET (SUBSET U)
  OBVIOUS
<1>2. PICK s \in T : \A t \in T : t \subseteq s => t = s
  <2> HIDE DEF T
  <2> QED
    BY <1>1, LeastSet
<1>3. \A t \in SUBSET s : t # s => \E f : Adds(f, t)
  BY <1>2
<1> DEFINE part(t) == CHOOSE f : Adds(f, t)
           less(t) == t \ {First(t)}
           sum == [t \in SUBSET s |->
                      IF t = {} THEN 0 ELSE Value[First(t)] + part(less(t))[less(t)]]
<1>4. \A t \in SUBSET s : t # s => Adds(part(t), t) /\ IsFiniteSet(t)
  BY <1>1, <1>2, <1>3, FS_Subset
<1>5. \A t \in SUBSET s : t # {} => /\ less(t) \in SUBSET s /\ less(t) # s
                                    /\ less(t) \subseteq t
  BY DEF First
<1>6. \A t \in SUBSET s : sum[t] = IF t = {} THEN 0 ELSE Value[First(t)] + part(less(t))[less(t)]
  OBVIOUS
<1> HIDE DEF part, less, sum
<1>7. ASSUME NEW t \in SUBSET s, t # s PROVE sum[t] = part(t)[t]
  <2>1. Adds(part(t), t)
    BY <1>4, <1>7
  <2>2. CASE t = {}
    BY <1>6, <2>1, <2>2, AddsAt
  <2>3. CASE t # {}
    <3>1. part(t)[t] = Value[First(t)] + part(t)[less(t)]
      BY <2>1, <2>3, AddsAt DEF less
    <3>2. Adds(part(less(t)), less(t)) /\ IsFiniteSet(less(t)) /\ less(t) \subseteq t
      BY <1>4, <1>5, <2>3
    <3>3. part(less(t))[less(t)] = part(t)[less(t)]
      BY <2>1, <3>2, AddsAgree
    <3> QED
      BY <1>6, <2>3, <3>1, <3>3
  <2> QED
    BY <2>2, <2>3
<1>8. \A t \in SUBSET s : t # {} => sum[less(t)] = part(less(t))[less(t)]
  BY <1>5, <1>7
<1>9. Adds(sum, s)
  <2>1. sum = [t \in SUBSET s |-> IF t = {} THEN 0 ELSE Value[First(t)] + sum[less(t)]]
    BY <1>8 DEF sum
  <2> QED
    BY <2>1 DEF Adds, less
<1> QED
  BY <1>2, <1>9

\* MapThenSumSet computes it.
LEMMA CostAdds ==
    ASSUME NEW U, IsFiniteSet(U), NEW f, Adds(f, U)
    PROVE  Cost(U) = f[U]
<1> DEFINE iter[s \in SUBSET U] ==
              IF s = {} THEN 0
              ELSE Value[CHOOSE x \in s : TRUE] + iter[s \ {CHOOSE x \in s : TRUE}]
<1>1. f = [s \in SUBSET U |->
              IF s = {} THEN 0
              ELSE Value[CHOOSE x \in s : TRUE] + f[s \ {CHOOSE x \in s : TRUE}]]
  BY DEF Adds, First
<1>2. iter = [s \in SUBSET U |->
              IF s = {} THEN 0
              ELSE Value[CHOOSE x \in s : TRUE] + iter[s \ {CHOOSE x \in s : TRUE}]]
  BY <1>1 DEF iter
<1>3. Cost(U) = iter[U]
  BY DEF Cost, MapThenSumSet, MapThenFoldSet
<1> HIDE DEF iter
<1>4. Adds(iter, U)
  BY <1>2 DEF Adds, First
<1> QED
  BY <1>3, <1>4, AddsAgree

\* One order at a time.
LEMMA CostFirst ==
    /\ Cost({}) = 0
    /\ \A S : IsFiniteSet(S) /\ S # {} => /\ First(S) \in S
                                          /\ Cost(S) = Value[First(S)] + Cost(S \ {First(S)})
<1>1. Cost({}) = 0
  <2>1. IsFiniteSet({})
    BY FS_EmptySet
  <2>2. PICK f : Adds(f, {})
    BY <2>1, AddsExists
  <2> QED
    BY <2>1, <2>2, CostAdds, AddsAt
<1>2. ASSUME NEW S, IsFiniteSet(S), S # {}
      PROVE  First(S) \in S /\ Cost(S) = Value[First(S)] + Cost(S \ {First(S)})
  <2> DEFINE R == S \ {First(S)}
  <2>1. IsFiniteSet(R) /\ R \subseteq S
    BY <1>2, FS_Subset
  <2>2. PICK f : Adds(f, S)
    BY <1>2, AddsExists
  <2>3. PICK g : Adds(g, R)
    BY <2>1, AddsExists
  <2>4. Cost(S) = f[S] /\ Cost(R) = g[R]
    BY <1>2, <2>1, <2>2, <2>3, CostAdds
  <2>5. g[R] = f[R]
    BY <2>1, <2>2, <2>3, AddsAgree
  <2>6. First(S) \in S /\ f[S] = Value[First(S)] + f[R]
    BY <1>2, <2>2, AddsAt
  <2> QED
    BY <2>4, <2>5, <2>6
<1> QED
  BY <1>1, <1>2

LEMMA CostNat ==
    ASSUME NEW S \in SUBSET Orders, IsFiniteSet(S)
    PROVE  Cost(S) \in Nat
<1> DEFINE T == {s \in SUBSET S : Cost(s) \notin Nat}
<1> SUFFICES ASSUME T # {} PROVE FALSE
  OBVIOUS
<1>1. IsFiniteSet(S) /\ T \in SUBSET (SUBSET S)
  OBVIOUS
<1>2. PICK s \in T : \A t \in T : t \subseteq s => t = s
  <2> HIDE DEF T
  <2> QED
    BY <1>1, LeastSet
<1>3. s # {}
  BY CostFirst
<1>4. First(s) \in s /\ Cost(s) = Value[First(s)] + Cost(s \ {First(s)})
  BY <1>1, <1>2, <1>3, FS_Subset, CostFirst
<1>5. Cost(s \ {First(s)}) \in Nat
  BY <1>2, <1>4
<1>6. Value[First(s)] \in Nat
  BY <1>4, TossAssumption
<1> QED
  BY <1>2, <1>4, <1>5, <1>6

\* Whichever order is taken out, the rest costs that much less.
LEMMA CostWithout ==
    ASSUME NEW S \in SUBSET Orders, IsFiniteSet(S)
    PROVE  \A x \in S : Cost(S) = Cost(S \ {x}) + Value[x]
<1> DEFINE T == {s \in SUBSET S : \E x \in s : Cost(s) # Cost(s \ {x}) + Value[x]}
<1> SUFFICES ASSUME T # {} PROVE FALSE
  OBVIOUS
<1>0. IsFiniteSet(S) /\ T \in SUBSET (SUBSET S)
  OBVIOUS
<1>1. \A s \in SUBSET S : IsFiniteSet(s) /\ Cost(s) \in Nat
  BY FS_Subset, CostNat
<1>2. PICK s \in T : \A t \in T : t \subseteq s => t = s
  <2> HIDE DEF T
  <2> QED
    BY <1>0, LeastSet
<1>3. PICK x \in s : Cost(s) # Cost(s \ {x}) + Value[x]
  BY <1>2
<1> DEFINE c == First(s)
<1>4. c \in s /\ Cost(s) = Value[c] + Cost(s \ {c})
  BY <1>1, <1>3, CostFirst
<1>5. /\ Value[c] \in Nat /\ Value[x] \in Nat
      /\ Cost(s \ {c}) \in Nat /\ Cost(s \ {x}) \in Nat /\ Cost((s \ {c}) \ {x}) \in Nat
  BY <1>1, <1>4, TossAssumption
<1>6. x # c
  BY <1>3, <1>4, <1>5
<1>7. s \ {c} \notin T /\ s \ {x} \notin T
  BY <1>2, <1>4
<1> HIDE DEF c
<1>8. Cost(s \ {c}) = Cost((s \ {c}) \ {x}) + Value[x]
  BY <1>6, <1>7
<1>9. Cost(s \ {x}) = Cost((s \ {x}) \ {c}) + Value[c]
  BY <1>4, <1>6, <1>7
<1>10. (s \ {x}) \ {c} = (s \ {c}) \ {x}
  OBVIOUS
<1> QED
  BY <1>3, <1>4, <1>5, <1>8, <1>9, <1>10

LEMMA CostOneMore ==
    ASSUME NEW S \in SUBSET Orders, IsFiniteSet(S), NEW x \in Orders \ S
    PROVE  Cost(S \cup {x}) = Cost(S) + Value[x]
<1>1. IsFiniteSet(S \cup {x}) /\ (S \cup {x}) \ {x} = S
  BY FS_AddElement
<1> QED
  BY <1>1, CostWithout
-----------------------------------------------------------------------------
(* The budget. *)

BuysOf(att, d) == {o \in Orders \ Sells : att[o].status # "none" /\ att[o].day = d}

\* What a policy charges to its date is what the attempts of that date cost; no
\* attempt is of a later date, so a new date starts with nothing to count.
Balanced(pol, att, today) ==
    /\ IsFiniteSet({o \in Orders : att[o].status # "none"})
    /\ pol.date <= today
    /\ \A o \in Orders : att[o].status # "none" => att[o].day <= pol.date
    /\ pol.daily = Cost(BuysOf(att, pol.date))
    /\ pol.daily <= MaxDailyBuy

BudgetInv == Balanced(policy, attempts, day)

\* The budget lives in two fields of the policy and two of an attempt.
LEMMA BalanceKept ==
    ASSUME NEW pol, NEW att, NEW d, Balanced(pol, att, d),
           NEW new, new.date = pol.date, new.daily = pol.daily,
           NEW entries,
           \A o \in Orders : /\ (entries[o].status = "none") <=> (att[o].status = "none")
                             /\ entries[o].day = att[o].day
    PROVE  Balanced(new, entries, d)
<1>1. /\ {o \in Orders : entries[o].status # "none"} = {o \in Orders : att[o].status # "none"}
      /\ BuysOf(entries, pol.date) = BuysOf(att, pol.date)
  BY DEF BuysOf
<1>2. \A o \in Orders : entries[o].status # "none" => entries[o].day <= pol.date
  BY DEF Balanced
<1> QED
  BY <1>1, <1>2 DEF Balanced

\* A new day finds nothing charged and nothing attempted.
LEMMA BalancedToday ==
    ASSUME TypeOK, BudgetInv
    PROVE  Balanced(Today(policy), attempts, day)
<1>1. CASE policy.date = day
  BY <1>1 DEF Today, BudgetInv
<1>2. CASE policy.date # day
  <2>1. Today(policy).date = day /\ Today(policy).daily = 0
    BY <1>2 DEF TypeOK, Policy, Today
  <2>2. day \in Int /\ policy.date \in Int /\ policy.date < day
    BY <1>2 DEF BudgetInv, Balanced, TypeOK, Policy
  <2>3. ASSUME NEW o \in Orders, attempts[o].status # "none"
        PROVE  attempts[o].day <= day /\ attempts[o].day # day
    <3>1. attempts[o].day <= policy.date /\ attempts[o].day \in Int
      BY <2>3 DEF BudgetInv, Balanced, TypeOK, Attempt
    <3> QED
      BY <2>2, <3>1
  <2>4. BuysOf(attempts, day) = {}
    BY <2>3 DEF BuysOf
  <2>5. 0 <= MaxDailyBuy /\ day <= day
    BY <2>2, TossAssumption
  <2> QED
    BY <2>1, <2>3, <2>4, <2>5, CostFirst DEF BudgetInv, Balanced
<1> QED
  BY <1>1, <1>2

\* A prepared order is charged with what its attempt adds.
LEMMA BalancedPrepare ==
    ASSUME TypeInv, BudgetInv, NEW h \in Handlers, Prepare(h)
    PROVE  BudgetInv'
<1> DEFINE o == handler[h].order
           pol == Today(policy)
           entry == [status |-> "submission_pending", day |-> day]
           paid == BuysOf(attempts, day)
<1>1. o \in Orders /\ attempts \in [Orders -> Attempt] /\ day \in Nat /\ pol \in Policy
  <2>1. TypeOK /\ handler[h].pc = "gated"
    BY DEF TypeInv, Prepare
  <2>2. handler[h].order \in Orders
    BY <2>1 DEF TypeInv
  <2>3. attempts \in [Orders -> Attempt] /\ day \in Nat
    BY <2>1 DEF TypeOK
  <2>4. Today(policy) \in Policy
    BY <2>1, PolicyTypes
  <2> QED
    BY <2>2, <2>3, <2>4
<1>2. /\ attempts[o].status = "none" /\ BudgetAllows(o) /\ policy' = Charged(o)
      /\ attempts' = [attempts EXCEPT ![o] = entry] /\ day' = day
  BY DEF Prepare, Prepares, Handling
<1>3. Balanced(pol, attempts, day) /\ pol.date = day
  BY <1>1, BalancedToday DEF TypeInv, TypeOK, Today, Policy
<1>4. \A x \in Orders : attempts'[x] = IF x = o THEN entry ELSE attempts[x]
  BY <1>1, <1>2
<1>5. /\ policy'.date = day
      /\ policy'.daily = pol.daily + (IF o \in Sells THEN 0 ELSE Value[o])
  <2> HIDE DEF pol
  <2>1. Charged(o) = [pol EXCEPT !.daily = @ + IF o \in Sells THEN 0 ELSE Value[o]]
    BY DEF Charged, pol
  <2>2. pol.date = day /\ pol \in Policy
    BY <1>1, <1>3
  <2> HIDE DEF o
  <2> QED
    BY <1>2, <2>1, <2>2 DEF Policy
<1> HIDE DEF pol, o
<1>6. IsFiniteSet(paid) /\ paid \in SUBSET Orders /\ pol.daily = Cost(paid) /\ pol.daily <= MaxDailyBuy
  <2>1. paid \subseteq {x \in Orders : attempts[x].status # "none"}
    BY DEF BuysOf
  <2> QED
    BY <1>3, <2>1, FS_Subset DEF Balanced
<1>7. IsFiniteSet({x \in Orders : attempts'[x].status # "none"})
  <2>1. {x \in Orders : attempts'[x].status # "none"}
            = {x \in Orders : attempts[x].status # "none"} \cup {o}
    BY <1>1, <1>4
  <2> QED
    BY <1>3, <2>1, FS_AddElement DEF Balanced
<1>8. \A x \in Orders : attempts'[x].status # "none" => attempts'[x].day <= policy'.date
  <2>1. day <= day
    BY <1>1
  <2> QED
    BY <1>3, <1>4, <1>5, <2>1 DEF Balanced
<1>9. CASE o \in Sells
  <2>1. BuysOf(attempts', day) = paid
    BY <1>4, <1>9 DEF BuysOf
  <2>2. policy'.daily = pol.daily
    BY <1>5, <1>9, <1>1 DEF Policy
  <2> QED
    BY <1>1, <1>2, <1>5, <1>6, <1>7, <1>8, <2>1, <2>2 DEF BudgetInv, Balanced
<1>10. CASE o \notin Sells
  <2>1. BuysOf(attempts', day) = paid \cup {o} /\ o \in Orders \ paid
    BY <1>1, <1>2, <1>4, <1>10 DEF BuysOf
  <2>2. Cost(paid \cup {o}) = Cost(paid) + Value[o]
    BY <1>6, <2>1, CostOneMore
  <2>3. pol.daily + Value[o] <= MaxDailyBuy
    BY <1>2, <1>10 DEF BudgetAllows, pol
  <2> QED
    BY <1>1, <1>2, <1>5, <1>6, <1>7, <1>8, <1>10, <2>1, <2>2, <2>3 DEF BudgetInv, Balanced
<1> QED
  BY <1>9, <1>10

\* The new policy charges what pol does.
Charges(pol) == policy'.date = pol.date /\ policy'.daily = pol.daily

\* The policies of the other operations have the date and the total of the
\* current one, or of today's.
LEMMA BudgetPolicies ==
    ASSUME TypeOK
    PROVE  /\ User \/ (\E h \in Handlers : ManualSubmit(h) \/ AutomationSubmit(h)) \/ Reconcile =>
                 Charges(policy) \/ Charges(Today(policy))
           /\ \A h \in Handlers : MarkSubmitted(h) \/ MarkUnknown(h) => Charges(policy)
<1>1. /\ policy \in Policy /\ Today(policy) \in Policy /\ Today(policy).date = day
  BY ZenonT(60), PolicyTypes DEF TypeOK, Today, Policy
<1>2. ASSUME NEW pol \in Policy, NEW b \in BOOLEAN
      PROVE  /\ [pol EXCEPT !.consent = b].date = pol.date /\ [pol EXCEPT !.consent = b].daily = pol.daily
             /\ [pol EXCEPT !.safety = b].date = pol.date /\ [pol EXCEPT !.safety = b].daily = pol.daily
             /\ [pol EXCEPT !.manual = b].date = pol.date /\ [pol EXCEPT !.manual = b].daily = pol.daily
             /\ [pol EXCEPT !.auto = b].date = pol.date /\ [pol EXCEPT !.auto = b].daily = pol.daily
             /\ BothOff(pol).date = pol.date /\ BothOff(pol).daily = pol.daily
             /\ [pol EXCEPT !.reconciled = b].date = pol.date
             /\ [pol EXCEPT !.reconciled = b].daily = pol.daily
             /\ [pol EXCEPT !.reconciled = b, !.lock = None].date = pol.date
             /\ [pol EXCEPT !.reconciled = b, !.lock = None].daily = pol.daily
  BY DEF BothOff, Policy
<1>3. \A a \in Accounts, k \in ApiKeys :
         Rebound(a, k).date = day /\ Rebound(a, k).daily = Today(policy).daily
  BY DEF Rebound, DefaultPolicy
<1>4. ASSUME User PROVE Charges(policy) \/ Charges(Today(policy))
  <2>1. CASE VerifyReadiness
    <3>1. policy' = Today(policy) \/ \E a \in Accounts, k \in ApiKeys : policy' = Rebound(a, k)
      BY <2>1 DEF VerifyReadiness, SetPolicy
    <3>2. policy'.date = Today(policy).date /\ policy'.daily = Today(policy).daily
      BY <1>1, <1>3, <3>1
    <3> QED
      BY <3>2 DEF Charges
  <2>2. CASE Consent \/ RecordSafetyProof
    <3>1. policy' = [policy EXCEPT !.consent = TRUE] \/ policy' = [policy EXCEPT !.safety = TRUE]
      BY <2>2 DEF Consent, RecordSafetyProof, SetPolicy
    <3>2. \A b \in BOOLEAN :
            /\ [policy EXCEPT !.consent = b].date = policy.date
            /\ [policy EXCEPT !.consent = b].daily = policy.daily
            /\ [policy EXCEPT !.safety = b].date = policy.date
            /\ [policy EXCEPT !.safety = b].daily = policy.daily
      BY <1>1, <1>2
    <3>3. policy'.date = policy.date /\ policy'.daily = policy.daily
      BY <3>1, <3>2
    <3> QED
      BY <3>3 DEF Charges
  <2>3. CASE EnableManual \/ EnableAutomation \/ Disable
    <3>1. \/ policy' = [Today(policy) EXCEPT !.manual = TRUE]
          \/ policy' = [Today(policy) EXCEPT !.auto = TRUE]
          \/ policy' = [Today(policy) EXCEPT !.auto = FALSE]
          \/ policy' = BothOff(Today(policy))
      BY <2>3 DEF EnableManual, EnableAutomation, Disable, SetPolicy
    <3>2. \A b \in BOOLEAN :
            /\ [Today(policy) EXCEPT !.manual = b].date = Today(policy).date
            /\ [Today(policy) EXCEPT !.manual = b].daily = Today(policy).daily
            /\ [Today(policy) EXCEPT !.auto = b].date = Today(policy).date
            /\ [Today(policy) EXCEPT !.auto = b].daily = Today(policy).daily
            /\ BothOff(Today(policy)).date = Today(policy).date
            /\ BothOff(Today(policy)).daily = Today(policy).daily
      BY <1>1, <1>2
    <3>3. policy'.date = Today(policy).date /\ policy'.daily = Today(policy).daily
      BY <3>1, <3>2
    <3> QED
      BY <3>3 DEF Charges
  <2> QED
    BY <1>4, <2>1, <2>2, <2>3 DEF User
<1>5. ASSUME NEW h \in Handlers, ManualSubmit(h) \/ AutomationSubmit(h) PROVE policy' = Today(policy)
  BY ZenonT(60), <1>5 DEF ManualSubmit, AutomationSubmit
<1>6. ASSUME Reconcile PROVE Charges(policy) \/ Charges(Today(policy))
  <2>1. PICK b \in BOOLEAN : \/ policy' = [Today(policy) EXCEPT !.reconciled = b, !.lock = None]
                             \/ policy' = [Today(policy) EXCEPT !.reconciled = b]
    <3>1. PICK matched \in SUBSET {x \in Orders : attempts[x].status = "submitted"}, sameTime \in BOOLEAN :
            LET before == matched \cap Manual = {} \/ ~sameTime
            IN  /\ attempts' = [o \in Orders |-> [attempts[o] EXCEPT !.status =
                                    IF o \in matched THEN "reconciled" ELSE @]]
                /\ policy' = IF NoUnknown
                             THEN [Today(policy) EXCEPT !.reconciled = before, !.lock = None]
                             ELSE [Today(policy) EXCEPT !.reconciled = @ /\ matched \cap Manual = {}]
      BY <1>6 DEF Reconcile
    <3> DEFINE b == matched \cap Manual = {} \/ ~sameTime
               c == Today(policy).reconciled /\ matched \cap Manual = {}
    <3>2. b \in BOOLEAN /\ c \in BOOLEAN
      OBVIOUS
    <3>3. \/ policy' = [Today(policy) EXCEPT !.reconciled = b, !.lock = None]
          \/ policy' = [Today(policy) EXCEPT !.reconciled = c]
      BY ZenonT(60), <3>1
    <3> QED
      BY ZenonT(60), <3>2, <3>3
  <2>2. /\ [Today(policy) EXCEPT !.reconciled = b].date = Today(policy).date
        /\ [Today(policy) EXCEPT !.reconciled = b].daily = Today(policy).daily
        /\ [Today(policy) EXCEPT !.reconciled = b, !.lock = None].date = Today(policy).date
        /\ [Today(policy) EXCEPT !.reconciled = b, !.lock = None].daily = Today(policy).daily
    BY <1>1, <1>2
  <2>3. policy'.date = Today(policy).date /\ policy'.daily = Today(policy).daily
    BY <2>1, <2>2
  <2> QED
    BY <2>3 DEF Charges
<1>7. ASSUME NEW h \in Handlers, MarkSubmitted(h) \/ MarkUnknown(h)
      PROVE  Charges(policy)
  BY <1>1, <1>7 DEF MarkSubmitted, MarkUnknown, Locked, Policy, Charges
<1>8. ASSUME NEW h \in Handlers, ManualSubmit(h) \/ AutomationSubmit(h)
      PROVE  Charges(Today(policy))
  BY <1>5, <1>8 DEF Charges
<1> QED
  BY <1>4, <1>6, <1>7, <1>8

\* The attempts an operation touches stay attempts of their day.
LEMMA EntriesStay ==
    ASSUME TypeInv, KeptInv, NEW h \in Handlers,
           MarkSubmitted(h) \/ MarkRejected(h) \/ MarkUnknown(h)
    PROVE  \A x \in Orders : /\ (attempts'[x].status = "none") <=> (attempts[x].status = "none")
                             /\ attempts'[x].day = attempts[x].day
<1> DEFINE o == handler[h].order
<1>1. /\ attempts \in [Orders -> Attempt] /\ handler[h].kept /\ handler[h].pc = "answered"
      /\ o \in Orders
  BY DEF TypeInv, TypeOK, MarkSubmitted, MarkRejected, MarkUnknown
<1>2. attempts[o].status # "none"
  BY <1>1 DEF KeptInv, KeptOK
<1>3. PICK status \in Statuses : attempts' = [attempts EXCEPT ![o].status = status]
  BY DEF MarkSubmitted, MarkRejected, MarkUnknown, Mark, Statuses
<1>4. "none" \notin Statuses
  BY DEF Statuses
<1> HIDE DEF o
<1> QED
  BY <1>1, <1>2, <1>3, <1>4 DEF Attempt

LEMMA BudgetInductive ==
    ASSUME TypeInv, KeptInv, BudgetInv, [Next]_vars
    PROVE  BudgetInv'
<1>0. TypeOK /\ attempts \in [Orders -> Attempt]
  BY DEF TypeInv, TypeOK
<1>b. ASSUME NEW entries,
             \A x \in Orders : /\ (entries[x].status = "none") <=> (attempts[x].status = "none")
                               /\ entries[x].day = attempts[x].day,
             Charges(policy) \/ Charges(Today(policy))
      PROVE  Balanced(policy', entries, day)
  <2>1. Balanced(policy, attempts, day) /\ Balanced(Today(policy), attempts, day)
    BY <1>0, BalancedToday DEF BudgetInv
  <2>2. CASE Charges(policy)
    BY <1>b, <2>1, <2>2, BalanceKept DEF Charges
  <2>3. CASE Charges(Today(policy))
    BY <1>b, <2>1, <2>3, BalanceKept DEF Charges
  <2> QED
    BY <1>b, <2>2, <2>3
<1>1. ASSUME day' = day, attempts' = attempts, Charges(policy) \/ Charges(Today(policy))
      PROVE  BudgetInv'
  BY <1>1, <1>b DEF BudgetInv
<1>2. CASE User
  <2>1. day' = day /\ attempts' = attempts
    BY <1>2 DEF User, VerifyReadiness, Consent, EnableManual, EnableAutomation, Disable,
       RecordSafetyProof, SetPolicy
  <2> QED
    BY <1>0, <1>1, <1>2, <2>1, BudgetPolicies
<1>3. ASSUME NEW h \in Handlers, Submission(h) PROVE BudgetInv'
  <2>1. CASE ManualSubmit(h) \/ AutomationSubmit(h)
    <3>1. day' = day /\ attempts' = attempts
      BY ZenonT(60), <2>1 DEF ManualSubmit, AutomationSubmit, Handling
    <3> QED
      BY <1>0, <1>1, <2>1, <3>1, BudgetPolicies
  <2>2. CASE Prepare(h)
    BY <2>2, BalancedPrepare
  <2>3. CASE MarkSubmitted(h) \/ MarkRejected(h) \/ MarkUnknown(h)
    <3>1. day' = day /\ Charges(policy)
      <4>1. CASE MarkRejected(h)
        BY <4>1 DEF MarkRejected, Handling, Charges
      <4>2. CASE MarkSubmitted(h) \/ MarkUnknown(h)
        <5>1. day' = day
          BY ZenonT(60), <4>2 DEF MarkSubmitted, MarkUnknown, Handling
        <5> QED
          BY <1>0, <4>2, <5>1, BudgetPolicies
      <4> QED
        BY <2>3, <4>1, <4>2
    <3>2. Balanced(policy', attempts', day)
      BY <1>b, <2>3, <3>1, EntriesStay
    <3> QED
      BY <3>1, <3>2 DEF BudgetInv
  <2>4. CASE Refuse(h) \/ MarkPreviewFails(h) \/ Post(h) \/ Track(h) \/ AfterPostFails(h) \/ MarkFails(h)
    <3>1. UNCHANGED ledger /\ day' = day
      BY <2>4 DEF Refuse, MarkPreviewFails, Post, Track, AfterPostFails, MarkFails, Handling
    <3> QED
      BY <3>1 DEF ledger, BudgetInv
  <2> QED
    BY <1>3, <2>1, <2>2, <2>3, <2>4 DEF Submission
<1>4. CASE Reconcile
  <2>1. PICK matched \in SUBSET {x \in Orders : attempts[x].status = "submitted"} :
          attempts' = [o \in Orders |-> [attempts[o] EXCEPT !.status =
                          IF o \in matched THEN "reconciled" ELSE @]]
    BY <1>4 DEF Reconcile
  <2>2. \A x \in Orders : /\ (attempts'[x].status = "none") <=> (attempts[x].status = "none")
                          /\ attempts'[x].day = attempts[x].day
    BY <1>0, <2>1 DEF Attempt
  <2>3. day' = day
    BY ZenonT(60), <1>4 DEF Reconcile
  <2>4. Charges(policy) \/ Charges(Today(policy))
    BY <1>0, <1>4, BudgetPolicies
  <2>5. Balanced(policy', attempts', day)
    BY <1>b, <2>2, <2>4
  <2> QED
    BY <2>3, <2>5 DEF BudgetInv
<1>5. CASE LedgerLost
  <2>1. /\ policy'.date = day /\ policy'.daily = 0 /\ day' = day /\ day \in Nat
        /\ \A o \in Orders : attempts'[o].status = "none"
    BY <1>0, <1>5 DEF LedgerLost, DefaultPolicy, NoAttempt, TypeOK
  <2>2. {o \in Orders : attempts'[o].status # "none"} = {} /\ BuysOf(attempts', day) = {}
    BY <2>1 DEF BuysOf
  <2>3. IsFiniteSet({}) /\ 0 <= MaxDailyBuy /\ day <= day
    BY <2>1, FS_EmptySet, TossAssumption
  <2>4. Balanced(policy', attempts', day)
    BY <2>1, <2>2, <2>3, CostFirst DEF Balanced
  <2> QED
    BY <2>1, <2>4 DEF BudgetInv
<1>6. CASE NextDay
  <2>1. UNCHANGED ledger /\ day' = day + 1
    BY <1>6 DEF NextDay
  <2>2. policy.date <= day'
    <3>1. policy.date \in Int /\ day \in Int /\ policy.date <= day
      BY <1>0 DEF TypeOK, Policy, BudgetInv, Balanced
    <3> QED
      BY <2>1, <3>1
  <2> QED
    BY <2>1, <2>2 DEF ledger, BudgetInv, Balanced
<1>7. CASE Restart \/ Arrive \/ UNCHANGED vars
  BY <1>7 DEF Restart, Arrive, vars, ledger, BudgetInv
<1> QED
  BY <1>2, <1>3, <1>4, <1>5, <1>6, <1>7 DEF Next, World

\* The day's budget is the sum of the day's buy attempts, in KRW, and within the
\* daily limit, for any values, limits and number of submissions: the attempt and
\* its charge are one write, a rebinding keeps both, and the date only moves when
\* no attempt has the new one yet.
THEOREM BudgetCounts == Spec => []BudgetIsCounted
<1>1. Init => BudgetInv
  <2> SUFFICES ASSUME Init PROVE BudgetInv
    OBVIOUS
  <2>1. /\ policy.date = 0 /\ policy.daily = 0 /\ day = 0
        /\ \A o \in Orders : attempts[o].status = "none"
    BY DEF Init, DefaultPolicy, NoAttempt
  <2>2. {o \in Orders : attempts[o].status # "none"} = {} /\ BuysOf(attempts, 0) = {}
    BY <2>1 DEF BuysOf
  <2>3. IsFiniteSet({}) /\ 0 <= MaxDailyBuy /\ 0 <= 0
    BY FS_EmptySet, TossAssumption
  <2>4. Balanced(policy, attempts, 0)
    BY <2>1, <2>2, <2>3, CostFirst DEF Balanced
  <2> QED
    BY <2>1, <2>4 DEF BudgetInv
<1>2. TypeInv /\ KeptInv /\ BudgetInv /\ [Next]_vars => BudgetInv'
  BY BudgetInductive
<1>3. BudgetInv => BudgetIsCounted
  BY DEF BudgetInv, Balanced, BuysOf, Cost, BudgetIsCounted
<1> QED
  BY <1>1, <1>2, <1>3, StateInvariant, PTL DEF Spec
=============================================================================
