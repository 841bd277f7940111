-------------------------- MODULE OrderJournal_proofs --------------------------
(***************************************************************************)
(* What every ledger that implements OrderJournal keeps, for any number of *)
(* orders.                                                                 *)
(***************************************************************************)
EXTENDS OrderJournal, TLAPS

LEMMA StepTypes == TypeOK /\ [Next]_vars => TypeOK'
<1> SUFFICES ASSUME TypeOK, [Next]_vars PROVE TypeOK'
  OBVIOUS
<1> USE DEF TypeOK, Verdicts
<1>1. CASE Lose
  BY <1>1 DEF Lose
<1>2. ASSUME NEW o \in Orders, Journal(o) PROVE TypeOK'
  BY <1>2 DEF Journal
<1>3. ASSUME NEW o \in Orders, Send(o) PROVE TypeOK'
  BY <1>3 DEF Send
<1>4. ASSUME NEW o \in Orders, Arrive(o) PROVE TypeOK'
  BY <1>4 DEF Arrive
<1>5. ASSUME NEW o \in Orders, NEW verdict \in Verdicts, Conclude(o, verdict) PROVE TypeOK'
  BY <1>5 DEF Conclude
<1>6. CASE UNCHANGED vars
  BY <1>6 DEF vars
<1> QED
  BY <1>1, <1>2, <1>3, <1>4, <1>5, <1>6 DEF Next

LEMMA StepKeepsPromise == TypeOK /\ NeverContradicted /\ [Next]_vars => NeverContradicted'
<1> SUFFICES ASSUME TypeOK, NeverContradicted, [Next]_vars PROVE NeverContradicted'
  OBVIOUS
<1> USE DEF TypeOK, NeverContradicted
<1>1. CASE Lose
  BY <1>1 DEF Lose
<1>2. ASSUME NEW o \in Orders, Journal(o) PROVE NeverContradicted'
  BY <1>2 DEF Journal
<1>3. ASSUME NEW o \in Orders, Send(o) PROVE NeverContradicted'
  BY <1>3 DEF Send
<1>4. ASSUME NEW o \in Orders, Arrive(o) PROVE NeverContradicted'
  BY <1>4 DEF Arrive
<1>5. ASSUME NEW o \in Orders, NEW verdict \in Verdicts, Conclude(o, verdict) PROVE NeverContradicted'
  BY <1>5 DEF Conclude, Verdicts
<1>6. CASE UNCHANGED vars
  BY <1>6 DEF vars
<1> QED
  BY <1>1, <1>2, <1>3, <1>4, <1>5, <1>6 DEF Next

\* Nothing reaches the broker without an entry, nothing is sent twice and no
\* verdict is wrong: with LedgerImplementsJournal this holds of the attempts
\* local-live-trading.ts keeps.
THEOREM PromiseKept == Spec => []NeverContradicted
<1>1. Init => TypeOK /\ NeverContradicted
  BY DEF Init, TypeOK, NeverContradicted, Verdicts
<1> QED
  BY <1>1, StepTypes, StepKeepsPromise, PTL DEF Spec
================================================================================
