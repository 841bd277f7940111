----------------------------- MODULE MCTossLedger -----------------------------
(* The values of the orders and the symmetric model values for TLC. *)
EXTENDS TossLedger, TLC

CONSTANTS m1, auto1, a1

MCValue == [o \in Orders |-> IF o = auto1 THEN 2 ELSE 1]
MCPreviewAccount == [o \in Manual |-> a1]
HandlerSymmetry == Permutations(Handlers)
=============================================================================
