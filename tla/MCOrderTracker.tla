---------------------------- MODULE MCOrderTracker ----------------------------
(* The quantities of the orders for TLC. *)
EXTENDS OrderTracker

CONSTANTS o1, o2

MCQuantity == [o \in Orders |-> IF o = o1 THEN 2 ELSE 1]
=============================================================================
