------------------------------ MODULE MCGridTick ------------------------------
(* Two rungs, 20% and 28% below the base price, each sold 25% above its entry. *)
EXTENDS GridTick

MCDrop == [rung \in Rungs |-> IF rung = 1 THEN 20 ELSE 28]
MCRise == [rung \in Rungs |-> 25]
=============================================================================
