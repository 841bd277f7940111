----------------------------- MODULE MCWorkerTick -----------------------------
(* Small ladders for TLC; the prices and limits are in the configurations. *)
EXTENDS WorkerTick, TLC

Buy(id, price) == [id |-> id, side |-> "buy", price |-> price, notional |-> 1]
Sell(id, price) == [id |-> id, side |-> "sell", price |-> price, notional |-> 1]

\* Two ladders the user swaps during the day: together they exceed the limit.
MCEditedLadders == {<<Buy("b1", 8)>>, <<Buy("b2", 6)>>}
\* At the take-profit price the step and the exit are due in one tick.
MCShortLadder == {<<Sell("s1", 10)>>}

RunnerSymmetry == Permutations(Runners)
=============================================================================
