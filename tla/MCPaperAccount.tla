--------------------------- MODULE MCPaperAccount ---------------------------
(* A request that runs the cycle and one that does anything else; a strategy of *)
(* a buy and a stop-loss in one session, of a sell in the other.                *)
EXTENDS PaperAccount

CONSTANTS first, second, US, KR, share, in, out, stop

MCJobs == [r \in Requests |->
              IF r = first THEN {"cycle", "daily"} ELSE {"daily", "order", "reset", "look"}]

MCStepOf ==
    [step \in Steps |->
        CASE step = in -> [session |-> US, symbol |-> share, side |-> "buy",
                           quantity |-> 4, price |-> 1]
          [] step = out -> [session |-> KR, symbol |-> share, side |-> "sell",
                            quantity |-> 4, price |-> 2]
          [] OTHER -> [session |-> US, symbol |-> share, side |-> "stop-loss",
                       quantity |-> 0, price |-> 0]]
=============================================================================
