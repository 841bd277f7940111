----------------------------- MODULE OrderJournal -----------------------------
(***************************************************************************)
(* What a live-order ledger promises about the orders it sends, whatever   *)
(* the file behind it looks like: an order is journaled before it is sent, *)
(* it is sent at most once, and the journal never contradicts the broker.  *)
(* It says "accepted" only of an order the broker has and "refused" only   *)
(* of one the broker does not have and will not get; everything it cannot  *)
(* tell is "unclear".  Of an order whose entry is lost with the file it    *)
(* promises nothing.                                                       *)
(*                                                                         *)
(* CryptoLedger and TossLedger implement this module.                      *)
(***************************************************************************)
EXTENDS Integers

CONSTANT Orders     \* orders a client can name: one clientOrderId each

VARIABLES
    journal,    \* what the ledger says of each order
    posts,      \* how often each order was POSTed
    taken,      \* orders the broker has
    wire        \* orders POSTed and given up on that may still reach the broker

vars == <<journal, posts, taken, wire>>

Verdicts == {"accepted", "refused", "unclear"}

Init ==
    /\ journal = [o \in Orders |-> "unsent"]
    /\ posts = [o \in Orders |-> 0]
    /\ taken = {} /\ wire = {}

Journal(o) ==
    /\ journal[o] = "unsent"
    /\ journal' = [journal EXCEPT ![o] = "pending"]
    /\ UNCHANGED <<posts, taken, wire>>

Send(o) ==
    /\ journal[o] \in {"pending", "unclear"} /\ posts[o] = 0
    /\ posts' = [posts EXCEPT ![o] = 1]
    /\ \/ taken' = taken \cup {o} /\ UNCHANGED wire
       \/ wire' = wire \cup {o} /\ UNCHANGED taken
       \/ UNCHANGED <<taken, wire>>
    /\ UNCHANGED journal

Arrive(o) ==
    /\ o \in wire
    /\ wire' = wire \ {o}
    /\ taken' = taken \cup {o}
    /\ UNCHANGED <<journal, posts>>

Conclude(o, verdict) ==
    /\ journal[o] \notin {"unsent", "lost"}
    /\ verdict = "accepted" => o \in taken
    /\ verdict = "refused" => o \notin taken \cup wire
    /\ journal' = [journal EXCEPT ![o] = verdict]
    /\ UNCHANGED <<posts, taken, wire>>

\* The file is gone, with the entry of every order begun by then.
Lose ==
    LET begun == {o \in Orders : journal[o] # "unsent"}
    IN  /\ journal' = [o \in Orders |-> IF o \in begun THEN "lost" ELSE "unsent"]
        /\ posts' = [o \in Orders |-> IF o \in begun THEN 0 ELSE posts[o]]
        /\ taken' = taken \ begun /\ wire' = wire \ begun

Next ==
    \/ Lose
    \/ \E o \in Orders :
          \/ Journal(o) \/ Send(o) \/ Arrive(o)
          \/ \E verdict \in Verdicts : Conclude(o, verdict)

Spec == Init /\ [][Next]_vars

-----------------------------------------------------------------------------
(* The promise, as a state predicate. *)

TypeOK ==
    /\ journal \in [Orders -> Verdicts \cup {"unsent", "pending", "lost"}]
    /\ posts \in [Orders -> Nat]
    /\ taken \subseteq Orders /\ wire \subseteq Orders

\* Nothing reaches the broker without an entry, nothing is sent twice, and no
\* verdict is wrong.
NeverContradicted ==
    \A o \in Orders :
        /\ posts[o] <= 1
        /\ journal[o] \in {"unsent", "lost"} => posts[o] = 0
        /\ journal[o] = "accepted" => o \in taken
        /\ journal[o] = "refused" => o \notin taken \cup wire
        /\ o \in taken \cup wire => posts[o] = 1
=============================================================================
