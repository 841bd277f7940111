----------------------------- MODULE OrderTracker -----------------------------
(***************************************************************************)
(* The order tracking ledger (order-tracker.ts) and the fill               *)
(* synchronisation over it (sync-order-fills.ts).                          *)
(*                                                                         *)
(* The ledger holds the sent orders, the fills found so far and the order  *)
(* previews, in one of two backends.  In the file backend every operation  *)
(* reads the whole file, changes its copy and writes it whole, with an     *)
(* await in between and no queue; an unreadable file reads as an empty     *)
(* one.  In the Supabase backend an operation changes its own rows, and a  *)
(* synchronisation updates the orders one by one before it inserts the     *)
(* fills.                                                                  *)
(*                                                                         *)
(* Writers are the routes and cycles that preview and send orders, Syncers *)
(* the ones that synchronise; each may fail or crash at every step.        *)
(***************************************************************************)
EXTENDS Integers

CONSTANTS
    Orders,         \* clientOrderIds; Toss gives each one brokerOrderId
    Manual,         \* those of the manual route, which sends a preview
    Quantity,       \* shares of each
    Syncers, Writers

ASSUME TrackerAssumption ==
    /\ Orders # {}
    /\ Quantity \in [Orders -> Nat \ {0}]
    /\ Manual \subseteq Orders

VARIABLES
    backend,        \* "file" or "rows": shouldUseSupabaseStore, fixed
    broker,         \* the orders at Toss
    store,          \* the ledger
    writer, syncer,
    stale           \* ghost: a file was written over changes its writer had not read

vars == <<backend, broker, store, writer, syncer, stale>>

-----------------------------------------------------------------------------
(* Orders and the state of the processes. *)

\* Mutant: a partly filled order counts as ended.
TerminalWhenPartial == {"FILLED", "CANCELED", "REJECTED", "PARTIAL_FILLED"}

\* TERMINAL_TOSS_STATUSES; CANCELED stands for every end that may leave an order
\* partly filled.
TerminalStatuses == {"FILLED", "CANCELED", "REJECTED"}

Row == [status : {"none", "PENDING", "PARTIAL_FILLED", "FILLED", "CANCELED", "REJECTED"},
        filled : Nat]
NoRow == [status |-> "none", filled |-> 0]
NewRow == [status |-> "PENDING", filled |-> 0]

Terminal(row) == row.status \in TerminalStatuses
Tracked(row) == row # NoRow /\ ~Terminal(row)

\* What the OPEN list of Toss holds.
Working(o) == broker[o].status \in {"PENDING", "PARTIAL_FILLED"}

\* fills: the quantities of the fill records of each order, added up.
Store == [orders : [Orders -> Row], fills : [Orders -> Nat],
          previews : [Orders -> {"none", "open", "used"}]]
EmptyStore == [orders |-> [o \in Orders |-> NoRow], fills |-> [o \in Orders |-> 0],
               previews |-> [o \in Orders |-> "none"]]

Writer == [pc : {"idle", "read", "write"}, job : {"preview", "record", "mark"},
           order : Orders, copy : Store]
IdleWriter == [pc |-> "idle", job |-> "record", order |-> CHOOSE o \in Orders : TRUE,
               copy |-> EmptyStore]

\* seen: the filled quantities of the orders when they were listed; found: what
\* Toss said of them; todo: those to look up, or in the rows backend to update.
Syncer == [pc : {"idle", "listed", "lookup", "apply", "write"},
           seen : [Orders -> Nat], found : [Orders -> Row], todo : SUBSET Orders, copy : Store]
IdleSyncer == [pc |-> "idle", seen |-> [o \in Orders |-> 0], found |-> [o \in Orders |-> NoRow],
               todo |-> {}, copy |-> EmptyStore]

Found(rec) == {o \in Orders : rec.found[o] # NoRow}

-----------------------------------------------------------------------------
(* Reading and writing the ledger. *)

\* readFileStore: an unreadable or unparsable file is an empty ledger.
Readable == IF backend = "file" THEN {store, EmptyStore} ELSE {store}

\* writeFileStore of a ledger made from copy.
Overwrite(new, copy) ==
    /\ store' = new
    /\ stale' = (stale \/ copy # store)

Previewed(st, o) == [st EXCEPT !.previews[o] = "open"]

\* Mutant: an order that is recorded already is recorded anew.
RecordedAnew(st, o) == [st EXCEPT !.orders[o] = NewRow]

Recorded(st, o) ==
    IF st.orders[o] = NoRow THEN [st EXCEPT !.orders[o] = NewRow] ELSE st

Marked(st, o) ==
    [st EXCEPT !.previews[o] = IF @ = "none" THEN @ ELSE "used"]

Changed(job, st, o) ==
    CASE job = "preview" -> Previewed(st, o)
      [] job = "record" -> Recorded(st, o)
      [] job = "mark" -> Marked(st, o)

-----------------------------------------------------------------------------
(* Previews and orders. *)

Writing(w, rec) ==
    /\ writer' = [writer EXCEPT ![w] = rec]
    /\ UNCHANGED <<backend, syncer>>

Job(job, o) == [IdleWriter EXCEPT !.pc = "read", !.job = job, !.order = o]

\* The precheck ends in recordOrderPreview, each time under a new preview id.
Preview(w) ==
    /\ writer[w].pc = "idle"
    /\ \E o \in Manual :
          /\ broker[o] = NoRow /\ store.previews[o] = "none"
          /\ Writing(w, Job("preview", o))
    /\ UNCHANGED <<broker, store, stale>>

\* verifyOrderPreview and the order of the manual route; a cycle sends the order
\* of a step without preview.  For a clientOrderId it knows Toss returns the
\* order it has.
Send(w) ==
    /\ writer[w].pc = "idle"
    /\ \E o \in Orders :
          /\ o \in Manual => store.previews[o] = "open"
          /\ broker' = [broker EXCEPT ![o] = IF @ = NoRow THEN NewRow ELSE @]
          /\ Writing(w, Job("record", o))
    /\ UNCHANGED <<store, stale>>

\* After recordSubmittedOrder the manual route marks the preview.
AfterJob(rec) ==
    IF rec.job = "record" /\ rec.order \in Manual THEN Job("mark", rec.order) ELSE IdleWriter

\* The file backend reads the file, and to mark a preview reads it twice: an
\* order that is recorded already and a preview that is missing end the job.
Read(w) ==
    /\ writer[w].pc = "read" /\ backend = "file"
    /\ LET rec == writer[w]
       IN  \E first \in Readable, copy \in Readable :
              \/ /\ \/ rec.job = "record" /\ copy.orders[rec.order] # NoRow
                    \/ rec.job = "mark" /\ first.previews[rec.order] = "none"
                 /\ Writing(w, AfterJob(rec))
              \/ /\ rec.job = "record" => copy.orders[rec.order] = NoRow
                 /\ rec.job = "mark" => first.previews[rec.order] # "none"
                 /\ Writing(w, [rec EXCEPT !.pc = "write", !.copy = copy])
    /\ UNCHANGED <<broker, store, stale>>

Write(w) ==
    /\ writer[w].pc = "write"
    /\ LET rec == writer[w]
       IN  /\ Overwrite(Changed(rec.job, rec.copy, rec.order), rec.copy)
           /\ Writing(w, AfterJob(rec))
    /\ UNCHANGED broker

\* The Supabase backend changes the row alone; a unique index keeps an order
\* from being inserted twice.
WriteRow(w) ==
    /\ writer[w].pc = "read" /\ backend = "rows"
    /\ LET rec == writer[w]
       IN  /\ store' = Changed(rec.job, store, rec.order)
           /\ Writing(w, AfterJob(rec))
    /\ UNCHANGED <<broker, stale>>

\* Mutant: after a failed record the preview is marked all the same.
FailureIgnored(w) ==
    /\ writer[w].pc # "idle"
    /\ Writing(w, AfterJob(writer[w]))
    /\ UNCHANGED <<broker, store, stale>>

\* An error or a crash.
WriterFails(w) ==
    /\ writer[w].pc # "idle"
    /\ Writing(w, IdleWriter)
    /\ UNCHANGED <<broker, store, stale>>

-----------------------------------------------------------------------------
(* The synchronisation. *)

Syncing(s, rec) ==
    /\ syncer' = [syncer EXCEPT ![s] = rec]
    /\ UNCHANGED <<backend, broker, writer>>

\* listOpenTrackedOrders.  With nothing to look up applySyncUpdates still runs.
List(s) ==
    /\ syncer[s].pc = "idle"
    /\ \E copy \in Readable :
          LET listed == {o \in Orders : Tracked(copy.orders[o])}
          IN  Syncing(s, [IdleSyncer EXCEPT
                  !.pc = IF listed = {} THEN "apply" ELSE "listed",
                  !.seen = [o \in Orders |-> IF o \in listed THEN copy.orders[o].filled ELSE 0],
                  !.todo = listed])
    /\ UNCHANGED <<store, stale>>

\* Mutant: orders that left the OPEN list are not looked up.
NothingMissing(listed) == {}

\* Orders that are not in the OPEN list are looked up one by one.
Missing(listed) == {o \in listed : ~Working(o)}

\* Mutant: the loop over the lookups has no end.
StillLooking(rec) == rec

AfterLookups(rec) ==
    IF rec.todo # {} THEN rec ELSE [rec EXCEPT !.pc = "apply", !.todo = Found(rec)]

\* getOpenOrders; if it fails the synchronisation ends with nothing to apply.
OpenOrders(s) ==
    /\ syncer[s].pc = "listed"
    /\ LET rec == syncer[s]
       IN  \/ Syncing(s, AfterLookups([rec EXCEPT !.pc = "lookup",
                  !.found = [o \in Orders |->
                                IF o \in rec.todo /\ Working(o) THEN broker[o] ELSE NoRow],
                  !.todo = Missing(rec.todo)]))
           \/ Syncing(s, [IdleSyncer EXCEPT !.pc = "apply"])
    /\ UNCHANGED <<store, stale>>

\* getOrder; an order whose lookup fails is skipped.
Lookup(s) ==
    /\ syncer[s].pc = "lookup"
    /\ \E o \in syncer[s].todo : \E row \in {broker[o], NoRow} :
          Syncing(s, AfterLookups([syncer[s] EXCEPT !.found[o] = row, !.todo = @ \ {o}]))
    /\ UNCHANGED <<store, stale>>

\* Mutant: a fill is recorded only when the order has ended.
DeltaAtEnd(rec, o) ==
    IF Terminal(rec.found[o]) THEN rec.found[o].filled - rec.seen[o] ELSE 0

\* The fill to record: what the order has filled since it was listed.
Delta(rec, o) ==
    IF rec.found[o].filled > rec.seen[o] THEN rec.found[o].filled - rec.seen[o] ELSE 0

\* The bound of the model: fills are counted up to one more than the quantity.
Counted(o, n) == IF n > Quantity[o] THEN Quantity[o] + 1 ELSE n

WithFills(st, rec) ==
    [st EXCEPT !.fills = [o \in Orders |-> Counted(o, st.fills[o] + Delta(rec, o))]]

\* An update changes a row that exists.
WithRows(st, rec, updated) ==
    [st EXCEPT !.orders = [o \in Orders |->
        IF o \in updated /\ st.orders[o] # NoRow THEN rec.found[o] ELSE st.orders[o]]]

\* applySyncUpdates, file backend: one write for both.
ApplyRead(s) ==
    /\ syncer[s].pc = "apply" /\ backend = "file"
    /\ \E copy \in Readable : Syncing(s, [syncer[s] EXCEPT !.pc = "write", !.copy = copy])
    /\ UNCHANGED <<store, stale>>

ApplyWrite(s) ==
    /\ syncer[s].pc = "write"
    /\ LET rec == syncer[s]
       IN  Overwrite(WithFills(WithRows(rec.copy, rec, Found(rec)), rec), rec.copy)
    /\ Syncing(s, IdleSyncer)

\* applySyncUpdates, Supabase backend: row after row, then all fills.
ApplyRow(s) ==
    /\ syncer[s].pc = "apply" /\ backend = "rows"
    /\ \E o \in syncer[s].todo :
          /\ store' = WithRows(store, syncer[s], {o})
          /\ Syncing(s, [syncer[s] EXCEPT !.todo = @ \ {o}])
    /\ UNCHANGED stale

InsertFills(s) ==
    /\ syncer[s].pc = "apply" /\ backend = "rows" /\ syncer[s].todo = {}
    /\ store' = WithFills(store, syncer[s])
    /\ Syncing(s, IdleSyncer)
    /\ UNCHANGED stale

\* An error or a crash, at any step.
SyncFails(s) ==
    /\ syncer[s].pc # "idle"
    /\ Syncing(s, IdleSyncer)
    /\ UNCHANGED <<store, stale>>

-----------------------------------------------------------------------------
(* Toss. *)

Trades(o, row) ==
    /\ broker' = [broker EXCEPT ![o] = row]
    /\ UNCHANGED <<backend, store, writer, syncer, stale>>

Fill(o) ==
    /\ Working(o)
    /\ \E n \in broker[o].filled + 1..Quantity[o] :
          Trades(o, [status |-> IF n = Quantity[o] THEN "FILLED" ELSE "PARTIAL_FILLED",
                     filled |-> n])

Cancel(o) == Working(o) /\ Trades(o, [broker[o] EXCEPT !.status = "CANCELED"])

Reject(o) == broker[o] = NewRow /\ Trades(o, [broker[o] EXCEPT !.status = "REJECTED"])

-----------------------------------------------------------------------------
Init ==
    /\ backend \in {"file", "rows"}
    /\ broker = [o \in Orders |-> NoRow]
    /\ store = EmptyStore
    /\ writer = [w \in Writers |-> IdleWriter]
    /\ syncer = [s \in Syncers |-> IdleSyncer]
    /\ stale = FALSE

Writes(w) == Preview(w) \/ Send(w) \/ Read(w) \/ Write(w) \/ WriteRow(w) \/ WriterFails(w)

Succeeds(s) ==
    \/ List(s) \/ OpenOrders(s) \/ Lookup(s)
    \/ ApplyRead(s) \/ ApplyWrite(s) \/ ApplyRow(s) \/ InsertFills(s)

Trading(o) == Fill(o) \/ Cancel(o) \/ Reject(o)

Next ==
    \/ \E w \in Writers : Writes(w)
    \/ \E s \in Syncers : Succeeds(s) \/ SyncFails(s)
    \/ \E o \in Orders : Trading(o)

Spec == Init /\ [][Next]_vars

-----------------------------------------------------------------------------
(* Properties. *)

\* Every variable stays in its type, and a synchronisation that looks orders up
\* has orders to look up.
TypeOK ==
    /\ backend \in {"file", "rows"} /\ stale \in BOOLEAN
    /\ broker \in [Orders -> Row]
    /\ store \in Store
    /\ writer \in [Writers -> Writer]
    /\ syncer \in [Syncers -> Syncer]
    /\ \A s \in Syncers : syncer[s].pc \in {"listed", "lookup"} => syncer[s].todo # {}

\* What a row may say of the order at the broker.
Behind(row, order) ==
    /\ row.filled <= order.filled
    /\ row # NoRow => order # NoRow
    /\ Terminal(row) => row = order

\* The ledger never runs ahead of the broker (sync-order-fills.ts:87-146): a
\* tracked order has not filled more than Toss filled, and one the ledger holds
\* for ended, which no synchronisation looks up again, ended at Toss just so.
\* Holds with overlapping synchronisations and lost files too.
RowsFollowBroker == \A o \in Orders : Behind(store.orders[o], broker[o])

\* The fill records of an order never add up to more than its filled quantity,
\* and in the file backend, which writes both at once, to no less
\* (sync-order-fills.ts:109-135, order-tracker.ts:514-561): one synchroniser,
\* and no file written from an outdated copy.
FillsMatchRows ==
    ~stale => \A o \in Orders :
        /\ store.fills[o] <= store.orders[o].filled
        /\ backend = "file" => store.fills[o] = store.orders[o].filled

\* A preview is used up only once its order is tracked (manual/route.ts:150-163;
\* the sidecar marks first and has the attempts of TossLedger): a failure between
\* the order and its record leaves the preview usable, and sending it again finds
\* the order at Toss.
UsedIsTracked ==
    ~stale => \A o \in Orders : store.previews[o] = "used" => store.orders[o] # NoRow

\* The synchronisations go on and from some time on none fails: the cycle calls
\* them every interval (run-automation-cycle.ts:167-178).
NoFailure(s) ==
    /\ ~SyncFails(s)
    /\ List(s) => syncer'[s].todo = {o \in Orders : Tracked(store.orders[o])}
    /\ OpenOrders(s) => syncer'[s] # [IdleSyncer EXCEPT !.pc = "apply"]
    /\ Lookup(s) => \E o \in syncer[s].todo : syncer'[s].found[o] = broker[o]
    /\ ApplyRead(s) => syncer'[s].copy = store

FairSpec ==
    /\ Spec
    /\ \A s \in Syncers : WF_vars(Succeeds(s)) /\ <>[][NoFailure(s)]_vars

\* An order that ended at Toss does not stay open in the ledger
\* (sync-order-fills.ts:87-107): the lookup of what left the OPEN list closes it,
\* unless the ledger lost it.
OrdersClose ==
    \A o \in Orders :
        Tracked(store.orders[o]) /\ Terminal(broker[o])
            ~> Terminal(store.orders[o]) \/ store.orders[o] = NoRow
=============================================================================
