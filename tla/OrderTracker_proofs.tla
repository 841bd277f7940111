-------------------------- MODULE OrderTracker_proofs --------------------------
(***************************************************************************)
(* What the tracking ledger keeps for any number of orders, quantities and *)
(* concurrent senders, in either backend: it never runs ahead of the       *)
(* broker whatever is overwritten, and with one synchroniser its fill      *)
(* records add up to what was filled.                                      *)
(***************************************************************************)
EXTENDS OrderTracker, TLAPS

-----------------------------------------------------------------------------
(* Types. *)

LEMMA Nulls ==
    /\ NoRow \in Row /\ NewRow \in Row /\ NoRow # NewRow
    /\ EmptyStore \in Store /\ IdleWriter \in Writer /\ IdleSyncer \in Syncer
    /\ \A job \in {"preview", "record", "mark"}, o \in Orders : Job(job, o) \in Writer
<1>1. NoRow \in Row /\ NewRow \in Row /\ NoRow # NewRow
  BY DEF NoRow, NewRow, Row
<1>2. EmptyStore \in Store
  BY <1>1 DEF EmptyStore, Store
<1>3. (CHOOSE o \in Orders : TRUE) \in Orders
  BY TrackerAssumption
<1>4. IdleWriter \in Writer
  BY <1>2, <1>3 DEF IdleWriter, Writer
<1>5. IdleSyncer \in Syncer
  BY <1>1, <1>2 DEF IdleSyncer, Syncer
<1>6. \A job \in {"preview", "record", "mark"}, o \in Orders : Job(job, o) \in Writer
  BY <1>4 DEF Job, Writer
<1> QED
  BY <1>1, <1>2, <1>4, <1>5, <1>6

\* A job leaves a ledger a ledger, touches the fills of none, inserts only orders
\* that are not there and uses up only the preview it marks.
LEMMA ChangedTypes ==
    ASSUME NEW st \in Store, NEW o \in Orders, NEW job \in {"preview", "record", "mark"}
    PROVE  Changed(job, st, o) \in Store
<1>1. CASE job = "preview"
  BY <1>1 DEF Changed, Previewed, Store
<1>2. CASE job = "record"
  BY <1>2, Nulls DEF Changed, Recorded, Store
<1>3. CASE job = "mark"
  BY <1>3 DEF Changed, Marked, Store
<1> QED
  BY <1>1, <1>2, <1>3

LEMMA ChangedRows ==
    ASSUME NEW st \in Store, NEW o \in Orders, NEW job \in {"preview", "record", "mark"},
           NEW q \in Orders
    PROVE  /\ \/ Changed(job, st, o).orders[q] = st.orders[q]
              \/ /\ job = "record" /\ q = o /\ st.orders[q] = NoRow
                 /\ Changed(job, st, o).orders[q] = NewRow
           /\ Changed(job, st, o).fills[q] = st.fills[q]
<1>1. CASE job = "preview"
  BY <1>1 DEF Changed, Previewed, Store
<1>2. CASE job = "record"
  BY <1>2 DEF Changed, Recorded, Store
<1>3. CASE job = "mark"
  BY <1>3 DEF Changed, Marked, Store
<1> QED
  BY <1>1, <1>2, <1>3

LEMMA ChangedUses ==
    ASSUME NEW st \in Store, NEW o \in Orders, NEW job \in {"preview", "record", "mark"},
           NEW q \in Orders
    PROVE  /\ Changed(job, st, o).previews[q] = "used" =>
                 st.previews[q] = "used" \/ (job = "mark" /\ q = o)
           /\ job = "record" => Changed(job, st, o).orders[o] # NoRow
<1>1. CASE job = "preview"
  BY <1>1 DEF Changed, Previewed, Store
<1>2. CASE job = "record"
  BY <1>2, Nulls DEF Changed, Recorded, Store
<1>3. CASE job = "mark"
  BY <1>3 DEF Changed, Marked, Store
<1> QED
  BY <1>1, <1>2, <1>3

LEMMA AfterJobTypes ==
    ASSUME NEW rec \in Writer
    PROVE  /\ AfterJob(rec) \in Writer /\ AfterJob(rec).pc \in {"idle", "read"}
           /\ AfterJob(rec).copy = EmptyStore
           /\ AfterJob(rec).pc = "read" =>
                 AfterJob(rec).job = "mark" /\ rec.job = "record" /\ AfterJob(rec).order = rec.order
BY ZenonT(60), Nulls DEF AfterJob, Job, IdleWriter, Writer

\* What a writer step is: the record it leaves and the ledger it leaves.
WriterMoves(w, rec) ==
    /\ rec \in Writer
    /\ writer' = [writer EXCEPT ![w] = rec]
    /\ UNCHANGED <<backend, syncer>>

LEMMA WriterCases ==
    ASSUME TypeOK, NEW w \in Writers, Writes(w)
    PROVE  \E rec : /\ WriterMoves(w, rec)
                    /\ \/ UNCHANGED <<broker, store, stale>>
                       \/ Send(w) \/ Write(w) \/ WriteRow(w)
<1>1. writer[w] \in Writer
  BY DEF TypeOK
<1>2. store \in Store
  BY DEF TypeOK
<1>3. CASE Preview(w)
  BY <1>3, Nulls, TrackerAssumption DEF Preview, Writing, WriterMoves
<1>4. CASE Send(w)
  BY <1>4, Nulls DEF Send, Writing, WriterMoves
<1>5. CASE Read(w)
  <2>1. AfterJob(writer[w]) \in Writer
    BY <1>1, AfterJobTypes
  <2>2. \A copy \in Readable : [writer[w] EXCEPT !.pc = "write", !.copy = copy] \in Writer
    BY ZenonT(60), <1>1, <1>2, Nulls DEF Readable, Writer
  <2> QED
    BY <1>5, <2>1, <2>2 DEF Read, Writing, WriterMoves
<1>6. CASE Write(w)
  BY <1>1, <1>6, AfterJobTypes DEF Write, Writing, WriterMoves
<1>7. CASE WriteRow(w)
  BY <1>1, <1>7, AfterJobTypes DEF WriteRow, Writing, WriterMoves
<1>8. CASE WriterFails(w)
  BY <1>8, Nulls DEF WriterFails, Writing, WriterMoves
<1> QED
  BY <1>3, <1>4, <1>5, <1>6, <1>7, <1>8 DEF Writes

LEMMA RowsTypes ==
    ASSUME NEW st \in Store, NEW rec \in Syncer, NEW updated \in SUBSET Orders
    PROVE  /\ WithRows(st, rec, updated) \in Store
           /\ WithRows(st, rec, updated).fills = st.fills
           /\ WithRows(st, rec, updated).previews = st.previews
           /\ \A o \in Orders : WithRows(st, rec, updated).orders[o] =
                 IF o \in updated /\ st.orders[o] # NoRow THEN rec.found[o] ELSE st.orders[o]
BY DEF WithRows, Store, Syncer

LEMMA FillTypes ==
    ASSUME NEW st \in Store, NEW rec \in Syncer
    PROVE  /\ WithFills(st, rec) \in Store
           /\ WithFills(st, rec).orders = st.orders
           /\ WithFills(st, rec).previews = st.previews
           /\ \A o \in Orders : /\ WithFills(st, rec).fills[o] = Counted(o, st.fills[o] + Delta(rec, o))
                                /\ Delta(rec, o) \in Nat
<1>1. ASSUME NEW o \in Orders
      PROVE  Delta(rec, o) \in Nat /\ Counted(o, st.fills[o] + Delta(rec, o)) \in Nat
  <2>1. rec.found[o].filled \in Nat /\ rec.seen[o] \in Nat /\ st.fills[o] \in Nat
    BY DEF Syncer, Row, Store
  <2>2. Quantity[o] \in Nat
    BY TrackerAssumption
  <2>3. Delta(rec, o) \in Nat
    BY <2>1 DEF Delta
  <2> QED
    BY <2>1, <2>2, <2>3 DEF Counted
<1> QED
  BY <1>1 DEF WithFills, Store

\* A synchronisation that looks orders up has orders to look up.
LookingUp(rec) == rec.pc \in {"listed", "lookup"} => rec.todo # {}

SyncMoves(s, rec) ==
    /\ rec \in Syncer /\ LookingUp(rec)
    /\ syncer' = [syncer EXCEPT ![s] = rec]
    /\ UNCHANGED <<backend, broker, writer>>

LEMMA AfterLookupsTypes ==
    ASSUME NEW rec \in Syncer, rec.pc = "lookup"
    PROVE  /\ AfterLookups(rec) \in Syncer /\ LookingUp(AfterLookups(rec))
           /\ AfterLookups(rec).found = rec.found /\ AfterLookups(rec).copy = rec.copy
BY DEF AfterLookups, Syncer, LookingUp, Found

LEMMA SyncCases ==
    ASSUME TypeOK, NEW s \in Syncers, Succeeds(s) \/ SyncFails(s)
    PROVE  \E rec : /\ SyncMoves(s, rec)
                    /\ \/ UNCHANGED <<store, stale>>
                       \/ ApplyWrite(s) \/ ApplyRow(s) \/ InsertFills(s)
<1> DEFINE old == syncer[s]
<1>1. old \in Syncer
  BY DEF TypeOK
<1>2. store \in Store /\ broker \in [Orders -> Row]
  BY DEF TypeOK
<1>3. Readable \in SUBSET Store
  BY <1>2, Nulls DEF Readable
<1>4. CASE List(s)
  <2>1. PICK copy \in Readable :
           Syncing(s, [IdleSyncer EXCEPT
               !.pc = IF {o \in Orders : Tracked(copy.orders[o])} = {} THEN "apply" ELSE "listed",
               !.seen = [o \in Orders |-> IF o \in {q \in Orders : Tracked(copy.orders[q])}
                                          THEN copy.orders[o].filled ELSE 0],
               !.todo = {o \in Orders : Tracked(copy.orders[o])}])
    BY <1>4 DEF List
  <2>2. \A o \in Orders : copy.orders[o].filled \in Nat
    BY <1>3 DEF Store, Row
  <2> QED
    BY <1>4, <2>1, <2>2, Nulls DEF List, Syncing, SyncMoves, LookingUp, Syncer
<1>5. CASE OpenOrders(s)
  <2> DEFINE new == [old EXCEPT !.pc = "lookup",
                        !.found = [o \in Orders |->
                            IF o \in old.todo /\ Working(o) THEN broker[o] ELSE NoRow],
                        !.todo = Missing(old.todo)]
  <2>1. new \in Syncer /\ new.pc = "lookup"
    BY <1>1, <1>2, Nulls DEF Syncer, Missing
  <2>2. AfterLookups(new) \in Syncer /\ LookingUp(AfterLookups(new))
    BY <2>1, AfterLookupsTypes
  <2>3. [IdleSyncer EXCEPT !.pc = "apply"] \in Syncer /\ LookingUp([IdleSyncer EXCEPT !.pc = "apply"])
    BY Nulls DEF Syncer, LookingUp
  <2> QED
    BY <1>5, <2>2, <2>3 DEF OpenOrders, Syncing, SyncMoves
<1>6. CASE Lookup(s)
  <2>1. PICK o \in old.todo : \E row \in {broker[o], NoRow} :
           Syncing(s, AfterLookups([old EXCEPT !.found[o] = row, !.todo = @ \ {o}]))
    BY <1>6 DEF Lookup
  <2>2. PICK row \in {broker[o], NoRow} :
           Syncing(s, AfterLookups([old EXCEPT !.found[o] = row, !.todo = @ \ {o}]))
    BY <2>1
  <2>3. o \in Orders /\ row \in Row
    BY <1>1, <1>2, Nulls DEF Syncer
  <2> DEFINE new == [old EXCEPT !.found[o] = row, !.todo = @ \ {o}]
  <2>4. new \in Syncer /\ new.pc = "lookup"
    BY <1>1, <1>6, <2>3 DEF Syncer, Lookup
  <2>5. AfterLookups(new) \in Syncer /\ LookingUp(AfterLookups(new))
    BY <2>4, AfterLookupsTypes
  <2> QED
    BY <1>6, <2>2, <2>5 DEF Lookup, Syncing, SyncMoves
<1>7. CASE ApplyRead(s)
  <2>1. \A copy \in Readable : /\ [old EXCEPT !.pc = "write", !.copy = copy] \in Syncer
                               /\ LookingUp([old EXCEPT !.pc = "write", !.copy = copy])
    BY <1>1, <1>3 DEF Syncer, LookingUp
  <2> QED
    BY <1>7, <2>1 DEF ApplyRead, Syncing, SyncMoves
<1>8. SyncMoves(s, IdleSyncer) <=> Syncing(s, IdleSyncer)
  BY Nulls DEF SyncMoves, Syncing, LookingUp, IdleSyncer
<1>9. CASE ApplyWrite(s)
  BY <1>8, <1>9 DEF ApplyWrite
<1>10. CASE ApplyRow(s)
  <2>1. PICK o \in old.todo : Syncing(s, [old EXCEPT !.todo = @ \ {o}])
    BY <1>10 DEF ApplyRow
  <2>2. [old EXCEPT !.todo = @ \ {o}] \in Syncer /\ LookingUp([old EXCEPT !.todo = @ \ {o}])
    BY <1>1, <1>10 DEF Syncer, LookingUp, ApplyRow
  <2> QED
    BY <1>10, <2>1, <2>2 DEF Syncing, SyncMoves
<1>11. CASE InsertFills(s)
  BY <1>8, <1>11 DEF InsertFills
<1>12. CASE SyncFails(s)
  BY <1>8, <1>12 DEF SyncFails
<1> QED
  BY <1>4, <1>5, <1>6, <1>7, <1>9, <1>10, <1>11, <1>12 DEF Succeeds

-----------------------------------------------------------------------------
(* The broker. *)

\* An order appears new, and from then on only a working one changes, filling up
\* to its quantity.
LEMMA BrokerCases ==
    ASSUME TypeOK, [Next]_vars
    PROVE  /\ broker' \in [Orders -> Row]
           /\ \A o \in Orders :
                 \/ broker'[o] = broker[o]
                 \/ broker[o] = NoRow /\ broker'[o] = NewRow
                 \/ /\ Working(o) /\ broker'[o] # NoRow
                    /\ broker[o].filled <= broker'[o].filled
                    /\ broker'[o].filled <= broker[o].filled \/ broker'[o].filled <= Quantity[o]
<1>1. broker \in [Orders -> Row]
  BY DEF TypeOK
<1>2. ASSUME NEW w \in Writers, Writes(w), broker' # broker
      PROVE  \E o \in Orders : broker' = [broker EXCEPT ![o] = IF @ = NoRow THEN NewRow ELSE @]
  <2>1. Send(w)
    BY <1>2 DEF Writes, Preview, Read, Write, WriteRow, WriterFails
  <2> QED
    BY <2>1 DEF Send
<1>3. ASSUME NEW s \in Syncers, Succeeds(s) \/ SyncFails(s) PROVE broker' = broker
  BY <1>3, SyncCases DEF SyncMoves
<1>4. ASSUME NEW o \in Orders, Trading(o)
      PROVE  /\ broker' \in [Orders -> Row]
             /\ \A q \in Orders :
                   \/ broker'[q] = broker[q]
                   \/ /\ Working(q) /\ broker'[q] # NoRow
                      /\ broker[q].filled <= broker'[q].filled
                      /\ broker'[q].filled <= broker[q].filled \/ broker'[q].filled <= Quantity[q]
  <2>1. broker[o] \in Row /\ Quantity[o] \in Nat
    BY <1>1, TrackerAssumption
  <2>2. CASE Fill(o)
    <3>1. PICK n \in broker[o].filled + 1..Quantity[o] :
             Trades(o, [status |-> IF n = Quantity[o] THEN "FILLED" ELSE "PARTIAL_FILLED",
                        filled |-> n])
      BY <2>2 DEF Fill
    <3>2. n \in Nat /\ n <= Quantity[o] /\ broker[o].filled <= n
      BY <2>1 DEF Row
    <3> QED
      BY <1>1, <2>2, <3>1, <3>2 DEF Fill, Trades, Row, NoRow
  <2>3. CASE Cancel(o)
    BY <1>1, <2>1, <2>3 DEF Cancel, Trades, Row, NoRow
  <2>4. CASE Reject(o)
    BY <1>1, <2>1, <2>4 DEF Reject, Trades, Row, NoRow, NewRow, Working
  <2> QED
    BY <1>4, <2>2, <2>3, <2>4 DEF Trading
<1>5. CASE broker' = broker
  BY <1>1, <1>5
<1> QED
  BY <1>1, <1>2, <1>3, <1>4, <1>5, Nulls DEF Next, vars

THEOREM TypesHold == Spec => []TypeOK
<1>1. Init => TypeOK
  <2> SUFFICES ASSUME Init PROVE TypeOK
    OBVIOUS
  <2>1. broker \in [Orders -> Row] /\ store \in Store
    BY Nulls DEF Init
  <2>2. writer \in [Writers -> Writer] /\ syncer \in [Syncers -> Syncer]
    BY Nulls DEF Init
  <2>3. \A s \in Syncers : syncer[s].pc = "idle"
    BY DEF Init, IdleSyncer
  <2> QED
    BY <2>1, <2>2, <2>3 DEF Init, TypeOK
<1>2. TypeOK /\ [Next]_vars => TypeOK'
  <2> SUFFICES ASSUME TypeOK, [Next]_vars PROVE TypeOK'
    OBVIOUS
  <2> DEFINE Procs == /\ writer' \in [Writers -> Writer] /\ syncer' \in [Syncers -> Syncer]
                      /\ \A s \in Syncers : LookingUp(syncer'[s])
  <2>1. broker' \in [Orders -> Row]
    BY BrokerCases
  <2>2. ASSUME NEW w \in Writers, Writes(w) PROVE TypeOK'
    <3>1. PICK rec : /\ WriterMoves(w, rec)
                     /\ \/ UNCHANGED <<broker, store, stale>>
                        \/ Send(w) \/ Write(w) \/ WriteRow(w)
      BY <2>2, WriterCases
    <3>2. Procs /\ backend' = backend
      BY <3>1 DEF WriterMoves, TypeOK, LookingUp
    <3>3. \A st \in {store, writer[w].copy} : Changed(writer[w].job, st, writer[w].order) \in Store
      <4>1. writer[w] \in Writer /\ store \in Store
        BY DEF TypeOK
      <4>2. writer[w].copy \in Store /\ writer[w].order \in Orders
            /\ writer[w].job \in {"preview", "record", "mark"}
        BY <4>1 DEF Writer
      <4>3. ASSUME NEW st \in Store PROVE Changed(writer[w].job, st, writer[w].order) \in Store
        BY <4>2, ChangedTypes
      <4> QED
        BY <4>1, <4>2, <4>3
    <3>4. store' \in Store /\ stale' \in BOOLEAN
      <4>1. CASE Send(w)
        BY <4>1 DEF Send, TypeOK
      <4>2. CASE Write(w)
        BY <4>2, <3>3 DEF Write, Overwrite, TypeOK
      <4>3. CASE WriteRow(w)
        BY <4>3, <3>3 DEF WriteRow, TypeOK
      <4> QED
        BY <3>1, <4>1, <4>2, <4>3 DEF TypeOK
    <3> QED
      BY <2>1, <3>2, <3>4 DEF TypeOK, LookingUp
  <2>3. ASSUME NEW s \in Syncers, Succeeds(s) \/ SyncFails(s) PROVE TypeOK'
    <3>1. PICK rec : /\ SyncMoves(s, rec)
                     /\ \/ UNCHANGED <<store, stale>>
                        \/ ApplyWrite(s) \/ ApplyRow(s) \/ InsertFills(s)
      BY <2>3, SyncCases
    <3>2. Procs /\ backend' = backend
      BY <3>1 DEF SyncMoves, TypeOK, LookingUp
    <3>3. store' \in Store /\ stale' \in BOOLEAN
      <4>1. CASE ApplyWrite(s)
        <5>1. syncer[s] \in Syncer /\ syncer[s].copy \in Store /\ Found(syncer[s]) \in SUBSET Orders
          BY DEF TypeOK, Syncer, Found
        <5>2. WithFills(WithRows(syncer[s].copy, syncer[s], Found(syncer[s])), syncer[s]) \in Store
          BY <5>1, RowsTypes, FillTypes
        <5> QED
          BY <4>1, <5>2 DEF ApplyWrite, Overwrite, TypeOK
      <4>2. CASE ApplyRow(s)
        <5>1. PICK o \in syncer[s].todo : store' = WithRows(store, syncer[s], {o})
          BY <4>2 DEF ApplyRow
        <5>2. {o} \in SUBSET Orders
          BY DEF TypeOK, Syncer
        <5> QED
          BY <4>2, <5>1, <5>2, RowsTypes DEF ApplyRow, TypeOK
      <4>3. CASE InsertFills(s)
        BY <4>3, FillTypes DEF InsertFills, TypeOK
      <4> QED
        BY <3>1, <4>1, <4>2, <4>3 DEF TypeOK
    <3> QED
      BY <2>1, <3>2, <3>3 DEF TypeOK, LookingUp
  <2>4. ASSUME NEW o \in Orders, Trading(o) PROVE TypeOK'
    <3>1. UNCHANGED <<backend, store, writer, syncer, stale>>
      BY <2>4 DEF Trading, Fill, Cancel, Reject, Trades
    <3> QED
      BY <2>1, <3>1 DEF TypeOK
  <2>5. CASE UNCHANGED vars
    BY <2>5 DEF vars, TypeOK
  <2> QED
    BY <2>2, <2>3, <2>4, <2>5 DEF Next
<1> QED
  BY <1>1, <1>2, PTL DEF Spec

-----------------------------------------------------------------------------
(* The ledger follows the broker. *)

FollowInv ==
    /\ \A o \in Orders : /\ Behind(store.orders[o], broker[o])
                         /\ broker[o].filled <= Quantity[o]
    /\ \A w \in Writers, o \in Orders : Behind(writer[w].copy.orders[o], broker[o])
    /\ \A w \in Writers : writer[w].pc # "idle" /\ writer[w].job = "record" =>
                             broker[writer[w].order] # NoRow
    /\ \A s \in Syncers, o \in Orders : /\ Behind(syncer[s].copy.orders[o], broker[o])
                                        /\ Behind(syncer[s].found[o], broker[o])

\* What a writer holds after a step, and for what.
LEMMA WriterCopies ==
    ASSUME TypeOK, NEW w \in Writers, Writes(w)
    PROVE  /\ writer'[w].copy \in {writer[w].copy, EmptyStore, store}
           /\ writer'[w].pc # "idle" /\ writer'[w].job = "record" =>
                 \/ broker'[writer'[w].order] # NoRow
                 \/ /\ writer[w].pc # "idle" /\ writer[w].job = "record"
                    /\ writer'[w].order = writer[w].order
<1> DEFINE old == writer[w]
<1>1. old \in Writer /\ writer \in [Writers -> Writer] /\ AfterJob(old) \in Writer
  BY AfterJobTypes DEF TypeOK
<1>2. \A rec : Writing(w, rec) => writer'[w] = rec
  BY <1>1 DEF Writing
<1>3. /\ AfterJob(old).copy = EmptyStore
      /\ AfterJob(old).pc # "idle" => AfterJob(old).job = "mark"
  BY <1>1, AfterJobTypes
<1>4. CASE Preview(w)
  BY <1>2, <1>4 DEF Preview, Job, IdleWriter
<1>5. CASE Send(w)
  <2>1. PICK o \in Orders : /\ broker' = [broker EXCEPT ![o] = IF @ = NoRow THEN NewRow ELSE @]
                            /\ Writing(w, Job("record", o))
    BY <1>5 DEF Send
  <2>2. writer'[w].order = o /\ writer'[w].copy = EmptyStore
    BY <1>2, <2>1 DEF Job, IdleWriter
  <2>3. broker'[o] # NoRow
    BY <2>1, Nulls DEF TypeOK
  <2> QED
    BY <2>2, <2>3
<1>6. CASE Read(w)
  <2>1. \/ writer'[w] = AfterJob(old)
        \/ /\ \E copy \in Readable : writer'[w] = [old EXCEPT !.pc = "write", !.copy = copy]
           /\ old.pc = "read"
    BY <1>2, <1>6 DEF Read
  <2>2. \A copy \in Readable : copy \in {EmptyStore, store}
    BY DEF Readable
  <2>3. \A copy : LET new == [old EXCEPT !.pc = "write", !.copy = copy]
                  IN  new.copy = copy /\ new.job = old.job /\ new.order = old.order
    BY <1>1 DEF Writer
  <2> QED
    BY ZenonT(60), <1>3, <2>1, <2>2, <2>3
<1>7. CASE Write(w) \/ WriteRow(w)
  BY <1>2, <1>3, <1>7 DEF Write, WriteRow
<1>8. CASE WriterFails(w)
  BY <1>2, <1>8 DEF WriterFails, IdleWriter
<1> QED
  BY <1>4, <1>5, <1>6, <1>7, <1>8 DEF Writes

\* What a synchroniser holds after a step.
LEMMA SyncerCopies ==
    ASSUME TypeOK, NEW s \in Syncers, Succeeds(s) \/ SyncFails(s)
    PROVE  /\ syncer'[s].copy \in {syncer[s].copy, EmptyStore, store}
           /\ \A o \in Orders : syncer'[s].found[o] \in {syncer[s].found[o], broker[o], NoRow}
<1> DEFINE old == syncer[s]
<1>1. old \in Syncer /\ syncer \in [Syncers -> Syncer]
  BY DEF TypeOK
<1>2. \A rec : Syncing(s, rec) => syncer'[s] = rec
  BY <1>1 DEF Syncing
<1>3. \A rec \in {IdleSyncer, [IdleSyncer EXCEPT !.pc = "apply"]} :
         rec.copy = EmptyStore /\ \A o \in Orders : rec.found[o] = NoRow
  BY DEF IdleSyncer
<1>4. CASE List(s)
  <2>1. syncer'[s].copy = IdleSyncer.copy /\ syncer'[s].found = IdleSyncer.found
    BY <1>2, <1>4 DEF List, IdleSyncer
  <2> QED
    BY <2>1, <1>3
<1>5. CASE OpenOrders(s)
  <2> DEFINE new == [old EXCEPT !.pc = "lookup",
                        !.found = [o \in Orders |->
                            IF o \in old.todo /\ Working(o) THEN broker[o] ELSE NoRow],
                        !.todo = Missing(old.todo)]
  <2>1. /\ AfterLookups(new).copy = old.copy
        /\ \A o \in Orders : AfterLookups(new).found[o] \in {broker[o], NoRow}
    BY <1>1 DEF AfterLookups, Syncer
  <2>2. \/ syncer'[s] = AfterLookups(new)
        \/ syncer'[s] = [IdleSyncer EXCEPT !.pc = "apply"]
    BY <1>2, <1>5 DEF OpenOrders
  <2> QED
    BY <1>3, <2>1, <2>2
<1>6. CASE Lookup(s)
  <2>1. PICK o \in old.todo : \E row \in {broker[o], NoRow} :
           Syncing(s, AfterLookups([old EXCEPT !.found[o] = row, !.todo = @ \ {o}]))
    BY <1>6 DEF Lookup
  <2>2. PICK row \in {broker[o], NoRow} :
           Syncing(s, AfterLookups([old EXCEPT !.found[o] = row, !.todo = @ \ {o}]))
    BY <2>1
  <2> DEFINE new == [old EXCEPT !.found[o] = row, !.todo = @ \ {o}]
  <2>3. /\ AfterLookups(new).copy = old.copy
        /\ \A q \in Orders : AfterLookups(new).found[q] = IF q = o THEN row ELSE old.found[q]
    BY <1>1 DEF AfterLookups, Syncer
  <2>4. syncer'[s] = AfterLookups(new)
    BY <1>2, <2>2
  <2> QED
    BY <2>3, <2>4
<1>7. CASE ApplyRead(s)
  <2>1. PICK copy \in Readable : syncer'[s] = [old EXCEPT !.pc = "write", !.copy = copy]
    BY <1>2, <1>7 DEF ApplyRead
  <2>2. copy \in {EmptyStore, store}
    BY DEF Readable
  <2> QED
    BY <1>1, <2>1, <2>2 DEF Syncer
<1>8. CASE ApplyRow(s)
  <2>1. PICK o \in old.todo : syncer'[s] = [old EXCEPT !.todo = @ \ {o}]
    BY <1>2, <1>8 DEF ApplyRow
  <2> QED
    BY <1>1, <2>1 DEF Syncer
<1>9. CASE ApplyWrite(s) \/ InsertFills(s) \/ SyncFails(s)
  <2>1. syncer'[s] = IdleSyncer
    BY <1>2, <1>9 DEF ApplyWrite, InsertFills, SyncFails
  <2> QED
    BY <1>3, <2>1
<1> QED
  BY <1>4, <1>5, <1>6, <1>7, <1>8, <1>9 DEF Succeeds

\* What was true of an order at the broker stays behind what is.
LEMMA BehindStays ==
    ASSUME TypeOK, [Next]_vars, NEW o \in Orders, NEW row \in Row, Behind(row, broker[o])
    PROVE  Behind(row, broker'[o])
<1>1. broker[o] \in Row /\ broker'[o] \in Row
  BY BrokerCases DEF TypeOK
<1>2. CASE broker[o] = NoRow /\ broker'[o] = NewRow
  <2>1. row = NoRow
    BY <1>2 DEF Behind
  <2> QED
    BY <1>2, <2>1 DEF Behind, NoRow, NewRow, Terminal, TerminalStatuses
<1>3. CASE Working(o) /\ broker'[o] # NoRow /\ broker[o].filled <= broker'[o].filled
  <2>1. ~Terminal(row)
    BY <1>3 DEF Behind, Working, Terminal, TerminalStatuses
  <2>2. row.filled <= broker'[o].filled
    BY <1>1, <1>3 DEF Behind, Row
  <2> QED
    BY <1>3, <2>1, <2>2 DEF Behind
<1> QED
  BY <1>2, <1>3, BrokerCases

LEMMA EmptyBehind ==
    ASSUME TypeOK, NEW o \in Orders
    PROVE  /\ Behind(NoRow, broker[o]) /\ Behind(EmptyStore.orders[o], broker[o])
           /\ Behind(broker[o], broker[o])
<1>1. broker[o] \in Row
  BY SMTT(60) DEF TypeOK
<1> QED
  BY <1>1 DEF Behind, NoRow, EmptyStore, Row, Terminal, TerminalStatuses

LEMMA WritersApart ==
    ASSUME [Next]_vars
    PROVE  writer' = writer \/ \E w \in Writers : Writes(w)
BY ZenonT(60) DEF Next, vars, Succeeds, List, OpenOrders, Lookup, ApplyRead, ApplyWrite, ApplyRow,
       InsertFills, SyncFails, Syncing, Trading, Fill, Cancel, Reject, Trades

LEMMA SyncersApart ==
    ASSUME [Next]_vars
    PROVE  syncer' = syncer \/ \E s \in Syncers : Succeeds(s) \/ SyncFails(s)
BY DEF Next, vars, Writes, Preview, Send, Read, Write, WriteRow, WriterFails, Writing,
       Trading, Fill, Cancel, Reject, Trades

\* Where the rows of the ledger after a step come from.
LEMMA RowSources ==
    ASSUME TypeOK, FollowInv, [Next]_vars, NEW o \in Orders
    PROVE  Behind(store'.orders[o], broker'[o])
<1>1. /\ store.orders[o] \in Row /\ Behind(store.orders[o], broker[o])
      /\ broker[o] \in Row
  BY DEF TypeOK, Store, FollowInv
<1>2. ASSUME NEW row \in Row, Behind(row, broker[o]) PROVE Behind(row, broker'[o])
  BY <1>2, BehindStays
<1>3. CASE store'.orders[o] = store.orders[o]
  BY <1>1, <1>2, <1>3
<1>4. ASSUME NEW w \in Writers, Write(w) \/ WriteRow(w)
      PROVE  Behind(store'.orders[o], broker'[o])
  <2> DEFINE rec == writer[w]
  <2>1. /\ rec \in Writer /\ rec.pc # "idle" /\ rec.copy \in Store /\ store \in Store
        /\ rec.order \in Orders /\ rec.job \in {"preview", "record", "mark"}
    BY <1>4 DEF TypeOK, Writer, Write, WriteRow
  <2>2. PICK st \in {rec.copy, store} : store' = Changed(rec.job, st, rec.order)
    BY <1>4 DEF Write, WriteRow, Overwrite
  <2>3. st \in Store /\ Behind(st.orders[o], broker[o]) /\ st.orders[o] \in Row
    BY <1>1, <2>1, <2>2 DEF FollowInv, Store
  <2>4. \/ store'.orders[o] = st.orders[o]
        \/ rec.job = "record" /\ rec.order = o /\ store'.orders[o] = NewRow
    <3> HIDE DEF rec
    <3>1. PICK job \in {"preview", "record", "mark"}, q \in Orders : job = rec.job /\ q = rec.order
      BY <2>1
    <3>2. \/ Changed(job, st, q).orders[o] = st.orders[o]
          \/ job = "record" /\ o = q /\ Changed(job, st, q).orders[o] = NewRow
      BY <2>3, ChangedRows
    <3> QED
      BY <2>2, <3>1, <3>2
  <2>5. CASE store'.orders[o] = st.orders[o]
    BY <1>2, <2>3, <2>5
  <2>6. CASE rec.job = "record" /\ rec.order = o /\ store'.orders[o] = NewRow
    <3>1. broker[o] # NoRow
      BY <2>1, <2>6 DEF FollowInv
    <3>2. Behind(NewRow, broker[o])
      BY <1>1, <3>1 DEF Behind, NewRow, Terminal, TerminalStatuses, Row
    <3> QED
      BY <1>2, <2>6, <3>2, Nulls
  <2> QED
    BY <2>4, <2>5, <2>6
<1>5. ASSUME NEW s \in Syncers, ApplyWrite(s) \/ ApplyRow(s) \/ InsertFills(s)
      PROVE  Behind(store'.orders[o], broker'[o])
  <2> DEFINE rec == syncer[s]
  <2>1. /\ rec \in Syncer /\ rec.copy \in Store /\ store \in Store
        /\ rec.found[o] \in Row /\ Found(rec) \in SUBSET Orders
    BY DEF TypeOK, Syncer, Found
  <2>2. PICK st \in {rec.copy, store} : store'.orders[o] \in {st.orders[o], rec.found[o]}
    <3>1. CASE ApplyWrite(s)
      <4>1. WithRows(rec.copy, rec, Found(rec)) \in Store
        BY <2>1, RowsTypes
      <4>2. store'.orders = WithRows(rec.copy, rec, Found(rec)).orders
        BY <2>1, <3>1, <4>1, FillTypes DEF ApplyWrite, Overwrite
      <4>3. store'.orders[o] \in {rec.copy.orders[o], rec.found[o]}
        BY <2>1, <4>2, RowsTypes
      <4> QED
        BY <4>3
    <3>2. CASE ApplyRow(s)
      <4>1. PICK q \in rec.todo : store' = WithRows(store, rec, {q})
        BY <3>2 DEF ApplyRow
      <4>2. {q} \in SUBSET Orders
        BY <2>1 DEF Syncer
      <4> QED
        BY <2>1, <4>1, <4>2, RowsTypes
    <3>3. CASE InsertFills(s)
      BY <2>1, <3>3, FillTypes DEF InsertFills
    <3> QED
      BY <1>5, <3>1, <3>2, <3>3
  <2>3. st.orders[o] \in Row /\ Behind(st.orders[o], broker[o]) /\ Behind(rec.found[o], broker[o])
    BY SMTT(60), <1>1, <2>1, <2>2 DEF FollowInv, Store
  <2> QED
    BY <1>2, <2>1, <2>2, <2>3
<1>6. ASSUME NEW w \in Writers, Writes(w) PROVE store' = store \/ Write(w) \/ WriteRow(w)
  BY ZenonT(60), <1>6 DEF Writes, Preview, Send, Read, WriterFails
<1>7. ASSUME NEW s \in Syncers, Succeeds(s) \/ SyncFails(s)
      PROVE  store' = store \/ ApplyWrite(s) \/ ApplyRow(s) \/ InsertFills(s)
  BY <1>7 DEF Succeeds, List, OpenOrders, Lookup, ApplyRead, SyncFails
<1>8. ASSUME NEW q \in Orders, Trading(q) PROVE store' = store
  BY <1>8 DEF Trading, Fill, Cancel, Reject, Trades
<1> QED
  BY <1>3, <1>4, <1>5, <1>6, <1>7, <1>8 DEF Next, vars

LEMMA FollowInductive == TypeOK /\ FollowInv /\ [Next]_vars => FollowInv'
<1> SUFFICES ASSUME TypeOK, FollowInv, [Next]_vars PROVE FollowInv'
  OBVIOUS
<1>1. ASSUME NEW o \in Orders PROVE broker'[o].filled <= Quantity[o]
  <2>1. broker[o] \in Row /\ broker'[o] \in Row /\ Quantity[o] \in Nat \ {0}
    BY BrokerCases, TrackerAssumption DEF TypeOK
  <2>2. broker[o].filled <= Quantity[o]
    BY DEF FollowInv
  <2>3. \/ broker'[o] = broker[o] \/ broker'[o].filled = 0
        \/ broker'[o].filled <= broker[o].filled \/ broker'[o].filled <= Quantity[o]
    BY BrokerCases DEF NewRow
  <2> QED
    BY <2>1, <2>2, <2>3 DEF Row
<1>2. ASSUME NEW o \in Orders, NEW st \in Store, Behind(st.orders[o], broker[o])
      PROVE  Behind(st.orders[o], broker'[o])
  <2>1. st.orders[o] \in Row
    BY DEF Store
  <2> QED
    BY <1>2, <2>1, BehindStays
<1>3. ASSUME NEW w \in Writers, NEW o \in Orders PROVE Behind(writer'[w].copy.orders[o], broker'[o])
  <2>1. writer'[w].copy \in {writer[w].copy, EmptyStore, store}
    <3>1. ASSUME NEW v \in Writers, Writes(v) PROVE writer'[w].copy \in {writer[w].copy, EmptyStore, store}
      BY <3>1, WriterCases, WriterCopies DEF WriterMoves, TypeOK
    <3>2. ASSUME writer' = writer PROVE writer'[w].copy \in {writer[w].copy, EmptyStore, store}
      BY <3>2
    <3> QED
      BY <3>1, <3>2, WritersApart
  <2>2. /\ writer[w].copy \in Store /\ store \in Store /\ EmptyStore \in Store
        /\ Behind(writer[w].copy.orders[o], broker[o]) /\ Behind(store.orders[o], broker[o])
        /\ Behind(EmptyStore.orders[o], broker[o])
    BY Nulls, EmptyBehind DEF TypeOK, Writer, FollowInv
  <2> QED
    BY <1>2, <2>1, <2>2
<1>4. ASSUME NEW w \in Writers, writer'[w].pc # "idle", writer'[w].job = "record"
      PROVE  broker'[writer'[w].order] # NoRow
  <2>1. \/ broker'[writer'[w].order] # NoRow
        \/ writer[w].pc # "idle" /\ writer[w].job = "record" /\ writer'[w].order = writer[w].order
    <3>1. ASSUME NEW v \in Writers, Writes(v), v # w PROVE writer'[w] = writer[w]
      BY <3>1, WriterCases DEF WriterMoves, TypeOK
    <3>2. CASE Writes(w)
      BY <1>4, <3>2, WriterCopies
    <3> QED
      BY <1>4, <3>1, <3>2, WritersApart
  <2>2. writer[w].order \in Orders
    BY DEF TypeOK, Writer
  <2>3. \A o \in Orders : broker[o] # NoRow => broker'[o] # NoRow
    BY BrokerCases
  <2> QED
    BY <2>1, <2>2, <2>3 DEF FollowInv
<1>5. ASSUME NEW s \in Syncers, NEW o \in Orders
      PROVE  /\ Behind(syncer'[s].copy.orders[o], broker'[o])
             /\ Behind(syncer'[s].found[o], broker'[o])
  <2>1. /\ syncer'[s].copy \in {syncer[s].copy, EmptyStore, store}
        /\ syncer'[s].found[o] \in {syncer[s].found[o], broker[o], NoRow}
    <3>1. ASSUME NEW r \in Syncers, Succeeds(r) \/ SyncFails(r), r # s PROVE syncer'[s] = syncer[s]
      BY <3>1, SyncCases DEF SyncMoves, TypeOK
    <3>2. CASE Succeeds(s) \/ SyncFails(s)
      BY <3>2, SyncerCopies
    <3> QED
      BY <3>1, <3>2, SyncersApart
  <2>2. /\ syncer[s].copy \in Store /\ store \in Store /\ EmptyStore \in Store
        /\ Behind(syncer[s].copy.orders[o], broker[o]) /\ Behind(store.orders[o], broker[o])
        /\ Behind(EmptyStore.orders[o], broker[o])
    BY Nulls, EmptyBehind DEF TypeOK, Syncer, FollowInv
  <2>3. /\ syncer[s].found[o] \in Row /\ broker[o] \in Row /\ NoRow \in Row
        /\ Behind(syncer[s].found[o], broker[o]) /\ Behind(broker[o], broker[o])
        /\ Behind(NoRow, broker[o])
    BY Nulls, EmptyBehind DEF TypeOK, Syncer, FollowInv
  <2>4. \A row \in Row : Behind(row, broker[o]) => Behind(row, broker'[o])
    BY BehindStays
  <2> QED
    BY <1>2, <2>1, <2>2, <2>3, <2>4
<1> QED
  BY <1>1, <1>3, <1>4, <1>5, RowSources DEF FollowInv

LEMMA FollowStays == Spec => []FollowInv
<1>1. Init => FollowInv
  <2> SUFFICES ASSUME Init PROVE FollowInv
    OBVIOUS
  <2>1. \A o \in Orders : Behind(NoRow, NoRow) /\ NoRow.filled <= Quantity[o]
    BY TrackerAssumption DEF Behind, NoRow, Terminal, TerminalStatuses
  <2> QED
    BY <2>1 DEF Init, FollowInv, EmptyStore, IdleWriter, IdleSyncer
<1> QED
  BY <1>1, FollowInductive, TypesHold, PTL DEF Spec

THEOREM RowsFollow == Spec => []RowsFollowBroker
<1>1. FollowInv => RowsFollowBroker
  BY DEF FollowInv, RowsFollowBroker
<1> QED
  BY <1>1, FollowStays, PTL

-----------------------------------------------------------------------------
(* The fills add up. *)

\* As long as no file was written over changes, a job and a synchronisation
\* change the ledger there is.
LEMMA CleanStores ==
    ASSUME TypeOK, [Next]_vars, ~stale'
    PROVE  /\ ~stale /\ backend' = backend
           /\ \/ store' = store
              \/ \E w \in Writers : /\ writer[w].pc # "idle" /\ Writes(w)
                                    /\ store' = Changed(writer[w].job, store, writer[w].order)
              \/ \E s \in Syncers : ApplyWrite(s) \/ ApplyRow(s) \/ InsertFills(s)
<1>1. ASSUME NEW w \in Writers, Writes(w)
      PROVE  /\ ~stale /\ backend' = backend
             /\ \/ store' = store
                \/ /\ writer[w].pc # "idle"
                   /\ store' = Changed(writer[w].job, store, writer[w].order)
  <2>1. CASE Write(w)
    BY <2>1 DEF Write, Overwrite, Writing, TypeOK
  <2>2. CASE WriteRow(w)
    BY <2>2 DEF WriteRow, Writing
  <2>3. CASE Preview(w) \/ Send(w) \/ Read(w) \/ WriterFails(w)
    <3>1. stale' = stale /\ store' = store
      BY <2>3 DEF Preview, Send, Read, WriterFails
    <3>2. backend' = backend
      BY <1>1, WriterCases DEF WriterMoves
    <3> QED
      BY <3>1, <3>2
  <2> QED
    BY <1>1, <2>1, <2>2, <2>3 DEF Writes
<1>2. ASSUME NEW s \in Syncers, Succeeds(s) \/ SyncFails(s)
      PROVE  /\ ~stale /\ backend' = backend
             /\ store' = store \/ ApplyWrite(s) \/ ApplyRow(s) \/ InsertFills(s)
  <2>1. CASE ApplyWrite(s)
    <3>1. ~stale /\ backend' = backend
      <4>1. stale' = (stale \/ syncer[s].copy # store)
        BY <2>1 DEF ApplyWrite, Overwrite
      <4>2. backend' = backend
        BY <2>1 DEF ApplyWrite, Syncing
      <4> QED
        BY <4>1, <4>2
    <3> QED
      BY <2>1, <3>1
  <2>2. CASE ApplyRow(s) \/ InsertFills(s)
    <3>1. ~stale /\ backend' = backend
      <4>1. stale' = stale /\ backend' = backend
        BY <2>2 DEF ApplyRow, InsertFills, Syncing
      <4> QED
        BY <4>1
    <3> QED
      BY <2>2, <3>1
  <2>3. CASE List(s) \/ OpenOrders(s) \/ Lookup(s) \/ ApplyRead(s) \/ SyncFails(s)
    <3>1. stale' = stale /\ store' = store
      BY <2>3 DEF List, OpenOrders, Lookup, ApplyRead, SyncFails
    <3>2. backend' = backend
      BY <1>2, SyncCases DEF SyncMoves
    <3> QED
      BY <3>1, <3>2
  <2> QED
    BY <1>2, <2>1, <2>2, <2>3 DEF Succeeds
<1>3. ASSUME NEW o \in Orders, Trading(o) PROVE ~stale /\ backend' = backend /\ store' = store
  BY <1>3 DEF Trading, Fill, Cancel, Reject, Trades
<1> QED
  BY <1>1, <1>2, <1>3 DEF Next, vars

\* What a synchronisation knows of an order: what was listed is still so until
\* it is applied, and only to be raised.
Knows(rec, st, o) ==
    /\ rec.pc \in {"listed", "lookup"} /\ o \in rec.todo =>
          /\ st.orders[o] # NoRow
          /\ st.orders[o].filled = rec.seen[o] /\ st.fills[o] <= rec.seen[o]
    /\ rec.pc \in {"lookup", "apply", "write"} /\ rec.found[o] # NoRow =>
          /\ st.orders[o] # NoRow /\ st.fills[o] <= rec.seen[o]
          /\ rec.seen[o] <= rec.found[o].filled
          /\ st.orders[o].filled =
                IF backend = "rows" /\ rec.pc = "apply" /\ o \notin rec.todo
                THEN rec.found[o].filled ELSE rec.seen[o]
    /\ rec.pc = "apply" /\ o \in rec.todo => rec.found[o] # NoRow

Matches(st, o) ==
    /\ st.fills[o] <= st.orders[o].filled
    /\ backend = "file" => st.fills[o] = st.orders[o].filled

MatchInv ==
    ~stale => \A o \in Orders :
        /\ Matches(store, o)
        /\ \A s \in Syncers : Knows(syncer[s], store, o)

LEMMA IdleKnows ==
    \A st, o : o \in Orders =>
        /\ Knows(IdleSyncer, st, o)
        /\ Knows([IdleSyncer EXCEPT !.pc = "apply"], st, o)
BY DEF Knows, IdleSyncer

\* A job changes nothing a synchronisation relies on.
LEMMA JobMatches ==
    ASSUME NEW st \in Store, NEW o \in Orders, NEW job \in {"preview", "record", "mark"},
           NEW q \in Orders, Matches(st, q)
    PROVE  Matches(Changed(job, st, o), q)
BY ChangedRows DEF Matches, NoRow, NewRow

LEMMA JobKeeps ==
    ASSUME NEW st \in Store, NEW o \in Orders, NEW job \in {"preview", "record", "mark"},
           NEW q \in Orders, NEW rec \in Syncer, Knows(rec, st, q)
    PROVE  Knows(rec, Changed(job, st, o), q)
<1>1. Changed(job, st, o).fills[q] = st.fills[q]
  BY ChangedRows
<1>2. /\ Changed(job, st, o).orders[q].filled = st.orders[q].filled
      /\ st.orders[q] # NoRow => Changed(job, st, o).orders[q] # NoRow
  <2>1. \/ Changed(job, st, o).orders[q] = st.orders[q]
        \/ st.orders[q] = NoRow /\ Changed(job, st, o).orders[q] = NewRow
    BY ChangedRows
  <2> QED
    BY <2>1 DEF NoRow, NewRow
<1> QED
  BY <1>1, <1>2 DEF Knows

\* The last lookup turns to what was found.
LEMMA AfterKnows ==
    ASSUME NEW rec \in Syncer, rec.pc = "lookup", NEW st \in Store, NEW o \in Orders,
           Knows(rec, st, o)
    PROVE  Knows(AfterLookups(rec), st, o)
<1>1. CASE rec.todo # {}
  BY <1>1 DEF AfterLookups
<1>2. CASE rec.todo = {}
  <2>1. /\ AfterLookups(rec).pc = "apply" /\ AfterLookups(rec).todo = Found(rec)
        /\ AfterLookups(rec).found = rec.found /\ AfterLookups(rec).seen = rec.seen
    BY <1>2 DEF AfterLookups, Syncer
  <2> QED
    BY <2>1 DEF Knows, Found
<1> QED
  BY <1>1, <1>2

\* Reading changes nothing, and finds what was listed or more.
LEMMA ReadingKnows ==
    ASSUME TypeOK, FollowInv, MatchInv, ~stale, NEW s \in Syncers, NEW o \in Orders,
           List(s) \/ OpenOrders(s) \/ Lookup(s) \/ ApplyRead(s) \/ SyncFails(s)
    PROVE  Knows(syncer'[s], store, o)
<1> DEFINE old == syncer[s]
<1>1. old \in Syncer /\ syncer \in [Syncers -> Syncer] /\ store \in Store
      /\ broker \in [Orders -> Row]
  BY DEF TypeOK
<1>2. Knows(old, store, o) /\ Matches(store, o)
  BY DEF MatchInv
<1>3. \A rec : Syncing(s, rec) => syncer'[s] = rec
  BY <1>1 DEF Syncing
<1>4. /\ store.orders[o] \in Row /\ old.found[o] \in Row /\ old.seen[o] \in Nat
      /\ broker[o] \in Row /\ store.orders[o].filled <= broker[o].filled
  BY <1>1 DEF Store, Syncer, FollowInv, Behind
<1>5. CASE List(s)
  <2>1. PICK copy \in Readable :
           syncer'[s] = [IdleSyncer EXCEPT
               !.pc = IF {q \in Orders : Tracked(copy.orders[q])} = {} THEN "apply" ELSE "listed",
               !.seen = [q \in Orders |-> IF q \in {p \in Orders : Tracked(copy.orders[p])}
                                          THEN copy.orders[q].filled ELSE 0],
               !.todo = {q \in Orders : Tracked(copy.orders[q])}]
    BY <1>3, <1>5 DEF List
  <2>2. syncer'[s].found[o] = NoRow /\ syncer'[s].pc \in {"apply", "listed"}
    BY <2>1 DEF IdleSyncer
  <2>3. ASSUME o \in syncer'[s].todo
        PROVE  /\ store.orders[o] # NoRow /\ store.orders[o].filled = syncer'[s].seen[o]
               /\ syncer'[s].pc = "listed"
    <3>1. Tracked(copy.orders[o]) /\ syncer'[s].seen[o] = copy.orders[o].filled
          /\ syncer'[s].pc = "listed"
      BY <2>1, <2>3 DEF IdleSyncer
    <3>2. copy = store
      BY <3>1 DEF Readable, EmptyStore, Tracked
    <3> QED
      BY <3>1, <3>2 DEF Tracked
  <2> QED
    BY SMTT(60), <1>2, <2>2, <2>3 DEF Knows, Matches
<1>6. CASE OpenOrders(s)
  <2> DEFINE new == [old EXCEPT !.pc = "lookup",
                        !.found = [q \in Orders |->
                            IF q \in old.todo /\ Working(q) THEN broker[q] ELSE NoRow],
                        !.todo = Missing(old.todo)]
  <2>1. CASE syncer'[s] = AfterLookups(new)
    <3>1. /\ new.pc = "lookup" /\ new.seen = old.seen
          /\ new.todo \subseteq old.todo
          /\ new.found[o] \in Row
          /\ new.found[o] # NoRow => new.found[o] = broker[o] /\ o \in old.todo
      BY <1>1, Nulls DEF Syncer, Missing
    <3>2. old.pc = "listed"
      BY <1>6 DEF OpenOrders
    <3>3. Knows(new, store, o)
      <4> HIDE DEF new
      <4> QED
        BY <1>2, <1>4, <3>1, <3>2 DEF Knows
    <3>4. new \in Syncer
      BY <1>1, Nulls DEF Syncer, Missing
    <3>5. Knows(AfterLookups(new), store, o)
      <4> HIDE DEF new
      <4> QED
        BY <1>1, <3>1, <3>3, <3>4, AfterKnows
    <3> QED
      BY <2>1, <3>5
  <2> QED
    BY <1>3, <1>6, <2>1, IdleKnows DEF OpenOrders
<1>7. CASE Lookup(s)
  <2>1. PICK q \in old.todo : \E row \in {broker[q], NoRow} :
           Syncing(s, AfterLookups([old EXCEPT !.found[q] = row, !.todo = @ \ {q}]))
    BY <1>7 DEF Lookup
  <2>2. PICK row \in {broker[q], NoRow} :
           syncer'[s] = AfterLookups([old EXCEPT !.found[q] = row, !.todo = @ \ {q}])
    BY <1>3, <2>1
  <2> DEFINE new == [old EXCEPT !.found[q] = row, !.todo = @ \ {q}]
  <2>3. q \in Orders /\ row \in Row
    BY <1>1, Nulls DEF Syncer
  <2>4. /\ new \in Syncer /\ new.pc = old.pc /\ new.pc = "lookup" /\ new.seen = old.seen
        /\ new.todo = old.todo \ {q}
        /\ new.found[o] = IF o = q THEN row ELSE old.found[o]
    BY <1>1, <1>7, <2>3 DEF Syncer, Lookup
  <2>5. Knows(new, store, o)
    <3> HIDE DEF new
    <3> QED
      BY <1>2, <1>4, <2>3, <2>4 DEF Knows
  <2>6. Knows(AfterLookups(new), store, o)
    <3> HIDE DEF new
    <3> QED
      BY <1>1, <2>4, <2>5, AfterKnows
  <2> QED
    BY SMTT(60), <2>2, <2>6
<1>8. CASE ApplyRead(s)
  <2>1. PICK copy \in Readable : syncer'[s] = [old EXCEPT !.pc = "write", !.copy = copy]
    BY <1>3, <1>8 DEF ApplyRead
  <2>2. /\ syncer'[s].pc = "write" /\ syncer'[s].seen = old.seen /\ syncer'[s].found = old.found
        /\ old.pc = "apply" /\ backend # "rows"
    BY <1>1, <1>8, <2>1 DEF Syncer, ApplyRead
  <2> QED
    BY <1>2, <2>2 DEF Knows
<1>9. CASE SyncFails(s)
  BY <1>3, <1>9, IdleKnows DEF SyncFails
<1> QED
  BY <1>5, <1>6, <1>7, <1>8, <1>9

\* Applying raises the rows to what was found and the fills by as much.
LEMMA ApplyMatches ==
    ASSUME TypeOK, FollowInv, MatchInv, ~stale, ~stale', NEW s \in Syncers, NEW o \in Orders,
           ApplyWrite(s) \/ ApplyRow(s) \/ InsertFills(s)
    PROVE  /\ store'.fills[o] <= store'.orders[o].filled
           /\ backend = "file" => store'.fills[o] = store'.orders[o].filled
           /\ Knows(syncer'[s], store', o)
<1> DEFINE rec == syncer[s]
<1>1. rec \in Syncer /\ syncer \in [Syncers -> Syncer] /\ store \in Store
  BY DEF TypeOK
<1>2. Knows(rec, store, o) /\ Matches(store, o)
  BY DEF MatchInv
<1>3. \A new : Syncing(s, new) => syncer'[s] = new
  BY <1>1 DEF Syncing
<1>4. /\ store.orders[o] \in Row /\ rec.found[o] \in Row /\ rec.seen[o] \in Nat
      /\ store.fills[o] \in Nat /\ Quantity[o] \in Nat
  BY <1>1, TrackerAssumption DEF Store, Syncer
<1>5. /\ rec.found[o].filled <= Quantity[o] /\ store.orders[o].filled <= Quantity[o]
      /\ Found(rec) \in SUBSET Orders
  <2>1. broker[o] \in Row /\ broker[o].filled <= Quantity[o]
    BY DEF TypeOK, FollowInv
  <2>2. rec.found[o].filled <= broker[o].filled /\ store.orders[o].filled <= broker[o].filled
    BY DEF FollowInv, Behind
  <2> QED
    BY <1>4, <2>1, <2>2 DEF Row, Found
<1>6. NoRow.filled = 0 /\ (rec.found[o] # NoRow <=> o \in Found(rec))
  BY DEF NoRow, Found
<1>7. CASE ApplyWrite(s)
  <2> DEFINE mid == WithRows(store, rec, Found(rec))
  <2>1. store' = WithFills(mid, rec) /\ syncer'[s] = IdleSyncer /\ rec.pc = "write"
    BY <1>3, <1>7 DEF ApplyWrite, Overwrite
  <2>2. /\ mid \in Store /\ mid.fills = store.fills
        /\ mid.orders[o] = IF o \in Found(rec) /\ store.orders[o] # NoRow
                           THEN rec.found[o] ELSE store.orders[o]
    BY <1>1, <1>5, RowsTypes
  <2>3. /\ store'.orders[o] = mid.orders[o]
        /\ store'.fills[o] = Counted(o, mid.fills[o] + Delta(rec, o))
    BY <1>1, <2>1, <2>2, FillTypes
  <2>4. CASE o \in Found(rec)
    <3>1. /\ store.orders[o] # NoRow /\ store.fills[o] <= rec.seen[o]
          /\ rec.seen[o] <= rec.found[o].filled /\ store.orders[o].filled = rec.seen[o]
      BY <1>2, <1>6, <2>1, <2>4 DEF Knows
    <3>2. /\ store'.orders[o] = rec.found[o]
          /\ store'.fills[o] = Counted(o, store.fills[o] + Delta(rec, o))
      BY <2>2, <2>3, <2>4, <3>1
    <3>3. Delta(rec, o) = rec.found[o].filled - rec.seen[o]
      BY <1>4, <3>1 DEF Delta, Row
    <3>4. store'.fills[o] = store.fills[o] + (rec.found[o].filled - rec.seen[o])
      BY <1>4, <1>5, <3>1, <3>2, <3>3 DEF Counted, Row
    <3>5. store'.fills[o] <= store'.orders[o].filled
      BY <1>4, <3>1, <3>2, <3>4 DEF Row
    <3>6. ASSUME backend = "file" PROVE store'.fills[o] = store'.orders[o].filled
      BY <1>2, <1>4, <3>1, <3>2, <3>4, <3>6 DEF Matches, Row
    <3> QED
      BY <2>1, <3>5, <3>6, IdleKnows
  <2>5. CASE o \notin Found(rec)
    <3>1. store'.orders[o] = store.orders[o]
      BY <2>2, <2>3, <2>5
    <3>2. Delta(rec, o) = 0
      BY <1>4, <1>6, <2>5 DEF Delta
    <3>3. store'.fills[o] = store.fills[o]
      BY <1>2, <1>4, <1>5, <2>2, <2>3, <3>2 DEF Counted, Matches, Row
    <3> QED
      BY <1>2, <2>1, <3>1, <3>3, IdleKnows DEF Matches
  <2> QED
    BY <2>4, <2>5
<1>8. CASE ApplyRow(s)
  <2>1. PICK q \in rec.todo : /\ store' = WithRows(store, rec, {q})
                              /\ Syncing(s, [rec EXCEPT !.todo = @ \ {q}])
    BY <1>8 DEF ApplyRow
  <2>2. {q} \in SUBSET Orders
    BY <1>1 DEF Syncer
  <2>3. /\ store'.fills = store.fills
        /\ store'.orders[o] = IF o = q /\ store.orders[o] # NoRow
                              THEN rec.found[o] ELSE store.orders[o]
    BY <1>1, <2>1, <2>2, RowsTypes
  <2>4. /\ syncer'[s].pc = "apply" /\ syncer'[s].found = rec.found /\ syncer'[s].seen = rec.seen
        /\ syncer'[s].todo = rec.todo \ {q} /\ rec.pc = "apply" /\ backend = "rows"
    BY <1>1, <1>3, <1>8, <2>1 DEF Syncer, ApplyRow
  <2>5. CASE o = q
    <3>1. rec.found[o] # NoRow /\ o \in rec.todo
      BY <1>2, <2>1, <2>4, <2>5 DEF Knows
    <3>2. /\ store.orders[o] # NoRow /\ store.fills[o] <= rec.seen[o]
          /\ rec.seen[o] <= rec.found[o].filled
      BY <1>2, <2>4, <3>1 DEF Knows
    <3>3. store'.orders[o] = rec.found[o] /\ store'.fills[o] <= rec.found[o].filled
      BY <1>4, <2>3, <2>5, <3>2 DEF Row
    <3> QED
      BY <2>3, <2>4, <2>5, <3>1, <3>2, <3>3 DEF Knows
  <2>6. CASE o # q
    <3>1. store'.orders[o] = store.orders[o] /\ store'.fills[o] = store.fills[o]
      BY <2>3, <2>6
    <3> QED
      BY <1>2, <2>4, <2>6, <3>1 DEF Knows, Matches
  <2> QED
    BY <2>5, <2>6
<1>9. CASE InsertFills(s)
  <2>1. /\ store' = WithFills(store, rec) /\ syncer'[s] = IdleSyncer
        /\ rec.pc = "apply" /\ rec.todo = {} /\ backend = "rows"
    BY <1>3, <1>9 DEF InsertFills
  <2>2. /\ store'.orders[o] = store.orders[o]
        /\ store'.fills[o] = Counted(o, store.fills[o] + Delta(rec, o))
    BY <1>1, <2>1, FillTypes
  <2>3. store.fills[o] + Delta(rec, o) <= store.orders[o].filled
    <3>1. CASE o \in Found(rec)
      BY <1>2, <1>4, <1>6, <2>1, <3>1 DEF Knows, Delta, Row
    <3>2. CASE o \notin Found(rec)
      <4>1. Delta(rec, o) = 0
        BY <1>4, <1>6, <3>2 DEF Delta
      <4> QED
        BY <1>2, <1>4, <4>1 DEF Matches
    <3> QED
      BY <3>1, <3>2
  <2>4. store'.fills[o] <= store'.orders[o].filled
    <3>1. Delta(rec, o) \in Nat
      BY <1>4 DEF Delta, Row
    <3> QED
      BY <1>4, <1>5, <2>2, <2>3, <3>1 DEF Counted, Row
  <2> QED
    BY <2>1, <2>4, IdleKnows
<1> QED
  BY <1>7, <1>8, <1>9

\* Two synchronisations at once would both record the delta of the same rows:
\* the fills add up because there is one.
THEOREM FillsAddUp ==
    ASSUME \A r, s \in Syncers : r = s
    PROVE  Spec => []FillsMatchRows
<1>1. Init => MatchInv
  <2> SUFFICES ASSUME Init, NEW o \in Orders
               PROVE  Matches(store, o) /\ \A s \in Syncers : Knows(syncer[s], store, o)
    BY DEF MatchInv
  <2>1. store.fills[o] = 0 /\ store.orders[o].filled = 0
    BY DEF Init, EmptyStore, NoRow
  <2> QED
    BY <2>1, IdleKnows DEF Init, Matches
<1>2. TypeOK /\ FollowInv /\ MatchInv /\ [Next]_vars => MatchInv'
  <2> SUFFICES ASSUME TypeOK, FollowInv, MatchInv, [Next]_vars, ~stale', NEW o \in Orders
               PROVE  /\ Matches(store, o)'
                      /\ \A s \in Syncers : Knows(syncer[s], store, o)'
    BY DEF MatchInv
  <2>1. ~stale /\ backend' = backend
    BY CleanStores
  <2>2. /\ Matches(store, o) /\ \A s \in Syncers : Knows(syncer[s], store, o)
        /\ store \in Store
    BY <2>1 DEF MatchInv, TypeOK
  <2>3. SUFFICES /\ store'.fills[o] <= store'.orders[o].filled
                 /\ backend = "file" => store'.fills[o] = store'.orders[o].filled
                 /\ \A s \in Syncers : Knows(syncer'[s], store', o)
    BY <2>1 DEF Matches, Knows
  <2>4. ASSUME NEW w \in Writers, writer[w].pc # "idle", Writes(w),
               store' = Changed(writer[w].job, store, writer[w].order)
        PROVE  /\ Matches(store', o) /\ syncer' = syncer
               /\ \A s \in Syncers : Knows(syncer[s], store', o)
    <3>1. syncer' = syncer
      BY <2>4, WriterCases DEF WriterMoves
    <3>2. PICK job \in {"preview", "record", "mark"}, q \in Orders :
             job = writer[w].job /\ q = writer[w].order
      BY DEF TypeOK, Writer
    <3>0. \A s \in Syncers : syncer[s] \in Syncer
      BY DEF TypeOK
    <3>3. Matches(Changed(job, store, q), o)
      BY <2>2, JobMatches
    <3>4. ASSUME NEW s \in Syncers PROVE Knows(syncer[s], Changed(job, store, q), o)
      BY <2>2, <3>0, JobKeeps
    <3> QED
      BY <2>4, <3>1, <3>2, <3>3, <3>4
  <2>5. ASSUME NEW s \in Syncers, ApplyWrite(s) \/ ApplyRow(s) \/ InsertFills(s)
        PROVE  /\ store'.fills[o] <= store'.orders[o].filled
               /\ backend = "file" => store'.fills[o] = store'.orders[o].filled
               /\ \A r \in Syncers : Knows(syncer'[r], store', o)
    BY <2>1, <2>5, ApplyMatches
  <2>6. CASE store' = store
    <3>1. ASSUME NEW s \in Syncers,
                 List(s) \/ OpenOrders(s) \/ Lookup(s) \/ ApplyRead(s) \/ SyncFails(s)
          PROVE  \A r \in Syncers : Knows(syncer'[r], store, o)
      BY <2>1, <3>1, ReadingKnows
    <3>2. CASE syncer' = syncer
      BY <2>2, <2>6, <3>2 DEF Matches
    <3>3. CASE \E s \in Syncers : Succeeds(s) \/ SyncFails(s)
      BY <2>2, <2>5, <2>6, <3>1, <3>3 DEF Succeeds, Matches
    <3> QED
      BY <3>2, <3>3, SyncersApart
  <2> QED
    BY <2>4, <2>5, <2>6, CleanStores DEF Matches
<1>3. MatchInv => FillsMatchRows
  BY DEF MatchInv, FillsMatchRows, Matches
<1> QED
  BY <1>1, <1>2, <1>3, TypesHold, FollowStays, PTL DEF Spec

-----------------------------------------------------------------------------
(* A used preview has its order tracked. *)

\* What is applied was found.
AppliesFound == \A s \in Syncers : syncer[s].pc = "apply" => syncer[s].todo \subseteq Found(syncer[s])

LEMMA AppliesInductive == TypeOK /\ AppliesFound /\ [Next]_vars => AppliesFound'
<1> SUFFICES ASSUME TypeOK, AppliesFound, [Next]_vars, NEW s \in Syncers, syncer'[s].pc = "apply"
             PROVE  syncer'[s].todo \subseteq Found(syncer'[s])
  BY DEF AppliesFound, Found
<1> DEFINE old == syncer[s]
<1>1. old \in Syncer /\ syncer \in [Syncers -> Syncer]
  BY DEF TypeOK
<1>2. \A rec : Syncing(s, rec) => syncer'[s] = rec
  BY <1>1 DEF Syncing
<1>3. \A rec \in Syncer : rec.pc = "lookup" /\ AfterLookups(rec).pc = "apply" =>
         AfterLookups(rec).todo = Found(AfterLookups(rec))
  BY DEF AfterLookups, Syncer, Found
<1>4. CASE List(s)
  BY ZenonT(60), <1>2, <1>4 DEF List, IdleSyncer
<1>5. CASE OpenOrders(s)
  <2> DEFINE new == [old EXCEPT !.pc = "lookup",
                        !.found = [q \in Orders |->
                            IF q \in old.todo /\ Working(q) THEN broker[q] ELSE NoRow],
                        !.todo = Missing(old.todo)]
  <2>1. new \in Syncer /\ new.pc = "lookup"
    BY <1>1, Nulls DEF Syncer, Missing, TypeOK
  <2>2. \/ syncer'[s] = AfterLookups(new)
        \/ syncer'[s] = [IdleSyncer EXCEPT !.pc = "apply"]
    BY <1>2, <1>5 DEF OpenOrders
  <2>3. [IdleSyncer EXCEPT !.pc = "apply"].todo = {}
    BY DEF IdleSyncer
  <2> HIDE DEF new
  <2> QED
    BY <1>3, <2>1, <2>2, <2>3
<1>6. CASE Lookup(s)
  <2>1. PICK o \in old.todo : \E row \in {broker[o], NoRow} :
           Syncing(s, AfterLookups([old EXCEPT !.found[o] = row, !.todo = @ \ {o}]))
    BY <1>6 DEF Lookup
  <2>2. PICK row \in {broker[o], NoRow} :
           syncer'[s] = AfterLookups([old EXCEPT !.found[o] = row, !.todo = @ \ {o}])
    BY <1>2, <2>1
  <2> DEFINE new == [old EXCEPT !.found[o] = row, !.todo = @ \ {o}]
  <2>3. o \in Orders /\ row \in Row
    BY <1>1, Nulls DEF Syncer, TypeOK
  <2>4. new \in Syncer /\ new.pc = "lookup"
    BY <1>1, <1>6, <2>3 DEF Syncer, Lookup
  <2> HIDE DEF new
  <2> QED
    BY <1>3, <2>2, <2>4 DEF new
<1>7. CASE ApplyRow(s)
  <2>1. PICK o \in old.todo : syncer'[s] = [old EXCEPT !.todo = @ \ {o}]
    BY <1>2, <1>7 DEF ApplyRow
  <2>2. syncer'[s].todo \subseteq old.todo /\ syncer'[s].found = old.found /\ old.pc = "apply"
    BY <1>1, <1>7, <2>1 DEF Syncer, ApplyRow
  <2> QED
    BY <2>2 DEF AppliesFound, Found
<1>8. CASE ApplyRead(s)
  BY <1>1, <1>2, <1>8 DEF ApplyRead, Syncer
<1>9. CASE ApplyWrite(s) \/ InsertFills(s) \/ SyncFails(s)
  BY <1>2, <1>9 DEF ApplyWrite, InsertFills, SyncFails, IdleSyncer
<1>10. CASE syncer'[s] = syncer[s]
  BY <1>10 DEF AppliesFound
<1>11. ASSUME NEW r \in Syncers, Succeeds(r) \/ SyncFails(r), r # s PROVE syncer'[s] = syncer[s]
  BY <1>11, SyncCases DEF SyncMoves, TypeOK
<1> QED
  BY <1>4, <1>5, <1>6, <1>7, <1>8, <1>9, <1>10, <1>11, SyncersApart DEF Succeeds

UsedInv ==
    ~stale =>
        /\ \A o \in Orders : store.previews[o] = "used" => store.orders[o] # NoRow
        /\ \A w \in Writers : writer[w].pc # "idle" /\ writer[w].job = "mark" =>
                                 store.orders[writer[w].order] # NoRow

\* While nothing is overwritten a tracked order stays tracked, and only marking
\* uses up a preview.
LEMMA TrackedStays ==
    ASSUME TypeOK, AppliesFound, [Next]_vars, ~stale', NEW o \in Orders
    PROVE  /\ store.orders[o] # NoRow => store'.orders[o] # NoRow
           /\ store'.previews[o] = "used" =>
                 \/ store.previews[o] = "used"
                 \/ \E w \in Writers : /\ writer[w].pc # "idle" /\ writer[w].job = "mark"
                                       /\ writer[w].order = o
<1>1. store \in Store
  BY DEF TypeOK
<1>2. ASSUME NEW w \in Writers, writer[w].pc # "idle",
             store' = Changed(writer[w].job, store, writer[w].order)
      PROVE  /\ store.orders[o] # NoRow => store'.orders[o] # NoRow
             /\ store'.previews[o] = "used" =>
                   store.previews[o] = "used" \/ (writer[w].job = "mark" /\ writer[w].order = o)
  <2>1. PICK job \in {"preview", "record", "mark"}, q \in Orders :
           job = writer[w].job /\ q = writer[w].order
    BY DEF TypeOK, Writer
  <2>2. /\ store.orders[o] # NoRow => Changed(job, store, q).orders[o] # NoRow
    BY <1>1, ChangedRows, Nulls
  <2>3. Changed(job, store, q).previews[o] = "used" =>
           store.previews[o] = "used" \/ (job = "mark" /\ o = q)
    BY <1>1, ChangedUses
  <2> QED
    BY <1>2, <2>1, <2>2, <2>3
<1>3. ASSUME NEW s \in Syncers, ApplyWrite(s) \/ ApplyRow(s) \/ InsertFills(s)
      PROVE  /\ store.orders[o] # NoRow => store'.orders[o] # NoRow
             /\ store'.previews = store.previews
  <2> DEFINE rec == syncer[s]
  <2>1. rec \in Syncer /\ rec.copy \in Store /\ Found(rec) \in SUBSET Orders
    BY DEF TypeOK, Syncer, Found
  <2>2. CASE ApplyWrite(s)
    <3>1. stale' = (stale \/ rec.copy # store) /\ store' = WithFills(WithRows(rec.copy, rec, Found(rec)), rec)
      BY <2>2 DEF ApplyWrite, Overwrite
    <3>2. store' = WithFills(WithRows(store, rec, Found(rec)), rec)
      BY <3>1
    <3>3. /\ WithRows(store, rec, Found(rec)) \in Store
          /\ WithRows(store, rec, Found(rec)).previews = store.previews
          /\ WithRows(store, rec, Found(rec)).orders[o] =
                IF o \in Found(rec) /\ store.orders[o] # NoRow THEN rec.found[o] ELSE store.orders[o]
      BY <1>1, <2>1, RowsTypes
    <3>4. /\ store'.orders = WithRows(store, rec, Found(rec)).orders
          /\ store'.previews = store.previews
      BY <2>1, <3>2, <3>3, FillTypes
    <3> QED
      BY <3>3, <3>4 DEF Found
  <2>3. CASE ApplyRow(s)
    <3>1. PICK q \in rec.todo : store' = WithRows(store, rec, {q})
      BY <2>3 DEF ApplyRow
    <3>2. {q} \in SUBSET Orders /\ rec.found[q] # NoRow
      BY <2>1, <2>3 DEF Syncer, AppliesFound, ApplyRow, Found
    <3>3. /\ store'.previews = store.previews
          /\ store'.orders[o] = IF o \in {q} /\ store.orders[o] # NoRow
                                THEN rec.found[o] ELSE store.orders[o]
      BY <1>1, <2>1, <3>1, <3>2, RowsTypes
    <3> QED
      BY <3>2, <3>3
  <2>4. CASE InsertFills(s)
    BY <1>1, <2>1, <2>4, FillTypes DEF InsertFills
  <2> QED
    BY <1>3, <2>2, <2>3, <2>4
<1>4. CASE store' = store
  BY <1>4
<1> QED
  BY <1>2, <1>3, <1>4, CleanStores

\* A job to mark a preview starts where its order is in the ledger.
LEMMA MarkStarts ==
    ASSUME TypeOK, NEW w \in Writers, Writes(w), ~stale',
           writer'[w].pc # "idle", writer'[w].job = "mark"
    PROVE  \/ writer[w].pc # "idle" /\ writer[w].job = "mark" /\ writer'[w].order = writer[w].order
           \/ store'.orders[writer'[w].order] # NoRow
<1> DEFINE old == writer[w]
<1>1. old \in Writer /\ writer \in [Writers -> Writer] /\ store \in Store
  BY DEF TypeOK
<1>2. \A rec : Writing(w, rec) => writer'[w] = rec
  BY <1>1 DEF Writing
<1>3. /\ AfterJob(old).pc = "read" => old.job = "record" /\ AfterJob(old).order = old.order
      /\ AfterJob(old).pc \in {"idle", "read"}
  BY <1>1, AfterJobTypes
<1>4. PICK job \in {"preview", "record", "mark"}, q \in Orders : job = old.job /\ q = old.order
  BY <1>1 DEF Writer
<1>5. job = "record" => Changed(job, store, q).orders[q] # NoRow
  BY <1>1, ChangedUses
<1>6. CASE Preview(w) \/ Send(w) \/ WriterFails(w)
  <2>1. \A o : Job("preview", o).job = "preview" /\ Job("record", o).job = "record"
    BY DEF Job, IdleWriter
  <2>2. IdleWriter.pc = "idle"
    BY DEF IdleWriter
  <2>3. CASE Preview(w)
    BY <1>2, <2>1, <2>3 DEF Preview
  <2>4. CASE Send(w)
    BY <1>2, <2>1, <2>4 DEF Send
  <2>5. CASE WriterFails(w)
    BY <1>2, <2>2, <2>5 DEF WriterFails
  <2> QED
    BY <1>6, <2>3, <2>4, <2>5
<1>7. CASE Read(w)
  <2>1. PICK first \in Readable, copy \in Readable :
           \/ /\ \/ old.job = "record" /\ copy.orders[old.order] # NoRow
                 \/ old.job = "mark" /\ first.previews[old.order] = "none"
              /\ writer'[w] = AfterJob(old)
           \/ writer'[w] = [old EXCEPT !.pc = "write", !.copy = copy]
    BY <1>2, <1>7 DEF Read
  <2>2. CASE writer'[w] = [old EXCEPT !.pc = "write", !.copy = copy]
    BY <1>1, <1>7, <2>2 DEF Writer, Read
  <2>3. CASE writer'[w] = AfterJob(old) /\ old.job = "record" /\ copy.orders[old.order] # NoRow
    <3>1. copy = store
      BY <1>4, <2>3 DEF Readable, EmptyStore
    <3> QED
      BY <1>3, <1>7, <2>3, <3>1 DEF Read
  <2>4. CASE writer'[w] = AfterJob(old) /\ old.job = "mark"
    BY <1>3, <2>4
  <2> QED
    BY SMTT(60), <2>1, <2>2, <2>3, <2>4
<1>8. CASE Write(w)
  <2>1. /\ stale' = (stale \/ old.copy # store) /\ store' = Changed(job, old.copy, q)
        /\ writer'[w] = AfterJob(old)
    BY <1>2, <1>4, <1>8 DEF Write, Overwrite
  <2> QED
    BY <1>3, <1>4, <1>5, <2>1
<1>9. CASE WriteRow(w)
  BY <1>2, <1>3, <1>4, <1>5, <1>9 DEF WriteRow
<1> QED
  BY <1>6, <1>7, <1>8, <1>9 DEF Writes

THEOREM UsedPreviewsAreTracked == Spec => []UsedIsTracked
<1>1. Init => AppliesFound /\ UsedInv
  <2> SUFFICES ASSUME Init PROVE AppliesFound /\ UsedInv
    OBVIOUS
  <2>1. IdleSyncer.pc = "idle" /\ IdleWriter.pc = "idle"
    BY DEF IdleSyncer, IdleWriter
  <2>2. \A o \in Orders : EmptyStore.previews[o] # "used"
    BY DEF EmptyStore
  <2> QED
    BY <2>1, <2>2 DEF Init, AppliesFound, UsedInv
<1>2. TypeOK /\ AppliesFound /\ UsedInv /\ [Next]_vars => UsedInv'
  <2> SUFFICES ASSUME TypeOK, AppliesFound, UsedInv, [Next]_vars, ~stale'
               PROVE  /\ \A o \in Orders : store'.previews[o] = "used" => store'.orders[o] # NoRow
                      /\ \A w \in Writers : writer'[w].pc # "idle" /\ writer'[w].job = "mark" =>
                                               store'.orders[writer'[w].order] # NoRow
    BY DEF UsedInv
  <2>1. ~stale
    BY CleanStores
  <2>2. ASSUME NEW o \in Orders, store'.previews[o] = "used" PROVE store'.orders[o] # NoRow
    BY <2>1, <2>2, TrackedStays DEF UsedInv
  <2>3. ASSUME NEW w \in Writers, writer'[w].pc # "idle", writer'[w].job = "mark"
        PROVE  store'.orders[writer'[w].order] # NoRow
    <3>1. \/ /\ writer[w].pc # "idle" /\ writer[w].job = "mark"
             /\ writer'[w].order = writer[w].order
          \/ store'.orders[writer'[w].order] # NoRow
      <4>1. ASSUME NEW v \in Writers, Writes(v), v # w PROVE writer'[w] = writer[w]
        BY <4>1, WriterCases DEF WriterMoves, TypeOK
      <4> QED
        BY <2>3, <4>1, MarkStarts, WritersApart
    <3>2. writer[w].order \in Orders
      BY DEF TypeOK, Writer
    <3> QED
      BY <2>1, <3>1, <3>2, TrackedStays DEF UsedInv
  <2> QED
    BY <2>2, <2>3
<1>3. UsedInv => UsedIsTracked
  BY DEF UsedInv, UsedIsTracked
<1> QED
  BY <1>1, <1>2, <1>3, AppliesInductive, TypesHold, PTL DEF Spec
=============================================================================
