--------------------------- MODULE WebhookOutbox ---------------------------
(***************************************************************************)
(* The webhook outbox of the developer portal: requests that publish an    *)
(* event inside their own transaction (services/webhooks/eventPublisher.js)*)
(* a dispatcher that turns PENDING events into delivery rows               *)
(* (dispatcher.js), a delivery worker that posts the rows                  *)
(* (deliveryWorker.js), all on the tables of dao/eventDao.js.              *)
(*                                                                         *)
(* A setInterval callback does not wait for the one before it, so several  *)
(* batches of the dispatcher and of the worker run side by side.  Claims   *)
(* are transactions that lock what they read (FOR UPDATE SKIP LOCKED on    *)
(* PostgreSQL, BEGIN IMMEDIATE on SQLite) and are single steps; every      *)
(* other statement commits on its own.                                     *)
(*                                                                         *)
(* publish() emits its wake-up signal before its transaction ends, and the *)
(* dispatcher's listener runs in the asynchronous context of that call:    *)
(* db/driver.js finds the publisher's transaction in its AsyncLocalStorage *)
(* and sends the statements of the woken batch to that connection, whoever *)
(* uses it by then.  A claim alone opens a transaction of its own.  A      *)
(* wake-up whose batch finds nothing is one that is handled later.         *)
(***************************************************************************)
EXTENDS Naturals, FiniteSets

CONSTANTS Events,      \* events, each published by one request
          KeyEvents,   \* those with secretFields
          Subscribers, \* webhook subscribers
          Dispatchers, \* overlapping dispatcher batches
          Workers,     \* overlapping worker batches
          BatchSize,   \* delivery.batchSize
          MaxCopies,   \* bound: rows of one event for one subscriber
          MaxFaults,   \* bound: failures, crashes and stale deliveries
          NoTx         \* no transaction

ASSUME OutboxAssumption ==
    /\ KeyEvents \subseteq Events
    /\ BatchSize \in Nat \ {0}
    /\ MaxCopies \in Nat \ {0}
    /\ MaxFaults \in Nat
    /\ NoTx \notin Events

(* A delivery row: its event, its subscriber and a number that keeps rows  *)
(* with the same two apart.                                                *)
Rows == Events \X Subscribers \X (1..MaxCopies)
RowsOf(e) == {r \in Rows : r[1] = e}

VARIABLES
    tx,        \* per request: its transaction, "idle" before it begins
    heldRows,  \* per request: delivery rows its transaction will insert
    heldEv,    \* per request: event statuses its transaction will set
    event,     \* per event: its committed status, "none" before
    row,       \* per delivery row: its committed status, "none" before
    old,       \* delivery rows in flight for more than five minutes
    wakes,     \* publishers whose wake-up has not been handled
    dtodo,     \* per dispatcher: events of its batch
    dcur,      \* per dispatcher: the event whose rows it inserts, as a set
    dsubs,     \* per dispatcher: subscribers still without a row
    host,      \* per dispatcher: the publisher whose context it runs in
    wtodo,     \* per worker: delivery rows of its batch
    wcur,      \* per worker: the row it has posted, as a set
    wpc,       \* per worker: "idle", "post", "mark", "read" or "write"
    wsays,     \* per worker: what it will write
    matched,   \* history: the subscribers an event was last matched with
    posts,     \* history: how often a row was posted
    faults     \* failures so far

txVars == <<tx, heldRows, heldEv, wakes>>
dbVars == <<event, row, old>>
dVars  == <<dtodo, dcur, dsubs, host>>
wVars  == <<wtodo, wcur, wpc, wsays>>
vars == <<txVars, dbVars, dVars, wVars, matched, posts, faults>>

Keep == [e \in Events |-> "none"]

Init ==
    /\ tx = [e \in Events |-> "idle"]
    /\ heldRows = [e \in Events |-> {}]
    /\ heldEv = [e \in Events |-> Keep]
    /\ event = Keep
    /\ row = [r \in Rows |-> "none"]
    /\ old = {}
    /\ wakes = {}
    /\ dtodo = [d \in Dispatchers |-> {}]
    /\ dcur = [d \in Dispatchers |-> {}]
    /\ dsubs = [d \in Dispatchers |-> {}]
    /\ host = [d \in Dispatchers |-> NoTx]
    /\ wtodo = [w \in Workers |-> {}]
    /\ wcur = [w \in Workers |-> {}]
    /\ wpc = [w \in Workers |-> "idle"]
    /\ wsays = [w \in Workers |-> "none"]
    /\ matched = [e \in Events |-> {}]
    /\ posts = [r \in Rows |-> 0]
    /\ faults = 0

-----------------------------------------------------------------------------
(* publish(), inside the transaction of the request for event e.            *)

(* Without secret fields: the event row, and the wake-up.                  *)
PublishPlain(e) ==
    /\ e \notin KeyEvents
    /\ tx[e] = "idle"
    /\ tx' = [tx EXCEPT ![e] = "open"]
    /\ heldEv' = [heldEv EXCEPT ![e][e] = "PENDING"]
    /\ wakes' = wakes \cup {e}
    /\ UNCHANGED <<heldRows, dbVars, dVars, wVars, matched, posts, faults>>

(* With secret fields: the delivery rows of the subscribers the fields can *)
(* be sealed for, and the event as DISPATCHED, or as ALL_DELIVERED when    *)
(* there is none.                                                          *)
PublishKey(e) ==
    /\ e \in KeyEvents
    /\ tx[e] = "idle"
    /\ tx' = [tx EXCEPT ![e] = "open"]
    /\ \E S \in SUBSET Subscribers :
         /\ heldRows' = [heldRows EXCEPT ![e] = {<<e, s, 1>> : s \in S}]
         /\ heldEv' = [heldEv EXCEPT ![e][e] =
                         IF S = {} THEN "ALL_DELIVERED" ELSE "DISPATCHED"]
         /\ matched' = [matched EXCEPT ![e] = S]
    /\ wakes' = wakes \cup {e}
    /\ UNCHANGED <<dbVars, dVars, wVars, posts, faults>>

(* The request commits: everything its connection did becomes visible.     *)
(* withTransaction is the same in sqliteAdapter.js, where the lock admits  *)
(* one transaction at a time, and in postgresAdapter.js, which opens each  *)
(* on a client of its own.                                                 *)
Commit(e) ==
    /\ tx[e] = "open"
    /\ tx' = [tx EXCEPT ![e] = "committed"]
    /\ row' = [r \in Rows |-> IF r \in heldRows[e] THEN "PENDING" ELSE row[r]]
    /\ event' = [f \in Events |->
                   IF heldEv[e][f] = "none" THEN event[f] ELSE heldEv[e][f]]
    /\ heldRows' = [heldRows EXCEPT ![e] = {}]
    /\ heldEv' = [heldEv EXCEPT ![e] = Keep]
    /\ UNCHANGED <<old, wakes, dVars, wVars, matched, posts, faults>>

(* A later step of the request throws: all of it is undone.                *)
Rollback(e) ==
    /\ tx[e] = "open"
    /\ tx' = [tx EXCEPT ![e] = "aborted"]
    /\ heldRows' = [heldRows EXCEPT ![e] = {}]
    /\ heldEv' = [heldEv EXCEPT ![e] = Keep]
    /\ UNCHANGED <<wakes, dbVars, dVars, wVars, matched, posts, faults>>

-----------------------------------------------------------------------------
(* The transaction a statement of dispatcher d falls into: its publisher's *)
(* while that is open; afterwards, one of whoever has the connection, or   *)
(* none.                                                                   *)
Joins(d) ==
    IF host[d] = NoTx THEN {NoTx}
    ELSE IF tx[host[d]] = "open" THEN {host[d]}
    ELSE {NoTx} \cup {e \in Events : tx[e] = "open"}

SetEvent(d, e, st) ==
    \E t \in Joins(d) :
        IF t = NoTx THEN /\ event' = [event EXCEPT ![e] = st]
                         /\ UNCHANGED heldEv
                    ELSE /\ heldEv' = [heldEv EXCEPT ![t][e] = st]
                         /\ UNCHANGED event

InsertRow(d, r) ==
    \E t \in Joins(d) :
        IF t = NoTx THEN /\ row' = [row EXCEPT ![r] = "PENDING"]
                         /\ UNCHANGED heldRows
                    ELSE /\ heldRows' = [heldRows EXCEPT ![t] = @ \cup {r}]
                         /\ UNCHANGED row

Unused(e, s) ==
    {n \in 1..MaxCopies : /\ row[<<e, s, n>>] = "none"
                          /\ \A t \in Events : <<e, s, n>> \notin heldRows[t]}

-----------------------------------------------------------------------------
(* The dispatcher's runBatch.                                               *)

Batches(S) == {B \in SUBSET S : /\ B # {}
                                /\ \/ Cardinality(B) = BatchSize
                                   \/ B = S /\ Cardinality(S) < BatchSize}

DispatcherIdle(d) == dtodo[d] = {} /\ dcur[d] = {}

(* Mutant: the claim leaves the events PENDING.                            *)
ClaimedPending == "PENDING"

Claimed == "DISPATCHED"

(* claimPending, on an interval tick or for the wake-up of publisher h.    *)
DispatchClaim(d, h) ==
    /\ DispatcherIdle(d)
    /\ h = NoTx \/ h \in wakes
    /\ \E B \in Batches({e \in Events : event[e] = "PENDING"}) :
         /\ event' = [e \in Events |-> IF e \in B THEN Claimed ELSE event[e]]
         /\ dtodo' = [dtodo EXCEPT ![d] = B]
    /\ host' = [host EXCEPT ![d] = h]
    /\ wakes' = wakes \ {h}
    /\ UNCHANGED <<tx, heldRows, heldEv, row, old, dcur, dsubs, wVars,
                   matched, posts, faults>>

(* matchSubscribers for the next event of the batch; without any the event *)
(* is done.                                                                *)
Match(d, e) ==
    /\ e \in dtodo[d] /\ dcur[d] = {}
    /\ dtodo' = [dtodo EXCEPT ![d] = @ \ {e}]
    /\ \E S \in SUBSET Subscribers :
         /\ matched' = [matched EXCEPT ![e] = S]
         /\ dsubs' = [dsubs EXCEPT ![d] = S]
         /\ \/ S = {} /\ SetEvent(d, e, "ALL_DELIVERED") /\ dcur' = dcur
            \/ /\ S # {} /\ dcur' = [dcur EXCEPT ![d] = {e}]
               /\ UNCHANGED <<event, heldEv>>
    /\ UNCHANGED <<tx, heldRows, wakes, row, old, host, wVars, posts, faults>>

(* createDeliveries: one insert after the other.                           *)
Insert(d, s) ==
    /\ s \in dsubs[d]
    /\ \E e \in dcur[d] : \E n \in Unused(e, s) :
         /\ \A m \in Unused(e, s) : n <= m
         /\ InsertRow(d, <<e, s, n>>)
    /\ dsubs' = [dsubs EXCEPT ![d] = @ \ {s}]
    /\ dcur' = [dcur EXCEPT ![d] = IF dsubs[d] = {s} THEN {} ELSE @]
    /\ UNCHANGED <<tx, heldEv, wakes, event, old, dtodo, host, wVars, matched,
                   posts, faults>>

(* An insert fails and the event is made PENDING again, unless that fails  *)
(* too.  Where a failed statement dooms the transaction it fell into       *)
(* (PostgreSQL), it does, and the Rollback of that transaction follows.    *)
InsertFails(d) ==
    /\ faults < MaxFaults
    /\ dcur[d] # {}
    /\ faults' = faults + 1
    /\ \E e \in dcur[d] :
          SetEvent(d, e, "PENDING") \/ UNCHANGED <<event, heldEv>>
    /\ dcur' = [dcur EXCEPT ![d] = {}]
    /\ dsubs' = [dsubs EXCEPT ![d] = {}]
    /\ UNCHANGED <<tx, heldRows, wakes, row, old, dtodo, host, wVars, matched,
                   posts>>

-----------------------------------------------------------------------------
(* The delivery worker's runBatch.                                          *)

(* Mutant: an abandoned delivery is tried again.                           *)
RecoveredPending == "PENDING"

Recovered == "FAILED"

(* claimDueDeliveries: rows in flight for too long are given up, then a    *)
(* batch of PENDING rows goes in flight.                                   *)
WorkerClaim(w) ==
    LET after == [r \in Rows |-> IF r \in old THEN Recovered ELSE row[r]] IN
    /\ wpc[w] = "idle"
    /\ \E B \in Batches({r \in Rows : after[r] = "PENDING"}) \cup {{}} :
         /\ B = {} => \A r \in Rows : after[r] # "PENDING"
         /\ B # {} \/ old # {}
         /\ row' = [r \in Rows |-> IF r \in B THEN "IN_FLIGHT" ELSE after[r]]
         /\ wtodo' = [wtodo EXCEPT ![w] = B]
         /\ wpc' = [wpc EXCEPT ![w] = IF B = {} THEN "idle" ELSE "post"]
    /\ old' = {}
    /\ UNCHANGED <<txVars, event, dVars, wcur, wsays, matched, posts, faults>>

(* post: the subscriber accepts, refuses, does not answer or is gone.      *)
Post(w, r) ==
    /\ wpc[w] = "post"
    /\ r \in wtodo[w]
    /\ posts' = [posts EXCEPT ![r] = @ + 1]
    /\ wtodo' = [wtodo EXCEPT ![w] = @ \ {r}]
    /\ wcur' = [wcur EXCEPT ![w] = {r}]
    /\ \E st \in {"DELIVERED", "FAILED"} : wsays' = [wsays EXCEPT ![w] = st]
    /\ wpc' = [wpc EXCEPT ![w] = "mark"]
    /\ UNCHANGED <<txVars, dbVars, dVars, matched, faults>>

(* markDelivered or markFailed: the row, whatever its status is by now.    *)
Mark(w) ==
    /\ wpc[w] = "mark"
    /\ row' = [r \in Rows |-> IF r \in wcur[w] THEN wsays[w] ELSE row[r]]
    /\ old' = old \ wcur[w]
    /\ wpc' = [wpc EXCEPT ![w] = "read"]
    /\ UNCHANGED <<txVars, event, dVars, wtodo, wcur, wsays, matched, posts,
                   faults>>

Onward(w) == IF wtodo[w] = {} THEN "idle" ELSE "post"

(* Mutant: one delivered row makes an event all delivered.                 *)
VerdictAny(S) ==
    IF \E r \in S : row[r] = "DELIVERED" THEN "ALL_DELIVERED" ELSE "FAILED"

(* Mutant: the status of a delivery is written to the event.               *)
VerdictOfRow(S) ==
    IF \A r \in S : row[r] = "DELIVERED" THEN "DELIVERED" ELSE "FAILED"

(* The status of an event whose rows S have all come to an end.            *)
Verdict(S) ==
    IF \A r \in S : row[r] = "DELIVERED" THEN "ALL_DELIVERED" ELSE "FAILED"

(* reconcile reads the event's rows, and stops unless all are terminal.    *)
ReconcileRead(w) ==
    LET S == {r \in Rows : row[r] # "none"
                             /\ \E q \in wcur[w] : r[1] = q[1]}
        terminal == \A r \in S : row[r] \in {"DELIVERED", "FAILED"}
    IN
    /\ wpc[w] = "read"
    /\ wpc' = [wpc EXCEPT ![w] = IF terminal THEN "write" ELSE Onward(w)]
    /\ wsays' = [wsays EXCEPT ![w] = IF terminal THEN Verdict(S) ELSE "none"]
    /\ wcur' = [wcur EXCEPT ![w] = IF terminal THEN @ ELSE {}]
    /\ UNCHANGED <<txVars, dbVars, dVars, wtodo, matched, posts, faults>>

ReconcileWrite(w) ==
    /\ wpc[w] = "write"
    /\ event' = [e \in Events |->
                   IF \E r \in wcur[w] : r[1] = e THEN wsays[w] ELSE event[e]]
    /\ wpc' = [wpc EXCEPT ![w] = Onward(w)]
    /\ wcur' = [wcur EXCEPT ![w] = {}]
    /\ wsays' = [wsays EXCEPT ![w] = "none"]
    /\ UNCHANGED <<txVars, row, old, dVars, wtodo, matched, posts, faults>>

(* A statement of the worker fails: the rest of the batch is left.         *)
WorkerFails(w) ==
    /\ faults < MaxFaults
    /\ wpc[w] # "idle"
    /\ faults' = faults + 1
    /\ wpc' = [wpc EXCEPT ![w] = "idle"]
    /\ wtodo' = [wtodo EXCEPT ![w] = {}]
    /\ wcur' = [wcur EXCEPT ![w] = {}]
    /\ wsays' = [wsays EXCEPT ![w] = "none"]
    /\ UNCHANGED <<txVars, dbVars, dVars, matched, posts>>

-----------------------------------------------------------------------------
(* Five minutes pass for a row in flight, its worker slow or gone.          *)
Age(r) ==
    /\ row[r] = "IN_FLIGHT"
    /\ r \notin old
    /\ \/ \A w \in Workers : r \notin wtodo[w] \cup wcur[w]
       \/ faults < MaxFaults
    /\ faults' = IF \E w \in Workers : r \in wtodo[w] \cup wcur[w]
                 THEN faults + 1 ELSE faults
    /\ old' = old \cup {r}
    /\ UNCHANGED <<txVars, event, row, dVars, wVars, matched, posts>>

(* The portal's process dies and starts again: open transactions roll      *)
(* back, batches are gone.                                                 *)
Crash ==
    /\ faults < MaxFaults
    /\ faults' = faults + 1
    /\ tx' = [e \in Events |-> IF tx[e] = "open" THEN "aborted" ELSE tx[e]]
    /\ heldRows' = [e \in Events |-> {}]
    /\ heldEv' = [e \in Events |-> Keep]
    /\ wakes' = {}
    /\ dtodo' = [d \in Dispatchers |-> {}]
    /\ dcur' = [d \in Dispatchers |-> {}]
    /\ dsubs' = [d \in Dispatchers |-> {}]
    /\ host' = [d \in Dispatchers |-> NoTx]
    /\ wtodo' = [w \in Workers |-> {}]
    /\ wcur' = [w \in Workers |-> {}]
    /\ wpc' = [w \in Workers |-> "idle"]
    /\ wsays' = [w \in Workers |-> "none"]
    /\ UNCHANGED <<dbVars, matched, posts>>

-----------------------------------------------------------------------------
Request(e) == PublishPlain(e) \/ PublishKey(e) \/ Commit(e) \/ Rollback(e)

Dispatch(d) ==
    \/ \E h \in {NoTx} \cup wakes : DispatchClaim(d, h)
    \/ \E e \in Events : Match(d, e)
    \/ \E s \in Subscribers : Insert(d, s)

Work(w) ==
    \/ WorkerClaim(w) \/ Mark(w) \/ ReconcileRead(w) \/ ReconcileWrite(w)
    \/ \E r \in Rows : Post(w, r)

Fault ==
    \/ Crash
    \/ \E d \in Dispatchers : InsertFails(d)
    \/ \E w \in Workers : WorkerFails(w)
    \/ \E r \in Rows : Age(r)

Next ==
    \/ \E e \in Events : Request(e)
    \/ \E d \in Dispatchers : Dispatch(d)
    \/ \E w \in Workers : Work(w)
    \/ Fault

Spec == Init /\ [][Next]_vars

-----------------------------------------------------------------------------
(* Properties.                                                              *)

EventStatus == {"none", "PENDING", "DISPATCHED", "ALL_DELIVERED", "FAILED"}
RowStatus   == {"none", "PENDING", "IN_FLIGHT", "DELIVERED", "FAILED"}

(* Every variable holds a value of its type.                               *)
TypeOK ==
    /\ tx \in [Events -> {"idle", "open", "committed", "aborted"}]
    /\ heldRows \in [Events -> SUBSET Rows]
    /\ heldEv \in [Events -> [Events -> EventStatus]]
    /\ event \in [Events -> EventStatus]
    /\ row \in [Rows -> RowStatus]
    /\ old \subseteq {r \in Rows : row[r] = "IN_FLIGHT"}
    /\ wakes \subseteq Events
    /\ dtodo \in [Dispatchers -> SUBSET Events]
    /\ dcur \in [Dispatchers -> SUBSET Events]
    /\ dsubs \in [Dispatchers -> SUBSET Subscribers]
    /\ host \in [Dispatchers -> Events \cup {NoTx}]
    /\ wtodo \in [Workers -> SUBSET Rows]
    /\ wcur \in [Workers -> SUBSET Rows]
    /\ wpc \in [Workers -> {"idle", "post", "mark", "read", "write"}]
    /\ wsays \in [Workers -> EventStatus \cup RowStatus]
    /\ matched \in [Events -> SUBSET Subscribers]
    /\ posts \in [Rows -> Nat]
    /\ faults \in Nat

(* A delivery row is posted at most once ("Single attempt - no retry       *)
(* scheduling"), whatever batches overlap, however slow a worker is and    *)
(* whether or not the process died on the way.                             *)
AtMostOnce == \A r \in Rows : posts[r] <= 1

(* An event with secret fields that is ALL_DELIVERED has been delivered to *)
(* every subscriber it was sealed for, through crashes, failed statements  *)
(* and late answers.                                                       *)
KeyDelivered ==
    \A e \in KeyEvents : event[e] = "ALL_DELIVERED" =>
        \A s \in matched[e] : row[<<e, s, 1>>] = "DELIVERED"

(* Nothing is under way and no timer would find anything to do.            *)
Quiet ==
    /\ \A e \in Events : tx[e] # "open" /\ event[e] # "PENDING"
    /\ \A r \in Rows : row[r] \notin {"PENDING", "IN_FLIGHT"}
    /\ \A d \in Dispatchers : DispatcherIdle(d)
    /\ \A w \in Workers : wpc[w] = "idle"

(* The event has come to an end, and every subscriber it was matched with  *)
(* has exactly one delivery row.                                           *)
Finished(e) ==
    /\ event[e] # "DISPATCHED"
    /\ {r \in RowsOf(e) : row[r] # "none"} = {<<e, s, 1>> : s \in matched[e]}

(* Without failures and when no request rolls back, once all is quiet      *)
(* every published event has come to an end and every subscriber it was    *)
(* matched with has exactly one delivery row, whatever batches overlap and *)
(* whichever transaction their statements fall into.                       *)
Settled ==
    Quiet /\ faults = 0 /\ (\A e \in Events : tx[e] # "aborted")
        => \A e \in Events : event[e] # "none" => Finished(e)

(* What "so nothing else can touch the connection until the transaction    *)
(* finishes" promises: the rollback of one request undoes nothing of the   *)
(* events of others.                                                       *)
RollbackIsOwn ==
    Quiet /\ faults = 0
        => \A e \in Events : event[e] # "none" => Finished(e)
=============================================================================
