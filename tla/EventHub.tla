------------------------------ MODULE EventHub ------------------------------
(***************************************************************************)
(* The SQL-backed event hub of src/common/eventhub: replicas that share an *)
(* `events` table and a `gateway_states` table, publishers that append to  *)
(* the tables, and one polling goroutine per replica that turns new rows   *)
(* into sends on the buffered channels of the replica's subscribers.       *)
(*                                                                         *)
(* Data is reduced to what the protocol tells apart.  A gateway id is a    *)
(* positive number (the page query orders by it, and 0 is the empty        *)
(* cursor); an event is its primary key and its processed_timestamp; a     *)
(* version id is a number, 0 being the empty string a row is born with.    *)
(* `stamp` produces the fresh UUIDs of Publish.  lastPolled = 0 means that *)
(* the replica never stored a poll time.                                   *)
(***************************************************************************)
EXTENDS Naturals, Sequences, FiniteSets

CONSTANTS Replicas,      \* processes that run a SQLBackend on the database
          Gateways,      \* gateway ids, ordered as the page query orders them
          Channels,      \* channel identities Subscribe may allocate
          EventIds,      \* event ids publishers may use
          Cap,           \* capacity of a subscriber channel (100 in the code)
          PageSize,      \* GatewayStatePageSize
          Skew,          \* initialPollSkewWindow
          Retention,     \* RetentionPeriod
          MaxTime,       \* bound: the clock stops here
          MaxPublishes,  \* bound: transactions that may commit
          SerialWriters, \* TRUE: one write transaction at a time (SQLite)
          Ties           \* TRUE: two events may carry one timestamp

ASSUME HubAssumption ==
    /\ Gateways \subseteq Nat \ {0}
    /\ IsFiniteSet(Gateways)
    /\ {Cap, PageSize} \subseteq Nat \ {0}
    /\ {Skew, Retention, MaxTime, MaxPublishes} \subseteq Nat
    /\ {SerialWriters, Ties} \subseteq BOOLEAN

VARIABLES
    now,         \* the wall clock
    rows,        \* gateways that have a gateway_states row
    version,     \* gateway_states.version_id
    stamp,       \* last fresh version handed out
    events,      \* committed rows of the events table
    txs,         \* publish transactions whose event insert has run
    status,      \* per replica: "up", "closing" and "clearing" (the two
                 \* halves of Close) or "down"
    registered,  \* per replica: gateways in the registry
    subs,        \* per replica and gateway: subscriber channels
    known,       \* per replica and gateway: knownVersion
    lastPolled,  \* per replica and gateway: lastPolled
    toClose,     \* per replica: gateways Close has still to clear
    chan,        \* per channel: "unused", "open", "removed" or "closed"
    buf,         \* per channel: its buffer
    pc,          \* per replica: where its polling goroutine is
    snap,        \*   gatewayByID, the registry when the pass began
    page,        \*   rows of the current page still to poll
    more,        \*   whether that page was full
    cursor,      \*   last gateway id of that page
    cur,         \*   the gateway being polled
    ver,         \*   the version read with its row
    bound,       \*   lastPolled, then where the event query started
    batch,       \*   events still to deliver
    last,        \*   latestDeliveredTimestamp, 0 when nothing was delivered
    blocked,     \*   deliveryBlocked
    offered,     \* history: events sent to at least one channel
    missed,      \* history: events delivered while no channel was left
    floor        \* history: where the first fetch of a cursor began

dbVars   == <<rows, version, stamp, events, txs>>
regVars  == <<registered, subs, known, lastPolled>>
chanVars == <<chan, buf>>
walkVars == <<snap, page, more, cursor>>
workVars == <<cur, ver, bound, batch, last, blocked>>
passVars == <<pc, walkVars, workVars>>
history  == <<offered, missed, floor>>
vars == <<now, dbVars, status, regVars, toClose, chanVars, passVars, history>>

Event == [gw : Gateways, id : EventIds, ts : Nat]
Tx    == [rep : Replicas, ev : Event]

EventsOf(g) == {e \in events : e.gw = g}

Init ==
    /\ now = Skew + 1
    /\ rows = {}
    /\ version = [g \in Gateways |-> 0]
    /\ stamp = 0
    /\ events = {}
    /\ txs = {}
    /\ status = [r \in Replicas |-> "up"]
    /\ registered = [r \in Replicas |-> {}]
    /\ subs = [r \in Replicas |-> [g \in Gateways |-> {}]]
    /\ known = [r \in Replicas |-> [g \in Gateways |-> 0]]
    /\ lastPolled = [r \in Replicas |-> [g \in Gateways |-> 0]]
    /\ toClose = [r \in Replicas |-> {}]
    /\ chan = [c \in Channels |-> "unused"]
    /\ buf = [c \in Channels |-> <<>>]
    /\ pc = [r \in Replicas |-> "idle"]
    /\ snap = [r \in Replicas |-> {}]
    /\ page = [r \in Replicas |-> {}]
    /\ more = [r \in Replicas |-> FALSE]
    /\ cursor = [r \in Replicas |-> 0]
    /\ cur = [r \in Replicas |-> 0]
    /\ ver = [r \in Replicas |-> 0]
    /\ bound = [r \in Replicas |-> 0]
    /\ batch = [r \in Replicas |-> {}]
    /\ last = [r \in Replicas |-> 0]
    /\ blocked = [r \in Replicas |-> FALSE]
    /\ offered = [r \in Replicas |-> {}]
    /\ missed = [r \in Replicas |-> {}]
    /\ floor = [r \in Replicas |-> [g \in Gateways |-> 0]]

-----------------------------------------------------------------------------
(* The registry's RWMutex.  The delivery loop of a pass holds the read lock *)
(* across its channel sends, so every registry write waits for it.          *)

CanWrite(r) == status[r] # "down" /\ pc[r] # "deliver"

(* A write to the tables waits for the open transaction where the database *)
(* admits one writer.                                                      *)
WriterFree == SerialWriters => txs = {}

(* ensureGatewayInsertSQL inserts a gateway_states row unless it exists:   *)
(* where it does not, the insert waits for the transaction that is about   *)
(* to create it, whatever the database.                                    *)
RowFree(g) == g \in rows \/ \A t \in txs : t.ev.gw # g

(* RegisterGateway: insert the row unless it exists, then the registry     *)
(* entry unless it exists.                                                 *)
RegisterGateway(r, g) ==
    /\ CanWrite(r)
    /\ g \notin registered[r] \/ g \notin rows
    /\ WriterFree /\ RowFree(g)
    /\ rows' = rows \cup {g}
    /\ registered' = [registered EXCEPT ![r] = @ \cup {g}]
    /\ UNCHANGED <<now, version, stamp, events, txs, status, subs, known,
                   lastPolled, toClose, chanVars, passVars, history>>

Subscribe(r, g, c) ==
    /\ CanWrite(r)
    /\ g \in registered[r]
    /\ chan[c] = "unused"
    /\ chan' = [chan EXCEPT ![c] = "open"]
    /\ subs' = [subs EXCEPT ![r][g] = @ \cup {c}]
    /\ UNCHANGED <<now, dbVars, status, registered, known, lastPolled,
                   toClose, buf, passVars, history>>

(* removeSubscriber: the first half of Unsubscribe, under the write lock.  *)
(* Losing the last subscriber resets knownVersion and keeps lastPolled.    *)
RemoveSubscriber(r, g, c) ==
    /\ CanWrite(r)
    /\ c \in subs[r][g]
    /\ subs' = [subs EXCEPT ![r][g] = @ \ {c}]
    /\ known' = [known EXCEPT ![r][g] = IF subs'[r][g] = {} THEN 0 ELSE @]
    /\ chan' = [chan EXCEPT ![c] = "removed"]
    /\ UNCHANGED <<now, dbVars, status, registered, lastPolled, toClose,
                   buf, passVars, history>>

(* removeAllSubscribers: the first half of UnsubscribeAll.                 *)
RemoveAllSubscribers(r, g) ==
    /\ CanWrite(r)
    /\ g \in registered[r]
    /\ subs' = [subs EXCEPT ![r][g] = {}]
    /\ known' = [known EXCEPT ![r][g] = 0]
    /\ chan' = [c \in Channels |->
                  IF c \in subs[r][g] THEN "removed" ELSE chan[c]]
    /\ UNCHANGED <<now, dbVars, status, registered, lastPolled, toClose,
                   buf, passVars, history>>

(* close(ch), the second half of Unsubscribe and UnsubscribeAll: no lock.  *)
CloseChannel(c) ==
    /\ chan[c] = "removed"
    /\ chan' = [chan EXCEPT ![c] = "closed"]
    /\ UNCHANGED <<now, dbVars, status, regVars, toClose, buf, passVars, history>>

(* A consumer takes the next event off its channel; a closed channel still *)
(* yields what it buffered.                                                *)
Receive(c) ==
    /\ buf[c] # <<>>
    /\ buf' = [buf EXCEPT ![c] = Tail(@)]
    /\ UNCHANGED <<now, dbVars, status, regVars, toClose, chan, passVars, history>>

-----------------------------------------------------------------------------
(* Publish, in the steps other transactions can observe.                    *)

InFlight(g, id) == \E t \in txs : t.ev.gw = g /\ t.ev.id = id
Stored(g, id)   == \E e \in events : e.gw = g /\ e.id = id

(* BeginTx, ensureGateway and the event insert with its time.Now().  With  *)
(* a single writer they wait for the transaction before them; without one  *)
(* they wait, before the time is taken, only for a transaction that        *)
(* creates the gateway's row, and for one that inserts the same key.  A    *)
(* key that is already stored fails the insert, eventExists finds it, and  *)
(* the call leaves everything as it was: a stuttering step.                *)
PublishInsert(r, g, id) ==
    /\ status[r] = "up"
    /\ stamp + Cardinality(txs) < MaxPublishes
    /\ WriterFree /\ RowFree(g)
    /\ ~InFlight(g, id) /\ ~Stored(g, id)
    /\ Ties \/ \A e \in events \cup {t.ev : t \in txs} : e.ts # now
    /\ txs' = txs \cup {[rep |-> r, ev |-> [gw |-> g, id |-> id, ts |-> now]]}
    /\ UNCHANGED <<now, rows, version, stamp, events, status, regVars,
                   toClose, chanVars, passVars, history>>

(* The version update and the commit make the row, the event and the fresh *)
(* version visible at once.                                                *)
PublishCommit(t) ==
    /\ t \in txs
    /\ status[t.rep] = "up"
    /\ txs' = txs \ {t}
    /\ rows' = rows \cup {t.ev.gw}
    /\ events' = events \cup {t.ev}
    /\ stamp' = stamp + 1
    /\ version' = [version EXCEPT ![t.ev.gw] = stamp + 1]
    /\ UNCHANGED <<now, status, regVars, toClose, chanVars, passVars, history>>

(* The version update or the commit fails, or the backend's context is     *)
(* cancelled or its process is gone: the transaction is rolled back.       *)
PublishRollback(t) ==
    /\ t \in txs
    /\ txs' = txs \ {t}
    /\ UNCHANGED <<now, rows, version, stamp, events, status, regVars,
                   toClose, chanVars, passVars, history>>

(* Cleanup, run by every replica's cleanupLoop.                            *)
Cleanup(r) ==
    /\ status[r] = "up"
    /\ WriterFree
    /\ \E e \in events : e.ts + Retention < now
    /\ events' = {e \in events : e.ts + Retention >= now}
    /\ UNCHANGED <<now, rows, version, stamp, txs, status, regVars, toClose,
                   chanVars, passVars, history>>

-----------------------------------------------------------------------------
(* The polling goroutine.                                                   *)

(* A tick: pollGateways snapshots the registry.                            *)
PollStart(r) ==
    /\ status[r] = "up"
    /\ pc[r] = "idle"
    /\ registered[r] # {}
    /\ pc' = [pc EXCEPT ![r] = "page"]
    /\ snap' = [snap EXCEPT ![r] = registered[r]]
    /\ UNCHANGED <<now, dbVars, status, regVars, toClose, chanVars,
                   page, more, cursor, workVars, history>>

(* The locals of one poll of one gateway go out of scope.                  *)
DropWork(r) ==
    /\ cur' = [cur EXCEPT ![r] = 0]
    /\ ver' = [ver EXCEPT ![r] = 0]
    /\ bound' = [bound EXCEPT ![r] = 0]
    /\ batch' = [batch EXCEPT ![r] = {}]
    /\ last' = [last EXCEPT ![r] = 0]
    /\ blocked' = [blocked EXCEPT ![r] = FALSE]

(* pollGateways returns.                                                   *)
EndPass(r) ==
    /\ pc' = [pc EXCEPT ![r] = "idle"]
    /\ snap' = [snap EXCEPT ![r] = {}]
    /\ page' = [page EXCEPT ![r] = {}]
    /\ more' = [more EXCEPT ![r] = FALSE]
    /\ cursor' = [cursor EXCEPT ![r] = 0]
    /\ DropWork(r)

(* The pass once the rows `rest` of its page are left: the next row, the   *)
(* next page after a full one, or the end.                                 *)
Continue(r, rest) ==
    \/ /\ rest = {} /\ ~more[r]
       /\ EndPass(r)
    \/ /\ rest # {} \/ more[r]
       /\ pc' = [pc EXCEPT ![r] = IF rest = {} THEN "page" ELSE "gateway"]
       /\ page' = [page EXCEPT ![r] = rest]
       /\ DropWork(r)
       /\ UNCHANGED <<snap, more, cursor>>

(* The gateway_states rows behind a cursor.                                *)
After(k) == {g \in rows : g > k}

(* Mutant: the page query skips the row next to the cursor.                *)
PageGatewaysSkipsOne(k) ==
    {g \in After(k + 1) : Cardinality({h \in After(k + 1) : h < g}) < PageSize}

(* The first PageSize rows behind the cursor, in the order of their ids.   *)
PageGateways(k) ==
    {g \in After(k) : Cardinality({h \in After(k) : h < g}) < PageSize}

(* getGatewayStatesPage: an empty page ends the pass; otherwise the page   *)
(* holds each gateway with the version read with it.                       *)
PollPage(r) ==
    LET gs == PageGateways(cursor[r]) IN
    /\ status[r] # "down"
    /\ pc[r] = "page"
    /\ \/ gs = {} /\ EndPass(r)
       \/ /\ pc' = [pc EXCEPT ![r] = "gateway"]
          /\ page' = [page EXCEPT ![r] = {<<g, version[g]>> : g \in gs}]
          /\ more' = [more EXCEPT ![r] = (Cardinality(gs) = PageSize)]
          /\ \E g \in gs : /\ \A h \in gs : h <= g
                           /\ cursor' = [cursor EXCEPT ![r] = g]
          /\ UNCHANGED <<snap, workVars>>
    /\ UNCHANGED <<now, dbVars, status, regVars, toClose, chanVars, history>>

(* The page query fails: the pass is abandoned until the next tick.        *)
PollPageError(r) ==
    /\ status[r] # "down"
    /\ pc[r] = "page"
    /\ EndPass(r)
    /\ UNCHANGED <<now, dbVars, status, regVars, toClose, chanVars, history>>

(* pollGatewayWithState reads the registry under the read lock, and        *)
(* returns early for a gateway that is not in the snapshot, has no         *)
(* subscriber, or whose version is empty or already known.                 *)
NeedsFetch(r, g, v) ==
    /\ g \in snap[r]
    /\ subs[r][g] # {}
    /\ v # known[r][g] /\ v # 0

(* The next gateway of the page, in the order of the ids.                  *)
PollGateway(r) ==
    /\ status[r] # "down"
    /\ pc[r] = "gateway"
    /\ \E row \in page[r] :
         LET g == row[1]
             v == row[2]
             rest == page[r] \ {row}
         IN
         /\ \A q \in page[r] : g <= q[1]
         /\ \/ /\ NeedsFetch(r, g, v)
               /\ pc' = [pc EXCEPT ![r] = "fetch"]
               /\ page' = [page EXCEPT ![r] = rest]
               /\ cur' = [cur EXCEPT ![r] = g]
               /\ ver' = [ver EXCEPT ![r] = v]
               /\ bound' = [bound EXCEPT ![r] = lastPolled[r][g]]
               /\ UNCHANGED <<snap, more, cursor, batch, last, blocked>>
            \/ ~NeedsFetch(r, g, v) /\ Continue(r, rest)
    /\ UNCHANGED <<now, dbVars, status, regVars, toClose, chanVars, history>>

(* Mutant: every event at the boundary is taken for a replay.              *)
TrimWholeBoundary(evs, b, resuming) ==
    IF resuming THEN {e \in evs : e.ts # b} ELSE evs

(* trimSingleBoundaryReplay: a lone event at the boundary is the one that  *)
(* was delivered last; two or more are all kept.                           *)
TrimSingleBoundaryReplay(evs, b, resuming) ==
    LET atBound == {e \in evs : e.ts = b} IN
    IF resuming /\ \E e \in evs : atBound = {e} THEN evs \ atBound ELSE evs

(* Mutant: the skew window is subtracted from an unset lastPolled.         *)
FetchFromUnderflow(r) == IF bound[r] > 0 THEN bound[r] ELSE bound[r] - Skew

(* lastPolledTime: the query starts at lastPolled, or a skew window ago    *)
(* when nothing was ever polled.                                           *)
FetchFrom(r) == IF bound[r] > 0 THEN bound[r] ELSE now - Skew

(* The event query, and then the read lock of the delivery loop.  The      *)
(* query reads only the tables and the lock guards only the registry, so   *)
(* taking the two together loses no interleaving.                          *)
PollFetch(r) ==
    LET g == cur[r]
        from == FetchFrom(r)
        evs == {e \in EventsOf(g) : e.ts >= from}
    IN
    /\ status[r] # "down"
    /\ pc[r] = "fetch"
    /\ pc' = [pc EXCEPT ![r] = "deliver"]
    /\ bound' = [bound EXCEPT ![r] = from]
    /\ batch' = [batch EXCEPT ![r] =
                   TrimSingleBoundaryReplay(evs, from, bound[r] > 0)]
    /\ floor' = [floor EXCEPT ![r][g] = IF bound[r] > 0 THEN @ ELSE from]
    /\ UNCHANGED <<now, dbVars, status, regVars, toClose, chanVars, walkVars,
                   cur, ver, last, blocked, offered, missed>>

(* The event query or a row scan fails: on to the next gateway.            *)
PollFetchError(r) ==
    /\ status[r] # "down"
    /\ pc[r] = "fetch"
    /\ Continue(r, page[r])
    /\ UNCHANGED <<now, dbVars, status, regVars, toClose, chanVars, history>>

(* Mutant: room in one subscriber's channel is taken for room in all.      *)
SomeChannelAvailable(r, g) ==
    subs[r][g] = {} \/ \E c \in subs[r][g] : Len(buf[c]) # Cap

SubscriberChannelsAvailable(r, g) ==
    \A c \in subs[r][g] : Len(buf[c]) # Cap

(* Mutant: the event query has no ORDER BY.                                *)
NextInAnyOrder(evs, e) == e \in evs

(* The query orders by timestamp, in any order among equal ones.           *)
NextInOrder(evs, e) == e \in evs /\ \A f \in evs : e.ts <= f.ts

(* One round of the delivery loop: the next event goes to every subscriber. *)
PollDeliver(r) ==
    LET cs == subs[r][cur[r]] IN
    /\ status[r] # "down"
    /\ pc[r] = "deliver"
    /\ SubscriberChannelsAvailable(r, cur[r])
    /\ \E e \in batch[r] :
         /\ NextInOrder(batch[r], e)
         /\ buf' = [c \in Channels |->
                      IF c \in cs THEN Append(buf[c], e) ELSE buf[c]]
         /\ batch' = [batch EXCEPT ![r] = @ \ {e}]
         /\ last' = [last EXCEPT ![r] = e.ts]
         /\ offered' = [offered EXCEPT ![r] =
                          IF cs = {} THEN @ ELSE @ \cup {e}]
         /\ missed' = [missed EXCEPT ![r] =
                         IF cs = {} THEN @ \cup {e} ELSE @]
    /\ UNCHANGED <<now, dbVars, status, regVars, toClose, chan, pc, walkVars,
                   cur, ver, bound, blocked, floor>>

(* The loop ends, exhausted or at a full channel, and drops the read lock. *)
PollEndDelivery(r) ==
    /\ status[r] # "down"
    /\ pc[r] = "deliver"
    /\ batch[r] = {} \/ ~SubscriberChannelsAvailable(r, cur[r])
    /\ pc' = [pc EXCEPT ![r] = "update"]
    /\ blocked' = [blocked EXCEPT ![r] = (batch[r] # {})]
    /\ batch' = [batch EXCEPT ![r] = {}]
    /\ UNCHANGED <<now, dbVars, status, regVars, toClose, chanVars, walkVars,
                   cur, ver, bound, last, history>>

(* Mutants of the cursor: the clock is stored instead of the timestamp     *)
(* delivered last; the cursor is forgotten when nothing was delivered.     *)
NewLastPolledClock(r, old) == now
NewLastPolledForgets(r, old) == last[r]

(* The new lastPolled: the timestamp delivered last; if delivery was       *)
(* blocked before the first event, where the query started.                *)
NewLastPolled(r, old) ==
    IF last[r] > 0 THEN last[r] ELSE IF blocked[r] THEN bound[r] ELSE old

(* Mutant: the version is taken over although delivery was blocked.        *)
NewKnownIgnoresBlocked(r, old) == ver[r]

(* The new knownVersion: a blocked delivery keeps the old one so that the  *)
(* next pass fetches again.                                                *)
NewKnown(r, old) == IF blocked[r] THEN old ELSE ver[r]

(* The cursor update, under the write lock.                                *)
PollUpdate(r) ==
    LET g == cur[r] IN
    /\ status[r] # "down"
    /\ pc[r] = "update"
    /\ known' = [known EXCEPT ![r][g] = NewKnown(r, @)]
    /\ lastPolled' = [lastPolled EXCEPT ![r][g] = NewLastPolled(r, @)]
    /\ Continue(r, page[r])
    /\ UNCHANGED <<now, dbVars, status, registered, subs, toClose, chanVars,
                   history>>

-----------------------------------------------------------------------------
(* Life and death of a replica.                                             *)

(* Close cancels the context: no transaction begins or commits and no tick *)
(* is taken any more, but a pass under way runs to its end.                *)
CloseBegin(r) ==
    /\ status[r] = "up"
    /\ status' = [status EXCEPT ![r] = "closing"]
    /\ UNCHANGED <<now, dbVars, regVars, toClose, chanVars, passVars, history>>

(* wg.Wait returns once the pass is over, and getAll lists the gateways.   *)
CloseCollect(r) ==
    /\ status[r] = "closing"
    /\ pc[r] = "idle"
    /\ status' = [status EXCEPT ![r] = "clearing"]
    /\ toClose' = [toClose EXCEPT ![r] = registered[r]]
    /\ UNCHANGED <<now, dbVars, regVars, chanVars, passVars, history>>

(* Mutant: Close forgets to clear the list it closed.                      *)
CloseGatewayKeepsList(r, g) ==
    /\ status[r] = "clearing"
    /\ g \in toClose[r]
    /\ toClose' = [toClose EXCEPT ![r] = @ \ {g}]
    /\ chan' = [c \in Channels |->
                  IF c \in subs[r][g] THEN "closed" ELSE chan[c]]
    /\ UNCHANGED <<now, dbVars, status, regVars, buf, passVars, history>>

(* Gateway by gateway, under the write lock, Close closes and forgets the  *)
(* channels.                                                               *)
CloseGateway(r, g) ==
    /\ status[r] = "clearing"
    /\ g \in toClose[r]
    /\ toClose' = [toClose EXCEPT ![r] = @ \ {g}]
    /\ chan' = [c \in Channels |->
                  IF c \in subs[r][g] THEN "closed" ELSE chan[c]]
    /\ subs' = [subs EXCEPT ![r][g] = {}]
    /\ UNCHANGED <<now, dbVars, status, registered, known, lastPolled, buf,
                   passVars, history>>

ChannelsOf(r) == UNION {subs[r][g] : g \in Gateways}

(* The operating system ends the process, at its exit after Close or by a  *)
(* crash at any point: registry, channels and the goroutine's locals are   *)
(* gone, and the database rolls back what the process had in flight.       *)
Exit(r) ==
    /\ status[r] # "down"
    /\ status' = [status EXCEPT ![r] = "down"]
    /\ registered' = [registered EXCEPT ![r] = {}]
    /\ chan' = [c \in Channels |->
                  IF c \in ChannelsOf(r) THEN "closed" ELSE chan[c]]
    /\ buf' = [c \in Channels |->
                 IF c \in ChannelsOf(r) THEN <<>> ELSE buf[c]]
    /\ subs' = [subs EXCEPT ![r] = [g \in Gateways |-> {}]]
    /\ known' = [known EXCEPT ![r] = [g \in Gateways |-> 0]]
    /\ lastPolled' = [lastPolled EXCEPT ![r] = [g \in Gateways |-> 0]]
    /\ toClose' = [toClose EXCEPT ![r] = {}]
    /\ EndPass(r)
    /\ offered' = [offered EXCEPT ![r] = {}]
    /\ missed' = [missed EXCEPT ![r] = {}]
    /\ floor' = [floor EXCEPT ![r] = [g \in Gateways |-> 0]]
    /\ txs' = {t \in txs : t.rep # r}
    /\ UNCHANGED <<now, rows, version, stamp, events>>

(* A new process: NewSQLBackend and Initialize.                            *)
Initialize(r) ==
    /\ status[r] = "down"
    /\ status' = [status EXCEPT ![r] = "up"]
    /\ UNCHANGED <<now, dbVars, regVars, toClose, chanVars, passVars, history>>

Tick ==
    /\ now < MaxTime
    /\ now' = now + 1
    /\ UNCHANGED <<dbVars, status, regVars, toClose, chanVars, passVars, history>>

-----------------------------------------------------------------------------
PollStep(r) ==
    \/ PollStart(r)   \/ PollPage(r)    \/ PollGateway(r) \/ PollFetch(r)
    \/ PollDeliver(r) \/ PollEndDelivery(r) \/ PollUpdate(r)

PollError(r) == PollPageError(r) \/ PollFetchError(r)

RegistryStep(r) ==
    \E g \in Gateways :
        \/ RegisterGateway(r, g)
        \/ RemoveAllSubscribers(r, g)
        \/ \E c \in Channels : Subscribe(r, g, c) \/ RemoveSubscriber(r, g, c)

PublishStep ==
    \/ \E r \in Replicas, g \in Gateways, id \in EventIds :
          PublishInsert(r, g, id)
    \/ \E t \in txs : PublishCommit(t) \/ PublishRollback(t)

LifeStep(r) ==
    \/ CloseBegin(r) \/ CloseCollect(r) \/ Exit(r) \/ Initialize(r)
    \/ \E g \in Gateways : CloseGateway(r, g)

Next ==
    \/ Tick
    \/ PublishStep
    \/ \E c \in Channels : CloseChannel(c) \/ Receive(c)
    \/ \E r \in Replicas :
          PollStep(r) \/ PollError(r) \/ RegistryStep(r) \/ Cleanup(r)
            \/ LifeStep(r)

Spec == Init /\ [][Next]_vars

(* The scheduler runs the goroutines, tickers keep firing, and failures of *)
(* the database are transient: a query that is retried for ever succeeds   *)
(* in the end.  Consumers keep reading.                                    *)
Fairness ==
    /\ \A r \in Replicas :
         /\ WF_vars(PollStart(r))
         /\ WF_vars(PollGateway(r))
         /\ WF_vars(PollDeliver(r))
         /\ WF_vars(PollEndDelivery(r))
         /\ WF_vars(PollUpdate(r))
         /\ \A k \in Gateways \cup {0} :
              SF_vars(cursor[r] = k /\ PollPage(r))
         /\ \A g \in Gateways : SF_vars(cur[r] = g /\ PollFetch(r))
    /\ \A c \in Channels : WF_vars(Receive(c))

FairSpec == Spec /\ Fairness

-----------------------------------------------------------------------------
(* Properties.                                                              *)

PassTypeOK ==
    /\ pc \in [Replicas -> {"idle", "page", "gateway", "fetch", "deliver",
                            "update"}]
    /\ snap \in [Replicas -> SUBSET Gateways]
    /\ page \in [Replicas -> SUBSET (Gateways \X Nat)]
    /\ more \in [Replicas -> BOOLEAN]
    /\ cursor \in [Replicas -> Gateways \cup {0}]
    /\ cur \in [Replicas -> Gateways \cup {0}]
    /\ \A r \in Replicas :
         pc[r] \in {"fetch", "deliver", "update"} => cur[r] \in Gateways
    /\ ver \in [Replicas -> Nat]
    /\ bound \in [Replicas -> Nat]
    /\ batch \in [Replicas -> SUBSET Event]
    /\ last \in [Replicas -> Nat]
    /\ blocked \in [Replicas -> BOOLEAN]

(* Every variable holds a value of its type, and the clock is past the     *)
(* first skew window so that no time of the model is negative.             *)
TypeOK ==
    /\ now \in Nat /\ now > Skew
    /\ rows \in SUBSET Gateways
    /\ version \in [Gateways -> Nat]
    /\ stamp \in Nat
    /\ events \in SUBSET Event
    /\ txs \in SUBSET Tx
    /\ status \in [Replicas -> {"up", "closing", "clearing", "down"}]
    /\ registered \in [Replicas -> SUBSET Gateways]
    /\ subs \in [Replicas -> [Gateways -> SUBSET Channels]]
    /\ known \in [Replicas -> [Gateways -> Nat]]
    /\ lastPolled \in [Replicas -> [Gateways -> Nat]]
    /\ toClose \in [Replicas -> SUBSET Gateways]
    /\ chan \in [Channels -> {"unused", "open", "removed", "closed"}]
    /\ buf \in [Channels -> Seq(Event)]
    /\ PassTypeOK
    /\ offered \in [Replicas -> SUBSET Event]
    /\ missed \in [Replicas -> SUBSET Event]
    /\ floor \in [Replicas -> [Gateways -> Nat]]

(* A channel the registry still lists is open, and is listed once in all   *)
(* replicas and gateways: the delivery loop never sends on a closed        *)
(* channel and no channel is closed twice, whatever the interleaving of    *)
(* Unsubscribe, UnsubscribeAll, Close and a pass.  Either would panic.     *)
SubscribersOpen ==
    \A r \in Replicas, g \in Gateways : \A c \in subs[r][g] :
        /\ chan[c] = "open"
        /\ \A s \in Replicas, h \in Gateways :
             c \in subs[s][h] => s = r /\ h = g

(* A send of the delivery loop finds room: it never blocks while it holds  *)
(* the registry's read lock, which would stop every registry write.        *)
BufferBounded == \A c \in Channels : Len(buf[c]) <= Cap

(* A channel carries events in the order of their timestamps, across       *)
(* passes, blocked deliveries and replays.                                 *)
ChannelOrdered ==
    \A c \in Channels : \A i, j \in 1..Len(buf[c]) :
        i < j => buf[c][i].ts <= buf[c][j].ts

(* What the replica has dealt with: sent, or delivered to an empty list of *)
(* subscribers when the last one left in the middle of a pass.             *)
Passed(r) == offered[r] \cup missed[r]

(* No event is overtaken by the cursor: whatever is still stored, in the   *)
(* window the cursor began with and older than the cursor, has been        *)
(* delivered.                                                              *)
CursorSound ==
    \A r \in Replicas, g \in Gateways : \A e \in EventsOf(g) :
        e.ts >= floor[r][g] /\ e.ts < lastPolled[r][g] => e \in Passed(r)

(* A replica that believes it knows the current version of a gateway has   *)
(* delivered every stored event of the cursor's window.                    *)
CaughtUpSound ==
    \A r \in Replicas, g \in Gateways :
        known[r][g] = version[g] /\ version[g] # 0
            => \A e \in EventsOf(g) : e.ts >= floor[r][g] => e \in Passed(r)

(* Within the life of a process the cursor of a gateway never moves back,  *)
(* so a blocked or a late pass cannot undo the progress of another.        *)
CursorMonotone ==
    [][\A r \in Replicas, g \in Gateways :
          lastPolled'[r][g] >= lastPolled[r][g] \/ status'[r] = "down"]_vars

(* A committed event reaches the channels of a gateway that keeps a        *)
(* subscriber on a running replica, unless it expires first or is older    *)
(* than the window of the first poll.                                      *)
EventuallyOffered ==
    \A r \in Replicas, g \in Gateways, id \in EventIds,
       t \in Skew + 1 .. MaxTime :
        LET e == [gw |-> g, id |-> id, ts |-> t] IN
        (e \in events /\ subs[r][g] # {}) ~>
            \/ e \in offered[r]
            \/ e \notin events
            \/ subs[r][g] = {} \/ status[r] # "up"
            \/ e.ts < floor[r][g]

(* The hub seen as a log: what a replica holds of a batch is what it has   *)
(* taken, and what it delivered is what it has passed on.                  *)
Log == INSTANCE EventLog WITH
         stored <- events,
         taken  <- batch,
         passed <- [r \in Replicas |-> Passed(r)],
         from   <- floor

(* The hub implements the log: through pages, blocked channels, errors,    *)
(* replays at the boundary and restarts of the cursor, every replica       *)
(* passes the stored events of a gateway on in the order of their          *)
(* timestamps and leaves none out.                                         *)
ImplementsLog == Log!LogSpec
=============================================================================
