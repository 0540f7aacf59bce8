------------------------- MODULE GatewayConnections -------------------------
(***************************************************************************)
(* The WebSocket connections of one gateway on one platform-api instance:  *)
(* the Connect handler and the heartbeat monitor of each connection        *)
(* (platform-api/internal/handler/websocket.go, websocket/manager.go), and *)
(* the event dispatcher that keeps an event hub subscription while the     *)
(* gateway is connected (service/event_dispatcher.go).                     *)
(*                                                                         *)
(* The registry's entry is a value in a sync.Map: Register and Unregister  *)
(* each load it, build a new list and store that, and nothing keeps others *)
(* out in between.  An entry that is missing and an empty one are the same *)
(* to every reader, and nothing depends on the order of a list: it is a    *)
(* set.  append works on a copy as long as a list has at most two elements *)
(* (capacities 1, 2, 4), so three connections share no memory.             *)
(***************************************************************************)
EXTENDS Naturals, Integers, FiniteSets

CONSTANTS Conns,          \* connection ids; a reconnect is another one
          MaxConnections, \* maxConnections of the manager
          MaxSubs,        \* bound: subscriptions the dispatcher may make
          MaxFaults       \* bound: calls that may fail

ASSUME ConnectionsAssumption ==
    /\ IsFiniteSet(Conns)
    /\ {MaxConnections, MaxSubs} \subseteq Nat \ {0}
    /\ MaxFaults \in Nat

Loops == 1..MaxSubs

(* The goroutines that call Unregister: the handler and the monitor of a   *)
(* connection, for that connection, and a dispatch loop for any.           *)
Actors == ({"handler", "monitor"} \X Conns) \cup ({"loop"} \X Loops)

VARIABLES
    count,     \* connectionCount
    list,      \* the gateway's entry in connections
    closed,    \* per connection: Connection.closed
    peer,      \* per connection: its gateway still answers
    active,    \* the gateway's is_active column
    down,      \* "no", "closing" (shutdownCtx is done) or "down"
    pc,        \* per connection: where its Connect handler is
    mon,       \* per connection: its heartbeat monitor
    sub,       \* the dispatcher's subscription, 0 when there is none
    subCount,  \* subscriptions made so far
    loop,      \* per subscription: its dispatch loop
    todo,      \* per subscription: connections deliver has still to serve
    at,        \* per actor: where its Unregister is
    victim,    \* per subscription: the connection its loop unregisters
    view,      \* per actor: the list it loaded
    faults,    \* calls that have failed
    lost       \* history: a store has undone an update of the list

connVars == <<closed, peer>>
handVars == <<pc, active>>
dispVars == <<sub, subCount, loop, todo>>
unVars   == <<at, victim, view>>
hist     == <<faults, lost>>
vars == <<count, list, connVars, handVars, down, mon, dispVars, unVars, hist>>

Init ==
    /\ count = 0
    /\ list = {}
    /\ closed = [c \in Conns |-> FALSE]
    /\ peer = [c \in Conns |-> TRUE]
    /\ active = FALSE
    /\ down = "no"
    /\ pc = [c \in Conns |-> "idle"]
    /\ mon = [c \in Conns |-> "off"]
    /\ sub = 0
    /\ subCount = 0
    /\ loop = [n \in Loops |-> "off"]
    /\ todo = [n \in Loops |-> {}]
    /\ at = [a \in Actors |-> "none"]
    /\ victim = [n \in Loops |-> {}]
    /\ view = [a \in Actors |-> {}]
    /\ faults = 0
    /\ lost = FALSE

-----------------------------------------------------------------------------
(* The registry's list.                                                     *)

(* The connection an Unregister of actor a removes, as a set.              *)
Victim(a) == IF a[1] = "loop" THEN victim[a[2]] ELSE {a[2]}

-----------------------------------------------------------------------------
(* Unregister(gatewayID, connectionID), called by actor a.                  *)

(* Mutant: a call that finds nothing counts down all the same.             *)
NotFoundCounts == "count"

(* Where a call goes that does not find its connection: it returns.        *)
NotFound == "none"

(* Load: a list without the connection ends the call.                      *)
UnregisterLoad(a) ==
    /\ at[a] = "load"
    /\ \/ /\ Victim(a) \subseteq list
          /\ at' = [at EXCEPT ![a] = "store"]
          /\ view' = [view EXCEPT ![a] = list]
       \/ /\ ~(Victim(a) \subseteq list)
          /\ at' = [at EXCEPT ![a] = NotFound]
          /\ view' = view
    /\ UNCHANGED <<count, list, connVars, handVars, down, mon, dispVars,
                   victim, hist>>

(* Store the filtered list, or delete the entry when it is empty.          *)
UnregisterStore(a) ==
    /\ at[a] = "store"
    /\ list' = view[a] \ Victim(a)
    /\ lost' = (lost \/ list # view[a])
    /\ at' = [at EXCEPT ![a] = "close"]
    /\ view' = [view EXCEPT ![a] = {}]
    /\ UNCHANGED <<count, connVars, handVars, down, mon, dispVars, victim,
                   faults>>

(* removed.Close, a no-op on a connection that is closed already.          *)
UnregisterClose(a) ==
    /\ at[a] = "close"
    /\ closed' = [c \in Conns |-> closed[c] \/ c \in Victim(a)]
    /\ at' = [at EXCEPT ![a] = "hook"]
    /\ UNCHANGED <<count, list, peer, handVars, down, mon, dispVars, victim,
                   view, hist>>

(* Mutant: the subscription goes with any connection.                      *)
DisconnectedAlways == 0

(* OnGatewayDisconnected, under d.mu: without a connection left in the     *)
(* list the subscription is ended.  The list is the only thing it reads    *)
(* that d.mu does not guard, so the call acts at that read.                *)
Disconnected == IF list = {} THEN 0 ELSE sub

UnregisterHook(a) ==
    /\ at[a] = "hook"
    /\ sub' = Disconnected
    /\ at' = [at EXCEPT ![a] = "count"]
    /\ UNCHANGED <<count, list, connVars, handVars, down, mon, subCount, loop,
                   todo, victim, view, hist>>

UnregisterCount(a) ==
    /\ at[a] = "count"
    /\ count' = count - 1
    /\ at' = [at EXCEPT ![a] = "none"]
    /\ UNCHANGED <<list, connVars, handVars, down, mon, dispVars, victim, view,
                   hist>>

-----------------------------------------------------------------------------
(* The Connect handler of connection c, Register included.                  *)

(* Register: the limit and the count, under the manager's lock.  A request *)
(* that is refused, here or by the rate limit, the token or the upgrade    *)
(* before it, leaves nothing behind, like one that never came.  Register   *)
(* knows nothing of Shutdown: a handler under way goes on through it.      *)
RegisterCount(c) ==
    /\ pc[c] = "idle"
    /\ count < MaxConnections
    /\ count' = count + 1
    /\ pc' = [pc EXCEPT ![c] = "load"]
    /\ UNCHANGED <<list, connVars, active, down, mon, dispVars, unVars,
                   hist>>

RegisterLoad(c) ==
    /\ pc[c] = "load"
    /\ view' = [view EXCEPT ![<<"handler", c>>] = list]
    /\ pc' = [pc EXCEPT ![c] = "store"]
    /\ UNCHANGED <<count, list, connVars, active, down, mon, dispVars,
                   at, victim, hist>>

(* Store the longer list and start the heartbeat monitor.                  *)
RegisterStore(c) ==
    /\ pc[c] = "store"
    /\ list' = view[<<"handler", c>>] \cup {c}
    /\ lost' = (lost \/ list # view[<<"handler", c>>])
    /\ view' = [view EXCEPT ![<<"handler", c>>] = {}]
    /\ mon' = [mon EXCEPT ![c] = "on"]
    /\ pc' = [pc EXCEPT ![c] = "hook"]
    /\ UNCHANGED <<count, connVars, active, down, dispVars, at, victim,
                   faults>>

(* OnGatewayConnected, under d.mu: the first connection subscribes and     *)
(* starts a dispatch loop, which returns at once after Shutdown.           *)
RegisterHook(c) ==
    /\ pc[c] = "hook"
    /\ pc' = [pc EXCEPT ![c] = "ack"]
    /\ \/ sub # 0 /\ UNCHANGED dispVars
       \/ /\ sub = 0 /\ subCount < MaxSubs
          /\ subCount' = subCount + 1
          /\ sub' = subCount + 1
          /\ loop' = [loop EXCEPT ![subCount + 1] = "wait"]
          /\ todo' = todo
    /\ UNCHANGED <<count, list, connVars, active, down, mon, unVars,
                   hist>>

(* RegisterGateway or Subscribe fails; Register ignores the error.         *)
RegisterHookFails(c) ==
    /\ pc[c] = "hook"
    /\ sub = 0
    /\ faults < MaxFaults
    /\ faults' = faults + 1
    /\ pc' = [pc EXCEPT ![c] = "ack"]
    /\ UNCHANGED <<count, list, connVars, active, down, mon, dispVars, unVars,
                   lost>>

(* The acknowledgement is sent (an error is only logged), the gateway is   *)
(* marked active, and the read loop begins.                                *)
MarkActive(c) ==
    /\ pc[c] = "ack"
    /\ active' = TRUE
    /\ pc' = [pc EXCEPT ![c] = "read"]
    /\ UNCHANGED <<count, list, connVars, down, mon, dispVars, unVars,
                   hist>>

(* The write of the is_active column fails, which is only logged.          *)
MarkFails(c) ==
    /\ pc[c] \in {"ack", "clear"}
    /\ faults < MaxFaults
    /\ faults' = faults + 1
    /\ pc' = [pc EXCEPT ![c] = IF @ = "ack" THEN "read" ELSE "done"]
    /\ UNCHANGED <<count, list, connVars, active, down, mon, dispVars, unVars,
                   lost>>

(* The read fails, because the connection was closed here or there: the    *)
(* handler unregisters the connection.                                     *)
ReadError(c) ==
    /\ pc[c] = "read"
    /\ closed[c] \/ ~peer[c]
    /\ pc' = [pc EXCEPT ![c] = "leave"]
    /\ at' = [at EXCEPT ![<<"handler", c>>] = "load"]
    /\ UNCHANGED <<count, list, connVars, active, down, mon, dispVars,
                   victim, view, hist>>

(* Mutant: the last handler leaves the flag alone when somebody else has   *)
(* unregistered its connection.                                            *)
GoneFromOwn(c) == list = {} /\ mon[c] = "on"

(* GetConnections finds no connection of the gateway.                      *)
Gone(c) == list = {}

CheckRemaining(c) ==
    /\ pc[c] = "leave"
    /\ at[<<"handler", c>>] = "none"
    /\ pc' = [pc EXCEPT ![c] = IF Gone(c) THEN "clear" ELSE "done"]
    /\ UNCHANGED <<count, list, connVars, active, down, mon, dispVars,
                   unVars, hist>>

MarkInactive(c) ==
    /\ pc[c] = "clear"
    /\ active' = FALSE
    /\ pc' = [pc EXCEPT ![c] = "done"]
    /\ UNCHANGED <<count, list, connVars, down, mon, dispVars, unVars,
                   hist>>

-----------------------------------------------------------------------------
(* The gateway's end of the connection stops answering.  Before it is       *)
(* listed and after it is closed nobody would notice.                       *)
PeerGone(c) ==
    /\ mon[c] # "off" /\ ~closed[c]
    /\ peer[c]
    /\ peer' = [peer EXCEPT ![c] = FALSE]
    /\ UNCHANGED <<count, list, closed, handVars, down, mon, dispVars, unVars,
                   hist>>

(* Mutant: the monitor closes a dead connection and leaves.                *)
MonitorTickCloses(c) ==
    /\ mon[c] = "on" /\ down = "no"
    /\ \/ /\ closed[c]
          /\ mon' = [mon EXCEPT ![c] = "exit"] /\ UNCHANGED <<at, closed>>
       \/ /\ ~closed[c] /\ ~peer[c]
          /\ closed' = [closed EXCEPT ![c] = TRUE]
          /\ mon' = [mon EXCEPT ![c] = "exit"] /\ at' = at
    /\ UNCHANGED <<count, list, peer, handVars, down, dispVars, victim,
                   view, hist>>

(* A heartbeat tick: the monitor of a closed connection ends; no pong in   *)
(* time or a failed ping unregisters the connection.                       *)
MonitorTick(c) ==
    /\ mon[c] = "on" /\ down = "no"
    /\ \/ /\ closed[c]
          /\ mon' = [mon EXCEPT ![c] = "exit"] /\ at' = at
       \/ /\ ~closed[c] /\ ~peer[c]
          /\ mon' = [mon EXCEPT ![c] = "unregister"]
          /\ at' = [at EXCEPT ![<<"monitor", c>>] = "load"]
    /\ UNCHANGED <<count, list, connVars, handVars, down, dispVars, victim,
                   view, hist>>

(* Unregister has returned, or shutdownCtx is done.                        *)
MonitorExit(c) ==
    /\ \/ mon[c] = "unregister" /\ at[<<"monitor", c>>] = "none"
       \/ mon[c] = "on" /\ down # "no"
    /\ mon' = [mon EXCEPT ![c] = "exit"]
    /\ UNCHANGED <<count, list, connVars, handVars, down, dispVars, unVars,
                   hist>>

-----------------------------------------------------------------------------
(* The dispatch loop of subscription n.                                     *)

(* An event off the channel: deliver lists the connections to serve.  A    *)
(* subscription that has ended may still hold buffered events, and select  *)
(* may prefer them to done.                                                *)
Deliver(n) ==
    /\ loop[n] = "wait"
    /\ list # {}
    /\ todo' = [todo EXCEPT ![n] = list]
    /\ loop' = [loop EXCEPT ![n] = "send"]
    /\ UNCHANGED <<count, list, connVars, handVars, down, mon, sub, subCount,
                   unVars, hist>>

(* conn.Send of the next connection.  It fails when the connection is      *)
(* closed, and may fail when the other end is gone; the connection is then *)
(* unregistered before the next one is served.                             *)
Send(n, c) ==
    /\ loop[n] = "send"
    /\ at[<<"loop", n>>] = "none"
    /\ c \in todo[n]
    /\ todo' = [todo EXCEPT ![n] = @ \ {c}]
    /\ \/ ~closed[c] /\ UNCHANGED <<at, victim>>
       \/ /\ closed[c] \/ ~peer[c]
          /\ at' = [at EXCEPT ![<<"loop", n>>] = "load"]
          /\ victim' = [victim EXCEPT ![n] = {c}]
    /\ UNCHANGED <<count, list, connVars, handVars, down, mon, sub, subCount,
                   loop, view, hist>>

Delivered(n) ==
    /\ loop[n] = "send"
    /\ at[<<"loop", n>>] = "none"
    /\ todo[n] = {}
    /\ loop' = [loop EXCEPT ![n] = "wait"]
    /\ victim' = [victim EXCEPT ![n] = {}]
    /\ UNCHANGED <<count, list, connVars, handVars, down, mon, sub, subCount,
                   todo, at, view, hist>>

(* done is closed, or the dispatcher's context is.                         *)
LoopExit(n) ==
    /\ loop[n] = "wait"
    /\ sub # n \/ down = "down"
    /\ loop' = [loop EXCEPT ![n] = "exit"]
    /\ UNCHANGED <<count, list, connVars, handVars, down, mon, sub, subCount,
                   todo, unVars, hist>>

-----------------------------------------------------------------------------
(* Server shutdown.                                                         *)

(* Manager.Shutdown cancels the monitors and closes what is listed.  A     *)
(* connection that a handler registers afterwards is not closed.           *)
ShutdownManager ==
    /\ down = "no"
    /\ down' = "closing"
    /\ closed' = [c \in Conns |-> closed[c] \/ c \in list]
    /\ UNCHANGED <<count, list, peer, handVars, mon, dispVars, unVars, hist>>

(* wg.Wait is over, and the dispatcher's Shutdown ends the subscription.   *)
ShutdownDispatcher ==
    /\ down = "closing"
    /\ \A c \in Conns : mon[c] \in {"off", "exit"}
    /\ down' = "down"
    /\ sub' = 0
    /\ UNCHANGED <<count, list, connVars, handVars, mon, subCount, loop, todo,
                   unVars, hist>>

-----------------------------------------------------------------------------
Unregister(a) ==
    \/ UnregisterLoad(a) \/ UnregisterStore(a) \/ UnregisterClose(a)
    \/ UnregisterHook(a) \/ UnregisterCount(a)

Connect(c) ==
    \/ RegisterCount(c) \/ RegisterLoad(c) \/ RegisterStore(c)
    \/ RegisterHook(c)  \/ RegisterHookFails(c)
    \/ MarkActive(c)    \/ ReadError(c)    \/ CheckRemaining(c)
    \/ MarkInactive(c)  \/ MarkFails(c)

Dispatch(n) ==
    Deliver(n) \/ Delivered(n) \/ LoopExit(n) \/ \E c \in Conns : Send(n, c)

Next ==
    \/ \E a \in Actors : Unregister(a)
    \/ \E c \in Conns :
          Connect(c) \/ PeerGone(c) \/ MonitorTick(c) \/ MonitorExit(c)
    \/ \E n \in Loops : Dispatch(n)
    \/ ShutdownManager \/ ShutdownDispatcher

Spec == Init /\ [][Next]_vars

-----------------------------------------------------------------------------
(* Properties.                                                              *)

(* Every variable holds a value of its type.                               *)
TypeOK ==
    /\ count \in Int /\ (count >= 0 \/ lost)
    /\ list \in SUBSET Conns
    /\ closed \in [Conns -> BOOLEAN]
    /\ peer \in [Conns -> BOOLEAN]
    /\ active \in BOOLEAN
    /\ down \in {"no", "closing", "down"}
    /\ pc \in [Conns -> {"idle", "load", "store", "hook", "ack", "read",
                         "leave", "clear", "done"}]
    /\ mon \in [Conns -> {"off", "on", "unregister", "exit"}]
    /\ sub \in 0..MaxSubs
    /\ subCount \in 0..MaxSubs
    /\ loop \in [Loops -> {"off", "wait", "send", "exit"}]
    /\ todo \in [Loops -> SUBSET Conns]
    /\ at \in [Actors -> {"none", "load", "store", "close", "hook", "count"}]
    /\ victim \in [Loops -> SUBSET Conns]
    /\ view \in [Actors -> SUBSET Conns]
    /\ faults \in 0..MaxFaults
    /\ lost \in BOOLEAN

(* Connections that were counted and are not listed yet, and those that    *)
(* are not listed any more and still counted.                              *)
Arriving  == {c \in Conns : pc[c] \in {"load", "store"}}
Departing == {a \in Actors : at[a] \in {"close", "hook", "count"}}

(* As long as no update of the list was lost, connectionCount is the       *)
(* number of listed connections plus the updates under way: a connection   *)
(* the handler, the monitor and a dispatch loop unregister one after the   *)
(* other is counted down once, and the limit on connections means what it  *)
(* says.  Unregisters that overlap and both find the connection lose an    *)
(* update and count it down twice; nothing is claimed of them.             *)
CountExact ==
    lost \/ count = Cardinality(list) + Cardinality(Arriving) + Cardinality(Departing)

(* The registration of c is complete, and nobody has closed or is          *)
(* unregistering the connection.                                           *)
Established(c) ==
    /\ pc[c] \in {"ack", "read"}
    /\ ~closed[c]
    /\ \A a \in Actors : at[a] # "none" => Victim(a) # {c}

(* As long as no update of the list was lost, an established connection is *)
(* listed and the dispatcher holds a subscription for its gateway, unless  *)
(* its making failed: events reach it, whichever connections of the same   *)
(* gateway come and go meanwhile.                                          *)
ConnectedIsServed ==
    \A c \in Conns :
        Established(c) /\ down = "no" /\ ~lost
            => c \in list /\ (sub # 0 \/ faults # 0)

(* A listed connection keeps a heartbeat monitor, or somebody is about to  *)
(* unregister it: a dead peer cannot stay listed for good, unless an       *)
(* update of the list was lost.                                            *)
ListedIsWatched ==
    \A c \in list :
        \/ mon[c] = "on" \/ down # "no" \/ lost
        \/ \E a \in Actors : at[a] \in {"load", "store"} /\ Victim(a) = {c}

(* Once every handler has ended the gateway is not marked active, whoever  *)
(* unregistered the connections and in whatever order, unless a write of   *)
(* the flag failed or an update of the list was lost.                      *)
InactiveWhenGone ==
    (\A c \in Conns : pc[c] \in {"idle", "done"}) => ~active \/ faults # 0 \/ lost
=============================================================================
