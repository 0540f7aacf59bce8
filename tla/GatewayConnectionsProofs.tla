---------------------- MODULE GatewayConnectionsProofs ----------------------
(***************************************************************************)
(* What the connection registry keeps right as long as no update of its    *)
(* list is lost, for any number of connections of the gateway: the count,  *)
(* the subscription of whoever is connected, the heartbeat monitors and    *)
(* the active flag.                                                        *)
(***************************************************************************)
EXTENDS GatewayConnections, FiniteSetTheorems, TLAPS

(* Connections that have been put into the list.                           *)
Registered == {c \in Conns : pc[c] \notin {"idle", "load", "store"}}

(* Whoever runs Unregister does it for one registered connection, and has  *)
(* found it in the list it stores next; nothing knows of a connection      *)
(* before it is registered.                                                *)
CallerInv ==
    \A c \in Conns : /\ at[<<"handler", c>>] # "none" => pc[c] = "leave"
                     /\ at[<<"monitor", c>>] # "none" => mon[c] = "unregister"
                     /\ mon[c] = "off" <=> c \notin Registered

LoopInv ==
    \A n \in Loops :
        /\ at[<<"loop", n>>] # "none" => \E c \in Conns : victim[n] = {c}
        /\ victim[n] \subseteq Registered
        /\ todo[n] \subseteq Registered

ViewInv ==
    \A a \in Actors : /\ view[a] \subseteq Registered
                      /\ at[a] = "store" => Victim(a) \subseteq view[a]

ActorInv == CallerInv /\ LoopInv /\ ViewInv /\ list \subseteq Registered

(* Connection c is closed, or about to be by whoever has unlisted it.      *)
Closing(c) == closed[c] \/ \E a \in Actors : at[a] = "close" /\ Victim(a) = {c}

(* A connection leaves the list to be closed, and for good.                *)
ListInv ==
    /\ \A c \in Conns : closed[c] => c \in Registered
    /\ \A c \in Registered : c \in list \/ Closing(c)
    /\ \A a \in Actors : at[a] = "close" => Victim(a) \cap list = {}
    /\ down = "no" => \A c \in list : ~closed[c]

(* The subscription ends only when all connections are on their way out.   *)
ServedInv ==
    down # "down" =>
        \A c \in Conns : pc[c] \in {"ack", "read"} =>
            sub # 0 \/ faults # 0 \/ Closing(c)

(* A handler that looks for the connections that remain does not find its  *)
(* own, so the last one clears the flag.                                   *)
LeftInv ==
    \A c \in Conns :
        \/ pc[c] = "leave" /\ at[<<"handler", c>>] \notin {"load", "store"}
        \/ pc[c] \in {"clear", "done"}
        => c \notin list

ActiveInv ==
    active /\ faults = 0 =>
        \E c \in Conns : pc[c] \in {"hook", "ack", "read", "leave", "clear"}

FlagInv == LeftInv /\ ActiveInv

-----------------------------------------------------------------------------
(* Facts about the actors.                                                  *)

LEMMA ActorsAre ==
    /\ \A c \in Conns : <<"handler", c>> \in Actors /\ <<"monitor", c>> \in Actors
    /\ \A n \in Loops : <<"loop", n>> \in Actors
    /\ \A a \in Actors :
         \/ \E c \in Conns : a = <<"handler", c>> \/ a = <<"monitor", c>>
         \/ \E n \in Loops : a = <<"loop", n>>
  BY DEF Actors

LEMMA VictimOf ==
    /\ \A c \in Conns : /\ Victim(<<"handler", c>>) = {c}
                        /\ Victim(<<"monitor", c>>) = {c}
    /\ \A n \in Loops : Victim(<<"loop", n>>) = victim[n]
  BY DEF Victim

LEMMA OneVictim ==
    ASSUME ActorInv, NEW a \in Actors, at[a] # "none"
    PROVE  \E c \in Registered : Victim(a) = {c}
  <1> DEFINE Goal == \E c \in Registered : Victim(a) = {c}
  <1>1. ASSUME NEW c \in Conns, a = <<"handler", c>> PROVE Goal
    <2>1. c \in Registered
      BY <1>1 DEF ActorInv, CallerInv, Registered
    <2>2. Victim(a) = {c}
      BY <1>1, VictimOf
    <2> QED BY <2>1, <2>2
  <1>2. ASSUME NEW c \in Conns, a = <<"monitor", c>> PROVE Goal
    <2>1. c \in Registered
      BY <1>2 DEF ActorInv, CallerInv
    <2>2. Victim(a) = {c}
      BY <1>2, VictimOf
    <2> QED BY <2>1, <2>2
  <1>3. ASSUME NEW n \in Loops, a = <<"loop", n>> PROVE Goal
    <2>1. \E c \in Registered : victim[n] = {c}
      BY <1>3 DEF ActorInv, LoopInv
    <2>2. Victim(a) = victim[n]
      BY <1>3, VictimOf
    <2> QED BY <2>1, <2>2
  <1> QED BY <1>1, <1>2, <1>3, ActorsAre

(* The numbers of connections and of actors are finite.                    *)
LEMMA AllFinite == IsFiniteSet(Conns) /\ IsFiniteSet(Actors)
  <1>1. IsFiniteSet(Conns) /\ MaxSubs \in Nat
    BY ConnectionsAssumption
  <1>2. IsFiniteSet(Loops)
    BY <1>1, FS_Interval DEF Loops
  <1>3. IsFiniteSet({"handler", "monitor"}) /\ IsFiniteSet({"loop"})
    <2>1. IsFiniteSet({"handler"}) /\ IsFiniteSet({"loop"})
      BY FS_Singleton
    <2>2. {"handler", "monitor"} = {"handler"} \cup {"monitor"}
      OBVIOUS
    <2> QED BY <2>1, <2>2, FS_AddElement
  <1>4. /\ IsFiniteSet({"handler", "monitor"} \X Conns)
        /\ IsFiniteSet({"loop"} \X Loops)
    BY <1>1, <1>2, <1>3, FS_Product
  <1> QED BY <1>1, <1>4, FS_Union DEF Actors

-----------------------------------------------------------------------------
(* Types.                                                                   *)

(* The type invariant but for the sign of the count.                       *)
TypeRest ==
    /\ count \in Int
    /\ list \in SUBSET Conns
    /\ closed \in [Conns -> BOOLEAN]
    /\ peer \in [Conns -> BOOLEAN]
    /\ active \in BOOLEAN
    /\ down \in {"no", "closing", "down"}
    /\ pc \in [Conns -> {"idle", "load", "store", "hook", "ack", "read",
                         "leave", "clear", "done"}]
    /\ mon \in [Conns -> {"off", "on", "unregister", "exit"}]
    /\ sub \in 0..MaxSubs
    /\ subCount \in 0..MaxSubs
    /\ loop \in [Loops -> {"off", "wait", "send", "exit"}]
    /\ todo \in [Loops -> SUBSET Conns]
    /\ at \in [Actors -> {"none", "load", "store", "close", "hook", "count"}]
    /\ victim \in [Loops -> SUBSET Conns]
    /\ view \in [Actors -> SUBSET Conns]
    /\ faults \in 0..MaxFaults
    /\ lost \in BOOLEAN

LEMMA TypeStep ==
    ASSUME TypeRest, [Next]_vars
    PROVE  TypeRest'
  <1> USE ConnectionsAssumption, ActorsAre
      DEF connVars, handVars, dispVars, unVars, hist, TypeRest
  <1>1. ASSUME NEW a \in Actors, UnregisterLoad(a) PROVE TypeRest'
    BY <1>1 DEF UnregisterLoad, NotFound
  <1>2. ASSUME NEW a \in Actors, UnregisterStore(a) PROVE TypeRest'
    BY <1>2 DEF UnregisterStore
  <1>3. ASSUME NEW a \in Actors, UnregisterClose(a) PROVE TypeRest'
    BY <1>3 DEF UnregisterClose
  <1>4. ASSUME NEW a \in Actors, UnregisterHook(a) PROVE TypeRest'
    BY <1>4 DEF UnregisterHook, Disconnected
  <1>5. ASSUME NEW a \in Actors, UnregisterCount(a) PROVE TypeRest'
    BY <1>5 DEF UnregisterCount
  <1>6. ASSUME NEW c \in Conns, RegisterCount(c) PROVE TypeRest'
    BY <1>6 DEF RegisterCount
  <1>7. ASSUME NEW c \in Conns, RegisterLoad(c) PROVE TypeRest'
    BY <1>7 DEF RegisterLoad
  <1>8. ASSUME NEW c \in Conns, RegisterStore(c) PROVE TypeRest'
    BY <1>8 DEF RegisterStore
  <1>9. ASSUME NEW c \in Conns, RegisterHook(c) PROVE TypeRest'
    BY <1>9 DEF RegisterHook, Loops
  <1>10. ASSUME NEW c \in Conns, RegisterHookFails(c) \/ MarkFails(c) PROVE TypeRest'
    BY <1>10 DEF RegisterHookFails, MarkFails
  <1>11. ASSUME NEW c \in Conns, MarkActive(c) \/ MarkInactive(c) PROVE TypeRest'
    BY <1>11 DEF MarkActive, MarkInactive
  <1>12. ASSUME NEW c \in Conns, ReadError(c) \/ CheckRemaining(c) PROVE TypeRest'
    BY <1>12 DEF ReadError, CheckRemaining
  <1>13. ASSUME NEW c \in Conns, PeerGone(c) \/ MonitorTick(c) \/ MonitorExit(c)
         PROVE TypeRest'
    <2>1. CASE PeerGone(c)
      BY <2>1 DEF PeerGone
    <2>2. CASE MonitorTick(c)
      <3>1. /\ \E m \in {"exit", "unregister"} : mon' = [mon EXCEPT ![c] = m]
            /\ at' = at \/ at' = [at EXCEPT ![<<"monitor", c>>] = "load"]
            /\ UNCHANGED <<count, list, connVars, handVars, down, dispVars,
                           victim, view, hist>>
        BY <2>2, Zenon DEF MonitorTick
      <3>2. mon' \in [Conns -> {"off", "on", "unregister", "exit"}]
        BY <3>1
      <3>3. at' \in [Actors -> {"none", "load", "store", "close", "hook", "count"}]
        BY <3>1
      <3> QED BY <3>1, <3>2, <3>3
    <2>3. CASE MonitorExit(c)
      BY <2>3 DEF MonitorExit
    <2> QED BY <1>13, <2>1, <2>2, <2>3
  <1>14. ASSUME NEW n \in Loops, Deliver(n) \/ Delivered(n) \/ LoopExit(n)
         PROVE TypeRest'
    BY <1>14 DEF Deliver, Delivered, LoopExit
  <1>15. ASSUME NEW n \in Loops, NEW c \in Conns, Send(n, c) PROVE TypeRest'
    <2>1. /\ todo' = [todo EXCEPT ![n] = @ \ {c}]
          /\ \/ UNCHANGED <<at, victim>>
             \/ /\ at' = [at EXCEPT ![<<"loop", n>>] = "load"]
                /\ victim' = [victim EXCEPT ![n] = {c}]
          /\ UNCHANGED <<count, list, connVars, handVars, down, mon, sub,
                         subCount, loop, view, hist>>
      BY <1>15, Zenon DEF Send
    <2>2. /\ todo' \in [Loops -> SUBSET Conns]
          /\ victim' \in [Loops -> SUBSET Conns]
      BY <2>1
    <2>3. at' \in [Actors -> {"none", "load", "store", "close", "hook", "count"}]
      BY <2>1
    <2> QED BY <2>1, <2>2, <2>3
  <1>16. CASE ShutdownManager \/ ShutdownDispatcher
    <2>1. CASE ShutdownManager
      <3>1. closed' \in [Conns -> BOOLEAN]
        BY <2>1, Zenon DEF ShutdownManager
      <3> QED BY <2>1, <3>1 DEF ShutdownManager
    <2>2. CASE ShutdownDispatcher
      BY <2>2 DEF ShutdownDispatcher
    <2> QED BY <1>16, <2>1, <2>2
  <1>17. CASE UNCHANGED vars
    BY <1>17 DEF vars
  <1> HIDE DEF TypeRest
  <1> QED BY <1>1, <1>2, <1>3, <1>4, <1>5, <1>6, <1>7, <1>8, <1>9, <1>10,
             <1>11, <1>12, <1>13, <1>14, <1>15, <1>16, <1>17
          DEF Next, Unregister, Connect, Dispatch

(* The count is not negative where it is exact.                            *)
LEMMA CountNatural ==
    ASSUME TypeRest, CountExact
    PROVE  TypeOK
  <1>1. /\ list \in SUBSET Conns /\ Arriving \in SUBSET Conns
        /\ Departing \in SUBSET Actors
    BY DEF TypeRest, Arriving, Departing
  <1>2. /\ Cardinality(list) \in Nat /\ Cardinality(Arriving) \in Nat
        /\ Cardinality(Departing) \in Nat
    BY <1>1, AllFinite, FS_Subset, FS_CardinalityType
  <1>3. count >= 0 \/ lost
    BY <1>2 DEF CountExact
  <1> QED BY <1>3 DEF TypeRest, TypeOK

-----------------------------------------------------------------------------
(* The actors.                                                              *)

(* While an actor is in a call, its victim stays the same.                 *)
LEMMA VictimStays ==
    ASSUME TypeRest, [Next]_vars, NEW a \in Actors, at[a] # "none"
    PROVE  Victim(a)' = Victim(a)
  <1> USE DEF connVars, handVars, dispVars, unVars, hist
  <1>1. CASE UNCHANGED victim
    BY <1>1 DEF Victim
  <1>2. ASSUME NEW n \in Loops, at[<<"loop", n>>] = "none",
               \E S : victim' = [victim EXCEPT ![n] = S]
        PROVE  Victim(a)' = Victim(a)
    <2>1. \A m \in Loops : a = <<"loop", m>> => victim'[m] = victim[m]
      BY <1>2 DEF TypeRest
    <2>2. ASSUME NEW m \in Loops, a = <<"loop", m>>
          PROVE  Victim(a)' = Victim(a)
      BY <2>1, <2>2 DEF Victim
    <2>3. ASSUME NEW c \in Conns, a = <<"handler", c>> \/ a = <<"monitor", c>>
          PROVE  Victim(a)' = Victim(a)
      BY <2>3 DEF Victim
    <2> QED BY <2>2, <2>3, ActorsAre
  <1>3. ASSUME NEW n \in Loops, NEW c \in Conns, Send(n, c)
        PROVE  Victim(a)' = Victim(a)
    BY <1>1, <1>2, <1>3 DEF Send
  <1>4. ASSUME NEW n \in Loops, Delivered(n)
        PROVE  Victim(a)' = Victim(a)
    BY <1>1, <1>2, <1>4 DEF Delivered
  <1>5. ASSUME NEW n \in Loops, Deliver(n) \/ LoopExit(n)
        PROVE  UNCHANGED victim
    BY <1>5 DEF Deliver, LoopExit
  <1>6. ASSUME NEW b \in Actors, Unregister(b)
        PROVE  UNCHANGED victim
    BY <1>6 DEF Unregister, UnregisterLoad, UnregisterStore, UnregisterClose,
                UnregisterHook, UnregisterCount
  <1>7. ASSUME NEW c \in Conns,
               Connect(c) \/ PeerGone(c) \/ MonitorTick(c) \/ MonitorExit(c)
        PROVE  UNCHANGED victim
    BY <1>7 DEF Connect, RegisterCount, RegisterLoad, RegisterStore,
         RegisterHook, RegisterHookFails, MarkActive, ReadError,
         CheckRemaining, MarkInactive, MarkFails, PeerGone, MonitorTick,
         MonitorExit
  <1>8. ASSUME ShutdownManager \/ ShutdownDispatcher \/ UNCHANGED vars
        PROVE  UNCHANGED victim
    BY <1>8 DEF ShutdownManager, ShutdownDispatcher, vars
  <1> QED BY <1>1, <1>3, <1>4, <1>5, <1>6, <1>7, <1>8 DEF Next, Dispatch

(* A connection stays registered; only RegisterStore registers one.        *)
LEMMA RegisteredGrows ==
    ASSUME TypeRest, [Next]_vars
    PROVE  /\ Registered \subseteq Registered'
           /\ \A c \in Conns : c \in Registered' /\ c \notin Registered
                                 => RegisterStore(c)
  <1> USE DEF connVars, handVars, dispVars, unVars, hist, Registered
  <1>1. CASE UNCHANGED pc
    BY <1>1
  <1>2. ASSUME NEW c \in Conns, RegisterCount(c) \/ RegisterLoad(c)
        PROVE  Registered' = Registered
    BY <1>2 DEF RegisterCount, RegisterLoad, TypeRest
  <1>3. ASSUME NEW c \in Conns, RegisterStore(c)
        PROVE  Registered' = Registered \cup {c}
    BY <1>3 DEF RegisterStore, TypeRest
  <1>4. ASSUME NEW c \in Conns, Connect(c), ~RegisterCount(c),
               ~RegisterLoad(c), ~RegisterStore(c)
        PROVE  Registered' = Registered
    BY <1>4 DEF Connect, RegisterHook, RegisterHookFails, MarkActive,
         ReadError, CheckRemaining, MarkInactive, MarkFails, TypeRest
  <1>5. ASSUME NEW b \in Actors, Unregister(b)
        PROVE  UNCHANGED pc
    BY <1>5 DEF Unregister, UnregisterLoad, UnregisterStore, UnregisterClose,
                UnregisterHook, UnregisterCount
  <1>6. ASSUME NEW c \in Conns, PeerGone(c) \/ MonitorTick(c) \/ MonitorExit(c)
        PROVE  UNCHANGED pc
    BY <1>6 DEF PeerGone, MonitorTick, MonitorExit
  <1>7. ASSUME NEW n \in Loops, Dispatch(n)
        PROVE  UNCHANGED pc
    BY <1>7 DEF Dispatch, Deliver, Delivered, LoopExit, Send
  <1>8. ASSUME ShutdownManager \/ ShutdownDispatcher \/ UNCHANGED vars
        PROVE  UNCHANGED pc
    BY <1>8 DEF ShutdownManager, ShutdownDispatcher, vars
  <1> HIDE DEF Registered
  <1>9. CASE Registered' = Registered
    BY <1>9
  <1>10. CASE \E c \in Conns : Connect(c)
    BY <1>2, <1>3, <1>4, <1>9, <1>10
  <1> QED BY <1>1, <1>5, <1>6, <1>7, <1>8, <1>10 DEF Next

(* A call of Unregister goes on or ends by a step of its own, and begins   *)
(* with the handler's ReadError, the monitor's tick or a loop's Send.      *)
LEMMA CallsMove ==
    ASSUME TypeRest, ActorInv, [Next]_vars, NEW a \in Actors, at'[a] # at[a]
    PROVE  Unregister(a) \/ (at[a] = "none" /\ at'[a] = "load")
  <1> USE ActorsAre DEF connVars, handVars, dispVars, unVars, hist
  <1>1. ASSUME NEW b \in Actors, Unregister(b)
        PROVE  a = b
    BY <1>1 DEF Unregister, UnregisterLoad, UnregisterStore, UnregisterClose,
                UnregisterHook, UnregisterCount, TypeRest
  <1>2. ASSUME NEW c \in Conns, Connect(c)
        PROVE  at[a] = "none" /\ at'[a] = "load"
    <2>1. ReadError(c)
      BY <1>2 DEF Connect, RegisterCount, RegisterLoad, RegisterStore,
           RegisterHook, RegisterHookFails, MarkActive,
           CheckRemaining, MarkInactive, MarkFails
    <2>2. at[<<"handler", c>>] = "none"
      BY <2>1 DEF ReadError, ActorInv, CallerInv
    <2> QED BY <2>1, <2>2 DEF ReadError, TypeRest
  <1>3. ASSUME NEW c \in Conns, PeerGone(c) \/ MonitorTick(c) \/ MonitorExit(c)
        PROVE  at[a] = "none" /\ at'[a] = "load"
    <2>1. mon[c] = "on" /\ at' = [at EXCEPT ![<<"monitor", c>>] = "load"]
      BY <1>3 DEF PeerGone, MonitorTick, MonitorExit
    <2>2. at[<<"monitor", c>>] = "none"
      BY <2>1 DEF ActorInv, CallerInv
    <2> QED BY <2>1, <2>2 DEF TypeRest
  <1>4. ASSUME NEW n \in Loops, Dispatch(n)
        PROVE  at[a] = "none" /\ at'[a] = "load"
    <2>1. /\ at[<<"loop", n>>] = "none"
          /\ at' = [at EXCEPT ![<<"loop", n>>] = "load"]
      BY <1>4 DEF Dispatch, Deliver, Delivered, LoopExit, Send
    <2> QED BY <2>1 DEF TypeRest
  <1>5. ASSUME ShutdownManager \/ ShutdownDispatcher \/ UNCHANGED vars
        PROVE  FALSE
    BY <1>5 DEF ShutdownManager, ShutdownDispatcher, vars
  <1> QED BY <1>1, <1>2, <1>3, <1>4, <1>5 DEF Next

LEMMA CallerNext ==
    ASSUME TypeRest, ActorInv, [Next]_vars
    PROVE  CallerInv'
  <1> USE ActorsAre DEF connVars, handVars, dispVars, unVars, hist
  <1>1. CASE UNCHANGED <<at, pc, mon>>
    BY <1>1 DEF ActorInv, CallerInv, Registered
  <1>2. ASSUME NEW b \in Actors, Unregister(b)
        PROVE  CallerInv'
    <2>1. UNCHANGED <<pc, mon>> /\ at[b] # "none"
      BY <1>2 DEF Unregister, UnregisterLoad, UnregisterStore, UnregisterClose,
                  UnregisterHook, UnregisterCount
    <2>2. \A a \in Actors : a # b => at'[a] = at[a]
      BY <1>2 DEF Unregister, UnregisterLoad, UnregisterStore, UnregisterClose,
                  UnregisterHook, UnregisterCount, TypeRest
    <2>3. \A a \in Actors : at'[a] # "none" => at[a] # "none"
      BY <2>1, <2>2
    <2> QED BY <2>1, <2>3 DEF ActorInv, CallerInv, Registered
  <1>3. ASSUME NEW c \in Conns, Connect(c)
        PROVE  CallerInv'
    <2>1. CASE ReadError(c)
      <3>1. /\ mon' = mon /\ pc' = [pc EXCEPT ![c] = "leave"] /\ pc[c] = "read"
            /\ at' = [at EXCEPT ![<<"handler", c>>] = "load"]
        BY <2>1 DEF ReadError
      <3>2. \A d \in Conns : /\ at'[<<"monitor", d>>] = at[<<"monitor", d>>]
                             /\ d # c => at'[<<"handler", d>>] = at[<<"handler", d>>]
        BY <3>1 DEF TypeRest
      <3>3. pc'[c] = "leave" /\ \A d \in Conns : d # c => pc'[d] = pc[d]
        BY <3>1 DEF TypeRest
      <3>4. Registered' = Registered
        BY <3>1, <3>3 DEF Registered
      <3>5. \A d \in Conns : at'[<<"handler", d>>] # "none" => pc'[d] = "leave"
        BY <3>2, <3>3 DEF ActorInv, CallerInv
      <3>6. \A d \in Conns : /\ at'[<<"monitor", d>>] # "none" => mon'[d] = "unregister"
                             /\ mon'[d] = "off" <=> d \notin Registered'
        BY <3>1, <3>2, <3>4 DEF ActorInv, CallerInv
      <3> QED BY <3>5, <3>6 DEF CallerInv
    <2>2. CASE CheckRemaining(c)
      <3>1. /\ UNCHANGED <<at, mon>> /\ pc[c] = "leave"
            /\ at[<<"handler", c>>] = "none"
            /\ pc'[c] \in {"clear", "done"}
            /\ \A d \in Conns : d # c => pc'[d] = pc[d]
        BY <2>2 DEF CheckRemaining, TypeRest
      <3>2. Registered' = Registered
        BY <3>1 DEF Registered
      <3>3. \A d \in Conns : at[<<"handler", d>>] # "none" => pc[d] = "leave"
                             /\ d # c
        BY <3>1 DEF ActorInv, CallerInv
      <3>4. \A d \in Conns : at'[<<"handler", d>>] # "none" => pc'[d] = "leave"
        BY <3>1, <3>3
      <3>5. \A d \in Conns : /\ at'[<<"monitor", d>>] # "none" => mon'[d] = "unregister"
                             /\ mon'[d] = "off" <=> d \notin Registered'
        BY <3>1, <3>2 DEF ActorInv, CallerInv
      <3> QED BY <3>4, <3>5 DEF CallerInv
    <2>3. CASE RegisterStore(c)
      BY <2>3 DEF RegisterStore, ActorInv, CallerInv, Registered, TypeRest
    <2>4. ASSUME UNCHANGED <<at, mon>>, pc[c] # "leave",
                 \A d \in Conns : d # c => pc'[d] = pc[d],
                 c \in Registered' <=> c \in Registered
          PROVE  CallerInv'
      BY <2>4 DEF ActorInv, CallerInv, Registered
    <2>5. ASSUME NEW from, NEW to, pc[c] = from, pc' = [pc EXCEPT ![c] = to],
                 from \in {"idle", "load", "store"} <=> to \in {"idle", "load", "store"}
          PROVE  /\ \A d \in Conns : d # c => pc'[d] = pc[d]
                 /\ c \in Registered' <=> c \in Registered
      BY <2>5 DEF Registered, TypeRest
    <2>6. CASE RegisterCount(c)
      BY <2>4, <2>5, <2>6 DEF RegisterCount
    <2>7. CASE RegisterLoad(c)
      BY <2>4, <2>5, <2>7 DEF RegisterLoad
    <2>8. CASE RegisterHook(c) \/ RegisterHookFails(c)
      BY <2>4, <2>5, <2>8 DEF RegisterHook, RegisterHookFails
    <2>9. CASE MarkActive(c) \/ MarkInactive(c)
      BY <2>4, <2>5, <2>9 DEF MarkActive, MarkInactive
    <2>10. CASE MarkFails(c)
      <3>1. /\ UNCHANGED <<at, mon>> /\ pc[c] \in {"ack", "clear"}
            /\ \A d \in Conns : d # c => pc'[d] = pc[d]
            /\ pc'[c] \in {"read", "done"}
        BY <2>10 DEF MarkFails, TypeRest
      <3> QED BY <2>4, <3>1 DEF Registered
    <2> QED BY <1>3, <2>1, <2>2, <2>3, <2>6, <2>7, <2>8, <2>9, <2>10 DEF Connect
  <1>4. ASSUME NEW c \in Conns, MonitorTick(c)
        PROVE  CallerInv'
    <2>1. /\ pc' = pc /\ mon[c] = "on"
          /\ \/ mon' = [mon EXCEPT ![c] = "exit"] /\ at' = at
             \/ /\ mon' = [mon EXCEPT ![c] = "unregister"]
                /\ at' = [at EXCEPT ![<<"monitor", c>>] = "load"]
      BY <1>4, Zenon DEF MonitorTick
    <2>2. CASE mon' = [mon EXCEPT ![c] = "exit"] /\ at' = at
      BY <2>1, <2>2 DEF ActorInv, CallerInv, Registered, TypeRest
    <2>3. CASE /\ mon' = [mon EXCEPT ![c] = "unregister"]
               /\ at' = [at EXCEPT ![<<"monitor", c>>] = "load"]
      <3>1. \A d \in Conns : /\ at'[<<"handler", d>>] = at[<<"handler", d>>]
                             /\ d # c => at'[<<"monitor", d>>] = at[<<"monitor", d>>]
        <4>1. \A a \in Actors : a # <<"monitor", c>> => at'[a] = at[a]
          BY <2>3 DEF TypeRest
        <4> QED BY <4>1
      <3>2. mon'[c] = "unregister" /\ \A d \in Conns : d # c => mon'[d] = mon[d]
        BY <2>3 DEF TypeRest
      <3>3. Registered' = Registered
        BY <2>1 DEF Registered
      <3>4. \A d \in Conns : at'[<<"handler", d>>] # "none" => pc'[d] = "leave"
        BY <2>1, <3>1 DEF ActorInv, CallerInv
      <3>5. ASSUME NEW d \in Conns
            PROVE  /\ at'[<<"monitor", d>>] # "none" => mon'[d] = "unregister"
                   /\ mon'[d] = "off" <=> d \notin Registered'
        <4>1. CASE d = c
          BY <2>1, <3>2, <3>3, <4>1 DEF ActorInv, CallerInv
        <4>2. CASE d # c
          BY <3>1, <3>2, <3>3, <4>2 DEF ActorInv, CallerInv
        <4> QED BY <4>1, <4>2
      <3> QED BY <3>4, <3>5 DEF CallerInv
    <2> QED BY <2>1, <2>2, <2>3
  <1>5. ASSUME NEW c \in Conns, MonitorExit(c)
        PROVE  CallerInv'
    BY <1>5 DEF MonitorExit, ActorInv, CallerInv, Registered, TypeRest
  <1>6. ASSUME NEW n \in Loops, Dispatch(n)
        PROVE  CallerInv'
    <2>1. UNCHANGED <<pc, mon>>
      BY <1>6 DEF Dispatch, Deliver, Delivered, LoopExit, Send
    <2>2. at' = at \/ at' = [at EXCEPT ![<<"loop", n>>] = "load"]
      BY <1>6 DEF Dispatch, Deliver, Delivered, LoopExit, Send
    <2>3. \A d \in Conns : /\ at'[<<"handler", d>>] = at[<<"handler", d>>]
                           /\ at'[<<"monitor", d>>] = at[<<"monitor", d>>]
      BY <2>2 DEF TypeRest
    <2> QED BY <2>1, <2>3 DEF ActorInv, CallerInv, Registered
  <1>7. ASSUME \/ \E c \in Conns : PeerGone(c)
               \/ ShutdownManager \/ ShutdownDispatcher \/ UNCHANGED vars
        PROVE  UNCHANGED <<at, pc, mon>>
    BY <1>7 DEF PeerGone, ShutdownManager, ShutdownDispatcher, vars
  <1> QED BY <1>1, <1>2, <1>3, <1>4, <1>5, <1>6, <1>7 DEF Next

LEMMA LoopNext ==
    ASSUME TypeRest, ActorInv, [Next]_vars
    PROVE  LoopInv'
  <1> USE ActorsAre DEF connVars, handVars, dispVars, unVars, hist
  <1>1. Registered \subseteq Registered'
    BY RegisteredGrows
  <1>2. ASSUME UNCHANGED <<victim, todo>>,
               \A n \in Loops : at'[<<"loop", n>>] # "none" => at[<<"loop", n>>] # "none"
        PROVE  LoopInv'
    BY <1>1, <1>2 DEF ActorInv, LoopInv
  <1>3. ASSUME NEW b \in Actors, Unregister(b)
        PROVE  LoopInv'
    <2>1. UNCHANGED <<victim, todo>> /\ at[b] # "none"
      BY <1>3 DEF Unregister, UnregisterLoad, UnregisterStore, UnregisterClose,
                  UnregisterHook, UnregisterCount
    <2>2. \A a \in Actors : a # b => at'[a] = at[a]
      BY <1>3 DEF Unregister, UnregisterLoad, UnregisterStore, UnregisterClose,
                  UnregisterHook, UnregisterCount, TypeRest
    <2> QED BY <1>2, <2>1, <2>2
  <1>4. ASSUME NEW c \in Conns,
               Connect(c) \/ PeerGone(c) \/ MonitorTick(c) \/ MonitorExit(c)
        PROVE  LoopInv'
    <2>1. /\ victim' = victim
          /\ todo' = todo
          /\ \/ at' = at \/ at' = [at EXCEPT ![<<"handler", c>>] = "load"]
             \/ at' = [at EXCEPT ![<<"monitor", c>>] = "load"]
      BY <1>4 DEF Connect, RegisterCount, RegisterLoad, RegisterStore,
           RegisterHook, RegisterHookFails, MarkActive, ReadError,
           CheckRemaining, MarkInactive, MarkFails, PeerGone, MonitorTick,
           MonitorExit
    <2>2. \A n \in Loops : at'[<<"loop", n>>] = at[<<"loop", n>>]
      BY <2>1 DEF TypeRest
    <2> QED BY <1>2, <2>1, <2>2
  <1>5. ASSUME NEW n \in Loops, Deliver(n)
        PROVE  LoopInv'
    BY <1>1, <1>5 DEF Deliver, ActorInv, LoopInv, TypeRest
  <1>6. ASSUME NEW n \in Loops, LoopExit(n)
        PROVE  LoopInv'
    BY <1>2, <1>6 DEF LoopExit
  <1>7. ASSUME NEW n \in Loops, Delivered(n)
        PROVE  LoopInv'
    BY <1>1, <1>7 DEF Delivered, ActorInv, LoopInv, TypeRest
  <1>8. ASSUME NEW n \in Loops, NEW c \in Conns, Send(n, c)
        PROVE  LoopInv'
    <2>1. /\ c \in todo[n] /\ todo' = [todo EXCEPT ![n] = @ \ {c}]
          /\ \/ UNCHANGED <<at, victim>>
             \/ /\ at' = [at EXCEPT ![<<"loop", n>>] = "load"]
                /\ victim' = [victim EXCEPT ![n] = {c}]
      BY <1>8, Zenon DEF Send
    <2>2. c \in Registered
      BY <2>1 DEF ActorInv, LoopInv
    <2>3. CASE UNCHANGED <<at, victim>>
      BY <1>1, <2>1, <2>3 DEF ActorInv, LoopInv, TypeRest
    <2>4. CASE /\ at' = [at EXCEPT ![<<"loop", n>>] = "load"]
               /\ victim' = [victim EXCEPT ![n] = {c}]
      <3>1. \A m \in Loops : m # n => /\ at'[<<"loop", m>>] = at[<<"loop", m>>]
                                      /\ victim'[m] = victim[m]
        BY <2>4 DEF TypeRest
      <3>2. victim'[n] = {c} /\ \A m \in Loops : todo'[m] \subseteq todo[m]
        BY <2>1, <2>4 DEF TypeRest
      <3> SUFFICES ASSUME NEW m \in Loops PROVE LoopInv!(m)'
        BY DEF LoopInv
      <3>3. LoopInv!(m)
        BY DEF ActorInv, LoopInv
      <3>4. CASE m = n
        BY <1>1, <2>2, <3>2, <3>3, <3>4
      <3>5. CASE m # n
        BY <1>1, <3>1, <3>2, <3>3, <3>5
      <3> QED BY <3>4, <3>5
    <2> QED BY <2>1, <2>3, <2>4
  <1>9. ASSUME ShutdownManager \/ ShutdownDispatcher \/ UNCHANGED vars
        PROVE  UNCHANGED <<at, victim, todo>>
    BY <1>9 DEF ShutdownManager, ShutdownDispatcher, vars
  <1> QED BY <1>2, <1>3, <1>4, <1>5, <1>6, <1>7, <1>8, <1>9 DEF Next, Dispatch

LEMMA ViewNext ==
    ASSUME TypeRest, ActorInv, [Next]_vars
    PROVE  ViewInv' /\ list' \subseteq Registered'
  <1> USE ActorsAre DEF connVars, handVars, dispVars, unVars, hist
  <1>1. Registered \subseteq Registered'
    BY RegisteredGrows
  <1>2. ASSUME UNCHANGED view,
               \A a \in Actors : at'[a] = "store" => at[a] = "store"
        PROVE  ViewInv'
    BY <1>1, <1>2, VictimStays DEF ActorInv, ViewInv
  <1>3. ASSUME list' \subseteq list
        PROVE  list' \subseteq Registered'
    BY <1>1, <1>3 DEF ActorInv
  <1>4. ASSUME NEW b \in Actors, UnregisterLoad(b)
        PROVE  ViewInv' /\ list' \subseteq Registered'
    <2>1. list' = list /\ Victim(b)' = Victim(b)
      BY <1>4, VictimStays DEF UnregisterLoad
    <2>2. /\ \A a \in Actors : a # b => view'[a] = view[a] /\ at'[a] = at[a]
          /\ at'[b] = "store" => view'[b] = list /\ Victim(b) \subseteq list
          /\ view'[b] \in {view[b], list}
      BY <1>4 DEF UnregisterLoad, NotFound, TypeRest
    <2> SUFFICES ASSUME NEW a \in Actors PROVE ViewInv!(a)'
      BY <1>3, <2>1 DEF ViewInv
    <2>3. ViewInv!(a) /\ list \subseteq Registered
      BY DEF ActorInv, ViewInv
    <2>4. CASE a = b
      BY <1>1, <2>1, <2>2, <2>3, <2>4
    <2>5. CASE a # b
      BY <1>1, <2>2, <2>3, <2>5, VictimStays
    <2> QED BY <2>4, <2>5
  <1>5. ASSUME NEW b \in Actors, UnregisterStore(b)
        PROVE  ViewInv' /\ list' \subseteq Registered'
    <2>1. list' \subseteq view[b]
      BY <1>5 DEF UnregisterStore
    <2>2. /\ \A a \in Actors : a # b => view'[a] = view[a] /\ at'[a] = at[a]
          /\ at'[b] = "close" /\ view'[b] = {}
      BY <1>5 DEF UnregisterStore, TypeRest
    <2>3. list' \subseteq Registered'
      BY <1>1, <2>1 DEF ActorInv, ViewInv
    <2> SUFFICES ASSUME NEW a \in Actors PROVE ViewInv!(a)'
      BY <2>3 DEF ViewInv
    <2>4. ViewInv!(a)
      BY DEF ActorInv, ViewInv
    <2> QED BY <1>1, <2>2, <2>4, VictimStays
  <1>6. ASSUME NEW b \in Actors,
               UnregisterClose(b) \/ UnregisterHook(b) \/ UnregisterCount(b)
        PROVE  ViewInv' /\ list' \subseteq Registered'
    <2>1. UNCHANGED <<view, list>>
      BY <1>6 DEF UnregisterClose, UnregisterHook, UnregisterCount
    <2>2. \A a \in Actors : at'[a] = "store" => at[a] = "store"
      BY <1>6 DEF UnregisterClose, UnregisterHook, UnregisterCount, TypeRest
    <2> QED BY <1>2, <1>3, <2>1, <2>2
  <1>7. ASSUME NEW c \in Conns, RegisterLoad(c)
        PROVE  ViewInv' /\ list' \subseteq Registered'
    <2>1. list' = list /\ at' = at /\ pc[c] = "load"
      BY <1>7 DEF RegisterLoad
    <2>2. /\ \A a \in Actors : a # <<"handler", c>> => view'[a] = view[a]
          /\ view'[<<"handler", c>>] = list
      BY <1>7 DEF RegisterLoad, TypeRest
    <2>3. at[<<"handler", c>>] = "none"
      BY <2>1 DEF ActorInv, CallerInv
    <2> SUFFICES ASSUME NEW a \in Actors PROVE ViewInv!(a)'
      BY <1>3, <2>1 DEF ViewInv
    <2>4. ViewInv!(a) /\ list \subseteq Registered
      BY DEF ActorInv, ViewInv
    <2> QED BY <1>1, <2>1, <2>2, <2>3, <2>4, VictimStays
  <1>8. ASSUME NEW c \in Conns, RegisterStore(c)
        PROVE  ViewInv' /\ list' \subseteq Registered'
    <2>1. /\ at' = at /\ pc[c] = "store"
          /\ list' = view[<<"handler", c>>] \cup {c}
      BY <1>8 DEF RegisterStore
    <2>2. /\ \A a \in Actors : a # <<"handler", c>> => view'[a] = view[a]
          /\ view'[<<"handler", c>>] = {} /\ pc'[c] = "hook"
      BY <1>8 DEF RegisterStore, TypeRest
    <2>3. at[<<"handler", c>>] = "none"
      BY <2>1 DEF ActorInv, CallerInv
    <2>4. c \in Registered'
      BY <2>2 DEF Registered
    <2>5. list' \subseteq Registered'
      BY <1>1, <2>1, <2>4 DEF ActorInv, ViewInv
    <2> SUFFICES ASSUME NEW a \in Actors PROVE ViewInv!(a)'
      BY <2>5 DEF ViewInv
    <2>6. ViewInv!(a)
      BY DEF ActorInv, ViewInv
    <2> QED BY <1>1, <2>1, <2>2, <2>3, <2>6, VictimStays
  <1>9. ASSUME NEW c \in Conns, Connect(c), ~RegisterLoad(c), ~RegisterStore(c)
        PROVE  ViewInv' /\ list' \subseteq Registered'
    <2>1. UNCHANGED <<view, list>>
      BY <1>9 DEF Connect, RegisterCount, RegisterHook, RegisterHookFails,
           MarkActive, ReadError, CheckRemaining, MarkInactive, MarkFails
    <2>2. \A a \in Actors : at'[a] = "store" => at[a] = "store"
      BY <1>9 DEF Connect, RegisterCount, RegisterHook, RegisterHookFails,
           MarkActive, ReadError, CheckRemaining, MarkInactive, MarkFails, TypeRest
    <2> QED BY <1>2, <1>3, <2>1, <2>2
  <1>10. ASSUME NEW c \in Conns, PeerGone(c) \/ MonitorTick(c) \/ MonitorExit(c)
         PROVE  ViewInv' /\ list' \subseteq Registered'
    <2>1. UNCHANGED <<view, list>>
      BY <1>10 DEF PeerGone, MonitorTick, MonitorExit
    <2>2. \A a \in Actors : at'[a] = "store" => at[a] = "store"
      BY <1>10 DEF PeerGone, MonitorTick, MonitorExit, TypeRest
    <2> QED BY <1>2, <1>3, <2>1, <2>2
  <1>11. ASSUME NEW n \in Loops, Dispatch(n)
         PROVE  ViewInv' /\ list' \subseteq Registered'
    <2>1. UNCHANGED <<view, list>>
      BY <1>11 DEF Dispatch, Deliver, Delivered, LoopExit, Send
    <2>2. \A a \in Actors : at'[a] = "store" => at[a] = "store"
      <3>1. at' = at \/ at' = [at EXCEPT ![<<"loop", n>>] = "load"]
        BY <1>11 DEF Dispatch, Deliver, Delivered, LoopExit, Send
      <3> QED BY <3>1 DEF TypeRest
    <2> QED BY <1>2, <1>3, <2>1, <2>2
  <1>12. ASSUME ShutdownManager \/ ShutdownDispatcher \/ UNCHANGED vars
         PROVE  UNCHANGED <<at, view, list>>
    BY <1>12 DEF ShutdownManager, ShutdownDispatcher, vars
  <1> QED BY <1>2, <1>3, <1>4, <1>5, <1>6, <1>7, <1>8, <1>9, <1>10, <1>11,
             <1>12 DEF Next, Unregister

LEMMA ActorNext ==
    ASSUME TypeRest, ActorInv, [Next]_vars
    PROVE  ActorInv'
  BY CallerNext, LoopNext, ViewNext DEF ActorInv

-----------------------------------------------------------------------------
(* The count.                                                               *)

(* Who is arriving and who is departing changes with the steps that change *)
(* the list or the count alone.                                            *)
LEMMA CountFrame ==
    ASSUME TypeRest, ActorInv, [Next]_vars,
           \A a \in Actors : ~UnregisterStore(a) /\ ~UnregisterCount(a),
           \A c \in Conns : ~RegisterCount(c) /\ ~RegisterStore(c)
    PROVE  UNCHANGED <<count, list, lost, Arriving, Departing>>
  <1> USE ActorsAre DEF connVars, handVars, dispVars, unVars, hist
  <1>1. ASSUME NEW b \in Actors, Unregister(b)
        PROVE  UNCHANGED <<count, list, lost, Arriving, Departing>>
    <2>1. UNCHANGED <<count, list, lost, pc>>
      BY <1>1 DEF Unregister, UnregisterLoad, UnregisterClose, UnregisterHook
    <2>2. \A a \in Actors : at'[a] \in {"close", "hook", "count"}
                              <=> at[a] \in {"close", "hook", "count"}
      BY <1>1 DEF Unregister, UnregisterLoad, UnregisterClose, UnregisterHook,
                  NotFound, TypeRest
    <2> QED BY <2>1, <2>2 DEF Arriving, Departing
  <1>2. ASSUME NEW c \in Conns, Connect(c)
        PROVE  UNCHANGED <<count, list, lost, Arriving, Departing>>
    <2>1. UNCHANGED <<count, list, lost>>
      BY <1>2 DEF Connect, RegisterLoad, RegisterHook, RegisterHookFails,
           MarkActive, ReadError, CheckRemaining, MarkInactive, MarkFails
    <2>2. \A d \in Conns : pc'[d] \in {"load", "store"} <=> pc[d] \in {"load", "store"}
      BY <1>2 DEF Connect, RegisterLoad, RegisterHook, RegisterHookFails,
           MarkActive, ReadError, CheckRemaining, MarkInactive, MarkFails, TypeRest
    <2>3. at' = at \/ ReadError(c)
      BY <1>2 DEF Connect, RegisterLoad, RegisterHook, RegisterHookFails,
           MarkActive, CheckRemaining, MarkInactive, MarkFails
    <2>4. ReadError(c) => at[<<"handler", c>>] = "none"
      BY DEF ReadError, ActorInv, CallerInv
    <2>5. \A a \in Actors : at'[a] \in {"close", "hook", "count"}
                              <=> at[a] \in {"close", "hook", "count"}
      <3>1. at' = at \/ /\ at' = [at EXCEPT ![<<"handler", c>>] = "load"]
                        /\ at[<<"handler", c>>] = "none"
        BY <2>3, <2>4 DEF ReadError
      <3> QED BY <3>1 DEF TypeRest
    <2> QED BY <2>1, <2>2, <2>5 DEF Arriving, Departing
  <1>3. ASSUME NEW c \in Conns, PeerGone(c) \/ MonitorTick(c) \/ MonitorExit(c)
        PROVE  UNCHANGED <<count, list, lost, Arriving, Departing>>
    <2>1. UNCHANGED <<count, list, lost, pc>>
      BY <1>3 DEF PeerGone, MonitorTick, MonitorExit
    <2>2. MonitorTick(c) => at[<<"monitor", c>>] = "none"
      BY DEF MonitorTick, ActorInv, CallerInv
    <2>3. \A a \in Actors : at'[a] \in {"close", "hook", "count"}
                              <=> at[a] \in {"close", "hook", "count"}
      <3>1. at' = at \/ /\ at' = [at EXCEPT ![<<"monitor", c>>] = "load"]
                        /\ at[<<"monitor", c>>] = "none"
        BY <1>3, <2>2 DEF PeerGone, MonitorTick, MonitorExit
      <3> QED BY <3>1 DEF TypeRest
    <2> QED BY <2>1, <2>3 DEF Arriving, Departing
  <1>4. ASSUME NEW n \in Loops, Dispatch(n)
        PROVE  UNCHANGED <<count, list, lost, Arriving, Departing>>
    <2>1. UNCHANGED <<count, list, lost, pc>>
      BY <1>4 DEF Dispatch, Deliver, Delivered, LoopExit, Send
    <2>2. \A a \in Actors : at'[a] \in {"close", "hook", "count"}
                              <=> at[a] \in {"close", "hook", "count"}
      <3>1. at' = at \/ /\ at' = [at EXCEPT ![<<"loop", n>>] = "load"]
                        /\ at[<<"loop", n>>] = "none"
        BY <1>4 DEF Dispatch, Deliver, Delivered, LoopExit, Send
      <3> QED BY <3>1 DEF TypeRest
    <2> QED BY <2>1, <2>2 DEF Arriving, Departing
  <1>5. ASSUME ShutdownManager \/ ShutdownDispatcher \/ UNCHANGED vars
        PROVE  UNCHANGED <<count, list, lost, Arriving, Departing>>
    BY <1>5 DEF ShutdownManager, ShutdownDispatcher, vars, Arriving, Departing
  <1> QED BY <1>1, <1>2, <1>3, <1>4, <1>5 DEF Next

LEMMA CountNext ==
    ASSUME TypeRest, ActorInv, CountExact, [Next]_vars
    PROVE  CountExact'
  <1> USE ActorsAre DEF connVars, handVars, dispVars, unVars, hist
  <1>1. /\ IsFiniteSet(list) /\ IsFiniteSet(Arriving) /\ IsFiniteSet(Departing)
        /\ Cardinality(list) \in Nat /\ Cardinality(Arriving) \in Nat
        /\ Cardinality(Departing) \in Nat
    <2>1. /\ list \in SUBSET Conns /\ Arriving \in SUBSET Conns
          /\ Departing \in SUBSET Actors
      BY DEF TypeRest, Arriving, Departing
    <2> QED BY <2>1, AllFinite, FS_Subset, FS_CardinalityType
  <1>2. count \in Int
    BY DEF TypeRest
  <1>3. ASSUME NEW b \in Actors, UnregisterStore(b)
        PROVE  CountExact'
    <2> SUFFICES ASSUME ~lost' PROVE CountExact'
      BY DEF CountExact
    <2>1. /\ at[b] = "store" /\ ~lost /\ list = view[b] /\ count' = count
          /\ list' = list \ Victim(b) /\ pc' = pc
      <3>1. ~lost /\ list = view[b]
        BY <1>3 DEF UnregisterStore
      <3> QED BY <1>3, <3>1 DEF UnregisterStore
    <2>2. PICK c \in Conns : Victim(b) = {c} /\ c \in list
      BY <2>1, OneVictim DEF ActorInv, ViewInv, Registered
    <2>3. Cardinality(list') = Cardinality(list) - 1
      <3>1. list' = list \ {c}
        BY <2>1, <2>2
      <3> HIDE <2>1
      <3> QED BY <1>1, <2>2, <3>1, FS_RemoveElement
    <2>4. Departing' = Departing \cup {b} /\ b \notin Departing
      <3>1. at'[b] = "close" /\ \A a \in Actors : a # b => at'[a] = at[a]
        BY <1>3 DEF UnregisterStore, TypeRest
      <3> QED BY <2>1, <3>1 DEF Departing
    <2>5. Cardinality(Departing') = Cardinality(Departing) + 1
      BY <1>1, <2>4, FS_AddElement
    <2>6. Arriving' = Arriving
      BY <2>1 DEF Arriving
    <2> QED BY <1>1, <1>2, <2>1, <2>3, <2>5, <2>6 DEF CountExact
  <1>4. ASSUME NEW b \in Actors, UnregisterCount(b)
        PROVE  CountExact'
    <2>1. count' = count - 1 /\ UNCHANGED <<list, lost, pc>>
      BY <1>4 DEF UnregisterCount
    <2>2. Departing' = Departing \ {b} /\ b \in Departing
      BY <1>4 DEF UnregisterCount, Departing, TypeRest
    <2>3. Cardinality(Departing') = Cardinality(Departing) - 1
      BY <1>1, <2>2, FS_RemoveElement
    <2>4. Arriving' = Arriving
      BY <2>1 DEF Arriving
    <2> QED BY <1>1, <1>2, <2>1, <2>3, <2>4 DEF CountExact
  <1>5. ASSUME NEW c \in Conns, RegisterCount(c)
        PROVE  CountExact'
    <2>1. count' = count + 1 /\ UNCHANGED <<list, lost, at>>
      BY <1>5 DEF RegisterCount
    <2>2. Arriving' = Arriving \cup {c} /\ c \notin Arriving
      BY <1>5 DEF RegisterCount, Arriving, TypeRest
    <2>3. Cardinality(Arriving') = Cardinality(Arriving) + 1
      BY <1>1, <2>2, FS_AddElement
    <2>4. Departing' = Departing
      BY <2>1 DEF Departing
    <2> QED BY <1>1, <1>2, <2>1, <2>3, <2>4 DEF CountExact
  <1>6. ASSUME NEW c \in Conns, RegisterStore(c)
        PROVE  CountExact'
    <2> SUFFICES ASSUME ~lost' PROVE CountExact'
      BY DEF CountExact
    <2>1. /\ ~lost /\ list' = list \cup {c} /\ UNCHANGED <<count, at>>
          /\ pc[c] = "store"
      BY <1>6 DEF RegisterStore
    <2>2. c \notin list
      BY <2>1 DEF ActorInv, Registered
    <2>3. Cardinality(list') = Cardinality(list) + 1
      BY <1>1, <2>1, <2>2, FS_AddElement
    <2>4. Arriving' = Arriving \ {c} /\ c \in Arriving
      BY <1>6 DEF RegisterStore, Arriving, TypeRest
    <2>5. Cardinality(Arriving') = Cardinality(Arriving) - 1
      BY <1>1, <2>4, FS_RemoveElement
    <2>6. Departing' = Departing
      BY <2>1 DEF Departing
    <2> QED BY <1>1, <1>2, <2>1, <2>3, <2>5, <2>6 DEF CountExact
  <1>7. CASE /\ \A a \in Actors : ~UnregisterStore(a) /\ ~UnregisterCount(a)
             /\ \A c \in Conns : ~RegisterCount(c) /\ ~RegisterStore(c)
    <2>1. UNCHANGED <<count, list, lost, Arriving, Departing>>
      BY <1>7, CountFrame
    <2> QED BY <2>1 DEF CountExact
  <1> QED BY <1>3, <1>4, <1>5, <1>6, <1>7

LEMMA CountInit == Init => TypeRest /\ ActorInv /\ CountExact
  <1> SUFFICES ASSUME Init PROVE TypeRest /\ ActorInv /\ CountExact
    OBVIOUS
  <1>1. TypeRest
    <2>1. /\ closed \in [Conns -> BOOLEAN] /\ peer \in [Conns -> BOOLEAN]
          /\ active \in BOOLEAN /\ lost \in BOOLEAN
      BY Zenon DEF Init
    <2>2. /\ sub \in 0..MaxSubs /\ subCount \in 0..MaxSubs
          /\ faults \in 0..MaxFaults /\ count \in Int
      BY ConnectionsAssumption DEF Init
    <2> QED BY <2>1, <2>2 DEF Init, TypeRest
  <1>2. ActorInv
    <2>1. CallerInv /\ list \subseteq Registered
      BY ActorsAre DEF Init, CallerInv, Registered
    <2>2. LoopInv
      BY ActorsAre DEF Init, LoopInv
    <2>3. ViewInv
      BY DEF Init, ViewInv
    <2> QED BY <2>1, <2>2, <2>3 DEF ActorInv
  <1>3. list = {} /\ Arriving = {} /\ Departing = {} /\ count = 0
    BY DEF Init, Arriving, Departing
  <1> QED BY <1>1, <1>2, <1>3, FS_EmptySet DEF CountExact

(* As long as no update of the list was lost, connectionCount is the       *)
(* number of listed connections and of the updates under way, whichever of *)
(* handler, monitor and dispatch loops unregister the same connection one  *)
(* after the other.  Unregisters that overlap and both find the connection *)
(* are a lost update: they count it down twice, and are exempt.            *)
THEOREM CountCorrect == Spec => []CountExact
  <1>1. TypeRest /\ ActorInv /\ CountExact /\ [Next]_vars
          => (TypeRest /\ ActorInv /\ CountExact)'
    BY TypeStep, ActorNext, CountNext
  <1> QED BY <1>1, CountInit, PTL DEF Spec

(* Every variable of the registry stays in its type; the count never falls *)
(* below zero unless an update of the list was lost.                       *)
THEOREM ConnectionsTypeCorrect == Spec => []TypeOK
  <1>1. TypeRest /\ ActorInv /\ CountExact /\ [Next]_vars
          => (TypeRest /\ ActorInv /\ CountExact)'
    BY TypeStep, ActorNext, CountNext
  <1>2. TypeRest /\ CountExact => TypeOK
    BY CountNatural
  <1> QED BY <1>1, <1>2, CountInit, PTL DEF Spec

-----------------------------------------------------------------------------
(* The list, while none of its updates is lost.                             *)

LEMMA ListMoves ==
    ASSUME [Next]_vars, ~lost'
    PROVE  /\ ~lost
           /\ \/ list' = list
              \/ \E b \in Actors : UnregisterStore(b) /\ list' = list \ Victim(b)
              \/ \E c \in Conns : RegisterStore(c) /\ list' = list \cup {c}
  <1> USE DEF connVars, handVars, dispVars, unVars, hist
  <1>1. ASSUME NEW b \in Actors, UnregisterStore(b)
        PROVE  ~lost /\ list' = list \ Victim(b)
    BY <1>1 DEF UnregisterStore
  <1>2. ASSUME NEW c \in Conns, RegisterStore(c)
        PROVE  ~lost /\ list' = list \cup {c}
    BY <1>2 DEF RegisterStore
  <1>3. ASSUME NEW b \in Actors, Unregister(b), ~UnregisterStore(b)
        PROVE  UNCHANGED <<list, lost>>
    BY <1>3 DEF Unregister, UnregisterLoad, UnregisterClose, UnregisterHook,
                UnregisterCount
  <1>4. ASSUME NEW c \in Conns, Connect(c), ~RegisterStore(c)
        PROVE  UNCHANGED <<list, lost>>
    BY <1>4 DEF Connect, RegisterCount, RegisterLoad, RegisterHook,
         RegisterHookFails, MarkActive, ReadError, CheckRemaining,
         MarkInactive, MarkFails
  <1>5. ASSUME NEW c \in Conns, PeerGone(c) \/ MonitorTick(c) \/ MonitorExit(c)
        PROVE  UNCHANGED <<list, lost>>
    BY <1>5 DEF PeerGone, MonitorTick, MonitorExit
  <1>6. ASSUME NEW n \in Loops, Dispatch(n)
        PROVE  UNCHANGED <<list, lost>>
    BY <1>6 DEF Dispatch, Deliver, Delivered, LoopExit, Send
  <1>7. ASSUME ShutdownManager \/ ShutdownDispatcher \/ UNCHANGED vars
        PROVE  UNCHANGED <<list, lost>>
    BY <1>7 DEF ShutdownManager, ShutdownDispatcher, vars
  <1>8. CASE UNCHANGED <<list, lost>>
    BY <1>8
  <1> QED BY <1>1, <1>2, <1>3, <1>4, <1>5, <1>6, <1>7, <1>8 DEF Next

(* A connection is closed by the Unregister that unlisted it, or with all  *)
(* that are listed when the server goes down, and stays closed.            *)
LEMMA ClosedMoves ==
    ASSUME TypeRest, [Next]_vars, NEW c \in Conns
    PROVE  /\ closed[c] => closed'[c]
           /\ closed'[c] =>
                \/ closed[c]
                \/ \E b \in Actors : UnregisterClose(b) /\ c \in Victim(b)
                \/ ShutdownManager /\ c \in list
  <1> USE DEF connVars, handVars, dispVars, unVars, hist
  <1>1. ASSUME NEW b \in Actors, UnregisterClose(b)
        PROVE  /\ closed[c] => closed'[c]
               /\ closed'[c] => closed[c] \/ c \in Victim(b)
    BY <1>1, Zenon DEF UnregisterClose
  <1>2. ASSUME ShutdownManager
        PROVE  /\ closed[c] => closed'[c]
               /\ closed'[c] => closed[c] \/ c \in list
    BY <1>2, Zenon DEF ShutdownManager
  <1>3. ASSUME NEW b \in Actors, Unregister(b), ~UnregisterClose(b)
        PROVE  UNCHANGED closed
    BY <1>3 DEF Unregister, UnregisterLoad, UnregisterStore, UnregisterHook,
                UnregisterCount
  <1>4. ASSUME NEW d \in Conns, Connect(d)
        PROVE  UNCHANGED closed
    BY <1>4 DEF Connect, RegisterCount, RegisterLoad, RegisterStore,
         RegisterHook, RegisterHookFails, MarkActive, ReadError,
         CheckRemaining, MarkInactive, MarkFails
  <1>5. ASSUME NEW d \in Conns, PeerGone(d) \/ MonitorTick(d) \/ MonitorExit(d)
        PROVE  UNCHANGED closed
    BY <1>5 DEF PeerGone, MonitorTick, MonitorExit
  <1>6. ASSUME NEW n \in Loops, Dispatch(n)
        PROVE  UNCHANGED closed
    BY <1>6 DEF Dispatch, Deliver, Delivered, LoopExit, Send
  <1>7. ASSUME ShutdownDispatcher \/ UNCHANGED vars
        PROVE  UNCHANGED closed
    BY <1>7 DEF ShutdownDispatcher, vars
  <1>8. CASE UNCHANGED closed
    BY <1>8, Zenon
  <1> QED BY <1>1, <1>2, <1>3, <1>4, <1>5, <1>6, <1>7, <1>8, Zenon DEF Next

(* The server does not come up again, and a fault is not forgotten.        *)
LEMMA DownMoves ==
    ASSUME TypeRest, [Next]_vars
    PROVE  /\ down' = "no" => down = "no" /\ ~ShutdownManager
           /\ down' # "down" => down # "down" /\ ~ShutdownDispatcher
           /\ faults # 0 => faults' # 0
  <1> USE DEF connVars, handVars, dispVars, unVars, hist
  <1>1. CASE UNCHANGED <<down, faults>>
    BY <1>1 DEF ShutdownManager, ShutdownDispatcher
  <1>2. ASSUME NEW b \in Actors, Unregister(b)
        PROVE  UNCHANGED <<down, faults>>
    BY <1>2 DEF Unregister, UnregisterLoad, UnregisterStore, UnregisterClose,
                UnregisterHook, UnregisterCount
  <1>3. ASSUME NEW d \in Conns, Connect(d)
        PROVE  UNCHANGED <<down, faults>> \/ (down' = down /\ faults' = faults + 1)
    BY <1>3 DEF Connect, RegisterCount, RegisterLoad, RegisterStore,
         RegisterHook, RegisterHookFails, MarkActive, ReadError,
         CheckRemaining, MarkInactive, MarkFails
  <1>4. CASE down' = down /\ faults' = faults + 1
    BY <1>4, ConnectionsAssumption
       DEF ShutdownManager, ShutdownDispatcher, TypeRest
  <1>5. ASSUME NEW d \in Conns, PeerGone(d) \/ MonitorTick(d) \/ MonitorExit(d)
        PROVE  UNCHANGED <<down, faults>>
    BY <1>5 DEF PeerGone, MonitorTick, MonitorExit
  <1>6. ASSUME NEW n \in Loops, Dispatch(n)
        PROVE  UNCHANGED <<down, faults>>
    BY <1>6 DEF Dispatch, Deliver, Delivered, LoopExit, Send
  <1>7. CASE ShutdownManager \/ ShutdownDispatcher
    BY <1>7 DEF ShutdownManager, ShutdownDispatcher
  <1>8. CASE UNCHANGED vars
    BY <1>1, <1>8 DEF vars
  <1> QED BY <1>1, <1>2, <1>3, <1>4, <1>5, <1>6, <1>7, <1>8 DEF Next

(* What is closed or about to be closed stays so.                          *)
LEMMA ClosingStays ==
    ASSUME TypeRest, ActorInv, [Next]_vars, NEW c \in Conns, Closing(c)
    PROVE  Closing(c)'
  <1>1. CASE closed[c]
    BY <1>1, ClosedMoves, Zenon DEF Closing
  <1>2. ASSUME NEW a \in Actors, at[a] = "close", Victim(a) = {c}
        PROVE  Closing(c)'
    <2>1. Victim(a)' = {c}
      BY <1>2, VictimStays
    <2>2. CASE at'[a] = "close"
      BY <2>1, <2>2 DEF Closing
    <2>3. CASE at'[a] # "close"
      <3>1. UnregisterClose(a)
        BY <1>2, <2>3, CallsMove
           DEF Unregister, UnregisterLoad, UnregisterStore, UnregisterHook,
               UnregisterCount
      <3>2. closed'[c]
        BY <1>2, <3>1, Zenon DEF UnregisterClose
      <3> QED BY <3>2, Zenon DEF Closing
    <2> QED BY <2>2, <2>3
  <1> QED BY <1>1, <1>2 DEF Closing

LEMMA ListNext ==
    ASSUME TypeRest, ActorInv, ListInv, [Next]_vars, ~lost'
    PROVE  ListInv'
  <1>1. ASSUME NEW c \in Conns, closed'[c]
        PROVE  c \in Registered'
    <2>1. CASE closed[c]
      BY <2>1, RegisteredGrows DEF ListInv
    <2>2. ASSUME NEW b \in Actors, UnregisterClose(b), c \in Victim(b)
          PROVE  c \in Registered'
      BY <2>2, OneVictim, RegisteredGrows DEF UnregisterClose
    <2>3. CASE c \in list
      BY <2>3, RegisteredGrows DEF ActorInv
    <2> QED BY <1>1, <2>1, <2>2, <2>3, ClosedMoves
  <1>2. ASSUME NEW c \in Registered'
        PROVE  c \in list' \/ Closing(c)'
    <2>1. c \in Conns
      BY DEF Registered
    <2>2. CASE c \notin Registered
      <3>1. RegisterStore(c)
        BY <2>1, <2>2, RegisteredGrows
      <3> QED BY <3>1 DEF RegisterStore
    <2>3. CASE Closing(c)
      BY <2>1, <2>3, ClosingStays
    <2>4. CASE c \in list
      <3>1. ASSUME NEW b \in Actors, UnregisterStore(b), c \in Victim(b)
            PROVE  Closing(c)'
        <4>1. at[b] = "store" /\ at'[b] = "close"
          BY <3>1 DEF UnregisterStore, TypeRest
        <4>2. Victim(b)' = {c}
          BY <3>1, <4>1, OneVictim, VictimStays
        <4> QED BY <4>1, <4>2 DEF Closing
      <3> QED BY <2>4, <3>1, ListMoves
    <2> QED BY <2>1, <2>2, <2>3, <2>4 DEF ListInv
  <1>3. ASSUME NEW a \in Actors, at'[a] = "close"
        PROVE  Victim(a)' \cap list' = {}
    <2>1. CASE at[a] = "close"
      <3>1. Victim(a)' = Victim(a) /\ Victim(a) \cap list = {}
        BY <2>1, VictimStays DEF ListInv
      <3>2. Victim(a) \subseteq Registered
        BY <2>1, OneVictim
      <3>3. \A c \in Conns : RegisterStore(c) => c \notin Registered
        BY DEF RegisterStore, Registered
      <3> QED BY <3>1, <3>2, <3>3, ListMoves
    <2>2. CASE at[a] # "close"
      <3>1. UnregisterStore(a)
        BY <1>3, <2>2, CallsMove
           DEF Unregister, UnregisterLoad, UnregisterClose, UnregisterHook,
               UnregisterCount, NotFound, TypeRest
      <3>2. Victim(a)' = Victim(a)
        BY <3>1, VictimStays DEF UnregisterStore
      <3> QED BY <3>1, <3>2 DEF UnregisterStore
    <2> QED BY <2>1, <2>2
  <1>4. ASSUME down' = "no", NEW c \in list'
        PROVE  ~closed'[c]
    <2>1. down = "no" /\ ~ShutdownManager
      BY <1>4, DownMoves
    <2>2. CASE c \in list
      <3>1. c \in Conns /\ ~closed[c]
        BY <2>1, <2>2 DEF ListInv, TypeRest
      <3>2. \A b \in Actors : UnregisterClose(b) => c \notin Victim(b)
        BY <2>2 DEF ListInv, UnregisterClose
      <3> QED BY <2>1, <3>1, <3>2, ClosedMoves, Zenon
    <2>3. CASE c \notin list
      <3>1. c \in Conns /\ RegisterStore(c)
        BY <1>4, <2>3, ListMoves
      <3>2. ~closed[c]
        BY <3>1 DEF RegisterStore, ListInv, Registered
      <3>3. closed' = closed
        BY <3>1 DEF RegisterStore, connVars
      <3> QED BY <3>2, <3>3, Zenon
    <2> QED BY <2>2, <2>3
  <1> QED BY <1>1, <1>2, <1>3, <1>4 DEF ListInv

-----------------------------------------------------------------------------
(* The subscription.                                                        *)

LEMMA ServedNext ==
    ASSUME TypeRest, ActorInv, ListInv, ServedInv, [Next]_vars
    PROVE  ServedInv'
  <1> USE ConnectionsAssumption DEF connVars, handVars, dispVars, unVars, hist
  <1> SUFFICES ASSUME down' # "down", NEW c \in Conns, pc'[c] \in {"ack", "read"}
               PROVE  sub' # 0 \/ faults' # 0 \/ Closing(c)'
    BY DEF ServedInv
  <1>1. down # "down" /\ ~ShutdownDispatcher /\ (faults # 0 => faults' # 0)
    BY DownMoves
  <1>2. Closing(c) => Closing(c)'
    BY ClosingStays
  <1>3. CASE RegisterHook(c)
    BY <1>3 DEF RegisterHook, TypeRest
  <1>4. CASE RegisterHookFails(c)
    BY <1>4 DEF RegisterHookFails, TypeRest
  <1>5. CASE ~RegisterHook(c) /\ ~RegisterHookFails(c)
    <2>1. pc[c] \in {"ack", "read"}
      <3>1. CASE UNCHANGED pc
        BY <3>1
      <3>2. ASSUME NEW d \in Conns, Connect(d)
            PROVE  pc[c] \in {"ack", "read"}
        BY <1>5, <3>2 DEF Connect, RegisterCount, RegisterLoad, RegisterStore,
             RegisterHook, RegisterHookFails, MarkActive, ReadError,
             CheckRemaining, MarkInactive, MarkFails, TypeRest
      <3>3. ASSUME NEW b \in Actors, Unregister(b)
            PROVE  UNCHANGED pc
        BY <3>3 DEF Unregister, UnregisterLoad, UnregisterStore,
             UnregisterClose, UnregisterHook, UnregisterCount
      <3>4. ASSUME NEW d \in Conns,
                   PeerGone(d) \/ MonitorTick(d) \/ MonitorExit(d)
            PROVE  UNCHANGED pc
        BY <3>4 DEF PeerGone, MonitorTick, MonitorExit
      <3>5. ASSUME NEW n \in Loops, Dispatch(n)
            PROVE  UNCHANGED pc
        BY <3>5 DEF Dispatch, Deliver, Delivered, LoopExit, Send
      <3>6. ASSUME ShutdownManager \/ ShutdownDispatcher \/ UNCHANGED vars
            PROVE  UNCHANGED pc
        BY <3>6 DEF ShutdownManager, ShutdownDispatcher, vars
      <3> QED BY <3>1, <3>2, <3>3, <3>4, <3>5, <3>6 DEF Next
    <2>2. sub # 0 \/ faults # 0 \/ Closing(c)
      BY <1>1, <2>1 DEF ServedInv
    <2>3. c \in Registered
      BY <2>1 DEF Registered
    <2>4. ASSUME sub # 0, sub' = 0 PROVE list = {}
      <3>1. ASSUME NEW b \in Actors, Unregister(b)
            PROVE  list = {}
        BY <2>4, <3>1 DEF Unregister, UnregisterLoad, UnregisterStore,
             UnregisterClose, UnregisterHook, UnregisterCount, Disconnected
      <3>2. ASSUME NEW d \in Conns, Connect(d)
            PROVE  FALSE
        BY <2>4, <3>2 DEF Connect, RegisterCount, RegisterLoad, RegisterStore,
             RegisterHook, RegisterHookFails, MarkActive, ReadError,
             CheckRemaining, MarkInactive, MarkFails
      <3>3. ASSUME NEW d \in Conns,
                   PeerGone(d) \/ MonitorTick(d) \/ MonitorExit(d)
            PROVE  FALSE
        BY <2>4, <3>3 DEF PeerGone, MonitorTick, MonitorExit
      <3>4. ASSUME NEW n \in Loops, Dispatch(n)
            PROVE  FALSE
        BY <2>4, <3>4 DEF Dispatch, Deliver, Delivered, LoopExit, Send
      <3>5. ASSUME ShutdownManager \/ UNCHANGED vars
            PROVE  FALSE
        BY <2>4, <3>5 DEF ShutdownManager, vars
      <3> QED BY <1>1, <3>1, <3>2, <3>3, <3>4, <3>5 DEF Next
    <2>5. sub # 0 /\ sub' = 0 => Closing(c)
      BY <2>3, <2>4 DEF ListInv
    <2> QED BY <1>1, <1>2, <2>2, <2>5
  <1> QED BY <1>3, <1>4, <1>5

-----------------------------------------------------------------------------
(* The monitors.                                                            *)

LEMMA WatchedNext ==
    ASSUME TypeRest, ActorInv, ListedIsWatched, ~lost => ListInv, [Next]_vars
    PROVE  ListedIsWatched'
  <1> USE ActorsAre DEF connVars, handVars, dispVars, unVars, hist
  <1> DEFINE Watched(c) ==
          \/ mon[c] = "on" \/ down # "no" \/ lost
          \/ \E a \in Actors : at[a] \in {"load", "store"} /\ Victim(a) = {c}
  <1> SUFFICES ASSUME ~lost', down' = "no", NEW c \in list'
               PROVE  Watched(c)'
    BY DEF ListedIsWatched
  <1>1. ~lost /\ down = "no" /\ ListInv
    BY ListMoves, DownMoves
  <1>2. CASE c \notin list
    <2>1. c \in Conns /\ RegisterStore(c)
      BY <1>2, ListMoves
    <2>2. mon'[c] = "on"
      BY <2>1 DEF RegisterStore, TypeRest
    <2> QED BY <2>2
  <1>3. CASE c \in list
    <2>1. c \in Conns
      BY <1>3 DEF TypeRest
    <2>2. ASSUME NEW a \in Actors, at[a] \in {"load", "store"}, Victim(a) = {c}
          PROVE  Watched(c)'
      <3>1. Victim(a)' = {c}
        BY <2>2, VictimStays
      <3>2. at'[a] \in {"load", "store"}
        <4>1. ~UnregisterStore(a)
          BY <2>2 DEF UnregisterStore
        <4>2. UnregisterLoad(a) => at'[a] = "store"
          BY <1>3, <2>2 DEF UnregisterLoad, TypeRest
        <4>3. at'[a] # at[a] => UnregisterLoad(a)
          BY <2>2, <4>1, CallsMove
             DEF Unregister, UnregisterClose, UnregisterHook, UnregisterCount
        <4> QED BY <2>2, <4>2, <4>3
      <3> QED BY <3>1, <3>2
    <2>3. CASE mon[c] = "on"
      <3>1. CASE mon'[c] = "on"
        BY <3>1
      <3>2. CASE MonitorTick(c)
        <4>1. ~closed[c]
          BY <1>1, <1>3 DEF ListInv
        <4>2. at' = [at EXCEPT ![<<"monitor", c>>] = "load"]
          BY <3>2, <4>1, Zenon DEF MonitorTick
        <4>3. at'[<<"monitor", c>>] = "load"
          BY <2>1, <4>2 DEF TypeRest
        <4>4. Victim(<<"monitor", c>>)' = {c}
          BY <2>1 DEF Victim
        <4> QED BY <2>1, <4>3, <4>4
      <3>3. CASE mon'[c] # "on" /\ ~MonitorTick(c)
        <4>1. ASSUME NEW b \in Actors, Unregister(b)
              PROVE  UNCHANGED mon
          BY <4>1 DEF Unregister, UnregisterLoad, UnregisterStore,
               UnregisterClose, UnregisterHook, UnregisterCount
        <4>2. ASSUME NEW d \in Conns, Connect(d)
              PROVE  UNCHANGED mon \/ mon' = [mon EXCEPT ![d] = "on"]
          BY <4>2 DEF Connect, RegisterCount, RegisterLoad, RegisterStore,
               RegisterHook, RegisterHookFails, MarkActive, ReadError,
               CheckRemaining, MarkInactive, MarkFails
        <4>3. ASSUME NEW d \in Conns, PeerGone(d)
              PROVE  UNCHANGED mon
          BY <4>3 DEF PeerGone
        <4>4. ASSUME NEW d \in Conns, MonitorTick(d) \/ MonitorExit(d)
              PROVE  d = c
          BY <2>1, <2>3, <3>3, <4>4 DEF MonitorTick, MonitorExit, TypeRest
        <4>5. ~MonitorExit(c)
          BY <1>1, <2>3 DEF MonitorExit
        <4>6. ASSUME NEW n \in Loops, Dispatch(n)
              PROVE  UNCHANGED mon
          BY <4>6 DEF Dispatch, Deliver, Delivered, LoopExit, Send
        <4>7. ASSUME ShutdownManager \/ ShutdownDispatcher \/ UNCHANGED vars
              PROVE  UNCHANGED mon
          BY <4>7 DEF ShutdownManager, ShutdownDispatcher, vars
        <4>8. mon \in [Conns -> {"off", "on", "unregister", "exit"}]
          BY DEF TypeRest
        <4>9. ~(UNCHANGED mon) /\ \A d \in Conns : mon' # [mon EXCEPT ![d] = "on"]
          BY <2>1, <2>3, <3>3, <4>8
        <4> QED BY <3>3, <4>1, <4>2, <4>3, <4>4, <4>5, <4>6, <4>7, <4>9 DEF Next
      <3> QED BY <3>1, <3>2, <3>3
    <2> QED BY <1>1, <1>3, <2>2, <2>3 DEF ListedIsWatched
  <1> QED BY <1>2, <1>3

-----------------------------------------------------------------------------
(* The active flag.                                                         *)

(* A handler's place changes with a step of the handler itself.            *)
LEMMA HandlerMoves ==
    ASSUME TypeRest, [Next]_vars, NEW c \in Conns, pc'[c] # pc[c]
    PROVE  Connect(c)
  <1> USE DEF connVars, handVars, dispVars, unVars, hist
  <1>1. ASSUME NEW d \in Conns, Connect(d)
        PROVE  c = d
    BY <1>1 DEF Connect, RegisterCount, RegisterLoad, RegisterStore,
         RegisterHook, RegisterHookFails, MarkActive, ReadError,
         CheckRemaining, MarkInactive, MarkFails, TypeRest
  <1>2. ASSUME NEW b \in Actors, Unregister(b)
        PROVE  UNCHANGED pc
    BY <1>2 DEF Unregister, UnregisterLoad, UnregisterStore, UnregisterClose,
                UnregisterHook, UnregisterCount
  <1>3. ASSUME NEW d \in Conns, PeerGone(d) \/ MonitorTick(d) \/ MonitorExit(d)
        PROVE  UNCHANGED pc
    BY <1>3 DEF PeerGone, MonitorTick, MonitorExit
  <1>4. ASSUME NEW n \in Loops, Dispatch(n)
        PROVE  UNCHANGED pc
    BY <1>4 DEF Dispatch, Deliver, Delivered, LoopExit, Send
  <1>5. ASSUME ShutdownManager \/ ShutdownDispatcher \/ UNCHANGED vars
        PROVE  UNCHANGED pc
    BY <1>5 DEF ShutdownManager, ShutdownDispatcher, vars
  <1> QED BY <1>1, <1>2, <1>3, <1>4, <1>5 DEF Next

(* Only MarkActive sets the flag.                                          *)
LEMMA ActiveMoves ==
    ASSUME [Next]_vars, active', ~active
    PROVE  \E c \in Conns : MarkActive(c)
  <1> USE DEF connVars, handVars, dispVars, unVars, hist
  <1>1. ASSUME NEW d \in Conns, Connect(d), ~MarkActive(d)
        PROVE  FALSE
    BY <1>1, Zenon DEF Connect, RegisterCount, RegisterLoad, RegisterStore,
         RegisterHook, RegisterHookFails, ReadError,
         CheckRemaining, MarkInactive, MarkFails
  <1>2. ASSUME NEW b \in Actors, Unregister(b)
        PROVE  FALSE
    BY <1>2, Zenon DEF Unregister, UnregisterLoad, UnregisterStore,
         UnregisterClose, UnregisterHook, UnregisterCount
  <1>3. ASSUME NEW d \in Conns, PeerGone(d) \/ MonitorTick(d) \/ MonitorExit(d)
        PROVE  FALSE
    BY <1>3, Zenon DEF PeerGone, MonitorTick, MonitorExit
  <1>4. ASSUME NEW n \in Loops, Dispatch(n)
        PROVE  FALSE
    BY <1>4, Zenon DEF Dispatch, Deliver, Delivered, LoopExit, Send
  <1>5. ASSUME ShutdownManager \/ ShutdownDispatcher \/ UNCHANGED vars
        PROVE  FALSE
    BY <1>5, Zenon DEF ShutdownManager, ShutdownDispatcher, vars
  <1> QED BY <1>1, <1>2, <1>3, <1>4, <1>5 DEF Next

LEMMA LeftNext ==
    ASSUME TypeRest, ActorInv, LeftInv, [Next]_vars, ~lost'
    PROVE  LeftInv'
  <1> USE ActorsAre DEF connVars, handVars, dispVars, unVars, hist
  <1> DEFINE h(c) == <<"handler", c>>
  <1> SUFFICES ASSUME NEW c \in Conns, c \in list',
                      \/ pc'[c] = "leave" /\ at'[h(c)] \notin {"load", "store"}
                      \/ pc'[c] \in {"clear", "done"}
               PROVE  FALSE
    BY DEF LeftInv
  <1>1. c \in list
    <2>1. ~RegisterStore(c)
      BY DEF RegisterStore, TypeRest
    <2> QED BY <2>1, ListMoves
  <1>2. /\ ~(pc[c] = "leave" /\ at[h(c)] \notin {"load", "store"})
        /\ pc[c] \notin {"clear", "done"}
    BY <1>1 DEF LeftInv
  <1>3. pc'[c] = pc[c]
    <2>1. ASSUME Connect(c) PROVE FALSE
      <3>1. pc[c] = "leave" => at[h(c)] # "none"
        BY <1>2
      <3>2. ReadError(c) => pc'[c] = "leave" /\ at'[h(c)] = "load"
        BY DEF ReadError, TypeRest
      <3> QED BY <1>2, <2>1, <3>1, <3>2
              DEF Connect, RegisterCount, RegisterLoad, RegisterStore,
                  RegisterHook, RegisterHookFails, MarkActive, ReadError,
                  CheckRemaining, MarkInactive, MarkFails, TypeRest
    <2> QED BY <2>1, HandlerMoves
  <1>4. pc[c] = "leave" /\ at[h(c)] \in {"load", "store"}
          /\ at'[h(c)] \notin {"load", "store"}
    BY <1>2, <1>3
  <1>5. Unregister(h(c)) /\ Victim(h(c)) = {c}
    BY <1>4, CallsMove, VictimOf
  <1>6. CASE UnregisterLoad(h(c))
    BY <1>1, <1>4, <1>5, <1>6 DEF UnregisterLoad, TypeRest
  <1>7. CASE UnregisterStore(h(c))
    BY <1>5, <1>7 DEF UnregisterStore
  <1> QED BY <1>4, <1>5, <1>6, <1>7
          DEF Unregister, UnregisterClose, UnregisterHook, UnregisterCount

LEMMA ActiveNext ==
    ASSUME TypeRest, ActorInv, FlagInv, [Next]_vars
    PROVE  ActiveInv'
  <1> USE ActorsAre, ConnectionsAssumption
      DEF connVars, handVars, dispVars, unVars, hist
  <1> DEFINE Here == {"hook", "ack", "read", "leave", "clear"}
  <1> SUFFICES ASSUME active', faults' = 0
               PROVE  \E c \in Conns : pc'[c] \in Here
    BY DEF ActiveInv
  <1>1. faults = 0
    BY DownMoves
  <1>2. CASE ~active
    <2>1. PICK c \in Conns : MarkActive(c)
      BY <1>2, ActiveMoves
    <2>2. pc'[c] = "read"
      BY <2>1 DEF MarkActive, TypeRest
    <2> QED BY <2>2
  <1>3. CASE active
    <2>1. PICK c \in Conns : pc[c] \in Here
      BY <1>1, <1>3 DEF FlagInv, ActiveInv
    <2>2. CASE pc'[c] \in Here
      BY <2>2
    <2>3. CASE pc'[c] \notin Here
      <3>1. Connect(c)
        BY <2>1, <2>3, HandlerMoves
      <3>2. ~MarkInactive(c)
        BY Zenon DEF MarkInactive
      <3>3. ~MarkFails(c) /\ ~RegisterHookFails(c)
        <4>1. faults' # faults + 1
          BY <1>1
        <4> QED BY <4>1 DEF MarkFails, RegisterHookFails
      <3>4. CheckRemaining(c)
        BY <2>1, <2>3, <3>1, <3>2, <3>3
           DEF Connect, RegisterCount, RegisterLoad, RegisterStore,
               RegisterHook, MarkActive, ReadError, TypeRest
      <3>5. list # {} /\ pc[c] = "leave" /\ at[<<"handler", c>>] = "none"
        BY <2>3, <3>4 DEF CheckRemaining, Gone, TypeRest
      <3>6. c \notin list
        BY <3>5 DEF FlagInv, LeftInv
      <3>7. PICK d \in Conns : d \in list
        BY <3>5 DEF TypeRest
      <3>8. pc[d] \in Here
        <4>1. d \in Registered /\ pc[d] \notin {"clear", "done"}
          BY <3>7 DEF FlagInv, LeftInv, ActorInv
        <4> QED BY <4>1 DEF Registered, TypeRest
      <3>9. pc'[d] = pc[d]
        BY <3>4, <3>6, <3>7 DEF CheckRemaining, TypeRest
      <3> QED BY <3>8, <3>9
    <2> QED BY <2>2, <2>3
  <1> QED BY <1>2, <1>3

-----------------------------------------------------------------------------
(* The inductive invariant, and what follows from it.                       *)

ConnInv ==
    /\ TypeRest /\ ActorInv /\ ListedIsWatched
    /\ ~lost => ListInv /\ ServedInv /\ FlagInv

LEMMA ConnInit == Init => ConnInv
  <1> SUFFICES ASSUME Init PROVE ConnInv
    OBVIOUS
  <1>1. TypeRest /\ ActorInv
    BY CountInit
  <1>2. list = {} /\ Registered = {} /\ \A a \in Actors : at[a] = "none"
    BY DEF Init, Registered
  <1>3. \A c \in Conns : ~closed[c]
    BY Zenon DEF Init
  <1>4. ListInv /\ ListedIsWatched
    BY <1>2, <1>3 DEF ListInv, ListedIsWatched
  <1>5. ~active
    BY Zenon DEF Init
  <1>6. ServedInv /\ FlagInv
    BY <1>2, <1>5 DEF Init, ServedInv, FlagInv, LeftInv, ActiveInv
  <1> QED BY <1>1, <1>4, <1>6 DEF ConnInv

LEMMA ConnNext == ConnInv /\ [Next]_vars => ConnInv'
  <1> SUFFICES ASSUME ConnInv, [Next]_vars PROVE ConnInv'
    OBVIOUS
  <1>1. TypeRest' /\ ActorInv'
    BY TypeStep, ActorNext DEF ConnInv
  <1>2. ListedIsWatched'
    BY WatchedNext DEF ConnInv
  <1>3. ASSUME ~lost'
        PROVE  ListInv' /\ ServedInv' /\ FlagInv'
    <2>1. TypeRest /\ ActorInv /\ ListInv /\ ServedInv /\ FlagInv
      BY <1>3, ListMoves DEF ConnInv
    <2>2. LeftInv' /\ ActiveInv'
      BY <1>3, <2>1, LeftNext, ActiveNext DEF FlagInv
    <2> QED BY <1>3, <2>1, <2>2, ListNext, ServedNext DEF FlagInv
  <1> QED BY <1>1, <1>2, <1>3 DEF ConnInv

(* As long as no update of the list is lost, an established connection is  *)
(* listed and its gateway subscribed, however the connections of one       *)
(* gateway come and go: the dispatcher ends the subscription only when     *)
(* every connection is being closed.                                       *)
THEOREM ConnectedServed == Spec => []ConnectedIsServed
  <1>1. ConnInv => ConnectedIsServed
    <2> SUFFICES ASSUME ConnInv, NEW c \in Conns, Established(c), down = "no",
                        ~lost
                 PROVE  c \in list /\ (sub # 0 \/ faults # 0)
      BY DEF ConnectedIsServed
    <2>1. pc[c] \in {"ack", "read"} /\ ~Closing(c)
      BY DEF Established, Closing
    <2>2. c \in Registered
      BY <2>1 DEF Registered
    <2> QED BY <2>1, <2>2 DEF ConnInv, ListInv, ServedInv
  <1> QED BY <1>1, ConnInit, ConnNext, PTL DEF Spec

(* As long as no update of the list is lost and the server is up, a listed *)
(* connection has a running heartbeat monitor or somebody who unregisters  *)
(* it: the monitor does not end and leave it behind.                       *)
THEOREM ListedWatched == Spec => []ListedIsWatched
  <1>1. ConnInv => ListedIsWatched
    BY DEF ConnInv
  <1> QED BY <1>1, ConnInit, ConnNext, PTL DEF Spec

(* The handler that ends last finds the list empty and clears the flag,    *)
(* whoever unregistered its connection, unless a write failed or an update *)
(* of the list was lost.                                                   *)
THEOREM FlagCleared == Spec => []InactiveWhenGone
  <1>1. ConnInv => InactiveWhenGone
    BY DEF ConnInv, FlagInv, ActiveInv, InactiveWhenGone
  <1> QED BY <1>1, ConnInit, ConnNext, PTL DEF Spec
=============================================================================
