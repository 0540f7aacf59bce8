--------------------------- MODULE EventHubProofs ---------------------------
(***************************************************************************)
(* TLAPS proofs about EventHub: type correctness and the safety of the     *)
(* subscriber channels.                                                    *)
(***************************************************************************)
EXTENDS EventHub, TLAPS

(* What makes SubscribersOpen and BufferBounded inductive.                 *)
UnusedEmpty == \A c \in Channels : chan[c] = "unused" => buf[c] = <<>>
ChanInv == SubscribersOpen /\ BufferBounded /\ UnusedEmpty

-----------------------------------------------------------------------------
(* Type correctness.                                                        *)

(* The initial state is well typed.                                        *)
LEMMA TypeInit == Init => TypeOK
  BY HubAssumption DEF Init, TypeOK, PassTypeOK

(* The end of a poll of a gateway leaves the locals of a pass well typed.  *)
LEMMA ContinueType ==
  ASSUME PassTypeOK, NEW r \in Replicas,
         NEW rest \in SUBSET (Gateways \X Nat), Continue(r, rest)
  PROVE  PassTypeOK'
<1> USE DEF PassTypeOK, DropWork
<1>1. CASE EndPass(r)
  BY <1>1 DEF EndPass
<1>2. CASE ~EndPass(r)
  <2>1. /\ pc' = [pc EXCEPT ![r] = IF rest = {} THEN "page" ELSE "gateway"]
        /\ page' = [page EXCEPT ![r] = rest]
        /\ UNCHANGED <<snap, more, cursor>>
        /\ DropWork(r)
    BY <1>2 DEF Continue
  <2>2. pc' \in [Replicas -> {"idle", "page", "gateway", "fetch", "deliver",
                             "update"}]
    BY <2>1
  <2>3. QED
    BY <2>1, <2>2
<1>3. QED
  BY <1>1, <1>2

(* Every step of the hub keeps every variable in its type.                 *)
LEMMA TypeNext == TypeOK /\ [Next]_vars => TypeOK'
<1> SUFFICES ASSUME TypeOK, [Next]_vars PROVE TypeOK'
  OBVIOUS
<1> USE DEF TypeOK, dbVars, regVars, chanVars, walkVars, workVars, passVars,
            history
<1>1. CASE Tick
  BY <1>1, HubAssumption DEF Tick, PassTypeOK
<1>2. ASSUME NEW r \in Replicas, NEW g \in Gateways, RegisterGateway(r, g)
      PROVE  TypeOK'
  BY <1>2 DEF RegisterGateway, PassTypeOK
<1>3. ASSUME NEW r \in Replicas, NEW g \in Gateways, NEW c \in Channels, Subscribe(r, g, c)
      PROVE  TypeOK'
  BY <1>3 DEF Subscribe, PassTypeOK
<1>4. ASSUME NEW r \in Replicas, NEW g \in Gateways, NEW c \in Channels, RemoveSubscriber(r, g, c)
      PROVE  TypeOK'
  <2>1. subs' \in [Replicas -> [Gateways -> SUBSET Channels]]
    BY <1>4 DEF RemoveSubscriber
  <2>2. known' \in [Replicas -> [Gateways -> Nat]]
    BY <1>4 DEF RemoveSubscriber
  <2>3. QED
    BY <1>4, <2>1, <2>2 DEF RemoveSubscriber, PassTypeOK
<1>5. ASSUME NEW r \in Replicas, NEW g \in Gateways, RemoveAllSubscribers(r, g)
      PROVE  TypeOK'
  BY <1>5 DEF RemoveAllSubscribers, PassTypeOK
<1>6. ASSUME NEW c \in Channels, CloseChannel(c)
      PROVE  TypeOK'
  BY <1>6 DEF CloseChannel, PassTypeOK
<1>7. ASSUME NEW c \in Channels, Receive(c)
      PROVE  TypeOK'
  BY <1>7 DEF Receive, PassTypeOK
<1>8. ASSUME NEW r \in Replicas, NEW g \in Gateways, NEW id \in EventIds, PublishInsert(r, g, id)
      PROVE  TypeOK'
  <2>1. [gw |-> g, id |-> id, ts |-> now] \in Event
    BY DEF Event
  <2>2. txs' \in SUBSET Tx
    BY <1>8, <2>1 DEF PublishInsert, Tx
  <2>3. QED
    BY <1>8, <2>2 DEF PublishInsert, PassTypeOK
<1>9. ASSUME NEW t \in txs, PublishCommit(t)
      PROVE  TypeOK'
  <2>1. t.ev \in Event /\ t.ev.gw \in Gateways
    BY DEF Tx, Event
  <2>2. events' \in SUBSET Event /\ rows' \in SUBSET Gateways
    BY <1>9, <2>1 DEF PublishCommit
  <2>3. version' \in [Gateways -> Nat] /\ stamp' \in Nat
    BY <1>9, <2>1 DEF PublishCommit
  <2>4. QED
    BY <1>9, <2>2, <2>3 DEF PublishCommit, PassTypeOK
<1>10. ASSUME NEW t \in txs, PublishRollback(t)
      PROVE  TypeOK'
  BY <1>10 DEF PublishRollback, PassTypeOK
<1>11. ASSUME NEW r \in Replicas, Cleanup(r)
      PROVE  TypeOK'
  BY <1>11 DEF Cleanup, PassTypeOK
<1>12. ASSUME NEW r \in Replicas, PollStart(r)
      PROVE  TypeOK'
  BY <1>12 DEF PollStart, PassTypeOK
<1>13. ASSUME NEW r \in Replicas, PollPage(r)
      PROVE  TypeOK'
  <2>1. CASE EndPass(r)
    BY <1>13, <2>1 DEF PollPage, EndPass, DropWork, PassTypeOK
  <2>2. CASE ~EndPass(r)
    <3> DEFINE gs == PageGateways(cursor[r])
    <3>1. gs \in SUBSET Gateways
      BY DEF PageGateways, After
    <3> HIDE DEF gs
    <3>2. {<<g, version[g]>> : g \in gs} \in SUBSET (Gateways \X Nat)
      BY <3>1
    <3>3. PICK k \in gs :
             /\ pc' = [pc EXCEPT ![r] = "gateway"]
             /\ page' = [page EXCEPT ![r] = {<<g, version[g]>> : g \in gs}]
             /\ more' = [more EXCEPT ![r] = (Cardinality(gs) = PageSize)]
             /\ cursor' = [cursor EXCEPT ![r] = k]
             /\ UNCHANGED <<snap, workVars>>
      BY <1>13, <2>2 DEF PollPage, gs
    <3>4. page' \in [Replicas -> SUBSET (Gateways \X Nat)]
      BY <3>2, <3>3 DEF PassTypeOK
    <3>5. more' \in [Replicas -> BOOLEAN]
      BY <3>3 DEF PassTypeOK
    <3>6. PassTypeOK'
      BY <3>1, <3>3, <3>4, <3>5 DEF PassTypeOK
    <3>7. QED
      BY <1>13, <3>6 DEF PollPage
  <2>3. QED
    BY <2>1, <2>2
<1>14. ASSUME NEW r \in Replicas, PollPageError(r)
      PROVE  TypeOK'
  BY <1>14 DEF PollPageError, EndPass, DropWork, PassTypeOK
<1>15. ASSUME NEW r \in Replicas, PollGateway(r)
      PROVE  TypeOK'
  <2>1. PassTypeOK'
    <3>1. PICK row \in page[r] :
             \/ /\ pc' = [pc EXCEPT ![r] = "fetch"]
                /\ page' = [page EXCEPT ![r] = page[r] \ {row}]
                /\ cur' = [cur EXCEPT ![r] = row[1]]
                /\ ver' = [ver EXCEPT ![r] = row[2]]
                /\ bound' = [bound EXCEPT ![r] = lastPolled[r][row[1]]]
                /\ UNCHANGED <<snap, more, cursor, batch, last, blocked>>
             \/ Continue(r, page[r] \ {row})
      BY <1>15 DEF PollGateway
    <3>2. page[r] \in SUBSET (Gateways \X Nat)
      BY DEF PassTypeOK
    <3>3. CASE Continue(r, page[r] \ {row})
      BY <3>2, <3>3, ContinueType
    <3>4. CASE ~Continue(r, page[r] \ {row})
      <4>1. row[1] \in Gateways /\ row[2] \in Nat
        BY <3>2
      <4>2. lastPolled[r][row[1]] \in Nat
        BY <4>1
      <4>3. /\ pc' = [pc EXCEPT ![r] = "fetch"]
            /\ page' = [page EXCEPT ![r] = page[r] \ {row}]
            /\ cur' = [cur EXCEPT ![r] = row[1]]
            /\ ver' = [ver EXCEPT ![r] = row[2]]
            /\ bound' = [bound EXCEPT ![r] = lastPolled[r][row[1]]]
            /\ UNCHANGED <<snap, more, cursor, batch, last, blocked>>
        BY <3>1, <3>4
      <4>4. page[r] \ {row} \in SUBSET (Gateways \X Nat)
        BY <3>2
      <4>5. page' \in [Replicas -> SUBSET (Gateways \X Nat)]
        BY <4>3, <4>4 DEF PassTypeOK
      <4>6. ver' \in [Replicas -> Nat] /\ bound' \in [Replicas -> Nat]
        BY <4>1, <4>2, <4>3 DEF PassTypeOK
      <4>7. cur' \in [Replicas -> Gateways \cup {0}]
        BY <4>1, <4>3 DEF PassTypeOK
      <4>8. QED
        BY <4>1, <4>3, <4>5, <4>6, <4>7 DEF PassTypeOK
    <3>5. QED
      BY <3>3, <3>4
  <2>2. QED
    BY <1>15, <2>1 DEF PollGateway
<1>16. ASSUME NEW r \in Replicas, PollFetch(r)
      PROVE  TypeOK'
  <2>1. cur[r] \in Gateways /\ bound[r] \in Nat
    BY <1>16 DEF PollFetch, PassTypeOK
  <2>2. FetchFrom(r) \in Nat
    BY <2>1, HubAssumption DEF FetchFrom
  <2>3. batch' \in [Replicas -> SUBSET Event]
    BY <1>16 DEF PollFetch, TrimSingleBoundaryReplay, EventsOf, PassTypeOK
  <2>4. bound' \in [Replicas -> Nat]
    BY <1>16, <2>2 DEF PollFetch, PassTypeOK
  <2>5. floor' \in [Replicas -> [Gateways -> Nat]]
    BY <1>16, <2>1, <2>2 DEF PollFetch
  <2>6. PassTypeOK'
    BY <1>16, <2>3, <2>4 DEF PollFetch, PassTypeOK
  <2>7. QED
    BY <1>16, <2>5, <2>6 DEF PollFetch
<1>17. ASSUME NEW r \in Replicas, PollFetchError(r)
      PROVE  TypeOK'
  <2>1. page[r] \in SUBSET (Gateways \X Nat)
    BY DEF PassTypeOK
  <2>2. PassTypeOK'
    BY <1>17, <2>1, ContinueType DEF PollFetchError
  <2>3. QED
    BY <1>17, <2>2 DEF PollFetchError
<1>18. ASSUME NEW r \in Replicas, PollDeliver(r)
      PROVE  TypeOK'
  <2>1. PICK e \in batch[r] :
          /\ buf' = [c \in Channels |->
                       IF c \in subs[r][cur[r]] THEN Append(buf[c], e)
                                               ELSE buf[c]]
          /\ batch' = [batch EXCEPT ![r] = @ \ {e}]
          /\ last' = [last EXCEPT ![r] = e.ts]
          /\ offered' = [offered EXCEPT ![r] =
                 IF subs[r][cur[r]] = {} THEN @ ELSE @ \cup {e}]
          /\ missed' = [missed EXCEPT ![r] =
                 IF subs[r][cur[r]] = {} THEN @ \cup {e} ELSE @]
    BY <1>18 DEF PollDeliver
  <2>2. e \in Event
    BY <2>1 DEF PassTypeOK
  <2>3. e.ts \in Nat
    BY <2>2 DEF Event
  <2>4. buf' \in [Channels -> Seq(Event)]
    BY <2>1, <2>2
  <2>5. offered' \in [Replicas -> SUBSET Event]
    BY <2>1, <2>2
  <2>6. missed' \in [Replicas -> SUBSET Event]
    BY <2>1, <2>2
  <2>7. PassTypeOK'
    BY <1>18, <2>1, <2>3 DEF PollDeliver, PassTypeOK
  <2>8. QED
    BY <1>18, <2>4, <2>5, <2>6, <2>7 DEF PollDeliver
<1>19. ASSUME NEW r \in Replicas, PollEndDelivery(r)
      PROVE  TypeOK'
  BY <1>19 DEF PollEndDelivery, PassTypeOK
<1>20. ASSUME NEW r \in Replicas, PollUpdate(r)
      PROVE  TypeOK'
  <2>1. /\ ver[r] \in Nat /\ last[r] \in Nat /\ bound[r] \in Nat
        /\ cur[r] \in Gateways
    BY <1>20 DEF PollUpdate, PassTypeOK
  <2>2. known' \in [Replicas -> [Gateways -> Nat]]
    BY <1>20, <2>1 DEF PollUpdate, NewKnown
  <2>3. lastPolled' \in [Replicas -> [Gateways -> Nat]]
    BY <1>20, <2>1 DEF PollUpdate, NewLastPolled
  <2>4. page[r] \in SUBSET (Gateways \X Nat)
    BY DEF PassTypeOK
  <2>5. PassTypeOK'
    BY <1>20, <2>4, ContinueType DEF PollUpdate
  <2>6. QED
    BY <1>20, <2>2, <2>3, <2>5 DEF PollUpdate
<1>21. ASSUME NEW r \in Replicas, CloseBegin(r)
      PROVE  TypeOK'
  BY <1>21 DEF CloseBegin, PassTypeOK
<1>22. ASSUME NEW r \in Replicas, CloseCollect(r)
      PROVE  TypeOK'
  BY <1>22 DEF CloseCollect, PassTypeOK
<1>23. ASSUME NEW r \in Replicas, NEW g \in Gateways, CloseGateway(r, g)
      PROVE  TypeOK'
  BY <1>23 DEF CloseGateway, PassTypeOK
<1>24. ASSUME NEW r \in Replicas, Exit(r)
      PROVE  TypeOK'
  BY <1>24 DEF Exit, ChannelsOf, EndPass, DropWork, PassTypeOK
<1>25. ASSUME NEW r \in Replicas, Initialize(r)
      PROVE  TypeOK'
  BY <1>25 DEF Initialize, PassTypeOK
<1>26. CASE UNCHANGED vars
  BY <1>26 DEF vars, PassTypeOK
<1>27. QED
  BY <1>1, <1>2, <1>3, <1>4, <1>5, <1>6, <1>7, <1>8, <1>9, <1>10, <1>11, <1>12, <1>13, <1>14, <1>15, <1>16, <1>17, <1>18, <1>19, <1>20, <1>21, <1>22, <1>23, <1>24, <1>25, <1>26
     DEF Next, PollStep, PollError, RegistryStep, PublishStep, LifeStep

(* TypeOK holds in every reachable state, for all constants.               *)
THEOREM TypeCorrect == Spec => []TypeOK
<1>1. QED
  BY TypeInit, TypeNext, PTL DEF Spec

-----------------------------------------------------------------------------
(* Channels.                                                                *)

(* A step that touches neither the lists of subscribers nor a channel.     *)
LEMMA ChanFrame ==
  ASSUME ChanInv, UNCHANGED <<subs, chan, buf>>
  PROVE  ChanInv'
  BY DEF ChanInv, SubscribersOpen, BufferBounded, UnusedEmpty

(* Every step keeps listed channels open and within their capacity.        *)
LEMMA ChanNext == TypeOK /\ ChanInv /\ [Next]_vars => ChanInv'
<1> SUFFICES ASSUME TypeOK, ChanInv, [Next]_vars PROVE ChanInv'
  OBVIOUS
<1> USE DEF dbVars, regVars, chanVars, walkVars, workVars, passVars, history
<1>1. ASSUME NEW r \in Replicas, NEW g \in Gateways, NEW c \in Channels,
             Subscribe(r, g, c)
      PROVE  ChanInv'
  <2>1. SubscribersOpen'
    <3>1. \A s \in Replicas, h \in Gateways : c \notin subs[s][h]
      BY <1>1 DEF Subscribe, ChanInv, SubscribersOpen
    <3>2. \A s \in Replicas, h \in Gateways :
             subs'[s][h] = IF s = r /\ h = g THEN subs[r][g] \cup {c}
                                            ELSE subs[s][h]
      BY <1>1 DEF Subscribe, TypeOK
    <3>3. chan' = [chan EXCEPT ![c] = "open"]
      BY <1>1 DEF Subscribe
    <3>4. ASSUME NEW s \in Replicas, NEW h \in Gateways,
                 NEW d \in subs'[s][h]
          PROVE  /\ chan'[d] = "open"
                 /\ \A s2 \in Replicas, h2 \in Gateways :
                      d \in subs'[s2][h2] => s2 = s /\ h2 = h
      <4>1. CASE d = c
        BY <3>1, <3>2, <3>3, <4>1 DEF TypeOK
      <4>2. CASE d # c
        <5>1. d \in subs[s][h]
          BY <3>2, <4>2
        <5>2. d \in Channels
          BY <5>1 DEF TypeOK
        <5>3. /\ chan[d] = "open"
              /\ \A s2 \in Replicas, h2 \in Gateways :
                   d \in subs[s2][h2] => s2 = s /\ h2 = h
          BY <5>1 DEF ChanInv, SubscribersOpen
        <5>4. chan'[d] = "open"
          BY <3>3, <4>2, <5>3, <5>2 DEF TypeOK
        <5>5. ASSUME NEW s2 \in Replicas, NEW h2 \in Gateways,
                     d \in subs'[s2][h2]
              PROVE  d \in subs[s2][h2]
          BY <3>2, <4>2, <5>5
        <5>6. QED
          BY <5>3, <5>4, <5>5
      <4>3. QED
        BY <4>1, <4>2
    <3>5. QED
      BY <3>4 DEF SubscribersOpen
  <2>2. BufferBounded' /\ UnusedEmpty'
    BY <1>1 DEF Subscribe, ChanInv, BufferBounded, UnusedEmpty, TypeOK
  <2>3. QED
    BY <2>1, <2>2 DEF ChanInv
<1>2. ASSUME NEW r \in Replicas, NEW g \in Gateways, NEW c \in Channels,
             RemoveSubscriber(r, g, c)
      PROVE  ChanInv'
  <2>1. SubscribersOpen'
    <3>1. \A s \in Replicas, h \in Gateways :
            subs'[s][h] = IF s = r /\ h = g THEN subs[r][g] \ {c} ELSE subs[s][h]
      BY <1>2 DEF RemoveSubscriber, TypeOK
    <3>2. c \in subs[r][g] /\ chan' = [chan EXCEPT ![c] = "removed"]
      BY <1>2 DEF RemoveSubscriber
    <3>3. \A s \in Replicas, h \in Gateways : \A d \in subs'[s][h] :
            d \in subs[s][h] /\ d # c
      BY <3>1, <3>2 DEF ChanInv, SubscribersOpen
    <3>4. \A s \in Replicas, h \in Gateways : subs[s][h] \subseteq Channels
      BY DEF TypeOK
    <3>5. \A d \in Channels : d # c => chan'[d] = chan[d]
      BY <3>2 DEF TypeOK
    <3>6. QED
      BY <3>3, <3>4, <3>5 DEF ChanInv, SubscribersOpen
  <2>2. BufferBounded' /\ UnusedEmpty'
    BY <1>2 DEF RemoveSubscriber, ChanInv, BufferBounded, UnusedEmpty, TypeOK
  <2>3. QED
    BY <2>1, <2>2 DEF ChanInv
<1>3. ASSUME NEW r \in Replicas, NEW g \in Gateways,
             RemoveAllSubscribers(r, g)
      PROVE  ChanInv'
  <2>1. SubscribersOpen'
    <3>1. \A s \in Replicas, h \in Gateways :
            subs'[s][h] = IF s = r /\ h = g THEN {} ELSE subs[s][h]
      BY <1>3 DEF RemoveAllSubscribers, TypeOK
    <3>2. \A c \in Channels : c \notin subs[r][g] => chan'[c] = chan[c]
      BY <1>3 DEF RemoveAllSubscribers
    <3>3. \A s \in Replicas, h \in Gateways : \A d \in subs'[s][h] :
            d \in subs[s][h] /\ d \notin subs[r][g]
      BY <3>1 DEF ChanInv, SubscribersOpen
    <3>4. \A s \in Replicas, h \in Gateways : subs[s][h] \subseteq Channels
      BY DEF TypeOK
    <3>5. QED
      BY <3>2, <3>3, <3>4 DEF ChanInv, SubscribersOpen
  <2>2. BufferBounded' /\ UnusedEmpty'
    BY <1>3 DEF RemoveAllSubscribers, ChanInv, BufferBounded, UnusedEmpty,
                TypeOK
  <2>3. QED
    BY <2>1, <2>2 DEF ChanInv
<1>4. ASSUME NEW c \in Channels, CloseChannel(c)
      PROVE  ChanInv'
  BY <1>4 DEF CloseChannel, ChanInv, SubscribersOpen, BufferBounded,
              UnusedEmpty, TypeOK
<1>5. ASSUME NEW c \in Channels, Receive(c)
      PROVE  ChanInv'
  <2>1. buf[c] \in Seq(Event) /\ buf[c] # <<>>
    BY <1>5 DEF Receive, TypeOK
  <2>2. Len(Tail(buf[c])) <= Len(buf[c])
    BY <2>1
  <2>3. BufferBounded'
    BY <1>5, <2>2, HubAssumption
       DEF Receive, ChanInv, BufferBounded, TypeOK
  <2>4. SubscribersOpen' /\ UnusedEmpty'
    BY <1>5 DEF Receive, ChanInv, SubscribersOpen, UnusedEmpty, TypeOK
  <2>5. QED
    BY <2>3, <2>4 DEF ChanInv
<1>6. ASSUME NEW r \in Replicas, PollDeliver(r)
      PROVE  ChanInv'
  <2>1. PICK e \in Event :
          /\ \A c \in subs[r][cur[r]] : Len(buf[c]) # Cap
          /\ buf' = [c \in Channels |->
                       IF c \in subs[r][cur[r]] THEN Append(buf[c], e)
                                               ELSE buf[c]]
          /\ UNCHANGED <<subs, chan>>
    BY <1>6 DEF PollDeliver, SubscriberChannelsAvailable, TypeOK, PassTypeOK
  <2>2. cur[r] \in Gateways
    BY <1>6 DEF PollDeliver, TypeOK, PassTypeOK
  <2>3. ASSUME NEW c \in Channels
        PROVE  Len(buf'[c]) <= Cap
    <3>1. buf[c] \in Seq(Event) /\ Len(buf[c]) <= Cap
      BY DEF TypeOK, ChanInv, BufferBounded
    <3>2. Len(Append(buf[c], e)) = Len(buf[c]) + 1
      BY <3>1
    <3>3. QED
      BY <2>1, <3>1, <3>2, HubAssumption
  <2>4. SubscribersOpen'
    BY <2>1 DEF ChanInv, SubscribersOpen
  <2>5. UnusedEmpty'
    BY <2>1, <2>2 DEF ChanInv, SubscribersOpen, UnusedEmpty
  <2>6. QED
    BY <2>3, <2>4, <2>5 DEF ChanInv, BufferBounded
<1>7. ASSUME NEW r \in Replicas, NEW g \in Gateways, CloseGateway(r, g)
      PROVE  ChanInv'
  <2>1. SubscribersOpen'
    <3>1. \A s \in Replicas, h \in Gateways :
            subs'[s][h] = IF s = r /\ h = g THEN {} ELSE subs[s][h]
      BY <1>7 DEF CloseGateway, TypeOK
    <3>2. \A c \in Channels : c \notin subs[r][g] => chan'[c] = chan[c]
      BY <1>7 DEF CloseGateway
    <3>3. \A s \in Replicas, h \in Gateways : \A d \in subs'[s][h] :
            d \in subs[s][h] /\ d \notin subs[r][g]
      BY <3>1 DEF ChanInv, SubscribersOpen
    <3>4. \A s \in Replicas, h \in Gateways : subs[s][h] \subseteq Channels
      BY DEF TypeOK
    <3>5. QED
      BY <3>2, <3>3, <3>4 DEF ChanInv, SubscribersOpen
  <2>2. BufferBounded' /\ UnusedEmpty'
    BY <1>7 DEF CloseGateway, ChanInv, BufferBounded, UnusedEmpty, TypeOK
  <2>3. QED
    BY <2>1, <2>2 DEF ChanInv
<1>8. ASSUME NEW r \in Replicas, Exit(r)
      PROVE  ChanInv'
  <2>1. SubscribersOpen'
    BY <1>8 DEF Exit, ChannelsOf, ChanInv, SubscribersOpen, TypeOK
  <2>2. BufferBounded' /\ UnusedEmpty'
    BY <1>8, HubAssumption
       DEF Exit, ChannelsOf, ChanInv, BufferBounded, UnusedEmpty, TypeOK
  <2>3. QED
    BY <2>1, <2>2 DEF ChanInv
<1>9. ASSUME NEW r \in Replicas, PollStep(r) \/ PollError(r), ~PollDeliver(r)
      PROVE  ChanInv'
  BY <1>9, ChanFrame
     DEF PollStep, PollError, PollStart, PollPage, PollPageError, PollGateway,
         PollFetch, PollFetchError, PollEndDelivery, PollUpdate
<1>10. CASE PublishStep \/ Tick \/ \E r \in Replicas : Cleanup(r)
  BY <1>10, ChanFrame
     DEF PublishStep, PublishInsert, PublishCommit, PublishRollback, Tick,
         Cleanup
<1>11. ASSUME NEW r \in Replicas, NEW g \in Gateways, RegisterGateway(r, g)
       PROVE  ChanInv'
  BY <1>11, ChanFrame DEF RegisterGateway
<1>12. ASSUME NEW r \in Replicas,
              CloseBegin(r) \/ CloseCollect(r) \/ Initialize(r)
       PROVE  ChanInv'
  BY <1>12, ChanFrame DEF CloseBegin, CloseCollect, Initialize
<1>13. CASE UNCHANGED vars
  BY <1>13, ChanFrame DEF vars
<1>14. QED
  BY <1>1, <1>2, <1>3, <1>4, <1>5, <1>6, <1>7, <1>8, <1>9, <1>10, <1>11,
     <1>12, <1>13 DEF Next, RegistryStep, LifeStep

(* No channel is listed or used at the start.                              *)
LEMMA ChanInit == Init => ChanInv
  BY HubAssumption
     DEF Init, ChanInv, SubscribersOpen, BufferBounded, UnusedEmpty

(* A listed channel is open and listed once, in every reachable state: no  *)
(* send on a closed channel, no second close.                              *)
THEOREM ChannelsSafe == Spec => []SubscribersOpen
<1>1. ChanInv => SubscribersOpen
  BY DEF ChanInv
<1>2. QED
  BY <1>1, ChanInit, TypeCorrect, ChanNext, PTL DEF Spec

(* The delivery loop sends only where there is room, so that it never      *)
(* blocks while it holds the registry's read lock; subscribers that fall   *)
(* behind block nobody but their gateway's cursor.                         *)
THEOREM SendsNeverBlock == Spec => []BufferBounded
<1>1. ChanInv => BufferBounded
  BY DEF ChanInv
<1>2. QED
  BY <1>1, ChanInit, TypeCorrect, ChanNext, PTL DEF Spec
=============================================================================
