-------------------------- MODULE EventHubLogProofs --------------------------
(***************************************************************************)
(* Order: the cursor of a gateway never moves back and a channel carries   *)
(* events in the order of their timestamps, on every database; and where   *)
(* the database admits one writer at a time, the hub implements EventLog.  *)
(***************************************************************************)
EXTENDS EventHubCursorProofs

-----------------------------------------------------------------------------
(* How far a replica has come.                                              *)

(* The timestamp up to which a replica has delivered a gateway's events.   *)
Reached(r, g) ==
    IF Delivering(r) /\ cur[r] = g /\ last[r] > 0 THEN last[r]
    ELSE lastPolled[r][g]

(* A pass starts where the cursor is and goes forward from there.          *)
ForwardInv(r) ==
    /\ ~Delivering(r) => last[r] = 0
    /\ pc[r] = "fetch" => bound[r] = lastPolled[r][cur[r]]
    /\ Delivering(r) =>
         /\ lastPolled[r][cur[r]] <= bound[r]
         /\ floor[r][cur[r]] <= bound[r]
         /\ \A b \in batch[r] : bound[r] <= b.ts /\ last[r] <= b.ts
         /\ last[r] > 0 => bound[r] <= last[r]
    /\ \A g \in Gateways :
         lastPolled[r][g] > 0 => floor[r][g] <= lastPolled[r][g]

(* What a replica has reached and where its cursors are only grows.        *)
Forward(r) ==
    \A g \in Gateways : /\ lastPolled[r][g] <= lastPolled'[r][g]
                        /\ Reached(r, g) <= Reached(r, g)'

LEMMA NumbersOf ==
  ASSUME TypeOK, NEW r \in Replicas
  PROVE  /\ now \in Nat /\ Skew \in Nat /\ now > Skew
         /\ bound[r] \in Nat /\ last[r] \in Nat
         /\ \A b \in batch[r] : b \in Event /\ b.ts \in Nat
         /\ \A g \in Gateways : lastPolled[r][g] \in Nat /\ floor[r][g] \in Nat
  BY HubAssumption DEF TypeOK, PassTypeOK, Event

(* A replica that takes no step.                                           *)
LEMMA StandsStill ==
  ASSUME TypeOK, NEW s \in Replicas, ReplicaSame(s), ForwardInv(s)
  PROVE  ForwardInv(s)' /\ Forward(s)
<1>1. ForwardInv(s)'
  BY DEF ReplicaSame, ForwardInv, Delivering
<1>2. Forward(s)
  <2> SUFFICES ASSUME NEW g \in Gateways
               PROVE  /\ lastPolled[s][g] <= lastPolled'[s][g]
                      /\ Reached(s, g) <= Reached(s, g)'
    BY DEF Forward
  <2>1. Reached(s, g)' = Reached(s, g) /\ lastPolled'[s][g] = lastPolled[s][g]
    BY DEF ReplicaSame, Reached, Delivering
  <2>2. Reached(s, g) \in Nat /\ lastPolled[s][g] \in Nat
    BY NumbersOf DEF Reached
  <2> QED BY <2>1, <2>2
<1> QED BY <1>1, <1>2

(* What a step of a pass outside of a delivery does.                       *)
Wanders(r) ==
    /\ ~Delivering(r)' /\ last'[r] = 0
    /\ pc'[r] = "fetch" => bound'[r] = lastPolled'[r][cur'[r]]

LEMMA ContinueWanders ==
  ASSUME TypeOK, NEW r \in Replicas, NEW rest,
         Continue(r, rest) \/ EndPass(r)
  PROVE  /\ Wanders(r)
         /\ \A s \in Replicas : s # r =>
              /\ pc'[s] = pc[s] /\ cur'[s] = cur[s] /\ ver'[s] = ver[s]
              /\ bound'[s] = bound[s] /\ batch'[s] = batch[s]
              /\ last'[s] = last[s] /\ blocked'[s] = blocked[s]
              /\ page'[s] = page[s]
<1>1. \E what \in {"idle", "page", "gateway"} : pc' = [pc EXCEPT ![r] = what]
  BY DEF Continue, EndPass
<1>2. \E what : page' = [page EXCEPT ![r] = what]
  BY DEF Continue, EndPass
<1>3. DropWork(r)
  BY DEF Continue, EndPass
<1>4. pc'[r] \in {"idle", "page", "gateway"}
  BY <1>1 DEF TypeOK, PassTypeOK
<1>5. last'[r] = 0
  BY <1>3 DEF DropWork, TypeOK, PassTypeOK
<1>6. ASSUME NEW s \in Replicas, s # r
      PROVE  /\ pc'[s] = pc[s] /\ cur'[s] = cur[s] /\ ver'[s] = ver[s]
             /\ bound'[s] = bound[s] /\ batch'[s] = batch[s]
             /\ last'[s] = last[s] /\ blocked'[s] = blocked[s]
             /\ page'[s] = page[s]
  BY <1>1, <1>2, <1>3, <1>6 DEF DropWork, TypeOK, PassTypeOK
<1> QED BY <1>4, <1>5, <1>6 DEF Wanders, Delivering

(* Steps that walk the pages.                                              *)
LEMMA WalkForward ==
  ASSUME TypeOK, NEW r \in Replicas, ForwardInv(r),
         PollStart(r) \/ PollPage(r) \/ PollPageError(r) \/ PollGateway(r)
           \/ PollFetchError(r)
  PROVE  /\ ForwardInv(r)' /\ Forward(r)
         /\ \A s \in Replicas : s # r => ReplicaSame(s)
<1> USE DEF dbVars, regVars, chanVars, walkVars, workVars, passVars, history
<1>1. UNCHANGED <<lastPolled, floor, offered, missed>>
  BY DEF PollStart, PollPage, PollPageError, PollGateway, PollFetchError
<1>2. ~Delivering(r) /\ last[r] = 0
  BY DEF PollStart, PollPage, PollPageError, PollGateway, PollFetchError,
         Delivering, ForwardInv
<1>3. Wanders(r) /\ \A s \in Replicas : s # r => ReplicaSame(s)
  <2>1. ASSUME NEW rest, Continue(r, rest) \/ EndPass(r)
        PROVE  Wanders(r) /\ \A s \in Replicas : s # r => ReplicaSame(s)
    BY <1>1, <2>1, ContinueWanders DEF ReplicaSame
  <2>2. CASE PollStart(r)
    BY <1>1, <1>2, <2>2 DEF PollStart, Wanders, Delivering, ReplicaSame, TypeOK,
                            PassTypeOK
  <2>3. CASE PollPage(r) /\ ~EndPass(r)
    <3>1. /\ pc' = [pc EXCEPT ![r] = "gateway"]
          /\ \E what : page' = [page EXCEPT ![r] = what]
          /\ UNCHANGED workVars
      BY <2>3 DEF PollPage
    <3> QED BY <1>1, <1>2, <3>1 DEF Wanders, Delivering, ReplicaSame, TypeOK,
                                    PassTypeOK
  <2>4. CASE PollPageError(r) \/ (PollPage(r) /\ EndPass(r)) \/ PollFetchError(r)
    BY <2>1, <2>4 DEF PollPageError, PollFetchError
  <2>5. CASE PollGateway(r)
    <3>1. PICK row \in page[r] :
             \/ /\ pc' = [pc EXCEPT ![r] = "fetch"]
                /\ page' = [page EXCEPT ![r] = page[r] \ {row}]
                /\ cur' = [cur EXCEPT ![r] = row[1]]
                /\ ver' = [ver EXCEPT ![r] = row[2]]
                /\ bound' = [bound EXCEPT ![r] = lastPolled[r][row[1]]]
                /\ UNCHANGED <<batch, last, blocked>>
             \/ Continue(r, page[r] \ {row})
      BY <2>5 DEF PollGateway
    <3>2. CASE Continue(r, page[r] \ {row})
      BY <2>1, <3>2
    <3>3. CASE /\ pc' = [pc EXCEPT ![r] = "fetch"]
               /\ page' = [page EXCEPT ![r] = page[r] \ {row}]
               /\ cur' = [cur EXCEPT ![r] = row[1]]
               /\ ver' = [ver EXCEPT ![r] = row[2]]
               /\ bound' = [bound EXCEPT ![r] = lastPolled[r][row[1]]]
               /\ UNCHANGED <<batch, last, blocked>>
      <4>1. Wanders(r)
        BY <1>1, <1>2, <3>3 DEF Wanders, Delivering, TypeOK, PassTypeOK
      <4>2. \A s \in Replicas : s # r => ReplicaSame(s)
        BY <1>1, <3>3 DEF ReplicaSame, TypeOK, PassTypeOK
      <4> QED BY <4>1, <4>2
    <3> QED BY <3>1, <3>2, <3>3
  <2> QED BY <2>2, <2>3, <2>4, <2>5
<1>4. ForwardInv(r)'
  BY <1>1, <1>3 DEF Wanders, ForwardInv
<1>5. Forward(r)
  BY <1>1, <1>2, <1>3, NumbersOf DEF Forward, Reached, Wanders
<1> QED BY <1>3, <1>4, <1>5

(* The fetch, which starts at the cursor or, without one, a skew window    *)
(* ago.                                                                    *)
LEMMA FetchForward ==
  ASSUME TypeOK, NEW r \in Replicas, ForwardInv(r), PollFetch(r)
  PROVE  /\ ForwardInv(r)' /\ Forward(r)
         /\ \A s \in Replicas : s # r => ReplicaSame(s)
<1> USE DEF dbVars, regVars, chanVars, walkVars, workVars, passVars, history
<1> DEFINE g == cur[r]
           from == FetchFrom(r)
<1>1. g \in Gateways /\ ~Delivering(r) /\ last[r] = 0
  BY DEF PollFetch, TypeOK, PassTypeOK, Delivering, ForwardInv
<1>2. /\ pc' = [pc EXCEPT ![r] = "deliver"]
      /\ bound' = [bound EXCEPT ![r] = from]
      /\ floor' = [floor EXCEPT ![r][g] = IF bound[r] > 0 THEN @ ELSE from]
      /\ UNCHANGED <<lastPolled, offered, missed, page, cur, ver, last, blocked>>
  BY DEF PollFetch
<1>3. PICK evs \in SUBSET {e \in EventsOf(g) : e.ts >= from} :
         batch' = [batch EXCEPT ![r] = evs]
  BY DEF PollFetch, TrimSingleBoundaryReplay
<1>4. bound[r] = lastPolled[r][g]
  BY DEF PollFetch, ForwardInv
<1>5. from \in Nat /\ lastPolled[r][g] <= from
  BY <1>1, <1>4, NumbersOf DEF FetchFrom
<1> HIDE DEF from, g
<1>6. /\ pc'[r] = "deliver" /\ bound'[r] = from /\ batch'[r] = evs
      /\ last'[r] = 0 /\ cur'[r] = g
  BY <1>1, <1>2, <1>3 DEF TypeOK, PassTypeOK, g
<1>7. /\ floor'[r][g] = IF bound[r] > 0 THEN floor[r][g] ELSE from
      /\ \A h \in Gateways : h # g => floor'[r][h] = floor[r][h]
  BY <1>1, <1>2 DEF TypeOK
<1>8. /\ bound[r] > 0 => from = bound[r]
      /\ bound[r] > 0 => floor[r][g] <= bound[r]
  BY <1>1, <1>4 DEF from, FetchFrom, ForwardInv
<1>9. ForwardInv(r)'
  <2>1. Delivering(r)' /\ pc'[r] # "fetch"
    BY <1>6 DEF Delivering
  <2>2. /\ lastPolled'[r][cur'[r]] <= bound'[r]
        /\ floor'[r][cur'[r]] <= bound'[r]
    BY <1>1, <1>2, <1>5, <1>6, <1>7, <1>8, NumbersOf
  <2>3. \A b \in batch'[r] : bound'[r] <= b.ts /\ last'[r] <= b.ts
    BY <1>5, <1>6 DEF EventsOf, TypeOK, Event
  <2>4. \A h \in Gateways :
           lastPolled'[r][h] > 0 => floor'[r][h] <= lastPolled'[r][h]
    BY <1>1, <1>2, <1>4, <1>7, <1>8, NumbersOf DEF ForwardInv
  <2> QED BY <1>6, <2>1, <2>2, <2>3, <2>4 DEF ForwardInv
<1>10. Forward(r)
  BY <1>1, <1>2, <1>6, NumbersOf DEF Forward, Reached
<1>11. \A s \in Replicas : s # r => ReplicaSame(s)
  BY <1>1, <1>2, <1>3 DEF ReplicaSame, TypeOK, PassTypeOK
<1> QED BY <1>9, <1>10, <1>11

(* A delivery, in the order of the timestamps.                             *)
LEMMA DeliverForward ==
  ASSUME TypeOK, NEW r \in Replicas, ForwardInv(r), NEW e \in batch[r],
         pc[r] = "deliver", NextInOrder(batch[r], e),
         batch' = [batch EXCEPT ![r] = @ \ {e}],
         last' = [last EXCEPT ![r] = e.ts],
         UNCHANGED <<lastPolled, floor, pc, cur, bound>>
  PROVE  /\ ForwardInv(r)' /\ Forward(r)
         /\ \A g \in Gateways : g = cur[r] =>
              Reached(r, g) <= e.ts /\ e.ts <= Reached(r, g)'
<1>1. /\ cur[r] \in Gateways /\ Delivering(r) /\ Delivering(r)'
      /\ batch'[r] = batch[r] \ {e} /\ last'[r] = e.ts
  BY DEF TypeOK, PassTypeOK, Delivering
<1>2. /\ e.ts \in Nat /\ last[r] <= e.ts /\ bound[r] <= e.ts
      /\ lastPolled[r][cur[r]] <= bound[r]
  BY <1>1, NumbersOf DEF ForwardInv
<1>3. \A b \in batch'[r] : bound[r] <= b.ts /\ e.ts <= b.ts
  BY <1>1, NumbersOf DEF NextInOrder, ForwardInv
<1>4. ForwardInv(r)'
  BY <1>1, <1>2, <1>3 DEF ForwardInv
<1>5. Reached(r, cur[r]) <= e.ts /\ e.ts <= Reached(r, cur[r])'
  BY <1>1, <1>2, NumbersOf DEF Reached
<1>6. ASSUME NEW g \in Gateways
      PROVE  /\ lastPolled[r][g] <= lastPolled'[r][g]
             /\ Reached(r, g) <= Reached(r, g)'
  <2>1. CASE g = cur[r]
    BY <1>1, <1>2, <2>1, NumbersOf DEF Reached
  <2>2. CASE g # cur[r]
    BY <2>2, NumbersOf DEF Reached
  <2> QED BY <2>1, <2>2
<1> QED BY <1>4, <1>5, <1>6 DEF Forward

(* The end of a delivery, and the store of the cursor.                     *)
LEMMA EndForward ==
  ASSUME TypeOK, NEW r \in Replicas, ForwardInv(r), PollEndDelivery(r)
  PROVE  /\ ForwardInv(r)' /\ Forward(r)
         /\ \A s \in Replicas : s # r => ReplicaSame(s)
<1> USE DEF dbVars, regVars, chanVars, walkVars, workVars, passVars, history
<1>1. /\ Delivering(r) /\ Delivering(r)' /\ pc'[r] = "update" /\ batch'[r] = {}
      /\ UNCHANGED <<lastPolled, floor, cur, bound, last>>
  BY DEF PollEndDelivery, TypeOK, PassTypeOK, Delivering
<1>2. ForwardInv(r)'
  BY <1>1 DEF ForwardInv
<1>3. Forward(r)
  BY <1>1, NumbersOf DEF Forward, Reached
<1>4. \A s \in Replicas : s # r => ReplicaSame(s)
  BY DEF PollEndDelivery, ReplicaSame, TypeOK, PassTypeOK
<1> QED BY <1>2, <1>3, <1>4

LEMMA UpdateForward ==
  ASSUME TypeOK, NEW r \in Replicas, ForwardInv(r), PollUpdate(r)
  PROVE  /\ ForwardInv(r)' /\ Forward(r)
         /\ \A s \in Replicas : s # r => ReplicaSame(s)
<1> USE DEF dbVars, regVars, chanVars, walkVars, workVars, passVars, history
<1> DEFINE g == cur[r]
           new == NewLastPolled(r, lastPolled[r][g])
<1>1. g \in Gateways /\ Delivering(r)
  BY DEF PollUpdate, TypeOK, PassTypeOK, Delivering
<1>2. /\ lastPolled' = [lastPolled EXCEPT ![r][g] = new]
      /\ Continue(r, page[r])
      /\ UNCHANGED <<floor, offered, missed>>
  BY DEF PollUpdate
<1>3. /\ new \in Nat /\ lastPolled[r][g] <= new
      /\ last[r] > 0 => last[r] = new
      /\ new > 0 => floor[r][g] <= new
  BY <1>1, NumbersOf DEF NewLastPolled, ForwardInv
<1> HIDE DEF g, new
<1>4. /\ lastPolled'[r][g] = new
      /\ \A h \in Gateways : h # g => lastPolled'[r][h] = lastPolled[r][h]
  BY <1>1, <1>2 DEF TypeOK
<1>5. /\ Wanders(r)
      /\ \A s \in Replicas : s # r => ReplicaSame(s)
  BY <1>1, <1>2, ContinueWanders DEF ReplicaSame, TypeOK
<1>6. ForwardInv(r)'
  BY <1>2, <1>3, <1>4, <1>5 DEF Wanders, ForwardInv
<1>7. ASSUME NEW h \in Gateways
      PROVE  /\ lastPolled[r][h] <= lastPolled'[r][h]
             /\ Reached(r, h) <= Reached(r, h)'
  <2>1. Reached(r, h)' = lastPolled'[r][h]
    BY <1>5 DEF Wanders, Reached
  <2>2. CASE h = g
    BY <1>3, <1>4, <2>1, <2>2, NumbersOf DEF Reached
  <2>3. CASE h # g
    BY <1>4, <2>1, <2>3, NumbersOf DEF Reached, g
  <2> QED BY <2>2, <2>3
<1> QED BY <1>5, <1>6, <1>7 DEF Forward

LEMMA ExitForward ==
  ASSUME TypeOK, NEW r \in Replicas, Exit(r)
  PROVE  /\ ForwardInv(r)' /\ status'[r] = "down"
         /\ \A s \in Replicas : s # r => ReplicaSame(s)
<1>1. EndPass(r)
  BY DEF Exit
<1>2. /\ Wanders(r)
      /\ \A s \in Replicas : s # r =>
              /\ pc'[s] = pc[s] /\ cur'[s] = cur[s] /\ ver'[s] = ver[s]
              /\ bound'[s] = bound[s] /\ batch'[s] = batch[s]
              /\ last'[s] = last[s] /\ blocked'[s] = blocked[s]
              /\ page'[s] = page[s]
  BY <1>1, ContinueWanders
<1>3. /\ \A g \in Gateways : lastPolled'[r][g] = 0 /\ floor'[r][g] = 0
      /\ status'[r] = "down"
  BY DEF Exit, TypeOK
<1>4. \A s \in Replicas : s # r =>
         /\ lastPolled'[s] = lastPolled[s] /\ floor'[s] = floor[s]
         /\ offered'[s] = offered[s] /\ missed'[s] = missed[s]
  BY DEF Exit, TypeOK
<1> QED BY <1>2, <1>3, <1>4 DEF Wanders, ForwardInv, ReplicaSame

(* Every step but an exit carries every replica forward.                   *)
LEMMA ForwardNext ==
  ASSUME TypeOK, \A r \in Replicas : ForwardInv(r), [Next]_vars,
         NEW s \in Replicas
  PROVE  /\ ForwardInv(s)'
         /\ Forward(s) \/ (Exit(s) /\ status'[s] = "down")
<1> USE DEF dbVars, regVars, chanVars, walkVars, workVars, passVars, history
<1>1. ASSUME NEW r \in Replicas,
             ForwardInv(r)' /\ (Forward(r) \/ (Exit(r) /\ status'[r] = "down")),
             \A u \in Replicas : u # r => ReplicaSame(u)
      PROVE  ForwardInv(s)' /\ (Forward(s) \/ (Exit(s) /\ status'[s] = "down"))
  BY <1>1, StandsStill
<1>2. ASSUME NEW r \in Replicas, PollStep(r) \/ PollError(r)
      PROVE  ForwardInv(s)' /\ (Forward(s) \/ (Exit(s) /\ status'[s] = "down"))
  <2>1. CASE PollDeliver(r)
    <3>1. PICK e \in batch[r] :
             /\ NextInOrder(batch[r], e)
             /\ batch' = [batch EXCEPT ![r] = @ \ {e}]
             /\ last' = [last EXCEPT ![r] = e.ts]
      BY <2>1 DEF PollDeliver
    <3>2. /\ pc[r] = "deliver"
          /\ UNCHANGED <<lastPolled, floor, pc, cur, bound, page, ver, blocked>>
      BY <2>1 DEF PollDeliver
    <3>3. ForwardInv(r)' /\ Forward(r)
      BY <3>1, <3>2, DeliverForward
    <3>4. \A u \in Replicas : u # r => ReplicaSame(u)
      BY <2>1, <3>1, <3>2 DEF PollDeliver, ReplicaSame, TypeOK, PassTypeOK
    <3> QED BY <1>1, <3>3, <3>4
  <2>2. CASE PollFetch(r)
    BY <1>1, <2>2, FetchForward
  <2>3. CASE PollEndDelivery(r)
    BY <1>1, <2>3, EndForward
  <2>4. CASE PollUpdate(r)
    BY <1>1, <2>4, UpdateForward
  <2>5. CASE PollStart(r) \/ PollPage(r) \/ PollPageError(r) \/ PollGateway(r)
               \/ PollFetchError(r)
    BY <1>1, <2>5, WalkForward
  <2> QED BY <1>2, <2>1, <2>2, <2>3, <2>4, <2>5 DEF PollStep, PollError
<1>3. ASSUME NEW r \in Replicas, Exit(r)
      PROVE  ForwardInv(s)' /\ (Forward(s) \/ (Exit(s) /\ status'[s] = "down"))
  BY <1>1, <1>3, ExitForward
<1>4. CASE UNCHANGED <<lastPolled, floor, offered, missed, passVars>>
  <2>1. ReplicaSame(s)
    BY <1>4 DEF ReplicaSame
  <2> QED BY <2>1, StandsStill
<1>5. ASSUME NEW r \in Replicas, RegistryStep(r) \/ Cleanup(r)
      PROVE  UNCHANGED <<lastPolled, floor, offered, missed, passVars>>
  BY <1>5 DEF RegistryStep, RegisterGateway, Subscribe, RemoveSubscriber,
              RemoveAllSubscribers, Cleanup
<1>6. ASSUME NEW r \in Replicas, LifeStep(r), ~Exit(r)
      PROVE  UNCHANGED <<lastPolled, floor, offered, missed, passVars>>
  BY <1>6 DEF LifeStep, CloseBegin, CloseCollect, Initialize, CloseGateway
<1>7. CASE Tick \/ PublishStep \/ (\E c \in Channels : CloseChannel(c) \/ Receive(c))
             \/ UNCHANGED vars
  BY <1>4, <1>7 DEF Tick, PublishStep, PublishInsert, PublishCommit,
                    PublishRollback, CloseChannel, Receive, vars
<1> QED BY <1>2, <1>3, <1>4, <1>5, <1>6, <1>7 DEF Next

LEMMA ForwardInit == Init => \A r \in Replicas : ForwardInv(r)
  BY DEF Init, ForwardInv, Delivering

(* Within the life of a process the cursor of a gateway never moves back,  *)
(* on any database and however passes are blocked, fail or are overtaken.  *)
THEOREM CursorsMoveForward == Spec => CursorMonotone
<1> DEFINE Inv == TypeOK /\ \A r \in Replicas : ForwardInv(r)
           Fwd == \A r \in Replicas, g \in Gateways :
                    lastPolled'[r][g] >= lastPolled[r][g] \/ status'[r] = "down"
<1>1. Init => Inv
  BY TypeInit, ForwardInit
<1>2. Inv /\ [Next]_vars => Inv'
  BY TypeNext, ForwardNext
<1>3. Inv /\ [Next]_vars => [Fwd]_vars
  <2> SUFFICES ASSUME Inv, [Next]_vars, NEW r \in Replicas, NEW g \in Gateways
               PROVE  lastPolled'[r][g] >= lastPolled[r][g] \/ status'[r] = "down"
    OBVIOUS
  <2>1. TypeOK'
    BY TypeNext
  <2>2. lastPolled[r][g] \in Nat /\ lastPolled'[r][g] \in Nat
    BY <2>1 DEF TypeOK
  <2>3. Forward(r) \/ status'[r] = "down"
    BY ForwardNext
  <2> QED BY <2>2, <2>3 DEF Forward
<1> QED BY <1>1, <1>2, <1>3, PTL DEF Spec, CursorMonotone

-----------------------------------------------------------------------------
(* The order of the channels.                                               *)

(* A buffer in order, with nothing beyond time L.                          *)
InOrder(b) == \A i, j \in 1..Len(b) : i < j => b[i].ts <= b[j].ts
UpTo(b, L) == \A i \in 1..Len(b) : b[i].ts <= L

(* What a listed channel carries has been reached by its replica, so that  *)
(* the events still to come are not older.                                 *)
OrderInv ==
    /\ \A c \in Channels : InOrder(buf[c])
    /\ \A r \in Replicas, g \in Gateways : \A c \in subs[r][g] :
         UpTo(buf[c], Reached(r, g))

LEMMA AppendInOrder ==
  ASSUME NEW b \in Seq(Event), NEW e \in Event, NEW L \in Nat, NEW M \in Nat,
         InOrder(b), UpTo(b, L), L <= e.ts, e.ts <= M
  PROVE  InOrder(Append(b, e)) /\ UpTo(Append(b, e), M)
<1> DEFINE c == Append(b, e)
<1>1. /\ c \in Seq(Event) /\ Len(c) = Len(b) + 1 /\ c[Len(c)] = e
      /\ \A i \in 1..Len(b) : c[i] = b[i]
  OBVIOUS
<1>2. Len(b) \in Nat /\ \A i \in 1..Len(b) : b[i] \in Event
  OBVIOUS
<1>3. \A f \in Event : f.ts \in Nat
  BY DEF Event
<1> HIDE DEF c
<1>4. \A i \in 1..Len(c) : i \in 1..Len(b) \/ i = Len(c)
  BY <1>1, <1>2
<1>5. \A i \in 1..Len(b) : b[i].ts <= L /\ b[i].ts \in Nat
  BY <1>2, <1>3 DEF UpTo
<1>6. \A i \in 1..Len(c) : c[i].ts <= e.ts /\ c[i].ts \in Nat
  BY <1>1, <1>3, <1>4, <1>5
<1>7. InOrder(c)
  <2> SUFFICES ASSUME NEW i \in 1..Len(c), NEW j \in 1..Len(c), i < j
               PROVE  c[i].ts <= c[j].ts
    BY DEF InOrder
  <2>1. CASE j = Len(c)
    BY <1>1, <1>6, <2>1
  <2>2. CASE j \in 1..Len(b)
    <3>1. i \in 1..Len(b)
      BY <1>2, <2>2
    <3> QED BY <1>1, <2>2, <3>1 DEF InOrder
  <2> QED BY <1>4, <2>1, <2>2
<1>8. UpTo(c, M)
  BY <1>3, <1>6 DEF UpTo
<1> QED BY <1>7, <1>8 DEF c

LEMMA TailInOrder ==
  ASSUME NEW b \in Seq(Event), b # <<>>, InOrder(b)
  PROVE  InOrder(Tail(b)) /\ \A L : UpTo(b, L) => UpTo(Tail(b), L)
<1> DEFINE c == Tail(b)
<1>1. Len(c) = Len(b) - 1 /\ Len(b) \in Nat /\ \A i \in 1..Len(c) : c[i] = b[i + 1]
  OBVIOUS
<1> HIDE DEF c
<1>2. \A i \in 1..Len(c) : i + 1 \in 1..Len(b)
  BY <1>1
<1>3. InOrder(c)
  <2> SUFFICES ASSUME NEW i \in 1..Len(c), NEW j \in 1..Len(c), i < j
               PROVE  c[i].ts <= c[j].ts
    BY DEF InOrder
  <2>1. i + 1 \in 1..Len(b) /\ j + 1 \in 1..Len(b) /\ i + 1 < j + 1
    BY <1>2
  <2>2. c[i] = b[i + 1] /\ c[j] = b[j + 1]
    BY <1>1
  <2> QED BY <2>1, <2>2 DEF InOrder
<1>4. \A L : UpTo(b, L) => UpTo(c, L)
  BY <1>1, <1>2 DEF UpTo
<1> QED BY <1>3, <1>4 DEF c

LEMMA UpToLater ==
  ASSUME NEW b \in Seq(Event), NEW L \in Nat, NEW M \in Nat, L <= M, UpTo(b, L)
  PROVE  UpTo(b, M)
<1>1. \A i \in 1..Len(b) : b[i] \in Event
  OBVIOUS
<1>2. \A f \in Event : f.ts \in Nat
  BY DEF Event
<1> QED BY <1>1, <1>2 DEF UpTo

LEMMA ReachedNat ==
  ASSUME TypeOK, NEW r \in Replicas, NEW g \in Gateways
  PROVE  Reached(r, g) \in Nat
  BY NumbersOf DEF Reached

LEMMA ReachedNatNext ==
  ASSUME TypeOK', NEW r \in Replicas, NEW g \in Gateways
  PROVE  Reached(r, g)' \in Nat
<1>1. last'[r] \in Nat /\ lastPolled'[r][g] \in Nat
  BY DEF TypeOK, PassTypeOK
<1> QED BY <1>1 DEF Reached

(* Steps that put nothing into a channel.                                  *)
LEMMA NothingSent ==
  ASSUME TypeOK, TypeOK', OrderInv,
         \A c \in Channels : InOrder(buf'[c]),
         \A r \in Replicas, g \in Gateways : \A c \in subs'[r][g] :
            /\ \/ buf'[c] = <<>>
               \/ /\ c \in subs[r][g]
                  /\ \A L : UpTo(buf[c], L) => UpTo(buf'[c], L)
                  /\ Reached(r, g) <= Reached(r, g)'
  PROVE  OrderInv'
<1> SUFFICES ASSUME NEW r \in Replicas, NEW g \in Gateways, NEW c \in subs'[r][g]
             PROVE  UpTo(buf'[c], Reached(r, g)')
  BY DEF OrderInv
<1>1. CASE buf'[c] = <<>>
  BY <1>1 DEF UpTo
<1>2. CASE buf'[c] # <<>>
  <2>1. /\ UpTo(buf[c], Reached(r, g)) /\ Reached(r, g) <= Reached(r, g)'
        /\ \A L : UpTo(buf[c], L) => UpTo(buf'[c], L)
    BY <1>2 DEF OrderInv
  <2>2. buf'[c] \in Seq(Event)
    BY DEF TypeOK
  <2>3. Reached(r, g) \in Nat /\ Reached(r, g)' \in Nat
    BY ReachedNat, ReachedNatNext
  <2> QED BY <2>1, <2>2, <2>3, UpToLater
<1> QED BY <1>1, <1>2

LEMMA EmptyInOrder == InOrder(<<>>)
  BY DEF InOrder

LEMMA OrderNext ==
  ASSUME TypeOK, TypeOK', ChanInv, OrderInv, [Next]_vars,
         \A r \in Replicas : ForwardInv(r)
  PROVE  OrderInv'
<1> USE DEF dbVars, regVars, chanVars, walkVars, workVars, passVars, history
<1>1. \A r \in Replicas : Forward(r) \/ Exit(r)
  BY ForwardNext
<1>2. ASSUME NEW r \in Replicas, PollDeliver(r)
      PROVE  OrderInv'
  <2> DEFINE cs == subs[r][cur[r]]
  <2>1. PICK e \in batch[r] :
           /\ NextInOrder(batch[r], e)
           /\ batch' = [batch EXCEPT ![r] = @ \ {e}]
           /\ last' = [last EXCEPT ![r] = e.ts]
           /\ buf' = [c \in Channels |->
                        IF c \in cs THEN Append(buf[c], e) ELSE buf[c]]
    BY <1>2 DEF PollDeliver
  <2>2. /\ pc[r] = "deliver" /\ cur[r] \in Gateways /\ e \in Event
        /\ UNCHANGED <<lastPolled, floor, pc, cur, bound, subs>>
    BY <1>2 DEF PollDeliver, TypeOK, PassTypeOK
  <2>3. Reached(r, cur[r]) <= e.ts /\ e.ts <= Reached(r, cur[r])'
    <3>1. \A g \in Gateways : g = cur[r] =>
              Reached(r, g) <= e.ts /\ e.ts <= Reached(r, g)'
      BY <2>1, <2>2, DeliverForward
    <3>2. cur'[r] = cur[r]
      BY <2>2
    <3> QED BY <2>2, <3>1, <3>2 DEF Reached
  <2>4. Reached(r, cur[r]) \in Nat /\ Reached(r, cur[r])' \in Nat
    <3>1. cur'[r] = cur[r]
      BY <2>2
    <3> QED BY <2>2, <3>1, ReachedNat, ReachedNatNext
  <2>5. \A c \in cs : /\ c \in Channels /\ InOrder(buf'[c])
                      /\ UpTo(buf'[c], Reached(r, cur[r])')
    <3> SUFFICES ASSUME NEW c \in cs
                 PROVE  /\ c \in Channels /\ InOrder(buf'[c])
                        /\ UpTo(buf'[c], Reached(r, cur[r])')
      OBVIOUS
    <3>1. c \in Channels /\ buf[c] \in Seq(Event)
      BY <2>2 DEF TypeOK
    <3>2. InOrder(buf[c]) /\ UpTo(buf[c], Reached(r, cur[r]))
      BY <2>2, <3>1 DEF OrderInv
    <3>3. buf'[c] = Append(buf[c], e)
      BY <2>1, <3>1
    <3> QED BY <2>2, <2>3, <2>4, <3>1, <3>2, <3>3, AppendInOrder
  <2>6. \A c \in Channels : c \notin cs => buf'[c] = buf[c]
    BY <2>1
  <2>7. \A c \in Channels : InOrder(buf'[c])
    BY <2>5, <2>6 DEF OrderInv
  <2>8. ASSUME NEW s \in Replicas, NEW g \in Gateways, NEW c \in subs'[s][g]
        PROVE  UpTo(buf'[c], Reached(s, g)')
    <3>1. c \in subs[s][g] /\ c \in Channels
      BY <2>2 DEF TypeOK
    <3>2. CASE c \in cs
      <4>1. s = r /\ g = cur[r]
        BY <2>2, <3>1, <3>2 DEF ChanInv, SubscribersOpen
      <4>2. Reached(s, g)' = Reached(r, cur[r])'
        BY <2>2, <4>1 DEF Reached, Delivering
      <4> QED BY <2>5, <3>2, <4>2
    <3>3. CASE c \notin cs
      <4>1. UpTo(buf[c], Reached(s, g)) /\ buf'[c] = buf[c]
        BY <2>6, <3>1, <3>3 DEF OrderInv
      <4>2. Forward(s)
        <5>1. status' = status
          BY <1>2 DEF PollDeliver
        <5>2. ASSUME Exit(s) PROVE status[s] # "down" /\ status'[s] = "down"
          BY <5>2 DEF Exit, TypeOK
        <5> QED BY <1>1, <5>1, <5>2
      <4>3. Reached(s, g) <= Reached(s, g)' /\ buf'[c] \in Seq(Event)
        BY <3>1, <4>2 DEF Forward, TypeOK
      <4>4. Reached(s, g) \in Nat /\ Reached(s, g)' \in Nat
        BY ReachedNat, ReachedNatNext
      <4> QED BY <4>1, <4>3, <4>4, UpToLater
    <3> QED BY <3>2, <3>3
  <2> QED BY <2>7, <2>8 DEF OrderInv
<1>3. ASSUME NEW r \in Replicas, Exit(r)
      PROVE  OrderInv'
  <2>1. \A c \in Channels : buf'[c] = <<>> \/ buf'[c] = buf[c]
    BY <1>3 DEF Exit
  <2>2. \A c \in Channels : InOrder(buf'[c])
    BY <2>1, EmptyInOrder DEF OrderInv
  <2>3. \A s \in Replicas, g \in Gateways : \A c \in subs'[s][g] :
           s # r /\ c \in subs[s][g] /\ c \in Channels
    BY <1>3 DEF Exit, TypeOK
  <2>4. ASSUME NEW s \in Replicas, s # r, NEW g \in Gateways
        PROVE  Reached(s, g) <= Reached(s, g)'
    <3>1. ReplicaSame(s) /\ ForwardInv(s)
      BY <1>3, <2>4, ExitForward
    <3> QED BY <3>1, StandsStill DEF Forward
  <2> QED BY <2>1, <2>2, <2>3, <2>4, NothingSent
<1>4. CASE \A r \in Replicas : ~Exit(r)
  <2>1. \A r \in Replicas, g \in Gateways : Reached(r, g) <= Reached(r, g)'
    BY <1>1, <1>4 DEF Forward
  <2>2. CASE /\ buf' = buf
             /\ \A r \in Replicas, g \in Gateways :
                  \A c \in subs'[r][g] : c \in subs[r][g] \/ buf[c] = <<>>
    BY <2>1, <2>2, NothingSent DEF OrderInv
  <2>3. ASSUME NEW c \in Channels, Receive(c)
        PROVE  OrderInv'
    <3>1. /\ buf[c] \in Seq(Event) /\ buf[c] # <<>>
          /\ buf' = [buf EXCEPT ![c] = Tail(buf[c])] /\ subs' = subs
      BY <2>3 DEF Receive, TypeOK
    <3>2. \A d \in Channels : /\ InOrder(buf'[d])
                              /\ \A L : UpTo(buf[d], L) => UpTo(buf'[d], L)
      BY <3>1, TailInOrder DEF TypeOK, OrderInv
    <3>3. \A r \in Replicas, g \in Gateways : subs[r][g] \subseteq Channels
      BY DEF TypeOK
    <3> QED BY <2>1, <3>1, <3>2, <3>3, NothingSent
  <2>4. ASSUME NEW s \in Replicas, NEW h \in Gateways, NEW c \in Channels,
               Subscribe(s, h, c)
        PROVE  OrderInv'
    <3>1. buf[c] = <<>> /\ buf' = buf
      BY <2>4 DEF Subscribe, ChanInv, UnusedEmpty
    <3>2. \A r \in Replicas, g \in Gateways :
            subs'[r][g] \subseteq subs[r][g] \cup {c}
      BY <2>4 DEF Subscribe, TypeOK
    <3> QED BY <2>2, <3>1, <3>2
  <2>5. ASSUME NEW s \in Replicas, NEW h \in Gateways, NEW c \in Channels,
               RemoveSubscriber(s, h, c)
        PROVE  OrderInv'
    <3>1. /\ buf' = buf
          /\ \A r \in Replicas, g \in Gateways : subs'[r][g] \subseteq subs[r][g]
      BY <2>5 DEF RemoveSubscriber, TypeOK
    <3> QED BY <2>2, <3>1
  <2>6. ASSUME NEW s \in Replicas, NEW h \in Gateways,
               RemoveAllSubscribers(s, h) \/ CloseGateway(s, h)
        PROVE  OrderInv'
    <3>1. buf' = buf /\ subs' = [subs EXCEPT ![s][h] = {}]
      BY <2>6 DEF RemoveAllSubscribers, CloseGateway
    <3>2. \A r \in Replicas, g \in Gateways : subs'[r][g] \subseteq subs[r][g]
      BY <3>1 DEF TypeOK
    <3> QED BY <2>2, <3>1, <3>2
  <2>7. ASSUME NEW r \in Replicas, PollStep(r) \/ PollError(r), ~PollDeliver(r)
        PROVE  UNCHANGED <<buf, subs>>
    BY <2>7 DEF PollStep, PollError, PollStart, PollPage, PollPageError,
           PollGateway, PollFetch, PollFetchError, PollEndDelivery, PollUpdate
  <2>8. ASSUME NEW r \in Replicas,
               \/ \E g \in Gateways : RegisterGateway(r, g)
               \/ CloseBegin(r) \/ CloseCollect(r) \/ Initialize(r) \/ Cleanup(r)
        PROVE  UNCHANGED <<buf, subs>>
    BY <2>8 DEF RegisterGateway, CloseBegin, CloseCollect, Initialize, Cleanup
  <2>9. ASSUME \/ PublishStep \/ Tick \/ (\E c \in Channels : CloseChannel(c))
               \/ UNCHANGED vars
        PROVE  UNCHANGED <<buf, subs>>
    BY <2>9 DEF PublishStep, PublishInsert, PublishCommit, PublishRollback,
                Tick, CloseChannel, vars
  <2>10. CASE UNCHANGED <<buf, subs>>
    BY <2>2, <2>10
  <2> QED BY <1>2, <1>4, <2>3, <2>4, <2>5, <2>6, <2>7, <2>8, <2>9, <2>10
             DEF Next, RegistryStep, LifeStep
<1> QED BY <1>3, <1>4

LEMMA OrderInit == Init => OrderInv
  BY EmptyInOrder DEF Init, OrderInv

(* A channel carries events in the order of their timestamps, on any       *)
(* database: a pass begins where the one before it ended, and what it      *)
(* replays at the boundary is not older than what the channel holds.       *)
THEOREM ChannelsInOrder == Spec => []ChannelOrdered
<1> DEFINE Inv == /\ TypeOK /\ ChanInv /\ OrderInv
                  /\ \A r \in Replicas : ForwardInv(r)
<1>1. Init => Inv
  BY TypeInit, ChanInit, OrderInit, ForwardInit
<1>2. Inv /\ [Next]_vars => Inv'
  BY TypeNext, ChanNext, OrderNext, ForwardNext
<1>3. Inv => ChannelOrdered
  BY DEF OrderInv, InOrder, ChannelOrdered
<1> QED BY <1>1, <1>2, <1>3, PTL DEF Spec

-----------------------------------------------------------------------------
(* The refinement of EventLog.                                              *)

(* A replica that has passed something on has a cursor, or will have one   *)
(* at the end of its pass.                                                 *)
PassedInv == \A r \in Replicas : \A e \in Passed(r) : 0 < Reached(r, e.gw)

(* What the delivery of an event means to the log.                         *)
LEMMA DeliverPasses ==
  ASSUME TypeOK, CursorInv, NEW r \in Replicas, ForwardInv(r), PollDeliver(r)
  PROVE  \E e \in batch[r] :
           /\ e.gw = cur[r] /\ e.gw \in Gateways /\ 0 < e.ts
           /\ e.ts >= floor[r][e.gw]
           /\ \A f \in EventsOf(e.gw) :
                floor[r][e.gw] <= f.ts /\ f.ts < e.ts => f \in Passed(r)
           /\ NextInOrder(batch[r], e)
           /\ batch' = [batch EXCEPT ![r] = @ \ {e}]
           /\ last' = [last EXCEPT ![r] = e.ts]
           /\ \A s \in Replicas : s # r => Passed(s)' = Passed(s)
           /\ Passed(r)' = Passed(r) \cup {e}
<1> USE DEF dbVars, regVars, chanVars, walkVars, workVars, passVars, history
<1>1. PICK e \in batch[r] :
         /\ NextInOrder(batch[r], e)
         /\ batch' = [batch EXCEPT ![r] = @ \ {e}]
         /\ last' = [last EXCEPT ![r] = e.ts]
         /\ offered' = [offered EXCEPT ![r] =
                          IF subs[r][cur[r]] = {} THEN @ ELSE @ \cup {e}]
         /\ missed' = [missed EXCEPT ![r] =
                         IF subs[r][cur[r]] = {} THEN @ \cup {e} ELSE @]
  BY DEF PollDeliver
<1>2. cur[r] \in Gateways /\ Delivering(r) /\ pc[r] = "deliver" /\ PassInv(r)
  BY DEF PollDeliver, TypeOK, PassTypeOK, Delivering, CursorInv
<1>3. e.gw = cur[r] /\ 0 < e.ts
  BY <1>2 DEF PassInv
<1>4. e.ts >= floor[r][cur[r]]
  BY <1>2, NumbersOf DEF ForwardInv
<1>5. ASSUME NEW f \in EventsOf(cur[r]), floor[r][cur[r]] <= f.ts, f.ts < e.ts
      PROVE  f \in Passed(r)
  <2>1. f.ts \in Nat /\ e.ts \in Nat
    BY NumbersOf DEF EventsOf, TypeOK, Event
  <2>2. Covered(r, f)
    BY <1>2, <1>5, <2>1, NumbersOf DEF PassInv
  <2>3. f \notin batch[r]
    BY <1>1, <1>5, <2>1 DEF NextInOrder
  <2>4. ~(\A b \in batch[r] : b.ts <= f.ts)
    BY <1>5, <2>1
  <2> QED BY <2>2, <2>3, <2>4 DEF Covered
<1>6. \A s \in Replicas : s # r => Passed(s)' = Passed(s)
  BY <1>1 DEF Passed, TypeOK
<1>7. Passed(r)' = Passed(r) \cup {e}
  <2>1. CASE subs[r][cur[r]] = {}
    BY <1>1, <2>1 DEF Passed, TypeOK
  <2>2. CASE subs[r][cur[r]] # {}
    BY <1>1, <2>2 DEF Passed, TypeOK
  <2> QED BY <2>1, <2>2
<1> QED BY <1>1, <1>2, <1>3, <1>4, <1>5, <1>6, <1>7

LEMMA PassedNext ==
  ASSUME TypeOK, TypeOK', CursorInv, PassedInv, [Next]_vars,
         \A r \in Replicas : ForwardInv(r)
  PROVE  PassedInv'
<1> USE DEF dbVars, regVars, chanVars, walkVars, workVars, passVars, history
<1> SUFFICES ASSUME NEW s \in Replicas, NEW f \in Passed(s)'
             PROVE  0 < Reached(s, f.gw)'
  BY DEF PassedInv
<1>1. Forward(s) \/ Exit(s)
  BY ForwardNext
<1>2. f \in Event /\ f.gw \in Gateways
  BY DEF TypeOK, Passed, Event
<1>3. Reached(s, f.gw)' \in Nat
  BY <1>2, ReachedNatNext
<1>4. CASE Exit(s)
  BY <1>4 DEF Exit, Passed, TypeOK
<1>5. CASE f \in Passed(s) /\ Forward(s)
  <2>1. 0 < Reached(s, f.gw) /\ Reached(s, f.gw) <= Reached(s, f.gw)'
    BY <1>2, <1>5 DEF PassedInv, Forward
  <2>2. Reached(s, f.gw) \in Nat
    BY <1>2, ReachedNat
  <2> QED BY <1>3, <2>1, <2>2
<1>6. ASSUME NEW r \in Replicas, PollDeliver(r), f \notin Passed(s)
      PROVE  0 < Reached(s, f.gw)'
  <2>1. PICK e \in batch[r] :
           /\ e.gw = cur[r] /\ e.gw \in Gateways /\ 0 < e.ts
           /\ NextInOrder(batch[r], e)
           /\ batch' = [batch EXCEPT ![r] = @ \ {e}]
           /\ last' = [last EXCEPT ![r] = e.ts]
           /\ \A u \in Replicas : u # r => Passed(u)' = Passed(u)
           /\ Passed(r)' = Passed(r) \cup {e}
    BY <1>6, DeliverPasses
  <2>2. s = r /\ f = e
    BY <1>6, <2>1
  <2>3. pc[r] = "deliver" /\ UNCHANGED <<lastPolled, floor, pc, cur, bound>>
    BY <1>6 DEF PollDeliver
  <2>4. \A g \in Gateways : g = cur[r] =>
          Reached(r, g) <= e.ts /\ e.ts <= Reached(r, g)'
    BY <2>1, <2>3, DeliverForward
  <2>5. e.ts <= Reached(s, f.gw)' /\ e.ts \in Nat
    BY <2>1, <2>2, <2>4, NumbersOf
  <2> QED BY <1>3, <2>1, <2>5
<1>7. CASE UNCHANGED <<offered, missed>>
  <2>1. f \in Passed(s)
    BY <1>7 DEF Passed
  <2> QED BY <1>1, <1>4, <1>5, <2>1
<1>8. ASSUME NEW r \in Replicas, Exit(r)
      PROVE  0 < Reached(s, f.gw)'
  <2>1. CASE s # r
    <3>1. f \in Passed(s)
      BY <1>8, <2>1, ExitForward DEF ReplicaSame, Passed
    <3> QED BY <1>1, <1>4, <1>5, <3>1
  <2> QED BY <1>4, <1>8, <2>1
<1>9. ASSUME NEW r \in Replicas, PollStep(r) \/ PollError(r), ~PollDeliver(r)
      PROVE  UNCHANGED <<offered, missed>>
  BY <1>9 DEF PollStep, PollError, PollStart, PollPage, PollPageError,
         PollGateway, PollFetch, PollFetchError, PollEndDelivery, PollUpdate
<1>10. ASSUME NEW r \in Replicas, RegistryStep(r) \/ Cleanup(r)
       PROVE  UNCHANGED <<offered, missed>>
  BY <1>10 DEF RegistryStep, RegisterGateway, Subscribe, RemoveSubscriber,
               RemoveAllSubscribers, Cleanup
<1>11. ASSUME NEW r \in Replicas, LifeStep(r), ~Exit(r)
       PROVE  UNCHANGED <<offered, missed>>
  BY <1>11 DEF LifeStep, CloseBegin, CloseCollect, Initialize, CloseGateway
<1>12. ASSUME \/ Tick \/ PublishStep \/ UNCHANGED vars
              \/ \E c \in Channels : CloseChannel(c) \/ Receive(c)
       PROVE  UNCHANGED <<offered, missed>>
  BY <1>12 DEF Tick, PublishStep, PublishInsert, PublishCommit,
               PublishRollback, CloseChannel, Receive, vars
<1>13. ASSUME NEW r \in Replicas, PollDeliver(r)
       PROVE  0 < Reached(s, f.gw)'
  BY <1>1, <1>4, <1>5, <1>6, <1>13
<1> QED BY <1>7, <1>8, <1>9, <1>10, <1>11, <1>12, <1>13 DEF Next

(* A step that neither stores, fetches nor delivers: it leaves the log     *)
(* alone, or gives up the rest of a batch.                                 *)
LEMMA StepDrops ==
  ASSUME TypeOK, NEW r \in Replicas, UNCHANGED <<events, floor, offered, missed>>,
         batch' = [batch EXCEPT ![r] = {}] \/ batch' = batch
  PROVE  [Log!LogNext]_(Log!logVars)
<1>1. [u \in Replicas |-> Passed(u)]' = [u \in Replicas |-> Passed(u)]
  BY DEF Passed
<1>2. CASE batch' = batch
  BY <1>1, <1>2 DEF Log!logVars
<1>3. CASE batch' = [batch EXCEPT ![r] = {}]
  <2>1. Log!Drop(r)
    BY <1>1, <1>3 DEF Log!Drop
  <2> QED BY <2>1 DEF Log!LogNext
<1> QED BY <1>2, <1>3

(* Every step of the hub is a step of the log, or leaves it as it is.      *)
LEMMA LogStep ==
  ASSUME TypeOK, TypeOK', CursorInv, PassedInv, [Next]_vars,
         \A r \in Replicas : ForwardInv(r)
  PROVE  [Log!LogNext]_(Log!logVars)
<1> USE DEF dbVars, regVars, chanVars, walkVars, workVars, passVars, history
<1> DEFINE passed == [u \in Replicas |-> Passed(u)]
<1>1. CASE UNCHANGED <<events, batch, offered, missed, floor>>
  <2>1. passed' = passed
    BY <1>1 DEF Passed
  <2> QED BY <1>1, <2>1 DEF Log!logVars
<1>2. ASSUME NEW t \in txs, PublishCommit(t)
      PROVE  Log!LogNext
  <2>1. /\ events' = events \cup {t.ev}
        /\ UNCHANGED <<batch, offered, missed, floor>>
    BY <1>2 DEF PublishCommit
  <2>2. passed' = passed
    BY <2>1 DEF Passed
  <2>3. t.ev \in Event /\ \A f \in events : f.ts <= t.ev.ts
    BY DEF CursorInv, TableInv, TypeOK, Tx
  <2>4. Log!Enter(t.ev)
    BY <2>1, <2>2, <2>3 DEF Log!Enter, Log!LogEvent, Event
  <2>5. t.ev \in events'
    BY <2>1
  <2> QED BY <2>4, <2>5 DEF Log!LogNext
<1>3. ASSUME NEW r \in Replicas, Cleanup(r)
      PROVE  Log!LogNext
  <2>1. /\ events' = {e \in events : e.ts + Retention >= now}
        /\ UNCHANGED <<batch, offered, missed, floor>>
    BY <1>3 DEF Cleanup
  <2>2. passed' = passed
    BY <2>1 DEF Passed
  <2>3. \A e \in events \ events', f \in events' : e.ts < f.ts
    BY <2>1, HubAssumption DEF TypeOK, Event
  <2>4. Log!Expire
    BY <2>1, <2>2, <2>3 DEF Log!Expire
  <2> QED BY <2>4 DEF Log!LogNext
<1>4. ASSUME NEW r \in Replicas, PollFetch(r)
      PROVE  Log!LogNext
  <2> DEFINE g == cur[r]
             from == FetchFrom(r)
  <2>1. /\ g \in Gateways /\ bound[r] = lastPolled[r][g] /\ ~Delivering(r)
    BY <1>4 DEF PollFetch, TypeOK, PassTypeOK, ForwardInv, Delivering
  <2>2. PICK evs \in SUBSET EventsOf(g) : batch' = [batch EXCEPT ![r] = evs]
    BY <1>4 DEF PollFetch, TrimSingleBoundaryReplay
  <2>3. /\ floor' = [floor EXCEPT ![r][g] = IF bound[r] > 0 THEN @ ELSE from]
        /\ UNCHANGED <<events, offered, missed>>
    BY <1>4 DEF PollFetch
  <2>4. passed' = passed /\ passed[r] = Passed(r)
    BY <2>3 DEF Passed
  <2>5. \E es \in SUBSET Log!StoredOf(g) : batch' = [batch EXCEPT ![r] = es]
    BY <2>2 DEF Log!StoredOf, EventsOf
  <2>6. \/ floor' = floor
        \/ /\ Log!PassedOf(r, g) = {}
           /\ floor'[r][g] \in Nat
           /\ floor' = [floor EXCEPT ![r][g] = floor'[r][g]]
    <3>1. CASE bound[r] > 0
      BY <2>1, <2>3, <3>1 DEF TypeOK
    <3>2. CASE ~(bound[r] > 0)
      <4>1. ~(0 < Reached(r, g))
        BY <2>1, <3>2 DEF Reached
      <4>2. \A e \in Passed(r) : e.gw # g
        BY <4>1 DEF PassedInv
      <4>3. Log!PassedOf(r, g) = {}
        BY <4>2 DEF Log!PassedOf
      <4>4. floor' = [floor EXCEPT ![r][g] = from]
        BY <2>3, <3>2
      <4>5. floor'[r][g] = from
        BY <2>1, <4>4 DEF TypeOK
      <4>6. floor'[r][g] \in Nat
        BY <2>1 DEF TypeOK
      <4> QED BY <4>3, <4>4, <4>5, <4>6
    <3> QED BY <3>1, <3>2
  <2>7. Log!Take(r, g)
    BY <2>3, <2>4, <2>5, <2>6 DEF Log!Take
  <2> QED BY <2>1, <2>7 DEF Log!LogNext
<1>5. ASSUME NEW r \in Replicas, PollDeliver(r)
      PROVE  Log!LogNext
  <2>1. PICK e \in batch[r] :
           /\ e.gw = cur[r] /\ e.gw \in Gateways /\ 0 < e.ts
           /\ e.ts >= floor[r][e.gw]
           /\ \A f \in EventsOf(e.gw) :
                floor[r][e.gw] <= f.ts /\ f.ts < e.ts => f \in Passed(r)
           /\ batch' = [batch EXCEPT ![r] = @ \ {e}]
           /\ \A s \in Replicas : s # r => Passed(s)' = Passed(s)
           /\ Passed(r)' = Passed(r) \cup {e}
    BY <1>5, DeliverPasses
  <2>2. passed' = [passed EXCEPT ![r] = @ \cup {e}] /\ passed[r] = Passed(r)
    BY <2>1
  <2>3. UNCHANGED <<events, floor>>
    BY <1>5 DEF PollDeliver
  <2>4. Log!StoredOf(e.gw) = EventsOf(e.gw)
    BY DEF Log!StoredOf, EventsOf
  <2>5. \A f \in Log!StoredOf(e.gw) :
          floor[r][e.gw] <= f.ts /\ f.ts < e.ts => f \in passed[r]
    BY <2>1, <2>2, <2>4
  <2>6. Log!Pass(r, e)
    BY <2>1, <2>2, <2>3, <2>5 DEF Log!Pass
  <2> QED BY <2>6 DEF Log!LogNext
<1>6. ASSUME NEW r \in Replicas, Exit(r)
      PROVE  Log!LogNext
  <2>1. /\ batch' = [batch EXCEPT ![r] = {}]
        /\ floor' = [floor EXCEPT ![r] = [g \in Gateways |-> 0]]
        /\ offered' = [offered EXCEPT ![r] = {}]
        /\ missed' = [missed EXCEPT ![r] = {}]
        /\ events' = events
    BY <1>6 DEF Exit, EndPass, DropWork
  <2>2. passed' = [passed EXCEPT ![r] = {}]
    <3>1. \A s \in Replicas : Passed(s)' = IF s = r THEN {} ELSE Passed(s)
      BY <2>1 DEF Passed, TypeOK
    <3> QED BY <3>1
  <2>3. Log!Reset(r)
    BY <2>1, <2>2 DEF Log!Reset
  <2> QED BY <2>3 DEF Log!LogNext
<1>7. ASSUME NEW r \in Replicas, PollStep(r) \/ PollError(r),
             ~PollDeliver(r), ~PollFetch(r)
      PROVE  [Log!LogNext]_(Log!logVars)
  <2>1. UNCHANGED <<events, floor, offered, missed>>
    BY <1>7 DEF PollStep, PollError, PollStart, PollPage, PollPageError,
           PollGateway, PollFetchError, PollEndDelivery, PollUpdate
  <2>2. batch' = [batch EXCEPT ![r] = {}] \/ batch' = batch
    BY <1>7 DEF PollStep, PollError, PollStart, PollPage, PollPageError,
           PollGateway, PollFetchError, PollEndDelivery, PollUpdate, Continue,
           EndPass, DropWork
  <2> QED BY <2>1, <2>2, StepDrops
<1>8. ASSUME NEW r \in Replicas, RegistryStep(r)
      PROVE  UNCHANGED <<events, batch, offered, missed, floor>>
  BY <1>8 DEF RegistryStep, RegisterGateway, Subscribe, RemoveSubscriber,
              RemoveAllSubscribers
<1>9. ASSUME NEW r \in Replicas, LifeStep(r), ~Exit(r)
      PROVE  UNCHANGED <<events, batch, offered, missed, floor>>
  BY <1>9 DEF LifeStep, CloseBegin, CloseCollect, Initialize, CloseGateway
<1>10. ASSUME NEW r \in Replicas, NEW g \in Gateways, NEW id \in EventIds,
              PublishInsert(r, g, id)
       PROVE  UNCHANGED <<events, batch, offered, missed, floor>>
  BY <1>10 DEF PublishInsert
<1>11. ASSUME NEW t \in txs, PublishRollback(t)
       PROVE  UNCHANGED <<events, batch, offered, missed, floor>>
  BY <1>11 DEF PublishRollback
<1>12. ASSUME \/ Tick \/ UNCHANGED vars
              \/ \E c \in Channels : CloseChannel(c) \/ Receive(c)
       PROVE  UNCHANGED <<events, batch, offered, missed, floor>>
  BY <1>12 DEF Tick, CloseChannel, Receive, vars
<1> HIDE DEF passed
<1> QED BY <1>1, <1>2, <1>3, <1>4, <1>5, <1>6, <1>7, <1>8, <1>9, <1>10, <1>11,
           <1>12 DEF Next, PublishStep

LEMMA LogInitially == Init => Log!LogInit /\ PassedInv
  BY DEF Init, Log!LogInit, PassedInv, Passed

(* Where the database admits one writer at a time, the hub with its polls, *)
(* pages, channels, blocked deliveries, errors and restarts implements the *)
(* log: every replica passes the stored events of a gateway on in the      *)
(* order of their timestamps and leaves none out.                          *)
THEOREM HubImplementsLog ==
  ASSUME SerialWriters
  PROVE  Spec => ImplementsLog
<1> DEFINE Inv == /\ TypeOK /\ ChanInv /\ CursorInv /\ PassedInv
                  /\ \A r \in Replicas : ForwardInv(r)
<1>1. Init => Inv
  BY TypeInit, ChanInit, CursorInit, ForwardInit, LogInitially
<1>2. Inv /\ [Next]_vars => Inv'
  BY TypeNext, ChanNext, CursorNext, ForwardNext, PassedNext
<1>3. Inv /\ [Next]_vars => [Log!LogNext]_(Log!logVars)
  BY TypeNext, LogStep
<1>4. Init => Log!LogInit
  BY LogInitially
<1> QED BY <1>1, <1>2, <1>3, <1>4, PTL DEF Spec, ImplementsLog, Log!LogSpec
=============================================================================
