-------------------------- MODULE WebhookKeyProofs --------------------------
(***************************************************************************)
(* What becomes of an event.                                               *)
(*                                                                         *)
(* An event with secret fields that counts as delivered was delivered to   *)
(* every subscriber it was sealed for.  The portal keeps no copy of such   *)
(* fields outside the delivery rows, so there would be no second chance.   *)
(*                                                                         *)
(* Without failures and rollbacks every published event comes to an end,   *)
(* with one delivery row for each of its subscribers.                      *)
(***************************************************************************)
EXTENDS WebhookOutboxProofs

(* The delivery row a publisher inserts for subscriber s.                  *)
KeyRow(e, s) == <<e, s, 1>>

(* A row that a worker has posted is its own, and only its Mark can make   *)
(* it DELIVERED; so nothing takes that status back.                        *)
WorkInv ==
    \A w \in Workers :
        /\ \A r \in wcur[w] : posts[r] = 1
        /\ \A v \in Workers, r \in wcur[w] : r \in wcur[v] => v = w
        /\ \A r \in wtodo[w] : row[r] # "DELIVERED"
        /\ wpc[w] = "mark" => \A r \in wcur[w] : row[r] # "DELIVERED"

(* Rows and status of an event with secret fields appear together, with    *)
(* its publisher's commit, and come from nobody else.                      *)
AppearInv ==
    \A e \in KeyEvents :
        /\ tx[e] # "committed" =>
             event[e] = "none" /\ \A r \in RowsOf(e) : row[r] = "none"
        /\ tx[e] = "open" =>
             /\ \A s \in matched[e] : KeyRow(e, s) \in heldRows[e]
             /\ heldEv[e][e] = "ALL_DELIVERED" => matched[e] = {}
        /\ tx[e] = "committed" =>
             \A s \in matched[e] : row[KeyRow(e, s)] # "none"
        /\ \A t \in Events : t # e =>
             heldEv[t][e] = "none" /\ \A r \in RowsOf(e) : r \notin heldRows[t]

AllDelivered(e) == \A s \in matched[e] : row[KeyRow(e, s)] = "DELIVERED"

(* An event is, or is about to be, ALL_DELIVERED only when it was.         *)
VerdictInv ==
    /\ \A e \in KeyEvents : event[e] = "ALL_DELIVERED" => AllDelivered(e)
    /\ \A w \in Workers, e \in KeyEvents :
          /\ wpc[w] = "write" /\ wsays[w] = "ALL_DELIVERED"
          /\ \E r \in wcur[w] : r[1] = e
          => AllDelivered(e)

KeyDeliveryInv == OutboxInv /\ WorkInv /\ AppearInv /\ VerdictInv

-----------------------------------------------------------------------------
(* The workers.                                                             *)

LEMMA WorkerTypes ==
    ASSUME TypeOK, NEW w \in Workers
    PROVE  wcur[w] \subseteq Rows /\ wtodo[w] \subseteq Rows
  BY DEF TypeOK

(* The steps that are not a worker's deliver nothing and leave the workers *)
(* alone.                                                                  *)
LEMMA OthersDeliverNothing ==
    ASSUME OutboxInv,
           \/ \E e \in Events : Request(e)
           \/ \E d \in Dispatchers : Dispatch(d) \/ InsertFails(d)
           \/ \E r \in Rows : Age(r)
           \/ UNCHANGED vars
    PROVE  /\ UNCHANGED <<wtodo, wcur, wpc, wsays, posts>>
           /\ \A r \in Rows : row'[r] # row[r] =>
                row[r] = "none" /\ row'[r] = "PENDING"
  <1>1. UNCHANGED <<wtodo, wcur, wpc, wsays, posts>>
    BY DEF Request, PublishPlain, PublishKey, Commit, Rollback, Dispatch,
           DispatchClaim, Match, Insert, InsertFails, Age, vars, wVars
  <1>2. ASSUME NEW e \in Events, Commit(e)
        PROVE  \A r \in Rows : row'[r] # row[r] =>
                 row[r] = "none" /\ row'[r] = "PENDING"
    BY <1>2 DEF Commit, OutboxInv, RowInv, TypeOK
  <1>3. ASSUME NEW d \in Dispatchers, NEW s \in Subscribers, Insert(d, s)
        PROVE  \A r \in Rows : row'[r] # row[r] =>
                 row[r] = "none" /\ row'[r] = "PENDING"
    <2>1. PICK q \in Rows :
            /\ row[q] = "none"
            /\ row' = [row EXCEPT ![q] = "PENDING"] \/ row' = row
      BY <1>3, InsertTakesNew
    <2> QED BY <2>1 DEF OutboxInv, TypeOK
  <1>4. ASSUME NEW e \in Events, Request(e), ~Commit(e)
        PROVE  row' = row
    BY <1>4 DEF Request, PublishPlain, PublishKey, Rollback, dbVars
  <1>5. ASSUME NEW d \in Dispatchers, Dispatch(d) \/ InsertFails(d),
               \A s \in Subscribers : ~Insert(d, s)
        PROVE  row' = row
    BY <1>5 DEF Dispatch, DispatchClaim, Match, InsertFails
  <1>6. ASSUME \/ \E r \in Rows : Age(r)
               \/ UNCHANGED vars
        PROVE  row' = row
    BY <1>6 DEF Age, vars, dbVars
  <1> QED BY <1>1, <1>2, <1>3, <1>4, <1>5, <1>6

LEMMA WorkNext ==
    ASSUME OutboxInv, WorkInv, [Next]_vars
    PROVE  WorkInv'
  <1> USE DEF txVars, dbVars, dVars
  <1>1. CASE \/ \E e \in Events : Request(e)
             \/ \E d \in Dispatchers : Dispatch(d) \/ InsertFails(d)
             \/ \E r \in Rows : Age(r)
             \/ UNCHANGED vars
    <2>1. /\ UNCHANGED <<wtodo, wcur, wpc, wsays, posts>>
          /\ \A r \in Rows : row'[r] # row[r] =>
               row[r] = "none" /\ row'[r] = "PENDING"
      BY <1>1, OthersDeliverNothing
    <2> QED BY <2>1, WorkerTypes DEF OutboxInv, WorkInv
  <1>2. ASSUME NEW w \in Workers, WorkerClaim(w)
        PROVE  WorkInv'
    <2>1. PICK B \in SUBSET Rows :
             /\ wtodo' = [wtodo EXCEPT ![w] = B]
             /\ wpc' = [wpc EXCEPT ![w] = IF B = {} THEN "idle" ELSE "post"]
             /\ \A r \in Rows :
                  \/ r \in B /\ row'[r] = "IN_FLIGHT"
                  \/ r \in old /\ row[r] = "IN_FLIGHT" /\ row'[r] = "FAILED"
                  \/ r \notin B /\ r \notin old /\ row'[r] = row[r]
      BY <1>2, WorkerClaimTakesPending DEF OutboxInv
    <2>2. UNCHANGED <<wcur, posts>>
      BY <1>2 DEF WorkerClaim
    <2>3. \A r \in Rows : row'[r] = "DELIVERED" => row[r] = "DELIVERED" /\ r \notin B
      BY <2>1
    <2> SUFFICES ASSUME NEW v \in Workers PROVE WorkInv!(v)'
      BY DEF WorkInv
    <2>4. WorkInv!(v) /\ wcur[v] \subseteq Rows /\ wtodo[v] \subseteq Rows
      BY WorkerTypes DEF WorkInv, OutboxInv
    <2>5. /\ wtodo'[v] = IF v = w THEN B ELSE wtodo[v]
          /\ wpc'[v] = "mark" => wpc[v] = "mark"
      BY <2>1 DEF OutboxInv, TypeOK
    <2> QED BY <2>2, <2>3, <2>4, <2>5
  <1>3. ASSUME NEW w \in Workers, NEW q \in Rows, Post(w, q)
        PROVE  WorkInv'
    <2>1. /\ q \in wtodo[w] /\ row' = row
          /\ posts' = [posts EXCEPT ![q] = @ + 1]
          /\ wtodo' = [wtodo EXCEPT ![w] = @ \ {q}]
          /\ wcur' = [wcur EXCEPT ![w] = {q}]
          /\ wpc' = [wpc EXCEPT ![w] = "mark"]
      BY <1>3 DEF Post
    <2>2. posts[q] = 0 /\ row[q] # "DELIVERED"
      BY <2>1 DEF OutboxInv, RowInv, WorkInv
    <2>3. \A v \in Workers : q \notin wcur[v]
      BY <2>2 DEF WorkInv
    <2>4. posts'[q] = 1 /\ \A r \in Rows : r # q => posts'[r] = posts[r]
      BY <2>1, <2>2 DEF OutboxInv, TypeOK
    <2>5. \A v \in Workers :
            /\ wcur'[v] = IF v = w THEN {q} ELSE wcur[v]
            /\ wtodo'[v] \subseteq wtodo[v]
            /\ wpc'[v] = IF v = w THEN "mark" ELSE wpc[v]
      BY <2>1 DEF OutboxInv, TypeOK
    <2> SUFFICES ASSUME NEW v \in Workers PROVE WorkInv!(v)'
      BY DEF WorkInv
    <2>6. WorkInv!(v) /\ wcur[v] \subseteq Rows /\ wtodo[v] \subseteq Rows
      BY WorkerTypes DEF WorkInv, OutboxInv
    <2>7. \A r \in wcur'[v] : posts'[r] = 1
      BY <2>3, <2>4, <2>5, <2>6
    <2>8. \A u \in Workers, r \in wcur'[v] : r \in wcur'[u] => u = v
      BY <2>3, <2>5, <2>6
    <2> QED BY <2>1, <2>2, <2>5, <2>6, <2>7, <2>8
  <1>4. ASSUME NEW w \in Workers, Mark(w)
        PROVE  WorkInv'
    <2>1. /\ row' = [r \in Rows |-> IF r \in wcur[w] THEN wsays[w] ELSE row[r]]
          /\ wpc' = [wpc EXCEPT ![w] = "read"]
          /\ UNCHANGED <<wtodo, wcur, posts>>
      BY <1>4 DEF Mark
    <2> SUFFICES ASSUME NEW v \in Workers PROVE WorkInv!(v)'
      BY DEF WorkInv
    <2>2. WorkInv!(v) /\ wcur[v] \subseteq Rows /\ wtodo[v] \subseteq Rows
      BY WorkerTypes DEF WorkInv, OutboxInv
    <2>3. \A r \in wtodo[v] : r \notin wcur[w]
      BY WorkerTypes DEF WorkInv, OutboxInv, RowInv
    <2>4. v # w => \A r \in wcur[v] : r \notin wcur[w]
      BY <2>2
    <2>5. wpc'[v] = IF v = w THEN "read" ELSE wpc[v]
      BY <2>1 DEF OutboxInv, TypeOK
    <2> QED BY <2>1, <2>2, <2>3, <2>4, <2>5
  <1>5. ASSUME NEW w \in Workers, ReconcileRead(w)
        PROVE  WorkInv'
    <2>1. /\ UNCHANGED <<row, wtodo, posts>>
          /\ \A v \in Workers : wcur'[v] \subseteq wcur[v]
          /\ \A v \in Workers : wpc'[v] = "mark" => wpc[v] = "mark"
      BY <1>5 DEF ReconcileRead, Onward, OutboxInv, TypeOK
    <2> QED BY <2>1 DEF WorkInv
  <1>6. ASSUME NEW w \in Workers, ReconcileWrite(w)
        PROVE  WorkInv'
    <2>1. /\ UNCHANGED <<row, wtodo, posts>>
          /\ \A v \in Workers : wcur'[v] \subseteq wcur[v]
          /\ \A v \in Workers : wpc'[v] = "mark" => wpc[v] = "mark"
      BY <1>6 DEF ReconcileWrite, Onward, OutboxInv, TypeOK
    <2> QED BY <2>1 DEF WorkInv
  <1>7. ASSUME NEW w \in Workers, WorkerFails(w)
        PROVE  WorkInv'
    <2>1. /\ UNCHANGED <<row, posts>>
          /\ \A v \in Workers :
               /\ wcur'[v] \subseteq wcur[v] /\ wtodo'[v] \subseteq wtodo[v]
               /\ wpc'[v] = "mark" => wpc[v] = "mark"
      BY <1>7 DEF WorkerFails, OutboxInv, TypeOK
    <2> QED BY <2>1 DEF WorkInv
  <1>8. CASE Crash
    BY <1>8 DEF Crash, WorkInv
  <1> QED BY <1>1, <1>2, <1>3, <1>4, <1>5, <1>6, <1>7, <1>8
             DEF Next, Work, Fault

(* A row only leaves "none" for PENDING, and never leaves DELIVERED.       *)
LEMMA RowsMove ==
    ASSUME OutboxInv, WorkInv, [Next]_vars, NEW r \in Rows
    PROVE  /\ row[r] = "DELIVERED" => row'[r] = "DELIVERED"
           /\ row[r] # "none" => row'[r] # "none"
           /\ row[r] = "none" /\ row'[r] # "none" =>
                \/ \E e \in Events : Commit(e) /\ r \in heldRows[e]
                \/ \E d \in Dispatchers, s \in Subscribers :
                     Insert(d, s) /\ r[1] \notin KeyEvents
  <1> USE DEF txVars, dbVars, dVars
  <1> DEFINE Goal == /\ row[r] = "DELIVERED" => row'[r] = "DELIVERED"
                     /\ row[r] # "none" => row'[r] # "none"
                     /\ row[r] = "none" /\ row'[r] # "none" =>
                          \/ \E e \in Events : Commit(e) /\ r \in heldRows[e]
                          \/ \E d \in Dispatchers, s \in Subscribers :
                               Insert(d, s) /\ r[1] \notin KeyEvents
  <1>1. CASE row'[r] = row[r]
    BY <1>1
  <1>2. ASSUME NEW e \in Events, Commit(e) PROVE Goal
    <2>1. row'[r] = IF r \in heldRows[e] THEN "PENDING" ELSE row[r]
      BY <1>2 DEF Commit
    <2>2. r \in heldRows[e] => row[r] = "none"
      BY DEF OutboxInv, RowInv
    <2> QED BY <1>2, <2>1, <2>2
  <1>3. ASSUME NEW d \in Dispatchers, NEW s \in Subscribers, Insert(d, s)
        PROVE  Goal
    <2>1. PICK q \in Rows :
            /\ q[1] \notin KeyEvents /\ row[q] = "none"
            /\ row' = [row EXCEPT ![q] = "PENDING"] \/ row' = row
      BY <1>3, InsertTakesNew
    <2>2. CASE r # q
      <3>1. row'[r] = row[r]
        BY <2>1, <2>2 DEF OutboxInv, TypeOK
      <3> QED BY <1>1, <3>1
    <2>3. CASE r = q
      BY <1>3, <2>1, <2>3
    <2> QED BY <2>2, <2>3
  <1>4. ASSUME NEW w \in Workers, WorkerClaim(w) PROVE Goal
    <2>1. PICK B \in SUBSET Rows :
             /\ \A q \in B : q \notin old /\ row[q] = "PENDING"
             /\ \A q \in Rows :
                  \/ q \in B /\ row'[q] = "IN_FLIGHT"
                  \/ q \in old /\ row[q] = "IN_FLIGHT" /\ row'[q] = "FAILED"
                  \/ q \notin B /\ q \notin old /\ row'[q] = row[q]
      BY <1>4, WorkerClaimTakesPending DEF OutboxInv
    <2> QED BY <2>1
  <1>5. ASSUME NEW w \in Workers, Mark(w) PROVE Goal
    <2>1. row'[r] = IF r \in wcur[w] THEN wsays[w] ELSE row[r]
      BY <1>5 DEF Mark
    <2>2. r \in wcur[w] => row[r] # "DELIVERED" /\ row[r] # "none"
      BY <1>5 DEF Mark, WorkInv, OutboxInv, RowInv
    <2>3. wsays[w] # "none"
      BY <1>5 DEF Mark, OutboxInv, SaysInv
    <2> QED BY <2>1, <2>2, <2>3
  <1>6. ASSUME NEW e \in Events, Request(e), ~Commit(e)
        PROVE  row' = row
    BY <1>6 DEF Request, PublishPlain, PublishKey, Rollback
  <1>7. ASSUME NEW d \in Dispatchers, Dispatch(d) \/ InsertFails(d),
               \A s \in Subscribers : ~Insert(d, s)
        PROVE  row' = row
    BY <1>7 DEF Dispatch, DispatchClaim, Match, InsertFails
  <1>8. ASSUME NEW w \in Workers, Work(w) \/ WorkerFails(w),
               ~WorkerClaim(w), ~Mark(w)
        PROVE  row' = row
    BY <1>8 DEF Work, Post, ReconcileRead, ReconcileWrite, WorkerFails
  <1>9. ASSUME Crash \/ (\E q \in Rows : Age(q)) \/ UNCHANGED vars
        PROVE  row' = row
    BY <1>9 DEF Crash, Age, vars
  <1> SUFFICES Goal
    OBVIOUS
  <1> HIDE DEF Goal
  <1>10. CASE row' = row
    BY <1>10 DEF Goal
  <1>11. CASE \E e \in Events : Request(e)
    BY <1>2, <1>6, <1>10, <1>11
  <1>12. CASE \E d \in Dispatchers : Dispatch(d) \/ InsertFails(d)
    BY <1>3, <1>7, <1>10, <1>12
  <1>13. CASE \E w \in Workers : Work(w) \/ WorkerFails(w)
    BY <1>4, <1>5, <1>8, <1>10, <1>13
  <1> QED BY <1>9, <1>10, <1>11, <1>12, <1>13 DEF Next, Fault

-----------------------------------------------------------------------------
(* The events with secret fields.                                           *)

(* What a step that is none of the event's publisher leaves as it is.      *)
LEMMA KeyUntouched ==
    ASSUME OutboxInv, AppearInv, [Next]_vars, NEW e \in KeyEvents,
           ~PublishKey(e), ~Commit(e), ~Rollback(e), ~Crash
    PROVE  /\ tx'[e] = tx[e] /\ matched'[e] = matched[e]
           /\ heldEv'[e][e] = heldEv[e][e]
           /\ \A t \in Events : t # e => heldEv'[t][e] = "none"
           /\ \A r \in RowsOf(e), t \in Events :
                r \in heldRows'[t] <=> r \in heldRows[t]
           /\ event'[e] # event[e] =>
                \E w \in Workers : /\ ReconcileWrite(w) /\ event'[e] = wsays[w]
                                   /\ \E r \in wcur[w] : r[1] = e
  <1> USE DEF txVars, dbVars, dVars
  <1> DEFINE Same == /\ tx'[e] = tx[e] /\ matched'[e] = matched[e]
                     /\ heldEv'[e][e] = heldEv[e][e]
                     /\ \A t \in Events : t # e => heldEv'[t][e] = "none"
                     /\ \A r \in RowsOf(e), t \in Events :
                          r \in heldRows'[t] <=> r \in heldRows[t]
                     /\ event'[e] = event[e]
  <1>1. /\ e \in Events /\ \A r \in RowsOf(e) : r \in Rows /\ r[1] = e
        /\ \A t \in Events : t # e => heldEv[t][e] = "none"
        /\ \A t \in Events, r \in RowsOf(e) : t # e => r \notin heldRows[t]
        /\ event[e] # "PENDING"
        /\ \A d \in Dispatchers : e \notin dtodo[d] /\ e \notin dcur[d]
    BY KeysAreEvents DEF AppearInv, RowsOf, OutboxInv, KeyInv
  <1>2. CASE UNCHANGED <<tx, matched, heldEv, heldRows, event>>
    BY <1>1, <1>2
  <1>3. ASSUME NEW f \in Events, Request(f)
        PROVE  Same
    <2>1. f # e
      BY <1>3 DEF Request, PublishPlain
    <2>2. CASE PublishPlain(f)
      BY <1>1, <2>1, <2>2 DEF PublishPlain, OutboxInv, TypeOK
    <2>3. CASE PublishKey(f)
      <3>1. PICK S \in SUBSET Subscribers :
              /\ heldRows' = [heldRows EXCEPT ![f] = {<<f, s, 1>> : s \in S}]
              /\ \E st : heldEv' = [heldEv EXCEPT ![f][f] = st]
              /\ matched' = [matched EXCEPT ![f] = S]
        BY <2>3 DEF PublishKey
      <3>2. tx' = [tx EXCEPT ![f] = "open"] /\ event' = event
        BY <2>3 DEF PublishKey
      <3>3. \A r \in RowsOf(e), t \in Events :
              r \in heldRows'[t] <=> r \in heldRows[t]
        BY <1>1, <2>1, <3>1 DEF OutboxInv, TypeOK
      <3>4. /\ matched'[e] = matched[e] /\ tx'[e] = tx[e]
            /\ \A t \in Events : heldEv'[t][e] = heldEv[t][e]
        BY <1>1, <2>1, <3>1, <3>2 DEF OutboxInv, TypeOK
      <3> QED BY <1>1, <3>2, <3>3, <3>4
    <2>4. CASE Commit(f)
      BY <1>1, <2>1, <2>4 DEF Commit, Keep, OutboxInv, TypeOK
    <2>5. CASE Rollback(f)
      BY <1>1, <2>1, <2>5 DEF Rollback, Keep, OutboxInv, TypeOK
    <2> QED BY <1>3, <2>2, <2>3, <2>4, <2>5 DEF Request
  <1>4. ASSUME NEW d \in Dispatchers, NEW h \in {NoTx} \cup wakes,
               DispatchClaim(d, h)
        PROVE  Same
    <2>1. PICK B \in Batches({f \in Events : event[f] = "PENDING"}) :
             event' = [f \in Events |-> IF f \in B THEN Claimed ELSE event[f]]
      BY <1>4 DEF DispatchClaim
    <2>2. e \notin B
      BY <1>1, BatchesAreParts
    <2>3. event'[e] = event[e]
      BY <1>1, <2>1, <2>2
    <2>4. UNCHANGED <<tx, matched, heldEv, heldRows>>
      BY <1>4 DEF DispatchClaim
    <2> QED BY <1>1, <2>3, <2>4
  <1>5. ASSUME NEW d \in Dispatchers, NEW f \in Events, Match(d, f)
        PROVE  Same
    <2>1. f # e /\ UNCHANGED <<tx, heldRows>>
      BY <1>1, <1>5 DEF Match
    <2>2. /\ \E S : matched' = [matched EXCEPT ![f] = S]
          /\ SetEvent(d, f, "ALL_DELIVERED") \/ UNCHANGED <<event, heldEv>>
      BY <1>5 DEF Match
    <2>3. /\ event'[e] = event[e]
          /\ \A t \in Events : heldEv'[t][e] = heldEv[t][e]
      <3>1. "ALL_DELIVERED" \in EventStatus
        BY DEF EventStatus
      <3> QED BY <1>1, <2>1, <2>2, <3>1, SetEventSets DEF OutboxInv
    <2>4. matched'[e] = matched[e]
      BY <1>1, <2>1, <2>2 DEF OutboxInv, TypeOK
    <2> QED BY <1>1, <2>1, <2>3, <2>4
  <1>6. ASSUME NEW d \in Dispatchers, NEW s \in Subscribers, Insert(d, s)
        PROVE  Same
    <2>1. PICK q \in Rows :
            /\ q[1] \notin KeyEvents
            /\ \/ row' = [row EXCEPT ![q] = "PENDING"] /\ heldRows' = heldRows
               \/ \E t \in Events :
                    heldRows' = [heldRows EXCEPT ![t] = @ \cup {q}] /\ row' = row
      BY <1>6, InsertTakesNew
    <2>2. UNCHANGED <<tx, matched, heldEv, event>>
      BY <1>6 DEF Insert
    <2>3. \A r \in RowsOf(e) : r # q
      BY <1>1, <2>1
    <2>4. \A r \in RowsOf(e), t \in Events :
            r \in heldRows'[t] <=> r \in heldRows[t]
      <3>1. CASE heldRows' = heldRows
        BY <3>1
      <3>2. ASSUME NEW t \in Events,
                   heldRows' = [heldRows EXCEPT ![t] = @ \cup {q}]
            PROVE  \A r \in RowsOf(e), u \in Events :
                     r \in heldRows'[u] <=> r \in heldRows[u]
        BY <2>3, <3>2 DEF OutboxInv, TypeOK
      <3> QED BY <2>1, <3>1, <3>2
    <2> QED BY <1>1, <2>2, <2>4
  <1>7. ASSUME NEW d \in Dispatchers, InsertFails(d)
        PROVE  Same
    <2>1. PICK f \in dcur[d] :
             SetEvent(d, f, "PENDING") \/ UNCHANGED <<event, heldEv>>
      BY <1>7 DEF InsertFails
    <2>2. f \in Events /\ f # e
      BY <1>1 DEF OutboxInv, TypeOK
    <2>3. /\ event'[e] = event[e]
          /\ \A t \in Events : heldEv'[t][e] = heldEv[t][e]
      <3>1. "PENDING" \in EventStatus
        BY DEF EventStatus
      <3> QED BY <1>1, <2>1, <2>2, <3>1, SetEventSets DEF OutboxInv
    <2>4. UNCHANGED <<tx, matched, heldRows>>
      BY <1>7 DEF InsertFails
    <2> QED BY <1>1, <2>3, <2>4
  <1>8. ASSUME NEW w \in Workers, ReconcileWrite(w)
        PROVE  /\ UNCHANGED <<tx, matched, heldEv, heldRows>>
               /\ event'[e] # event[e] => /\ event'[e] = wsays[w]
                                          /\ \E r \in wcur[w] : r[1] = e
    BY <1>1, <1>8 DEF ReconcileWrite
  <1>9. ASSUME NEW w \in Workers, Work(w) \/ WorkerFails(w), ~ReconcileWrite(w)
        PROVE  UNCHANGED <<tx, matched, heldEv, heldRows, event>>
    BY <1>9 DEF Work, WorkerClaim, Post, Mark, ReconcileRead, WorkerFails
  <1>10. ASSUME (\E q \in Rows : Age(q)) \/ UNCHANGED vars
         PROVE  UNCHANGED <<tx, matched, heldEv, heldRows, event>>
    BY <1>10 DEF Age, vars
  <1>11. CASE Same
    BY <1>11
  <1> HIDE DEF Same
  <1>12. CASE \/ \E f \in Events : Request(f)
              \/ \E d \in Dispatchers : Dispatch(d) \/ InsertFails(d)
    BY <1>3, <1>4, <1>5, <1>6, <1>7, <1>11, <1>12 DEF Dispatch
  <1>13. ASSUME NEW w \in Workers, ReconcileWrite(w)
         PROVE  /\ tx'[e] = tx[e] /\ matched'[e] = matched[e]
                /\ heldEv'[e][e] = heldEv[e][e]
                /\ \A t \in Events : t # e => heldEv'[t][e] = "none"
                /\ \A r \in RowsOf(e), t \in Events :
                     r \in heldRows'[t] <=> r \in heldRows[t]
                /\ event'[e] # event[e] =>
                     \E v \in Workers : /\ ReconcileWrite(v) /\ event'[e] = wsays[v]
                                        /\ \E r \in wcur[v] : r[1] = e
    BY <1>1, <1>8, <1>13
  <1>14. CASE \E w \in Workers : Work(w) \/ WorkerFails(w)
    BY <1>2, <1>9, <1>13, <1>14
  <1> QED BY <1>2, <1>10, <1>12, <1>14 DEF Next, Fault

LEMMA AppearNext ==
    ASSUME OutboxInv, WorkInv, AppearInv, [Next]_vars
    PROVE  AppearInv'
  <1> USE DEF txVars, dbVars, dVars
  <1> SUFFICES ASSUME NEW e \in KeyEvents PROVE AppearInv!(e)'
    BY DEF AppearInv
  <1>1. /\ e \in Events /\ AppearInv!(e)
        /\ \A r \in RowsOf(e) : r \in Rows /\ r[1] = e
        /\ \A s \in matched[e] : KeyRow(e, s) \in RowsOf(e)
    BY KeysAreEvents, OutboxAssumption
       DEF AppearInv, RowsOf, Rows, KeyRow, OutboxInv, TypeOK
  <1>2. CASE PublishKey(e)
    <2>1. PICK S \in SUBSET Subscribers :
            /\ heldRows' = [heldRows EXCEPT ![e] = {<<e, s, 1>> : s \in S}]
            /\ heldEv' = [heldEv EXCEPT ![e][e] =
                            IF S = {} THEN "ALL_DELIVERED" ELSE "DISPATCHED"]
            /\ matched' = [matched EXCEPT ![e] = S]
      BY <1>2 DEF PublishKey
    <2>2. tx[e] = "idle" /\ tx' = [tx EXCEPT ![e] = "open"] /\ UNCHANGED <<event, row>>
      BY <1>2 DEF PublishKey
    <2>3. /\ tx'[e] = "open" /\ matched'[e] = S
          /\ heldRows'[e] = {<<e, s, 1>> : s \in S}
          /\ heldEv'[e][e] = "ALL_DELIVERED" => S = {}
      BY <1>1, <2>1, <2>2 DEF OutboxInv, TypeOK
    <2>4. \A t \in Events : t # e => heldRows'[t] = heldRows[t] /\ heldEv'[t] = heldEv[t]
      BY <2>1 DEF OutboxInv, TypeOK
    <2> QED BY <1>1, <2>2, <2>3, <2>4 DEF KeyRow
  <1>3. CASE Commit(e)
    <2>1. /\ tx[e] = "open" /\ tx' = [tx EXCEPT ![e] = "committed"]
          /\ \A r \in Rows : row'[r] = IF r \in heldRows[e] THEN "PENDING" ELSE row[r]
          /\ heldRows' = [heldRows EXCEPT ![e] = {}]
          /\ heldEv' = [heldEv EXCEPT ![e] = Keep]
          /\ matched' = matched
      BY <1>3 DEF Commit
    <2>2. /\ tx'[e] = "committed"
          /\ \A t \in Events : t # e => heldRows'[t] = heldRows[t] /\ heldEv'[t] = heldEv[t]
      BY <1>1, <2>1 DEF OutboxInv, TypeOK
    <2>3. \A s \in matched'[e] : row'[KeyRow(e, s)] = "PENDING"
      BY <1>1, <2>1
    <2> QED BY <1>1, <2>2, <2>3
  <1>4. CASE Rollback(e)
    <2>1. /\ tx[e] = "open" /\ tx' = [tx EXCEPT ![e] = "aborted"]
          /\ heldRows' = [heldRows EXCEPT ![e] = {}]
          /\ heldEv' = [heldEv EXCEPT ![e] = Keep]
          /\ UNCHANGED <<event, row>>
      BY <1>4 DEF Rollback
    <2>2. /\ tx'[e] = "aborted"
          /\ \A t \in Events : t # e => heldRows'[t] = heldRows[t] /\ heldEv'[t] = heldEv[t]
      BY <1>1, <2>1 DEF OutboxInv, TypeOK
    <2> QED BY <1>1, <2>1, <2>2
  <1>5. CASE Crash
    <2>1. /\ tx'[e] = IF tx[e] = "open" THEN "aborted" ELSE tx[e]
          /\ UNCHANGED <<event, row, matched>>
          /\ \A t \in Events : heldRows'[t] = {} /\ heldEv'[t][e] = "none"
      BY <1>1, <1>5 DEF Crash, Keep
    <2> QED BY <1>1, <2>1
  <1>6. CASE ~PublishKey(e) /\ ~Commit(e) /\ ~Rollback(e) /\ ~Crash
    <2>1. /\ tx'[e] = tx[e] /\ matched'[e] = matched[e]
          /\ heldEv'[e][e] = heldEv[e][e]
          /\ \A t \in Events : t # e => heldEv'[t][e] = "none"
          /\ \A r \in RowsOf(e), t \in Events :
               r \in heldRows'[t] <=> r \in heldRows[t]
          /\ event'[e] # event[e] =>
               \E w \in Workers : /\ ReconcileWrite(w) /\ event'[e] = wsays[w]
                                  /\ \E r \in wcur[w] : r[1] = e
      BY <1>6, KeyUntouched
    <2>2. ASSUME NEW r \in RowsOf(e), row[r] = "none"
          PROVE  row'[r] = "none"
      <3>1. \A t \in Events : t # e => r \notin heldRows[t]
        BY <1>1
      <3>2. ~ \E t \in Events : Commit(t) /\ r \in heldRows[t]
        BY <1>6, <3>1
      <3>3. r \in Rows /\ r[1] = e
        BY <1>1
      <3> QED BY <2>2, <3>2, <3>3, RowsMove
    <2>3. \A r \in RowsOf(e) : row[r] # "none" => row'[r] # "none"
      BY <1>1, RowsMove
    <2>4. tx[e] # "committed" => event'[e] = event[e]
      <3> SUFFICES ASSUME tx[e] # "committed", event'[e] # event[e] PROVE FALSE
        OBVIOUS
      <3>1. PICK w \in Workers : \E r \in wcur[w] : r[1] = e
        BY <2>1
      <3>2. PICK r \in wcur[w] : r[1] = e
        BY <3>1
      <3>3. r \in RowsOf(e)
        BY <3>2, WorkerTypes DEF RowsOf, OutboxInv
      <3>4. row[r] # "none"
        BY <1>1, <3>2, <3>3 DEF OutboxInv, RowInv
      <3> QED BY <1>1, <3>3, <3>4
    <2> QED BY <1>1, <2>1, <2>2, <2>3, <2>4
  <1> QED BY <1>2, <1>3, <1>4, <1>5, <1>6

LEMMA VerdictNext ==
    ASSUME OutboxInv, WorkInv, AppearInv, VerdictInv, [Next]_vars
    PROVE  VerdictInv'
  <1> USE DEF txVars, dbVars, dVars
  <1> SUFFICES ASSUME NEW e \in KeyEvents
               PROVE  /\ event'[e] = "ALL_DELIVERED" => AllDelivered(e)'
                      /\ \A w \in Workers :
                           /\ wpc'[w] = "write" /\ wsays'[w] = "ALL_DELIVERED"
                           /\ \E r \in wcur'[w] : r[1] = e
                           => AllDelivered(e)'
    BY DEF VerdictInv
  <1>1. /\ e \in Events /\ AppearInv!(e)
        /\ \A r \in RowsOf(e) : r \in Rows /\ r[1] = e
        /\ \A s \in matched[e] : KeyRow(e, s) \in RowsOf(e)
    BY KeysAreEvents, OutboxAssumption
       DEF AppearInv, RowsOf, Rows, KeyRow, OutboxInv, TypeOK
  <1>2. matched'[e] = matched[e] /\ AllDelivered(e) => AllDelivered(e)'
    BY <1>1, RowsMove DEF AllDelivered
  <1>3. CASE PublishKey(e)
    <2>1. tx[e] = "idle" /\ UNCHANGED <<event, row, wVars>>
      BY <1>3 DEF PublishKey
    <2>2. event'[e] = "none"
      BY <1>1, <2>1
    <2>3. \A w \in Workers : \A r \in wcur[w] : r[1] # e
      BY <1>1, <2>1, WorkerTypes DEF OutboxInv, RowInv, RowsOf
    <2> QED BY <2>1, <2>2, <2>3 DEF wVars
  <1>4. CASE ~PublishKey(e)
    <2>1. matched'[e] = matched[e]
      <3>1. Commit(e) \/ Rollback(e) \/ Crash => matched' = matched
        BY DEF Commit, Rollback, Crash
      <3> QED BY <1>4, <3>1, KeyUntouched
    <2>2. event'[e] = "ALL_DELIVERED" => AllDelivered(e)'
      <3>1. CASE Commit(e)
        <4>1. tx[e] = "open" /\ event'[e] = IF heldEv[e][e] = "none" THEN event[e] ELSE heldEv[e][e]
          BY <1>1, <3>1 DEF Commit
        <4> QED BY <1>1, <2>1, <4>1 DEF AllDelivered
      <3>2. CASE Rollback(e) \/ Crash
        <4>1. event' = event
          BY <3>2 DEF Rollback, Crash
        <4> QED BY <1>2, <2>1, <4>1 DEF VerdictInv
      <3>3. CASE ~Commit(e) /\ ~Rollback(e) /\ ~Crash
        <4>1. event'[e] # event[e] =>
                \E w \in Workers : /\ ReconcileWrite(w) /\ event'[e] = wsays[w]
                                   /\ \E r \in wcur[w] : r[1] = e
          BY <1>4, <3>3, KeyUntouched
        <4>2. ASSUME NEW w \in Workers, ReconcileWrite(w), wsays[w] = "ALL_DELIVERED",
                     \E r \in wcur[w] : r[1] = e
              PROVE  AllDelivered(e)
          BY <4>2 DEF ReconcileWrite, VerdictInv
        <4> QED BY <1>2, <2>1, <4>1, <4>2 DEF VerdictInv
      <3> QED BY <3>1, <3>2, <3>3
    <2>3. ASSUME NEW w \in Workers,
                 wpc'[w] = "write", wsays'[w] = "ALL_DELIVERED",
                 \E r \in wcur'[w] : r[1] = e
          PROVE  AllDelivered(e)'
      <3>1. ASSUME wpc[w] = "write", wsays'[w] = wsays[w], wcur'[w] = wcur[w]
            PROVE  AllDelivered(e)'
        BY <1>2, <2>1, <2>3, <3>1 DEF VerdictInv
      <3>2. ASSUME ReconcileRead(w)
            PROVE  AllDelivered(e)'
        <4> DEFINE S == {r \in Rows : row[r] # "none"
                                        /\ \E q \in wcur[w] : r[1] = q[1]}
                   terminal == \A r \in S : row[r] \in {"DELIVERED", "FAILED"}
        <4>1. /\ wpc' = [wpc EXCEPT ![w] = IF terminal THEN "write" ELSE Onward(w)]
              /\ wsays' = [wsays EXCEPT ![w] = IF terminal THEN Verdict(S) ELSE "none"]
              /\ wcur' = [wcur EXCEPT ![w] = IF terminal THEN @ ELSE {}]
              /\ UNCHANGED <<row, matched>>
          BY <3>2 DEF ReconcileRead
        <4>2. /\ wsays'[w] = IF terminal THEN Verdict(S) ELSE "none"
              /\ wcur'[w] = IF terminal THEN wcur[w] ELSE {}
          BY <4>1 DEF OutboxInv, TypeOK
        <4>3. terminal /\ Verdict(S) = "ALL_DELIVERED" /\ \E r \in wcur[w] : r[1] = e
          <5> HIDE DEF S, terminal
          <5> QED BY <2>3, <4>2
        <4>4. \A r \in S : row[r] = "DELIVERED"
          <5> HIDE DEF S
          <5> QED BY <4>3 DEF Verdict
        <4>5. PICK r \in wcur[w] : r[1] = e
          BY <4>3
        <4>6. r \in RowsOf(e) /\ row[r] # "none"
          BY <4>5, WorkerTypes DEF RowsOf, OutboxInv, RowInv
        <4>7. tx[e] = "committed"
          BY <1>1, <4>6
        <4>8. \A s \in matched[e] : KeyRow(e, s) \in S
          BY <1>1, <4>5, <4>7
        <4> QED BY <4>1, <4>4, <4>8 DEF AllDelivered
      <3>3. CASE \/ \E f \in Events : Request(f)
                 \/ \E d \in Dispatchers : Dispatch(d) \/ InsertFails(d)
                 \/ \E r \in Rows : Age(r)
                 \/ UNCHANGED vars
        BY <2>3, <3>1, <3>3, OthersDeliverNothing
      <3>4. ASSUME NEW v \in Workers, Work(v) \/ WorkerFails(v), v # w
            PROVE  AllDelivered(e)'
        <4>1. \E a, b, c : /\ wpc' = [wpc EXCEPT ![v] = a]
                           /\ wsays' \in {wsays, [wsays EXCEPT ![v] = b]}
                           /\ wcur' \in {wcur, [wcur EXCEPT ![v] = c]}
          <5>1. CASE WorkerClaim(v)
            BY <5>1 DEF WorkerClaim
          <5>2. CASE Mark(v)
            BY <5>2 DEF Mark
          <5>3. CASE ReconcileRead(v)
            <6>1. \E a : wpc' = [wpc EXCEPT ![v] = a]
              BY <5>3 DEF ReconcileRead
            <6>2. \E b : wsays' = [wsays EXCEPT ![v] = b]
              BY <5>3 DEF ReconcileRead
            <6>3. \E c : wcur' = [wcur EXCEPT ![v] = c]
              BY <5>3 DEF ReconcileRead
            <6> QED BY <6>1, <6>2, <6>3
          <5>4. CASE ReconcileWrite(v) \/ WorkerFails(v)
            BY <5>4 DEF ReconcileWrite, WorkerFails
          <5>5. ASSUME NEW r \in Rows, Post(v, r)
                PROVE  \E a, b, c : /\ wpc' = [wpc EXCEPT ![v] = a]
                                   /\ wsays' \in {wsays, [wsays EXCEPT ![v] = b]}
                                   /\ wcur' \in {wcur, [wcur EXCEPT ![v] = c]}
            BY <5>5 DEF Post
          <5> QED BY <3>4, <5>1, <5>2, <5>3, <5>4, <5>5 DEF Work
        <4>2. wpc'[w] = wpc[w] /\ wsays'[w] = wsays[w] /\ wcur'[w] = wcur[w]
          BY <3>4, <4>1 DEF OutboxInv, TypeOK
        <4> QED BY <2>3, <3>1, <4>2
      <3>5. ASSUME Work(w) \/ WorkerFails(w), ~ReconcileRead(w)
            PROVE  wpc'[w] # "write"
        <4>1. wpc \in [Workers -> {"idle", "post", "mark", "read", "write"}]
          BY DEF OutboxInv, TypeOK
        <4>2. \E v \in {"idle", "post", "mark", "read"} :
                wpc' = [wpc EXCEPT ![w] = v]
          BY <3>5 DEF Work, WorkerClaim, Post, Mark, Onward, ReconcileWrite,
             WorkerFails
        <4> QED BY <4>1, <4>2
      <3>6. Crash => wpc'[w] # "write"
        BY DEF Crash
      <3> QED BY <2>3, <3>2, <3>3, <3>4, <3>5, <3>6 DEF Next, Fault
    <2> QED BY <2>2, <2>3
  <1> QED BY <1>3, <1>4

-----------------------------------------------------------------------------
(* The induction.                                                           *)

LEMMA KeyDeliveryInit == Init => KeyDeliveryInv
  <1> SUFFICES ASSUME Init PROVE KeyDeliveryInv
    OBVIOUS
  <1>1. OutboxInv
    BY InitInv
  <1>2. WorkInv /\ VerdictInv
    BY KeysAreEvents DEF Init, WorkInv, VerdictInv, Keep
  <1>3. AppearInv
    BY KeysAreEvents DEF Init, AppearInv, Keep, RowsOf
  <1> QED BY <1>1, <1>2, <1>3 DEF KeyDeliveryInv

LEMMA KeyDeliveryNext == KeyDeliveryInv /\ [Next]_vars => KeyDeliveryInv'
  BY NextInv, WorkNext, AppearNext, VerdictNext DEF KeyDeliveryInv

(* An event with secret fields that is ALL_DELIVERED has been delivered to *)
(* every subscriber it was sealed for: no crash between publish and        *)
(* commit, no reconcile of an overlapping batch and no answer that comes   *)
(* after its row was given up makes the portal drop a secret it owes.      *)
THEOREM SecretsDelivered == Spec => []KeyDelivered
  <1>1. KeyDeliveryInv => KeyDelivered
    BY DEF KeyDeliveryInv, VerdictInv, AllDelivered, KeyRow, KeyDelivered
  <1> QED BY <1>1, KeyDeliveryInit, KeyDeliveryNext, PTL DEF Spec

-----------------------------------------------------------------------------
(* Without failures and rollbacks every event comes to an end.              *)

Clean == faults = 0 /\ \A e \in Events : tx[e] # "aborted"

(* A delivery row that is there, or will be when a transaction commits.    *)
Made(r) == row[r] # "none" \/ \E t \in Events : r \in heldRows[t]

(* Dispatcher d has event e in its batch.                                  *)
Has(d, e) == e \in dtodo[d] \/ e \in dcur[d]

(* Transaction t will change the status or the rows of event e.            *)
Holds(t, e) == heldEv[t][e] # "none" \/ \E r \in heldRows[t] : r[1] = e

(* Only an open transaction holds anything, and only of the event it has   *)
(* published or of one that was published before.                          *)
HeldInv ==
    \A t, e \in Events : Holds(t, e) =>
        tx[t] = "open" /\ (t = e \/ tx[e] = "committed")

(* An event is published once, claimed once and matched once.              *)
StageInv ==
    \A e \in Events :
        /\ tx[e] # "committed" => /\ event[e] = "none"
                                  /\ \A d \in Dispatchers : ~Has(d, e)
                                  /\ \A r \in RowsOf(e) : row[r] = "none"
        /\ event[e] = "PENDING" => \A d \in Dispatchers : ~Has(d, e)
        /\ \/ tx[e] = "idle" \/ event[e] = "PENDING"
           \/ tx[e] = "open" /\ e \notin KeyEvents
           \/ \E d \in Dispatchers : e \in dtodo[d]
           => matched[e] = {}
        /\ \A t \in Events : heldEv[t][e] = "PENDING" => t = e
        /\ \A t \in Events : heldEv[t][e] = "DISPATCHED" =>
             \E r \in heldRows[t] : r[1] = e

(* An event is in the hands of one dispatcher, and a dispatcher inserts    *)
(* the rows of one event.                                                  *)
BatchInv ==
    /\ \A d, c \in Dispatchers, e \in Events : Has(d, e) /\ Has(c, e) => d = c
    /\ \A d \in Dispatchers :
         /\ \A e \in dcur[d] : e \notin dtodo[d]
         /\ \A e, f \in dcur[d] : e = f
         /\ dcur[d] # {} => dsubs[d] # {}

(* Every subscriber an event was matched with has one delivery row, or the *)
(* dispatcher has still to make it.                                        *)
FanInv ==
    /\ \A r \in Rows : Made(r) => r[3] = 1 /\ r[2] \in matched[r[1]]
    /\ \A e \in Events : \A s \in matched[e] :
         \/ Made(<<e, s, 1>>)
         \/ \E d \in Dispatchers : e \in dcur[d] /\ s \in dsubs[d]
    /\ \A d \in Dispatchers : \A e \in dcur[d], s \in dsubs[d] :
         /\ s \in matched[e]
         /\ \A r \in Rows : r[1] = e /\ r[2] = s => ~Made(r)

(* A row in flight is in the hands of a worker.                            *)
FlightInv ==
    /\ old = {}
    /\ \A r \in Rows : row[r] = "IN_FLIGHT" =>
         \E w \in Workers : r \in wtodo[w] \/ r \in wcur[w]
    /\ \A w \in Workers :
         /\ \A r, q \in wcur[w] : r = q
         /\ wpc[w] = "idle" => wtodo[w] = {}
         /\ wpc[w] \in {"idle", "post"} => wcur[w] = {}
         /\ wpc[w] \in {"read", "write"} =>
              \A r \in wcur[w] : row[r] \in {"DELIVERED", "FAILED"}

(* Something is still to be done about event e.                            *)
Unfinished(e) ==
    \/ \E d \in Dispatchers : Has(d, e)
    \/ \E t \in Events : Holds(t, e)
    \/ \E r \in RowsOf(e) : row[r] \in {"PENDING", "IN_FLIGHT"}
    \/ \E w \in Workers : \E r \in wcur[w] : r[1] = e

EndInv == \A e \in Events : event[e] = "DISPATCHED" => Unfinished(e)

CleanInv == /\ HeldInv /\ StageInv /\ BatchInv
            /\ FanInv /\ FlightInv /\ EndInv

SettleInv == OutboxInv /\ (Clean => CleanInv)

-----------------------------------------------------------------------------
(* What the groups of steps have in common.                                 *)

LEMMA JoinsOpen ==
    ASSUME TypeOK, NEW d \in Dispatchers, NEW t \in Joins(d), t # NoTx
    PROVE  t \in Events /\ tx[t] = "open"
  BY DEF TypeOK, Joins

LEMMA BatchTypes ==
    ASSUME OutboxInv
    PROVE  /\ \A d \in Dispatchers : /\ dtodo[d] \subseteq Events
                                     /\ dcur[d] \subseteq Events
                                     /\ dsubs[d] \subseteq Subscribers
           /\ \A t \in Events : heldRows[t] \subseteq Rows
  BY DEF OutboxInv, TypeOK

LEMMA RowParts ==
    /\ \A r \in Rows : r[1] \in Events /\ r[2] \in Subscribers
    /\ \A e \in Events, s \in Subscribers : <<e, s, 1>> \in Rows
  BY OutboxAssumption DEF Rows

(* Without failures no transaction that has not begun, or has ended, holds *)
(* anything, and an event has no rows before it is published.              *)
LEMMA NothingHeld ==
    ASSUME OutboxInv, HeldInv, NEW t \in Events, tx[t] # "open"
    PROVE  heldRows[t] = {} /\ \A e \in Events : heldEv[t][e] = "none"
  <1>1. \A e \in Events : ~Holds(t, e)
    BY DEF HeldInv
  <1>2. \A r \in heldRows[t] : r[1] \in Events
    BY BatchTypes, RowParts
  <1> QED BY <1>1, <1>2 DEF Holds

LEMMA NoRowsYet ==
    ASSUME OutboxInv, FanInv, NEW e \in Events, matched[e] = {}
    PROVE  \A r \in Rows : r[1] = e => ~Made(r)
  BY DEF FanInv

(* A step of a request or of a dispatcher leaves the workers alone.        *)
LEMMA FlightFrame ==
    ASSUME OutboxInv, FlightInv, old' = old,
           \/ \E e \in Events : Request(e)
           \/ \E d \in Dispatchers : Dispatch(d)
    PROVE  FlightInv'
  <1>1. /\ UNCHANGED <<wtodo, wcur, wpc, wsays, posts>>
        /\ \A r \in Rows : row'[r] # row[r] =>
             row[r] = "none" /\ row'[r] = "PENDING"
    BY OthersDeliverNothing
  <1>2. \A w \in Workers : wcur[w] \subseteq Rows
    BY WorkerTypes DEF OutboxInv
  <1>3. \A w \in Workers : \A r \in wcur[w] : row'[r] = row[r]
    BY <1>1, <1>2 DEF OutboxInv, RowInv
  <1>4. \A r \in Rows : row'[r] = "IN_FLIGHT" => row[r] = "IN_FLIGHT"
    BY <1>1
  <1> QED BY <1>1, <1>3, <1>4 DEF FlightInv

(* A step of a worker leaves the requests and the dispatchers alone.       *)
LEMMA WorkFrame ==
    ASSUME OutboxInv, CleanInv,
           tx' = tx, heldRows' = heldRows, heldEv' = heldEv, matched' = matched,
           dtodo' = dtodo, dcur' = dcur, dsubs' = dsubs,
           \A r \in Rows : row'[r] = "none" <=> row[r] = "none",
           \A e \in Events : event'[e] # event[e] =>
              event'[e] \notin {"none", "PENDING"} /\ tx[e] = "committed"
    PROVE  HeldInv' /\ StageInv' /\ BatchInv' /\ FanInv'
  <1> USE DEF CleanInv
  <1>1. \A d \in Dispatchers, e \in Events : Has(d, e)' <=> Has(d, e)
    BY DEF Has
  <1>2. \A t, e \in Events : Holds(t, e)' <=> Holds(t, e)
    BY DEF Holds
  <1>3. \A r \in Rows : Made(r)' <=> Made(r)
    BY DEF Made
  <1>4. HeldInv' /\ BatchInv'
    BY <1>1, <1>2 DEF HeldInv, BatchInv
  <1>5. FanInv'
    <2>1. \A e \in Events, s \in Subscribers : <<e, s, 1>> \in Rows
      BY RowParts
    <2>2. \A e \in Events : matched[e] \subseteq Subscribers
      BY DEF OutboxInv, TypeOK
    <2> QED BY <1>3, <2>1, <2>2 DEF FanInv
  <1>6. StageInv'
    <2> SUFFICES ASSUME NEW e \in Events PROVE StageInv!(e)'
      BY DEF StageInv
    <2>1. StageInv!(e)
      BY DEF StageInv
    <2>2. /\ event'[e] = "PENDING" => event[e] = "PENDING"
          /\ tx[e] # "committed" => event'[e] = event[e]
      OBVIOUS
    <2>3. \A r \in RowsOf(e) : row'[r] = "none" <=> row[r] = "none"
      BY DEF RowsOf
    <2> QED BY <1>1, <2>1, <2>2, <2>3
  <1> QED BY <1>4, <1>5, <1>6

-----------------------------------------------------------------------------
(* The steps of a worker.                                                   *)

LEMMA WorkerClaimSettles ==
    ASSUME OutboxInv, CleanInv, NEW w \in Workers, WorkerClaim(w)
    PROVE  CleanInv'
  <1> USE DEF txVars, dVars
  <1>1. PICK B \in SUBSET Rows :
           /\ wtodo' = [wtodo EXCEPT ![w] = B]
           /\ wpc' = [wpc EXCEPT ![w] = IF B = {} THEN "idle" ELSE "post"]
           /\ \A r \in B : r \notin old /\ row[r] = "PENDING"
           /\ \A r \in Rows :
                \/ r \in B /\ row'[r] = "IN_FLIGHT"
                \/ r \in old /\ row[r] = "IN_FLIGHT" /\ row'[r] = "FAILED"
                \/ r \notin B /\ r \notin old /\ row'[r] = row[r]
    BY WorkerClaimTakesPending DEF OutboxInv
  <1>2. /\ old' = {} /\ wpc[w] = "idle"
        /\ UNCHANGED <<tx, heldRows, heldEv, event, dtodo, dcur, dsubs, wcur, matched>>
    BY DEF WorkerClaim
  <1>3. old = {} /\ wtodo[w] = {} /\ wcur[w] = {}
    BY <1>2 DEF CleanInv, FlightInv
  <1>4. \A r \in Rows : row'[r] = IF r \in B THEN "IN_FLIGHT" ELSE row[r]
    BY <1>1, <1>3
  <1>5. \A r \in Rows : row'[r] = "none" <=> row[r] = "none"
    BY <1>1, <1>4
  <1>6. HeldInv' /\ StageInv' /\ BatchInv' /\ FanInv'
    <2>1. \A e \in Events : event'[e] = event[e]
      BY <1>2
    <2> QED BY <1>2, <1>5, <2>1, WorkFrame
  <1>7. \A v \in Workers : /\ wtodo'[v] = IF v = w THEN B ELSE wtodo[v]
                           /\ wpc'[v] = IF v # w THEN wpc[v]
                                        ELSE IF B = {} THEN "idle" ELSE "post"
    BY <1>1 DEF OutboxInv, TypeOK
  <1>8. FlightInv'
    <2>1. ASSUME NEW r \in Rows, row'[r] = "IN_FLIGHT"
          PROVE  \E v \in Workers : r \in wtodo'[v] \/ r \in wcur'[v]
      <3>1. CASE r \in B
        BY <1>7, <3>1
      <3>2. CASE r \notin B
        <4>1. PICK v \in Workers : r \in wtodo[v] \/ r \in wcur[v]
          BY <1>4, <2>1, <3>2 DEF CleanInv, FlightInv
        <4> QED BY <1>2, <1>3, <1>7, <4>1
      <3> QED BY <3>1, <3>2
    <2>2. ASSUME NEW v \in Workers
          PROVE  /\ \A r, q \in wcur'[v] : r = q
                 /\ wpc'[v] = "idle" => wtodo'[v] = {}
                 /\ wpc'[v] \in {"idle", "post"} => wcur'[v] = {}
      BY <1>2, <1>3, <1>7 DEF CleanInv, FlightInv
    <2>3. ASSUME NEW v \in Workers, wpc'[v] \in {"read", "write"},
                 NEW r \in wcur'[v]
          PROVE  row'[r] \in {"DELIVERED", "FAILED"}
      <3>1. v # w /\ wpc[v] \in {"read", "write"} /\ r \in wcur[v] /\ r \in Rows
        BY <1>2, <1>7, <2>3, WorkerTypes DEF OutboxInv
      <3>2. row[r] \in {"DELIVERED", "FAILED"}
        BY <3>1 DEF CleanInv, FlightInv
      <3> QED BY <1>1, <1>4, <3>1, <3>2
    <2> QED BY <1>2, <2>1, <2>2, <2>3 DEF FlightInv
  <1>9. EndInv'
    <2> SUFFICES ASSUME NEW e \in Events, event'[e] = "DISPATCHED"
                 PROVE  Unfinished(e)'
      BY DEF EndInv
    <2>1. Unfinished(e)
      BY <1>2 DEF CleanInv, EndInv
    <2>2. \A r \in RowsOf(e) : row[r] \in {"PENDING", "IN_FLIGHT"} =>
             row'[r] \in {"PENDING", "IN_FLIGHT"}
      BY <1>4 DEF RowsOf
    <2> QED BY <1>2, <2>1, <2>2 DEF Unfinished, Has, Holds
  <1> QED BY <1>6, <1>8, <1>9 DEF CleanInv

LEMMA PostSettles ==
    ASSUME OutboxInv, CleanInv, NEW w \in Workers, NEW q \in Rows, Post(w, q)
    PROVE  CleanInv'
  <1> USE DEF txVars, dbVars, dVars
  <1>1. /\ q \in wtodo[w] /\ wpc[w] = "post"
        /\ wtodo' = [wtodo EXCEPT ![w] = @ \ {q}]
        /\ wcur' = [wcur EXCEPT ![w] = {q}]
        /\ wpc' = [wpc EXCEPT ![w] = "mark"]
        /\ UNCHANGED <<tx, heldRows, heldEv, event, row, old, dtodo, dcur, dsubs,
                       matched>>
    BY DEF Post
  <1>2. HeldInv' /\ StageInv' /\ BatchInv' /\ FanInv'
    <2>1. /\ \A e \in Events : event'[e] = event[e]
          /\ \A r \in Rows : row'[r] = "none" <=> row[r] = "none"
      BY <1>1
    <2> QED BY <1>1, <2>1, WorkFrame
  <1>3. \A v \in Workers :
           /\ wtodo'[v] = IF v = w THEN wtodo[w] \ {q} ELSE wtodo[v]
           /\ wcur'[v] = IF v = w THEN {q} ELSE wcur[v]
           /\ wpc'[v] = IF v = w THEN "mark" ELSE wpc[v]
    BY <1>1 DEF OutboxInv, TypeOK
  <1>4. wcur[w] = {}
    BY <1>1 DEF CleanInv, FlightInv
  <1>5. FlightInv'
    <2>1. ASSUME NEW r \in Rows, row'[r] = "IN_FLIGHT"
          PROVE  \E v \in Workers : r \in wtodo'[v] \/ r \in wcur'[v]
      <3>1. PICK v \in Workers : r \in wtodo[v] \/ r \in wcur[v]
        BY <1>1, <2>1 DEF CleanInv, FlightInv
      <3> QED BY <1>3, <1>4, <3>1
    <2>2. ASSUME NEW v \in Workers
          PROVE  FlightInv!3!(v)'
      BY <1>1, <1>3 DEF CleanInv, FlightInv
    <2> QED BY <1>1, <2>1, <2>2 DEF CleanInv, FlightInv
  <1>6. EndInv'
    <2>1. \A v \in Workers : wcur[v] \subseteq wcur'[v]
      BY <1>3, <1>4
    <2> QED BY <1>1, <2>1 DEF CleanInv, EndInv, Unfinished, Has, Holds
  <1> QED BY <1>2, <1>5, <1>6 DEF CleanInv

LEMMA MarkSettles ==
    ASSUME OutboxInv, CleanInv, NEW w \in Workers, Mark(w)
    PROVE  CleanInv'
  <1> USE DEF txVars, dVars
  <1>1. /\ wpc[w] = "mark"
        /\ row' = [r \in Rows |-> IF r \in wcur[w] THEN wsays[w] ELSE row[r]]
        /\ old' = old \ wcur[w]
        /\ wpc' = [wpc EXCEPT ![w] = "read"]
        /\ UNCHANGED <<tx, heldRows, heldEv, event, dtodo, dcur, dsubs, wtodo,
                       wcur, matched>>
    BY DEF Mark
  <1>2. wsays[w] \in {"DELIVERED", "FAILED"}
    BY <1>1 DEF OutboxInv, SaysInv
  <1>3. \A r \in Rows : row'[r] = IF r \in wcur[w] THEN wsays[w] ELSE row[r]
    BY <1>1
  <1>4. \A r \in Rows : row'[r] = "none" <=> row[r] = "none"
    BY <1>2, <1>3 DEF OutboxInv, RowInv
  <1>5. HeldInv' /\ StageInv' /\ BatchInv' /\ FanInv'
    <2>1. \A e \in Events : event'[e] = event[e]
      BY <1>1
    <2> QED BY <1>1, <1>4, <2>1, WorkFrame
  <1>6. \A v \in Workers : wpc'[v] = IF v = w THEN "read" ELSE wpc[v]
    BY <1>1 DEF OutboxInv, TypeOK
  <1>7. FlightInv'
    <2>1. old' = {}
      BY <1>1 DEF CleanInv, FlightInv
    <2>2. ASSUME NEW r \in Rows, row'[r] = "IN_FLIGHT"
          PROVE  \E v \in Workers : r \in wtodo'[v] \/ r \in wcur'[v]
      BY <1>1, <1>2, <1>3, <2>2 DEF CleanInv, FlightInv
    <2>3. ASSUME NEW v \in Workers
          PROVE  /\ \A r, q \in wcur'[v] : r = q
                 /\ wpc'[v] = "idle" => wtodo'[v] = {}
                 /\ wpc'[v] \in {"idle", "post"} => wcur'[v] = {}
      BY <1>1, <1>6 DEF CleanInv, FlightInv
    <2>4. ASSUME NEW v \in Workers, wpc'[v] \in {"read", "write"},
                 NEW r \in wcur'[v]
          PROVE  row'[r] \in {"DELIVERED", "FAILED"}
      <3>1. r \in wcur[v] /\ r \in Rows
        BY <1>1, WorkerTypes DEF OutboxInv
      <3>2. r \notin wcur[w] => row[r] \in {"DELIVERED", "FAILED"}
        BY <1>6, <2>4, <3>1 DEF CleanInv, FlightInv
      <3> QED BY <1>2, <1>3, <3>1, <3>2
    <2> QED BY <2>1, <2>2, <2>3, <2>4 DEF FlightInv
  <1>8. EndInv'
    <2> SUFFICES ASSUME NEW e \in Events, event'[e] = "DISPATCHED"
                 PROVE  Unfinished(e)'
      BY DEF EndInv
    <2>1. Unfinished(e)
      BY <1>1 DEF CleanInv, EndInv
    <2>2. \A r \in RowsOf(e) : row[r] \in {"PENDING", "IN_FLIGHT"} =>
             \/ row'[r] \in {"PENDING", "IN_FLIGHT"}
             \/ r \in wcur'[w] /\ r[1] = e
      BY <1>1, <1>3 DEF RowsOf
    <2> QED BY <1>1, <2>1, <2>2 DEF Unfinished, Has, Holds
  <1> QED BY <1>5, <1>7, <1>8 DEF CleanInv

(* A worker leaves a row it has marked, for the next of its batch.         *)
LEMMA FlightOnward ==
    ASSUME OutboxInv, FlightInv, NEW w \in Workers,
           wpc[w] \in {"read", "write"}, UNCHANGED <<row, old, wtodo>>,
           \A v \in Workers : v # w => wpc'[v] = wpc[v] /\ wcur'[v] = wcur[v],
           \/ wpc'[w] = "write" /\ wcur'[w] = wcur[w]
           \/ wpc'[w] = Onward(w) /\ wcur'[w] = {}
    PROVE  FlightInv'
  <1>1. ASSUME NEW r \in Rows, row'[r] = "IN_FLIGHT"
        PROVE  \E v \in Workers : r \in wtodo'[v] \/ r \in wcur'[v]
    <2>1. PICK v \in Workers : r \in wtodo[v] \/ r \in wcur[v]
      BY <1>1 DEF FlightInv
    <2>2. r \notin wcur[w]
      BY <1>1 DEF FlightInv
    <2> QED BY <2>1, <2>2
  <1>2. ASSUME NEW v \in Workers PROVE FlightInv!3!(v)'
    <2>1. FlightInv!3!(v)
      BY DEF FlightInv
    <2>2. CASE v # w
      BY <2>1, <2>2
    <2>3. CASE v = w /\ wpc'[w] = "write" /\ wcur'[w] = wcur[w]
      BY <2>1, <2>3
    <2>4. CASE v = w /\ wpc'[w] = Onward(w) /\ wcur'[w] = {}
      BY <2>4 DEF Onward
    <2> QED BY <2>2, <2>3, <2>4
  <1> QED BY <1>1, <1>2 DEF FlightInv

LEMMA ReconcileReadSettles ==
    ASSUME OutboxInv, CleanInv, NEW w \in Workers, ReconcileRead(w)
    PROVE  CleanInv'
  <1> USE DEF txVars, dbVars, dVars
  <1> DEFINE S == {r \in Rows : row[r] # "none"
                                  /\ \E q \in wcur[w] : r[1] = q[1]}
             terminal == \A r \in S : row[r] \in {"DELIVERED", "FAILED"}
  <1>1. /\ wpc[w] = "read"
        /\ wpc' = [wpc EXCEPT ![w] = IF terminal THEN "write" ELSE Onward(w)]
        /\ wcur' = [wcur EXCEPT ![w] = IF terminal THEN wcur[w] ELSE {}]
        /\ UNCHANGED <<tx, heldRows, heldEv, event, row, old, dtodo, dcur, dsubs,
                       wtodo, matched>>
    BY DEF ReconcileRead, OutboxInv, TypeOK
  <1>2. HeldInv' /\ StageInv' /\ BatchInv' /\ FanInv'
    <2>1. /\ \A e \in Events : event'[e] = event[e]
          /\ \A r \in Rows : row'[r] = "none" <=> row[r] = "none"
      BY <1>1
    <2> QED BY <1>1, <2>1, WorkFrame
  <1>3. ~terminal => \E q \in Rows : /\ row[q] \in {"PENDING", "IN_FLIGHT"}
                                     /\ \E r \in wcur[w] : q[1] = r[1]
    BY DEF OutboxInv, TypeOK, RowStatus
  <1> HIDE DEF terminal, S
  <1>4. /\ \A v \in Workers : v # w => wpc'[v] = wpc[v] /\ wcur'[v] = wcur[v]
        /\ wpc'[w] = IF terminal THEN "write" ELSE Onward(w)
        /\ wcur'[w] = IF terminal THEN wcur[w] ELSE {}
    BY <1>1 DEF OutboxInv, TypeOK
  <1>5. FlightInv'
    BY <1>1, <1>4, FlightOnward DEF CleanInv
  <1>6. EndInv'
    <2> SUFFICES ASSUME NEW e \in Events, event'[e] = "DISPATCHED"
                 PROVE  Unfinished(e)'
      BY DEF EndInv
    <2>1. Unfinished(e)
      BY <1>1 DEF CleanInv, EndInv
    <2>2. CASE terminal
      <3>1. \A v \in Workers : wcur'[v] = wcur[v]
        BY <1>4, <2>2
      <3> QED BY <1>1, <2>1, <3>1 DEF Unfinished, Has, Holds
    <2>3. CASE \E r \in wcur[w] : r[1] = e /\ ~terminal
      <3>1. PICK r \in wcur[w] : r[1] = e
        BY <2>3
      <3>2. \A q \in wcur[w] : q = r
        BY DEF CleanInv, FlightInv
      <3>3. \E q \in RowsOf(e) : row[q] \in {"PENDING", "IN_FLIGHT"}
        BY <1>3, <2>3, <3>1, <3>2 DEF RowsOf
      <3> QED BY <1>1, <3>3 DEF Unfinished
    <2>4. CASE ~\E r \in wcur[w] : r[1] = e
      <3>1. \A v \in Workers : \A r \in wcur[v] : r[1] = e => r \in wcur'[v]
        BY <1>4, <2>4
      <3> QED BY <1>1, <2>1, <3>1 DEF Unfinished, Has, Holds
    <2> QED BY <2>2, <2>3, <2>4
  <1> QED BY <1>2, <1>5, <1>6 DEF CleanInv

LEMMA ReconcileWriteSettles ==
    ASSUME OutboxInv, CleanInv, NEW w \in Workers, ReconcileWrite(w)
    PROVE  CleanInv'
  <1> USE DEF txVars, dVars
  <1>1. /\ wpc[w] = "write"
        /\ event' = [e \in Events |->
                       IF \E r \in wcur[w] : r[1] = e THEN wsays[w] ELSE event[e]]
        /\ wpc' = [wpc EXCEPT ![w] = Onward(w)]
        /\ wcur' = [wcur EXCEPT ![w] = {}]
        /\ UNCHANGED <<tx, heldRows, heldEv, row, old, dtodo, dcur, dsubs, wtodo,
                       matched>>
    BY DEF ReconcileWrite
  <1>2. wsays[w] \in {"ALL_DELIVERED", "FAILED"}
    BY <1>1 DEF OutboxInv, SaysInv
  <1>3. \A r \in wcur[w] : r \in Rows /\ row[r] # "none"
    BY WorkerTypes DEF OutboxInv, RowInv
  <1>4. \A e \in Events : event'[e] # event[e] =>
           event'[e] \notin {"none", "PENDING"} /\ tx[e] = "committed"
    <2>1. ASSUME NEW e \in Events, NEW r \in wcur[w], r[1] = e
          PROVE  tx[e] = "committed"
      BY <1>3, <2>1 DEF CleanInv, StageInv, RowsOf
    <2>2. \A e \in Events : event'[e] # event[e] => \E r \in wcur[w] : r[1] = e
      BY <1>1
    <2>3. \A e \in Events : event'[e] = wsays[w] \/ event'[e] = event[e]
      BY <1>1
    <2> QED BY <1>2, <2>1, <2>2, <2>3
  <1>5. HeldInv' /\ StageInv' /\ BatchInv' /\ FanInv'
    BY <1>1, <1>4, WorkFrame
  <1>6. /\ \A v \in Workers : v # w => wpc'[v] = wpc[v] /\ wcur'[v] = wcur[v]
        /\ wpc'[w] = Onward(w) /\ wcur'[w] = {}
    BY <1>1 DEF OutboxInv, TypeOK
  <1>7. FlightInv'
    BY <1>1, <1>6, FlightOnward DEF CleanInv
  <1>8. EndInv'
    <2> SUFFICES ASSUME NEW e \in Events, event'[e] = "DISPATCHED"
                 PROVE  Unfinished(e)'
      BY DEF EndInv
    <2>1. event[e] = "DISPATCHED" /\ ~\E r \in wcur[w] : r[1] = e
      BY <1>1, <1>2
    <2>2. Unfinished(e)
      BY <2>1 DEF CleanInv, EndInv
    <2>3. \A v \in Workers : \A r \in wcur[v] : r[1] = e => r \in wcur'[v]
      BY <1>6, <2>1
    <2> QED BY <1>1, <2>2, <2>3 DEF Unfinished, Has, Holds
  <1> QED BY <1>5, <1>7, <1>8 DEF CleanInv

-----------------------------------------------------------------------------
(* The steps of a request.                                                  *)

LEMMA PublishPlainSettles ==
    ASSUME OutboxInv, CleanInv, NEW e \in Events, PublishPlain(e)
    PROVE  CleanInv'
  <1> USE DEF dbVars, dVars, wVars
  <1>1. /\ e \notin KeyEvents /\ tx[e] = "idle"
        /\ tx' = [tx EXCEPT ![e] = "open"]
        /\ heldEv' = [heldEv EXCEPT ![e][e] = "PENDING"]
        /\ UNCHANGED <<heldRows, event, row, old, dtodo, dcur, dsubs, wtodo, wcur,
                       wpc, matched>>
    BY DEF PublishPlain
  <1>2. \A f \in Events : tx'[f] = IF f = e THEN "open" ELSE tx[f]
    BY <1>1 DEF OutboxInv, TypeOK
  <1>3. \A t, f \in Events :
          heldEv'[t][f] = IF t = e /\ f = e THEN "PENDING" ELSE heldEv[t][f]
    BY <1>1 DEF OutboxInv, TypeOK
  <1>4. \A d \in Dispatchers, f \in Events : Has(d, f)' <=> Has(d, f)
    BY <1>1 DEF Has
  <1>5. /\ \A t, f \in Events : Holds(t, f) => Holds(t, f)'
        /\ \A t, f \in Events : Holds(t, f)' => Holds(t, f) \/ (t = e /\ f = e)
    <2> SUFFICES ASSUME NEW t \in Events, NEW f \in Events
                 PROVE  /\ Holds(t, f) => Holds(t, f)'
                        /\ Holds(t, f)' => Holds(t, f) \/ (t = e /\ f = e)
      OBVIOUS
    <2>1. CASE t = e /\ f = e
      <3>1. heldEv'[t][f] # "none"
        BY <1>3, <2>1
      <3> QED BY <2>1, <3>1 DEF Holds
    <2>2. CASE ~(t = e /\ f = e)
      <3>1. heldEv'[t][f] = heldEv[t][f] /\ heldRows'[t] = heldRows[t]
        BY <1>1, <1>3, <2>2
      <3>2. Holds(t, f) => Holds(t, f)'
        BY <3>1 DEF Holds
      <3>3. Holds(t, f)' => Holds(t, f)
        BY <3>1 DEF Holds
      <3> QED BY <3>2, <3>3
    <2> QED BY <2>1, <2>2
  <1>6. \A r \in Rows : Made(r)' <=> Made(r)
    BY <1>1 DEF Made
  <1>7. HeldInv'
    <2> SUFFICES ASSUME NEW t \in Events, NEW f \in Events, Holds(t, f)'
                 PROVE  tx'[t] = "open" /\ (t = f \/ tx'[f] = "committed")
      BY DEF HeldInv
    <2>1. CASE Holds(t, f)
      BY <1>1, <1>2, <2>1 DEF CleanInv, HeldInv
    <2>2. CASE t = e /\ f = e
      BY <1>2, <2>2
    <2> QED BY <1>5, <2>1, <2>2
  <1>8. StageInv'
    <2> SUFFICES ASSUME NEW f \in Events PROVE StageInv!(f)'
      BY DEF StageInv
    <2>1. StageInv!(f)
      BY DEF CleanInv, StageInv
    <2>2. /\ tx'[f] # "committed" => tx[f] # "committed"
          /\ tx'[f] \in {"idle", "open"} => tx'[f] = tx[f] \/ tx[f] = "idle"
      BY <1>1, <1>2
    <2>3. \A t \in Events : heldEv'[t][f] = "PENDING" => t = f
      BY <1>3, <2>1
    <2>4. \A t \in Events : heldEv'[t][f] = "DISPATCHED" =>
            \E r \in heldRows'[t] : r[1] = f
      BY <1>1, <1>3, <2>1
    <2> QED BY <1>1, <1>4, <2>1, <2>2, <2>3, <2>4
  <1>9. BatchInv'
    BY <1>1, <1>4 DEF CleanInv, BatchInv
  <1>10. FanInv'
    BY <1>1, <1>6, RowParts DEF CleanInv, FanInv, OutboxInv, TypeOK
  <1>11. FlightInv'
    <2>1. Request(e) /\ old' = old
      BY <1>1 DEF Request
    <2> QED BY <2>1, FlightFrame DEF CleanInv
  <1>12. EndInv'
    <2> SUFFICES ASSUME NEW f \in Events, event'[f] = "DISPATCHED"
                 PROVE  Unfinished(f)'
      BY DEF EndInv
    <2>1. Unfinished(f)
      BY <1>1 DEF CleanInv, EndInv
    <2>2. \A t \in Events : Holds(t, f) => Holds(t, f)'
      BY <1>5
    <2>3. \A d \in Dispatchers : Has(d, f) => Has(d, f)'
      BY <1>4
    <2> QED BY <1>1, <2>1, <2>2, <2>3 DEF Unfinished
  <1> QED BY <1>7, <1>8, <1>9, <1>10, <1>11, <1>12 DEF CleanInv

LEMMA PublishKeySettles ==
    ASSUME OutboxInv, CleanInv, NEW e \in Events, PublishKey(e)
    PROVE  CleanInv'
  <1> USE DEF dbVars, dVars, wVars
  <1>1. /\ e \in KeyEvents /\ tx[e] = "idle"
        /\ tx' = [tx EXCEPT ![e] = "open"]
        /\ UNCHANGED <<event, row, old, dtodo, dcur, dsubs, wtodo, wcur, wpc>>
    BY DEF PublishKey
  <1>2. PICK S \in SUBSET Subscribers :
           /\ heldRows' = [heldRows EXCEPT ![e] = {<<e, s, 1>> : s \in S}]
           /\ heldEv' = [heldEv EXCEPT ![e][e] =
                           IF S = {} THEN "ALL_DELIVERED" ELSE "DISPATCHED"]
           /\ matched' = [matched EXCEPT ![e] = S]
    BY DEF PublishKey
  <1>3. \A f \in Events : /\ tx'[f] = IF f = e THEN "open" ELSE tx[f]
                          /\ matched'[f] = IF f = e THEN S ELSE matched[f]
    BY <1>1, <1>2 DEF OutboxInv, TypeOK
  <1>4. /\ \A t, f \in Events : ~(t = e /\ f = e) => heldEv'[t][f] = heldEv[t][f]
        /\ heldEv'[e][e] = IF S = {} THEN "ALL_DELIVERED" ELSE "DISPATCHED"
    BY <1>2 DEF OutboxInv, TypeOK
  <1>5. /\ heldRows[e] = {} /\ \A f \in Events : heldEv[e][f] = "none"
        /\ \A t \in Events : t # e => heldRows'[t] = heldRows[t]
        /\ heldRows'[e] = {<<e, s, 1>> : s \in S}
    BY <1>1, <1>2, NothingHeld DEF CleanInv, OutboxInv, TypeOK
  <1>6. \A d \in Dispatchers, f \in Events : Has(d, f)' <=> Has(d, f)
    BY <1>1 DEF Has
  <1>7. event[e] = "none" /\ \A d \in Dispatchers : ~Has(d, e)
    BY <1>1 DEF CleanInv, StageInv
  <1>8. \A r \in Rows : r[1] = e => ~Made(r)
    BY <1>1 DEF OutboxInv, KeyInv, RowsOf, Made
  <1>9. \A r \in Rows : Made(r)' <=> Made(r) \/ r \in heldRows'[e]
    <2>1. \A r \in Rows : (\E t \in Events : r \in heldRows'[t])
            <=> (\E t \in Events : r \in heldRows[t]) \/ r \in heldRows'[e]
      BY <1>5
    <2> QED BY <1>1, <2>1 DEF Made
  <1>10. /\ \A t, f \in Events : Holds(t, f) => Holds(t, f)'
         /\ \A t, f \in Events : Holds(t, f)' => Holds(t, f) \/ (t = e /\ f = e)
    <2> SUFFICES ASSUME NEW t \in Events, NEW f \in Events
                 PROVE  /\ Holds(t, f) => Holds(t, f)'
                        /\ Holds(t, f)' => Holds(t, f) \/ (t = e /\ f = e)
      OBVIOUS
    <2>1. CASE t = e
      <3>1. ~Holds(t, f)
        BY <1>5, <2>1 DEF Holds
      <3>2. \A r \in heldRows'[e] : r[1] = e
        BY <1>5
      <3>3. f # e => heldEv'[e][f] = "none"
        BY <1>4, <1>5
      <3> QED BY <2>1, <3>1, <3>2, <3>3 DEF Holds
    <2>2. CASE t # e
      <3>1. heldEv'[t][f] = heldEv[t][f] /\ heldRows'[t] = heldRows[t]
        BY <1>4, <1>5, <2>2
      <3>2. Holds(t, f) => Holds(t, f)'
        BY <3>1 DEF Holds
      <3>3. Holds(t, f)' => Holds(t, f)
        BY <3>1 DEF Holds
      <3> QED BY <3>2, <3>3
    <2> QED BY <2>1, <2>2
  <1>11. HeldInv'
    <2> SUFFICES ASSUME NEW t \in Events, NEW f \in Events, Holds(t, f)'
                 PROVE  tx'[t] = "open" /\ (t = f \/ tx'[f] = "committed")
      BY DEF HeldInv
    <2>1. CASE Holds(t, f)
      BY <1>1, <1>3, <2>1 DEF CleanInv, HeldInv
    <2>2. CASE t = e /\ f = e
      BY <1>3, <2>2
    <2> QED BY <1>10, <2>1, <2>2
  <1>12. StageInv'
    <2> SUFFICES ASSUME NEW f \in Events PROVE StageInv!(f)'
      BY DEF StageInv
    <2>1. StageInv!(f)
      BY DEF CleanInv, StageInv
    <2>2. \A t \in Events : heldEv'[t][f] = "PENDING" => t = f
      BY <1>4, <2>1
    <2>3. \A t \in Events : heldEv'[t][f] = "DISPATCHED" =>
            \E r \in heldRows'[t] : r[1] = f
      <3> SUFFICES ASSUME NEW t \in Events, heldEv'[t][f] = "DISPATCHED"
                   PROVE  \E r \in heldRows'[t] : r[1] = f
        OBVIOUS
      <3>1. CASE t # e
        BY <1>4, <1>5, <2>1, <3>1
      <3>2. CASE t = e
        <4>1. f = e /\ S # {}
          BY <1>4, <1>5, <3>2
        <4>2. PICK s \in S : TRUE
          BY <4>1
        <4>3. <<e, s, 1>> \in heldRows'[e]
          BY <1>5, <4>2
        <4> QED BY <3>2, <4>1, <4>3
      <3> QED BY <3>1, <3>2
    <2>4. CASE f # e
      BY <1>1, <1>3, <1>6, <2>1, <2>2, <2>3, <2>4
    <2>5. CASE f = e
      <3>1. tx'[e] = "open" /\ e \in KeyEvents /\ event'[e] = "none"
            /\ \A d \in Dispatchers : ~Has(d, e)' /\ e \notin dtodo'[d]
        BY <1>1, <1>3, <1>6, <1>7 DEF Has
      <3> QED BY <1>1, <2>1, <2>2, <2>3, <2>5, <3>1
    <2> QED BY <2>4, <2>5
  <1>13. BatchInv'
    BY <1>1, <1>6 DEF CleanInv, BatchInv
  <1>14. FanInv'
    <2>1. ASSUME NEW r \in Rows, Made(r)'
          PROVE  r[3] = 1 /\ r[2] \in matched'[r[1]]
      <3>1. CASE Made(r)
        <4>1. r[1] # e /\ r[1] \in Events
          BY <1>8, <3>1, RowParts
        <4> QED BY <1>3, <3>1, <4>1 DEF CleanInv, FanInv
      <3>2. CASE r \in heldRows'[e]
        BY <1>3, <1>5, <3>2
      <3> QED BY <1>9, <2>1, <3>1, <3>2
    <2>2. ASSUME NEW f \in Events, NEW s \in matched'[f]
          PROVE  \/ Made(<<f, s, 1>>)'
                 \/ \E d \in Dispatchers : f \in dcur'[d] /\ s \in dsubs'[d]
      <3>1. s \in Subscribers /\ <<f, s, 1>> \in Rows
        BY <1>3, RowParts DEF OutboxInv, TypeOK
      <3>2. CASE f = e
        BY <1>3, <1>5, <1>9, <3>1, <3>2
      <3>3. CASE f # e
        BY <1>1, <1>3, <1>9, <3>1, <3>3 DEF CleanInv, FanInv
      <3> QED BY <3>2, <3>3
    <2>3. ASSUME NEW d \in Dispatchers, NEW f \in dcur'[d], NEW s \in dsubs'[d]
          PROVE  /\ s \in matched'[f]
                 /\ \A r \in Rows : r[1] = f /\ r[2] = s => ~Made(r)'
      <3>1. f \in Events /\ f # e
        BY <1>1, <1>7, BatchTypes DEF Has
      <3>2. \A r \in heldRows'[e] : r[1] = e
        BY <1>5
      <3>3. s \in matched[f] /\ \A r \in Rows : r[1] = f /\ r[2] = s => ~Made(r)
        BY <1>1 DEF CleanInv, FanInv
      <3> QED BY <1>3, <1>9, <3>1, <3>2, <3>3
    <2> QED BY <2>1, <2>2, <2>3 DEF FanInv
  <1>15. FlightInv'
    <2>1. Request(e) /\ old' = old
      BY <1>1 DEF Request
    <2> QED BY <2>1, FlightFrame DEF CleanInv
  <1>16. EndInv'
    <2> SUFFICES ASSUME NEW f \in Events, event'[f] = "DISPATCHED"
                 PROVE  Unfinished(f)'
      BY DEF EndInv
    <2>1. Unfinished(f)
      BY <1>1 DEF CleanInv, EndInv
    <2>2. \A t \in Events : Holds(t, f) => Holds(t, f)'
      BY <1>10
    <2>3. \A d \in Dispatchers : Has(d, f) => Has(d, f)'
      BY <1>6
    <2> QED BY <1>1, <2>1, <2>2, <2>3 DEF Unfinished
  <1> QED BY <1>11, <1>12, <1>13, <1>14, <1>15, <1>16 DEF CleanInv

LEMMA CommitSettles ==
    ASSUME OutboxInv, CleanInv, NEW e \in Events, Commit(e)
    PROVE  CleanInv'
  <1> USE DEF dVars, wVars
  <1>1. /\ tx[e] = "open"
        /\ UNCHANGED <<old, dtodo, dcur, dsubs, wtodo, wcur, wpc, matched>>
    BY DEF Commit
  <1>2. /\ \A f \in Events : tx'[f] = IF f = e THEN "committed" ELSE tx[f]
        /\ \A r \in Rows : row'[r] = IF r \in heldRows[e] THEN "PENDING" ELSE row[r]
        /\ \A f \in Events : event'[f] = IF heldEv[e][f] = "none" THEN event[f]
                                                                  ELSE heldEv[e][f]
    BY DEF Commit, OutboxInv, TypeOK
  <1>3. /\ \A t \in Events : heldRows'[t] = IF t = e THEN {} ELSE heldRows[t]
        /\ \A t, f \in Events : heldEv'[t][f] = IF t = e THEN "none" ELSE heldEv[t][f]
    BY DEF Commit, Keep, OutboxInv, TypeOK
  <1>4. \A d \in Dispatchers, f \in Events : Has(d, f)' <=> Has(d, f)
    BY <1>1 DEF Has
  <1>5. \A t, f \in Events : Holds(t, f)' <=> t # e /\ Holds(t, f)
    BY <1>3 DEF Holds
  <1>6. \A r \in Rows : Made(r)' <=> Made(r)
    BY <1>2, <1>3 DEF Made
  <1>7. HeldInv'
    <2> SUFFICES ASSUME NEW t \in Events, NEW f \in Events, Holds(t, f)'
                 PROVE  tx'[t] = "open" /\ (t = f \/ tx'[f] = "committed")
      BY DEF HeldInv
    <2>1. t # e /\ tx[t] = "open" /\ (t = f \/ tx[f] = "committed")
      BY <1>5 DEF CleanInv, HeldInv
    <2> QED BY <1>2, <2>1
  <1>8. StageInv'
    <2> SUFFICES ASSUME NEW f \in Events PROVE StageInv!(f)'
      BY DEF StageInv
    <2>1. StageInv!(f)
      BY DEF CleanInv, StageInv
    <2>2. ASSUME tx'[f] # "committed"
          PROVE  /\ tx'[f] = tx[f] /\ event'[f] = event[f]
                 /\ \A r \in RowsOf(f) : row'[r] = row[r]
      <3>1. f # e /\ tx'[f] = tx[f]
        BY <1>2, <2>2
      <3>2. ~Holds(e, f)
        BY <2>2, <3>1 DEF CleanInv, HeldInv
      <3>3. /\ heldEv[e][f] = "none"
            /\ \A r \in RowsOf(f) : r \in Rows /\ r \notin heldRows[e]
        BY <3>2 DEF Holds, RowsOf
      <3> QED BY <1>2, <3>1, <3>3
    <2>3. ASSUME event'[f] = "PENDING"
          PROVE  matched[f] = {} /\ \A d \in Dispatchers : ~Has(d, f)
      <3>1. CASE event[f] = "PENDING"
        BY <2>1, <3>1
      <3>2. CASE heldEv[e][f] = "PENDING"
        <4>1. f = e
          BY <2>1, <3>2
        <4>2. e \notin KeyEvents
          BY <3>2, <4>1 DEF OutboxInv, KeyInv
        <4> QED BY <1>1, <2>1, <4>1, <4>2
      <3> QED BY <1>2, <2>3, <3>1, <3>2
    <2>4. /\ \A t \in Events : heldEv'[t][f] = "PENDING" => t = f
          /\ \A t \in Events : heldEv'[t][f] = "DISPATCHED" =>
               \E r \in heldRows'[t] : r[1] = f
      BY <1>3, <2>1
    <2> QED BY <1>1, <1>4, <2>1, <2>2, <2>3, <2>4
  <1>9. BatchInv'
    BY <1>1, <1>4 DEF CleanInv, BatchInv
  <1>10. FanInv'
    BY <1>1, <1>6, RowParts DEF CleanInv, FanInv, OutboxInv, TypeOK
  <1>11. FlightInv'
    <2>1. Request(e) /\ old' = old
      BY <1>1 DEF Request
    <2> QED BY <2>1, FlightFrame DEF CleanInv
  <1>12. EndInv'
    <2> SUFFICES ASSUME NEW f \in Events, event'[f] = "DISPATCHED"
                 PROVE  Unfinished(f)'
      BY DEF EndInv
    <2>1. ASSUME NEW r \in heldRows[e], r[1] = f
          PROVE  Unfinished(f)'
      <3>1. r \in RowsOf(f) /\ row'[r] = "PENDING"
        BY <1>2, <2>1, BatchTypes DEF RowsOf
      <3> QED BY <3>1 DEF Unfinished
    <2>2. CASE heldEv[e][f] = "DISPATCHED"
      BY <2>1, <2>2 DEF CleanInv, StageInv
    <2>3. CASE heldEv[e][f] = "none" /\ ~\E r \in heldRows[e] : r[1] = f
      <3>1. ~Holds(e, f)
        BY <2>3 DEF Holds
      <3>2. Unfinished(f)
        BY <1>2, <2>3 DEF CleanInv, EndInv
      <3>3. \A r \in RowsOf(f) : row'[r] = row[r]
        BY <1>2, <2>3 DEF RowsOf
      <3> QED BY <1>1, <1>4, <1>5, <3>1, <3>2, <3>3 DEF Unfinished
    <2> QED BY <1>2, <2>1, <2>2, <2>3
  <1> QED BY <1>7, <1>8, <1>9, <1>10, <1>11, <1>12 DEF CleanInv

-----------------------------------------------------------------------------
(* The steps of a dispatcher.                                               *)

LEMMA DispatchClaimSettles ==
    ASSUME OutboxInv, CleanInv, NEW d \in Dispatchers,
           NEW h \in {NoTx} \cup wakes, DispatchClaim(d, h)
    PROVE  CleanInv'
  <1> USE DEF wVars
  <1>1. PICK B \in Batches({e \in Events : event[e] = "PENDING"}) :
           /\ event' = [e \in Events |-> IF e \in B THEN Claimed ELSE event[e]]
           /\ dtodo' = [dtodo EXCEPT ![d] = B]
    BY DEF DispatchClaim
  <1>2. \A e \in B : e \in Events /\ event[e] = "PENDING"
    BY BatchesAreParts
  <1>3. /\ dtodo[d] = {} /\ dcur[d] = {}
        /\ UNCHANGED <<tx, heldRows, heldEv, row, old, dcur, dsubs, wtodo, wcur,
                       wpc, matched>>
    BY DEF DispatchClaim, DispatcherIdle
  <1>4. /\ \A e \in Events : event'[e] = IF e \in B THEN "DISPATCHED" ELSE event[e]
        /\ \A c \in Dispatchers : dtodo'[c] = IF c = d THEN B ELSE dtodo[c]
    BY <1>1 DEF Claimed, OutboxInv, TypeOK
  <1>5. /\ \A c \in Dispatchers, e \in Events : Has(c, e) => Has(c, e)'
        /\ \A c \in Dispatchers, e \in Events :
             Has(c, e)' => Has(c, e) \/ (c = d /\ e \in B)
    BY <1>3, <1>4 DEF Has
  <1>6. \A c \in Dispatchers : \A e \in B : ~Has(c, e)
    BY <1>2 DEF CleanInv, StageInv
  <1>7. \A t, e \in Events : Holds(t, e)' <=> Holds(t, e)
    BY <1>3 DEF Holds
  <1>8. \A r \in Rows : Made(r)' <=> Made(r)
    BY <1>3 DEF Made
  <1>9. HeldInv'
    BY <1>3, <1>7 DEF CleanInv, HeldInv
  <1>10. StageInv'
    <2> SUFFICES ASSUME NEW e \in Events PROVE StageInv!(e)'
      BY DEF StageInv
    <2>1. StageInv!(e)
      BY DEF CleanInv, StageInv
    <2>2. CASE e \in B
      <3>1. tx'[e] = "committed" /\ event'[e] # "PENDING" /\ matched'[e] = {}
        BY <1>2, <1>3, <1>4, <2>1, <2>2
      <3> QED BY <1>3, <2>1, <3>1
    <2>3. CASE e \notin B
      <3>1. /\ event'[e] = event[e]
            /\ \A c \in Dispatchers : Has(c, e)' => Has(c, e)
            /\ \A c \in Dispatchers : e \in dtodo'[c] => e \in dtodo[c]
        BY <1>4, <1>5, <2>3
      <3> QED BY <1>3, <2>1, <3>1
    <2> QED BY <2>2, <2>3
  <1>11. BatchInv'
    <2>1. ASSUME NEW c \in Dispatchers, NEW b \in Dispatchers, NEW e \in Events,
                 Has(c, e)', Has(b, e)'
          PROVE  c = b
      <3>1. CASE e \in B
        <4>1. c = d /\ b = d
          BY <1>5, <1>6, <2>1, <3>1
        <4> QED BY <4>1
      <3>2. CASE e \notin B
        <4>1. Has(c, e) /\ Has(b, e)
          BY <1>5, <2>1, <3>2
        <4> QED BY <4>1 DEF CleanInv, BatchInv
      <3> QED BY <3>1, <3>2
    <2>2. ASSUME NEW c \in Dispatchers
          PROVE  /\ \A e \in dcur'[c] : e \notin dtodo'[c]
                 /\ \A e, f \in dcur'[c] : e = f
                 /\ dcur'[c] # {} => dsubs'[c] # {}
      BY <1>3, <1>4 DEF CleanInv, BatchInv
    <2> QED BY <2>1, <2>2 DEF BatchInv
  <1>12. FanInv'
    BY <1>3, <1>8, RowParts DEF CleanInv, FanInv, OutboxInv, TypeOK
  <1>13. FlightInv'
    <2>1. Dispatch(d) /\ old' = old
      BY <1>3 DEF Dispatch
    <2> QED BY <2>1, FlightFrame DEF CleanInv
  <1>14. EndInv'
    <2> SUFFICES ASSUME NEW e \in Events, event'[e] = "DISPATCHED"
                 PROVE  Unfinished(e)'
      BY DEF EndInv
    <2>1. CASE e \in B
      <3>1. Has(d, e)'
        BY <1>4, <2>1 DEF Has
      <3> QED BY <3>1 DEF Unfinished
    <2>2. CASE e \notin B
      <3>1. Unfinished(e)
        BY <1>4, <2>2 DEF CleanInv, EndInv
      <3> QED BY <1>3, <1>5, <1>7, <3>1 DEF Unfinished
    <2> QED BY <2>1, <2>2
  <1> QED BY <1>9, <1>10, <1>11, <1>12, <1>13, <1>14 DEF CleanInv

(* A dispatcher ends an event without subscribers in the table or in one   *)
(* open transaction.                                                       *)
LEMMA SetEventWhere ==
    ASSUME OutboxInv, NEW d \in Dispatchers, NEW e \in Events,
           NEW st \in EventStatus, SetEvent(d, e, st)
    PROVE  \/ /\ event'[e] = st /\ heldEv' = heldEv
              /\ \A f \in Events : f # e => event'[f] = event[f]
           \/ \E t \in Events :
                /\ tx[t] = "open" /\ event' = event
                /\ \A u, f \in Events :
                     heldEv'[u][f] = IF u = t /\ f = e THEN st ELSE heldEv[u][f]
  <1>1. PICK t \in Joins(d) :
           IF t = NoTx THEN /\ event' = [event EXCEPT ![e] = st]
                            /\ UNCHANGED heldEv
                       ELSE /\ heldEv' = [heldEv EXCEPT ![t][e] = st]
                            /\ UNCHANGED event
    BY DEF SetEvent
  <1>2. CASE t = NoTx
    BY <1>1, <1>2 DEF OutboxInv, TypeOK
  <1>3. CASE t # NoTx
    <2>1. t \in Events /\ tx[t] = "open"
      BY <1>3, JoinsOpen DEF OutboxInv
    <2>2. event' = event /\ heldEv' = [heldEv EXCEPT ![t][e] = st]
      BY <1>1, <1>3
    <2>3. \A u, f \in Events :
             heldEv'[u][f] = IF u = t /\ f = e THEN st ELSE heldEv[u][f]
      BY <2>1, <2>2 DEF OutboxInv, TypeOK
    <2> QED BY <2>1, <2>2, <2>3
  <1> QED BY <1>2, <1>3

LEMMA MatchSettles ==
    ASSUME OutboxInv, CleanInv, NEW d \in Dispatchers, NEW e \in Events, Match(d, e)
    PROVE  CleanInv'
  <1> USE DEF wVars
  <1>1. PICK S \in SUBSET Subscribers :
           /\ matched' = [matched EXCEPT ![e] = S]
           /\ dsubs' = [dsubs EXCEPT ![d] = S]
           /\ \/ S = {} /\ SetEvent(d, e, "ALL_DELIVERED") /\ dcur' = dcur
              \/ /\ S # {} /\ dcur' = [dcur EXCEPT ![d] = {e}]
                 /\ UNCHANGED <<event, heldEv>>
    BY DEF Match
  <1>2. /\ e \in dtodo[d] /\ dcur[d] = {}
        /\ dtodo' = [dtodo EXCEPT ![d] = @ \ {e}]
        /\ UNCHANGED <<tx, heldRows, row, old, wtodo, wcur, wpc>>
    BY DEF Match
  <1>3. /\ \A f \in Events : matched'[f] = IF f = e THEN S ELSE matched[f]
        /\ \A c \in Dispatchers :
             /\ dsubs'[c] = IF c = d THEN S ELSE dsubs[c]
             /\ dtodo'[c] = IF c = d THEN dtodo[d] \ {e} ELSE dtodo[c]
    BY <1>1, <1>2 DEF OutboxInv, TypeOK
  <1>4. /\ \A c \in Dispatchers : c # d => dcur'[c] = dcur[c]
        /\ dcur'[d] = IF S = {} THEN {} ELSE {e}
    BY <1>1, <1>2 DEF OutboxInv, TypeOK
  <1>5. "ALL_DELIVERED" \in EventStatus
    BY DEF EventStatus
  <1>6. \/ /\ event'[e] = "ALL_DELIVERED" /\ heldEv' = heldEv
           /\ \A f \in Events : f # e => event'[f] = event[f]
        \/ \E t \in Events :
             /\ tx[t] = "open" /\ event' = event
             /\ \A u, f \in Events :
                  heldEv'[u][f] = IF u = t /\ f = e THEN "ALL_DELIVERED"
                                                    ELSE heldEv[u][f]
        \/ S # {} /\ event' = event /\ heldEv' = heldEv
    BY <1>1, <1>5, SetEventWhere
  <1>7. Has(d, e) /\ tx[e] = "committed" /\ event[e] # "PENDING" /\ matched[e] = {}
    BY <1>2 DEF Has, CleanInv, StageInv
  <1>8. \A c \in Dispatchers : c # d =>
          ~Has(c, e) /\ e \notin dtodo[c] /\ e \notin dcur[c]
    BY <1>7 DEF CleanInv, BatchInv, Has
  <1>9. /\ \A c \in Dispatchers, f \in Events : Has(c, f)' => Has(c, f)
        /\ \A c \in Dispatchers, f \in Events : f # e /\ Has(c, f) => Has(c, f)'
    BY <1>2, <1>3, <1>4 DEF Has
  <1>10. /\ \A t, f \in Events : Holds(t, f)' => Holds(t, f) \/ (f = e /\ tx[t] = "open")
         /\ \A t, f \in Events : Holds(t, f) => Holds(t, f)'
    BY <1>2, <1>6 DEF Holds
  <1>11. \A r \in Rows : Made(r)' <=> Made(r)
    BY <1>2 DEF Made
  <1>12. \A r \in Rows : r[1] = e => ~Made(r)
    BY <1>7, NoRowsYet DEF CleanInv
  <1>13. HeldInv'
    BY <1>2, <1>7, <1>10 DEF CleanInv, HeldInv
  <1>14. StageInv'
    <2> SUFFICES ASSUME NEW f \in Events PROVE StageInv!(f)'
      BY DEF StageInv
    <2>1. StageInv!(f)
      BY DEF CleanInv, StageInv
    <2>2. /\ event'[f] = "PENDING" => event[f] = "PENDING"
          /\ f # e => event'[f] = event[f]
      BY <1>6
    <2>3. \A t \in Events :
            /\ heldEv'[t][f] = "PENDING" => heldEv[t][f] = "PENDING"
            /\ heldEv'[t][f] = "DISPATCHED" => heldEv[t][f] = "DISPATCHED"
      BY <1>6
    <2>4. \A c \in Dispatchers : f \in dtodo'[c] => f \in dtodo[c] /\ f # e
      BY <1>3, <1>8
    <2>5. CASE f = e
      <3>1. tx'[e] = "committed" /\ event'[e] # "PENDING"
        BY <1>2, <1>7, <2>2, <2>5
      <3> QED BY <1>2, <2>1, <2>3, <2>4, <2>5, <3>1
    <2>6. CASE f # e
      <3>1. matched'[f] = matched[f]
        BY <1>3, <2>6
      <3> QED BY <1>2, <1>9, <2>1, <2>2, <2>3, <2>4, <2>6, <3>1
    <2> QED BY <2>5, <2>6
  <1>15. BatchInv'
    <2>1. \A c, b \in Dispatchers, f \in Events : Has(c, f)' /\ Has(b, f)' => c = b
      BY <1>9 DEF CleanInv, BatchInv
    <2>2. ASSUME NEW c \in Dispatchers
          PROVE  /\ \A f \in dcur'[c] : f \notin dtodo'[c]
                 /\ \A f, g \in dcur'[c] : f = g
                 /\ dcur'[c] # {} => dsubs'[c] # {}
      <3>1. CASE c = d
        BY <1>3, <1>4, <3>1
      <3>2. CASE c # d
        BY <1>3, <1>4, <3>2 DEF CleanInv, BatchInv
      <3> QED BY <3>1, <3>2
    <2> QED BY <2>1, <2>2 DEF BatchInv
  <1>16. FanInv'
    <2>1. ASSUME NEW r \in Rows, Made(r)'
          PROVE  r[3] = 1 /\ r[2] \in matched'[r[1]]
      <3>1. Made(r) /\ r[1] # e /\ r[1] \in Events
        BY <1>11, <1>12, <2>1, RowParts
      <3> QED BY <1>3, <3>1 DEF CleanInv, FanInv
    <2>2. ASSUME NEW f \in Events, NEW s \in matched'[f]
          PROVE  \/ Made(<<f, s, 1>>)'
                 \/ \E c \in Dispatchers : f \in dcur'[c] /\ s \in dsubs'[c]
      <3>1. CASE f = e
        BY <1>3, <1>4, <3>1
      <3>2. CASE f # e
        <4>1. s \in matched[f] /\ <<f, s, 1>> \in Rows
          BY <1>3, <3>2, RowParts DEF OutboxInv, TypeOK
        <4>2. CASE Made(<<f, s, 1>>)
          BY <1>11, <4>1, <4>2
        <4>3. CASE \E c \in Dispatchers : f \in dcur[c] /\ s \in dsubs[c]
          <5>1. PICK c \in Dispatchers : f \in dcur[c] /\ s \in dsubs[c]
            BY <4>3
          <5>2. f \in dcur'[c] /\ s \in dsubs'[c]
            BY <1>2, <1>3, <1>4, <5>1
          <5> QED BY <5>2
        <4> QED BY <4>1, <4>2, <4>3 DEF CleanInv, FanInv
      <3> QED BY <3>1, <3>2
    <2>3. ASSUME NEW c \in Dispatchers, NEW f \in dcur'[c], NEW s \in dsubs'[c]
          PROVE  /\ s \in matched'[f]
                 /\ \A r \in Rows : r[1] = f /\ r[2] = s => ~Made(r)'
      <3>1. CASE c = d
        <4>1. f = e /\ s \in S
          BY <1>3, <1>4, <3>1
        <4> QED BY <1>3, <1>11, <1>12, <4>1
      <3>2. CASE c # d
        <4>1. f \in dcur[c] /\ s \in dsubs[c] /\ f \in Events /\ f # e
          BY <1>3, <1>4, <1>8, <3>2, BatchTypes
        <4>2. s \in matched[f] /\ \A r \in Rows : r[1] = f /\ r[2] = s => ~Made(r)
          BY <4>1 DEF CleanInv, FanInv
        <4> QED BY <1>3, <1>11, <4>1, <4>2
      <3> QED BY <3>1, <3>2
    <2> QED BY <2>1, <2>2, <2>3 DEF FanInv
  <1>17. FlightInv'
    <2>1. Dispatch(d) /\ old' = old
      BY <1>2 DEF Dispatch
    <2> QED BY <2>1, FlightFrame DEF CleanInv
  <1>18. EndInv'
    <2> SUFFICES ASSUME NEW f \in Events, event'[f] = "DISPATCHED"
                 PROVE  Unfinished(f)'
      BY DEF EndInv
    <2>1. CASE f = e /\ S # {}
      <3>1. Has(d, e)'
        BY <1>4, <2>1 DEF Has
      <3> QED BY <2>1, <3>1 DEF Unfinished
    <2>2. CASE f = e /\ S = {}
      <3>1. PICK t \in Events : heldEv'[t][e] = "ALL_DELIVERED"
        BY <1>6, <2>2
      <3>2. Holds(t, e)'
        BY <3>1 DEF Holds
      <3> QED BY <2>2, <3>2 DEF Unfinished
    <2>3. CASE f # e
      <3>1. event[f] = "DISPATCHED"
        BY <1>6, <2>3
      <3>2. Unfinished(f)
        BY <3>1 DEF CleanInv, EndInv
      <3> QED BY <1>2, <1>9, <1>10, <2>3, <3>2 DEF Unfinished
    <2> QED BY <2>1, <2>2, <2>3
  <1> QED BY <1>13, <1>14, <1>15, <1>16, <1>17, <1>18 DEF CleanInv

(* Without failures a dispatcher's insert is the first row of its event    *)
(* for the subscriber.                                                     *)
LEMMA InsertFirst ==
    ASSUME OutboxInv, CleanInv, NEW d \in Dispatchers, NEW s \in Subscribers,
           Insert(d, s)
    PROVE  \E e \in dcur[d] :
             \/ row' = [row EXCEPT ![<<e, s, 1>>] = "PENDING"] /\ heldRows' = heldRows
             \/ \E t \in Events :
                  /\ tx[t] = "open" /\ row' = row
                  /\ heldRows' = [heldRows EXCEPT ![t] = @ \cup {<<e, s, 1>>}]
  <1>1. PICK e \in dcur[d] :
           \E n \in Unused(e, s) : /\ \A m \in Unused(e, s) : n <= m
                                   /\ InsertRow(d, <<e, s, n>>)
    BY DEF Insert
  <1>2. PICK n \in Unused(e, s) : /\ \A m \in Unused(e, s) : n <= m
                                  /\ InsertRow(d, <<e, s, n>>)
    BY <1>1
  <1>3. s \in dsubs[d] /\ e \in Events
    BY BatchTypes DEF Insert
  <1>4. <<e, s, 1>> \in Rows /\ 1 \in 1..MaxCopies /\ n \in 1..MaxCopies
    BY <1>3, RowParts, OutboxAssumption DEF Unused
  <1>5. ~Made(<<e, s, 1>>)
    BY <1>3, <1>4 DEF CleanInv, FanInv
  <1>6. 1 \in Unused(e, s)
    BY <1>4, <1>5 DEF Made, Unused
  <1>7. n = 1
    BY <1>2, <1>4, <1>6, OutboxAssumption
  <1>8. PICK t \in Joins(d) :
           IF t = NoTx THEN /\ row' = [row EXCEPT ![<<e, s, 1>>] = "PENDING"]
                            /\ UNCHANGED heldRows
                       ELSE /\ heldRows' = [heldRows EXCEPT ![t] = @ \cup {<<e, s, 1>>}]
                            /\ UNCHANGED row
    BY <1>2, <1>7 DEF InsertRow
  <1>9. t # NoTx => t \in Events /\ tx[t] = "open"
    BY JoinsOpen DEF OutboxInv
  <1> QED BY <1>8, <1>9

LEMMA InsertSettles ==
    ASSUME OutboxInv, CleanInv, NEW d \in Dispatchers, NEW s \in Subscribers,
           Insert(d, s)
    PROVE  CleanInv'
  <1> USE DEF wVars
  <1>1. PICK e \in dcur[d] :
           \/ row' = [row EXCEPT ![<<e, s, 1>>] = "PENDING"] /\ heldRows' = heldRows
           \/ \E t \in Events :
                /\ tx[t] = "open" /\ row' = row
                /\ heldRows' = [heldRows EXCEPT ![t] = @ \cup {<<e, s, 1>>}]
    BY InsertFirst
  <1>2. /\ s \in dsubs[d]
        /\ dsubs' = [dsubs EXCEPT ![d] = @ \ {s}]
        /\ dcur' = [dcur EXCEPT ![d] = IF dsubs[d] = {s} THEN {} ELSE @]
        /\ UNCHANGED <<tx, heldEv, event, old, dtodo, wtodo, wcur, wpc, matched>>
    BY DEF Insert
  <1>3. e \in Events /\ <<e, s, 1>> \in Rows
    BY BatchTypes, RowParts
  <1> DEFINE q == <<e, s, 1>>
  <1>4. q[1] = e /\ q[2] = s /\ q[3] = 1 /\ q \in RowsOf(e)
    BY <1>3 DEF RowsOf
  <1>5. row[q] = "none" /\ s \in matched[e]
        /\ \A r \in Rows : r[1] = e /\ r[2] = s => ~Made(r)
    BY <1>2, <1>3, <1>4 DEF CleanInv, FanInv, Made
  <1>6. \/ /\ \A r \in Rows : row'[r] = IF r = q THEN "PENDING" ELSE row[r]
           /\ heldRows' = heldRows
        \/ \E t \in Events :
             /\ tx[t] = "open" /\ row' = row
             /\ \A u \in Events :
                  heldRows'[u] = IF u = t THEN heldRows[u] \cup {q} ELSE heldRows[u]
    <2> HIDE DEF q
    <2>1. \/ row' = [row EXCEPT ![q] = "PENDING"] /\ heldRows' = heldRows
          \/ \E t \in Events :
               /\ tx[t] = "open" /\ row' = row
               /\ heldRows' = [heldRows EXCEPT ![t] = @ \cup {q}]
      BY <1>1 DEF q
    <2>2. q \in Rows
      BY <1>3 DEF q
    <2>3. CASE row' = [row EXCEPT ![q] = "PENDING"] /\ heldRows' = heldRows
      <3>1. \A r \in Rows : row'[r] = IF r = q THEN "PENDING" ELSE row[r]
        BY <2>2, <2>3 DEF OutboxInv, TypeOK
      <3> QED BY <2>3, <3>1
    <2>4. ASSUME NEW t \in Events, tx[t] = "open", row' = row,
                 heldRows' = [heldRows EXCEPT ![t] = @ \cup {q}]
          PROVE  \E u \in Events :
                   /\ tx[u] = "open" /\ row' = row
                   /\ \A v \in Events :
                        heldRows'[v] = IF v = u THEN heldRows[v] \cup {q} ELSE heldRows[v]
      <3>1. \A v \in Events :
              heldRows'[v] = IF v = t THEN heldRows[v] \cup {q} ELSE heldRows[v]
        BY <2>4 DEF OutboxInv, TypeOK
      <3> QED BY <2>4, <3>1
    <2> QED BY <2>1, <2>3, <2>4
  <1> HIDE DEF q
  <1>7. \A c \in Dispatchers :
          /\ dsubs'[c] = IF c = d THEN dsubs[d] \ {s} ELSE dsubs[c]
          /\ dcur'[c] = IF c = d /\ dsubs[d] = {s} THEN {} ELSE dcur[c]
    BY <1>2 DEF OutboxInv, TypeOK
  <1>8. Has(d, e) /\ tx[e] = "committed"
    BY <1>3 DEF Has, CleanInv, StageInv
  <1>9. /\ \A c \in Dispatchers, f \in Events : Has(c, f)' => Has(c, f)
        /\ \A c \in Dispatchers, f \in Events : f # e /\ Has(c, f) => Has(c, f)'
    <2>1. \A f \in dcur[d] : f = e
      BY DEF CleanInv, BatchInv
    <2> QED BY <1>2, <1>7, <2>1 DEF Has
  <1>10. /\ \A t, f \in Events : Holds(t, f)' => Holds(t, f) \/ (f = e /\ tx[t] = "open")
         /\ \A t, f \in Events : Holds(t, f) => Holds(t, f)'
    <2> SUFFICES ASSUME NEW t \in Events, NEW f \in Events
                 PROVE  /\ Holds(t, f)' => Holds(t, f) \/ (f = e /\ tx[t] = "open")
                        /\ Holds(t, f) => Holds(t, f)'
      OBVIOUS
    <2>1. heldEv' = heldEv
      BY <1>2
    <2>2. \/ heldRows'[t] = heldRows[t]
          \/ tx[t] = "open" /\ heldRows'[t] = heldRows[t] \cup {q}
      BY <1>6
    <2> QED BY <1>4, <2>1, <2>2 DEF Holds
  <1>11. /\ \A r \in Rows : Made(r) => Made(r)'
         /\ \A r \in Rows : Made(r)' => Made(r) \/ r = q
         /\ Made(q)'
    <2>1. CASE /\ \A r \in Rows : row'[r] = IF r = q THEN "PENDING" ELSE row[r]
               /\ heldRows' = heldRows
      <3>1. q \in Rows
        BY <1>3 DEF q
      <3> QED BY <2>1, <3>1 DEF Made
    <2>2. ASSUME NEW t \in Events, row' = row,
                 \A u \in Events :
                   heldRows'[u] = IF u = t THEN heldRows[u] \cup {q} ELSE heldRows[u]
          PROVE  /\ \A r \in Rows : Made(r) => Made(r)'
                 /\ \A r \in Rows : Made(r)' => Made(r) \/ r = q
                 /\ Made(q)'
      BY <2>2 DEF Made
    <2> QED BY <1>6, <2>1, <2>2
  <1>12. HeldInv'
    BY <1>2, <1>8, <1>10 DEF CleanInv, HeldInv
  <1>13. \A r \in Rows : r # q => row'[r] = row[r]
    BY <1>6
  <1>14. StageInv'
    <2> SUFFICES ASSUME NEW f \in Events PROVE StageInv!(f)'
      BY DEF StageInv
    <2>1. StageInv!(f)
      BY DEF CleanInv, StageInv
    <2>2. \A t \in Events : heldRows[t] \subseteq heldRows'[t]
      BY <1>6
    <2>3. tx[f] # "committed" => \A r \in RowsOf(f) : row'[r] = row[r]
      BY <1>4, <1>8, <1>13 DEF RowsOf
    <2> QED BY <1>2, <1>9, <2>1, <2>2, <2>3
  <1>15. BatchInv'
    <2>1. \A c, b \in Dispatchers, f \in Events : Has(c, f)' /\ Has(b, f)' => c = b
      BY <1>9 DEF CleanInv, BatchInv
    <2>2. ASSUME NEW c \in Dispatchers
          PROVE  /\ \A f \in dcur'[c] : f \notin dtodo'[c]
                 /\ \A f, g \in dcur'[c] : f = g
                 /\ dcur'[c] # {} => dsubs'[c] # {}
      <3>1. dcur'[c] \subseteq dcur[c] /\ dtodo'[c] = dtodo[c]
        BY <1>2, <1>7
      <3>2. dcur'[c] # {} => dsubs'[c] # {}
        BY <1>2, <1>7 DEF CleanInv, BatchInv
      <3> QED BY <3>1, <3>2 DEF CleanInv, BatchInv
    <2> QED BY <2>1, <2>2 DEF BatchInv
  <1>16. FanInv'
    <2>1. ASSUME NEW r \in Rows, Made(r)'
          PROVE  r[3] = 1 /\ r[2] \in matched'[r[1]]
      <3>1. CASE Made(r)
        BY <1>2, <3>1 DEF CleanInv, FanInv
      <3>2. CASE r = q
        BY <1>2, <1>4, <1>5, <3>2
      <3> QED BY <1>11, <2>1, <3>1, <3>2
    <2>2. ASSUME NEW f \in Events, NEW u \in matched'[f]
          PROVE  \/ Made(<<f, u, 1>>)'
                 \/ \E c \in Dispatchers : f \in dcur'[c] /\ u \in dsubs'[c]
      <3>1. u \in matched[f] /\ <<f, u, 1>> \in Rows
        BY <1>2, RowParts DEF OutboxInv, TypeOK
      <3>2. CASE Made(<<f, u, 1>>)
        BY <1>11, <3>1, <3>2
      <3>3. ASSUME NEW c \in Dispatchers, f \in dcur[c], u \in dsubs[c]
            PROVE  \/ Made(<<f, u, 1>>)'
                   \/ \E b \in Dispatchers : f \in dcur'[b] /\ u \in dsubs'[b]
        <4>1. CASE c = d /\ u = s
          <5>1. f = e
            BY <3>3, <4>1 DEF CleanInv, BatchInv
          <5> QED BY <1>11, <4>1, <5>1 DEF q
        <4>2. CASE c # d \/ u # s
          <5>1. f \in dcur'[c] /\ u \in dsubs'[c]
            BY <1>7, <3>3, <4>2
          <5> QED BY <5>1
        <4> QED BY <4>1, <4>2
      <3> QED BY <3>1, <3>2, <3>3 DEF CleanInv, FanInv
    <2>3. ASSUME NEW c \in Dispatchers, NEW f \in dcur'[c], NEW u \in dsubs'[c]
          PROVE  /\ u \in matched'[f]
                 /\ \A r \in Rows : r[1] = f /\ r[2] = u => ~Made(r)'
      <3>1. f \in dcur[c] /\ u \in dsubs[c] /\ f \in Events
        BY <1>7, BatchTypes
      <3>2. u \in matched[f] /\ \A r \in Rows : r[1] = f /\ r[2] = u => ~Made(r)
        BY <3>1 DEF CleanInv, FanInv
      <3>3. ~(f = e /\ u = s)
        <4>1. f = e => c = d
          BY <1>8, <3>1 DEF CleanInv, BatchInv, Has
        <4> QED BY <1>7, <4>1
      <3> QED BY <1>2, <1>4, <1>11, <3>2, <3>3
    <2> QED BY <2>1, <2>2, <2>3 DEF FanInv
  <1>17. FlightInv'
    <2>1. Dispatch(d) /\ old' = old
      BY <1>2 DEF Dispatch
    <2> QED BY <2>1, FlightFrame DEF CleanInv
  <1>18. EndInv'
    <2> SUFFICES ASSUME NEW f \in Events, event'[f] = "DISPATCHED"
                 PROVE  Unfinished(f)'
      BY DEF EndInv
    <2>1. Unfinished(f)
      BY <1>2 DEF CleanInv, EndInv
    <2>2. CASE f = e
      <3>1. CASE row'[q] = "PENDING"
        BY <1>4, <2>2, <3>1 DEF Unfinished
      <3>2. ASSUME NEW t \in Events, q \in heldRows'[t]
            PROVE  Unfinished(f)'
        <4>1. Holds(t, e)'
          BY <1>4, <3>2 DEF Holds
        <4> QED BY <2>2, <4>1 DEF Unfinished
      <3>3. q \in Rows
        BY <1>3 DEF q
      <3> QED BY <1>6, <3>1, <3>2, <3>3
    <2>3. CASE f # e
      <3>1. \A r \in RowsOf(f) : row'[r] = row[r]
        BY <1>4, <1>13, <2>3 DEF RowsOf
      <3>2. \A c \in Dispatchers : Has(c, f) => Has(c, f)'
        BY <1>9, <2>3
      <3>3. \A t \in Events : Holds(t, f) => Holds(t, f)'
        BY <1>10
      <3>4. wcur' = wcur
        BY <1>2
      <3> QED BY <2>1, <3>1, <3>2, <3>3, <3>4 DEF Unfinished
    <2> QED BY <2>2, <2>3
  <1> QED BY <1>12, <1>14, <1>15, <1>16, <1>17, <1>18 DEF CleanInv

-----------------------------------------------------------------------------
(* The induction.                                                           *)

(* A failure or a rollback is never taken back.                            *)
LEMMA CleanBefore ==
    ASSUME TypeOK, [Next]_vars, Clean'
    PROVE  /\ Clean
           /\ \A e \in Events : ~Rollback(e)
           /\ ~Crash
           /\ \A d \in Dispatchers : ~InsertFails(d)
           /\ \A w \in Workers : ~WorkerFails(w)
  <1> USE DEF txVars, dbVars, dVars, wVars
  <1>1. faults \in Nat /\ faults' = 0
    BY DEF TypeOK, Clean
  <1>2. /\ ~Crash
        /\ \A d \in Dispatchers : ~InsertFails(d)
        /\ \A w \in Workers : ~WorkerFails(w)
    BY <1>1 DEF Crash, InsertFails, WorkerFails
  <1>3. \A e \in Events : ~Rollback(e)
    BY DEF Rollback, Clean, TypeOK
  <1>4. ASSUME NEW e \in Events, Request(e)
        PROVE  /\ faults' = faults
               /\ \A f \in Events : tx[f] = "aborted" => tx'[f] = "aborted"
    BY <1>3, <1>4 DEF Request, PublishPlain, PublishKey, Commit, TypeOK
  <1>5. ASSUME NEW d \in Dispatchers, Dispatch(d)
        PROVE  faults' = faults /\ tx' = tx
    BY <1>5 DEF Dispatch, DispatchClaim, Match, Insert
  <1>6. ASSUME NEW w \in Workers, Work(w)
        PROVE  faults' = faults /\ tx' = tx
    BY <1>6 DEF Work, WorkerClaim, Post, Mark, ReconcileRead, ReconcileWrite
  <1>7. ASSUME NEW r \in Rows, Age(r)
        PROVE  faults' \in {faults, faults + 1} /\ tx' = tx
    BY <1>7 DEF Age
  <1>8. ASSUME UNCHANGED vars
        PROVE  faults' = faults /\ tx' = tx
    BY <1>8 DEF vars
  <1>9. /\ faults' \in {faults, faults + 1}
        /\ \A f \in Events : tx[f] = "aborted" => tx'[f] = "aborted"
    BY <1>2, <1>4, <1>5, <1>6, <1>7, <1>8 DEF Next, Fault
  <1>10. Clean
    BY <1>1, <1>9 DEF Clean
  <1> QED BY <1>2, <1>3, <1>10

(* A row in flight is in the hands of a worker, so that one that counts as *)
(* stale has met a failure.                                                *)
LEMMA NoneAges ==
    ASSUME TypeOK, FlightInv, Clean, Clean', NEW r \in Rows
    PROVE  ~Age(r)
  <1> SUFFICES ASSUME Age(r) PROVE FALSE
    OBVIOUS
  <1>1. \E w \in Workers : r \in wtodo[w] \cup wcur[w]
    BY DEF Age, FlightInv
  <1>2. faults' = faults + 1
    BY <1>1 DEF Age
  <1> QED BY <1>2 DEF Clean

LEMMA SettleInit == Init => SettleInv
  <1> SUFFICES ASSUME Init PROVE SettleInv
    OBVIOUS
  <1>1. OutboxInv
    BY InitInv
  <1>2. HeldInv /\ StageInv
    BY DEF Init, HeldInv, StageInv, Holds, Has, Keep, RowsOf
  <1>3. BatchInv /\ EndInv
    BY DEF Init, BatchInv, EndInv, Has, Keep
  <1>4. FanInv /\ FlightInv
    BY DEF Init, FanInv, FlightInv, Made
  <1> QED BY <1>1, <1>2, <1>3, <1>4 DEF SettleInv, CleanInv

LEMMA SettleNext == SettleInv /\ [Next]_vars => SettleInv'
  <1> SUFFICES ASSUME SettleInv, [Next]_vars PROVE SettleInv'
    OBVIOUS
  <1>1. OutboxInv /\ OutboxInv' /\ TypeOK
    BY NextInv DEF SettleInv, OutboxInv
  <1> SUFFICES ASSUME Clean' PROVE CleanInv'
    BY <1>1 DEF SettleInv
  <1>2. /\ Clean
        /\ \A e \in Events : ~Rollback(e)
        /\ ~Crash
        /\ \A d \in Dispatchers : ~InsertFails(d)
        /\ \A w \in Workers : ~WorkerFails(w)
    BY <1>1, CleanBefore
  <1>3. CleanInv
    BY <1>2 DEF SettleInv
  <1>4. \A r \in Rows : ~Age(r)
    BY <1>1, <1>2, <1>3, NoneAges DEF CleanInv
  <1>5. ASSUME NEW e \in Events, Request(e) PROVE CleanInv'
    BY <1>1, <1>2, <1>3, <1>5, PublishPlainSettles, PublishKeySettles,
       CommitSettles DEF Request
  <1>6. ASSUME NEW d \in Dispatchers, Dispatch(d) PROVE CleanInv'
    BY <1>1, <1>3, <1>6, DispatchClaimSettles, MatchSettles, InsertSettles
       DEF Dispatch
  <1>7. ASSUME NEW w \in Workers, Work(w) PROVE CleanInv'
    BY <1>1, <1>3, <1>7, WorkerClaimSettles, PostSettles, MarkSettles,
       ReconcileReadSettles, ReconcileWriteSettles DEF Work
  <1>8. CASE UNCHANGED vars
    <2>1. UNCHANGED <<tx, heldRows, heldEv, event, row, old, dtodo, dcur, dsubs,
                      wtodo, wcur, wpc, matched>>
      BY <1>8 DEF vars, txVars, dbVars, dVars, wVars
    <2>2. HeldInv' /\ StageInv' /\ BatchInv'
      BY <1>3, <2>1 DEF CleanInv, HeldInv, StageInv, BatchInv, Holds, Has
    <2>3. FanInv' /\ FlightInv'
      BY <1>3, <2>1 DEF CleanInv, FanInv, FlightInv, Made
    <2>4. EndInv'
      BY <1>3, <2>1 DEF CleanInv, EndInv, Unfinished, Holds, Has
    <2> QED BY <2>2, <2>3, <2>4 DEF CleanInv
  <1> QED BY <1>2, <1>4, <1>5, <1>6, <1>7, <1>8 DEF Next, Fault

(* Without failures and when no request rolls back, an event that was      *)
(* published has come to an end once all is quiet, with exactly one        *)
(* delivery row for every subscriber it was matched with: no overlap of    *)
(* batches, and no transaction of another request that a dispatcher's      *)
(* statements fall into, loses an event, a row or the status of either.    *)
THEOREM EventsSettle == Spec => []Settled
  <1>1. SettleInv => Settled
    <2> SUFFICES ASSUME SettleInv, Quiet, Clean, NEW e \in Events
                 PROVE  Finished(e)
      BY DEF Settled, Clean
    <2>1. OutboxInv /\ CleanInv
      BY DEF SettleInv
    <2>2. \A t \in Events : ~Holds(t, e) /\ heldRows[t] = {}
      BY <2>1, NothingHeld DEF Quiet, CleanInv, HeldInv
    <2>3. \A d \in Dispatchers : ~Has(d, e) /\ dcur[d] = {}
      BY DEF Quiet, DispatcherIdle, Has
    <2>4. \A w \in Workers : wcur[w] = {}
      BY <2>1 DEF Quiet, CleanInv, FlightInv
    <2>5. event[e] # "DISPATCHED"
      BY <2>1, <2>2, <2>3, <2>4 DEF Quiet, CleanInv, EndInv, Unfinished, RowsOf
    <2>6. \A r \in RowsOf(e) : row[r] # "none" =>
             r \in {<<e, s, 1>> : s \in matched[e]}
      <3> SUFFICES ASSUME NEW r \in RowsOf(e), row[r] # "none"
                   PROVE  \E s \in matched[e] : r = <<e, s, 1>>
        OBVIOUS
      <3>1. r \in Rows /\ r[1] = e
        BY DEF RowsOf
      <3>2. r[3] = 1 /\ r[2] \in matched[e]
        BY <2>1, <3>1 DEF CleanInv, FanInv, Made
      <3>3. r = <<r[1], r[2], r[3]>>
        BY <3>1 DEF Rows
      <3> QED BY <3>1, <3>2, <3>3
    <2>7. \A s \in matched[e] : <<e, s, 1>> \in RowsOf(e) /\ row[<<e, s, 1>>] # "none"
      <3> SUFFICES ASSUME NEW s \in matched[e]
                   PROVE  <<e, s, 1>> \in RowsOf(e) /\ row[<<e, s, 1>>] # "none"
        OBVIOUS
      <3>1. s \in Subscribers
        BY <2>1 DEF OutboxInv, TypeOK
      <3>2. Made(<<e, s, 1>>)
        BY <2>1, <2>3 DEF CleanInv, FanInv
      <3> QED BY <2>2, <3>1, <3>2, RowParts DEF Made, RowsOf
    <2> QED BY <2>5, <2>6, <2>7 DEF Finished
  <1> QED BY <1>1, SettleInit, SettleNext, PTL DEF Spec
=============================================================================
