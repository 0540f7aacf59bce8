------------------------ MODULE WebhookOutboxProofs ------------------------
(***************************************************************************)
(* No delivery row of the webhook outbox is posted twice, for any numbers  *)
(* of events, subscribers, overlapping batches and faults.                 *)
(***************************************************************************)
EXTENDS WebhookOutbox, TLAPS

(* A delivery row is in the hands of at most one transaction or worker,    *)
(* and its status shows whether it has been posted: a held row does not    *)
(* exist yet, one that is to be posted has left PENDING and was not posted *)
(* before.                                                                 *)
RowInv ==
    \A r \in Rows :
        /\ row[r] \in {"none", "PENDING"} => posts[r] = 0
        /\ posts[r] <= 1
        /\ \A t \in Events : r \in heldRows[t] => row[r] = "none"
        /\ \A t, u \in Events : r \in heldRows[t] /\ r \in heldRows[u] => t = u
        /\ \A w \in Workers :
             /\ r \in wtodo[w] => posts[r] = 0
             /\ r \in wtodo[w] \cup wcur[w] => row[r] \notin {"none", "PENDING"}
        /\ \A w, v \in Workers : r \in wtodo[w] /\ r \in wtodo[v] => w = v

(* A worker writes the status of a row to the row, and that of an event to *)
(* the event.                                                              *)
SaysInv ==
    \A w \in Workers :
        /\ wpc[w] = "mark" => wsays[w] \in {"DELIVERED", "FAILED"}
        /\ wpc[w] = "write" => wsays[w] \in {"ALL_DELIVERED", "FAILED"}

(* The dispatcher never gets an event with secret fields, so that its rows *)
(* come from the publishing transaction alone.                             *)
KeyInv ==
    \A e \in KeyEvents :
        /\ event[e] # "PENDING"
        /\ \A t \in Events : heldEv[t][e] # "PENDING"
        /\ \A d \in Dispatchers : e \notin dtodo[d] /\ e \notin dcur[d]
        /\ tx[e] = "idle" =>
             \A r \in RowsOf(e) :
                row[r] = "none" /\ \A t \in Events : r \notin heldRows[t]

OutboxInv == TypeOK /\ RowInv /\ SaysInv /\ KeyInv

-----------------------------------------------------------------------------
(* Facts about the helpers.                                                 *)

LEMMA KeysAreEvents == KeyEvents \subseteq Events
  BY OutboxAssumption

LEMMA BatchesAreParts ==
    ASSUME NEW S, NEW B \in Batches(S)
    PROVE  B \subseteq S
  BY DEF Batches

LEMMA JoinsEvents ==
    ASSUME TypeOK, NEW d \in Dispatchers, NEW t \in Joins(d)
    PROVE  t \in Events \cup {NoTx}
  BY DEF TypeOK, Joins

(* A dispatcher's statement sets the status of one event, in the table or  *)
(* in one transaction.                                                     *)
LEMMA SetEventSets ==
    ASSUME TypeOK, NEW d \in Dispatchers, NEW e \in Events,
           NEW st \in EventStatus, SetEvent(d, e, st)
    PROVE  /\ event' \in [Events -> EventStatus]
           /\ heldEv' \in [Events -> [Events -> EventStatus]]
           /\ \A f \in Events : event'[f] = event[f] \/ (f = e /\ event'[f] = st)
           /\ \A t, f \in Events :
                heldEv'[t][f] = heldEv[t][f] \/ (f = e /\ heldEv'[t][f] = st)
  <1>1. PICK t \in Joins(d) :
           IF t = NoTx THEN /\ event' = [event EXCEPT ![e] = st]
                            /\ UNCHANGED heldEv
                       ELSE /\ heldEv' = [heldEv EXCEPT ![t][e] = st]
                            /\ UNCHANGED event
    BY DEF SetEvent
  <1>2. t \in Events \cup {NoTx}
    BY JoinsEvents
  <1>3. CASE t = NoTx
    BY <1>1, <1>3 DEF TypeOK
  <1>4. CASE t \in Events /\ t # NoTx
    <2>1. event' = event /\ heldEv' = [heldEv EXCEPT ![t][e] = st]
      BY <1>1, <1>4
    <2>2. heldEv' \in [Events -> [Events -> EventStatus]]
      BY <2>1, <1>4 DEF TypeOK
    <2>3. \A u, f \in Events :
             heldEv'[u][f] = IF u = t /\ f = e THEN st ELSE heldEv[u][f]
      BY <2>1, <1>4 DEF TypeOK
    <2> QED BY <2>1, <2>2, <2>3 DEF TypeOK
  <1> QED BY <1>2, <1>3, <1>4

(* An insert makes one row PENDING, in the table or in one transaction.    *)
LEMMA InsertRowInserts ==
    ASSUME TypeOK, NEW d \in Dispatchers, NEW q \in Rows, InsertRow(d, q)
    PROVE  \/ /\ row' = [row EXCEPT ![q] = "PENDING"]
              /\ heldRows' = heldRows
           \/ \E t \in Events :
                /\ heldRows' = [heldRows EXCEPT ![t] = @ \cup {q}]
                /\ row' = row
  <1>1. PICK t \in Joins(d) :
           IF t = NoTx THEN /\ row' = [row EXCEPT ![q] = "PENDING"]
                            /\ UNCHANGED heldRows
                       ELSE /\ heldRows' = [heldRows EXCEPT ![t] = @ \cup {q}]
                            /\ UNCHANGED row
    BY DEF InsertRow
  <1>2. t \in Events \cup {NoTx}
    BY JoinsEvents
  <1> QED BY <1>1, <1>2

-----------------------------------------------------------------------------
(* One lemma per action, with a step for each part of the invariant.        *)

LEMMA PublishPlainKeeps ==
    ASSUME OutboxInv, NEW e \in Events, PublishPlain(e)
    PROVE  OutboxInv'
  <1>1. TypeOK'
    BY DEF OutboxInv, RowInv, SaysInv, TypeOK, EventStatus, RowStatus,
           PublishPlain, dbVars, dVars, wVars
  <1>2. RowInv'
    BY DEF OutboxInv, TypeOK, RowInv, SaysInv, PublishPlain, dbVars, dVars, wVars
  <1>3. SaysInv'
    BY DEF OutboxInv, TypeOK, SaysInv, PublishPlain, dbVars, dVars, wVars
  <1>4. KeyInv'
    BY KeysAreEvents DEF OutboxInv, TypeOK, KeyInv, RowInv, SaysInv,
           RowsOf, PublishPlain, dbVars, dVars, wVars
  <1> QED BY <1>1, <1>2, <1>3, <1>4 DEF OutboxInv

LEMMA CommitKeeps ==
    ASSUME OutboxInv, NEW e \in Events, Commit(e)
    PROVE  OutboxInv'
  <1>1. TypeOK'
    BY DEF OutboxInv, RowInv, SaysInv, TypeOK, EventStatus, RowStatus,
           Commit, Keep, dVars, wVars
  <1>2. RowInv'
    BY DEF OutboxInv, TypeOK, RowInv, SaysInv, Commit, Keep, dVars, wVars
  <1>3. SaysInv'
    BY DEF OutboxInv, TypeOK, SaysInv, Commit, Keep, dVars, wVars
  <1>4. KeyInv'
    BY KeysAreEvents DEF OutboxInv, TypeOK, KeyInv, RowInv, SaysInv,
           RowsOf, Commit, Keep, dVars, wVars
  <1> QED BY <1>1, <1>2, <1>3, <1>4 DEF OutboxInv

LEMMA RollbackKeeps ==
    ASSUME OutboxInv, NEW e \in Events, Rollback(e)
    PROVE  OutboxInv'
  <1>1. TypeOK'
    BY DEF OutboxInv, RowInv, SaysInv, TypeOK, EventStatus, RowStatus,
           Rollback, Keep, dbVars, dVars, wVars
  <1>2. RowInv'
    BY DEF OutboxInv, TypeOK, RowInv, SaysInv, Rollback, Keep, dbVars, dVars, wVars
  <1>3. SaysInv'
    BY DEF OutboxInv, TypeOK, SaysInv, Rollback, Keep, dbVars, dVars, wVars
  <1>4. KeyInv'
    BY KeysAreEvents DEF OutboxInv, TypeOK, KeyInv, RowInv, SaysInv,
           RowsOf, Rollback, Keep, dbVars, dVars, wVars
  <1> QED BY <1>1, <1>2, <1>3, <1>4 DEF OutboxInv

LEMMA PostKeeps ==
    ASSUME OutboxInv, NEW w \in Workers, NEW q \in Rows, Post(w, q)
    PROVE  OutboxInv'
  <1>1. TypeOK'
    BY DEF OutboxInv, RowInv, SaysInv, TypeOK, EventStatus, RowStatus,
           Post, txVars, dbVars, dVars
  <1>2. RowInv'
    BY DEF OutboxInv, TypeOK, RowInv, SaysInv, Post, txVars, dbVars, dVars
  <1>3. SaysInv'
    BY DEF OutboxInv, TypeOK, SaysInv, Post, txVars, dbVars, dVars
  <1>4. KeyInv'
    BY KeysAreEvents DEF OutboxInv, TypeOK, KeyInv, RowInv, SaysInv,
           RowsOf, Post, txVars, dbVars, dVars
  <1> QED BY <1>1, <1>2, <1>3, <1>4 DEF OutboxInv

LEMMA MarkKeeps ==
    ASSUME OutboxInv, NEW w \in Workers, Mark(w)
    PROVE  OutboxInv'
  <1>1. TypeOK'
    BY DEF OutboxInv, RowInv, SaysInv, TypeOK, EventStatus, RowStatus,
           Mark, txVars, dVars
  <1>2. RowInv'
    BY DEF OutboxInv, TypeOK, RowInv, SaysInv, Mark, txVars, dVars
  <1>3. SaysInv'
    BY DEF OutboxInv, TypeOK, SaysInv, Mark, txVars, dVars
  <1>4. KeyInv'
    BY KeysAreEvents DEF OutboxInv, TypeOK, KeyInv, RowInv, SaysInv,
           RowsOf, Mark, txVars, dVars
  <1> QED BY <1>1, <1>2, <1>3, <1>4 DEF OutboxInv

LEMMA ReconcileReadKeeps ==
    ASSUME OutboxInv, NEW w \in Workers, ReconcileRead(w)
    PROVE  OutboxInv'
  <1>1. TypeOK'
    BY DEF OutboxInv, RowInv, SaysInv, TypeOK, EventStatus, RowStatus,
           ReconcileRead, Verdict, Onward, txVars, dbVars, dVars
  <1>2. RowInv'
    BY DEF OutboxInv, TypeOK, RowInv, SaysInv, ReconcileRead, Verdict, Onward, txVars, dbVars, dVars
  <1>3. SaysInv'
    BY DEF OutboxInv, TypeOK, SaysInv, ReconcileRead, Verdict, Onward, txVars, dbVars, dVars
  <1>4. KeyInv'
    BY KeysAreEvents DEF OutboxInv, TypeOK, KeyInv, RowInv, SaysInv,
           RowsOf, ReconcileRead, Verdict, Onward, txVars, dbVars, dVars
  <1> QED BY <1>1, <1>2, <1>3, <1>4 DEF OutboxInv

LEMMA ReconcileWriteKeeps ==
    ASSUME OutboxInv, NEW w \in Workers, ReconcileWrite(w)
    PROVE  OutboxInv'
  <1>1. TypeOK'
    BY DEF OutboxInv, RowInv, SaysInv, TypeOK, EventStatus, RowStatus,
           ReconcileWrite, Onward, txVars, dVars
  <1>2. RowInv'
    BY DEF OutboxInv, TypeOK, RowInv, SaysInv, ReconcileWrite, Onward, txVars, dVars
  <1>3. SaysInv'
    BY DEF OutboxInv, TypeOK, SaysInv, ReconcileWrite, Onward, txVars, dVars
  <1>4. KeyInv'
    BY KeysAreEvents DEF OutboxInv, TypeOK, KeyInv, RowInv, SaysInv,
           RowsOf, ReconcileWrite, Onward, txVars, dVars
  <1> QED BY <1>1, <1>2, <1>3, <1>4 DEF OutboxInv

LEMMA WorkerFailsKeeps ==
    ASSUME OutboxInv, NEW w \in Workers, WorkerFails(w)
    PROVE  OutboxInv'
  <1>1. TypeOK'
    BY DEF OutboxInv, RowInv, SaysInv, TypeOK, EventStatus, RowStatus,
           WorkerFails, txVars, dbVars, dVars
  <1>2. RowInv'
    BY DEF OutboxInv, TypeOK, RowInv, SaysInv, WorkerFails, txVars, dbVars, dVars
  <1>3. SaysInv'
    BY DEF OutboxInv, TypeOK, SaysInv, WorkerFails, txVars, dbVars, dVars
  <1>4. KeyInv'
    BY KeysAreEvents DEF OutboxInv, TypeOK, KeyInv, RowInv, SaysInv,
           RowsOf, WorkerFails, txVars, dbVars, dVars
  <1> QED BY <1>1, <1>2, <1>3, <1>4 DEF OutboxInv

LEMMA AgeKeeps ==
    ASSUME OutboxInv, NEW q \in Rows, Age(q)
    PROVE  OutboxInv'
  <1>1. TypeOK'
    BY DEF OutboxInv, RowInv, SaysInv, TypeOK, EventStatus, RowStatus,
           Age, txVars, dVars, wVars
  <1>2. RowInv'
    BY DEF OutboxInv, TypeOK, RowInv, SaysInv, Age, txVars, dVars, wVars
  <1>3. SaysInv'
    BY DEF OutboxInv, TypeOK, SaysInv, Age, txVars, dVars, wVars
  <1>4. KeyInv'
    BY KeysAreEvents DEF OutboxInv, TypeOK, KeyInv, RowInv, SaysInv,
           RowsOf, Age, txVars, dVars, wVars
  <1> QED BY <1>1, <1>2, <1>3, <1>4 DEF OutboxInv

LEMMA CrashKeeps ==
    ASSUME OutboxInv, Crash
    PROVE  OutboxInv'
  <1>1. TypeOK'
    BY DEF OutboxInv, RowInv, SaysInv, TypeOK, EventStatus, RowStatus,
           Crash, Keep, dbVars
  <1>2. RowInv'
    BY DEF OutboxInv, TypeOK, RowInv, SaysInv, Crash, Keep, dbVars
  <1>3. SaysInv'
    BY DEF OutboxInv, TypeOK, SaysInv, Crash, Keep, dbVars
  <1>4. KeyInv'
    BY KeysAreEvents DEF OutboxInv, TypeOK, KeyInv, RowInv, SaysInv,
           RowsOf, Crash, Keep, dbVars
  <1> QED BY <1>1, <1>2, <1>3, <1>4 DEF OutboxInv

LEMMA MatchKeeps ==
    ASSUME OutboxInv, NEW d \in Dispatchers, NEW e \in Events, Match(d, e)
    PROVE  OutboxInv'
  <1>1. PICK S \in SUBSET Subscribers :
           /\ matched' = [matched EXCEPT ![e] = S]
           /\ dsubs' = [dsubs EXCEPT ![d] = S]
           /\ \/ S = {} /\ SetEvent(d, e, "ALL_DELIVERED") /\ dcur' = dcur
              \/ /\ S # {} /\ dcur' = [dcur EXCEPT ![d] = {e}]
                 /\ UNCHANGED <<event, heldEv>>
    BY DEF Match
  <1>2. /\ event' \in [Events -> EventStatus]
        /\ heldEv' \in [Events -> [Events -> EventStatus]]
        /\ \A f \in Events : event[f] # "PENDING" => event'[f] # "PENDING"
        /\ \A t, f \in Events :
             heldEv[t][f] # "PENDING" => heldEv'[t][f] # "PENDING"
    <2>1. "ALL_DELIVERED" \in EventStatus
      BY DEF EventStatus
    <2>2. CASE SetEvent(d, e, "ALL_DELIVERED")
      <3>1. TypeOK
        BY DEF OutboxInv
      <3> QED BY <2>1, <2>2, <3>1, SetEventSets
    <2>3. CASE UNCHANGED <<event, heldEv>>
      BY <2>3 DEF OutboxInv, TypeOK
    <2> QED BY <1>1, <2>2, <2>3
  <1>3. TypeOK'
    <2>1. dcur' = dcur \/ dcur' = [dcur EXCEPT ![d] = {e}]
      BY <1>1
    <2>2. dcur' \in [Dispatchers -> SUBSET Events]
      BY <2>1 DEF OutboxInv, TypeOK
    <2>3. /\ dsubs' \in [Dispatchers -> SUBSET Subscribers]
          /\ matched' \in [Events -> SUBSET Subscribers]
      BY <1>1 DEF OutboxInv, TypeOK
    <2>4. dtodo' \in [Dispatchers -> SUBSET Events]
      BY DEF OutboxInv, TypeOK, Match
    <2> QED BY <1>2, <2>2, <2>3, <2>4 DEF OutboxInv, TypeOK, Match, wVars
  <1>4. RowInv'
    BY DEF OutboxInv, RowInv, Match, wVars
  <1>5. SaysInv'
    BY DEF OutboxInv, SaysInv, Match, wVars
  <1>6. KeyInv'
    BY <1>1, <1>2, KeysAreEvents DEF OutboxInv, TypeOK, KeyInv, RowsOf, Match, wVars
  <1> QED BY <1>3, <1>4, <1>5, <1>6 DEF OutboxInv

LEMMA InsertFailsKeeps ==
    ASSUME OutboxInv, NEW d \in Dispatchers, InsertFails(d)
    PROVE  OutboxInv'
  <1>1. PICK e \in dcur[d] :
           SetEvent(d, e, "PENDING") \/ UNCHANGED <<event, heldEv>>
    BY DEF InsertFails
  <1>2. e \in Events /\ e \notin KeyEvents
    BY DEF OutboxInv, TypeOK, KeyInv
  <1>3. /\ event' \in [Events -> EventStatus]
        /\ heldEv' \in [Events -> [Events -> EventStatus]]
        /\ \A f \in Events : event'[f] = event[f] \/ f = e
        /\ \A t, f \in Events : heldEv'[t][f] = heldEv[t][f] \/ f = e
    <2>1. "PENDING" \in EventStatus
      BY DEF EventStatus
    <2> QED BY <1>1, <1>2, <2>1, SetEventSets DEF OutboxInv, TypeOK
  <1>4. TypeOK'
    BY <1>3 DEF OutboxInv, TypeOK, InsertFails, wVars
  <1>5. RowInv'
    BY DEF OutboxInv, RowInv, InsertFails, wVars
  <1>6. SaysInv'
    BY DEF OutboxInv, SaysInv, InsertFails, wVars
  <1>7. KeyInv'
    <2> SUFFICES ASSUME NEW k \in KeyEvents PROVE KeyInv!(k)'
      BY DEF KeyInv
    <2>1. k \in Events /\ k # e
      BY <1>2, KeysAreEvents
    <2>2. event'[k] # "PENDING" /\ \A t \in Events : heldEv'[t][k] # "PENDING"
      BY <1>3, <2>1 DEF OutboxInv, KeyInv
    <2>3. \A c \in Dispatchers : k \notin dtodo'[c] /\ k \notin dcur'[c]
      BY DEF OutboxInv, TypeOK, KeyInv, InsertFails
    <2>4. UNCHANGED <<tx, row, heldRows>>
      BY DEF InsertFails
    <2> QED BY <2>1, <2>2, <2>3, <2>4 DEF OutboxInv, KeyInv
  <1> QED BY <1>4, <1>5, <1>6, <1>7 DEF OutboxInv

(* A claim takes PENDING events, none of them with secret fields.          *)
LEMMA DispatchClaimKeeps ==
    ASSUME OutboxInv, NEW d \in Dispatchers, NEW h \in {NoTx} \cup wakes,
           DispatchClaim(d, h)
    PROVE  OutboxInv'
  <1>1. PICK B \in Batches({e \in Events : event[e] = "PENDING"}) :
           /\ event' = [e \in Events |-> IF e \in B THEN Claimed ELSE event[e]]
           /\ dtodo' = [dtodo EXCEPT ![d] = B]
    BY DEF DispatchClaim
  <1>2. B \subseteq {e \in Events : event[e] = "PENDING"}
    BY BatchesAreParts
  <1>3. TypeOK'
    BY <1>1, <1>2 DEF OutboxInv, TypeOK, DispatchClaim, Claimed, EventStatus, wVars
  <1>4. RowInv'
    BY DEF OutboxInv, RowInv, DispatchClaim, wVars
  <1>5. SaysInv'
    BY DEF OutboxInv, SaysInv, DispatchClaim, wVars
  <1>6. KeyInv'
    BY <1>1, <1>2, KeysAreEvents DEF OutboxInv, TypeOK, KeyInv, RowsOf,
           DispatchClaim, Claimed, wVars
  <1> QED BY <1>3, <1>4, <1>5, <1>6 DEF OutboxInv

(* The rows of an event with secret fields are new when it is published.   *)
LEMMA PublishKeyKeeps ==
    ASSUME OutboxInv, NEW e \in Events, PublishKey(e)
    PROVE  OutboxInv'
  <1>1. PICK S \in SUBSET Subscribers :
           /\ heldRows' = [heldRows EXCEPT ![e] = {<<e, s, 1>> : s \in S}]
           /\ heldEv' = [heldEv EXCEPT ![e][e] =
                           IF S = {} THEN "ALL_DELIVERED" ELSE "DISPATCHED"]
           /\ matched' = [matched EXCEPT ![e] = S]
    BY DEF PublishKey
  <1> DEFINE New == {<<e, s, 1>> : s \in S}
  <1>2. 1 \in 1..MaxCopies
    BY OutboxAssumption
  <1>3. New \subseteq RowsOf(e)
    BY <1>2 DEF Rows, RowsOf
  <1>4. \A r \in New : row[r] = "none" /\ \A t \in Events : r \notin heldRows[t]
    BY <1>3 DEF OutboxInv, KeyInv, PublishKey
  <1>5. New \subseteq Rows /\ \A r \in New : r[1] = e
    BY <1>3 DEF RowsOf
  <1>6. heldRows' = [heldRows EXCEPT ![e] = New]
    BY <1>1
  <1> HIDE DEF New
  <1>7. TypeOK'
    BY <1>1, <1>5, <1>6 DEF OutboxInv, TypeOK, EventStatus, PublishKey, dbVars,
           dVars, wVars
  <1>8. RowInv'
    BY <1>4, <1>6 DEF OutboxInv, TypeOK, RowInv, PublishKey, dbVars, wVars
  <1>9. SaysInv'
    BY DEF OutboxInv, SaysInv, PublishKey, wVars
  <1>10. KeyInv'
    BY <1>1, <1>5, <1>6, KeysAreEvents DEF OutboxInv, TypeOK, KeyInv, RowsOf,
           PublishKey, dbVars, dVars
  <1> QED BY <1>7, <1>8, <1>9, <1>10 DEF OutboxInv

(* An insert takes a row that neither exists nor is held, and that is not  *)
(* of an event with secret fields.                                         *)
LEMMA InsertTakesNew ==
    ASSUME OutboxInv, NEW d \in Dispatchers, NEW s \in Subscribers, Insert(d, s)
    PROVE  \E q \in Rows :
             /\ q[1] \notin KeyEvents
             /\ row[q] = "none" /\ \A t \in Events : q \notin heldRows[t]
             /\ \/ row' = [row EXCEPT ![q] = "PENDING"] /\ heldRows' = heldRows
                \/ \E t \in Events :
                     /\ heldRows' = [heldRows EXCEPT ![t] = @ \cup {q}]
                     /\ row' = row
  <1>1. PICK e \in dcur[d] : \E n \in Unused(e, s) : InsertRow(d, <<e, s, n>>)
    BY DEF Insert
  <1>2. PICK n \in Unused(e, s) : InsertRow(d, <<e, s, n>>)
    BY <1>1
  <1> DEFINE q == <<e, s, n>>
  <1>3. e \in Events /\ e \notin KeyEvents
    BY DEF OutboxInv, TypeOK, KeyInv
  <1>4. /\ q \in Rows /\ q[1] = e
        /\ row[q] = "none" /\ \A t \in Events : q \notin heldRows[t]
    BY <1>3 DEF Unused, Rows
  <1>5. InsertRow(d, q)
    BY <1>2
  <1> HIDE DEF q
  <1> QED BY <1>3, <1>4, <1>5, InsertRowInserts DEF OutboxInv

LEMMA InsertKeeps ==
    ASSUME OutboxInv, NEW d \in Dispatchers, NEW s \in Subscribers, Insert(d, s)
    PROVE  OutboxInv'
  <1>1. PICK q \in Rows :
          /\ q[1] \notin KeyEvents
          /\ row[q] = "none" /\ \A t \in Events : q \notin heldRows[t]
          /\ \/ row' = [row EXCEPT ![q] = "PENDING"] /\ heldRows' = heldRows
             \/ \E t \in Events :
                  /\ heldRows' = [heldRows EXCEPT ![t] = @ \cup {q}]
                  /\ row' = row
    BY InsertTakesNew
  <1>2. TypeOK'
    <2>1. row' = row \/ row' = [row EXCEPT ![q] = "PENDING"]
      BY <1>1
    <2>2. row' \in [Rows -> RowStatus]
      BY <2>1 DEF OutboxInv, TypeOK, RowStatus
    <2>3. heldRows' \in [Events -> SUBSET Rows]
      <3>1. CASE heldRows' = heldRows
        BY <3>1 DEF OutboxInv, TypeOK
      <3>2. ASSUME NEW t \in Events,
                   heldRows' = [heldRows EXCEPT ![t] = @ \cup {q}]
            PROVE  heldRows' \in [Events -> SUBSET Rows]
        BY <3>2 DEF OutboxInv, TypeOK
      <3> QED BY <1>1, <3>1, <3>2
    <2>4. old \subseteq {r \in Rows : row'[r] = "IN_FLIGHT"}
      BY <1>1 DEF OutboxInv, TypeOK
    <2>5. /\ dsubs' \in [Dispatchers -> SUBSET Subscribers]
          /\ dcur' \in [Dispatchers -> SUBSET Events]
      BY DEF OutboxInv, TypeOK, Insert
    <2> QED BY <2>2, <2>3, <2>4, <2>5 DEF OutboxInv, TypeOK, Insert, wVars
  <1>3. RowInv'
    <2>1. UNCHANGED <<posts, wtodo, wcur>>
      BY DEF Insert, wVars
    <2>2. CASE row' = [row EXCEPT ![q] = "PENDING"] /\ heldRows' = heldRows
      BY <1>1, <2>1, <2>2 DEF OutboxInv, TypeOK, RowInv
    <2>3. ASSUME NEW t \in Events, row' = row,
                 heldRows' = [heldRows EXCEPT ![t] = @ \cup {q}]
          PROVE  RowInv'
      BY <1>1, <2>1, <2>3 DEF OutboxInv, TypeOK, RowInv
    <2> QED BY <1>1, <2>2, <2>3
  <1>4. SaysInv'
    BY DEF OutboxInv, SaysInv, Insert, wVars
  <1>5. KeyInv'
    <2> SUFFICES ASSUME NEW k \in KeyEvents PROVE KeyInv!(k)'
      BY DEF KeyInv
    <2>1. k \in Events /\ KeyInv!(k)
      BY KeysAreEvents DEF OutboxInv, KeyInv
    <2>2. UNCHANGED <<tx, event, heldEv, dtodo>>
      BY DEF Insert
    <2>3. \A c \in Dispatchers : k \notin dcur'[c]
      BY <2>1 DEF OutboxInv, TypeOK, Insert
    <2>4. \A r \in RowsOf(k) : r \in Rows /\ r # q
      BY <1>1 DEF RowsOf
    <2>5. \A r \in RowsOf(k) : row'[r] = row[r]
      BY <1>1, <2>4 DEF OutboxInv, TypeOK
    <2>6. \A r \in RowsOf(k), t \in Events :
            r \in heldRows'[t] => r \in heldRows[t]
      <3>1. CASE heldRows' = heldRows
        BY <3>1
      <3>2. ASSUME NEW t \in Events,
                   heldRows' = [heldRows EXCEPT ![t] = @ \cup {q}]
            PROVE  \A r \in RowsOf(k), u \in Events :
                     r \in heldRows'[u] => r \in heldRows[u]
        BY <2>4, <3>2 DEF OutboxInv, TypeOK
      <3> QED BY <1>1, <3>1, <3>2
    <2> QED BY <2>1, <2>2, <2>3, <2>5, <2>6
  <1> QED BY <1>2, <1>3, <1>4, <1>5 DEF OutboxInv

(* A claim takes PENDING rows and gives up those in flight too long.       *)
LEMMA WorkerClaimTakesPending ==
    ASSUME TypeOK, NEW w \in Workers, WorkerClaim(w)
    PROVE  \E B \in SUBSET Rows :
             /\ wtodo' = [wtodo EXCEPT ![w] = B]
             /\ wpc' = [wpc EXCEPT ![w] = IF B = {} THEN "idle" ELSE "post"]
             /\ \A r \in B : r \notin old /\ row[r] = "PENDING"
             /\ row' \in [Rows -> RowStatus]
             /\ \A r \in Rows :
                  \/ r \in B /\ row'[r] = "IN_FLIGHT"
                  \/ r \in old /\ row[r] = "IN_FLIGHT" /\ row'[r] = "FAILED"
                  \/ r \notin B /\ r \notin old /\ row'[r] = row[r]
  <1> DEFINE after == [r \in Rows |-> IF r \in old THEN Recovered ELSE row[r]]
  <1>1. PICK B \in Batches({r \in Rows : after[r] = "PENDING"}) \cup {{}} :
           /\ row' = [r \in Rows |-> IF r \in B THEN "IN_FLIGHT" ELSE after[r]]
           /\ wtodo' = [wtodo EXCEPT ![w] = B]
           /\ wpc' = [wpc EXCEPT ![w] = IF B = {} THEN "idle" ELSE "post"]
    BY DEF WorkerClaim
  <1>2. B \subseteq {r \in Rows : after[r] = "PENDING"}
    BY <1>1, BatchesAreParts
  <1>3. \A r \in B : r \in Rows /\ r \notin old /\ row[r] = "PENDING"
    BY <1>2 DEF Recovered
  <1>4. \A r \in Rows : \/ r \in B /\ row'[r] = "IN_FLIGHT"
                        \/ r \notin B /\ r \in old /\ row'[r] = "FAILED"
                        \/ r \notin B /\ r \notin old /\ row'[r] = row[r]
    BY <1>1 DEF Recovered
  <1>5. row' \in [Rows -> RowStatus]
    BY <1>1 DEF TypeOK, RowStatus, Recovered
  <1>6. \A r \in old : r \in Rows /\ row[r] = "IN_FLIGHT"
    BY DEF TypeOK
  <1> HIDE DEF after
  <1>7. B \in SUBSET Rows
    BY <1>3
  <1> QED BY <1>1, <1>3, <1>4, <1>5, <1>6, <1>7

LEMMA WorkerClaimKeeps ==
    ASSUME OutboxInv, NEW w \in Workers, WorkerClaim(w)
    PROVE  OutboxInv'
  <1>1. PICK B \in SUBSET Rows :
          /\ wtodo' = [wtodo EXCEPT ![w] = B]
          /\ wpc' = [wpc EXCEPT ![w] = IF B = {} THEN "idle" ELSE "post"]
          /\ \A r \in B : r \notin old /\ row[r] = "PENDING"
          /\ row' \in [Rows -> RowStatus]
          /\ \A r \in Rows :
               \/ r \in B /\ row'[r] = "IN_FLIGHT"
               \/ r \in old /\ row[r] = "IN_FLIGHT" /\ row'[r] = "FAILED"
               \/ r \notin B /\ r \notin old /\ row'[r] = row[r]
    BY WorkerClaimTakesPending DEF OutboxInv
  <1>2. TypeOK'
    BY <1>1 DEF OutboxInv, TypeOK, WorkerClaim, txVars, dVars
  <1>3. RowInv'
    BY <1>1 DEF OutboxInv, TypeOK, RowInv, WorkerClaim, txVars
  <1>4. SaysInv'
    BY <1>1 DEF OutboxInv, TypeOK, SaysInv, WorkerClaim
  <1>5. KeyInv'
    BY <1>1, KeysAreEvents DEF OutboxInv, TypeOK, KeyInv, RowsOf,
           WorkerClaim, txVars, dVars
  <1> QED BY <1>2, <1>3, <1>4, <1>5 DEF OutboxInv

-----------------------------------------------------------------------------
(* The induction.                                                           *)

LEMMA InitInv == Init => OutboxInv
  BY KeysAreEvents DEF Init, OutboxInv, TypeOK, RowInv, SaysInv, KeyInv, Keep,
     EventStatus, RowStatus, RowsOf

LEMMA NextInv == OutboxInv /\ [Next]_vars => OutboxInv'
  <1> SUFFICES ASSUME OutboxInv, [Next]_vars PROVE OutboxInv'
    OBVIOUS
  <1>1. ASSUME NEW e \in Events, Request(e) PROVE OutboxInv'
    BY <1>1, PublishPlainKeeps, PublishKeyKeeps, CommitKeeps, RollbackKeeps
       DEF Request
  <1>2. ASSUME NEW d \in Dispatchers, Dispatch(d) PROVE OutboxInv'
    BY <1>2, DispatchClaimKeeps, MatchKeeps, InsertKeeps DEF Dispatch
  <1>3. ASSUME NEW w \in Workers, Work(w) PROVE OutboxInv'
    BY <1>3, WorkerClaimKeeps, PostKeeps, MarkKeeps, ReconcileReadKeeps,
       ReconcileWriteKeeps DEF Work
  <1>4. CASE Fault
    BY <1>4, CrashKeeps, InsertFailsKeeps, WorkerFailsKeeps, AgeKeeps DEF Fault
  <1>5. CASE UNCHANGED vars
    BY <1>5 DEF vars, txVars, dbVars, dVars, wVars, OutboxInv, TypeOK, RowInv,
           SaysInv, KeyInv
  <1> QED BY <1>1, <1>2, <1>3, <1>4, <1>5 DEF Next

(* Every variable of the outbox stays in its type; an event never takes    *)
(* the status of a delivery, nor a delivery that of an event, and only     *)
(* rows in flight grow old.                                                *)
THEOREM OutboxTypeCorrect == Spec => []TypeOK
  <1>1. OutboxInv => TypeOK
    BY DEF OutboxInv
  <1> QED BY <1>1, InitInv, NextInv, PTL DEF Spec

(* No delivery row is posted twice, whatever batches of the dispatcher and *)
(* the worker overlap, however slow a worker is, and whether or not        *)
(* statements fail, transactions roll back or the process dies on the way. *)
THEOREM PostedOnce == Spec => []AtMostOnce
  <1>1. OutboxInv => AtMostOnce
    BY DEF OutboxInv, RowInv, AtMostOnce
  <1> QED BY <1>1, InitInv, NextInv, PTL DEF Spec
=============================================================================
