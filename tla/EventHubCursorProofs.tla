------------------------ MODULE EventHubCursorProofs ------------------------
(***************************************************************************)
(* TLAPS proof that the polling cursor of EventHub loses no event where    *)
(* the database admits one writer at a time.  The argument: timestamps are *)
(* then committed in order, so an event that a fetch does not see is       *)
(* younger than all it saw, and the version that comes with it differs     *)
(* from the one the pass will store.                                       *)
(***************************************************************************)
EXTENDS EventHubProofs

-----------------------------------------------------------------------------
(* The inductive invariant of the cursor.                                   *)

Delivering(r) == pc[r] \in {"deliver", "update"}

(* The tables: nothing is stamped in the future, the one open transaction  *)
(* is younger than what is stored, and versions are handed out once.       *)
TableInv ==
    /\ \A e \in events : 0 < e.ts /\ e.ts <= now
    /\ \A t \in txs : /\ 0 < t.ev.ts /\ t.ev.ts <= now
                     /\ \A u \in txs : t = u
                     /\ \A e \in events : e.ts <= t.ev.ts
    /\ \A g \in Gateways : version[g] <= stamp

(* The events at time L have expired and none can appear there any more.   *)
Expired(g, L) ==
    /\ now > L
    /\ \A e \in EventsOf(g) : e.ts > L
    /\ \A t \in txs : t.ev.ts > L

(* At a cursor position L there is a delivered event, unless L expired.    *)
AtCursor(r, g, L) ==
    \/ \E f \in EventsOf(g) : f \in Passed(r) /\ f.ts = L
    \/ Expired(g, L)

(* CursorSound and CaughtUpSound for one gateway of one replica.           *)
NoneOvertaken(r, g) ==
    \A e \in EventsOf(g) :
        e.ts >= floor[r][g] /\ e.ts < lastPolled[r][g] => e \in Passed(r)
NoneForgotten(r, g) ==
    known[r][g] = version[g] /\ version[g] # 0
        => \A e \in EventsOf(g) : e.ts >= floor[r][g] => e \in Passed(r)

(* A gateway whose cursor is unset has empty channels, so that its first   *)
(* delivery cannot be blocked before anything is delivered.                *)
FirstDelivery(r, g) ==
    \/ lastPolled[r][g] > 0
    \/ Delivering(r) /\ cur[r] = g /\ last[r] > 0
    \/ \A c \in subs[r][g] : buf[c] = <<>>

GatewayInv(r, g) ==
    /\ lastPolled[r][g] <= now
    /\ floor[r][g] + Skew <= now
    /\ known[r][g] <= stamp
    /\ \A t \in txs : lastPolled[r][g] <= t.ev.ts
    /\ lastPolled[r][g] > 0 => AtCursor(r, g, lastPolled[r][g])
    /\ FirstDelivery(r, g)
    /\ NoneOvertaken(r, g)
    /\ NoneForgotten(r, g)

(* A pass that has fetched covers all that is stored: an event is          *)
(* delivered, in the batch, or was committed after the version of the pass *)
(* was read; after a blocked delivery, it may also be left for later.      *)
Covered(r, e) ==
    \/ e \in Passed(r)
    \/ e \in batch[r]
    \/ /\ e.ts >= last[r]
       /\ \A b \in batch[r] : b.ts <= e.ts
       /\ \/ version[cur[r]] # ver[r]
          \/ pc[r] = "update" /\ blocked[r]

(* The locals of a pass, by the place it has reached.                      *)
PassInv(r) ==
    /\ \A q \in page[r] : q[2] <= stamp
    /\ ver[r] <= stamp
    /\ last[r] <= now
    /\ \A t \in txs : last[r] <= t.ev.ts
    /\ \A b \in batch[r] : /\ b.gw = cur[r]
                           /\ last[r] <= b.ts /\ 0 < b.ts /\ b.ts <= now
                           /\ \A t \in txs : b.ts <= t.ev.ts
                           /\ b \in events \/ Expired(cur[r], b.ts)
    /\ ~Delivering(r) => last[r] = 0
    /\ pc[r] # "deliver" => batch[r] = {}
    /\ pc[r] = "fetch" => bound[r] = lastPolled[r][cur[r]]
    /\ Delivering(r) =>
         /\ lastPolled[r][cur[r]] > 0 => bound[r] = lastPolled[r][cur[r]]
         /\ last[r] > 0 => AtCursor(r, cur[r], last[r])
         /\ \A e \in EventsOf(cur[r]) :
              e.ts >= floor[r][cur[r]] => Covered(r, e)
    /\ pc[r] = "update" /\ blocked[r] /\ last[r] = 0 =>
         lastPolled[r][cur[r]] > 0

CursorInv ==
    /\ TableInv
    /\ \A r \in Replicas, g \in Gateways : GatewayInv(r, g)
    /\ \A r \in Replicas : PassInv(r)

-----------------------------------------------------------------------------
(* Steps that leave the tables alone, but may lose the open transaction.    *)

TablesSame ==
    UNCHANGED <<now, events, version, stamp>> /\ txs' \subseteq txs

(* What a replica that takes no step keeps.                                *)
ReplicaSame(s) ==
    /\ lastPolled'[s] = lastPolled[s] /\ floor'[s] = floor[s]
    /\ offered'[s] = offered[s] /\ missed'[s] = missed[s]
    /\ pc'[s] = pc[s] /\ page'[s] = page[s] /\ cur'[s] = cur[s]
    /\ ver'[s] = ver[s] /\ bound'[s] = bound[s] /\ batch'[s] = batch[s]
    /\ last'[s] = last[s] /\ blocked'[s] = blocked[s]

(* A step of another process, or one that only resets a known version,     *)
(* drops a channel or adds or drains one, keeps the invariant of a replica. *)
LEMMA Elsewhere ==
  ASSUME TypeOK, TypeOK', NEW s \in Replicas, TablesSame, ReplicaSame(s),
         \A g \in Gateways : known'[s][g] \in {known[s][g], 0},
         \A g \in Gateways : FirstDelivery(s, g) => FirstDelivery(s, g)',
         \A g \in Gateways : GatewayInv(s, g), PassInv(s)
  PROVE  (\A g \in Gateways : GatewayInv(s, g)') /\ PassInv(s)'
<1> USE DEF TablesSame, ReplicaSame
<1>1. Passed(s)' = Passed(s)
  BY DEF Passed
<1>2. ASSUME NEW g \in Gateways
      PROVE  GatewayInv(s, g)'
  <2>1. EventsOf(g)' = EventsOf(g)
    BY DEF EventsOf
  <2>2. GatewayInv(s, g)
    OBVIOUS
  <2>3. \A L : AtCursor(s, g, L) => AtCursor(s, g, L)'
    BY <1>1, <2>1 DEF AtCursor, Expired
  <2>4. NoneOvertaken(s, g)'
    BY <1>1, <2>1, <2>2 DEF GatewayInv, NoneOvertaken
  <2>5. NoneForgotten(s, g)'
    BY <1>1, <2>1, <2>2 DEF GatewayInv, NoneForgotten
  <2>6. known'[s][g] <= stamp'
    <3>1. known[s][g] <= stamp /\ stamp \in Nat
      BY <2>2 DEF GatewayInv, TypeOK
    <3>2. known'[s][g] = known[s][g] \/ known'[s][g] = 0
      OBVIOUS
    <3>3. QED
      BY <3>1, <3>2
  <2>7. QED
    BY <2>2, <2>3, <2>4, <2>5, <2>6 DEF GatewayInv
<1>3. PassInv(s)'
  <2>1. \A g : EventsOf(g)' = EventsOf(g)
    BY DEF EventsOf
  <2>2. \A e : Covered(s, e)' <=> Covered(s, e)
    BY <1>1 DEF Covered
  <2>3. \A g, L : /\ AtCursor(s, g, L) => AtCursor(s, g, L)'
                  /\ Expired(g, L) => Expired(g, L)'
    BY <1>1, <2>1 DEF AtCursor, Expired
  <2>4. EventsOf(cur[s])' = EventsOf(cur[s])
    BY <2>1
  <2>5. QED
    BY <2>2, <2>3, <2>4 DEF PassInv, Delivering
<1>4. QED
  BY <1>2, <1>3

(* A pass that has not fetched yet walks on: it holds no events, and a     *)
(* gateway it is about to fetch is read together with its cursor.          *)
LEMMA Walk ==
  ASSUME TypeOK, TypeOK', NEW r \in Replicas, TablesSame, ~Delivering(r),
         lastPolled' = lastPolled, floor' = floor, known' = known,
         subs' = subs, buf' = buf, offered' = offered, missed' = missed,
         ~Delivering(r)', last'[r] = 0, batch'[r] = {}, ver'[r] <= stamp,
         \A q \in page'[r] : q[2] <= stamp,
         pc'[r] = "fetch" => bound'[r] = lastPolled[r][cur'[r]],
         \A g \in Gateways : GatewayInv(r, g), PassInv(r)
  PROVE  (\A g \in Gateways : GatewayInv(r, g)') /\ PassInv(r)'
<1> USE DEF TablesSame
<1>1. Passed(r)' = Passed(r)
  BY DEF Passed
<1>2. ASSUME NEW g \in Gateways
      PROVE  GatewayInv(r, g)'
  <2>1. EventsOf(g)' = EventsOf(g)
    BY DEF EventsOf
  <2>2. GatewayInv(r, g)
    OBVIOUS
  <2>3. \A L : AtCursor(r, g, L) => AtCursor(r, g, L)'
    BY <1>1, <2>1 DEF AtCursor, Expired
  <2>4. NoneOvertaken(r, g)' /\ NoneForgotten(r, g)'
    BY <1>1, <2>1, <2>2 DEF GatewayInv, NoneOvertaken, NoneForgotten
  <2>5. FirstDelivery(r, g)'
    BY <2>2 DEF GatewayInv, FirstDelivery
  <2>6. QED
    BY <2>2, <2>3, <2>4, <2>5 DEF GatewayInv
<1>3. PassInv(r)'
  <2>1. \A t \in txs : t.ev.ts \in Nat
    BY DEF TypeOK, Tx, Event
  <2>2. pc'[r] # "deliver" /\ pc'[r] # "update"
    BY DEF Delivering
  <2>3. QED
    BY <2>1, <2>2 DEF PassInv, TypeOK
<1>4. QED
  BY <1>2, <1>3

-----------------------------------------------------------------------------
(* Steps on the tables.                                                     *)

ReplicasSame ==
    UNCHANGED <<lastPolled, floor, known, subs, buf, offered, missed, pc,
                page, cur, ver, bound, batch, last, blocked>>

(* What a step on the tables must ensure: time and versions only grow, a   *)
(* new event comes from the open transaction together with a fresh         *)
(* version, a new transaction is stamped now, and positions stay covered.  *)
TableStep ==
    /\ now' >= now /\ stamp' >= stamp
    /\ \A g \in Gateways : version'[g] = version[g] \/ version'[g] > stamp
    /\ \A e \in events' : \/ e \in events
                          \/ /\ \E t \in txs : t.ev = e
                             /\ version'[e.gw] > stamp
    /\ \A t \in txs' : t \in txs \/ t.ev.ts = now
    /\ \A r \in Replicas, g \in Gateways, L \in Nat :
         AtCursor(r, g, L) => AtCursor(r, g, L)'
    /\ \A g \in Gateways, L \in Nat : Expired(g, L) => Expired(g, L)'
    /\ \A e \in events : e \in events' \/ Expired(e.gw, e.ts)'

(* The facts about the types of events that the proofs below use.          *)
LEMMA Times ==
  ASSUME TypeOK
  PROVE  /\ \A e \in events : e.ts \in Nat /\ e.gw \in Gateways
         /\ \A t \in txs : t.ev.ts \in Nat /\ t.ev.gw \in Gateways
         /\ \A r \in Replicas : \A b \in batch[r] :
              b.ts \in Nat /\ b.gw \in Gateways
  BY DEF TypeOK, PassTypeOK, Tx, Event

(* Such a step keeps the invariant of every cursor and every pass.         *)
LEMMA TableSteps ==
  ASSUME TypeOK, TypeOK', CursorInv, TableInv', ReplicasSame, TableStep
  PROVE  CursorInv'
<1> USE DEF ReplicasSame
<1>1. \A r \in Replicas : Passed(r)' = Passed(r)
  BY DEF Passed
<1>2. ASSUME NEW r \in Replicas, NEW g \in Gateways
      PROVE  GatewayInv(r, g)'
  <2>1. /\ GatewayInv(r, g) /\ lastPolled[r][g] \in Nat
        /\ floor[r][g] \in Nat /\ known[r][g] \in Nat
        /\ now \in Nat /\ now' \in Nat /\ stamp \in Nat /\ stamp' \in Nat
        /\ version[g] \in Nat /\ version'[g] \in Nat
        /\ version[g] <= stamp
    BY DEF CursorInv, TypeOK, TableInv
  <2>2. /\ lastPolled'[r][g] <= now' /\ floor'[r][g] + Skew <= now'
        /\ known'[r][g] <= stamp'
    BY <2>1, HubAssumption DEF TableStep, GatewayInv
  <2>3. \A t \in txs' : lastPolled'[r][g] <= t.ev.ts
    BY <2>1 DEF TableStep, GatewayInv
  <2>4. lastPolled'[r][g] > 0 => AtCursor(r, g, lastPolled[r][g])'
    BY <2>1 DEF TableStep, GatewayInv
  <2>5. FirstDelivery(r, g)'
    BY <2>1 DEF GatewayInv, FirstDelivery, Delivering
  <2>6. ASSUME NEW e \in EventsOf(g)', e.ts >= floor[r][g],
               e.ts < lastPolled[r][g]
        PROVE  e \in Passed(r)
    <3>1. e \in events
      BY <2>1, <2>6, Times DEF EventsOf, TableStep, GatewayInv
    <3>2. QED
      BY <2>1, <2>6, <3>1 DEF EventsOf, GatewayInv, NoneOvertaken
  <2>7. ASSUME NEW e \in EventsOf(g)', e.ts >= floor[r][g],
               known[r][g] = version'[g], version'[g] # 0
        PROVE  e \in Passed(r)
    <3>1. version'[g] = version[g]
      BY <2>1, <2>7 DEF TableStep, GatewayInv
    <3>2. e \in events
      BY <2>1, <3>1 DEF TableStep, EventsOf
    <3>3. QED
      BY <2>1, <2>7, <3>1, <3>2 DEF EventsOf, GatewayInv, NoneForgotten
  <2>8. NoneOvertaken(r, g)' /\ NoneForgotten(r, g)'
    BY <1>1, <2>6, <2>7 DEF NoneOvertaken, NoneForgotten
  <2>9. QED
    BY <2>2, <2>3, <2>4, <2>5, <2>8 DEF GatewayInv
<1>3. ASSUME NEW r \in Replicas
      PROVE  PassInv(r)'
  <2>1. /\ PassInv(r) /\ last[r] \in Nat /\ ver[r] \in Nat
        /\ now \in Nat /\ now' \in Nat /\ stamp \in Nat /\ stamp' \in Nat
        /\ \A b \in batch[r] : b.ts \in Nat
        /\ \A q \in page[r] : q[2] \in Nat
    <3>1. page[r] \in SUBSET (Gateways \X Nat)
      BY DEF TypeOK, PassTypeOK
    <3>2. \A q \in page[r] : q[2] \in Nat
      BY <3>1
    <3>3. QED
      BY <3>2, Times DEF CursorInv, TypeOK, PassTypeOK
  <2>2. /\ \A q \in page'[r] : q[2] <= stamp'
        /\ ver'[r] <= stamp' /\ last'[r] <= now'
    BY <2>1 DEF PassInv, TableStep
  <2>3. \A t \in txs' : last'[r] <= t.ev.ts
    BY <2>1 DEF PassInv, TableStep
  <2>4. \A b \in batch'[r] : /\ b.gw = cur'[r]
                            /\ last'[r] <= b.ts /\ 0 < b.ts /\ b.ts <= now'
                            /\ \A t \in txs' : b.ts <= t.ev.ts
    BY <2>1 DEF PassInv, TableStep
  <2>5. ASSUME NEW b \in batch[r]
        PROVE  b \in events' \/ Expired(cur[r], b.ts)'
    <3>1. b.gw = cur[r] /\ b.gw \in Gateways /\ b.ts \in Nat
      BY <2>1, Times DEF PassInv
    <3>2. QED
      BY <2>1, <3>1 DEF PassInv, TableStep
  <2>6. ASSUME Delivering(r)
        PROVE  /\ cur[r] \in Gateways
               /\ last[r] > 0 => AtCursor(r, cur[r], last[r])'
    BY <2>1, <2>6
       DEF PassInv, TableStep, TypeOK, PassTypeOK, Delivering
  <2>7. ASSUME Delivering(r), NEW e \in EventsOf(cur[r])',
               e.ts >= floor[r][cur[r]]
        PROVE  Covered(r, e)'
    <3>1. cur[r] \in Gateways
      BY <2>6, <2>7
    <3>2. CASE e \in events
      <4>1. Covered(r, e)
        BY <2>1, <2>7, <3>2 DEF PassInv, EventsOf
      <4>2. version[cur[r]] # ver[r] => version'[cur[r]] # ver'[r]
        BY <2>1, <3>1 DEF PassInv, TableStep, TypeOK
      <4>3. QED
        BY <1>1, <4>1, <4>2 DEF Covered
    <3>3. CASE e \notin events
      <4>1. PICK t \in txs : t.ev = e
        BY <2>7, <3>3 DEF TableStep, EventsOf
      <4>2. version'[cur[r]] > stamp
        BY <2>7, <3>3 DEF TableStep, EventsOf
      <4>3. version'[cur[r]] # ver'[r]
        BY <2>1, <3>1, <4>2 DEF PassInv, TypeOK
      <4>4. e.ts \in Nat
        BY <4>1, Times
      <4>5. e.ts >= last'[r] /\ \A b \in batch'[r] : b.ts <= e.ts
        BY <2>1, <4>1, <4>4 DEF PassInv
      <4>6. QED
        BY <4>3, <4>5 DEF Covered
    <3>4. QED
      BY <3>2, <3>3
  <2>8. Delivering(r)' <=> Delivering(r)
    BY DEF Delivering
  <2>9. QED
    BY <2>1, <2>2, <2>3, <2>4, <2>6, <2>7, <2>8, <2>5 DEF PassInv
<1>4. QED
  BY <1>2, <1>3 DEF CursorInv

(* The clock, a publish transaction in its three ends, and the cleanup are *)
(* such steps where there is one writer.                                   *)
LEMMA TablesKeep ==
  ASSUME TypeOK, TypeOK', CursorInv, SerialWriters,
         Tick \/ PublishStep \/ \E r \in Replicas : Cleanup(r)
  PROVE  CursorInv'
<1> USE DEF dbVars, regVars, chanVars, walkVars, workVars, passVars, history
<1>1. /\ TableInv /\ now \in Nat /\ stamp \in Nat /\ Retention \in Nat
      /\ \A g \in Gateways : version[g] \in Nat
  BY HubAssumption DEF CursorInv, TypeOK
<1>2. CASE Tick
  <2>1. ReplicasSame /\ TableInv'
    BY <1>1, <1>2, Times DEF Tick, ReplicasSame, TableInv
  <2>2. TableStep
    BY <1>1, <1>2 DEF Tick, TableStep, AtCursor, Expired, EventsOf, Passed
  <2>3. QED
    BY <2>1, <2>2, TableSteps
<1>3. ASSUME NEW r \in Replicas, NEW g \in Gateways, NEW id \in EventIds,
             PublishInsert(r, g, id)
      PROVE  CursorInv'
  <2>1. txs' = {[rep |-> r, ev |-> [gw |-> g, id |-> id, ts |-> now]]}
    BY <1>3 DEF PublishInsert, WriterFree
  <2>2. now > 0
    BY HubAssumption DEF TypeOK
  <2>3. ReplicasSame /\ UNCHANGED <<now, events, version, stamp>>
    BY <1>3 DEF PublishInsert, ReplicasSame
  <2>4. TableInv'
    BY <1>1, <2>1, <2>2, <2>3 DEF TableInv
  <2>5. TableStep
    BY <1>1, <2>1, <2>3 DEF TableStep, AtCursor, Expired, EventsOf, Passed, ReplicasSame
  <2>6. QED
    BY <2>3, <2>4, <2>5, TableSteps
<1>4. ASSUME NEW t \in txs, PublishCommit(t)
      PROVE  CursorInv'
  <2>1. /\ txs' = {} /\ events' = events \cup {t.ev} /\ stamp' = stamp + 1
        /\ version' = [version EXCEPT ![t.ev.gw] = stamp + 1] /\ now' = now
    BY <1>1, <1>4 DEF PublishCommit, TableInv
  <2>2. ReplicasSame
    BY <1>4 DEF PublishCommit, ReplicasSame
  <2>3. t.ev.gw \in Gateways /\ t.ev.ts \in Nat
    BY Times
  <2>4. \A g \in Gateways :
          version'[g] = IF g = t.ev.gw THEN stamp + 1 ELSE version[g]
    BY <2>1 DEF TypeOK
  <2>5. TableInv'
    BY <1>1, <2>1, <2>3, <2>4, Times DEF TableInv
  <2>6. ASSUME NEW r \in Replicas, NEW g \in Gateways, NEW L \in Nat,
               AtCursor(r, g, L)
        PROVE  AtCursor(r, g, L)'
    BY <2>1, <2>2, <2>3, <2>6
       DEF AtCursor, Expired, EventsOf, Passed, ReplicasSame
  <2>7. \A g \in Gateways, L \in Nat : Expired(g, L) => Expired(g, L)'
    BY <2>1 DEF Expired, EventsOf
  <2>8. TableStep
    BY <1>1, <2>1, <2>3, <2>4, <2>6, <2>7 DEF TableStep
  <2>9. QED
    BY <2>2, <2>5, <2>8, TableSteps
<1>5. ASSUME NEW t \in txs, PublishRollback(t)
      PROVE  CursorInv'
  <2>1. txs' \subseteq txs /\ ReplicasSame
        /\ UNCHANGED <<now, events, version, stamp>>
    BY <1>5 DEF PublishRollback, ReplicasSame
  <2>2. TableInv'
    BY <1>1, <2>1 DEF TableInv
  <2>3. TableStep
    BY <1>1, <2>1 DEF TableStep, AtCursor, Expired, EventsOf, Passed, ReplicasSame
  <2>4. QED
    BY <2>1, <2>2, <2>3, TableSteps
<1>6. ASSUME NEW r \in Replicas, Cleanup(r)
      PROVE  CursorInv'
  <2>1. /\ events' = {e \in events : e.ts + Retention >= now}
        /\ txs = {} /\ ReplicasSame /\ UNCHANGED <<now, txs, version, stamp>>
    BY <1>6 DEF Cleanup, WriterFree, ReplicasSame
  <2>2. TableInv'
    BY <1>1, <2>1 DEF TableInv
  <2>3. ASSUME NEW s \in Replicas, NEW g \in Gateways, NEW L \in Nat,
               AtCursor(s, g, L)
        PROVE  AtCursor(s, g, L)'
    <3>1. Passed(s)' = Passed(s)
      BY <2>1 DEF Passed, ReplicasSame
    <3>2. CASE L + Retention >= now
      BY <2>1, <2>3, <3>1, <3>2 DEF AtCursor, Expired, EventsOf
    <3>3. CASE L + Retention < now
      BY <1>1, <2>1, <3>3, Times DEF AtCursor, Expired, EventsOf
    <3>4. QED
      BY <1>1, <3>2, <3>3
  <2>4. \A g \in Gateways, L \in Nat : Expired(g, L) => Expired(g, L)'
    BY <2>1 DEF Expired, EventsOf
  <2>5. \A e \in events : e \in events' \/ Expired(e.gw, e.ts)'
    BY <1>1, <2>1, Times DEF Expired, EventsOf
  <2>6. TableStep
    BY <1>1, <2>1, <2>3, <2>4, <2>5 DEF TableStep
  <2>7. QED
    BY <2>1, <2>2, <2>6, TableSteps
<1>7. QED
  BY <1>2, <1>3, <1>4, <1>5, <1>6 DEF PublishStep

-----------------------------------------------------------------------------
(* Steps of a pass.                                                         *)

OthersSame(r) ==
    \A s \in Replicas : s # r =>
        /\ ReplicaSame(s)
        /\ known'[s] = known[s] /\ subs'[s] = subs[s]
        /\ \A g \in Gateways : \A c \in subs[s][g] : buf'[c] = buf[c]

(* A step of one replica needs to be checked for that replica only.        *)
LEMMA OneReplica ==
  ASSUME TypeOK, TypeOK', CursorInv, NEW r \in Replicas, TablesSame,
         OthersSame(r),
         \A g \in Gateways : GatewayInv(r, g)', PassInv(r)'
  PROVE  CursorInv'
<1>1. ASSUME NEW s \in Replicas, s # r
      PROVE  (\A g \in Gateways : GatewayInv(s, g)') /\ PassInv(s)'
  <2>1. ReplicaSame(s)
    BY <1>1 DEF OthersSame
  <2>2. \A g \in Gateways : known'[s][g] \in {known[s][g], 0}
    BY <1>1 DEF OthersSame
  <2>3. \A g \in Gateways : FirstDelivery(s, g) => FirstDelivery(s, g)'
    BY <1>1 DEF OthersSame, ReplicaSame, FirstDelivery, Delivering
  <2>4. (\A g \in Gateways : GatewayInv(s, g)) /\ PassInv(s)
    BY DEF CursorInv
  <2>5. QED
    BY <2>1, <2>2, <2>3, <2>4, Elsewhere
<1>2. TableInv'
  BY DEF CursorInv, TableInv, TablesSame
<1>3. QED
  BY <1>1, <1>2 DEF CursorInv

(* What a step of a pass that reads no events does.                        *)
WalksOn(r) ==
    /\ OthersSame(r) /\ ~Delivering(r)'
    /\ last'[r] = 0 /\ batch'[r] = {} /\ ver'[r] <= stamp
    /\ \A q \in page'[r] : q[2] <= stamp
    /\ pc'[r] = "fetch" => bound'[r] = lastPolled[r][cur'[r]]

(* The steps of a pass that read no events.                                *)
LEMMA WalkKeeps ==
  ASSUME TypeOK, TypeOK', CursorInv, NEW r \in Replicas,
         PollStart(r) \/ PollPage(r) \/ PollPageError(r) \/ PollGateway(r)
           \/ PollFetchError(r)
  PROVE  CursorInv'
<1> USE DEF dbVars, regVars, chanVars, walkVars, workVars, passVars, history
<1>1. /\ TablesSame /\ UNCHANGED <<lastPolled, floor, known, subs, buf,
                                   offered, missed>>
  BY DEF PollStart, PollPage, PollPageError, PollGateway, PollFetchError,
         TablesSame
<1>2. PassInv(r) /\ (\A g \in Gateways : GatewayInv(r, g)) /\ TableInv
  BY DEF CursorInv
<1>3. ~Delivering(r) /\ last[r] = 0 /\ batch[r] = {}
  BY <1>2 DEF PollStart, PollPage, PollPageError, PollGateway,
              PollFetchError, Delivering, PassInv
<1>4. stamp \in Nat /\ page[r] \in SUBSET (Gateways \X Nat)
  BY DEF TypeOK, PassTypeOK
<1>5. ASSUME EndPass(r) PROVE WalksOn(r)
  BY <1>1, <1>4, <1>5
     DEF WalksOn, EndPass, DropWork, OthersSame, ReplicaSame, Delivering, TypeOK,
         PassTypeOK
<1>6. ASSUME NEW rest \in SUBSET page[r], Continue(r, rest) PROVE WalksOn(r)
  <2>1. CASE EndPass(r)
    BY <1>5, <2>1
  <2>2. CASE ~EndPass(r)
    <3>1. /\ pc' = [pc EXCEPT ![r] = IF rest = {} THEN "page" ELSE "gateway"]
          /\ page' = [page EXCEPT ![r] = rest] /\ DropWork(r)
      BY <1>6, <2>2 DEF Continue
    <3>2. page'[r] = rest /\ \A q \in rest : q[2] <= stamp
      BY <1>2, <3>1 DEF TypeOK, PassTypeOK, PassInv
    <3>3. pc'[r] \in {"page", "gateway"}
      BY <3>1 DEF TypeOK, PassTypeOK
    <3>4. OthersSame(r) /\ last'[r] = 0 /\ batch'[r] = {} /\ ver'[r] = 0
      BY <1>1, <3>1
         DEF DropWork, OthersSame, ReplicaSame, TypeOK, PassTypeOK
    <3>5. QED
      BY <1>4, <3>2, <3>3, <3>4 DEF WalksOn, Delivering
  <2>3. QED
    BY <2>1, <2>2
<1>7. WalksOn(r)
  <2>1. CASE PollStart(r)
    BY <1>1, <1>2, <1>3, <2>1
       DEF WalksOn, PollStart, OthersSame, ReplicaSame, Delivering, TypeOK, PassTypeOK,
           PassInv
  <2>2. CASE PollPage(r) /\ ~EndPass(r)
    <3> DEFINE gs == PageGateways(cursor[r])
    <3>1. /\ pc' = [pc EXCEPT ![r] = "gateway"]
          /\ page' = [page EXCEPT ![r] = {<<g, version[g]>> : g \in gs}]
          /\ UNCHANGED workVars
      BY <2>2 DEF PollPage
    <3>2. gs \subseteq Gateways
      BY DEF PageGateways, After, TypeOK
    <3> HIDE DEF gs
    <3>3. \A g \in gs : version[g] <= stamp
      BY <1>2, <3>2 DEF TableInv
    <3>4. \A q \in page'[r] : q[2] <= stamp
      BY <3>1, <3>3 DEF TypeOK, PassTypeOK
    <3>5. QED
      BY <1>1, <1>2, <1>3, <3>1, <3>4
         DEF WalksOn, OthersSame, ReplicaSame, Delivering, TypeOK, PassTypeOK,
             PassInv
  <2>3. CASE PollPageError(r) \/ (PollPage(r) /\ EndPass(r))
    BY <1>5, <2>3 DEF PollPageError
  <2>4. CASE PollFetchError(r)
    BY <1>6, <2>4 DEF PollFetchError
  <2>5. CASE PollGateway(r)
    <3>1. PICK row \in page[r] :
             \/ /\ pc' = [pc EXCEPT ![r] = "fetch"]
                /\ page' = [page EXCEPT ![r] = page[r] \ {row}]
                /\ cur' = [cur EXCEPT ![r] = row[1]]
                /\ ver' = [ver EXCEPT ![r] = row[2]]
                /\ bound' = [bound EXCEPT ![r] = lastPolled[r][row[1]]]
                /\ UNCHANGED <<batch, last, blocked>>
             \/ Continue(r, page[r] \ {row})
      BY <2>5 DEF PollGateway
    <3>2. CASE Continue(r, page[r] \ {row})
      BY <1>6, <3>2
    <3>3. CASE ~Continue(r, page[r] \ {row})
      <4>1. /\ pc' = [pc EXCEPT ![r] = "fetch"]
            /\ page' = [page EXCEPT ![r] = page[r] \ {row}]
            /\ cur' = [cur EXCEPT ![r] = row[1]]
            /\ ver' = [ver EXCEPT ![r] = row[2]]
            /\ bound' = [bound EXCEPT ![r] = lastPolled[r][row[1]]]
            /\ UNCHANGED <<batch, last, blocked>>
        BY <3>1, <3>3
      <4>2. row[2] <= stamp
        BY <1>2 DEF PassInv
      <4>3. OthersSame(r)
        BY <1>1, <4>1 DEF OthersSame, ReplicaSame, TypeOK, PassTypeOK
      <4>4. /\ cur'[r] = row[1] /\ bound'[r] = lastPolled[r][row[1]]
            /\ ver'[r] = row[2] /\ pc'[r] = "fetch"
        BY <4>1 DEF TypeOK, PassTypeOK
      <4>5. \A q \in page'[r] : q[2] <= stamp
        BY <1>2, <4>1 DEF TypeOK, PassTypeOK, PassInv
      <4>6. QED
        BY <1>3, <4>1, <4>2, <4>3, <4>4, <4>5 DEF WalksOn, Delivering
    <3>4. QED
      BY <3>2, <3>3
  <2>6. QED
    BY <2>1, <2>2, <2>3, <2>4, <2>5
<1>8. (\A g \in Gateways : GatewayInv(r, g)') /\ PassInv(r)'
  BY <1>1, <1>2, <1>3, <1>7, Walk DEF WalksOn
<1>9. QED
  BY <1>1, <1>7, <1>8, OneReplica DEF WalksOn

(* The fetch: what the batch leaves out is delivered already.              *)
LEMMA FetchKeeps ==
  ASSUME TypeOK, TypeOK', CursorInv, NEW r \in Replicas, PollFetch(r)
  PROVE  CursorInv'
<1> USE DEF dbVars, regVars, chanVars, walkVars, workVars, passVars, history
<1> DEFINE g == cur[r]
           from == FetchFrom(r)
           evs == {e \in EventsOf(g) : e.ts >= from}
<1>1. /\ TablesSame /\ UNCHANGED <<lastPolled, known, subs, buf, offered,
                                   missed, cur, ver, last, blocked, page>>
      /\ OthersSame(r)
  BY DEF PollFetch, TablesSame, OthersSame, ReplicaSame, TypeOK, PassTypeOK
<1>2. /\ g \in Gateways /\ bound[r] \in Nat /\ now \in Nat /\ Skew \in Nat
      /\ now > Skew /\ stamp \in Nat /\ floor[r][g] \in Nat
      /\ lastPolled[r][g] \in Nat
  <2>1. Skew \in Nat
    BY HubAssumption
  <2>2. g \in Gateways
    BY DEF PollFetch, TypeOK, PassTypeOK
  <2>3. QED
    BY <2>1, <2>2 DEF TypeOK, PassTypeOK
<1>3. /\ PassInv(r) /\ (\A h \in Gateways : GatewayInv(r, h)) /\ TableInv
      /\ bound[r] = lastPolled[r][g] /\ last[r] = 0 /\ ~Delivering(r)
  BY DEF CursorInv, PollFetch, PassInv, Delivering
<1>4. from \in Nat /\ (bound[r] > 0 => from = bound[r])
      /\ (bound[r] = 0 => from = now - Skew)
  BY <1>2 DEF FetchFrom
<1>5. /\ pc'[r] = "deliver" /\ bound'[r] = from
      /\ batch'[r] = TrimSingleBoundaryReplay(evs, from, bound[r] > 0)
      /\ floor'[r][g] = (IF bound[r] > 0 THEN floor[r][g] ELSE from)
      /\ \A h \in Gateways : h # g => floor'[r][h] = floor[r][h]
  BY <1>2 DEF PollFetch, TypeOK, PassTypeOK
<1>6. Passed(r)' = Passed(r)
  BY <1>1 DEF Passed
<1>7. \A h : EventsOf(h)' = EventsOf(h)
  BY <1>1 DEF EventsOf, TablesSame
<1>8. \A h, L : /\ AtCursor(r, h, L) => AtCursor(r, h, L)'
                /\ Expired(h, L) => Expired(h, L)'
  BY <1>1, <1>6, <1>7 DEF AtCursor, Expired, TablesSame
<1>9. \A e \in events : e.ts \in Nat /\ e.ts <= now /\ 0 < e.ts
  BY <1>3, Times DEF TableInv
<1> HIDE DEF g, from, evs
<1>10. floor[r][g] <= floor'[r][g] /\ floor'[r][g] + Skew <= now
  BY <1>2, <1>3, <1>4, <1>5 DEF GatewayInv
<1>11. ASSUME NEW h \in Gateways
       PROVE  GatewayInv(r, h)'
  <2>1. GatewayInv(r, h)
    BY <1>3
  <2>2. /\ floor[r][h] <= floor'[r][h] /\ floor'[r][h] + Skew <= now
        /\ floor'[r][h] \in Nat /\ floor[r][h] \in Nat
    <3>1. floor[r][h] \in Nat /\ floor'[r][h] \in Nat
      BY DEF TypeOK
    <3>2. CASE h = g
      BY <1>10, <3>1, <3>2
    <3>3. CASE h # g
      BY <1>5, <2>1, <3>1, <3>3 DEF GatewayInv
    <3>4. QED
      BY <3>1, <3>2, <3>3
  <2>3. FirstDelivery(r, h)'
    BY <1>1, <1>3, <2>1 DEF GatewayInv, FirstDelivery
  <2>4. ASSUME NEW e \in EventsOf(h), e.ts >= floor'[r][h]
        PROVE  e.ts >= floor[r][h]
    BY <1>9, <2>2, <2>4 DEF EventsOf
  <2>5. NoneOvertaken(r, h)' /\ NoneForgotten(r, h)'
    BY <1>1, <1>6, <1>7, <2>1, <2>4
       DEF GatewayInv, NoneOvertaken, NoneForgotten, TablesSame
  <2>6. QED
    BY <1>1, <1>8, <2>1, <2>2, <2>3, <2>5 DEF GatewayInv, TablesSame
<1>12. ASSUME NEW e \in EventsOf(g), e.ts >= floor'[r][g]
       PROVE  e \in Passed(r) \/ e \in batch'[r]
  <2>1. e.ts \in Nat /\ e \in events
    BY <1>9 DEF EventsOf
  <2>2. GatewayInv(r, g)
    BY <1>2, <1>3
  <2>3. CASE bound[r] = 0
    BY <1>4, <1>5, <1>12, <2>3 DEF TrimSingleBoundaryReplay, evs
  <2>4. CASE bound[r] > 0 /\ e.ts < bound[r]
    BY <1>3, <1>5, <1>12, <2>2, <2>4 DEF GatewayInv, NoneOvertaken
  <2>5. CASE bound[r] > 0 /\ e.ts >= bound[r] /\ e \notin batch'[r]
    <3>1. e \in evs /\ e.ts = from
      BY <1>4, <1>5, <2>5 DEF TrimSingleBoundaryReplay, evs
    <3>2. \A f \in evs : f.ts = from => f = e
      BY <1>5, <2>5, <3>1 DEF TrimSingleBoundaryReplay
    <3>3. PICK f \in EventsOf(g) : f \in Passed(r) /\ f.ts = from
      BY <1>3, <1>4, <2>2, <2>5, <3>1, <2>1
         DEF GatewayInv, AtCursor, Expired
    <3>4. f \in evs
      BY <1>4, <3>3 DEF evs
    <3>5. QED
      BY <3>2, <3>3, <3>4
  <2>6. QED
    BY <1>2, <2>1, <2>3, <2>4, <2>5
<1>13. batch'[r] \subseteq EventsOf(g)
  BY <1>5 DEF TrimSingleBoundaryReplay, evs
<1>14. PassInv(r)'
  <2>1. \A b \in batch'[r] :
          /\ b.gw = cur'[r] /\ last'[r] <= b.ts /\ 0 < b.ts /\ b.ts <= now'
          /\ \A t \in txs' : b.ts <= t.ev.ts
          /\ b \in events'
    <3>1. \A b \in batch'[r] : b \in events /\ b.gw = cur[r]
      BY <1>13 DEF EventsOf, g
    <3>2. QED
      BY <1>1, <1>3, <1>9, <3>1 DEF TableInv, TablesSame
  <2>2. \A e \in EventsOf(cur[r])' : e.ts >= floor'[r][cur'[r]] =>
          Covered(r, e)'
    BY <1>1, <1>6, <1>7, <1>12 DEF Covered, g
  <2>3. lastPolled'[r][cur'[r]] > 0 => bound'[r] = lastPolled'[r][cur'[r]]
    BY <1>1, <1>3, <1>4, <1>5 DEF g
  <2>4. (\A q \in page'[r] : q[2] <= stamp') /\ ver'[r] <= stamp'
        /\ last'[r] <= now' /\ (\A t \in txs' : last'[r] <= t.ev.ts)
    BY <1>1, <1>3 DEF PassInv, TablesSame
  <2>5. last'[r] = 0
    BY <1>1, <1>3
  <2>6. QED
    BY <1>5, <2>1, <2>2, <2>3, <2>4, <2>5 DEF PassInv, Delivering
<1>15. QED
  BY <1>1, <1>11, <1>14, OneReplica
(* One round of the delivery loop.                                         *)
LEMMA DeliverKeeps ==
  ASSUME TypeOK, TypeOK', CursorInv, SubscribersOpen, NEW r \in Replicas,
         PollDeliver(r)
  PROVE  CursorInv'
<1> USE DEF dbVars, regVars, chanVars, walkVars, workVars, passVars, history
<1> DEFINE g == cur[r]
<1>1. /\ TablesSame /\ UNCHANGED <<lastPolled, known, subs, floor, pc, cur,
                                   ver, bound, blocked, page>>
      /\ pc[r] = "deliver"
  BY DEF PollDeliver, TablesSame
<1>2. g \in Gateways
  BY <1>1 DEF TypeOK, PassTypeOK
<1>3. PICK e \in batch[r] :
        /\ \A f \in batch[r] : e.ts <= f.ts
        /\ buf' = [c \in Channels |->
                     IF c \in subs[r][g] THEN Append(buf[c], e) ELSE buf[c]]
        /\ batch' = [batch EXCEPT ![r] = @ \ {e}]
        /\ last' = [last EXCEPT ![r] = e.ts]
        /\ offered' = [offered EXCEPT ![r] =
                         IF subs[r][g] = {} THEN @ ELSE @ \cup {e}]
        /\ missed' = [missed EXCEPT ![r] =
                        IF subs[r][g] = {} THEN @ \cup {e} ELSE @]
  BY DEF PollDeliver, NextInOrder
<1>4. /\ batch'[r] = batch[r] \ {e} /\ last'[r] = e.ts
      /\ Passed(r)' = Passed(r) \cup {e}
  <2>1. batch'[r] = batch[r] \ {e} /\ last'[r] = e.ts
    BY <1>3 DEF TypeOK, PassTypeOK
  <2>2. /\ offered'[r] = IF subs[r][g] = {} THEN offered[r]
                                           ELSE offered[r] \cup {e}
        /\ missed'[r] = IF subs[r][g] = {} THEN missed[r] \cup {e}
                                          ELSE missed[r]
    BY <1>3 DEF TypeOK
  <2>3. QED
    BY <2>1, <2>2 DEF Passed
<1>5. PassInv(r) /\ (\A h \in Gateways : GatewayInv(r, h))
  BY DEF CursorInv
<1>6. /\ e.gw = g /\ last[r] <= e.ts /\ 0 < e.ts /\ e.ts <= now
      /\ (\A t \in txs : e.ts <= t.ev.ts)
      /\ e \in events \/ Expired(g, e.ts)
      /\ e.ts \in Nat
  BY <1>5, Times DEF PassInv
<1>7. \A s \in Replicas, h \in Gateways : s # r \/ h # g =>
        \A c \in subs[s][h] : buf'[c] = buf[c]
  <2>1. ASSUME NEW s \in Replicas, NEW h \in Gateways, s # r \/ h # g,
               NEW c \in subs[s][h]
        PROVE  buf'[c] = buf[c]
    <3>1. c \in Channels
      BY <2>1 DEF TypeOK
    <3>2. c \notin subs[r][g]
      BY <1>2, <2>1 DEF SubscribersOpen
    <3>3. QED
      BY <1>3, <3>1, <3>2
  <2>2. QED
    BY <2>1
<1>8. OthersSame(r)
  <2>1. \A s \in Replicas : s # r => ReplicaSame(s)
    BY <1>1, <1>3 DEF ReplicaSame, TypeOK, PassTypeOK
  <2>2. QED
    BY <1>1, <1>7, <2>1 DEF OthersSame
<1>9. \A h : EventsOf(h)' = EventsOf(h)
  BY <1>1 DEF EventsOf, TablesSame
<1>10. \A h, L : /\ AtCursor(r, h, L) => AtCursor(r, h, L)'
                 /\ Expired(h, L) => Expired(h, L)'
  BY <1>1, <1>4, <1>9 DEF AtCursor, Expired, TablesSame
<1> HIDE DEF g
<1>11. ASSUME NEW h \in Gateways
       PROVE  GatewayInv(r, h)'
  <2>1. GatewayInv(r, h)
    BY <1>5
  <2>2. FirstDelivery(r, h)'
    <3>1. CASE h = g
      BY <1>1, <1>4, <1>6, <3>1 DEF FirstDelivery, Delivering, g
    <3>2. CASE h # g
      BY <1>1, <1>7, <2>1, <3>2 DEF FirstDelivery, Delivering, GatewayInv, g
    <3>3. QED
      BY <3>1, <3>2
  <2>3. NoneOvertaken(r, h)' /\ NoneForgotten(r, h)'
    BY <1>1, <1>4, <1>9, <2>1
       DEF GatewayInv, NoneOvertaken, NoneForgotten, TablesSame
  <2>4. QED
    BY <1>1, <1>10, <2>1, <2>2, <2>3 DEF GatewayInv, TablesSame
<1>12. PassInv(r)'
  <2>1. \A b \in batch'[r] :
          /\ b.gw = cur'[r] /\ last'[r] <= b.ts /\ 0 < b.ts /\ b.ts <= now'
          /\ \A t \in txs' : b.ts <= t.ev.ts
          /\ b \in events' \/ Expired(cur[r], b.ts)'
    BY <1>1, <1>3, <1>4, <1>5, <1>10 DEF PassInv, TablesSame
  <2>2. AtCursor(r, cur[r], last[r])'
    <3>1. CASE e \in events
      BY <1>1, <1>4, <1>6, <3>1 DEF AtCursor, EventsOf, TablesSame, g
    <3>2. CASE Expired(g, e.ts)
      BY <1>1, <1>4, <3>2 DEF AtCursor, Expired, EventsOf, TablesSame, g
    <3>3. QED
      BY <1>6, <3>1, <3>2
  <2>3. ASSUME NEW f \in EventsOf(cur[r])', f.ts >= floor[r][cur[r]]
        PROVE  Covered(r, f)'
    <3>1. Covered(r, f)
      BY <1>1, <1>5, <1>9, <2>3 DEF PassInv, Delivering
    <3>2. CASE f \in Passed(r) \/ f \in batch[r]
      BY <1>4, <3>2 DEF Covered
    <3>3. CASE ~(f \in Passed(r) \/ f \in batch[r])
      BY <1>1, <1>4, <3>1, <3>3 DEF Covered, TablesSame
    <3>4. QED
      BY <3>2, <3>3
  <2>4. /\ last'[r] <= now' /\ (\A t \in txs' : last'[r] <= t.ev.ts)
        /\ (\A q \in page'[r] : q[2] <= stamp') /\ ver'[r] <= stamp'
    BY <1>1, <1>4, <1>5, <1>6 DEF PassInv, TablesSame
  <2>5. lastPolled'[r][cur'[r]] > 0 => bound'[r] = lastPolled'[r][cur'[r]]
    BY <1>1, <1>5 DEF PassInv, Delivering
  <2>6. QED
    BY <1>1, <2>1, <2>2, <2>3, <2>4, <2>5 DEF PassInv, Delivering
<1>13. QED
  BY <1>1, <1>8, <1>11, <1>12, OneReplica

(* The end of the delivery loop: what it leaves is younger than what it    *)
(* delivered, and it cannot be blocked on a cursor that was never set.     *)
LEMMA EndDeliveryKeeps ==
  ASSUME TypeOK, TypeOK', CursorInv, NEW r \in Replicas, PollEndDelivery(r)
  PROVE  CursorInv'
<1> USE DEF dbVars, regVars, chanVars, walkVars, workVars, passVars, history
<1>1. /\ TablesSame /\ UNCHANGED <<lastPolled, known, subs, buf, floor, cur,
                                   ver, bound, last, page, offered, missed>>
      /\ pc[r] = "deliver" /\ OthersSame(r)
  BY DEF PollEndDelivery, TablesSame, OthersSame, ReplicaSame, TypeOK,
         PassTypeOK
<1>2. /\ cur[r] \in Gateways
      /\ pc'[r] = "update" /\ batch'[r] = {}
      /\ blocked'[r] = (batch[r] # {})
  BY <1>1 DEF PollEndDelivery, TypeOK, PassTypeOK
<1>3. PassInv(r) /\ (\A h \in Gateways : GatewayInv(r, h))
  BY DEF CursorInv
<1>4. Passed(r)' = Passed(r) /\ \A h : EventsOf(h)' = EventsOf(h)
  BY <1>1 DEF EventsOf, TablesSame, Passed
<1>5. \A h, L : AtCursor(r, h, L) => AtCursor(r, h, L)'
  BY <1>1, <1>4 DEF AtCursor, Expired, TablesSame
<1>6. ASSUME NEW h \in Gateways
      PROVE  GatewayInv(r, h)'
  <2>1. GatewayInv(r, h)
    BY <1>3
  <2>2. FirstDelivery(r, h)'
    BY <1>1, <1>2, <2>1 DEF GatewayInv, FirstDelivery, Delivering
  <2>3. NoneOvertaken(r, h)' /\ NoneForgotten(r, h)'
    BY <1>1, <1>4, <2>1
       DEF GatewayInv, NoneOvertaken, NoneForgotten, TablesSame
  <2>4. QED
    BY <1>1, <1>5, <2>1, <2>2, <2>3 DEF GatewayInv, TablesSame
<1>7. ASSUME blocked'[r], last[r] = 0
      PROVE  lastPolled[r][cur[r]] > 0
  <2>1. ~SubscriberChannelsAvailable(r, cur[r])
    BY <1>2, <1>7 DEF PollEndDelivery
  <2>2. PICK c \in subs[r][cur[r]] : Len(buf[c]) = Cap
    BY <2>1 DEF SubscriberChannelsAvailable
  <2>3. Cap # 0
    BY HubAssumption
  <2>4. buf[c] # <<>>
    BY <2>2, <2>3
  <2>5. FirstDelivery(r, cur[r])
    BY <1>2, <1>3 DEF GatewayInv
  <2>6. QED
    BY <1>7, <2>2, <2>4, <2>5 DEF FirstDelivery
<1>8. ASSUME NEW f \in EventsOf(cur[r])', f.ts >= floor[r][cur[r]]
      PROVE  Covered(r, f)'
  <2>1. Covered(r, f)
    BY <1>1, <1>3, <1>4, <1>8 DEF PassInv, Delivering
  <2>2. CASE f \in batch[r]
    BY <1>1, <1>2, <1>3, <2>2, Times DEF Covered, PassInv
  <2>3. CASE f \notin batch[r]
    BY <1>1, <1>2, <1>4, <2>1, <2>3 DEF Covered, TablesSame
  <2>4. QED
    BY <2>2, <2>3
<1>9. PassInv(r)'
  BY <1>1, <1>2, <1>3, <1>5, <1>7, <1>8
     DEF PassInv, Delivering, TablesSame
<1>10. QED
  BY <1>1, <1>6, <1>9, OneReplica

(* The cursor update: the new cursor is the timestamp delivered last, and  *)
(* the version is taken over only when nothing was left behind.            *)
LEMMA UpdateKeeps ==
  ASSUME TypeOK, TypeOK', CursorInv, NEW r \in Replicas, PollUpdate(r),
         NEW g \in Gateways, cur[r] = g
  PROVE  CursorInv'
<1> USE DEF dbVars, regVars, chanVars, walkVars, workVars, passVars, history
<1>1. /\ TablesSame
      /\ UNCHANGED <<subs, buf, floor, offered, missed>>
      /\ pc[r] = "update" /\ Continue(r, page[r])
  BY DEF PollUpdate, TablesSame
<1>2. /\ last[r] \in Nat /\ lastPolled[r][g] \in Nat
      /\ blocked[r] \in BOOLEAN
  BY <1>1 DEF TypeOK, PassTypeOK
<1>3. /\ PassInv(r) /\ (\A h \in Gateways : GatewayInv(r, h))
      /\ batch[r] = {} /\ Delivering(r)
  BY <1>1 DEF CursorInv, PassInv, Delivering
<1>4. /\ known'[r][g] = (IF blocked[r] THEN known[r][g] ELSE ver[r])
      /\ lastPolled'[r][g] = IF last[r] > 0 THEN last[r]
                                            ELSE lastPolled[r][g]
      /\ \A h \in Gateways : h # g => /\ known'[r][h] = known[r][h]
                                      /\ lastPolled'[r][h] = lastPolled[r][h]
  <2>1. blocked[r] /\ ~(last[r] > 0) => bound[r] = lastPolled[r][g]
    BY <1>1, <1>2, <1>3 DEF PassInv
  <2>2. known'[r][g] = NewKnown(r, known[r][g])
    BY <1>2 DEF PollUpdate, TypeOK
  <2>3. lastPolled'[r][g] = NewLastPolled(r, lastPolled[r][g])
    BY <1>2 DEF PollUpdate, TypeOK
  <2>4. \A h \in Gateways : h # g => /\ known'[r][h] = known[r][h]
                                     /\ lastPolled'[r][h] = lastPolled[r][h]
    BY <1>2 DEF PollUpdate, TypeOK
  <2>5. QED
    BY <2>1, <2>2, <2>3, <2>4 DEF NewKnown, NewLastPolled
<1>5. /\ pc'[r] \in {"idle", "page", "gateway"} /\ last'[r] = 0
      /\ batch'[r] = {} /\ ver'[r] = 0 /\ page'[r] \subseteq page[r]
  <2>1. DropWork(r)
    BY <1>1 DEF Continue, EndPass
  <2>2. last'[r] = 0 /\ batch'[r] = {} /\ ver'[r] = 0
    BY <2>1 DEF DropWork, TypeOK, PassTypeOK
  <2>3. CASE EndPass(r)
    BY <2>2, <2>3 DEF EndPass, TypeOK, PassTypeOK
  <2>4. CASE ~EndPass(r)
    BY <1>1, <2>2, <2>4 DEF Continue, TypeOK, PassTypeOK
  <2>5. QED
    BY <2>3, <2>4
<1>6. OthersSame(r)
  <2>1. DropWork(r)
    BY <1>1 DEF Continue, EndPass
  <2>2. ASSUME NEW s \in Replicas, s # r
        PROVE  pc'[s] = pc[s] /\ page'[s] = page[s]
    <3>1. CASE EndPass(r)
      BY <2>2, <3>1 DEF EndPass, TypeOK, PassTypeOK
    <3>2. CASE ~EndPass(r)
      BY <1>1, <2>2, <3>2 DEF Continue, TypeOK, PassTypeOK
    <3>3. QED
      BY <3>1, <3>2
  <2>3. ASSUME NEW s \in Replicas, s # r
        PROVE  lastPolled'[s] = lastPolled[s] /\ known'[s] = known[s]
    BY <2>3 DEF PollUpdate, TypeOK
  <2>4. \A s \in Replicas : s # r => ReplicaSame(s)
    BY <1>1, <2>1, <2>2, <2>3 DEF DropWork, ReplicaSame, TypeOK, PassTypeOK
  <2>5. QED
    BY <1>1, <2>3, <2>4 DEF OthersSame
<1>7. Passed(r)' = Passed(r) /\ \A h : EventsOf(h)' = EventsOf(h)
  BY <1>1 DEF EventsOf, TablesSame, Passed
<1>8. \A h, L : AtCursor(r, h, L) => AtCursor(r, h, L)'
  BY <1>1, <1>7 DEF AtCursor, Expired, TablesSame
<1>9. \A e \in events : e.ts \in Nat
  BY Times
<1>10. ASSUME NEW h \in Gateways, h # g
       PROVE  GatewayInv(r, h)'
  <2>1. GatewayInv(r, h)
    BY <1>3
  <2>2. FirstDelivery(r, h)'
    BY <1>1, <1>4, <1>10, <2>1 DEF GatewayInv, FirstDelivery
  <2>3. NoneOvertaken(r, h)' /\ NoneForgotten(r, h)'
    BY <1>1, <1>4, <1>7, <1>10, <2>1
       DEF GatewayInv, NoneOvertaken, NoneForgotten, TablesSame
  <2>4. lastPolled'[r][h] > 0 => AtCursor(r, h, lastPolled[r][h])'
    BY <1>1, <1>4, <1>7, <1>10, <2>1
       DEF GatewayInv, AtCursor, Expired, TablesSame
  <2>5. QED
    BY <1>1, <1>4, <1>10, <2>1, <2>2, <2>3, <2>4 DEF GatewayInv, TablesSame
<1>11. GatewayInv(r, g)
  BY <1>2, <1>3
<1>12. ASSUME NEW e \in EventsOf(g), e.ts >= floor[r][g]
       PROVE  \/ e \in Passed(r)
              \/ e.ts >= last[r] /\ (version[g] # ver[r] \/ blocked[r])
  BY <1>3, <1>12 DEF PassInv, Covered
<1>13. /\ lastPolled'[r][g] <= now /\ known'[r][g] <= stamp
       /\ \A t \in txs : lastPolled'[r][g] <= t.ev.ts
  BY <1>3, <1>4, <1>11 DEF PassInv, GatewayInv
<1>14. lastPolled'[r][g] > 0 => AtCursor(r, g, lastPolled'[r][g])
  BY <1>2, <1>3, <1>4, <1>11 DEF PassInv, GatewayInv
<1>15. FirstDelivery(r, g)'
  <2>1. CASE last[r] > 0 \/ lastPolled[r][g] > 0
    BY <1>4, <2>1 DEF FirstDelivery
  <2>2. CASE ~(last[r] > 0 \/ lastPolled[r][g] > 0)
    BY <1>1, <1>11, <2>2 DEF FirstDelivery, GatewayInv
  <2>3. QED
    BY <2>1, <2>2
<1>16. ASSUME NEW e \in EventsOf(g), e.ts >= floor[r][g],
              e.ts < lastPolled'[r][g]
       PROVE  e \in Passed(r)
  <2>1. e.ts \in Nat
    BY <1>9 DEF EventsOf
  <2>2. CASE last[r] > 0
    BY <1>2, <1>4, <1>12, <1>16, <2>1, <2>2
  <2>3. CASE ~(last[r] > 0)
    BY <1>4, <1>11, <1>16, <2>3 DEF GatewayInv, NoneOvertaken
  <2>4. QED
    BY <2>2, <2>3
<1>17. ASSUME known'[r][g] = version[g], version[g] # 0,
              NEW e \in EventsOf(g), e.ts >= floor[r][g]
       PROVE  e \in Passed(r)
  <2>1. CASE blocked[r]
    BY <1>4, <1>11, <1>17, <2>1 DEF GatewayInv, NoneForgotten
  <2>2. CASE ~blocked[r]
    BY <1>4, <1>12, <1>17, <2>2
  <2>3. QED
    BY <2>1, <2>2
<1>18. GatewayInv(r, g)'
  <2>1. NoneOvertaken(r, g)' /\ NoneForgotten(r, g)'
    BY <1>1, <1>7, <1>16, <1>17 DEF NoneOvertaken, NoneForgotten, TablesSame
  <2>2. lastPolled'[r][g] > 0 => AtCursor(r, g, lastPolled[r][g])'
    BY <1>1, <1>7, <1>14 DEF AtCursor, Expired, TablesSame
  <2>3. QED
    BY <1>1, <1>11, <1>13, <1>15, <2>1, <2>2 DEF GatewayInv, TablesSame
<1>19. PassInv(r)'
  <2>1. stamp \in Nat /\ now \in Nat /\ \A t \in txs : t.ev.ts \in Nat
    BY Times DEF TypeOK
  <2>2. QED
    BY <1>1, <1>3, <1>5, <2>1 DEF PassInv, Delivering, TablesSame
<1>20. QED
  BY <1>1, <1>6, <1>10, <1>18, <1>19, OneReplica

(* A process that is gone leaves nothing to go wrong.                      *)
LEMMA ExitKeeps ==
  ASSUME TypeOK, TypeOK', CursorInv, SubscribersOpen, NEW r \in Replicas,
         Exit(r)
  PROVE  CursorInv'
<1> USE DEF dbVars, regVars, chanVars, walkVars, workVars, passVars, history
<1>1. TablesSame
  BY DEF Exit, TablesSame
<1>2. OthersSame(r)
  <2>1. \A s \in Replicas : s # r =>
          ReplicaSame(s) /\ known'[s] = known[s] /\ subs'[s] = subs[s]
    BY DEF Exit, EndPass, DropWork, ReplicaSame, TypeOK, PassTypeOK
  <2>2. ASSUME NEW s \in Replicas, s # r, NEW h \in Gateways,
               NEW c \in subs[s][h]
        PROVE  buf'[c] = buf[c]
    <3>1. c \in Channels
      BY DEF TypeOK
    <3>2. c \notin ChannelsOf(r)
      BY <2>2 DEF SubscribersOpen, ChannelsOf
    <3>3. QED
      BY <3>1, <3>2 DEF Exit
  <2>3. QED
    BY <2>1, <2>2 DEF OthersSame
<1>3. ASSUME NEW g \in Gateways
      PROVE  GatewayInv(r, g)'
  <2>1. /\ lastPolled'[r][g] = 0 /\ floor'[r][g] = 0 /\ known'[r][g] = 0
        /\ subs'[r][g] = {}
    BY DEF Exit, TypeOK
  <2>2. /\ now \in Nat /\ stamp \in Nat /\ now > Skew
        /\ \A t \in txs : t.ev.ts \in Nat
    BY Times DEF TypeOK
  <2>3. Skew \in Nat
    BY HubAssumption
  <2>4. \A e \in EventsOf(g)' : e.ts \in Nat
    BY Times DEF EventsOf, Exit
  <2>5. NoneOvertaken(r, g)' /\ NoneForgotten(r, g)' /\ FirstDelivery(r, g)'
    BY <2>1, <2>4 DEF NoneOvertaken, NoneForgotten, FirstDelivery
  <2>6. QED
    BY <1>1, <2>1, <2>2, <2>3, <2>5 DEF GatewayInv, TablesSame
<1>4. PassInv(r)'
  <2>1. /\ pc'[r] = "idle" /\ last'[r] = 0 /\ batch'[r] = {} /\ ver'[r] = 0
        /\ page'[r] = {}
    BY DEF Exit, EndPass, DropWork, TypeOK, PassTypeOK
  <2>2. stamp \in Nat /\ now \in Nat /\ \A t \in txs : t.ev.ts \in Nat
    BY Times DEF TypeOK
  <2>3. QED
    BY <1>1, <2>1, <2>2 DEF PassInv, Delivering, TablesSame
<1>5. QED
  BY <1>1, <1>2, <1>3, <1>4, OneReplica

-----------------------------------------------------------------------------
(* The remaining steps move no cursor.                                      *)

CursorsSame ==
    UNCHANGED <<now, events, version, stamp, txs, lastPolled, floor, offered,
                missed, pc, page, cur, ver, bound, batch, last, blocked>>

(* A step that leaves the tables, the cursors and the passes alone, such as *)
(* the close of a channel or a receive.                                    *)
LEMMA CursorsSameKeeps ==
  ASSUME TypeOK, TypeOK', CursorInv, CursorsSame,
         \A r \in Replicas, g \in Gateways :
            /\ known'[r][g] \in {known[r][g], 0}
            /\ FirstDelivery(r, g) => FirstDelivery(r, g)'
  PROVE  CursorInv'
<1>1. TableInv' /\ TablesSame
  BY DEF CursorInv, CursorsSame, TableInv, TablesSame
<1>2. ASSUME NEW r \in Replicas
      PROVE  (\A g \in Gateways : GatewayInv(r, g)') /\ PassInv(r)'
  <2>1. ReplicaSame(r)
    BY DEF CursorsSame, ReplicaSame
  <2>2. (\A g \in Gateways : GatewayInv(r, g)) /\ PassInv(r)
    BY DEF CursorInv
  <2>3. QED
    BY <1>1, <2>1, <2>2, Elsewhere
<1>3. QED
  BY <1>1, <1>2 DEF CursorInv

(* Registrations, and the steps that empty a list of subscribers: they     *)
(* reset knownVersion and keep lastPolled.                                 *)
LEMMA RegistryKeeps ==
  ASSUME TypeOK, TypeOK', CursorInv, UnusedEmpty,
         \/ \E c \in Channels : CloseChannel(c) \/ Receive(c)
         \/ \E r \in Replicas :
              RegistryStep(r) \/ (LifeStep(r) /\ ~Exit(r))
         \/ UNCHANGED vars
  PROVE  CursorInv'
<1> USE DEF dbVars, regVars, chanVars, walkVars, workVars, passVars, history
<1>1. CASE /\ CursorsSame /\ UNCHANGED <<known, subs, buf>>
  <2>1. \A r \in Replicas, g \in Gateways :
            /\ known'[r][g] \in {known[r][g], 0}
            /\ FirstDelivery(r, g) => FirstDelivery(r, g)'
    BY <1>1 DEF CursorsSame, FirstDelivery, Delivering
  <2>2. QED
    BY <1>1, <2>1, CursorsSameKeeps
<1>2. ASSUME NEW c \in Channels, Receive(c)
      PROVE  CursorInv'
  <2>1. CursorsSame /\ known' = known /\ subs' = subs
    BY <1>2 DEF Receive, CursorsSame
  <2>2. \A d \in Channels : buf[d] = <<>> => buf'[d] = <<>>
    BY <1>2 DEF Receive, TypeOK
  <2>3. \A r \in Replicas, g \in Gateways : subs[r][g] \subseteq Channels
    BY DEF TypeOK
  <2>4. \A r \in Replicas, g \in Gateways :
            /\ known'[r][g] \in {known[r][g], 0}
            /\ FirstDelivery(r, g) => FirstDelivery(r, g)'
    BY <2>1, <2>2, <2>3 DEF CursorsSame, FirstDelivery, Delivering
  <2>5. QED
    BY <2>1, <2>4, CursorsSameKeeps
<1>3. ASSUME NEW s \in Replicas, NEW h \in Gateways, NEW c \in Channels,
             Subscribe(s, h, c)
      PROVE  CursorInv'
  <2>1. CursorsSame /\ known' = known /\ buf' = buf /\ buf[c] = <<>>
    BY <1>3 DEF Subscribe, CursorsSame, UnusedEmpty
  <2>2. \A r \in Replicas, g \in Gateways :
          subs'[r][g] \subseteq subs[r][g] \cup {c}
    BY <1>3 DEF Subscribe, TypeOK
  <2>3. \A r \in Replicas, g \in Gateways :
            /\ known'[r][g] \in {known[r][g], 0}
            /\ FirstDelivery(r, g) => FirstDelivery(r, g)'
    BY <2>1, <2>2 DEF CursorsSame, FirstDelivery, Delivering
  <2>4. QED
    BY <2>1, <2>3, CursorsSameKeeps
<1>4. ASSUME CursorsSame, buf' = buf,
             \A r \in Replicas, g \in Gateways :
                /\ known'[r][g] \in {known[r][g], 0}
                /\ subs'[r][g] \subseteq subs[r][g]
      PROVE  CursorInv'
  <2>1. \A r \in Replicas, g \in Gateways :
            FirstDelivery(r, g) => FirstDelivery(r, g)'
    BY <1>4 DEF CursorsSame, FirstDelivery, Delivering
  <2>2. QED
    BY <1>4, <2>1, CursorsSameKeeps
<1>5. ASSUME NEW s \in Replicas, NEW h \in Gateways, NEW c \in Channels,
             RemoveSubscriber(s, h, c)
      PROVE  CursorInv'
  <2>1. CursorsSame /\ buf' = buf
    BY <1>5 DEF RemoveSubscriber, CursorsSame
  <2>2. \A r \in Replicas, g \in Gateways : subs'[r][g] \subseteq subs[r][g]
    BY <1>5 DEF RemoveSubscriber, TypeOK
  <2>3. \A r \in Replicas, g \in Gateways :
          known'[r][g] = known[r][g] \/ known'[r][g] = 0
    BY <1>5 DEF RemoveSubscriber, TypeOK
  <2>4. QED
    BY <1>4, <2>1, <2>2, <2>3
<1>6. ASSUME NEW s \in Replicas, NEW h \in Gateways,
             RemoveAllSubscribers(s, h) \/ CloseGateway(s, h)
      PROVE  CursorInv'
  <2>1. CursorsSame /\ buf' = buf
    BY <1>6 DEF RemoveAllSubscribers, CloseGateway, CursorsSame
  <2>2. subs' = [subs EXCEPT ![s][h] = {}]
    BY <1>6 DEF RemoveAllSubscribers, CloseGateway
  <2>3. known' = known \/ known' = [known EXCEPT ![s][h] = 0]
    BY <1>6 DEF RemoveAllSubscribers, CloseGateway
  <2>4. \A r \in Replicas, g \in Gateways : subs'[r][g] \subseteq subs[r][g]
    BY <2>2 DEF TypeOK
  <2>5. \A r \in Replicas, g \in Gateways :
          known'[r][g] = known[r][g] \/ known'[r][g] = 0
    <3>1. CASE known' = known
      BY <3>1
    <3>2. CASE known' = [known EXCEPT ![s][h] = 0]
      BY <3>2 DEF TypeOK
    <3>3. QED
      BY <2>3, <3>1, <3>2
  <2>6. QED
    BY <1>4, <2>1, <2>4, <2>5
<1>7. ASSUME NEW s \in Replicas, NEW h \in Gateways, RegisterGateway(s, h)
      PROVE  CursorInv'
  BY <1>1, <1>7 DEF RegisterGateway, CursorsSame
<1>8. ASSUME NEW s \in Replicas,
             CloseBegin(s) \/ CloseCollect(s) \/ Initialize(s)
      PROVE  CursorInv'
  BY <1>1, <1>8 DEF CloseBegin, CloseCollect, Initialize, CursorsSame
<1>9. ASSUME NEW c \in Channels, CloseChannel(c)
      PROVE  CursorInv'
  BY <1>1, <1>9 DEF CloseChannel, CursorsSame
<1>10. CASE UNCHANGED vars
  BY <1>1, <1>10 DEF vars, CursorsSame
<1>11. QED
  BY <1>2, <1>3, <1>5, <1>6, <1>7, <1>8, <1>9, <1>10
     DEF RegistryStep, LifeStep

-----------------------------------------------------------------------------
(* The induction step, action by action.                                   *)
LEMMA CursorNext ==
  ASSUME TypeOK, TypeOK', ChanInv, CursorInv, SerialWriters, [Next]_vars
  PROVE  CursorInv'
<1>1. SubscribersOpen /\ UnusedEmpty
  BY DEF ChanInv
<1>2. CASE Tick \/ PublishStep \/ \E r \in Replicas : Cleanup(r)
  BY <1>2, TablesKeep
<1>3. ASSUME NEW r \in Replicas, PollStep(r) \/ PollError(r)
      PROVE  CursorInv'
  <2>1. ASSUME PollUpdate(r)
        PROVE  CursorInv'
    <3>1. cur[r] \in Gateways
      BY <2>1 DEF PollUpdate, TypeOK, PassTypeOK
    <3>2. QED
      BY <2>1, <3>1, UpdateKeeps
  <2>2. QED
    BY <1>1, <1>3, <2>1, WalkKeeps, FetchKeeps, DeliverKeeps,
       EndDeliveryKeeps DEF PollStep, PollError
<1>4. ASSUME NEW r \in Replicas, RegistryStep(r) \/ LifeStep(r)
      PROVE  CursorInv'
  <2>1. CASE Exit(r)
    BY <1>1, <2>1, ExitKeeps
  <2>2. CASE ~Exit(r)
    BY <1>1, <1>4, <2>2, RegistryKeeps
  <2>3. QED
    BY <2>1, <2>2
<1>5. CASE (\E c \in Channels : CloseChannel(c) \/ Receive(c))
             \/ UNCHANGED vars
  BY <1>1, <1>5, RegistryKeeps
<1>6. QED
  BY <1>2, <1>3, <1>4, <1>5 DEF Next

(* Nothing is stored, polled or delivered at the start.                    *)
LEMMA CursorInit == Init => CursorInv
<1> SUFFICES ASSUME Init PROVE CursorInv
  OBVIOUS
<1>1. Skew \in Nat
  BY HubAssumption
<1>2. TableInv
  BY DEF Init, TableInv
<1>3. ASSUME NEW r \in Replicas, NEW g \in Gateways
      PROVE  GatewayInv(r, g)
  BY <1>1 DEF Init, GatewayInv, NoneOvertaken, NoneForgotten, FirstDelivery,
              EventsOf
<1>4. ASSUME NEW r \in Replicas
      PROVE  PassInv(r)
  BY <1>1 DEF Init, PassInv, Delivering
<1>5. QED
  BY <1>2, <1>3, <1>4 DEF CursorInv

(* The three invariants together are inductive.                            *)
LEMMA HubInduction ==
  ASSUME SerialWriters
  PROVE  /\ Init => TypeOK /\ ChanInv /\ CursorInv
         /\ TypeOK /\ ChanInv /\ CursorInv /\ [Next]_vars
              => TypeOK' /\ ChanInv' /\ CursorInv'
<1>1. Init => TypeOK /\ ChanInv /\ CursorInv
  BY TypeInit, ChanInit, CursorInit
<1>2. QED
  BY <1>1, TypeNext, ChanNext, CursorNext

(* Where the database admits one writer at a time, the cursor of a replica *)
(* overtakes no event: what is stored, in its window and behind it has     *)
(* been delivered.                                                         *)
THEOREM NothingOvertaken ==
  ASSUME SerialWriters
  PROVE  Spec => []CursorSound
<1>1. CursorInv => CursorSound
  BY DEF CursorInv, GatewayInv, NoneOvertaken, CursorSound
<1>2. QED
  BY <1>1, HubInduction, PTL DEF Spec

(* Under the same assumption a replica that knows the current version of a *)
(* gateway has delivered all that is stored for it.                        *)
THEOREM NothingLost ==
  ASSUME SerialWriters
  PROVE  Spec => []CaughtUpSound
<1>1. CursorInv => CaughtUpSound
  BY DEF CursorInv, GatewayInv, NoneForgotten, CaughtUpSound
<1>2. QED
  BY <1>1, HubInduction, PTL DEF Spec
=============================================================================
