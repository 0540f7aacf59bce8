------------------------- MODULE ReplicaSyncProofs -------------------------
(***************************************************************************)
(* A replica that has handled every event agrees with the database, for    *)
(* any number of replicas, APIs, requests and restarts.  The types hold    *)
(* with any number of requests under way; the rest is proved, as it is     *)
(* checked, for requests that follow one another.                          *)
(***************************************************************************)
EXTENDS ReplicaSync, FiniteSetTheorems, SequenceTheorems, TLAPS

(* Requests follow one another, and Q is the one under way.                *)
OneRequest == \E q : Requests = {q}
Q == CHOOSE q \in Requests : TRUE

EventOf(kind, a, k) == [kind |-> kind, api |-> a, key |-> k]

(* The events due: those published, and the one about to be.               *)
Pending == EventOf(Kind(op[Q]), api[Q], key[Q].id)
DueLen  == IF pc[Q] = "publish" THEN Len(log) + 1 ELSE Len(log)
Due(i)  == IF i <= Len(log) THEN log[i] ELSE Pending

(* Replica r has still to handle event e.                                  *)
Ahead(r, e) == \E i \in 1..DueLen : pos[r] < i /\ Due(i) = e

(* A key is revoked and its row has still to be removed.                   *)
Leaving == op[Q] = "revokeKey" /\ pc[Q] \in {"publish", "remove"}

ApiOps == {"createApi", "updateApi", "deleteApi"}
KeyOps == {"createKey", "regenerateKey", "revokeKey"}

(* What the request has read is still so when it writes, and what it names *)
(* when it publishes is what it has written.                               *)
RequestInv ==
    /\ pc[Q] # "idle" => /\ op[Q] \in ApiOps \cup KeyOps
                         /\ api[Q] = apis /\ apis \in Apis
    /\ pc[Q] = "remove" => op[Q] = "revokeKey"
    /\ pc[Q] # "idle" /\ op[Q] \in ApiOps => key[Q] = NoKey
    /\ pc[Q] = "write" =>
          dbConf.id = IF op[Q] = "createApi" THEN 0 ELSE apis
    /\ pc[Q] \in {"publish", "remove"} =>
          dbConf.id = IF op[Q] = "deleteApi" THEN 0 ELSE apis
    /\ pc[Q] # "idle" /\ op[Q] \in KeyOps =>
          /\ key[Q].id # 0
          /\ (pc[Q] # "write" \/ op[Q] # "createKey") => dbKey[apis].id = key[Q].id
          /\ pc[Q] = "write" => (key[Q].on <=> op[Q] # "revokeKey")
          /\ key[Q].val <= ops
    /\ pc[Q] = "write" /\ op[Q] = "createKey" =>
          key[Q].id = ops /\ dbKey[apis].val < key[Q].val

RowInv ==
    /\ dbConf.id \in {0, apis}
    /\ dbConf.id = 0 => dbConf = NoConf
    /\ \A a \in Apis :
          /\ dbKey[a].id # 0 => a = dbConf.id /\ (dbKey[a].on <=> ~Leaving)
          /\ dbKey[a].id = 0 => dbKey[a] = NoKey
          /\ dbKey[a].id <= ops /\ dbKey[a].val <= ops

(* The events of an API and of a key follow those of earlier ones, and the *)
(* event that ends one is the last about it.                               *)
LogAt(i) ==
    /\ Due(i).api <= apis /\ Due(i).key <= ops
    /\ pc[Q] = "write" /\ op[Q] = "createApi" => Due(i).api # apis
    /\ pc[Q] = "write" /\ op[Q] = "createKey" => Due(i).key # ops
    /\ Due(i).kind = "apiGone" => Due(i).api # dbConf.id
    /\ Due(i).kind \in {"key", "keyGone"} <=> Due(i).key # 0
    /\ \A a \in Apis : dbKey[a].id # 0 => Due(i).key <= dbKey[a].id
    /\ \A a \in Apis : Due(i) = EventOf("keyGone", a, dbKey[a].id) => Leaving

LogOrder(i, j) == /\ Due(i).api <= Due(j).api
                  /\ Due(i).key <= Due(j).key \/ Due(j).key = 0

LogInv ==
    /\ \A i \in 1..DueLen : LogAt(i)
    /\ \A i, j \in 1..DueLen : i < j => LogOrder(i, j)
    /\ pc[Q] = "remove" =>
          \E n \in 1..DueLen : /\ n = DueLen
                               /\ Due(n) = EventOf("keyGone", apis, key[Q].id)

(* Where a replica differs from the database, the event that repairs it is *)
(* ahead.                                                                  *)
ConfInv(r) ==
    /\ conf[r].id = 0 => conf[r] = NoConf
    /\ busy[r] # 0 => conf[r].id = busy[r]
    /\ dbConf.id # 0 /\ conf[r] # dbConf => Ahead(r, EventOf("api", dbConf.id, 0))
    /\ conf[r].id \notin {0, dbConf.id} => Ahead(r, EventOf("apiGone", conf[r].id, 0))

(* A replica that holds v for the key of API a has the event that brings   *)
(* the row ahead.                                                          *)
Repair(r, a, v) ==
    ~overwritten /\ dbKey[a].id # 0 /\ ~Leaving /\ v # dbKey[a]
        => Ahead(r, EventOf("key", a, dbKey[a].id))

(* A replica that holds a key with id k which is not in use has the event  *)
(* ahead that takes it away.                                               *)
Removal(r, a, k) ==
    ~overwritten /\ k # 0 /\ ~(k = dbKey[a].id /\ ~Leaving)
        => Ahead(r, EventOf("keyGone", a, k)) \/ Ahead(r, EventOf("apiGone", a, 0))

KeyInv(r, a) ==
    /\ mem[r][a].id = 0 => mem[r][a] = NoKey
    /\ Repair(r, a, mem[r][a])
    /\ Removal(r, a, mem[r][a].id)

StoreInv(r, a) ==
    /\ xds[r][a].id = 0 => xds[r][a] = NoKey
    /\ xds[r][a].id # 0 => conf[r].id = a
    /\ Repair(r, a, xds[r][a])
    /\ ~adopted[r] => xds[r][a].id \in {0, mem[r][a].id}

ReplicaInv ==
    faults = 0 =>
      /\ LogInv
      /\ \A r \in Replicas :
            ConfInv(r) /\ \A a \in Apis : KeyInv(r, a) /\ StoreInv(r, a)

-----------------------------------------------------------------------------
(* Types, with any number of requests under way.                            *)

(* Requests whose write is still to come.  Each makes one version at most, *)
(* so versions stay below the number of requests.                          *)
Writing == {q \in Requests : pc[q] = "write"}

WriteInv ==
    /\ \A q \in Requests : pc[q] # "idle" => api[q] \in Apis /\ op[q] # "none"
    /\ IsFiniteSet(Writing)
    /\ dbConf.ver + Cardinality(Writing) <= ops

TypeInv == TypeOK /\ WriteInv

LEMMA Empties == /\ NoKey \in Rows /\ NoKey.id = 0 /\ NoKey.val = 0 /\ NoKeys \in [Apis -> Rows]
                 /\ NoConf \in Confs /\ NoConf.id = 0
  <1>1. NoKey \in Rows /\ NoKey.id = 0 /\ NoKey.val = 0
    BY SyncAssumption DEF NoKey, Rows
  <1>2. NoConf \in Confs /\ NoConf.id = 0
    BY SyncAssumption DEF NoConf, Confs
  <1> QED BY <1>1, <1>2 DEF NoKeys

LEMMA StartWrites ==
    ASSUME TypeInv, NEW q \in Requests, NEW what, NEW a, NEW k,
           Start(q, what, a, k)
    PROVE  /\ IsFiniteSet(Writing')
           /\ dbConf'.ver + Cardinality(Writing') <= ops'
  <1>1. Writing' = Writing \cup {q} /\ q \notin Writing
    BY DEF Start, Writing, TypeInv, TypeOK
  <1>2. IsFiniteSet(Writing)
    BY DEF TypeInv, WriteInv
  <1>3. IsFiniteSet(Writing') /\ Cardinality(Writing') = Cardinality(Writing) + 1
    BY <1>1, <1>2, FS_AddElement
  <1>4. Cardinality(Writing) \in Nat /\ dbConf.ver \in Nat /\ ops \in Nat
    BY <1>2, SyncAssumption, FS_CardinalityType DEF TypeInv, TypeOK, Confs
  <1>5. dbConf' = dbConf /\ ops' = ops + 1
    BY DEF Start, dbVars
  <1> QED BY <1>3, <1>4, <1>5 DEF TypeInv, WriteInv

LEMMA StartTypes ==
    ASSUME TypeInv, NEW q \in Requests, NEW a \in Apis, NEW k \in Rows,
           NEW what \in ApiOps \cup KeyOps, Start(q, what, a, k),
           apis' \in 0..MaxApis
    PROVE  TypeInv'
  <1> USE SyncAssumption DEF dbVars, repVars
  <1>1. /\ pc' \in [Requests -> {"idle", "write", "publish", "remove"}]
        /\ op' \in [Requests -> {"none", "createApi", "updateApi", "deleteApi",
                                 "createKey", "regenerateKey", "revokeKey"}]
        /\ api' \in [Requests -> 0..MaxApis]
        /\ key' \in [Requests -> Rows]
        /\ ops' \in 0..MaxOps
    BY DEF Start, TypeInv, TypeOK, ApiOps, KeyOps, Apis
  <1>2. \A p \in Requests : pc'[p] # "idle" => api'[p] \in Apis /\ op'[p] # "none"
    BY DEF Start, TypeInv, TypeOK, WriteInv, ApiOps, KeyOps
  <1>3. UNCHANGED <<dbVars, log, repVars, faults, restarts, overwritten>>
    BY DEF Start
  <1>4. TypeOK'
    BY <1>1, <1>3 DEF TypeInv, TypeOK
  <1> QED BY <1>2, <1>4, StartWrites DEF TypeInv, WriteInv

(* A request that leaves its write behind makes room for its version.      *)
LEMMA WrittenLeaves ==
    ASSUME TypeInv, NEW q \in Requests, pc[q] = "write",
           NEW w \in {"idle", "publish"}, pc' = [pc EXCEPT ![q] = w]
    PROVE  /\ IsFiniteSet(Writing')
           /\ dbConf.ver + Cardinality(Writing') < ops
           /\ Cardinality(Writing') \in Nat
  <1>1. Writing' = Writing \ {q} /\ q \in Writing
    BY DEF Writing, TypeInv, TypeOK
  <1>2. IsFiniteSet(Writing)
    BY DEF TypeInv, WriteInv
  <1>3. IsFiniteSet(Writing') /\ Cardinality(Writing') = Cardinality(Writing) - 1
    BY <1>1, <1>2, FS_RemoveElement
  <1>4. Cardinality(Writing) \in Nat /\ dbConf.ver \in Nat /\ ops \in Nat
    BY <1>2, SyncAssumption, FS_CardinalityType DEF TypeInv, TypeOK, Confs
  <1>5. Cardinality(Writing') \in Nat
    BY <1>3, FS_CardinalityType
  <1> QED BY <1>3, <1>4, <1>5 DEF TypeInv, WriteInv

LEMMA RequestTypes ==
    ASSUME TypeInv, NEW q \in Requests, Request(q)
    PROVE  TypeInv'
  <1> USE SyncAssumption DEF dbVars, repVars
  <1>1. CASE StartCreateApi(q)
    <2>1. apis + 1 \in Apis /\ NoKey \in Rows /\ apis' \in 0..MaxApis
      BY <1>1 DEF StartCreateApi, TypeInv, TypeOK, Apis, Rows, NoKey
    <2>2. Start(q, "createApi", apis + 1, NoKey)
      BY <1>1 DEF StartCreateApi
    <2> QED BY <2>1, <2>2, StartTypes DEF ApiOps
  <1>2. CASE \/ StartUpdateApi(q) \/ StartDeleteApi(q) \/ StartCreateKey(q)
             \/ StartRegenerateKey(q) \/ StartRevokeKey(q)
    <2> DEFINE a == dbConf.id
    <2>1. a \in Apis /\ apis' = apis /\ NoKey \in Rows
      <3>1. a # 0 /\ apis' = apis
        BY <1>2 DEF StartUpdateApi, StartDeleteApi, StartCreateKey,
             StartRegenerateKey, StartRevokeKey
      <3>2. a \in Nat /\ a <= MaxApis
        BY DEF TypeInv, TypeOK, Confs
      <3> QED BY <3>1, <3>2 DEF Apis, Rows, NoKey
    <2>2. apis' \in 0..MaxApis /\ dbKey[a] \in Rows /\ ops \in 0..MaxOps
      BY <2>1 DEF TypeInv, TypeOK
    <2>3. CASE StartUpdateApi(q)
      BY <2>1, <2>2, <2>3, StartTypes DEF StartUpdateApi, ApiOps
    <2>4. CASE StartDeleteApi(q)
      BY <2>1, <2>2, <2>4, StartTypes DEF StartDeleteApi, ApiOps
    <2>5. CASE StartCreateKey(q)
      <3> DEFINE k == [id |-> ops + 1, val |-> ops + 1, on |-> TRUE]
      <3>1. k \in Rows
        BY <2>2, <2>5 DEF StartCreateKey, Start, Rows
      <3>2. Start(q, "createKey", a, k)
        BY <2>5 DEF StartCreateKey
      <3> HIDE DEF k, a
      <3> QED BY <2>1, <2>2, <3>1, <3>2, StartTypes DEF KeyOps
    <2>6. CASE StartRegenerateKey(q)
      <3> DEFINE k == [id |-> dbKey[a].id, val |-> ops + 1, on |-> TRUE]
      <3>1. k \in Rows
        BY <2>2, <2>6 DEF StartRegenerateKey, Start, Rows
      <3>2. Start(q, "regenerateKey", a, k)
        BY <2>6 DEF StartRegenerateKey
      <3> HIDE DEF k, a
      <3> QED BY <2>1, <2>2, <3>1, <3>2, StartTypes DEF KeyOps
    <2>7. CASE StartRevokeKey(q)
      <3> DEFINE k == [dbKey[a] EXCEPT !.val = ops + 1, !.on = FALSE]
      <3>1. k \in Rows
        <4>1. ops + 1 \in 0..MaxOps
          BY <2>2, <2>7 DEF StartRevokeKey, Start
        <4> QED BY <2>2, <4>1 DEF Rows
      <3>2. Start(q, "revokeKey", a, k)
        BY <2>7 DEF StartRevokeKey
      <3> HIDE DEF k, a
      <3> QED BY <2>1, <2>2, <3>1, <3>2, StartTypes DEF KeyOps
    <2> QED BY <1>2, <2>3, <2>4, <2>5, <2>6, <2>7
  <1>3. CASE WriteApi(q)
    <2>1. PICK w \in {"idle", "publish"} : pc' = [pc EXCEPT ![q] = w]
      BY <1>3 DEF WriteApi
    <2>2. /\ IsFiniteSet(Writing') /\ dbConf.ver + Cardinality(Writing') < ops
          /\ Cardinality(Writing') \in Nat
      BY <1>3, <2>1, WrittenLeaves DEF WriteApi
    <2>3. /\ UNCHANGED <<log, op, api, key, ops, apis, repVars, faults, restarts,
                         overwritten>>
          /\ pc[q] = "write"
      BY <1>3 DEF WriteApi
    <2>4. api[q] \in Apis /\ dbConf \in Confs /\ dbConf.ver \in Nat /\ ops \in 0..MaxOps
      BY <2>3 DEF TypeInv, TypeOK, WriteInv, Confs
    <2>5. dbConf' \in {dbConf, NoConf, [id |-> api[q], ver |-> dbConf.ver + 1]}
      BY <1>3 DEF WriteApi
    <2>6. dbConf' \in Confs /\ dbConf'.ver + Cardinality(Writing') <= ops
      BY <2>2, <2>4, <2>5 DEF Confs, NoConf, Apis
    <2>7. dbKey' \in [Apis -> Rows]
      BY <1>3, <2>4, Empties DEF WriteApi, TypeInv, TypeOK
    <2>8. /\ pc' \in [Requests -> {"idle", "write", "publish", "remove"}]
          /\ \A p \in Requests : pc'[p] # "idle" => pc[p] # "idle"
      BY <2>1, <2>3 DEF TypeInv, TypeOK
    <2>9. TypeOK'
      BY <2>3, <2>6, <2>7, <2>8 DEF TypeInv, TypeOK
    <2> QED BY <2>2, <2>3, <2>6, <2>8, <2>9 DEF TypeInv, WriteInv
  <1>4. CASE WriteKey(q)
    <2>1. /\ pc' = [pc EXCEPT ![q] = "publish"] /\ pc[q] = "write"
          /\ UNCHANGED <<dbConf, log, op, api, key, ops, apis, repVars, faults,
                         restarts>>
      BY <1>4 DEF WriteKey
    <2>2. /\ IsFiniteSet(Writing') /\ dbConf.ver + Cardinality(Writing') < ops
          /\ Cardinality(Writing') \in Nat
      BY <2>1, WrittenLeaves
    <2>3. api[q] \in Apis /\ key[q] \in Rows /\ dbKey[api[q]] \in Rows
          /\ dbConf.ver \in Nat /\ ops \in Nat
      BY <2>1 DEF TypeInv, TypeOK, WriteInv, Confs
    <2>4. [key[q] EXCEPT !.id = dbKey[api[q]].id] \in Rows /\ NoKey \in Rows
      BY <2>3 DEF Rows, NoKey
    <2>5. \E k \in Rows : dbKey' = [dbKey EXCEPT ![api[q]] = k]
      BY <1>4, <2>3, <2>4 DEF WriteKey
    <2>6. dbKey' \in [Apis -> Rows]
      BY <2>5 DEF TypeInv, TypeOK
    <2>7. overwritten' \in BOOLEAN
      BY <1>4, Zenon DEF WriteKey
    <2>8. /\ pc' \in [Requests -> {"idle", "write", "publish", "remove"}]
          /\ \A p \in Requests : pc'[p] # "idle" => pc[p] # "idle"
      BY <2>1 DEF TypeInv, TypeOK
    <2>9. TypeOK'
      BY <2>1, <2>6, <2>7, <2>8 DEF TypeInv, TypeOK
    <2> QED BY <2>1, <2>2, <2>3, <2>8, <2>9 DEF TypeInv, WriteInv
  <1>5. CASE Publish(q) \/ PublishFails(q) \/ RemoveKey(q) \/ RemoveKeyFails(q)
    <2>1. \E w \in {"idle", "remove"} : pc' = [pc EXCEPT ![q] = w]
      BY <1>5 DEF Publish, PublishFails, RemoveKey, RemoveKeyFails, AfterPublish
    <2>2. pc[q] \in {"publish", "remove"} /\ UNCHANGED <<dbConf, op, api, key, ops,
             apis, repVars, restarts, overwritten>>
      BY <1>5 DEF Publish, PublishFails, RemoveKey, RemoveKeyFails
    <2>3. api[q] \in Apis /\ op[q] # "none"
      BY <2>2 DEF TypeInv, WriteInv
    <2>4. /\ pc' \in [Requests -> {"idle", "write", "publish", "remove"}]
          /\ \A p \in Requests : pc'[p] # "idle" => pc[p] # "idle"
          /\ Writing' = Writing
      BY <2>1, <2>2 DEF TypeInv, TypeOK, Writing
    <2>5. dbKey' \in [Apis -> Rows]
      BY <1>5, <2>3, Empties DEF Publish, PublishFails, RemoveKey, RemoveKeyFails, TypeInv, TypeOK
    <2>6. faults' \in 0..MaxFaults
      BY <1>5 DEF Publish, PublishFails, RemoveKey, RemoveKeyFails, TypeInv, TypeOK
    <2> DEFINE E == [kind : {"api", "apiGone", "key", "keyGone"},
                     api : Apis, key : 0..MaxOps]
               e == [kind |-> Kind(op[q]), api |-> api[q], key |-> key[q].id]
    <2>7. log' \in Seq(E) /\ pos' \in [Replicas -> 0..Len(log')]
      <3>1. log \in Seq(E) /\ pos \in [Replicas -> 0..Len(log)] /\ pos' = pos
        BY <2>2 DEF TypeInv, TypeOK
      <3>2. Kind(op[q]) \in {"api", "apiGone", "key", "keyGone"}
        BY <2>3 DEF Kind, TypeInv, TypeOK
      <3>3. e \in E
        BY <2>3, <3>2 DEF TypeInv, TypeOK, Rows
      <3>4. log' = log \/ log' = Append(log, e)
        BY <1>5 DEF Publish, PublishFails, RemoveKey, RemoveKeyFails
      <3> HIDE DEF E, e
      <3>5. log' \in Seq(E) /\ Len(log) \in Nat /\ Len(log') \in Nat
            /\ Len(log) <= Len(log')
        <4>1. CASE log' = log
          BY <3>1, <4>1
        <4>2. CASE log' = Append(log, e)
          <5>1. Append(log, e) \in Seq(E) /\ Len(Append(log, e)) = Len(log) + 1
            BY <3>1, <3>3
          <5> QED BY <3>1, <4>2, <5>1
        <4> QED BY <3>4, <4>1, <4>2
      <3>6. pos' \in [Replicas -> 0..Len(log')]
        BY <3>1, <3>5
      <3> QED BY <3>5, <3>6
    <2> HIDE DEF e
    <2>8. TypeOK'
      <3>1. /\ dbConf' \in Confs /\ op' = op /\ api' = api /\ key' = key
            /\ ops' \in 0..MaxOps /\ apis' \in 0..MaxApis
            /\ UNCHANGED <<busy, conf, mem, xds, restarts, overwritten, adopted>>
        BY <2>2 DEF TypeInv, TypeOK
      <3>2. TypeOK
        BY DEF TypeInv
      <3> QED BY <2>4, <2>5, <2>6, <2>7, <3>1, <3>2 DEF TypeOK
    <2> QED BY <2>2, <2>4, <2>8 DEF TypeInv, WriteInv
  <1> QED BY <1>1, <1>2, <1>3, <1>4, <1>5 DEF Request

(* The event a replica handles next names an API.                          *)
LEMMA EventTypes ==
    ASSUME TypeOK, NEW r \in Replicas, NEW kind, Handles(r, kind)
    PROVE  /\ Event(r).api \in Apis /\ Event(r).key \in 0..MaxOps
           /\ Event(r).kind = kind
           /\ pos[r] + 1 \in 1..Len(log) /\ pos'[r] = pos[r] + 1
           /\ pos' \in [Replicas -> 0..Len(log)]
           /\ \A p \in Replicas : p # r => pos'[p] = pos[p]
           /\ busy[r] = 0
           /\ UNCHANGED <<dbVars, log, reqVars, faults, restarts, overwritten>>
  <1>1. /\ pos[r] \in Nat /\ Len(log) \in Nat /\ pos[r] < Len(log)
        /\ pos' = [pos EXCEPT ![r] = @ + 1]
    BY DEF Handles, TypeOK
  <1>2. pos[r] + 1 \in 1..Len(log) /\ pos[r] + 1 \in 0..Len(log)
    BY <1>1
  <1>3. Event(r) \in [kind : {"api", "apiGone", "key", "keyGone"},
                      api : Apis, key : 0..MaxOps]
    <2> DEFINE E == [kind : {"api", "apiGone", "key", "keyGone"},
                     api : Apis, key : 0..MaxOps]
    <2>1. log \in Seq(E)
      BY DEF TypeOK
    <2> HIDE DEF E
    <2>2. Event(r) \in E
      BY <1>2, <2>1 DEF Event
    <2> QED BY <2>2 DEF E
  <1> QED BY <1>1, <1>2, <1>3 DEF Handles, TypeOK

LEMMA ListenTypes ==
    ASSUME TypeInv, NEW r \in Replicas, Listen(r) \/ Restart(r)
    PROVE  TypeInv'
  <1> USE SyncAssumption DEF dbVars, reqVars
  <1>1. TypeOK /\ dbConf \in Confs /\ \A a \in Apis : dbKey[a] \in Rows
    BY DEF TypeInv, TypeOK
  <1> DEFINE Mem(f) == f \in [Replicas -> [Apis -> Rows]]
  <1>2. ASSUME NEW a \in Apis, NEW k \in Rows
        PROVE  /\ Mem([mem EXCEPT ![r][a] = k])
               /\ Mem([xds EXCEPT ![r][a] = k])
    BY DEF TypeInv, TypeOK
  <1>3. ASSUME NEW a \in Apis
        PROVE  mem[r][a] \in Rows /\ xds[r][a] \in Rows
    BY DEF TypeInv, TypeOK
  <1>4. ASSUME NEW kind, Handles(r, kind),
               Mem(mem'), Mem(xds'), conf' \in [Replicas -> Confs],
               busy' \in [Replicas -> 0..MaxApis], adopted' = adopted
        PROVE  TypeInv'
    <2>1. /\ pos' \in [Replicas -> 0..Len(log)]
          /\ UNCHANGED <<dbVars, log, reqVars, faults, restarts, overwritten>>
      BY <1>1, <1>4, EventTypes
    <2>2. TypeOK'
      BY <1>4, <2>1 DEF TypeInv, TypeOK
    <2> QED BY <2>1, <2>2 DEF TypeInv, WriteInv, Writing
  <1> HIDE DEF Mem
  <1>5. conf \in [Replicas -> Confs] /\ busy \in [Replicas -> 0..MaxApis]
        /\ Mem(mem) /\ Mem(xds)
    BY DEF TypeInv, TypeOK, Mem
  <1>6. CASE HandleApi(r)
    <2>1. Handles(r, "api") /\ UNCHANGED <<mem, xds, adopted>>
      BY <1>6 DEF HandleApi
    <2>2. Event(r).api \in Apis
      BY <1>1, <2>1, EventTypes
    <2>3. conf' \in [Replicas -> Confs]
      BY <1>1, <1>5, <1>6 DEF HandleApi, ApiIntoMemory
    <2>4. busy' \in [Replicas -> 0..MaxApis]
      BY <1>5, <1>6, <2>2 DEF HandleApi, Apis
    <2> QED BY <1>4, <1>5, <2>1, <2>3, <2>4
  <1>7. CASE SyncKeys(r)
    <2> DEFINE a == busy[r]
    <2>1. a \in Apis
      BY <1>5, <1>7 DEF SyncKeys, Apis
    <2>2. xds' \in {[xds EXCEPT ![r][a] = dbKey[a]], [xds EXCEPT ![r][a] = @]}
      BY <1>7 DEF SyncKeys
    <2>3. [xds EXCEPT ![r][a] = @] = [xds EXCEPT ![r][a] = xds[r][a]]
      BY <2>1 DEF TypeInv, TypeOK
    <2>4. Mem(xds')
      BY <1>1, <1>2, <1>3, <2>1, <2>2, <2>3
    <2>5. adopted' \in [Replicas -> BOOLEAN]
      <3>1. adopted \in [Replicas -> BOOLEAN]
        BY DEF TypeInv, TypeOK
      <3>2. \E v \in BOOLEAN : adopted' = [adopted EXCEPT ![r] = v]
        BY <1>7, <3>1, Zenon DEF SyncKeys
      <3> QED BY <3>1, <3>2
    <2>6. busy' \in [Replicas -> 0..MaxApis]
      BY <1>5, <1>7 DEF SyncKeys
    <2>7. UNCHANGED <<dbVars, log, reqVars, pos, conf, mem, faults, restarts,
                      overwritten>>
      BY <1>7 DEF SyncKeys
    <2>8. TypeOK'
      BY <2>4, <2>5, <2>6, <2>7 DEF TypeInv, TypeOK, Mem
    <2> QED BY <2>7, <2>8 DEF TypeInv, WriteInv, Writing
  <1>8. CASE HandleApiGone(r) \/ HandleKey(r) \/ HandleKeyGone(r)
    <2> DEFINE a == Event(r).api
    <2>1. PICK kind : Handles(r, kind)
      BY <1>8 DEF HandleApiGone, HandleKey, HandleKeyGone
    <2>2. a \in Apis
      BY <1>1, <2>1, EventTypes
    <2>3. busy' = busy /\ adopted' = adopted
      BY <1>8 DEF HandleApiGone, HandleKey, HandleKeyGone
    <2>4. conf' \in [Replicas -> Confs]
      BY <1>1, <1>5, <1>8, Empties
         DEF HandleApiGone, HandleKey, HandleKeyGone, Resolved
    <2>5. /\ [xds EXCEPT ![r][a] = @] = [xds EXCEPT ![r][a] = xds[r][a]]
          /\ [mem EXCEPT ![r][a] = @] = [mem EXCEPT ![r][a] = mem[r][a]]
      BY <2>2 DEF TypeInv, TypeOK
    <2>6. /\ mem' \in {mem, [mem EXCEPT ![r][a] = NoKey],
                       [mem EXCEPT ![r][a] = dbKey[a]], [mem EXCEPT ![r][a] = @]}
          /\ xds' \in {xds, [xds EXCEPT ![r][a] = NoKey],
                       [xds EXCEPT ![r][a] = dbKey[a]], [xds EXCEPT ![r][a] = @]}
      BY <1>8 DEF HandleApiGone, HandleKey, HandleKeyGone
    <2>7. NoKey \in Rows /\ dbKey[a] \in Rows
          /\ mem[r][a] \in Rows /\ xds[r][a] \in Rows
      BY <1>1, <1>3, <2>2, Empties
    <2>8. \A k \in Rows : /\ Mem([mem EXCEPT ![r][a] = k])
                         /\ Mem([xds EXCEPT ![r][a] = k])
      BY <1>2, <2>2
    <2> HIDE DEF a
    <2>9. Mem(mem')
      BY <1>5, <2>5, <2>6, <2>7, <2>8
    <2>10. Mem(xds')
      BY <1>5, <2>5, <2>6, <2>7, <2>8
    <2> QED BY <1>4, <1>5, <2>1, <2>3, <2>4, <2>9, <2>10
  <1>9. CASE Restart(r)
    <2> DEFINE rows == [a \in Apis |-> IF dbKey[a].on THEN dbKey[a] ELSE NoKey]
    <2>1. rows \in [Apis -> Rows]
      BY <1>1, Empties
    <2>2. mem' = [mem EXCEPT ![r] = rows] /\ xds' = [xds EXCEPT ![r] = rows]
      BY <1>9 DEF Restart
    <2> HIDE DEF rows
    <2>3. Mem(mem') /\ Mem(xds')
      BY <1>5, <2>1, <2>2 DEF Mem
    <2>4. /\ conf' \in [Replicas -> Confs] /\ busy' \in [Replicas -> 0..MaxApis]
          /\ pos' \in [Replicas -> 0..Len(log)] /\ restarts' \in 0..MaxRestarts
      BY <1>1, <1>5, <1>9 DEF Restart, TypeInv, TypeOK
    <2>5. adopted' \in [Replicas -> BOOLEAN]
      BY <1>9 DEF Restart, TypeInv, TypeOK
    <2>6. UNCHANGED <<dbVars, log, reqVars, faults, overwritten>>
      BY <1>9 DEF Restart
    <2>7. TypeOK'
      BY <2>3, <2>4, <2>5, <2>6 DEF TypeInv, TypeOK, Mem
    <2> QED BY <2>6, <2>7 DEF TypeInv, WriteInv, Writing
  <1> QED BY <1>6, <1>7, <1>8, <1>9 DEF Listen

LEMMA TypeInit == Init => TypeInv
  <1> SUFFICES ASSUME Init PROVE TypeInv
    OBVIOUS
  <1> USE SyncAssumption, Empties
  <1>1. /\ overwritten \in BOOLEAN /\ adopted \in [Replicas -> BOOLEAN]
    BY Zenon DEF Init
  <1>2. /\ pc \in [Requests -> {"idle", "write", "publish", "remove"}]
        /\ op \in [Requests -> {"none", "createApi", "updateApi", "deleteApi",
                                "createKey", "regenerateKey", "revokeKey"}]
        /\ api \in [Requests -> 0..MaxApis]
        /\ key \in [Requests -> Rows]
        /\ ops \in 0..MaxOps /\ apis \in 0..MaxApis
    BY DEF Init
  <1>3. /\ log = <<>> /\ pos \in [Replicas -> 0..Len(log)]
        /\ busy \in [Replicas -> 0..MaxApis]
        /\ conf \in [Replicas -> Confs]
        /\ mem \in [Replicas -> [Apis -> Rows]]
        /\ xds \in [Replicas -> [Apis -> Rows]]
        /\ faults \in 0..MaxFaults /\ restarts \in 0..MaxRestarts
    BY DEF Init
  <1>4. dbConf \in Confs /\ dbKey \in [Apis -> Rows]
    BY DEF Init
  <1>5. TypeOK
    BY <1>1, <1>2, <1>3, <1>4 DEF TypeOK
  <1>6. Writing = {} /\ dbConf.ver = 0 /\ ops = 0
    BY DEF Init, Writing, NoConf
  <1> QED BY <1>5, <1>6, FS_EmptySet DEF Init, TypeInv, WriteInv

LEMMA TypeNext == TypeInv /\ [Next]_vars => TypeInv'
  <1> SUFFICES ASSUME TypeInv, [Next]_vars PROVE TypeInv'
    OBVIOUS
  <1>1. CASE UNCHANGED vars
    BY <1>1 DEF vars, dbVars, reqVars, repVars, TypeInv, TypeOK, WriteInv, Writing
  <1> QED BY <1>1, RequestTypes, ListenTypes DEF Next

(* Every variable of the controllers and their database stays in its type, *)
(* with any number of requests under way at once; what a request names is  *)
(* an API that was created, and versions are bounded by the requests made. *)
THEOREM SyncTypeCorrect == Spec => []TypeOK
  <1>1. TypeInv => TypeOK
    BY DEF TypeInv
  <1> QED BY <1>1, TypeInit, TypeNext, PTL DEF Spec

-----------------------------------------------------------------------------
(* The request under way and the rows it reads and writes.                  *)

LEMMA OnlyQ == ASSUME OneRequest PROVE Requests = {Q} /\ Q \in Requests
  BY DEF OneRequest, Q

(* A step that is not one of the request leaves it and the rows alone.     *)
LEMMA RequestFrame ==
    ASSUME OneRequest, [Next]_vars
    PROVE  \/ Request(Q)
           \/ UNCHANGED <<dbVars, log, reqVars, faults, overwritten>>
  <1>1. ASSUME NEW r \in Replicas, Listen(r) \/ Restart(r)
        PROVE  UNCHANGED <<dbVars, log, reqVars, faults, overwritten>>
    BY <1>1 DEF Listen, HandleApi, SyncKeys, HandleApiGone, HandleKey,
         HandleKeyGone, Handles, Restart
  <1>2. ASSUME UNCHANGED vars
        PROVE  UNCHANGED <<dbVars, log, reqVars, faults, overwritten>>
    BY <1>2 DEF vars
  <1> QED BY <1>1, <1>2, OnlyQ DEF Next

LEMMA Started ==
    ASSUME OneRequest, TypeOK, NEW what, NEW a, NEW k, Start(Q, what, a, k)
    PROVE  /\ pc[Q] = "idle" /\ pc'[Q] = "write" /\ op'[Q] = what
           /\ api'[Q] = a /\ key'[Q] = k /\ ops' = ops + 1
           /\ UNCHANGED <<dbConf, dbKey, log, repVars, faults, overwritten>>
  BY OnlyQ DEF Start, TypeOK, dbVars

(* A request starts from the rows as they are.                             *)
LEMMA StartInv ==
    ASSUME OneRequest, TypeOK, RequestInv, RowInv,
           NEW what, NEW a, NEW k, Start(Q, what, a, k),
           what \in ApiOps \cup KeyOps, a = apis', a \in Apis,
           what \in ApiOps => k = NoKey,
           dbConf.id = IF what = "createApi" THEN 0 ELSE a,
           what # "createApi" => apis' = apis,
           what \in KeyOps => k.id # 0,
           what \in KeyOps => (k.on <=> what # "revokeKey"),
           what \in KeyOps /\ what # "createKey" => dbKey[a].id = k.id,
           what = "createKey" => k.id = ops + 1,
           what \in KeyOps => k.val = ops + 1
    PROVE  RequestInv' /\ RowInv'
  <1>1. /\ pc[Q] = "idle" /\ pc'[Q] = "write" /\ op'[Q] = what
        /\ api'[Q] = a /\ key'[Q] = k /\ ops' = ops + 1
        /\ UNCHANGED <<dbConf, dbKey>>
    BY Started
  <1>2. ~Leaving /\ ~Leaving'
    BY <1>1 DEF Leaving
  <1>3. RequestInv'
    <2>1. ApiOps \cap KeyOps = {} /\ "createKey" \in KeyOps
      BY DEF ApiOps, KeyOps
    <2>2. what \in KeyOps => (key'[Q].on <=> op'[Q] # "revokeKey")
      BY <1>1, Zenon
    <2>3. /\ what \in KeyOps => key'[Q].id # 0
          /\ what \in KeyOps /\ what # "createKey" => dbKey'[apis'].id = key'[Q].id
      BY <1>1
    <2>4. what \in KeyOps => key'[Q].val <= ops' /\ dbKey'[apis'].val < key'[Q].val
      <3>1. dbKey[a].val <= ops /\ dbKey[a].val \in Nat /\ ops \in Nat
        BY SyncAssumption DEF RowInv, TypeOK, Rows
      <3> QED BY <1>1, <3>1
    <2> QED BY <1>1, <2>1, <2>2, <2>3, <2>4 DEF RequestInv
  <1>4. dbConf'.id \in {0, apis'} /\ (dbConf'.id = 0 => dbConf' = NoConf)
    BY <1>1 DEF RowInv
  <1>5. ASSUME NEW b \in Apis
        PROVE  /\ dbKey'[b].id # 0 => b = dbConf'.id /\ (dbKey'[b].on <=> ~Leaving')
               /\ dbKey'[b].id = 0 => dbKey'[b] = NoKey
               /\ dbKey'[b].id <= ops' /\ dbKey'[b].val <= ops'
    <2>1. /\ dbKey[b].id <= ops /\ dbKey[b].id \in Nat /\ ops \in Nat
          /\ dbKey[b].val <= ops /\ dbKey[b].val \in Nat
      BY SyncAssumption DEF RowInv, TypeOK, Rows
    <2> QED BY <1>1, <1>2, <2>1 DEF RowInv
  <1> QED BY <1>3, <1>4, <1>5 DEF RowInv

LEMMA NoApiZero == 0 \notin Apis
  BY SyncAssumption DEF Apis

LEMMA RequestStarts ==
    ASSUME OneRequest, TypeOK, RequestInv, RowInv,
           \/ StartCreateApi(Q) \/ StartUpdateApi(Q) \/ StartDeleteApi(Q)
           \/ StartCreateKey(Q) \/ StartRegenerateKey(Q) \/ StartRevokeKey(Q)
    PROVE  RequestInv' /\ RowInv'
  <1> USE SyncAssumption
  <1>1. CASE StartCreateApi(Q)
    <2>1. /\ Start(Q, "createApi", apis + 1, NoKey) /\ apis' = apis + 1
          /\ dbConf.id = 0
      BY <1>1 DEF StartCreateApi
    <2>2. apis + 1 \in Apis
      BY <1>1 DEF StartCreateApi, TypeOK, Apis
    <2>3. "createApi" \in ApiOps /\ "createApi" \notin KeyOps
      BY DEF ApiOps, KeyOps
    <2> QED BY <2>1, <2>2, <2>3, StartInv
  <1>2. ASSUME dbConf.id # 0, apis' = apis
        PROVE  dbConf.id = apis' /\ dbConf.id \in Apis
    BY <1>2 DEF RowInv, TypeOK, Apis
  <1>3. CASE StartUpdateApi(Q)
    <2>1. /\ Start(Q, "updateApi", dbConf.id, NoKey) /\ apis' = apis
          /\ dbConf.id # 0
      BY <1>3 DEF StartUpdateApi
    <2>2. "updateApi" \in ApiOps /\ "updateApi" \notin KeyOps
      BY DEF ApiOps, KeyOps
    <2> QED BY <1>2, <2>1, <2>2, StartInv
  <1>4. CASE StartDeleteApi(Q)
    <2>1. /\ Start(Q, "deleteApi", dbConf.id, NoKey) /\ apis' = apis
          /\ dbConf.id # 0
      BY <1>4 DEF StartDeleteApi
    <2>2. "deleteApi" \in ApiOps /\ "deleteApi" \notin KeyOps
      BY DEF ApiOps, KeyOps
    <2> QED BY <1>2, <2>1, <2>2, StartInv
  <1>5. CASE StartCreateKey(Q)
    <2> DEFINE k == [id |-> ops + 1, val |-> ops + 1, on |-> TRUE]
    <2>1. Start(Q, "createKey", dbConf.id, k) /\ apis' = apis /\ dbConf.id # 0
      BY <1>5 DEF StartCreateKey
    <2>2. k.id = ops + 1 /\ k.id # 0 /\ k.on /\ k.val = ops + 1
      BY DEF TypeOK
    <2>3. "createKey" \in KeyOps /\ "createKey" \notin ApiOps
      BY DEF ApiOps, KeyOps
    <2> HIDE DEF k
    <2> QED BY <1>2, <2>1, <2>2, <2>3, StartInv
  <1>6. CASE StartRegenerateKey(Q)
    <2> DEFINE k == [id |-> dbKey[dbConf.id].id, val |-> ops + 1, on |-> TRUE]
    <2>1. /\ Start(Q, "regenerateKey", dbConf.id, k) /\ apis' = apis
          /\ dbConf.id # 0 /\ dbKey[dbConf.id] # NoKey
      BY <1>6 DEF StartRegenerateKey
    <2>2. k.id = dbKey[dbConf.id].id /\ k.on /\ k.val = ops + 1
      OBVIOUS
    <2>3. "regenerateKey" \in KeyOps /\ "regenerateKey" \notin ApiOps
      BY DEF ApiOps, KeyOps
    <2>4. dbKey[dbConf.id].id # 0
      BY <1>2, <2>1 DEF RowInv
    <2> HIDE DEF k
    <2> QED BY <1>2, <2>1, <2>2, <2>3, <2>4, StartInv
  <1>7. CASE StartRevokeKey(Q)
    <2> DEFINE k == [dbKey[dbConf.id] EXCEPT !.val = ops + 1, !.on = FALSE]
    <2>1. /\ Start(Q, "revokeKey", dbConf.id, k) /\ apis' = apis
          /\ dbConf.id # 0 /\ dbKey[dbConf.id].on
      BY <1>7 DEF StartRevokeKey
    <2>2. dbKey[dbConf.id] \in Rows
      BY <1>2, <2>1 DEF TypeOK
    <2>3. k.id = dbKey[dbConf.id].id /\ ~k.on /\ k.val = ops + 1
      BY <2>2 DEF Rows
    <2>4. dbKey[dbConf.id].id # 0
      BY <1>2, <2>1 DEF RowInv, NoKey
    <2>5. "revokeKey" \in KeyOps /\ "revokeKey" \notin ApiOps
      BY DEF ApiOps, KeyOps
    <2> HIDE DEF k
    <2> QED BY <1>2, <2>1, <2>3, <2>4, <2>5, StartInv
  <1> QED BY <1>1, <1>3, <1>4, <1>5, <1>6, <1>7

(* What the row of the API and of the key is after a request has written   *)
(* it.                                                                     *)
LEMMA ApiWritten ==
    ASSUME OneRequest, TypeOK, RequestInv, RowInv, WriteApi(Q)
    PROVE  /\ pc[Q] = "write" /\ pc'[Q] = "publish" /\ op[Q] \in ApiOps
           /\ op[Q] = "deleteApi" => /\ dbConf' = NoConf
                                     /\ dbKey'[apis] = NoKey
           /\ op[Q] # "deleteApi" => dbConf'.id = apis /\ dbKey' = dbKey
           /\ \A a \in Apis : a # apis => dbKey'[a] = dbKey[a]
           /\ UNCHANGED <<log, op, api, key, ops, apis, repVars, faults, overwritten>>
  <1>1. /\ pc[Q] = "write" /\ op[Q] \in ApiOps
        /\ UNCHANGED <<log, op, api, key, ops, apis, repVars, faults, overwritten>>
    BY DEF WriteApi, ApiOps
  <1>2. /\ api[Q] = apis /\ apis \in Apis
        /\ dbConf.id = IF op[Q] = "createApi" THEN 0 ELSE apis
    BY <1>1 DEF RequestInv
  <1>3. /\ pc' = [pc EXCEPT ![Q] = "publish"]
        /\ dbConf' = IF op[Q] = "deleteApi" THEN NoConf
                     ELSE [id |-> apis, ver |-> dbConf.ver + 1]
        /\ dbKey' = IF op[Q] = "deleteApi"
                    THEN [dbKey EXCEPT ![apis] = NoKey] ELSE dbKey
    BY <1>2 DEF WriteApi
  <1>4. pc'[Q] = "publish"
    BY <1>3, OnlyQ DEF TypeOK
  <1>5. /\ op[Q] = "deleteApi" => dbKey'[apis] = NoKey
        /\ \A a \in Apis : a # apis => dbKey'[a] = dbKey[a]
    BY <1>2, <1>3 DEF TypeOK
  <1> QED BY <1>1, <1>3, <1>4, <1>5

LEMMA KeyWritten ==
    ASSUME OneRequest, TypeOK, RequestInv, RowInv, WriteKey(Q)
    PROVE  /\ pc[Q] = "write" /\ pc'[Q] = "publish" /\ op[Q] \in KeyOps
           /\ dbConf.id = apis /\ apis \in Apis /\ api[Q] = apis
           /\ dbKey'[apis].id = key[Q].id /\ key[Q].id # 0
           /\ dbKey'[apis].val = key[Q].val /\ key[Q].val <= ops
           /\ op[Q] # "createKey" => dbKey[apis].id = key[Q].id
           /\ dbKey'[apis].on <=> op[Q] # "revokeKey"
           /\ \A a \in Apis : a # apis => dbKey'[a] = dbKey[a]
           /\ UNCHANGED <<dbConf, log, op, api, key, ops, apis, repVars, faults>>
  <1>1. /\ pc[Q] = "write" /\ op[Q] \in KeyOps
        /\ UNCHANGED <<dbConf, log, op, api, key, ops, apis, repVars, faults>>
        /\ pc' = [pc EXCEPT ![Q] = "publish"]
    BY DEF WriteKey, KeyOps
  <1>2. /\ api[Q] = apis /\ apis \in Apis /\ key[Q].id # 0
        /\ dbConf.id = apis
        /\ op[Q] # "createKey" => dbKey[apis].id = key[Q].id
        /\ key[Q].val <= ops
        /\ op[Q] = "createKey" => dbKey[apis].val < key[Q].val
    BY <1>1 DEF RequestInv, KeyOps
  <1>3. key[Q].on <=> op[Q] # "revokeKey"
    BY <1>1 DEF RequestInv
  <1>4. key[Q] \in Rows
    BY OnlyQ DEF TypeOK
  <1> DEFINE k == [key[Q] EXCEPT !.id = dbKey[apis].id]
  <1>5. k.id = dbKey[apis].id /\ k.val = key[Q].val /\ (k.on <=> key[Q].on)
    BY <1>4 DEF Rows
  <1>6. op[Q] # "createKey" => dbKey[apis] # NoKey
    BY <1>2, Empties
  <1>7. dbKey' = [dbKey EXCEPT ![apis] = IF op[Q] = "createKey" THEN key[Q] ELSE k]
    BY <1>2, <1>6 DEF WriteKey
  <1> HIDE DEF k
  <1>8. dbKey'[apis] = IF op[Q] = "createKey" THEN key[Q] ELSE k
    BY <1>2, <1>7 DEF TypeOK
  <1>9. \A a \in Apis : a # apis => dbKey'[a] = dbKey[a]
    BY <1>7 DEF TypeOK
  <1>10. pc'[Q] = "publish"
    BY <1>1, OnlyQ DEF TypeOK
  <1>11. dbKey'[apis].on <=> op[Q] # "revokeKey"
    BY <1>3, <1>5, <1>8
  <1> QED BY <1>1, <1>2, <1>5, <1>8, <1>9, <1>10, <1>11

LEMMA RequestWrites ==
    ASSUME OneRequest, TypeOK, RequestInv, RowInv, WriteApi(Q) \/ WriteKey(Q)
    PROVE  RequestInv' /\ RowInv'
  <1>1. ApiOps \cap KeyOps = {} /\ "deleteApi" \in ApiOps /\ "revokeKey" \in KeyOps
        /\ "createKey" \in KeyOps
    BY DEF ApiOps, KeyOps
  <1>2. ops \in Nat /\ 0 <= ops
    BY SyncAssumption DEF TypeOK
  <1>3. CASE WriteApi(Q)
    <2>1. /\ pc[Q] = "write" /\ pc'[Q] = "publish" /\ op[Q] \in ApiOps
          /\ op[Q] = "deleteApi" => dbConf' = NoConf /\ dbKey'[apis] = NoKey
          /\ op[Q] # "deleteApi" => dbConf'.id = apis /\ dbKey' = dbKey
          /\ \A a \in Apis : a # apis => dbKey'[a] = dbKey[a]
          /\ UNCHANGED <<op, api, key, ops, apis>>
      BY <1>3, ApiWritten
    <2>2. api[Q] = apis /\ apis \in Apis /\ key[Q] = NoKey
          /\ dbConf.id = IF op[Q] = "createApi" THEN 0 ELSE apis
      BY <2>1 DEF RequestInv
    <2>3. RequestInv'
      BY <1>1, <2>1, <2>2, Empties DEF RequestInv
    <2>4. ~Leaving /\ ~Leaving'
      BY <1>1, <2>1 DEF Leaving
    <2>5. dbConf'.id \in {0, apis'} /\ (dbConf'.id = 0 => dbConf' = NoConf)
      BY <2>1, <2>2, Empties, NoApiZero
    <2>6. ASSUME NEW a \in Apis
          PROVE  /\ dbKey'[a].id # 0 => a = dbConf'.id /\ (dbKey'[a].on <=> ~Leaving')
                 /\ dbKey'[a].id = 0 => dbKey'[a] = NoKey
                 /\ dbKey'[a].id <= ops' /\ dbKey'[a].val <= ops'
      <3>1. CASE dbKey'[a] = NoKey
        BY <1>2, <2>1, <3>1, Empties
      <3>2. CASE dbKey'[a] # NoKey
        <4>1. dbKey'[a] = dbKey[a]
          BY <2>1, <3>2
        <4>2. /\ dbKey[a].id # 0 => a = dbConf.id /\ (dbKey[a].on <=> ~Leaving)
              /\ dbKey[a].id = 0 => dbKey[a] = NoKey
              /\ dbKey[a].id <= ops /\ dbKey[a].val <= ops
          BY DEF RowInv
        <4>3. dbKey[a].id # 0 /\ dbConf.id = a
          BY <3>2, <4>1, <4>2
        <4>4. dbConf'.id = a
          <5>1. dbConf.id = apis /\ a = apis
            BY <2>2, <4>3, NoApiZero
          <5> QED BY <2>1, <3>2, <5>1
        <4> QED BY <2>1, <2>4, <4>1, <4>2, <4>3, <4>4
      <3> QED BY <3>1, <3>2
    <2> QED BY <2>3, <2>5, <2>6 DEF RowInv
  <1>4. CASE WriteKey(Q)
    <2>1. /\ pc[Q] = "write" /\ pc'[Q] = "publish" /\ op[Q] \in KeyOps
          /\ dbConf.id = apis /\ apis \in Apis /\ api[Q] = apis
          /\ dbKey'[apis].id = key[Q].id /\ key[Q].id # 0
          /\ dbKey'[apis].val = key[Q].val /\ key[Q].val <= ops
          /\ dbKey'[apis].on <=> op[Q] # "revokeKey"
          /\ \A a \in Apis : a # apis => dbKey'[a] = dbKey[a]
          /\ UNCHANGED <<dbConf, op, api, key, ops, apis>>
      BY <1>4, KeyWritten
    <2>2. RequestInv'
      BY <1>1, <2>1 DEF RequestInv
    <2>3. Leaving' <=> op[Q] = "revokeKey"
      BY <2>1 DEF Leaving
    <2>4. dbConf'.id \in {0, apis'} /\ (dbConf'.id = 0 => dbConf' = NoConf)
      BY <2>1 DEF RowInv
    <2>5. ASSUME NEW a \in Apis
          PROVE  /\ dbKey'[a].id # 0 => a = dbConf'.id /\ (dbKey'[a].on <=> ~Leaving')
                 /\ dbKey'[a].id = 0 => dbKey'[a] = NoKey
                 /\ dbKey'[a].id <= ops' /\ dbKey'[a].val <= ops'
      <3>1. CASE a = apis
        <4>1. key[Q].id <= ops
          BY <1>4, <1>2, <2>1, KeyWritten DEF RequestInv, RowInv
        <4> QED BY <2>1, <2>3, <3>1, <4>1
      <3>2. CASE a # apis
        <4>1. dbKey[a] = NoKey /\ dbKey'[a] = dbKey[a]
          BY <2>1, <3>2 DEF RowInv
        <4> QED BY <1>2, <2>1, <4>1, Empties
      <3> QED BY <3>1, <3>2
    <2> QED BY <2>2, <2>4, <2>5 DEF RowInv
  <1> QED BY <1>3, <1>4

(* The row of a key goes with its request, and its event comes before.     *)
LEMMA RequestEnds ==
    ASSUME OneRequest, TypeOK, RequestInv, RowInv,
           Publish(Q) \/ PublishFails(Q) \/ RemoveKey(Q)
    PROVE  /\ RequestInv' /\ RowInv'
           /\ pc'[Q] \in {"idle", "remove"} /\ UNCHANGED <<dbConf, op, api, key, ops,
                apis, repVars, overwritten>>
           /\ Publish(Q) => /\ dbKey' = dbKey /\ pc[Q] = "publish"
                            /\ pc'[Q] = AfterPublish(Q)
           /\ RemoveKey(Q) => /\ pc[Q] = "remove" /\ pc'[Q] = "idle"
                              /\ dbKey'[apis] = NoKey
                              /\ \A a \in Apis : a # apis => dbKey'[a] = dbKey[a]
  <1>1. /\ pc[Q] \in {"publish", "remove"}
        /\ UNCHANGED <<dbConf, op, api, key, ops, apis, repVars, overwritten>>
    BY DEF Publish, PublishFails, RemoveKey, dbVars
  <1>2. api[Q] = apis /\ apis \in Apis
    BY <1>1 DEF RequestInv
  <1>3. CASE Publish(Q) \/ PublishFails(Q)
    <2>1. pc[Q] = "publish" /\ pc'[Q] = AfterPublish(Q) /\ dbKey' = dbKey
      BY <1>3, OnlyQ DEF Publish, PublishFails, TypeOK, dbVars
    <2>2. pc'[Q] = IF op[Q] = "revokeKey" THEN "remove" ELSE "idle"
      BY <2>1 DEF AfterPublish
    <2>3. Leaving' <=> Leaving
      BY <1>1, <2>1, <2>2 DEF Leaving
    <2>4. RequestInv'
      BY <1>1, <2>1, <2>2 DEF RequestInv
    <2>5. RowInv'
      BY <1>1, <2>1, <2>3 DEF RowInv
    <2>6. ~RemoveKey(Q)
      BY <2>1 DEF RemoveKey
    <2> QED BY <1>1, <2>1, <2>2, <2>4, <2>5, <2>6
  <1>4. CASE RemoveKey(Q)
    <2>1. /\ pc[Q] = "remove" /\ pc'[Q] = "idle"
          /\ dbKey' = [dbKey EXCEPT ![apis] = NoKey]
      BY <1>2, <1>4, OnlyQ DEF RemoveKey, TypeOK
    <2>2. dbKey'[apis] = NoKey /\ \A a \in Apis : a # apis => dbKey'[a] = dbKey[a]
      BY <1>2, <2>1 DEF TypeOK
    <2>3. RequestInv'
      BY <2>1 DEF RequestInv
    <2>4. dbConf.id = apis
      BY <2>1 DEF RequestInv
    <2>5. \A a \in Apis : dbKey'[a] = NoKey
      BY <2>2, <2>4 DEF RowInv
    <2>6. RowInv'
      <3>1. ops \in Nat
        BY SyncAssumption DEF TypeOK
      <3> QED BY <1>1, <2>5, <3>1, Empties DEF RowInv
    <2>7. ~Publish(Q)
      BY <2>1 DEF Publish
    <2> QED BY <1>1, <2>1, <2>2, <2>3, <2>6, <2>7
  <1> QED BY <1>3, <1>4

(* The fault budget is only spent.                                         *)
LEMMA FaultsStay ==
    ASSUME OneRequest, TypeOK, [Next]_vars, faults' = 0
    PROVE  faults = 0 /\ ~RemoveKeyFails(Q) /\ ~PublishFails(Q)
  <1>1. faults \in Nat
    BY SyncAssumption DEF TypeOK
  <1>2. ~RemoveKeyFails(Q) /\ ~PublishFails(Q)
    BY <1>1 DEF RemoveKeyFails, PublishFails
  <1>3. ASSUME Request(Q) PROVE faults' = faults
    BY <1>2, <1>3 DEF Request, StartCreateApi, StartUpdateApi, StartDeleteApi,
         StartCreateKey, StartRegenerateKey, StartRevokeKey, Start, WriteApi,
         WriteKey, Publish, RemoveKey
  <1> QED BY <1>2, <1>3, RequestFrame

LEMMA RequestNext ==
    ASSUME OneRequest, TypeOK, RequestInv, RowInv, [Next]_vars, faults' = 0
    PROVE  RequestInv' /\ RowInv'
  <1>1. CASE UNCHANGED <<dbVars, log, reqVars, faults, overwritten>>
    <2>1. UNCHANGED <<dbConf, dbKey, pc, op, api, key, ops, apis>>
      BY <1>1 DEF dbVars, reqVars
    <2>2. Leaving' <=> Leaving
      BY <2>1 DEF Leaving
    <2>3. RequestInv'
      BY <2>1 DEF RequestInv
    <2> QED BY <2>1, <2>2, <2>3 DEF RowInv
  <1>2. CASE Request(Q)
    BY <1>2, RequestStarts, RequestWrites, RequestEnds, FaultsStay DEF Request
  <1> QED BY <1>1, <1>2, RequestFrame

-----------------------------------------------------------------------------
(* The events due.                                                          *)

Events == [kind : {"api", "apiGone", "key", "keyGone"}, api : Apis, key : 0..MaxOps]

LEMMA DueTypes ==
    ASSUME OneRequest, TypeOK, RequestInv
    PROVE  /\ DueLen \in Nat /\ Len(log) \in Nat /\ Len(log) <= DueLen
           /\ \A i \in 1..DueLen : Due(i) \in Events
           /\ \A i \in 1..Len(log) : i \in 1..DueLen /\ Due(i) = log[i]
           /\ \A r \in Replicas : pos[r] \in Nat /\ pos[r] <= Len(log)
  <1>1. log \in Seq(Events) /\ Len(log) \in Nat
    BY DEF TypeOK, Events
  <1>2. /\ DueLen \in Nat /\ Len(log) <= DueLen
        /\ pc[Q] # "publish" => DueLen = Len(log)
        /\ pc[Q] = "publish" => DueLen = Len(log) + 1
    BY <1>1 DEF DueLen
  <1>3. pc[Q] = "publish" => Pending \in Events
    <2>1. pc[Q] = "publish" => Kind(op[Q]) \in {"api", "apiGone", "key", "keyGone"}
      BY DEF RequestInv, Kind, ApiOps, KeyOps
    <2>2. key[Q].id \in 0..MaxOps
      BY OnlyQ DEF TypeOK, Rows
    <2> QED BY <2>1, <2>2 DEF RequestInv, Pending, EventOf, Events
  <1>4. \A i \in 1..Len(log) : i \in 1..DueLen /\ Due(i) = log[i] /\ log[i] \in Events
    BY <1>1, <1>2 DEF Due
  <1>5. \A i \in 1..DueLen : i \in 1..Len(log) \/ (pc[Q] = "publish" /\ Due(i) = Pending)
    BY <1>1, <1>2 DEF Due
  <1>6. \A r \in Replicas : pos[r] \in Nat /\ pos[r] <= Len(log)
    BY <1>1 DEF TypeOK
  <1> QED BY <1>1, <1>2, <1>3, <1>4, <1>5, <1>6

(* Events due stay due where they are; a write makes one more due.         *)
LEMMA DueMoves ==
    ASSUME OneRequest, TypeOK, RequestInv, RowInv, [Next]_vars, faults' = 0
    PROVE  /\ faults = 0
           /\ \A i \in 1..DueLen : Due(i)' = Due(i)
           /\ WriteApi(Q) \/ WriteKey(Q) =>
                 /\ DueLen' = DueLen + 1
                 /\ \A i : i = DueLen + 1 =>
                      Due(i)' = EventOf(Kind(op[Q]), apis, key[Q].id)
           /\ ~WriteApi(Q) /\ ~WriteKey(Q) => DueLen' = DueLen
  <1> USE DEF dbVars, reqVars
  <1>1. log \in Seq(Events) /\ Len(log) \in Nat /\ faults \in Nat
    BY SyncAssumption DEF TypeOK, Events
  <1>2. CASE UNCHANGED <<dbVars, log, reqVars, faults, overwritten>>
    <2>1. UNCHANGED <<log, pc, op, api, key, faults>>
      BY <1>2
    <2>2. ~WriteApi(Q) /\ ~WriteKey(Q)
      <3>1. WriteApi(Q) \/ WriteKey(Q) => pc'[Q] # pc[Q]
        BY OnlyQ DEF WriteApi, WriteKey, TypeOK
      <3> QED BY <2>1, <3>1
    <2> QED BY <2>1, <2>2 DEF DueLen, Due, Pending
  <1>3. CASE \/ StartCreateApi(Q) \/ StartUpdateApi(Q) \/ StartDeleteApi(Q)
             \/ StartCreateKey(Q) \/ StartRegenerateKey(Q) \/ StartRevokeKey(Q)
    <2>1. \E what, a, k : Start(Q, what, a, k)
      BY <1>3 DEF StartCreateApi, StartUpdateApi, StartDeleteApi,
           StartCreateKey, StartRegenerateKey, StartRevokeKey
    <2>2. pc[Q] = "idle" /\ pc'[Q] = "write" /\ log' = log /\ faults' = faults
      BY <2>1, Started
    <2>3. ~WriteApi(Q) /\ ~WriteKey(Q)
      BY <2>2 DEF WriteApi, WriteKey
    <2> QED BY <1>1, <2>2, <2>3 DEF DueLen, Due
  <1>4. CASE WriteApi(Q) \/ WriteKey(Q)
    <2>1. /\ pc[Q] = "write" /\ pc'[Q] = "publish"
          /\ UNCHANGED <<log, op, api, key, apis, faults>>
      BY <1>4, ApiWritten, KeyWritten
    <2>2. api[Q] = apis
      BY <2>1 DEF RequestInv
    <2>3. DueLen = Len(log) /\ DueLen' = Len(log) + 1
      BY <2>1 DEF DueLen
    <2>4. \A i \in 1..DueLen : Due(i)' = Due(i)
      BY <1>1, <2>1, <2>3 DEF Due
    <2>5. \A i : i = DueLen + 1 => Due(i)' = Pending'
      BY <1>1, <2>1, <2>3 DEF Due
    <2>6. Pending' = EventOf(Kind(op[Q]), apis, key[Q].id)
      BY <2>1, <2>2 DEF Pending
    <2> QED BY <1>4, <2>1, <2>3, <2>4, <2>5, <2>6
  <1>5. CASE Publish(Q)
    <2>1. /\ pc[Q] = "publish" /\ pc'[Q] # "publish" /\ faults' = faults
          /\ log' = Append(log, Pending)
      BY <1>5, OnlyQ DEF Publish, TypeOK, Pending, EventOf, AfterPublish
    <2>2. ~WriteApi(Q) /\ ~WriteKey(Q)
      BY <2>1 DEF WriteApi, WriteKey
    <2>3. DueLen = Len(log) + 1 /\ DueLen' = Len(log) + 1
      BY <1>1, <2>1 DEF DueLen
    <2>4. Len(log') = Len(log) + 1
      BY <1>1, <2>1
    <2>5. ASSUME NEW i \in 1..DueLen PROVE Due(i)' = Due(i)
      <3>1. Due(i)' = log'[i]
        BY <1>1, <2>3, <2>4 DEF Due
      <3>2. CASE i <= Len(log)
        BY <1>1, <2>1, <3>1, <3>2 DEF Due
      <3>3. CASE i = Len(log) + 1
        BY <1>1, <2>1, <3>1, <3>3 DEF Due
      <3> QED BY <1>1, <2>3, <3>2, <3>3
    <2> QED BY <2>1, <2>2, <2>3, <2>5
  <1>6. CASE PublishFails(Q)
    BY <1>1, <1>6 DEF PublishFails
  <1>7. CASE RemoveKey(Q)
    <2>1. /\ pc[Q] = "remove" /\ pc'[Q] = "idle" /\ log' = log /\ faults' = faults
      BY <1>7, OnlyQ DEF RemoveKey, TypeOK
    <2>2. ~WriteApi(Q) /\ ~WriteKey(Q)
      BY <2>1 DEF WriteApi, WriteKey
    <2> QED BY <1>1, <2>1, <2>2 DEF DueLen, Due
  <1> QED BY <1>2, <1>3, <1>4, <1>5, <1>6, <1>7, FaultsStay, RequestFrame DEF Request

(* The order of the events due: it is kept, and what a write adds goes at  *)
(* the end.                                                                *)
LEMMA LogOrderNext ==
    ASSUME OneRequest, TypeOK, RequestInv, RowInv, LogInv, [Next]_vars,
           faults' = 0, NEW i \in 1..DueLen', NEW j \in 1..DueLen', i < j
    PROVE  LogOrder(i, j)'
  <1>1. DueLen \in Nat
    BY DueTypes
  <1>2. CASE j \in 1..DueLen
    <2>1. i \in 1..DueLen
      BY <1>1, <1>2
    <2>2. Due(i)' = Due(i) /\ Due(j)' = Due(j)
      BY <1>2, <2>1, DueMoves
    <2> QED BY <1>2, <2>1, <2>2 DEF LogInv, LogOrder
  <1>3. CASE j \notin 1..DueLen
    <2>1. WriteApi(Q) \/ WriteKey(Q)
      BY <1>3, DueMoves
    <2>2. DueLen' = DueLen + 1
      BY <2>1, DueMoves
    <2>3. j = DueLen + 1 /\ i \in 1..DueLen
      BY <1>1, <1>3, <2>2
    <2>4. Due(i)' = Due(i) /\ LogAt(i) /\ Due(i) \in Events
      BY <2>3, DueMoves, DueTypes DEF LogInv
    <2>5. Due(j)'.api = apis /\ Due(j)'.key = key[Q].id
      BY <2>1, <2>3, DueMoves DEF EventOf
    <2>6. Due(i)'.api <= Due(j)'.api
      BY <2>4, <2>5 DEF LogAt
    <2>7. Due(i)'.key <= Due(j)'.key \/ Due(j)'.key = 0
      <3>1. CASE WriteApi(Q)
        <4>1. key[Q] = NoKey
          BY <3>1, ApiWritten DEF RequestInv
        <4> QED BY <2>5, <4>1, Empties
      <3>2. CASE WriteKey(Q)
        <4>1. /\ apis \in Apis /\ key[Q].id # 0
              /\ op[Q] # "createKey" => dbKey[apis].id = key[Q].id
              /\ op[Q] = "createKey" => key[Q].id = ops
          BY <3>2, KeyWritten DEF RequestInv
        <4> QED BY <2>4, <2>5, <4>1 DEF LogAt
      <3> QED BY <2>1, <3>1, <3>2
    <2> QED BY <2>6, <2>7 DEF LogOrder
  <1> QED BY <1>2, <1>3

(* What a write makes due.                                                 *)
LEMMA LogAtNew ==
    ASSUME OneRequest, TypeOK, RequestInv, RowInv, RowInv', RequestInv',
           WriteApi(Q) \/ WriteKey(Q), NEW i,
           Due(i)' = EventOf(Kind(op[Q]), apis, key[Q].id)
    PROVE  LogAt(i)'
  <1>1. /\ Due(i)'.kind = Kind(op[Q]) /\ Due(i)'.api = apis
        /\ Due(i)'.key = key[Q].id
    BY DEF EventOf
  <1>2. pc'[Q] = "publish" /\ apis' = apis /\ ops' = ops /\ op' = op /\ pc[Q] = "write"
    BY ApiWritten, KeyWritten
  <1>3. apis \in Nat /\ ops \in Nat /\ key[Q].id \in Nat
    BY OnlyQ, SyncAssumption DEF TypeOK, Rows
  <1>4. CASE WriteApi(Q)
    <2>1. /\ op[Q] \in ApiOps
          /\ op[Q] = "deleteApi" => dbConf' = NoConf
          /\ op[Q] # "deleteApi" => dbConf'.id = apis
          /\ apis \in Apis /\ key[Q] = NoKey
      BY <1>2, <1>4, ApiWritten DEF RequestInv
    <2>2. Due(i)'.key = 0 /\ Due(i)'.kind \in {"api", "apiGone"}
      BY <1>1, <2>1, Empties DEF Kind, ApiOps
    <2>3. Due(i)'.kind = "apiGone" => dbConf'.id = 0
      BY <1>1, <2>1, Empties DEF Kind, ApiOps
    <2>4. \A a \in Apis : dbKey'[a].id # 0 => 0 <= dbKey'[a].id
      <3>1. \A a \in Apis : a # apis => dbKey'[a] = dbKey[a]
        BY <1>4, ApiWritten
      <3>2. dbKey'[apis] = NoKey \/ dbKey'[apis] = dbKey[apis]
        BY <1>4, ApiWritten
      <3>3. \A a \in Apis : dbKey[a].id \in Nat
        BY SyncAssumption DEF TypeOK, Rows
      <3> QED BY <3>1, <3>2, <3>3, Empties
    <2>5. \A a \in Apis : Due(i)' # EventOf("keyGone", a, dbKey'[a].id)
      BY <2>2 DEF EventOf
    <2> QED BY <1>1, <1>2, <1>3, <2>1, <2>2, <2>3, <2>4, <2>5, NoApiZero DEF LogAt
  <1>5. CASE WriteKey(Q)
    <2>1. /\ op[Q] \in KeyOps /\ key[Q].id # 0 /\ dbKey'[apis].id = key[Q].id
          /\ \A a \in Apis : a # apis => dbKey'[a] = dbKey[a]
          /\ dbConf.id = apis
          /\ op[Q] # "createKey" => dbKey[apis].id = key[Q].id
          /\ op[Q] = "createKey" => key[Q].id = ops
      BY <1>2, <1>5, KeyWritten DEF RequestInv
    <2>2. Due(i)'.kind = IF op[Q] = "revokeKey" THEN "keyGone" ELSE "key"
      BY <1>1, <2>1 DEF Kind, KeyOps
    <2>3. Leaving' <=> op[Q] = "revokeKey"
      BY <1>2 DEF Leaving
    <2>4. \A a \in Apis : dbKey'[a].id # 0 => a = apis
      BY <2>1 DEF RowInv
    <2>5. \A a \in Apis : Due(i)' = EventOf("keyGone", a, dbKey'[a].id) => Leaving'
      BY <2>2, <2>3 DEF EventOf
    <2>6. key[Q].id <= ops'
      BY <2>1, <1>2, <1>3 DEF RequestInv, RowInv
    <2> QED BY <1>1, <1>2, <1>3, <2>1, <2>2, <2>4, <2>5, <2>6 DEF LogAt
  <1> QED BY <1>4, <1>5

LEMMA LogAtKept ==
    ASSUME OneRequest, TypeOK, RequestInv, RowInv, LogInv, [Next]_vars,
           faults' = 0, NEW i \in 1..DueLen
    PROVE  LogAt(i)'
  <1>1. Due(i)' = Due(i) /\ LogAt(i) /\ Due(i) \in Events
    BY DueMoves, DueTypes DEF LogInv
  <1>2. /\ Due(i).api \in Apis /\ Due(i).key \in Nat /\ Due(i).api \in Nat
        /\ apis \in Nat /\ ops \in Nat
    BY <1>1, SyncAssumption DEF Events, TypeOK, Apis
  <1>3. CASE UNCHANGED <<dbVars, log, reqVars, faults, overwritten>>
    <2>1. UNCHANGED <<dbConf, dbKey, pc, op, apis, ops>>
      BY <1>3 DEF dbVars, reqVars
    <2>2. Leaving' <=> Leaving
      BY <2>1 DEF Leaving
    <2> QED BY <1>1, <2>1, <2>2 DEF LogAt
  <1>4. CASE \/ StartCreateApi(Q) \/ StartUpdateApi(Q) \/ StartDeleteApi(Q)
             \/ StartCreateKey(Q) \/ StartRegenerateKey(Q) \/ StartRevokeKey(Q)
    <2>1. PICK what, a, k : /\ Start(Q, what, a, k)
                            /\ apis' = IF what = "createApi" THEN apis + 1 ELSE apis
      BY <1>4 DEF StartCreateApi, StartUpdateApi, StartDeleteApi,
           StartCreateKey, StartRegenerateKey, StartRevokeKey
    <2>2. /\ pc[Q] = "idle" /\ pc'[Q] = "write" /\ op'[Q] = what /\ ops' = ops + 1
          /\ UNCHANGED <<dbConf, dbKey>>
      BY <2>1, Started
    <2>3. ~Leaving
      BY <2>2 DEF Leaving
    <2> QED BY <1>1, <1>2, <2>1, <2>2, <2>3 DEF LogAt
  <1>5. CASE WriteApi(Q)
    <2>1. /\ pc[Q] = "write" /\ pc'[Q] = "publish" /\ op[Q] \in ApiOps
          /\ op[Q] = "deleteApi" => dbConf' = NoConf /\ dbKey'[apis] = NoKey
          /\ op[Q] # "deleteApi" => dbConf'.id = apis /\ dbKey' = dbKey
          /\ \A a \in Apis : a # apis => dbKey'[a] = dbKey[a]
          /\ UNCHANGED <<op, ops, apis>>
      BY <1>5, ApiWritten
    <2>2. dbConf.id = IF op[Q] = "createApi" THEN 0 ELSE apis
      BY <2>1 DEF RequestInv
    <2>3. Due(i).kind = "apiGone" => Due(i).api # dbConf'.id
      BY <1>1, <1>2, <2>1, <2>2, Empties, NoApiZero DEF LogAt
    <2>4. \A a \in Apis : dbKey'[a] = dbKey[a] \/ dbKey'[a] = NoKey
      BY <2>1
    <2>5. ~Leaving
      BY <2>1 DEF Leaving
    <2>6. \A a \in Apis : dbKey'[a].id # 0 => Due(i).key <= dbKey'[a].id
      BY <1>1, <2>4, Empties DEF LogAt
    <2>7. \A a \in Apis : Due(i) # EventOf("keyGone", a, dbKey'[a].id)
      <3>1. \A a \in Apis : Due(i) # EventOf("keyGone", a, dbKey[a].id)
        BY <1>1, <2>5 DEF LogAt
      <3>2. \A a \in Apis : Due(i) # EventOf("keyGone", a, 0)
        BY <1>1 DEF LogAt, EventOf
      <3> QED BY <2>4, <3>1, <3>2, Empties
    <2> QED BY <1>1, <2>1, <2>3, <2>6, <2>7 DEF LogAt
  <1>6. CASE WriteKey(Q)
    <2>1. /\ pc[Q] = "write" /\ pc'[Q] = "publish" /\ op[Q] \in KeyOps
          /\ dbConf.id = apis /\ apis \in Apis
          /\ dbKey'[apis].id = key[Q].id /\ key[Q].id # 0
          /\ op[Q] # "createKey" => dbKey[apis].id = key[Q].id
          /\ op[Q] = "createKey" => key[Q].id = ops
          /\ \A a \in Apis : a # apis => dbKey'[a] = dbKey[a]
          /\ UNCHANGED <<dbConf, op, ops, apis>>
      BY <1>6, KeyWritten DEF RequestInv
    <2>2. ~Leaving /\ (Leaving' <=> op[Q] = "revokeKey")
      BY <2>1 DEF Leaving
    <2>3. \A a \in Apis : dbKey'[a].id # 0 => a = apis
      BY <2>1 DEF RowInv
    <2>4. Due(i).key <= key[Q].id
      BY <1>1, <2>1 DEF LogAt
    <2>5. ASSUME NEW a \in Apis, Due(i) = EventOf("keyGone", a, dbKey'[a].id)
          PROVE  Leaving'
      <3>1. Due(i).kind = "keyGone" /\ Due(i).key = dbKey'[a].id
        BY <2>5 DEF EventOf
      <3>2. Due(i).key # 0 /\ a = apis
        BY <1>1, <2>3, <3>1 DEF LogAt
      <3>3. op[Q] # "createKey"
        BY <1>1, <2>1, <3>1, <3>2 DEF LogAt
      <3>4. Due(i) = EventOf("keyGone", a, dbKey[a].id)
        BY <2>1, <2>5, <3>2, <3>3
      <3> QED BY <1>1, <2>2, <3>4 DEF LogAt
    <2> QED BY <1>1, <2>1, <2>3, <2>4, <2>5 DEF LogAt
  <1>7. CASE Publish(Q)
    <2>1. /\ pc[Q] = "publish" /\ pc'[Q] = AfterPublish(Q)
          /\ UNCHANGED <<dbConf, dbKey, op, ops, apis>>
      BY <1>7, RequestEnds
    <2>2. pc'[Q] = IF op[Q] = "revokeKey" THEN "remove" ELSE "idle"
      BY <2>1 DEF AfterPublish
    <2>3. Leaving' <=> Leaving
      BY <2>1, <2>2 DEF Leaving
    <2> QED BY <1>1, <2>1, <2>2, <2>3 DEF LogAt
  <1>8. CASE PublishFails(Q)
    BY <1>8, SyncAssumption DEF PublishFails, TypeOK
  <1>9. CASE RemoveKey(Q)
    <2>1. /\ pc[Q] = "remove" /\ pc'[Q] = "idle" /\ dbKey'[apis] = NoKey
          /\ \A a \in Apis : a # apis => dbKey'[a] = dbKey[a]
          /\ UNCHANGED <<dbConf, op, ops, apis>>
      BY <1>9, RequestEnds
    <2>2. \A a \in Apis : dbKey'[a].id = 0
      BY <2>1, Empties DEF RowInv, RequestInv
    <2>3. \A a \in Apis : Due(i) # EventOf("keyGone", a, dbKey'[a].id)
      BY <1>1, <2>2 DEF LogAt, EventOf
    <2> QED BY <1>1, <2>1, <2>2, <2>3 DEF LogAt
  <1> QED BY <1>3, <1>4, <1>5, <1>6, <1>7, <1>8, <1>9, FaultsStay, RequestFrame
          DEF Request

LEMMA LogNext ==
    ASSUME OneRequest, TypeOK, RequestInv, RowInv, LogInv, [Next]_vars, faults' = 0
    PROVE  LogInv'
  <1>1. RequestInv' /\ RowInv' /\ DueLen \in Nat
    BY RequestNext, DueTypes
  <1>2. ASSUME NEW i \in 1..DueLen' PROVE LogAt(i)'
    <2>1. CASE i \in 1..DueLen
      BY <2>1, LogAtKept
    <2>2. CASE i \notin 1..DueLen
      <3>1. WriteApi(Q) \/ WriteKey(Q)
        BY <2>2, DueMoves
      <3>2. DueLen' = DueLen + 1
        BY <3>1, DueMoves
      <3>3. i = DueLen + 1
        BY <1>1, <2>2, <3>2
      <3>4. Due(i)' = EventOf(Kind(op[Q]), apis, key[Q].id)
        BY <3>1, <3>3, DueMoves
      <3> QED BY <1>1, <3>1, <3>4, LogAtNew
    <2> QED BY <2>1, <2>2
  <1>3. ASSUME pc'[Q] = "remove"
        PROVE  \E n \in 1..DueLen' :
                  n = DueLen' /\ Due(n)' = EventOf("keyGone", apis', key'[Q].id)
    <2>1. CASE pc[Q] = "remove"
      <3>1. UNCHANGED <<pc, op, apis, key>> \/ Request(Q)
        BY RequestFrame DEF reqVars
      <3>2. ~Request(Q)
        <4>1. \A what, a, k : ~Start(Q, what, a, k)
          BY <2>1 DEF Start
        <4>2. ~RemoveKey(Q)
          BY <1>3, RequestEnds
        <4> QED BY <2>1, <4>1, <4>2, FaultsStay DEF Request, StartCreateApi, StartUpdateApi,
              StartDeleteApi, StartCreateKey, StartRegenerateKey, StartRevokeKey,
              WriteApi, WriteKey, Publish, PublishFails
      <3>3. ~WriteApi(Q) /\ ~WriteKey(Q)
        BY <2>1 DEF WriteApi, WriteKey
      <3>4. DueLen' = DueLen /\ \A i \in 1..DueLen : Due(i)' = Due(i)
        BY <3>3, DueMoves
      <3>5. PICK n \in 1..DueLen : /\ n = DueLen
                                   /\ Due(n) = EventOf("keyGone", apis, key[Q].id)
        BY <2>1 DEF LogInv
      <3>6. Due(n)' = Due(n)
        BY <3>4
      <3> QED BY <3>1, <3>2, <3>4, <3>5, <3>6
    <2>2. CASE pc[Q] # "remove"
      <3>1. ~(UNCHANGED <<dbVars, log, reqVars, faults, overwritten>>)
        BY <1>3, <2>2 DEF reqVars
      <3>2. Publish(Q)
        <4>1. \A what, a, k : ~Start(Q, what, a, k)
          BY <1>3, Started
        <4>2. ~WriteApi(Q) /\ ~WriteKey(Q)
          BY <1>3, ApiWritten, KeyWritten
        <4>3. ~RemoveKey(Q)
          BY <2>2 DEF RemoveKey
        <4>4. ~PublishFails(Q)
          BY SyncAssumption DEF PublishFails, TypeOK
        <4> QED BY <3>1, <4>1, <4>2, <4>3, <4>4, FaultsStay, RequestFrame
                DEF Request, StartCreateApi, StartUpdateApi,
              StartDeleteApi, StartCreateKey, StartRegenerateKey, StartRevokeKey
      <3>3. pc[Q] = "publish" /\ UNCHANGED <<op, apis, key>> /\ op[Q] = "revokeKey"
        BY <1>1, <1>3, <3>2, RequestEnds DEF RequestInv
      <3>4. DueLen = Len(log) + 1 /\ Len(log) \in Nat
        BY <3>3, DueTypes DEF DueLen
      <3>5. PICK n \in 1..DueLen : n = DueLen
        BY <3>4
      <3>9. Due(n) = EventOf("keyGone", apis, key[Q].id)
        BY <3>3, <3>4, <3>5 DEF Due, Pending, Kind, RequestInv
      <3>6. ~WriteApi(Q) /\ ~WriteKey(Q)
        BY <3>3 DEF WriteApi, WriteKey
      <3>7. DueLen' = DueLen /\ \A i \in 1..DueLen : Due(i)' = Due(i)
        BY <3>6, DueMoves
      <3>8. Due(n)' = Due(n)
        BY <3>7
      <3> QED BY <3>3, <3>5, <3>7, <3>8, <3>9
    <2> QED BY <2>1, <2>2
  <1> QED BY <1>2, <1>3, LogOrderNext DEF LogInv

-----------------------------------------------------------------------------
(* What is ahead of a replica.                                              *)

Handling(r) ==
    HandleApi(r) \/ HandleApiGone(r) \/ HandleKey(r) \/ HandleKeyGone(r)

(* The step leaves replica r alone.                                        *)
Idles(r) == /\ pos'[r] = pos[r] /\ busy'[r] = busy[r] /\ conf'[r] = conf[r]
            /\ mem'[r] = mem[r] /\ xds'[r] = xds[r] /\ adopted'[r] = adopted[r]

LEMMA ReplicaFrame ==
    ASSUME TypeOK, [Next]_vars, NEW r \in Replicas
    PROVE  Handling(r) \/ SyncKeys(r) \/ Restart(r) \/ Idles(r)
  <1>1. CASE UNCHANGED repVars
    BY <1>1 DEF repVars, Idles
  <1>2. ASSUME NEW q \in Requests, Request(q)
        PROVE  UNCHANGED repVars
    BY <1>2 DEF Request, StartCreateApi, StartUpdateApi, StartDeleteApi,
         StartCreateKey, StartRegenerateKey, StartRevokeKey, Start, WriteApi,
         WriteKey, Publish, PublishFails, RemoveKey, RemoveKeyFails
  <1>3. ASSUME UNCHANGED vars PROVE UNCHANGED repVars
    BY <1>3 DEF vars
  <1>4. ASSUME NEW p \in Replicas, p # r, Listen(p) \/ Restart(p)
        PROVE  Idles(r)
    <2>1. /\ pos' = pos \/ \E v : pos' = [pos EXCEPT ![p] = v]
          /\ busy' = busy \/ \E v : busy' = [busy EXCEPT ![p] = v]
          /\ conf' = conf \/ \E v : conf' = [conf EXCEPT ![p] = v]
          /\ mem' = mem \/ \E v : mem' = [mem EXCEPT ![p] = v]
          /\ xds' = xds \/ \E v : xds' = [xds EXCEPT ![p] = v]
          /\ adopted' = adopted \/ \E v : adopted' = [adopted EXCEPT ![p] = v]
      <3>1. CASE HandleApi(p)
        BY <3>1 DEF HandleApi, Handles
      <3>2. CASE SyncKeys(p)
        BY <3>2 DEF SyncKeys
      <3>3. CASE HandleApiGone(p)
        BY <3>3 DEF HandleApiGone, Handles
      <3>4. CASE HandleKey(p)
        BY <3>4 DEF HandleKey, Handles
      <3>5. CASE HandleKeyGone(p)
        BY <3>5 DEF HandleKeyGone, Handles
      <3>6. CASE Restart(p)
        BY <3>6 DEF Restart
      <3> QED BY <1>4, <3>1, <3>2, <3>3, <3>4, <3>5, <3>6 DEF Listen
    <2> QED BY <1>4, <2>1 DEF Idles, TypeOK
  <1> QED BY <1>1, <1>2, <1>3, <1>4 DEF Next, Listen, Handling

LEMMA AheadKept ==
    ASSUME OneRequest, TypeOK, RequestInv, RowInv, [Next]_vars, faults' = 0,
           NEW r \in Replicas, pos'[r] = pos[r], NEW e, Ahead(r, e)
    PROVE  Ahead(r, e)'
  <1>1. PICK i \in 1..DueLen : pos[r] < i /\ Due(i) = e
    BY DEF Ahead
  <1>2. DueLen \in Nat /\ (DueLen' = DueLen \/ DueLen' = DueLen + 1)
    BY DueTypes, DueMoves
  <1>3. i \in 1..DueLen' /\ Due(i)' = e
    BY <1>1, <1>2, DueMoves
  <1> QED BY <1>1, <1>3 DEF Ahead

(* What a write makes due is ahead of every replica.                       *)
LEMMA AheadNew ==
    ASSUME OneRequest, TypeOK, RequestInv, RowInv, [Next]_vars, faults' = 0,
           WriteApi(Q) \/ WriteKey(Q), NEW r \in Replicas, pos'[r] = pos[r],
           NEW e, e = EventOf(Kind(op[Q]), apis, key[Q].id)
    PROVE  Ahead(r, e)'
  <1>1. PICK i : i = DueLen + 1
    OBVIOUS
  <1>2. DueLen \in Nat /\ Len(log) <= DueLen /\ pos[r] \in Nat /\ pos[r] <= Len(log)
        /\ Len(log) \in Nat
    BY DueTypes
  <1>3. DueLen' = DueLen + 1 /\ Due(i)' = e
    BY <1>1, DueMoves
  <1>4. i \in 1..DueLen' /\ pos'[r] < i
    BY <1>1, <1>2, <1>3
  <1> QED BY <1>3, <1>4 DEF Ahead

(* What replica r knows of the event it handles, and of those after it.    *)
LEMMA HandledAt ==
    ASSUME OneRequest, TypeOK, RequestInv, RowInv, LogInv, [Next]_vars,
           faults' = 0, NEW r \in Replicas, NEW kind, Handles(r, kind)
    PROVE  \E i \in 1..DueLen :
             /\ i = pos[r] + 1 /\ Due(i) = Event(r) /\ LogAt(i)
             /\ i <= Len(log)
             /\ Event(r) \in Events /\ Event(r).kind = kind
             /\ \A e : Ahead(r, e) /\ e # Event(r) =>
                  /\ Ahead(r, e)'
                  /\ \E j \in 1..DueLen : Due(j) = e /\ LogOrder(i, j) /\ LogAt(j)
  <1>1. /\ pos[r] + 1 \in 1..Len(log) /\ Event(r).kind = kind
        /\ pos'[r] = pos[r] + 1
        /\ UNCHANGED <<dbVars, log, reqVars, faults, overwritten>>
    BY EventTypes
  <1>2. PICK i \in 1..DueLen : i = pos[r] + 1 /\ Due(i) = Event(r)
    BY <1>1, DueTypes DEF Event
  <1>3. LogAt(i) /\ Event(r) \in Events
    BY <1>2, DueTypes DEF LogInv
  <1>4. ~WriteApi(Q) /\ ~WriteKey(Q)
    <2>1. pc' = pc
      BY <1>1 DEF reqVars
    <2>2. WriteApi(Q) \/ WriteKey(Q) => pc'[Q] # pc[Q]
      BY OnlyQ DEF WriteApi, WriteKey, TypeOK
    <2> QED BY <2>1, <2>2
  <1>5. DueLen' = DueLen /\ \A j \in 1..DueLen : Due(j)' = Due(j)
    BY <1>4, DueMoves
  <1>6. ASSUME NEW e, Ahead(r, e), e # Event(r)
        PROVE  /\ Ahead(r, e)'
               /\ \E j \in 1..DueLen : Due(j) = e /\ LogOrder(i, j) /\ LogAt(j)
    <2>1. PICK j \in 1..DueLen : pos[r] < j /\ Due(j) = e
      BY <1>6 DEF Ahead
    <2>2. j # i
      BY <1>2, <1>6, <2>1
    <2>3. pos[r] \in Nat /\ DueLen \in Nat
      BY DueTypes
    <2>4. i < j /\ pos'[r] < j
      BY <1>1, <1>2, <2>1, <2>2, <2>3
    <2>5. LogOrder(i, j) /\ LogAt(j)
      BY <2>4 DEF LogInv
    <2>6. Ahead(r, e)'
      BY <1>5, <2>1, <2>4 DEF Ahead
    <2> QED BY <2>1, <2>5, <2>6
  <1> QED BY <1>1, <1>2, <1>3, <1>6

-----------------------------------------------------------------------------
(* The API.                                                                 *)

(* No event of an earlier API comes after one of the API in use.           *)
LEMMA EarlierGone ==
    ASSUME OneRequest, TypeOK, RequestInv, RowInv, LogInv, [Next]_vars,
           faults' = 0, NEW r \in Replicas, ConfInv(r), NEW kind,
           Handles(r, kind), kind # "apiGone", Event(r).api = dbConf.id
    PROVE  conf[r].id \in {0, dbConf.id}
  <1> SUFFICES ASSUME conf[r].id \notin {0, dbConf.id} PROVE FALSE
    OBVIOUS
  <1> DEFINE e == EventOf("apiGone", conf[r].id, 0)
  <1>1. PICK i \in 1..DueLen :
             /\ Due(i) = Event(r)
             /\ Event(r) \in Events /\ Event(r).kind = kind
             /\ \A x : Ahead(r, x) /\ x # Event(r) =>
                  \E j \in 1..DueLen : Due(j) = x /\ LogOrder(i, j) /\ LogAt(j)
    BY HandledAt
  <1>2. Ahead(r, e)
    BY DEF ConfInv
  <1>3. e.kind = "apiGone" /\ e.api = conf[r].id
    BY DEF EventOf
  <1>4. e # Event(r)
    BY <1>1, <1>3
  <1> HIDE DEF e
  <1>5. PICK j \in 1..DueLen : Due(j) = e /\ LogOrder(i, j) /\ LogAt(j)
    BY <1>1, <1>2, <1>4
  <1>6. Event(r).api <= conf[r].id /\ conf[r].id <= apis
    BY <1>1, <1>3, <1>5 DEF LogOrder, LogAt
  <1>7. dbConf.id \in {0, apis} /\ Event(r).api \in Apis
    BY <1>1 DEF RowInv, Events
  <1>8. dbConf.id = apis
    BY <1>7, NoApiZero
  <1>9. apis \in Nat /\ conf[r].id \in Nat
    BY SyncAssumption DEF TypeOK, Confs
  <1> QED BY <1>6, <1>8, <1>9

LEMMA ConfHandled ==
    ASSUME OneRequest, TypeOK, RequestInv, RowInv, LogInv, [Next]_vars,
           faults' = 0, NEW r \in Replicas, ConfInv(r),
           Handling(r) \/ SyncKeys(r) \/ Restart(r)
    PROVE  ConfInv(r)'
  <1>1. dbConf' = dbConf
    BY DEF Handling, HandleApi, HandleApiGone, HandleKey, HandleKeyGone,
           Handles, SyncKeys, Restart, dbVars
  <1>2. CASE conf'[r] = dbConf /\ busy'[r] \in {0, dbConf.id}
    BY <1>1, <1>2 DEF ConfInv, RowInv
  <1>3. ASSUME conf'[r] = conf[r], busy'[r] \in {0, busy[r]},
               \A e \in {EventOf("api", dbConf.id, 0),
                         EventOf("apiGone", conf[r].id, 0)} :
                  Ahead(r, e) => Ahead(r, e)'
        PROVE  ConfInv(r)'
    <2>1. ASSUME dbConf.id # 0, conf[r] # dbConf,
                 NEW e, e = EventOf("api", dbConf.id, 0)
          PROVE  Ahead(r, e)'
      BY <1>3, <2>1 DEF ConfInv
    <2>2. ASSUME conf[r].id \notin {0, dbConf.id},
                 NEW e, e = EventOf("apiGone", conf[r].id, 0)
          PROVE  Ahead(r, e)'
      BY <1>3, <2>2 DEF ConfInv
    <2> QED BY <1>1, <1>3, <2>1, <2>2 DEF ConfInv, Ahead
  <1>4. CASE SyncKeys(r)
    <2>1. conf' = conf /\ pos' = pos /\ busy'[r] = 0
      BY <1>4 DEF SyncKeys, TypeOK
    <2> QED BY <1>3, <2>1, AheadKept
  <1>5. CASE Restart(r)
    <2>1. conf'[r] = dbConf /\ busy'[r] = 0
      BY <1>5 DEF Restart, TypeOK
    <2> QED BY <1>2, <2>1
  <1>6. CASE HandleApi(r)
    <2> DEFINE a == Event(r).api
    <2>1. Handles(r, "api")
      BY <1>6 DEF HandleApi
    <2>2. PICK i \in 1..DueLen :
             /\ Event(r) \in Events /\ Event(r).kind = "api"
             /\ \A e : Ahead(r, e) /\ e # Event(r) => Ahead(r, e)'
      BY <2>1, HandledAt
    <2>3. CASE dbConf.id = a
      <3>1. conf[r].id \in {0, a}
        BY <2>1, <2>3, EarlierGone
      <3>2. conf'[r] = dbConf /\ busy'[r] = a
        BY <1>6, <2>3, <3>1 DEF HandleApi, ApiIntoMemory, TypeOK
      <3> QED BY <1>2, <2>3, <3>2
    <2>4. CASE dbConf.id # a
      <3>1. conf'[r] = conf[r] /\ busy'[r] = 0
        BY <1>6, <2>4 DEF HandleApi, TypeOK
      <3>2. /\ Event(r) # EventOf("api", dbConf.id, 0)
            /\ Event(r) # EventOf("apiGone", conf[r].id, 0)
        BY <2>2, <2>4 DEF EventOf
      <3> QED BY <1>3, <2>2, <3>1, <3>2
    <2> QED BY <2>3, <2>4
  <1>7. CASE HandleApiGone(r)
    <2> DEFINE a == Event(r).api
    <2>1. Handles(r, "apiGone")
      BY <1>7 DEF HandleApiGone
    <2>2. PICK i \in 1..DueLen :
             /\ Due(i) = Event(r) /\ LogAt(i)
             /\ Event(r) \in Events /\ Event(r).kind = "apiGone"
             /\ \A e : Ahead(r, e) /\ e # Event(r) => Ahead(r, e)'
      BY <2>1, HandledAt
    <2>3. conf'[r] = (IF conf[r].id = a THEN NoConf ELSE conf[r]) /\ busy' = busy
          /\ busy[r] = 0
      BY <1>7, <2>1, EventTypes DEF HandleApiGone, TypeOK
    <2>4. a # dbConf.id
      BY <2>2 DEF LogAt
    <2>5. ASSUME dbConf.id # 0, conf'[r] # dbConf,
                 NEW e, e = EventOf("api", dbConf.id, 0)
          PROVE  Ahead(r, e)'
      <3>1. conf[r] # dbConf
        BY <2>3, <2>4, <2>5
      <3>2. Ahead(r, e) /\ e # Event(r)
        BY <2>2, <2>5, <3>1 DEF ConfInv, EventOf
      <3> QED BY <2>2, <3>2
    <2>6. ASSUME conf'[r].id \notin {0, dbConf.id},
                 NEW e, e = EventOf("apiGone", conf'[r].id, 0)
          PROVE  Ahead(r, e)'
      <3>1. conf'[r] = conf[r] /\ conf[r].id # a
        BY <2>3, <2>6, Empties
      <3>2. Ahead(r, e) /\ e # Event(r)
        BY <2>6, <3>1 DEF ConfInv, EventOf
      <3> QED BY <2>2, <3>2
    <2>7. /\ conf'[r].id = 0 => conf'[r] = NoConf
          /\ busy'[r] # 0 => conf'[r].id = busy'[r]
      BY <2>3 DEF ConfInv
    <2> QED BY <1>1, <2>5, <2>6, <2>7 DEF ConfInv, Ahead
  <1>8. CASE HandleKey(r) \/ HandleKeyGone(r)
    <2>1. PICK kind \in {"key", "keyGone"} : Handles(r, kind)
      BY <1>8 DEF HandleKey, HandleKeyGone
    <2>2. PICK i \in 1..DueLen :
             /\ Event(r).kind = kind
             /\ \A e : Ahead(r, e) /\ e # Event(r) => Ahead(r, e)'
      BY <2>1, HandledAt
    <2>3. busy' = busy /\ busy[r] = 0
      BY <1>8, <2>1, EventTypes DEF HandleKey, HandleKeyGone
    <2>4. conf'[r] \in {conf[r], dbConf}
      BY <1>8 DEF HandleKey, HandleKeyGone, Resolved, TypeOK
    <2>5. CASE conf'[r] = dbConf
      BY <1>2, <2>3, <2>5
    <2>6. CASE conf'[r] = conf[r]
      <3>1. /\ Event(r) # EventOf("api", dbConf.id, 0)
            /\ Event(r) # EventOf("apiGone", conf[r].id, 0)
        BY <2>2 DEF EventOf
      <3> QED BY <1>3, <2>2, <2>3, <2>6, <3>1
    <2> QED BY <2>4, <2>5, <2>6
  <1> QED BY <1>4, <1>5, <1>6, <1>7, <1>8 DEF Handling

(* The steps that change the rows.                                         *)
LEMMA DbMoves ==
    ASSUME OneRequest, TypeOK, RequestInv, RowInv, [Next]_vars, faults' = 0
    PROVE  \/ WriteApi(Q) \/ WriteKey(Q) \/ RemoveKey(Q)
           \/ UNCHANGED <<dbConf, dbKey, overwritten>> /\ (Leaving' <=> Leaving)
  <1>1. CASE UNCHANGED <<dbVars, log, reqVars, faults, overwritten>>
    BY <1>1 DEF dbVars, reqVars, Leaving
  <1>2. ASSUME NEW what, NEW a, NEW k, Start(Q, what, a, k)
        PROVE  UNCHANGED <<dbConf, dbKey, overwritten>> /\ (Leaving' <=> Leaving)
    <2>1. /\ pc[Q] = "idle" /\ pc'[Q] = "write"
          /\ UNCHANGED <<dbConf, dbKey, overwritten>>
      BY <1>2, Started
    <2> QED BY <2>1 DEF Leaving
  <1>3. CASE Publish(Q) \/ PublishFails(Q)
    <2>1. /\ pc[Q] = "publish" /\ pc'[Q] = AfterPublish(Q) /\ op' = op
          /\ UNCHANGED <<dbConf, dbKey, overwritten>>
      BY <1>3, OnlyQ DEF Publish, PublishFails, TypeOK, dbVars
    <2> QED BY <2>1 DEF Leaving, AfterPublish
  <1> QED BY <1>1, <1>2, <1>3, FaultsStay, RequestFrame
          DEF Request, StartCreateApi, StartUpdateApi, StartDeleteApi,
              StartCreateKey, StartRegenerateKey, StartRevokeKey

LEMMA ConfIdle ==
    ASSUME OneRequest, TypeOK, RequestInv, RowInv, [Next]_vars,
           faults' = 0, NEW r \in Replicas, ConfInv(r), Idles(r)
    PROVE  ConfInv(r)'
  <1>1. pos'[r] = pos[r] /\ conf'[r] = conf[r] /\ busy'[r] = busy[r]
    BY DEF Idles
  <1>2. CASE dbConf' = dbConf
    <2>1. ASSUME dbConf.id # 0, conf[r] # dbConf,
                 NEW e, e = EventOf("api", dbConf.id, 0)
          PROVE  Ahead(r, e)'
      BY <1>1, <2>1, AheadKept DEF ConfInv
    <2>2. ASSUME conf[r].id \notin {0, dbConf.id},
                 NEW e, e = EventOf("apiGone", conf[r].id, 0)
          PROVE  Ahead(r, e)'
      BY <1>1, <2>2, AheadKept DEF ConfInv
    <2> QED BY <1>1, <1>2, <2>1, <2>2 DEF ConfInv, Ahead
  <1>3. CASE WriteApi(Q)
    <2>1. /\ op[Q] \in ApiOps /\ pc[Q] = "write"
          /\ op[Q] = "deleteApi" => dbConf' = NoConf
          /\ op[Q] # "deleteApi" => dbConf'.id = apis
      BY <1>3, ApiWritten
    <2>2. /\ apis \in Apis /\ key[Q] = NoKey
          /\ dbConf.id = IF op[Q] = "createApi" THEN 0 ELSE apis
      BY <2>1 DEF RequestInv
    <2>3. ASSUME NEW e, e = EventOf(Kind(op[Q]), apis, 0)
          PROVE  Ahead(r, e)'
      BY <1>1, <1>3, <2>2, <2>3, AheadNew, Empties
    <2>4. ASSUME dbConf'.id # 0, NEW e, e = EventOf("api", dbConf'.id, 0)
          PROVE  Ahead(r, e)'
      <3>1. op[Q] # "deleteApi" /\ dbConf'.id = apis
        BY <2>1, <2>4, Empties
      <3>2. Kind(op[Q]) = "api"
        BY <2>1, <3>1 DEF Kind, ApiOps
      <3> QED BY <2>3, <2>4, <3>1, <3>2
    <2>5. ASSUME conf[r].id \notin {0, dbConf'.id},
                 NEW e, e = EventOf("apiGone", conf[r].id, 0)
          PROVE  Ahead(r, e)'
      <3>1. CASE conf[r].id \notin {0, dbConf.id}
        BY <1>1, <2>5, <3>1, AheadKept DEF ConfInv
      <3>2. CASE conf[r].id = dbConf.id
        <4>1. op[Q] = "deleteApi" /\ conf[r].id = apis
          BY <2>1, <2>2, <2>5, <3>2
        <4>2. Kind(op[Q]) = "apiGone"
          BY <4>1 DEF Kind
        <4> QED BY <2>3, <2>5, <4>1, <4>2
      <3> QED BY <2>5, <3>1, <3>2
    <2> QED BY <1>1, <2>4, <2>5 DEF ConfInv, Ahead
  <1>4. WriteKey(Q) \/ RemoveKey(Q) => dbConf' = dbConf
    BY DEF WriteKey, RemoveKey
  <1> QED BY <1>2, <1>3, <1>4, DbMoves

-----------------------------------------------------------------------------
(* The key.                                                                 *)

(* A request that writes a row makes the event due that repairs it.        *)
LEMMA RepairIdle ==
    ASSUME OneRequest, TypeOK, RequestInv, RowInv, [Next]_vars,
           faults' = 0, NEW r \in Replicas, NEW a \in Apis, pos'[r] = pos[r],
           NEW v, Repair(r, a, v)
    PROVE  Repair(r, a, v)'
  <1> SUFFICES ASSUME ~overwritten', dbKey'[a].id # 0, ~Leaving', v # dbKey'[a],
                      NEW e, e = EventOf("key", a, dbKey'[a].id)
               PROVE  Ahead(r, e)'
    BY DEF Repair, Ahead
  <1>1. CASE dbKey'[a] = dbKey[a] /\ ~overwritten /\ ~Leaving
    <2>1. Ahead(r, e)
      BY <1>1 DEF Repair
    <2> QED BY <2>1, AheadKept
  <1>2. CASE UNCHANGED <<dbConf, dbKey, overwritten>> /\ (Leaving' <=> Leaving)
    <2>1. dbKey'[a] = dbKey[a] /\ ~overwritten /\ ~Leaving
      BY <1>2, Zenon
    <2> QED BY <1>1, <2>1
  <1>3. CASE WriteApi(Q)
    <2>1. dbKey'[a] = dbKey[a]
      <3>1. dbKey'[a] # NoKey
        BY Empties
      <3> QED BY <1>3, <3>1, ApiWritten
    <2>2. overwritten' = overwritten /\ pc[Q] = "write"
      BY <1>3, ApiWritten
    <2>3. ~overwritten /\ ~Leaving
      BY <2>2, Zenon DEF Leaving
    <2> QED BY <1>1, <2>1, <2>3
  <1>4. CASE WriteKey(Q)
    <2>1. /\ op[Q] \in KeyOps /\ dbKey'[apis].id = key[Q].id
          /\ \A b \in Apis : b # apis => dbKey'[b] = dbKey[b]
          /\ dbConf.id = apis /\ pc'[Q] = "publish" /\ op' = op
      BY <1>4, KeyWritten
    <2>2. a = apis
      BY <2>1 DEF RowInv
    <2>3. op[Q] # "revokeKey"
      BY <2>1 DEF Leaving
    <2>4. Kind(op[Q]) = "key"
      BY <2>1, <2>3 DEF Kind, KeyOps
    <2> QED BY <1>4, <2>1, <2>2, <2>4, AheadNew
  <1>5. CASE RemoveKey(Q)
    <2>1. /\ dbKey'[apis] = NoKey /\ pc[Q] = "remove"
          /\ \A b \in Apis : b # apis => dbKey'[b] = dbKey[b]
      BY <1>5, RequestEnds
    <2>2. dbConf.id = apis
      BY <2>1 DEF RequestInv
    <2> QED BY <2>1, <2>2, Empties DEF RowInv
  <1> QED BY <1>2, <1>3, <1>4, <1>5, DbMoves

LEMMA RemovalIdle ==
    ASSUME OneRequest, TypeOK, RequestInv, RowInv, [Next]_vars,
           faults' = 0, NEW r \in Replicas, NEW a \in Apis, pos'[r] = pos[r],
           NEW k, Removal(r, a, k)
    PROVE  Removal(r, a, k)'
  <1> SUFFICES ASSUME ~overwritten', k # 0, ~(k = dbKey'[a].id /\ ~Leaving'),
                      NEW e, e = EventOf("keyGone", a, k),
                      NEW f, f = EventOf("apiGone", a, 0)
               PROVE  Ahead(r, e)' \/ Ahead(r, f)'
    BY DEF Removal, Ahead
  <1>1. CASE ~overwritten /\ ~(k = dbKey[a].id /\ ~Leaving)
    <2>1. Ahead(r, e) \/ Ahead(r, f)
      BY <1>1 DEF Removal
    <2> QED BY <2>1, AheadKept
  <1>2. CASE UNCHANGED <<dbConf, dbKey, overwritten>> /\ (Leaving' <=> Leaving)
    <2>1. ~overwritten /\ ~(k = dbKey[a].id /\ ~Leaving)
      BY <1>2, Zenon
    <2> QED BY <1>1, <2>1
  <1>3. CASE WriteApi(Q)
    <2>1. overwritten' = overwritten /\ pc[Q] = "write" /\ pc'[Q] = "publish"
          /\ op[Q] \in ApiOps /\ op' = op
      BY <1>3, ApiWritten
    <2>2. ~overwritten /\ ~Leaving /\ ~Leaving'
      <3>1. ~overwritten
        BY <2>1, Zenon
      <3> QED BY <2>1, <3>1 DEF Leaving, ApiOps
    <2>3. CASE k # dbKey[a].id
      BY <1>1, <2>2, <2>3
    <2>4. CASE k = dbKey[a].id
      <3>1. dbKey'[a] # dbKey[a]
        BY <2>2, <2>4
      <3>2. op[Q] = "deleteApi" /\ a = apis
        BY <1>3, <3>1, ApiWritten
      <3>3. key[Q] = NoKey /\ Kind(op[Q]) = "apiGone"
        BY <2>1, <3>2 DEF RequestInv, Kind
      <3>4. f = EventOf(Kind(op[Q]), apis, key[Q].id)
        BY <3>2, <3>3, Empties
      <3> QED BY <1>3, <3>4, AheadNew
    <2> QED BY <2>3, <2>4
  <1>4. CASE WriteKey(Q)
    <2>1. /\ op[Q] \in KeyOps /\ dbKey'[apis].id = key[Q].id
          /\ op[Q] # "createKey" => dbKey[apis].id = key[Q].id
          /\ \A b \in Apis : b # apis => dbKey'[b] = dbKey[b]
          /\ dbConf.id = apis /\ pc'[Q] = "publish" /\ op' = op /\ pc[Q] = "write"
          /\ api[Q] = apis
      BY <1>4, KeyWritten
    <2>2. /\ ~overwritten
          /\ op[Q] = "createKey" => dbKey[apis] = NoKey
      BY <1>4, <2>1, Zenon DEF WriteKey
    <2>3. ~Leaving /\ (Leaving' <=> op[Q] = "revokeKey")
      BY <2>1 DEF Leaving
    <2>4. CASE k # dbKey[a].id
      BY <1>1, <2>2, <2>4
    <2>5. CASE k = dbKey[a].id
      <3>1. a = apis
        BY <2>1, <2>5 DEF RowInv
      <3>2. op[Q] # "createKey"
        BY <2>2, <2>5, <3>1, Empties
      <3>3. op[Q] = "revokeKey" /\ key[Q].id = k
        BY <2>1, <2>3, <2>5, <3>1, <3>2
      <3>4. e = EventOf(Kind(op[Q]), apis, key[Q].id)
        BY <3>1, <3>3 DEF Kind
      <3> QED BY <1>4, <3>4, AheadNew
    <2> QED BY <2>4, <2>5
  <1>5. CASE RemoveKey(Q)
    <2>1. pc[Q] = "remove" /\ overwritten' = overwritten
      BY <1>5, RequestEnds
    <2>2. Leaving
      BY <2>1 DEF Leaving, RequestInv
    <2>3. ~overwritten
      BY <2>1, Zenon
    <2> QED BY <1>1, <2>2, <2>3
  <1> QED BY <1>2, <1>3, <1>4, <1>5, DbMoves

(* The rows are as they were when a replica has handled an event.          *)
LEMMA RowsStand ==
    ASSUME NEW r \in Replicas, NEW kind, Handles(r, kind)
    PROVE  /\ UNCHANGED <<dbConf, dbKey, overwritten>>
           /\ Leaving' <=> Leaving
  BY DEF Handles, dbVars, reqVars, Leaving

LEMMA RepairHandled ==
    ASSUME OneRequest, TypeOK, RequestInv, RowInv, LogInv, [Next]_vars,
           faults' = 0, NEW r \in Replicas, NEW a \in Apis, NEW kind,
           Handles(r, kind), NEW v, Repair(r, a, v),
           Event(r) # EventOf("key", a, dbKey[a].id)
    PROVE  Repair(r, a, v)'
  <1> SUFFICES ASSUME ~overwritten', dbKey'[a].id # 0, ~Leaving', v # dbKey'[a],
                      NEW e, e = EventOf("key", a, dbKey'[a].id)
               PROVE  Ahead(r, e)'
    BY DEF Repair, Ahead
  <1>1. dbKey' = dbKey /\ ~overwritten /\ ~Leaving
    BY RowsStand, Zenon
  <1>2. Ahead(r, e) /\ e # Event(r)
    BY <1>1 DEF Repair
  <1> QED BY <1>2, HandledAt

LEMMA RemovalHandled ==
    ASSUME OneRequest, TypeOK, RequestInv, RowInv, LogInv, [Next]_vars,
           faults' = 0, NEW r \in Replicas, NEW a \in Apis, NEW kind,
           Handles(r, kind), NEW k, Removal(r, a, k),
           Event(r) # EventOf("keyGone", a, k),
           Event(r) # EventOf("apiGone", a, 0)
    PROVE  Removal(r, a, k)'
  <1> SUFFICES ASSUME ~overwritten', k # 0, ~(k = dbKey'[a].id /\ ~Leaving'),
                      NEW e, e = EventOf("keyGone", a, k),
                      NEW f, f = EventOf("apiGone", a, 0)
               PROVE  Ahead(r, e)' \/ Ahead(r, f)'
    BY DEF Removal, Ahead
  <1>1. ~overwritten /\ ~(k = dbKey[a].id /\ ~Leaving)
    BY RowsStand, Zenon
  <1>2. Ahead(r, e) \/ Ahead(r, f)
    BY <1>1 DEF Removal
  <1>3. e # Event(r) /\ f # Event(r)
    OBVIOUS
  <1> QED BY <1>2, <1>3, HandledAt

(* A replica that holds what the database holds needs no repair; one that  *)
(* holds nothing has nothing to remove.                                    *)
LEMMA RowNeedsNothing ==
    ASSUME NEW r, NEW a
    PROVE  /\ \A v : v = dbKey'[a] => Repair(r, a, v)'
           /\ dbKey'[a].id = 0 => \A v : Repair(r, a, v)'
           /\ Removal(r, a, 0)'
           /\ \A k : k = dbKey'[a].id /\ ~Leaving' => Removal(r, a, k)'
  BY DEF Repair, Removal

LEMMA KeyGoal ==
    ASSUME NEW r, NEW a,
           mem'[r][a].id = 0 => mem'[r][a] = NoKey,
           \A v : v = mem'[r][a] => Repair(r, a, v)',
           \A k : k = mem'[r][a].id => Removal(r, a, k)',
           xds'[r][a].id = 0 => xds'[r][a] = NoKey,
           xds'[r][a].id # 0 => conf'[r].id = a,
           \A v : v = xds'[r][a] => Repair(r, a, v)',
           ~adopted'[r] => xds'[r][a].id \in {0, mem'[r][a].id}
    PROVE  KeyInv(r, a)' /\ StoreInv(r, a)'
  <1>1. Repair(r, a, mem[r][a])' /\ Repair(r, a, xds[r][a])'
    BY DEF Repair, Ahead
  <1>2. Removal(r, a, mem[r][a].id)'
    BY DEF Removal, Ahead
  <1> QED BY <1>1, <1>2 DEF KeyInv, StoreInv

LEMMA KeyIdle ==
    ASSUME OneRequest, TypeOK, RequestInv, RowInv, [Next]_vars, faults' = 0,
           NEW r \in Replicas, NEW a \in Apis, KeyInv(r, a), StoreInv(r, a), Idles(r)
    PROVE  KeyInv(r, a)' /\ StoreInv(r, a)'
  <1>1. /\ pos'[r] = pos[r] /\ mem'[r] = mem[r] /\ xds'[r] = xds[r]
        /\ conf'[r] = conf[r] /\ adopted'[r] = adopted[r]
    BY DEF Idles
  <1>2. \A v : v = mem[r][a] => Repair(r, a, v)'
    BY <1>1, RepairIdle DEF KeyInv
  <1>3. \A v : v = xds[r][a] => Repair(r, a, v)'
    BY <1>1, RepairIdle DEF StoreInv
  <1>4. \A k : k = mem[r][a].id => Removal(r, a, k)'
    BY <1>1, RemovalIdle DEF KeyInv
  <1>5. ~adopted'[r] => xds'[r][a].id \in {0, mem'[r][a].id}
    BY <1>1 DEF StoreInv
  <1>6. /\ mem'[r][a].id = 0 => mem'[r][a] = NoKey
        /\ xds'[r][a].id = 0 => xds'[r][a] = NoKey
        /\ xds'[r][a].id # 0 => conf'[r].id = a
    BY <1>1 DEF KeyInv, StoreInv
  <1> QED BY <1>1, <1>2, <1>3, <1>4, <1>5, <1>6, KeyGoal

(* A replica loads the rows that are in use.                               *)
LEMMA KeyRestart ==
    ASSUME OneRequest, TypeOK, RowInv, NEW r \in Replicas, NEW a \in Apis, Restart(r)
    PROVE  KeyInv(r, a)' /\ StoreInv(r, a)'
  <1>1. dbConf' = dbConf /\ dbKey' = dbKey /\ pc' = pc /\ op' = op /\ conf'[r] = dbConf
    BY DEF Restart, dbVars, reqVars, TypeOK
  <1> DEFINE rows == [b \in Apis |-> IF dbKey[b].on THEN dbKey[b] ELSE NoKey]
  <1>2. mem' = [mem EXCEPT ![r] = rows] /\ xds' = [xds EXCEPT ![r] = rows]
    BY DEF Restart
  <1>3. rows[a] = IF dbKey[a].on THEN dbKey[a] ELSE NoKey
    OBVIOUS
  <1> HIDE DEF rows
  <1>4. mem'[r][a] = rows[a] /\ xds'[r][a] = rows[a]
    BY <1>2 DEF TypeOK
  <1>5. Leaving' <=> Leaving
    BY <1>1 DEF Leaving
  <1>6. CASE dbKey[a].id # 0 /\ ~Leaving
    <2>1. rows[a] = dbKey[a] /\ a = dbConf.id
      BY <1>3, <1>6 DEF RowInv
    <2> QED BY <1>1, <1>4, <1>5, <1>6, <2>1, RowNeedsNothing, KeyGoal
  <1>7. CASE dbKey[a].id = 0 \/ Leaving
    <2>1. rows[a] = NoKey
      BY <1>3, <1>7 DEF RowInv
    <2>2. \A v : Repair(r, a, v)'
      BY <1>1, <1>5, <1>7 DEF Repair
    <2> QED BY <1>1, <1>4, <2>1, <2>2, Empties, RowNeedsNothing, KeyGoal
  <1> QED BY <1>6, <1>7

(* The revocation under way is ahead of a replica that has events to       *)
(* handle.                                                                 *)
LEMMA LeavingAhead ==
    ASSUME OneRequest, TypeOK, RequestInv, LogInv, Leaving,
           NEW r \in Replicas, pos[r] < Len(log)
    PROVE  /\ Ahead(r, EventOf("keyGone", apis, key[Q].id))
           /\ dbConf.id = apis /\ dbKey[apis].id = key[Q].id
  <1>1. /\ DueLen \in Nat /\ Len(log) \in Nat /\ Len(log) <= DueLen
        /\ pos[r] \in Nat
    BY DueTypes
  <1>2. /\ op[Q] = "revokeKey" /\ pc[Q] \in {"publish", "remove"}
        /\ api[Q] = apis
    BY DEF Leaving, RequestInv
  <1>3. dbConf.id = apis /\ dbKey[apis].id = key[Q].id
    BY <1>2 DEF RequestInv, KeyOps
  <1>4. CASE pc[Q] = "publish"
    <2>1. DueLen = Len(log) + 1
      BY <1>4 DEF DueLen
    <2>2. Pending = EventOf("keyGone", apis, key[Q].id)
      BY <1>2 DEF Pending, Kind
    <2>3. Due(DueLen) = Pending
      BY <1>1, <2>1 DEF Due
    <2>4. DueLen \in 1..DueLen /\ pos[r] < DueLen
      BY <1>1
    <2> QED BY <1>3, <2>2, <2>3, <2>4 DEF Ahead
  <1>5. CASE pc[Q] = "remove"
    <2>1. PICK n \in 1..DueLen :
             n = DueLen /\ Due(n) = EventOf("keyGone", apis, key[Q].id)
      BY <1>5 DEF LogInv
    <2>2. pos[r] < n
      BY <1>1, <2>1
    <2> QED BY <1>3, <2>1, <2>2 DEF Ahead
  <1> QED BY <1>2, <1>4, <1>5

(* Memory does not refuse the row in use when its event is handled: a key  *)
(* that had the name before was taken away by an earlier event.            *)
LEMMA Storable ==
    ASSUME OneRequest, TypeOK, RequestInv, RowInv, LogInv, [Next]_vars,
           faults' = 0, NEW r \in Replicas, NEW a \in Apis, KeyInv(r, a),
           Handles(r, "key"), ~overwritten, dbKey[a].id # 0,
           Event(r) = EventOf("key", a, dbKey[a].id)
    PROVE  mem[r][a].id \in {0, dbKey[a].id}
  <1> SUFFICES ASSUME mem[r][a].id \notin {0, dbKey[a].id} PROVE FALSE
    OBVIOUS
  <1>1. PICK i \in 1..DueLen :
             /\ Due(i) = Event(r)
             /\ \A x : Ahead(r, x) /\ x # Event(r) =>
                  \E j \in 1..DueLen : Due(j) = x /\ LogOrder(i, j) /\ LogAt(j)
    BY HandledAt
  <1>2. PICK k : k = mem[r][a].id
    OBVIOUS
  <1>3. PICK e, f : e = EventOf("keyGone", a, k) /\ f = EventOf("apiGone", a, 0)
    OBVIOUS
  <1>4. Ahead(r, e) \/ Ahead(r, f)
    BY <1>2, <1>3 DEF KeyInv, Removal
  <1>5. /\ Event(r).kind = "key" /\ Event(r).key = dbKey[a].id
        /\ e.kind = "keyGone" /\ e.key = k
        /\ f.kind = "apiGone" /\ f.api = a
    BY <1>3 DEF EventOf
  <1>6. k \in Nat /\ dbKey[a].id \in Nat
    BY <1>2, SyncAssumption DEF TypeOK, Rows
  <1>7. CASE Ahead(r, e)
    <2>1. PICK j \in 1..DueLen : Due(j) = e /\ LogOrder(i, j) /\ LogAt(j)
      BY <1>1, <1>5, <1>7
    <2>2. dbKey[a].id <= k /\ k <= dbKey[a].id
      BY <1>1, <1>2, <1>5, <2>1 DEF LogOrder, LogAt
    <2> QED BY <1>2, <1>6, <2>2
  <1>8. CASE Ahead(r, f)
    <2>1. PICK j \in 1..DueLen : Due(j) = f /\ LogAt(j)
      BY <1>1, <1>5, <1>8
    <2>2. a # dbConf.id
      BY <1>5, <2>1 DEF LogAt
    <2> QED BY <2>2 DEF RowInv
  <1> QED BY <1>4, <1>7, <1>8

(* An event that leaves what a replica holds of API a, and is not the one  *)
(* that its keys wait for.                                                 *)
LEMMA KeyUntouched ==
    ASSUME OneRequest, TypeOK, RequestInv, RowInv, LogInv, [Next]_vars,
           faults' = 0, NEW r \in Replicas, NEW a \in Apis, KeyInv(r, a),
           StoreInv(r, a), NEW kind, Handles(r, kind),
           mem'[r][a] = mem[r][a], xds'[r][a] = xds[r][a],
           adopted'[r] = adopted[r], conf[r].id = a => conf'[r].id = a,
           \/ Event(r).api # a
           \/ /\ Event(r).kind # "apiGone"
              /\ Event(r) # EventOf("key", a, dbKey[a].id)
              /\ Event(r) # EventOf("keyGone", a, mem[r][a].id)
    PROVE  KeyInv(r, a)' /\ StoreInv(r, a)'
  <1>1. /\ Event(r) # EventOf("key", a, dbKey[a].id)
        /\ Event(r) # EventOf("keyGone", a, mem[r][a].id)
        /\ Event(r) # EventOf("apiGone", a, 0)
    BY DEF EventOf
  <1>2. \A v : v = mem'[r][a] => Repair(r, a, v)'
    BY <1>1, RepairHandled DEF KeyInv
  <1>3. \A v : v = xds'[r][a] => Repair(r, a, v)'
    BY <1>1, RepairHandled DEF StoreInv
  <1>4. \A k : k = mem'[r][a].id => Removal(r, a, k)'
    BY <1>1, RemovalHandled DEF KeyInv
  <1>5. ~adopted'[r] => xds'[r][a].id \in {0, mem'[r][a].id}
    BY DEF StoreInv
  <1>6. /\ mem'[r][a].id = 0 => mem'[r][a] = NoKey
        /\ xds'[r][a].id = 0 => xds'[r][a] = NoKey
        /\ xds'[r][a].id # 0 => conf'[r].id = a
    BY DEF KeyInv, StoreInv
  <1> QED BY <1>2, <1>3, <1>4, <1>5, <1>6, KeyGoal

LEMMA KeyHandleApi ==
    ASSUME OneRequest, TypeOK, RequestInv, RowInv, LogInv, [Next]_vars,
           faults' = 0, NEW r \in Replicas, NEW a \in Apis, ConfInv(r),
           KeyInv(r, a), StoreInv(r, a), HandleApi(r)
    PROVE  KeyInv(r, a)' /\ StoreInv(r, a)'
  <1>1. Handles(r, "api") /\ Event(r).kind = "api"
    BY DEF HandleApi, Handles
  <1>2. mem' = mem /\ xds' = xds /\ adopted' = adopted
    BY DEF HandleApi
  <1>3. /\ Event(r).kind # "apiGone"
        /\ Event(r) # EventOf("key", a, dbKey[a].id)
        /\ Event(r) # EventOf("keyGone", a, mem[r][a].id)
    BY <1>1 DEF EventOf
  <1>4. conf[r].id = a => conf'[r].id = a
    BY NoApiZero DEF HandleApi, ApiIntoMemory, TypeOK
  <1> QED BY <1>1, <1>2, <1>3, <1>4, KeyUntouched

LEMMA KeyHandleApiGone ==
    ASSUME OneRequest, TypeOK, RequestInv, RowInv, LogInv, [Next]_vars,
           faults' = 0, NEW r \in Replicas, NEW a \in Apis, ConfInv(r),
           KeyInv(r, a), StoreInv(r, a), HandleApiGone(r)
    PROVE  KeyInv(r, a)' /\ StoreInv(r, a)'
  <1> DEFINE b == Event(r).api
  <1>1. Handles(r, "apiGone") /\ adopted' = adopted
    BY DEF HandleApiGone
  <1>2. PICK i \in 1..DueLen : /\ Due(i) = Event(r) /\ LogAt(i)
                               /\ Event(r) \in Events /\ Event(r).kind = "apiGone"
    BY <1>1, HandledAt
  <1>3. b \in Apis
    BY <1>2 DEF Events
  <1>4. mem' = [mem EXCEPT ![r][b] = NoKey]
    BY DEF HandleApiGone
  <1>5. xds' = [xds EXCEPT ![r][b] = IF conf[r].id = b THEN NoKey ELSE @]
    BY DEF HandleApiGone
  <1>6. conf'[r] = IF conf[r].id = b THEN NoConf ELSE conf[r]
    BY DEF HandleApiGone, TypeOK
  <1> HIDE DEF b
  <1>7. CASE a # b
    <2>1. mem'[r][a] = mem[r][a] /\ xds'[r][a] = xds[r][a]
      BY <1>3, <1>4, <1>5, <1>7 DEF TypeOK
    <2>2. conf[r].id = a => conf'[r].id = a
      BY <1>6, <1>7
    <2> QED BY <1>1, <1>7, <2>1, <2>2, KeyUntouched DEF b
  <1>8. CASE a = b
    <2>1. mem'[r][a] = NoKey
      BY <1>4, <1>8 DEF TypeOK
    <2>2. xds'[r][a] = IF conf[r].id = a THEN NoKey ELSE xds[r][a]
      BY <1>5, <1>8 DEF TypeOK
    <2>3. xds'[r][a] = NoKey
      BY <2>2 DEF StoreInv
    <2>4. dbKey'[a].id = 0
      <3>1. a # dbConf.id
        BY <1>2, <1>8 DEF LogAt, b
      <3>2. dbKey' = dbKey
        BY <1>1, RowsStand
      <3> QED BY <3>1, <3>2 DEF RowInv
    <2>5. \A v : Repair(r, a, v)'
      BY <2>4, RowNeedsNothing
    <2>6. Removal(r, a, 0)'
      BY RowNeedsNothing
    <2> QED BY <2>1, <2>3, <2>5, <2>6, Empties, KeyGoal
  <1> QED BY <1>7, <1>8

LEMMA KeyHandleKey ==
    ASSUME OneRequest, TypeOK, RequestInv, RowInv, LogInv, [Next]_vars,
           faults' = 0, NEW r \in Replicas, NEW a \in Apis, ConfInv(r),
           KeyInv(r, a), StoreInv(r, a), HandleKey(r)
    PROVE  KeyInv(r, a)' /\ StoreInv(r, a)'
  <1> DEFINE b == Event(r).api
             k == Event(r).key
             stored == dbKey[b].id = k /\ MayStore(r, b, k)
  <1>1. Handles(r, "key") /\ adopted' = adopted
    BY DEF HandleKey
  <1>2. PICK i \in 1..DueLen : /\ Due(i) = Event(r) /\ LogAt(i)
                               /\ Event(r) \in Events /\ Event(r).kind = "key"
                               /\ \A e : Ahead(r, e) /\ e # Event(r) => Ahead(r, e)'
    BY <1>1, HandledAt
  <1>3. b \in Apis /\ k # 0
    BY <1>2 DEF Events, LogAt
  <1>4. stored =>
          /\ mem' = [mem EXCEPT ![r][b] = dbKey[b]]
          /\ xds' = [xds EXCEPT ![r][b] = IF Resolves(r, b) THEN dbKey[b] ELSE @]
          /\ conf' = [conf EXCEPT ![r] = Resolved(r, b)]
    BY DEF HandleKey
  <1>5. ~stored => UNCHANGED <<mem, xds, conf>>
    BY DEF HandleKey
  <1>6. UNCHANGED <<dbConf, dbKey, overwritten>> /\ (Leaving' <=> Leaving)
    BY <1>1, RowsStand
  <1>7. conf[r].id = a => conf'[r].id = a
    <2>1. stored => conf'[r] = Resolved(r, b)
      BY <1>4 DEF TypeOK
    <2> QED BY <1>5, <2>1, NoApiZero DEF Resolved
  <1>8. CASE stored /\ a = b
    <2>1. dbKey[a].id = k /\ a = dbConf.id
      BY <1>3, <1>8 DEF RowInv
    <2>2. conf[r].id \in {0, a}
      BY <1>1, <1>8, <2>1, EarlierGone
    <2>3. mem'[r][a] = dbKey[a]
      BY <1>4, <1>8 DEF TypeOK
    <2>4. xds'[r][a] = dbKey[a]
      BY <1>4, <1>8, <2>1 DEF TypeOK, Resolves
    <2>5. conf'[r].id = a
      <3>1. conf'[r] = Resolved(r, b)
        BY <1>4, <1>8 DEF TypeOK
      <3> QED BY <1>8, <2>1, <2>2, <3>1 DEF Resolved
    <2>6. \A v : v = dbKey[a] => Repair(r, a, v)'
      BY <1>6, RowNeedsNothing
    <2>7. \A x : x = dbKey[a].id => Removal(r, a, x)'
      <3>1. CASE ~Leaving
        <4>1. ~Leaving' /\ dbKey' = dbKey
          BY <1>6, <3>1
        <4> QED BY <4>1, RowNeedsNothing
      <3>2. CASE Leaving
        <4> SUFFICES ASSUME NEW e, e = EventOf("keyGone", a, dbKey[a].id)
                     PROVE  Ahead(r, e)'
          BY DEF Removal, Ahead
        <4>1. pos[r] < Len(log)
          BY <1>1 DEF Handles
        <4>2. Ahead(r, e)
          BY <2>1, <3>2, <4>1, LeavingAhead
        <4>3. e # Event(r)
          BY <1>2 DEF EventOf
        <4> QED BY <1>2, <4>2, <4>3
      <3> QED BY <3>1, <3>2
    <2> HIDE DEF b, k, stored
    <2>8. ~adopted'[r] => xds'[r][a].id \in {0, mem'[r][a].id}
      BY <2>3, <2>4
    <2> QED BY <1>3, <2>1, <2>3, <2>4, <2>5, <2>6, <2>7, <2>8, KeyGoal
  <1>9. CASE ~(stored /\ a = b)
    <2>1. mem'[r][a] = mem[r][a] /\ xds'[r][a] = xds[r][a]
      BY <1>3, <1>4, <1>5, <1>9 DEF TypeOK
    <2>2. CASE Event(r) # EventOf("key", a, dbKey[a].id) \/ a # b
      <3>1. /\ Event(r).kind # "apiGone"
            /\ Event(r) # EventOf("keyGone", a, mem[r][a].id)
        BY <1>2 DEF EventOf
      <3> QED BY <1>1, <1>7, <2>1, <2>2, <3>1, KeyUntouched
    <2>3. CASE Event(r) = EventOf("key", a, dbKey[a].id) /\ a = b
      <3>1. k = dbKey[a].id /\ ~stored
        BY <1>9, <2>3 DEF EventOf
      <3>2. overwritten
        <4>1. ~overwritten => mem[r][a].id \in {0, k}
          BY <1>1, <1>3, <2>3, <3>1, Storable
        <4> QED BY <2>3, <3>1, <4>1 DEF MayStore
      <3>3. overwritten'
        BY <1>6, <3>2
      <3>4. (\A v : Repair(r, a, v)') /\ (\A x : Removal(r, a, x)')
        BY <3>3 DEF Repair, Removal
      <3>5. /\ ~adopted'[r] => xds'[r][a].id \in {0, mem'[r][a].id}
            /\ mem'[r][a].id = 0 => mem'[r][a] = NoKey
            /\ xds'[r][a].id = 0 => xds'[r][a] = NoKey
            /\ xds'[r][a].id # 0 => conf'[r].id = a
        BY <1>1, <1>7, <2>1 DEF KeyInv, StoreInv
      <3> QED BY <3>4, <3>5, KeyGoal
    <2> QED BY <2>2, <2>3
  <1> QED BY <1>8, <1>9

LEMMA KeyHandleKeyGone ==
    ASSUME OneRequest, TypeOK, RequestInv, RowInv, LogInv, [Next]_vars,
           faults' = 0, NEW r \in Replicas, NEW a \in Apis, ConfInv(r),
           KeyInv(r, a), StoreInv(r, a), HandleKeyGone(r)
    PROVE  KeyInv(r, a)' /\ StoreInv(r, a)'
  <1> DEFINE b == Event(r).api
             k == Event(r).key
             known == NameKnown(r, b, k)
  <1>1. Handles(r, "keyGone") /\ adopted' = adopted
    BY DEF HandleKeyGone
  <1>2. PICK i \in 1..DueLen : /\ Due(i) = Event(r) /\ LogAt(i)
                               /\ Event(r) \in Events /\ Event(r).kind = "keyGone"
    BY <1>1, HandledAt
  <1>3. b \in Apis /\ k # 0
    BY <1>2 DEF Events, LogAt
  <1>4. mem' = [mem EXCEPT ![r][b] = IF @.id = k THEN NoKey ELSE @]
    BY DEF HandleKeyGone
  <1>5. xds' = [xds EXCEPT ![r][b] = IF known /\ Resolves(r, b) THEN NoKey ELSE @]
    BY DEF HandleKeyGone
  <1>6. conf'[r] = IF known THEN Resolved(r, b) ELSE conf[r]
    BY DEF HandleKeyGone, TypeOK
  <1>7. UNCHANGED <<dbConf, dbKey, overwritten>> /\ (Leaving' <=> Leaving)
    BY <1>1, RowsStand
  <1>8. conf[r].id = a => conf'[r].id = a
    BY <1>6, NoApiZero DEF Resolved
  <1>9. CASE a # b \/ ~known
    <2>1. mem'[r][a] = mem[r][a] /\ xds'[r][a] = xds[r][a]
      <3>1. CASE a # b
        BY <1>3, <1>4, <1>5, <3>1 DEF TypeOK
      <3>2. CASE a = b /\ ~known
        BY <1>3, <1>4, <1>5, <3>2 DEF TypeOK, NameKnown
      <3> QED BY <1>9, <3>1, <3>2
    <2>2. /\ Event(r).kind # "apiGone"
          /\ Event(r) # EventOf("key", a, dbKey[a].id)
      BY <1>2 DEF EventOf
    <2>3. a = b => Event(r) # EventOf("keyGone", a, mem[r][a].id)
      BY <1>9 DEF EventOf, NameKnown
    <2> QED BY <1>1, <1>8, <2>1, <2>2, <2>3, KeyUntouched
  <1>10. CASE a = b /\ known
    <2>1. mem[r][a].id = k /\ mem'[r][a] = NoKey
      BY <1>4, <1>10 DEF TypeOK, NameKnown
    <2>2. xds'[r][a] = IF Resolves(r, a) THEN NoKey ELSE xds[r][a]
      BY <1>5, <1>10 DEF TypeOK
    <2>3. xds'[r][a] = NoKey
      BY <2>2 DEF StoreInv, Resolves
    <2>4. Repair(r, a, NoKey)'
      <3> SUFFICES ASSUME ~overwritten', dbKey'[a].id # 0, ~Leaving',
                          NEW e, e = EventOf("key", a, dbKey'[a].id)
                   PROVE  Ahead(r, e)'
        BY DEF Repair, Ahead
      <3>1. dbKey'[a] = dbKey[a] /\ ~Leaving
        BY <1>7, Zenon
      <3>2. dbKey[a].id # k
        <4>1. Event(r) = EventOf("keyGone", a, k)
          BY <1>2, <1>10 DEF EventOf, Events
        <4> QED BY <1>2, <3>1, <4>1 DEF LogAt
      <3>3. mem[r][a] # dbKey'[a]
        BY <2>1, <3>1, <3>2
      <3>4. Event(r) # EventOf("key", a, dbKey[a].id)
        BY <1>2 DEF EventOf
      <3>5. PICK v : v = mem[r][a]
        OBVIOUS
      <3>6. Repair(r, a, v)'
        BY <1>1, <3>4, <3>5, RepairHandled DEF KeyInv
      <3> QED BY <3>3, <3>5, <3>6 DEF Repair, Ahead
    <2>5. Removal(r, a, 0)'
      BY RowNeedsNothing
    <2>6. \A v : v = NoKey => Repair(r, a, v)'
      BY <2>4
    <2> HIDE DEF b, k, known
    <2> QED BY <2>1, <2>3, <2>5, <2>6, Empties, KeyGoal
  <1> QED BY <1>9, <1>10

LEMMA KeySync ==
    ASSUME OneRequest, TypeOK, RequestInv, RowInv, LogInv, [Next]_vars,
           faults' = 0, NEW r \in Replicas, NEW a \in Apis, ConfInv(r),
           KeyInv(r, a), StoreInv(r, a), SyncKeys(r)
    PROVE  KeyInv(r, a)' /\ StoreInv(r, a)'
  <1> DEFINE c == busy[r]
  <1>1. /\ UNCHANGED <<pos, conf, mem, dbKey>>
        /\ c # 0
    BY DEF SyncKeys, dbVars
  <1>2. xds' = [xds EXCEPT ![r][c] = IF dbKey[c] = NoKey THEN @ ELSE dbKey[c]]
    BY DEF SyncKeys
  <1>3. c \in Apis /\ conf[r].id = c
    BY <1>1 DEF ConfInv, TypeOK, Apis
  <1>4. adopted'[r] = (adopted[r] \/ (dbKey[c] # NoKey /\ mem[r][c].id # dbKey[c].id))
    <2>1. /\ adopted' = [adopted EXCEPT ![r] =
                @ \/ (dbKey[c] # NoKey /\ mem[r][c].id # dbKey[c].id)]
          /\ adopted \in [Replicas -> BOOLEAN]
      BY Zenon DEF SyncKeys, TypeOK
    <2> QED BY <2>1, Zenon
  <1>5. ~adopted'[r] => ~adopted[r] /\ (dbKey[c] # NoKey => mem[r][c].id = dbKey[c].id)
    BY <1>4, Zenon
  <1> HIDE DEF c
  <1>6. \A v : v = mem'[r][a] => Repair(r, a, v)'
    BY <1>1, RepairIdle DEF KeyInv
  <1>7. \A k : k = mem'[r][a].id => Removal(r, a, k)'
    BY <1>1, RemovalIdle DEF KeyInv
  <1>8. mem'[r][a].id = 0 => mem'[r][a] = NoKey
    BY <1>1 DEF KeyInv
  <1>9. CASE a # c \/ dbKey[a] = NoKey
    <2>1. xds'[r][a] = xds[r][a]
      BY <1>2, <1>3, <1>9 DEF TypeOK
    <2>2. \A v : v = xds'[r][a] => Repair(r, a, v)'
      BY <1>1, <2>1, RepairIdle DEF StoreInv
    <2>3. ~adopted'[r] => xds'[r][a].id \in {0, mem'[r][a].id}
      <3>1. ~adopted[r] => xds'[r][a].id \in {0, mem'[r][a].id}
        BY <1>1, <2>1 DEF StoreInv
      <3> QED BY <1>5, <3>1, Zenon
    <2>4. /\ xds'[r][a].id = 0 => xds'[r][a] = NoKey
          /\ xds'[r][a].id # 0 => conf'[r].id = a
      BY <1>1, <2>1 DEF StoreInv
    <2> QED BY <1>6, <1>7, <1>8, <2>2, <2>3, <2>4, KeyGoal
  <1>10. CASE a = c /\ dbKey[a] # NoKey
    <2>1. xds'[r][a] = dbKey[a]
      BY <1>2, <1>3, <1>10 DEF TypeOK
    <2>2. \A v : v = xds'[r][a] => Repair(r, a, v)'
      BY <1>1, <2>1, RowNeedsNothing
    <2>3. ~adopted'[r] => xds'[r][a].id \in {0, mem'[r][a].id}
      BY <1>1, <1>5, <1>10, <2>1
    <2>4. /\ xds'[r][a].id = 0 => xds'[r][a] = NoKey
          /\ xds'[r][a].id # 0 => conf'[r].id = a
      BY <1>1, <1>3, <1>10, <2>1 DEF RowInv
    <2> QED BY <1>6, <1>7, <1>8, <2>2, <2>3, <2>4, KeyGoal
  <1> QED BY <1>9, <1>10

-----------------------------------------------------------------------------
(* The whole, and what it means once a replica is quiet.                    *)

SyncInv == TypeInv /\ (faults = 0 => RequestInv /\ RowInv) /\ ReplicaInv

LEMMA SyncInit == ASSUME OneRequest PROVE Init => SyncInv
  <1> SUFFICES ASSUME Init PROVE SyncInv
    OBVIOUS
  <1>1. TypeInv
    BY TypeInit
  <1>2. /\ pc[Q] = "idle" /\ Len(log) = 0 /\ DueLen = 0
        /\ dbConf = NoConf /\ \A a \in Apis : dbKey[a] = NoKey
        /\ ops \in Nat
    BY OnlyQ DEF Init, DueLen, NoKeys
  <1>3. RequestInv
    BY <1>2 DEF RequestInv
  <1>4. RowInv
    BY <1>2, Empties DEF RowInv
  <1>5. LogInv
    BY <1>2 DEF LogInv
  <1>6. ASSUME NEW r \in Replicas
        PROVE  /\ conf[r] = NoConf /\ busy[r] = 0
               /\ \A a \in Apis : mem[r][a] = NoKey /\ xds[r][a] = NoKey
    BY <1>6 DEF Init, NoKeys
  <1>7. ASSUME NEW r \in Replicas
        PROVE  ConfInv(r) /\ \A a \in Apis : KeyInv(r, a) /\ StoreInv(r, a)
    BY <1>2, <1>6, <1>7, Empties DEF ConfInv, KeyInv, StoreInv, Repair, Removal
  <1> QED BY <1>1, <1>3, <1>4, <1>5, <1>7 DEF SyncInv, ReplicaInv

LEMMA KeyHandled ==
    ASSUME OneRequest, TypeOK, RequestInv, RowInv, LogInv, [Next]_vars,
           faults' = 0, NEW r \in Replicas, NEW a \in Apis, ConfInv(r),
           KeyInv(r, a), StoreInv(r, a)
    PROVE  KeyInv(r, a)' /\ StoreInv(r, a)'
  BY ReplicaFrame, KeyHandleApi, KeyHandleApiGone, KeyHandleKey,
     KeyHandleKeyGone, KeySync, KeyRestart, KeyIdle DEF Handling

LEMMA SyncNext == ASSUME OneRequest PROVE SyncInv /\ [Next]_vars => SyncInv'
  <1> SUFFICES ASSUME SyncInv, [Next]_vars PROVE SyncInv'
    OBVIOUS
  <1>1. TypeInv /\ TypeOK
    BY DEF SyncInv, TypeInv
  <1>2. TypeInv'
    BY <1>1, TypeNext
  <1>3. ASSUME faults' = 0
        PROVE  /\ RequestInv' /\ RowInv' /\ LogInv'
               /\ \A r \in Replicas :
                     ConfInv(r)' /\ \A a \in Apis : KeyInv(r, a)' /\ StoreInv(r, a)'
    <2>1. faults = 0
      BY <1>1, <1>3, FaultsStay
    <2>2. RequestInv /\ RowInv /\ LogInv
      BY <2>1 DEF SyncInv, ReplicaInv
    <2>3. RequestInv' /\ RowInv' /\ LogInv'
      BY <1>1, <1>3, <2>2, RequestNext, LogNext
    <2>4. ASSUME NEW r \in Replicas
          PROVE  ConfInv(r) /\ \A a \in Apis : KeyInv(r, a) /\ StoreInv(r, a)
      BY <2>1 DEF SyncInv, ReplicaInv
    <2>5. ASSUME NEW r \in Replicas PROVE ConfInv(r)'
      BY <1>1, <1>3, <2>2, <2>4, ReplicaFrame, ConfHandled, ConfIdle
    <2>6. ASSUME NEW r \in Replicas, NEW a \in Apis
          PROVE  KeyInv(r, a)' /\ StoreInv(r, a)'
      BY <1>1, <1>3, <2>2, <2>4, KeyHandled
    <2> QED BY <2>3, <2>5, <2>6
  <1> QED BY <1>2, <1>3 DEF SyncInv, ReplicaInv

LEMMA SyncHolds == ASSUME OneRequest PROVE Spec => []SyncInv
  BY SyncInit, SyncNext, PTL DEF Spec

(* A quiet replica has nothing ahead, so it differs from the database in   *)
(* nothing.                                                                *)
LEMMA QuietAgrees ==
    ASSUME OneRequest, SyncInv, NEW r \in Replicas, Quiet(r)
    PROVE  /\ conf[r] = dbConf
           /\ ~overwritten => \A a \in Apis :
                /\ mem[r][a] = dbKey[a]
                /\ dbKey[a].id # 0 => xds[r][a] = dbKey[a]
                /\ xds[r][a].id \in {0, dbKey[a].id} => xds[r][a] \in {NoKey, dbKey[a]}
                /\ ~adopted[r] => xds[r][a].id \in {0, mem[r][a].id}
  <1>1. /\ TypeOK /\ RequestInv /\ RowInv /\ faults = 0 /\ pc[Q] = "idle"
        /\ pos[r] = Len(log)
    BY OnlyQ DEF SyncInv, TypeInv, Quiet
  <1>2. ConfInv(r) /\ \A a \in Apis : KeyInv(r, a) /\ StoreInv(r, a)
    BY <1>1 DEF SyncInv, ReplicaInv
  <1>3. DueLen = pos[r] /\ DueLen \in Nat /\ ~Leaving
    BY <1>1, DueTypes DEF DueLen, Leaving
  <1>4. \A e : ~Ahead(r, e)
    BY <1>3 DEF Ahead
  <1>5. conf[r] = dbConf
    BY <1>1, <1>2, <1>4 DEF ConfInv, RowInv
  <1>6. ASSUME ~overwritten, NEW a \in Apis
        PROVE  /\ mem[r][a] = dbKey[a]
               /\ dbKey[a].id # 0 => xds[r][a] = dbKey[a]
               /\ xds[r][a].id \in {0, dbKey[a].id} => xds[r][a] \in {NoKey, dbKey[a]}
               /\ ~adopted[r] => xds[r][a].id \in {0, mem[r][a].id}
    <2>1. /\ dbKey[a].id # 0 => mem[r][a] = dbKey[a] /\ xds[r][a] = dbKey[a]
          /\ dbKey[a].id = 0 => dbKey[a] = NoKey
      BY <1>1, <1>2, <1>3, <1>4, <1>6 DEF KeyInv, StoreInv, Repair, RowInv
    <2>2. dbKey[a].id = 0 => mem[r][a] = NoKey
      BY <1>2, <1>3, <1>4, <1>6 DEF KeyInv, Removal
    <2> QED BY <1>2, <2>1, <2>2 DEF StoreInv
  <1> QED BY <1>5, <1>6

(* With one request at a time, a replica that has handled every event      *)
(* holds the database's version of the API: however late and in whatever   *)
(* state of memory handleAPICreateOrUpdate and handleAPIDelete meet the    *)
(* events, and whatever part of the log a restart makes them handle again. *)
THEOREM ApisFollow == ASSUME OneRequest PROVE Spec => []ApiFollows
  <1>1. SyncInv => ApiFollows
    BY QuietAgrees DEF ApiFollows
  <1> QED BY <1>1, SyncHolds, PTL

(* With one request at a time, and unless a new key was written where its  *)
(* name had a row, a replica that has handled every event holds in memory  *)
(* the key row of the database and no other: StoreAPIKey has refused no    *)
(* row that counts, and no revocation was missed.                          *)
THEOREM KeysFollow == ASSUME OneRequest PROVE Spec => []KeyFollows
  <1>1. SyncInv => KeyFollows
    <2> SUFFICES ASSUME SyncInv, NEW r \in Replicas, Quiet(r), ~overwritten
                 PROVE  mem[r] = dbKey
      BY DEF KeyFollows
    <2>1. mem[r] \in [Apis -> Rows] /\ dbKey \in [Apis -> Rows]
      BY DEF SyncInv, TypeInv, TypeOK
    <2>2. \A a \in Apis : mem[r][a] = dbKey[a]
      BY QuietAgrees
    <2> QED BY <2>1, <2>2
  <1> QED BY <1>1, SyncHolds, PTL

(* With one request at a time, and unless a new key was written where its  *)
(* name had a row, a key that the database holds is given to the policy    *)
(* engine in its last value by every replica that has handled every event, *)
(* whether its own event or one of its API brought it.  In the excepted    *)
(* case StoreAPIKey may refuse the new key (memory.go:478), and nothing is *)
(* claimed.                                                                *)
THEOREM KeysServed == ASSUME OneRequest PROVE Spec => []KeyServed
  <1>1. SyncInv => KeyServed
    <2> SUFFICES ASSUME SyncInv, NEW r \in Replicas, Quiet(r), ~overwritten,
                        NEW a \in Apis, dbKey[a] # NoKey
                 PROVE  xds[r][a] = dbKey[a]
      BY DEF KeyServed
    <2>1. dbKey[a].id # 0
      BY DEF SyncInv, RowInv, Quiet
    <2> QED BY <2>1, QuietAgrees
  <1> QED BY <1>1, SyncHolds, PTL

(* With one request at a time, a replica that has handled every event and  *)
(* got no key from an API event alone gives the policy engine no key but   *)
(* the database's: what RevokeAPIKey and a deletion remove is gone there,  *)
(* again unless a new key was written where its name had a row.            *)
THEOREM RevokedKeysLeave == ASSUME OneRequest PROVE Spec => []RevokedLeaves
  <1>1. SyncInv => RevokedLeaves
    <2> SUFFICES ASSUME SyncInv, NEW r \in Replicas, Quiet(r), ~overwritten,
                        ~adopted[r], NEW a \in Apis, xds[r][a] # NoKey
                 PROVE  xds[r][a] = dbKey[a]
      BY DEF RevokedLeaves
    <2>1. xds[r][a].id \in {0, mem[r][a].id} /\ mem[r][a] = dbKey[a]
      BY QuietAgrees
    <2> QED BY <2>1, QuietAgrees
  <1> QED BY <1>1, SyncHolds, PTL
=============================================================================
