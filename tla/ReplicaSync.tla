---------------------------- MODULE ReplicaSync ----------------------------
(***************************************************************************)
(* How the replicas of a gateway controller follow their shared database.  *)
(* A request writes the database and then publishes an event that names    *)
(* what it wrote (utils/api_key.go, service/restapi/service.go); every     *)
(* replica, the writer's own included, handles the events one by one       *)
(* (pkg/eventlistener), reads the rows they name and updates its memory    *)
(* store (storage/memory.go) and the key store that the policy engine is   *)
(* fed from (storage/apikey_store.go, pkg/apikeyxds).                      *)
(*                                                                         *)
(* One API handle and one key name stand for all: nothing here relates two *)
(* handles, or two names.  An API that is deleted and created again has    *)
(* another id, and so has a key.  The event hub is a log that each replica *)
(* reads in order; a replica that restarts reads some of it again.         *)
(***************************************************************************)
EXTENDS Naturals, Sequences, FiniteSets

CONSTANTS Replicas,   \* controller replicas
          Requests,   \* requests under way at the same time
          MaxApis,    \* bound: APIs created under the handle
          MaxOps,     \* bound: requests made
          MaxFaults,  \* bound: events not published and rows not removed
          MaxRestarts \* bound: restarts of replicas

ASSUME SyncAssumption ==
    /\ {MaxApis, MaxOps, MaxFaults, MaxRestarts} \subseteq Nat
    /\ Requests # {}

Apis == 1..MaxApis

(* A configuration and a key row, with id 0 where there is none.  Requests *)
(* are numbered, and what a request writes carries its number.             *)
NoConf == [id |-> 0, ver |-> 0]
NoKey  == [id |-> 0, val |-> 0, on |-> FALSE]

VARIABLES
    dbConf,      \* the handle's row in artifacts
    dbKey,       \* per API: the name's row in api_keys
    log,         \* the events published
    pc,          \* per request: "idle", "write", "publish" or "remove"
    op,          \* per request: what it does
    api,         \* per request: the id of the API it has read
    key,         \* per request: the key row it has read or made
    ops,         \* requests made so far
    apis,        \* APIs created so far
    pos,         \* per replica: events handled
    busy,        \* per replica: an API whose keys it has still to load, or 0
    conf,        \* per replica: ConfigStore, the API
    mem,         \* per replica and API: ConfigStore, the key
    xds,         \* per replica and API: APIKeyStore
    faults,      \* events not published and rows not removed so far
    restarts,    \* restarts so far
    overwritten, \* history: a new key was written where the name had a row
    adopted      \* history, per replica: keys that only an API event brought

dbVars  == <<dbConf, dbKey>>
reqVars == <<pc, op, api, key, ops, apis>>
repVars == <<pos, busy, conf, mem, xds, adopted>>
vars == <<dbVars, log, reqVars, repVars, faults, restarts, overwritten>>

NoKeys == [a \in Apis |-> NoKey]

Init ==
    /\ dbConf = NoConf
    /\ dbKey = NoKeys
    /\ log = <<>>
    /\ pc = [q \in Requests |-> "idle"]
    /\ op = [q \in Requests |-> "none"]
    /\ api = [q \in Requests |-> 0]
    /\ key = [q \in Requests |-> NoKey]
    /\ ops = 0
    /\ apis = 0
    /\ pos = [r \in Replicas |-> 0]
    /\ busy = [r \in Replicas |-> 0]
    /\ conf = [r \in Replicas |-> NoConf]
    /\ mem = [r \in Replicas |-> NoKeys]
    /\ xds = [r \in Replicas |-> NoKeys]
    /\ faults = 0
    /\ restarts = 0
    /\ overwritten = FALSE
    /\ adopted = [r \in Replicas |-> FALSE]

-----------------------------------------------------------------------------
(* Requests.  Each reads what it is about, writes, and publishes.           *)

Start(q, what, a, k) ==
    /\ pc[q] = "idle" /\ ops < MaxOps
    /\ ops' = ops + 1
    /\ pc' = [pc EXCEPT ![q] = "write"]
    /\ op' = [op EXCEPT ![q] = what]
    /\ api' = [api EXCEPT ![q] = a]
    /\ key' = [key EXCEPT ![q] = k]
    /\ UNCHANGED <<dbVars, log, repVars, faults, restarts, overwritten>>

(* A deployment under a handle that is not in use gets a new id.           *)
StartCreateApi(q) ==
    /\ dbConf.id = 0 /\ apis < MaxApis
    /\ apis' = apis + 1
    /\ Start(q, "createApi", apis + 1, NoKey)

StartUpdateApi(q) ==
    /\ dbConf.id # 0 /\ apis' = apis
    /\ Start(q, "updateApi", dbConf.id, NoKey)

StartDeleteApi(q) ==
    /\ dbConf.id # 0 /\ apis' = apis
    /\ Start(q, "deleteApi", dbConf.id, NoKey)

(* CreateAPIKey: the API must exist, the name may be taken.  UpdateAPIKey   *)
(* of a name that is not there becomes this call.                          *)
StartCreateKey(q) ==
    /\ dbConf.id # 0 /\ apis' = apis
    /\ Start(q, "createKey", dbConf.id,
             [id |-> ops + 1, val |-> ops + 1, on |-> TRUE])

(* RegenerateAPIKey and UpdateAPIKey: the key must exist; its id stays.    *)
StartRegenerateKey(q) ==
    /\ dbConf.id # 0 /\ apis' = apis
    /\ dbKey[dbConf.id] # NoKey
    /\ Start(q, "regenerateKey", dbConf.id,
             [id |-> dbKey[dbConf.id].id, val |-> ops + 1, on |-> TRUE])

(* RevokeAPIKey: a key that is missing or revoked already ends the call.   *)
(* The row gets the time of the request, as every written row does.        *)
StartRevokeKey(q) ==
    /\ dbConf.id # 0 /\ apis' = apis
    /\ dbKey[dbConf.id].on
    /\ Start(q, "revokeKey", dbConf.id,
             [dbKey[dbConf.id] EXCEPT !.val = ops + 1, !.on = FALSE])

(* The artifacts table: an insert under a handle that is taken, an update  *)
(* or a delete of a row that is gone fails and ends the request.  A new id *)
(* has no row, so UpsertConfig's comparison of deployed_at is never met.   *)
WriteApi(q) ==
    /\ pc[q] = "write"
    /\ op[q] \in {"createApi", "updateApi", "deleteApi"}
    /\ \/ /\ dbConf.id = IF op[q] = "createApi" THEN 0 ELSE api[q]
          /\ pc' = [pc EXCEPT ![q] = "publish"]
          /\ dbConf' = IF op[q] = "deleteApi" THEN NoConf
                       ELSE [id |-> api[q], ver |-> dbConf.ver + 1]
          /\ dbKey' = IF op[q] = "deleteApi"
                      THEN [dbKey EXCEPT ![api[q]] = NoKey] ELSE dbKey
       \/ /\ dbConf.id # IF op[q] = "createApi" THEN 0 ELSE api[q]
          /\ pc' = [pc EXCEPT ![q] = "idle"]
          /\ UNCHANGED dbVars
    /\ UNCHANGED <<log, op, api, key, ops, apis, repVars, faults, restarts,
                   overwritten>>

(* The api_keys table.  UpsertAPIKey replaces the name's row, its id too,  *)
(* unless the row is as new as the key (updated_at < ?), and its caller is *)
(* not told which; UpdateAPIKey finds the row by name, keeps its id, sets  *)
(* the rest, and is content when there is none.                            *)
WriteKey(q) ==
    LET old == dbKey[api[q]] IN
    /\ pc[q] = "write"
    /\ op[q] \in {"createKey", "regenerateKey", "revokeKey"}
    /\ dbKey' = [dbKey EXCEPT ![api[q]] =
                   CASE op[q] = "createKey" ->
                          IF old.val < key[q].val THEN key[q] ELSE old
                     [] op[q] # "createKey" ->
                          IF old = NoKey THEN NoKey
                          ELSE [key[q] EXCEPT !.id = old.id]]
    /\ overwritten' = (overwritten \/ (op[q] = "createKey" /\ old # NoKey))
    /\ pc' = [pc EXCEPT ![q] = "publish"]
    /\ UNCHANGED <<dbConf, log, op, api, key, ops, apis, repVars, faults,
                   restarts>>

(* Mutant: a regeneration is published as an action no handler knows.      *)
KindRegenerated(what) ==
    CASE what \in {"createApi", "updateApi"} -> "api"
      [] what = "deleteApi"                  -> "apiGone"
      [] what = "createKey"                  -> "key"
      [] what = "regenerateKey"              -> "keyNew"
      [] what = "revokeKey"                  -> "keyGone"

(* The event a request publishes.                                          *)
Kind(what) == CASE what \in {"createApi", "updateApi"}     -> "api"
                [] what = "deleteApi"                      -> "apiGone"
                [] what \in {"createKey", "regenerateKey"} -> "key"
                [] what = "revokeKey"                      -> "keyGone"

(* What follows the publication, which is the last step but for a revoke.  *)
AfterPublish(q) == IF op[q] = "revokeKey" THEN "remove" ELSE "idle"

(* PublishEvent, which names the API and the key the request has read.     *)
Publish(q) ==
    /\ pc[q] = "publish"
    /\ log' = Append(log, [kind |-> Kind(op[q]), api |-> api[q],
                           key |-> key[q].id])
    /\ pc' = [pc EXCEPT ![q] = AfterPublish(q)]
    /\ UNCHANGED <<dbVars, op, api, key, ops, apis, repVars, faults, restarts,
                   overwritten>>

(* It fails, which is only logged.                                         *)
PublishFails(q) ==
    /\ pc[q] = "publish"
    /\ faults < MaxFaults
    /\ faults' = faults + 1
    /\ pc' = [pc EXCEPT ![q] = AfterPublish(q)]
    /\ UNCHANGED <<dbVars, log, op, api, key, ops, apis, repVars, restarts,
                   overwritten>>

(* RemoveAPIKeyAPIAndName: the row of that name, whatever its id is.       *)
RemoveKey(q) ==
    /\ pc[q] = "remove"
    /\ dbKey' = [dbKey EXCEPT ![api[q]] = NoKey]
    /\ pc' = [pc EXCEPT ![q] = "idle"]
    /\ UNCHANGED <<dbConf, log, op, api, key, ops, apis, repVars, faults,
                   restarts, overwritten>>

(* It fails, which is only logged: the revoked row stays.                  *)
RemoveKeyFails(q) ==
    /\ pc[q] = "remove"
    /\ faults < MaxFaults
    /\ faults' = faults + 1
    /\ pc' = [pc EXCEPT ![q] = "idle"]
    /\ UNCHANGED <<dbVars, log, op, api, key, ops, apis, repVars, restarts,
                   overwritten>>

-----------------------------------------------------------------------------
(* The event listener of replica r.                                         *)

Event(r) == log[pos[r] + 1]

Handles(r, kind) ==
    /\ busy[r] = 0 /\ pos[r] < Len(log)
    /\ Event(r).kind = kind
    /\ pos' = [pos EXCEPT ![r] = @ + 1]
    /\ UNCHANGED <<dbVars, log, reqVars, faults, restarts, overwritten>>

(* Mutant: an API that is in memory already is not updated.                *)
ApiIntoMemoryOnce(r, a) == IF conf[r].id = 0 THEN dbConf ELSE conf[r]

(* ConfigStore.Update or Add of the API a the database holds; another API  *)
(* under the same handle makes Add fail.                                   *)
ApiIntoMemory(r, a) == IF conf[r].id \in {0, a} THEN dbConf ELSE conf[r]

(* handleAPICreateOrUpdate: an API that is gone, or that memory refuses,   *)
(* ends the handler; otherwise syncAPIKeysForAPI follows.                  *)
HandleApi(r) ==
    LET a == Event(r).api IN
    /\ Handles(r, "api")
    /\ conf' = [conf EXCEPT ![r] =
                  IF dbConf.id = a THEN ApiIntoMemory(r, a) ELSE @]
    /\ busy' = [busy EXCEPT ![r] =
                  IF dbConf.id = a /\ conf[r].id \in {0, a} THEN a ELSE 0]
    /\ UNCHANGED <<mem, xds, adopted>>

(* syncAPIKeysForAPI: the key's row, whatever its status, goes to the key  *)
(* store and not to memory.                                                *)
SyncKeys(r) ==
    LET a == busy[r]  row == dbKey[a] IN
    /\ a # 0
    /\ busy' = [busy EXCEPT ![r] = 0]
    /\ xds' = [xds EXCEPT ![r][a] = IF row = NoKey THEN @ ELSE row]
    /\ adopted' = [adopted EXCEPT ![r] =
                     @ \/ (row # NoKey /\ mem[r][a].id # row.id)]
    /\ UNCHANGED <<dbVars, log, reqVars, pos, conf, mem, faults, restarts,
                   overwritten>>

(* handleAPIDelete: the key store is only cleared for an API in memory.    *)
HandleApiGone(r) ==
    LET a == Event(r).api IN
    /\ Handles(r, "apiGone")
    /\ conf' = [conf EXCEPT ![r] = IF @.id = a THEN NoConf ELSE @]
    /\ mem' = [mem EXCEPT ![r][a] = NoKey]
    /\ xds' = [xds EXCEPT ![r][a] = IF conf[r].id = a THEN NoKey ELSE @]
    /\ UNCHANGED <<busy, adopted>>

(* syncAPIConfigForAPIKeyEvent finds the API a in memory or the database,  *)
(* and puts it into memory unless another API has the handle there.        *)
Resolves(r, a) == a \in {conf[r].id, dbConf.id}
Resolved(r, a) == IF conf[r].id = 0 /\ dbConf.id = a THEN dbConf ELSE conf[r]

(* Mutant: a key that is in memory is not stored again.                    *)
MayStoreNew(r, a, k) == mem[r][a] = NoKey

(* ConfigStore.StoreAPIKey refuses a key whose name another key has.       *)
MayStore(r, a, k) == mem[r][a].id \in {0, k}

(* handleAPIKeyUpsert: a key that is gone, or that memory refuses, ends    *)
(* the handler, and so does an API that is not found.                      *)
HandleKey(r) ==
    LET a == Event(r).api  k == Event(r).key  row == dbKey[a] IN
    /\ Handles(r, "key")
    /\ \/ /\ row.id = k /\ MayStore(r, a, k)
          /\ mem' = [mem EXCEPT ![r][a] = row]
          /\ xds' = [xds EXCEPT ![r][a] = IF Resolves(r, a) THEN row ELSE @]
          /\ conf' = [conf EXCEPT ![r] = Resolved(r, a)]
       \/ /\ ~(row.id = k /\ MayStore(r, a, k))
          /\ UNCHANGED <<mem, xds, conf>>
    /\ UNCHANGED <<busy, adopted>>

(* Mutant: the name is looked up after the key was removed.                *)
NameKnownLate(r, a, k) == FALSE

(* The name of the key is only known from memory.                          *)
NameKnown(r, a, k) == mem[r][a].id = k

(* handleAPIKeyRevoke: without the name the key store is left alone; with  *)
(* it, Revoke removes the key of that name.                                *)
HandleKeyGone(r) ==
    LET a == Event(r).api  k == Event(r).key
        known == NameKnown(r, a, k)
    IN
    /\ Handles(r, "keyGone")
    /\ mem' = [mem EXCEPT ![r][a] = IF @.id = k THEN NoKey ELSE @]
    /\ xds' = [xds EXCEPT ![r][a] =
                 IF known /\ Resolves(r, a) THEN NoKey ELSE @]
    /\ conf' = [conf EXCEPT ![r] = IF known THEN Resolved(r, a) ELSE @]
    /\ UNCHANGED <<busy, adopted>>

(* A replica stops and starts: the configurations and the active keys are  *)
(* loaded, and the subscription begins some way back in the log.           *)
Restart(r) ==
    LET active == [a \in Apis |-> IF dbKey[a].on THEN dbKey[a] ELSE NoKey] IN
    /\ restarts < MaxRestarts
    /\ restarts' = restarts + 1
    /\ conf' = [conf EXCEPT ![r] = dbConf]
    /\ mem' = [mem EXCEPT ![r] = active]
    /\ xds' = [xds EXCEPT ![r] = active]
    /\ \E p \in 0..Len(log) : pos' = [pos EXCEPT ![r] = p]
    /\ busy' = [busy EXCEPT ![r] = 0]
    /\ adopted' = [adopted EXCEPT ![r] = FALSE]
    /\ UNCHANGED <<dbVars, log, reqVars, faults, overwritten>>

-----------------------------------------------------------------------------
Request(q) ==
    \/ StartCreateApi(q) \/ StartUpdateApi(q) \/ StartDeleteApi(q)
    \/ StartCreateKey(q) \/ StartRegenerateKey(q) \/ StartRevokeKey(q)
    \/ WriteApi(q) \/ WriteKey(q)
    \/ Publish(q) \/ PublishFails(q) \/ RemoveKey(q) \/ RemoveKeyFails(q)

Listen(r) ==
    \/ HandleApi(r) \/ SyncKeys(r) \/ HandleApiGone(r)
    \/ HandleKey(r) \/ HandleKeyGone(r)

Next ==
    \/ \E q \in Requests : Request(q)
    \/ \E r \in Replicas : Listen(r) \/ Restart(r)

Spec == Init /\ [][Next]_vars

-----------------------------------------------------------------------------
(* Properties.                                                              *)

Confs == [id : 0..MaxApis, ver : 0..MaxOps]
Rows  == [id : 0..MaxOps, val : 0..MaxOps, on : BOOLEAN]

(* Every variable holds a value of its type.                               *)
TypeOK ==
    /\ dbConf \in Confs
    /\ dbKey \in [Apis -> Rows]
    /\ log \in Seq([kind : {"api", "apiGone", "key", "keyGone"},
                    api : Apis, key : 0..MaxOps])
    /\ pc \in [Requests -> {"idle", "write", "publish", "remove"}]
    /\ op \in [Requests -> {"none", "createApi", "updateApi", "deleteApi",
                            "createKey", "regenerateKey", "revokeKey"}]
    /\ api \in [Requests -> 0..MaxApis]
    /\ key \in [Requests -> Rows]
    /\ ops \in 0..MaxOps
    /\ apis \in 0..MaxApis
    /\ pos \in [Replicas -> 0..Len(log)]
    /\ busy \in [Replicas -> 0..MaxApis]
    /\ conf \in [Replicas -> Confs]
    /\ mem \in [Replicas -> [Apis -> Rows]]
    /\ xds \in [Replicas -> [Apis -> Rows]]
    /\ faults \in 0..MaxFaults
    /\ restarts \in 0..MaxRestarts
    /\ overwritten \in BOOLEAN
    /\ adopted \in [Replicas -> BOOLEAN]

(* Replica r has handled every event, no request is under way, no event    *)
(* was lost and no revoked row was left behind.                            *)
Quiet(r) ==
    /\ pos[r] = Len(log) /\ busy[r] = 0
    /\ \A q \in Requests : pc[q] = "idle"
    /\ faults = 0

(* Once quiet, a replica holds the database's version of the API, however  *)
(* late it handled the events and whatever it handled again after a        *)
(* restart.                                                                *)
ApiFollows == \A r \in Replicas : Quiet(r) => conf[r] = dbConf

(* Once quiet, the key in the replica's memory is the database's, unless a *)
(* new key was written where its name had a row already.                   *)
KeyFollows ==
    \A r \in Replicas : Quiet(r) /\ ~overwritten => mem[r] = dbKey

(* Once quiet, the policy engine is given a key the database holds, in its *)
(* last value, unless a new key was written where its name had a row:      *)
(* StoreAPIKey refuses a second key of the name (memory.go:478), so such a *)
(* key may never work.  Any other key the user has been told of does.      *)
KeyServed ==
    \A r \in Replicas : Quiet(r) /\ ~overwritten =>
        \A a \in Apis : dbKey[a] # NoKey => xds[r][a] = dbKey[a]

(* Once quiet, the policy engine has no key but the database's, unless a   *)
(* key came with an API event while memory did not have it, or a new key   *)
(* was written where its name had a row.                                   *)
RevokedLeaves ==
    \A r \in Replicas : Quiet(r) /\ ~overwritten /\ ~adopted[r] =>
        \A a \in Apis : xds[r][a] # NoKey => xds[r][a] = dbKey[a]

(* What "the revocation is already complete" promises once the event is    *)
(* published: a replica that has handled every event lets no key in where  *)
(* the database has none.                                                  *)
RevocationComplete ==
    \A r \in Replicas : Quiet(r) =>
        \A a \in Apis : dbKey[a] = NoKey => ~xds[r][a].on
=============================================================================
