----------------------------- MODULE Deployment -----------------------------
(***************************************************************************)
(* The deployment of one artifact to one gateway: the requests of the      *)
(* platform API (deploy, restore, undeploy, delete) and the status row     *)
(* they share, the events that tell the gateway's controllers, their       *)
(* timestamp-guarded writes to the gateway's database and their            *)
(* acknowledgements, the job that times out unanswered operations, and the *)
(* bulk sync a controller runs when it first connects.                     *)
(*                                                                         *)
(* A deployment is a number, given out in the order of creation; it stands *)
(* for its immutable content as well.  Time runs in units finer than the   *)
(* millisecond to which the code truncates performed_at.                   *)
(***************************************************************************)
EXTENDS Naturals, Sequences, FiniteSets

CONSTANTS
    Requests,                  \* concurrent requests of the platform API
    Controllers,               \* controller replicas of the gateway
    TransitionalStatusEnabled, \* deployments.transitional_status_enabled
    DeploymentSyncEnabled,     \* controlplane.deployment_sync_enabled
    HardLimit,                 \* MaxPerAPIGateway + DeploymentLimitBuffer
    Batch,                     \* archived deployments dropped at the limit
    Ms,                        \* clock units in a millisecond
    Timeout,                   \* age at which an operation times out
    Ties,                      \* TRUE: two operations may share a token
    MaxTime,                   \* bound: the clock stops here
    MaxOpTime,                 \* bound: performed_at is issued until here
    MaxOps,                    \* bound: requests begun
    MaxFaults,                 \* bound: calls, messages and processes that fail
    MaxDeployments             \* bound: deployments created

ASSUME DeploymentAssumption ==
    /\ {Batch, Ms} \subseteq Nat \ {0}
    /\ HardLimit \in Nat /\ HardLimit > Batch
    /\ {Timeout, MaxTime, MaxOpTime, MaxOps, MaxFaults, MaxDeployments}
          \subseteq Nat
    /\ {TransitionalStatusEnabled, DeploymentSyncEnabled, Ties}
          \subseteq BOOLEAN

VARIABLES
    now,      \* the clock of the platform API
    ops,      \* requests begun
    deps,     \* rows of deployments
    nextDep,  \* the next deployment to create
    st,       \* the row of deployment_status
    rpc,      \* per request: where it is
    rop,      \*   "deploy", "restore", "undeploy" or "delete"
    rdep,     \*   the deployment it is about
    rat,      \*   performedAt
    entry,    \* the row the timeout job is about to resolve
    log,      \* events published for the gateway, in order
    acks,     \* acknowledgements on their way
    cfg,      \* the artifact's row in the gateway's database
    pos,      \* per controller: events of log it has taken
    hpc,      \* per controller: where its read loop is
    hev,      \*   the event being handled
    hdata,    \*   the content fetched or read for it
    spc,      \* per controller: where its sync is
    srow,     \*   the status row the platform API listed
    sdata,    \*   the content fetched or read for it
    stamped,  \* history: operations that have got their performed_at
    created,  \* history: deployment and performed_at of each Create
    applied,  \* history: events a controller acknowledged with success
    faults    \* calls, messages and processes that have failed

cpVars   == <<deps, nextDep, st>>
reqVars  == <<ops, rpc, rop, rdep, rat>>
handVars == <<hpc, hev, hdata>>
syncVars == <<spc, srow, sdata>>
history  == <<stamped, created, applied>>
vars == <<now, cpVars, reqVars, entry, log, acks, cfg, pos, handVars,
          syncVars, history, faults>>

(* Rows and messages.  NoRow and NoCfg stand for an absent row, and 0 for  *)
(* no deployment.                                                          *)
NoRow   == [dep |-> 0, status |-> "NONE", desired |-> "NONE", at |-> 0]
NoCfg   == [state |-> "absent", dep |-> 0, content |-> 0, at |-> 0]
NoEvent == [op |-> "none", dep |-> 0, at |-> 0]

Statuses == {"DEPLOYING", "DEPLOYED", "UNDEPLOYING", "UNDEPLOYED", "FAILED"}
Row   == [dep : Nat, status : Statuses \cup {"NONE"},
          desired : {"DEPLOYED", "UNDEPLOYED", "NONE"}, at : Nat]
Cfg   == [state : {"absent", "deployed", "undeployed"}, dep : Nat,
          content : Nat, at : Nat]
Event == [op : {"deploy", "undeploy"}, dep : Nat, at : Nat]
Ack   == [ctrl : Controllers, op : {"deploy", "undeploy"}, dep : Nat,
          at : Nat, ok : BOOLEAN]

Trunc(t) == (t \div Ms) * Ms

Init ==
    /\ now = 0
    /\ ops = 0
    /\ deps = {}
    /\ nextDep = 1
    /\ st = NoRow
    /\ rpc = [q \in Requests |-> "idle"]
    /\ rop = [q \in Requests |-> "none"]
    /\ rdep = [q \in Requests |-> 0]
    /\ rat = [q \in Requests |-> 0]
    /\ entry = NoRow
    /\ log = <<>>
    /\ acks = {}
    /\ cfg = NoCfg
    /\ pos = [c \in Controllers |-> 0]
    /\ hpc = [c \in Controllers |-> "off"]
    /\ hev = [c \in Controllers |-> NoEvent]
    /\ hdata = [c \in Controllers |-> 0]
    /\ spc = [c \in Controllers |-> "new"]
    /\ srow = [c \in Controllers |-> NoRow]
    /\ sdata = [c \in Controllers |-> 0]
    /\ stamped = {}
    /\ created = {}
    /\ applied = {}
    /\ faults = 0

(* Something fails: a call, a connection, a message or a process.          *)
Fault == faults < MaxFaults /\ faults' = faults + 1

-----------------------------------------------------------------------------
(* The requests.                                                            *)

(* A request begins with its checks, or the Create of a deploy.            *)
Begin(q, op, d, next) ==
    /\ rpc[q] = "idle"
    /\ ops < MaxOps
    /\ ops' = ops + 1
    /\ rpc' = [rpc EXCEPT ![q] = next]
    /\ rop' = [rop EXCEPT ![q] = op]
    /\ rdep' = [rdep EXCEPT ![q] = d]
    /\ UNCHANGED rat

(* The request returns.                                                    *)
Finish(q) ==
    /\ rpc' = [rpc EXCEPT ![q] = "idle"]
    /\ rop' = [rop EXCEPT ![q] = "none"]
    /\ rdep' = [rdep EXCEPT ![q] = 0]
    /\ rat' = [rat EXCEPT ![q] = 0]
    /\ UNCHANGED ops

Goto(q, next) ==
    /\ rpc' = [rpc EXCEPT ![q] = next]
    /\ UNCHANGED <<ops, rop, rdep, rat>>

(* A performed_at is issued: Ties = FALSE assumes that no two coincide.    *)
Fresh(t) ==
    /\ now <= MaxOpTime
    /\ Ties \/ /\ \A e \in stamped : e.at # t
               /\ \A c \in created : c[2] # t

(* A deployment's status: the row's if it is the current one.              *)
StatusOf(d) == IF st.dep = d THEN st.status ELSE "ARCHIVED"

(* Mutant: the limit is enforced one deployment late.                      *)
KeptLate ==
    LET archived == {d \in deps : d # st.dep} IN
    IF Cardinality(deps) > HardLimit
      THEN {d \in deps : d \in archived =>
              Cardinality({e \in archived : e < d}) >= Batch}
      ELSE deps

(* Mutant: the cleanup counts the current deployment among the oldest.     *)
KeptNewest ==
    IF Cardinality(deps) >= HardLimit
      THEN {d \in deps : Cardinality({e \in deps : e < d}) >= Batch}
      ELSE deps

(* CreateWithLimitEnforcement: at the limit, the oldest archived           *)
(* deployments make room.                                                  *)
Kept ==
    LET archived == {d \in deps : d # st.dep} IN
    IF Cardinality(deps) >= HardLimit
      THEN {d \in deps : d \in archived =>
              Cardinality({e \in archived : e < d}) >= Batch}
      ELSE deps

(* DeployAPI up to CreateWithLimitEnforcement: one transaction stores the  *)
(* deployment and points the status row to it, as DEPLOYED and with a      *)
(* performed_at that is not truncated.                                     *)
DeployCreate(q) ==
    /\ nextDep <= MaxDeployments
    /\ Fresh(now)
    /\ Begin(q, "deploy", nextDep, "stamp")
    /\ deps' = Kept \cup {nextDep}
    /\ nextDep' = nextDep + 1
    /\ st' = [dep |-> nextDep, status |-> "DEPLOYED",
              desired |-> "DEPLOYED", at |-> now]
    /\ created' = created \cup {<<nextDep, now>>}
    /\ UNCHANGED <<now, entry, log, acks, cfg, pos, handVars, syncVars,
                   stamped, applied, faults>>

(* The checks of RestoreDeployment and UndeployDeployment.                 *)
RestoreCheck(q, d) ==
    /\ d \in deps
    /\ StatusOf(d) # "DEPLOYED"
    /\ Begin(q, "restore", d, "stamp")
    /\ UNCHANGED <<now, cpVars, entry, log, acks, cfg, pos, handVars,
                   syncVars, history, faults>>

UndeployCheck(q, d) ==
    /\ d \in deps
    /\ StatusOf(d) = "DEPLOYED"
    /\ Begin(q, "undeploy", d, "stamp")
    /\ UNCHANGED <<now, cpVars, entry, log, acks, cfg, pos, handVars,
                   syncVars, history, faults>>

(* What an operation asks of the gateway.                                  *)
EventOp(op) == IF op = "undeploy" THEN "undeploy" ELSE "deploy"

(* performedAt := time.Now().UTC().Truncate(time.Millisecond)              *)
Stamp(q) ==
    /\ rpc[q] = "stamp"
    /\ Fresh(Trunc(now))
    /\ rpc' = [rpc EXCEPT ![q] = "write"]
    /\ rat' = [rat EXCEPT ![q] = Trunc(now)]
    /\ stamped' = stamped \cup {[op |-> EventOp(rop[q]), dep |-> rdep[q],
                                at |-> Trunc(now)]}
    /\ UNCHANGED <<now, cpVars, ops, rop, rdep, entry, log, acks, cfg, pos,
                   handVars, syncVars, created, applied, faults>>

InitialStatus(op) ==
    IF op = "undeploy"
      THEN IF TransitionalStatusEnabled THEN "UNDEPLOYING" ELSE "UNDEPLOYED"
      ELSE IF TransitionalStatusEnabled THEN "DEPLOYING" ELSE "DEPLOYED"

(* SetCurrentWithDetails: an unconditional upsert of the row, which the    *)
(* foreign key lets through for a deployment that still exists.            *)
SetCurrent(q) ==
    /\ rpc[q] = "write"
    /\ rdep[q] \in deps
    /\ st' = [dep |-> rdep[q], status |-> InitialStatus(rop[q]),
              desired |-> IF rop[q] = "undeploy" THEN "UNDEPLOYED"
                                                 ELSE "DEPLOYED",
              at |-> rat[q]]
    /\ Goto(q, "send")
    /\ UNCHANGED <<now, deps, nextDep, entry, log, acks, cfg, pos, handVars,
                   syncVars, history, faults>>

(* It fails: a deploy goes on and sends its event, the others return.      *)
SetCurrentError(q) ==
    /\ rpc[q] = "write"
    /\ \/ rop[q] = "deploy" /\ Goto(q, "send")
       \/ rop[q] # "deploy" /\ Finish(q)
    /\ \/ rdep[q] \in deps /\ Fault
       \/ rdep[q] \notin deps /\ UNCHANGED faults
    /\ UNCHANGED <<now, cpVars, entry, log, acks, cfg, pos, handVars,
                   syncVars, history>>

EventOf(q) == [op |-> EventOp(rop[q]), dep |-> rdep[q], at |-> rat[q]]

(* The broadcast, through the event hub to every controller.               *)
Send(q) ==
    /\ rpc[q] = "send"
    /\ log' = Append(log, EventOf(q))
    /\ Finish(q)
    /\ UNCHANGED <<now, cpVars, entry, acks, cfg, pos, handVars, syncVars,
                   history, faults>>

(* A broadcast that fails is logged, and the request succeeds.             *)
SendError(q) ==
    /\ rpc[q] = "send"
    /\ Finish(q)
    /\ Fault
    /\ UNCHANGED <<now, cpVars, entry, log, acks, cfg, pos, handVars,
                   syncVars, history>>

(* DeleteDeployment: the check, and then the delete, which takes the       *)
(* status row of the current deployment along.                             *)
DeleteCheck(q, d) ==
    /\ d \in deps
    /\ StatusOf(d) # "DEPLOYED"
    /\ Begin(q, "delete", d, "delete")
    /\ UNCHANGED <<now, cpVars, entry, log, acks, cfg, pos, handVars,
                   syncVars, history, faults>>

Delete(q) ==
    /\ rpc[q] = "delete"
    /\ deps' = deps \ {rdep[q]}
    /\ st' = IF st.dep = rdep[q] THEN NoRow ELSE st
    /\ Finish(q)
    /\ UNCHANGED <<now, nextDep, entry, log, acks, cfg, pos, handVars,
                   syncVars, history, faults>>

-----------------------------------------------------------------------------
(* Answers and timeouts.                                                    *)

Transitional == {"DEPLOYING", "UNDEPLOYING"}

(* Mutant: the status is updated whatever the token of the row.            *)
UpdateStatusUnguarded(new, at, required) ==
    st' = IF st # NoRow /\ st.status \in required
            THEN [dep |-> st.dep, status |-> new, desired |-> st.desired,
                  at |-> st.at]
            ELSE st

(* UpdateStatusWithPerformedAtGuard.                                       *)
UpdateStatus(new, at, required) ==
    st' = IF st # NoRow /\ st.at = at /\ st.status \in required
            THEN [dep |-> st.dep, status |-> new, desired |-> st.desired,
                  at |-> st.at]
            ELSE st

(* Mutant: a success is taken although the operation is over.              *)
HandleAckLate(a) ==
    /\ a \in acks
    /\ \/ /\ ~a.ok
          /\ UpdateStatus("FAILED", a.at, Statuses)
       \/ /\ a.ok /\ a.op = "deploy"
          /\ UpdateStatus("DEPLOYED", a.at, {"DEPLOYING", "FAILED"})
       \/ /\ a.ok /\ a.op = "undeploy"
          /\ UpdateStatus("UNDEPLOYED", a.at, {"UNDEPLOYING", "FAILED"})
    /\ acks' = acks \ {a}
    /\ UNCHANGED <<now, deps, nextDep, reqVars, entry, log, cfg, pos,
                   handVars, syncVars, history, faults>>

(* HandleDeploymentAck: a failure overwrites any status of its operation,  *)
(* a success only the transitional one.                                    *)
HandleAck(a) ==
    /\ a \in acks
    /\ \/ /\ ~a.ok
          /\ UpdateStatus("FAILED", a.at, Statuses)
       \/ /\ a.ok /\ a.op = "deploy"
          /\ UpdateStatus("DEPLOYED", a.at, {"DEPLOYING"})
       \/ /\ a.ok /\ a.op = "undeploy"
          /\ UpdateStatus("UNDEPLOYED", a.at, {"UNDEPLOYING"})
    /\ acks' = acks \ {a}
    /\ UNCHANGED <<now, deps, nextDep, reqVars, entry, log, cfg, pos,
                   handVars, syncVars, history, faults>>

(* The connection breaks under an acknowledgement, or its update fails.    *)
LoseAck(a) ==
    /\ a \in acks
    /\ acks' = acks \ {a}
    /\ Fault
    /\ UNCHANGED <<now, cpVars, reqVars, entry, log, cfg, pos, handVars,
                   syncVars, history>>

(* Mutant: the job overlooks undeployments.                                *)
StaleDeployOnly == st.status = "DEPLOYING" /\ st.at + Timeout < now

(* GetStaleTransitionalStatuses.                                           *)
Stale == st.status \in Transitional /\ st.at + Timeout < now

(* processStaleStatuses reads the stale row, and then resolves it unless   *)
(* it has changed.  A read that fails changes nothing: the next tick reads *)
(* again.                                                                  *)
TimeoutScan ==
    /\ entry = NoRow
    /\ Stale
    /\ entry' = st
    /\ UNCHANGED <<now, cpVars, reqVars, log, acks, cfg, pos, handVars,
                   syncVars, history, faults>>

TimeoutResolve ==
    /\ entry # NoRow
    /\ UpdateStatus("FAILED", entry.at, {entry.status})
    /\ entry' = NoRow
    /\ UNCHANGED <<now, deps, nextDep, reqVars, log, acks, cfg, pos,
                   handVars, syncVars, history, faults>>

(* The update fails, or the job's process ends with the row in hand.  The  *)
(* error is logged, and the row is left for a later tick to find.          *)
TimeoutError ==
    /\ entry # NoRow
    /\ entry' = NoRow
    /\ Fault
    /\ UNCHANGED <<now, cpVars, reqVars, log, acks, cfg, pos, handVars,
                   syncVars, history>>

-----------------------------------------------------------------------------
(* The read loop of a controller, one event at a time.                      *)

(* UpsertConfig writes if the row is absent or its deployed_at is older.   *)
Newer(at) == cfg = NoCfg \/ cfg.at < at

(* The read loop is ready for the next message.                            *)
Idle(c) ==
    /\ hpc' = [hpc EXCEPT ![c] = "idle"]
    /\ hev' = [hev EXCEPT ![c] = NoEvent]
    /\ hdata' = [hdata EXCEPT ![c] = 0]

SendAck(c, ok) ==
    acks' = acks \cup {[ctrl |-> c, op |-> hev[c].op, dep |-> hev[c].dep,
                        at |-> hev[c].at, ok |-> ok]}

Receive(c) ==
    LET e == log[pos[c] + 1] IN
    /\ hpc[c] = "idle"
    /\ pos[c] < Len(log)
    /\ pos' = [pos EXCEPT ![c] = @ + 1]
    /\ hpc' = [hpc EXCEPT ![c] = IF e.op = "deploy" THEN "fetch" ELSE "read"]
    /\ hev' = [hev EXCEPT ![c] = e]
    /\ UNCHANGED <<now, cpVars, reqVars, entry, log, acks, cfg, hdata,
                   syncVars, history, faults>>

(* handleAPIDeployedEvent fetches the artifact's current deployment, which *)
(* need not be the one of the event; GetActiveDeploymentByGateway finds    *)
(* none unless DEPLOYED is desired, and then the event has failed.         *)
Fetch(c) ==
    /\ hpc[c] = "fetch"
    /\ \/ /\ st.desired = "DEPLOYED"
          /\ hdata' = [hdata EXCEPT ![c] = st.dep]
          /\ hpc' = [hpc EXCEPT ![c] = "save"]
          /\ UNCHANGED <<acks, hev>>
       \/ /\ st.desired # "DEPLOYED"
          /\ SendAck(c, FALSE)
          /\ Idle(c)
    /\ UNCHANGED <<now, cpVars, reqVars, entry, log, cfg, pos, syncVars,
                   history, faults>>

(* Mutant: an undeployment of another deployment is dropped in silence.    *)
ReadDropsMismatch(c) ==
    /\ hpc[c] = "read"
    /\ \/ /\ cfg = NoCfg
          /\ SendAck(c, TRUE)
          /\ applied' = applied \cup {hev[c]}
          /\ Idle(c)
       \/ /\ cfg # NoCfg /\ cfg.dep # hev[c].dep
          /\ Idle(c)
          /\ UNCHANGED <<acks, applied>>
       \/ /\ cfg # NoCfg /\ cfg.dep = hev[c].dep
          /\ hdata' = [hdata EXCEPT ![c] = cfg.content]
          /\ hpc' = [hpc EXCEPT ![c] = "save"]
          /\ UNCHANGED <<acks, applied, hev>>
    /\ UNCHANGED <<now, cpVars, reqVars, entry, log, cfg, pos, syncVars,
                   stamped, created, faults>>

(* handleAPIUndeployedEvent reads the row: nothing to undeploy counts as   *)
(* undeployed, and another deployment is left alone.                       *)
Read(c) ==
    /\ hpc[c] = "read"
    /\ \/ /\ cfg = NoCfg
          /\ SendAck(c, TRUE)
          /\ applied' = applied \cup {hev[c]}
          /\ Idle(c)
       \/ /\ cfg # NoCfg /\ cfg.dep # hev[c].dep
          /\ SendAck(c, FALSE)
          /\ Idle(c)
          /\ UNCHANGED applied
       \/ /\ cfg # NoCfg /\ cfg.dep = hev[c].dep
          /\ hdata' = [hdata EXCEPT ![c] = cfg.content]
          /\ hpc' = [hpc EXCEPT ![c] = "save"]
          /\ UNCHANGED <<acks, applied, hev>>
    /\ UNCHANGED <<now, cpVars, reqVars, entry, log, cfg, pos, syncVars,
                   stamped, created, faults>>

(* Mutant: a stale event is acknowledged like any other.                   *)
SaveAcksStale(c) ==
    /\ hpc[c] = "save"
    /\ cfg' = IF Newer(hev[c].at)
                THEN [state |-> IF hev[c].op = "deploy" THEN "deployed"
                                                        ELSE "undeployed",
                      dep |-> hev[c].dep, content |-> hdata[c],
                      at |-> hev[c].at]
                ELSE cfg
    /\ applied' = IF Newer(hev[c].at) THEN applied \cup {hev[c]} ELSE applied
    /\ SendAck(c, TRUE)
    /\ Idle(c)
    /\ UNCHANGED <<now, cpVars, reqVars, entry, log, pos, syncVars, stamped,
                   created, faults>>

(* UpsertConfig and the answer: a stale event gets none.  A process that   *)
(* dies between the two takes the answer along: see Restart.               *)
Save(c) ==
    /\ hpc[c] = "save"
    /\ \/ /\ Newer(hev[c].at)
          /\ cfg' = [state |-> IF hev[c].op = "deploy" THEN "deployed"
                                                       ELSE "undeployed",
                     dep |-> hev[c].dep, content |-> hdata[c],
                     at |-> hev[c].at]
          /\ applied' = applied \cup {hev[c]}
          /\ SendAck(c, TRUE)
       \/ /\ ~Newer(hev[c].at)
          /\ UNCHANGED <<cfg, applied, acks>>
    /\ Idle(c)
    /\ UNCHANGED <<now, cpVars, reqVars, entry, log, pos, syncVars, stamped,
                   created, faults>>

(* A call fails on the way: the fetch, rendering or validation of the      *)
(* artifact, or the gateway's database.                                    *)
HandleError(c) ==
    /\ hpc[c] \in {"fetch", "read", "save"}
    /\ SendAck(c, FALSE)
    /\ Idle(c)
    /\ Fault
    /\ UNCHANGED <<now, cpVars, reqVars, entry, log, cfg, pos, syncVars,
                   history>>

(* The connection is set up.  What was published meanwhile may be missed,  *)
(* and what was delivered before may come again from a platform API        *)
(* process whose event hub starts anew.  Only the first connection of a    *)
(* process starts the bulk sync.                                           *)
Connect(c) ==
    /\ hpc[c] = "off"
    /\ hpc' = [hpc EXCEPT ![c] = "idle"]
    /\ \E p \in 0..Len(log) :
         /\ pos' = [pos EXCEPT ![c] = p]
         /\ \/ p # pos[c] /\ Fault
            \/ p = pos[c] /\ UNCHANGED faults
    /\ spc' = [spc EXCEPT ![c] =
                 IF @ = "new"
                   THEN IF DeploymentSyncEnabled THEN "list" ELSE "done"
                   ELSE @]
    /\ UNCHANGED <<now, cpVars, reqVars, entry, log, acks, cfg, hev, hdata,
                   srow, sdata, history>>

Disconnect(c) ==
    /\ hpc[c] = "idle"
    /\ hpc' = [hpc EXCEPT ![c] = "off"]
    /\ Fault
    /\ UNCHANGED <<now, cpVars, reqVars, entry, log, acks, cfg, pos, hev,
                   hdata, syncVars, history>>

(* The process dies at any point, and a new one comes up.  Gone are the    *)
(* event in hand, the sync, and answers: the one of a write after which it *)
(* died, and those its connection had not passed on.                       *)
Restart(c) ==
    /\ hpc[c] # "off" \/ spc[c] # "new"
    /\ hpc' = [hpc EXCEPT ![c] = "off"]
    /\ hev' = [hev EXCEPT ![c] = NoEvent]
    /\ hdata' = [hdata EXCEPT ![c] = 0]
    /\ spc' = [spc EXCEPT ![c] = "new"]
    /\ srow' = [srow EXCEPT ![c] = NoRow]
    /\ sdata' = [sdata EXCEPT ![c] = 0]
    /\ \E unsent \in SUBSET {a \in acks : a.ctrl = c} : acks' = acks \ unsent
    /\ Fault
    /\ UNCHANGED <<now, cpVars, reqVars, entry, log, cfg, pos, history>>

-----------------------------------------------------------------------------
(* The bulk sync, a goroutine beside the read loop.                         *)

SyncEnd(c) ==
    /\ spc' = [spc EXCEPT ![c] = "done"]
    /\ srow' = [srow EXCEPT ![c] = NoRow]
    /\ sdata' = [sdata EXCEPT ![c] = 0]

(* FetchControlPlaneDeployments.  An artifact that is not listed, but      *)
(* exists on the platform, is left alone.                                  *)
SyncList(c) ==
    /\ spc[c] = "list"
    /\ \/ st = NoRow /\ SyncEnd(c)
       \/ /\ st # NoRow
          /\ spc' = [spc EXCEPT ![c] = "diff"]
          /\ srow' = [srow EXCEPT ![c] = st]
          /\ UNCHANGED sdata
    /\ UNCHANGED <<now, cpVars, reqVars, entry, log, acks, cfg, pos, handVars,
                   history, faults>>

(* Mutant: a state that is not recognised is passed on.                    *)
ParsedAny(status) == CASE status = "DEPLOYED"   -> "deployed"
                       [] status = "UNDEPLOYED" -> "undeployed"
                       [] OTHER                 -> status

(* ParseDesiredState knows only the settled states.                        *)
Parsed(status) == CASE status = "DEPLOYED"   -> "deployed"
                    [] status = "UNDEPLOYED" -> "undeployed"
                    [] OTHER                 -> "invalid"

(* computeSyncDiff.                                                        *)
ToFetch(row) ==
    \/ cfg = NoCfg /\ Parsed(row.status) = "deployed"
    \/ cfg # NoCfg /\ cfg.dep # row.dep
    \/ /\ cfg # NoCfg /\ cfg.dep = row.dep
       /\ Parsed(row.status) = cfg.state
       /\ row.at # cfg.at

ToUpdateStatus(row) ==
    /\ cfg # NoCfg /\ cfg.dep = row.dep
    /\ Parsed(row.status) # "invalid"
    /\ Parsed(row.status) # cfg.state

SyncDiff(c) ==
    /\ spc[c] = "diff"
    /\ \/ /\ ToFetch(srow[c])
          /\ spc' = [spc EXCEPT ![c] = "fetch"]
          /\ UNCHANGED <<srow, sdata>>
       \/ /\ ToUpdateStatus(srow[c])
          /\ spc' = [spc EXCEPT ![c] = "read"]
          /\ UNCHANGED <<srow, sdata>>
       \/ /\ ~ToFetch(srow[c]) /\ ~ToUpdateStatus(srow[c])
          /\ SyncEnd(c)
    /\ UNCHANGED <<now, cpVars, reqVars, entry, log, acks, cfg, pos, handVars,
                   history, faults>>

(* processSyncFetchBatch: the content of a deployment that still exists.   *)
SyncFetch(c) ==
    /\ spc[c] = "fetch"
    /\ \/ /\ srow[c].dep \in deps
          /\ sdata' = [sdata EXCEPT ![c] = srow[c].dep]
          /\ spc' = [spc EXCEPT ![c] = "save"]
          /\ UNCHANGED srow
       \/ srow[c].dep \notin deps /\ SyncEnd(c)
    /\ UNCHANGED <<now, cpVars, reqVars, entry, log, acks, cfg, pos, handVars,
                   history, faults>>

(* processSyncStatusUpdates: the row is read again to be relabelled.       *)
SyncRead(c) ==
    /\ spc[c] = "read"
    /\ sdata' = [sdata EXCEPT ![c] = cfg.content]
    /\ spc' = [spc EXCEPT ![c] = "update"]
    /\ UNCHANGED <<now, cpVars, reqVars, entry, log, acks, cfg, pos, handVars,
                   srow, history, faults>>

(* The guarded write of either.  CreateAPIFromYAML always deploys, and     *)
(* nothing is acknowledged.                                                *)
SyncSave(c) ==
    /\ spc[c] \in {"save", "update"}
    /\ cfg' = IF Newer(srow[c].at)
                THEN [state |-> IF spc[c] = "save"
                                  THEN "deployed"
                                  ELSE Parsed(srow[c].status),
                      dep |-> srow[c].dep, content |-> sdata[c],
                      at |-> srow[c].at]
                ELSE cfg
    /\ SyncEnd(c)
    /\ UNCHANGED <<now, cpVars, reqVars, entry, log, acks, pos, handVars,
                   history, faults>>

(* A call of the sync fails: it is over for this process.                  *)
SyncError(c) ==
    /\ spc[c] \in {"list", "diff", "fetch", "read", "save", "update"}
    /\ SyncEnd(c)
    /\ Fault
    /\ UNCHANGED <<now, cpVars, reqVars, entry, log, acks, cfg, pos, handVars,
                   history>>

Tick ==
    /\ now < MaxTime
    /\ now' = now + 1
    /\ UNCHANGED <<cpVars, reqVars, entry, log, acks, cfg, pos, handVars,
                   syncVars, history, faults>>

-----------------------------------------------------------------------------
RequestStep(q) ==
    \/ DeployCreate(q) \/ Stamp(q) \/ SetCurrent(q) \/ SetCurrentError(q)
    \/ Send(q) \/ SendError(q) \/ Delete(q)
    \/ \E d \in deps : RestoreCheck(q, d) \/ UndeployCheck(q, d)
                          \/ DeleteCheck(q, d)

HandlerStep(c) ==
    \/ Receive(c) \/ Fetch(c) \/ Read(c) \/ Save(c) \/ HandleError(c)
    \/ Connect(c) \/ Disconnect(c) \/ Restart(c)

SyncStep(c) ==
    \/ SyncList(c) \/ SyncDiff(c) \/ SyncFetch(c) \/ SyncRead(c)
    \/ SyncSave(c) \/ SyncError(c)

Next ==
    \/ Tick
    \/ TimeoutScan \/ TimeoutResolve \/ TimeoutError
    \/ \E q \in Requests : RequestStep(q)
    \/ \E a \in acks : HandleAck(a) \/ LoseAck(a)
    \/ \E c \in Controllers : HandlerStep(c) \/ SyncStep(c)

Spec == Init /\ [][Next]_vars

(* Time passes, the timeout job's ticker keeps firing and its updates do   *)
(* not fail for ever (Fault bounds the failures).  Nothing is assumed of   *)
(* requests, controllers or messages.                                      *)
FairSpec == Spec /\ WF_vars(Tick) /\ WF_vars(TimeoutScan)
                 /\ WF_vars(TimeoutResolve)

-----------------------------------------------------------------------------
(* Properties.                                                              *)

(* Every variable holds a value of its type.                               *)
TypeOK ==
    /\ now \in Nat /\ ops \in Nat /\ nextDep \in Nat /\ faults \in Nat
    /\ deps \in SUBSET Nat
    /\ st \in Row /\ entry \in Row
    /\ rpc \in [Requests -> {"idle", "stamp", "write", "send", "delete"}]
    /\ rop \in [Requests -> {"none", "deploy", "restore", "undeploy",
                             "delete"}]
    /\ rdep \in [Requests -> Nat]
    /\ rat \in [Requests -> Nat]
    /\ log \in Seq(Event)
    /\ acks \in SUBSET Ack
    /\ cfg \in Cfg
    /\ pos \in [Controllers -> Nat]
    /\ hpc \in [Controllers -> {"off", "idle", "fetch", "read", "save"}]
    /\ hev \in [Controllers -> Event \cup {NoEvent}]
    /\ \A c \in Controllers : hpc[c] \notin {"off", "idle"} => hev[c] \in Event
    /\ hdata \in [Controllers -> Nat]
    /\ spc \in [Controllers -> {"new", "list", "diff", "fetch", "read",
                                "save", "update", "done"}]
    /\ srow \in [Controllers -> Row]
    /\ sdata \in [Controllers -> Nat]
    /\ stamped \in SUBSET Event
    /\ created \in SUBSET (Nat \X Nat)
    /\ applied \in SUBSET Event

(* With transitional statuses, a settled status is the gateway's word: the *)
(* row says DEPLOYED or UNDEPLOYED only of an operation that a controller  *)
(* carried out, whatever is lost, late, stale or timed out in between.     *)
(* Exempt is the row as Create writes it, DEPLOYED on no such ground: it   *)
(* stands until SetCurrent replaces it, and, after a SetCurrent that       *)
(* failed, until the next operation does.                                  *)
Confirmed ==
    TransitionalStatusEnabled =>
        /\ st.status = "DEPLOYED" /\ <<st.dep, st.at>> \notin created =>
             [op |-> "deploy", dep |-> st.dep, at |-> st.at] \in applied
        /\ st.status = "UNDEPLOYED" =>
             [op |-> "undeploy", dep |-> st.dep, at |-> st.at] \in applied

(* A failed operation stays failed until another one replaces it: an       *)
(* answer that arrives after the timeout, or after a failure, does not     *)
(* revive it.                                                              *)
FailedIsFinal ==
    [][st.status = "FAILED" =>
          st'.status = "FAILED" \/ st'.at # st.at \/ st' = NoRow]_vars

(* An answer or a timeout never changes the row of an operation it is not  *)
(* about: the row of an operation that was just recorded keeps its status  *)
(* until a controller has answered that operation or it has timed out.     *)
NewRowKept ==
    [][st.status \in Transitional /\ st'.dep = st.dep /\ st'.at = st.at
          /\ st'.status # st.status =>
             \/ st.at + Timeout < now
             \/ \E a \in acks : a.at = st.at /\ a.dep = st.dep]_vars

(* The hard limit on stored deployments is never exceeded.                 *)
LimitHolds == Cardinality(deps) <= HardLimit

(* The deployment that the status row names leaves the table only together *)
(* with the row: the cleanup at the limit never drops the current one,     *)
(* however old it is by then.                                              *)
CurrentKept ==
    [][st # NoRow /\ st.dep \in deps /\ st.dep \notin deps' =>
          st' = NoRow]_vars

(* Nothing is on its way any more.                                         *)
Quiet ==
    /\ \A q \in Requests : rpc[q] = "idle"
    /\ acks = {} /\ entry = NoRow
    /\ \A c \in Controllers : /\ hpc[c] = "idle" /\ pos[c] = Len(log)
                              /\ spc[c] = "done"

(* The gateway runs what the platform API says.                            *)
Converged ==
    CASE st.status = "DEPLOYED" ->
           cfg = [state |-> "deployed", dep |-> st.dep, content |-> st.dep,
                  at |-> st.at]
      [] st.status = "UNDEPLOYED" -> cfg.state # "deployed"
      [] OTHER -> TRUE

(* Once everything is handled and nothing failed, a status other than a    *)
(* failure or one still to be timed out describes the gateway: the same    *)
(* deployment, with its own content, or none.                              *)
ConvergedWhenQuiet == Quiet /\ faults = 0 => Converged

(* A transitional status is resolved, by an answer or by the timeout job,  *)
(* even if every message is lost.                                          *)
TransitionResolves ==
    \A t \in 0..MaxTime :
        (st.status \in Transitional /\ st.at = t) ~>
            ~(st.status \in Transitional /\ st.at = t)

(* StateUndeployed means "User wants this configuration removed from       *)
(* Router": once everything is handled, the gateway does not serve what    *)
(* the platform API calls undeployed.                                      *)
UndeployedNotServed ==
    Quiet /\ st.status = "UNDEPLOYED" => cfg.state # "deployed"
=============================================================================
