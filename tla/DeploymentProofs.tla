-------------------------- MODULE DeploymentProofs --------------------------
(***************************************************************************)
(* TLAPS proofs about Deployment: type correctness; that with transitional *)
(* statuses a settled status was earned by a controller; what an answer or *)
(* a timeout may do to a row; the limit on stored deployments; and that    *)
(* the gateway ends up with what the row says.                             *)
(***************************************************************************)
EXTENDS Deployment, FiniteSetTheorems, WellFoundedInduction, TLAPS

(* A sync relabels the gateway's row only with a state that                *)
(* ParseDesiredState recognised; without this, TypeOK is not inductive.    *)
SyncParsed ==
    \A c \in Controllers :
        spc[c] \in {"read", "update"} =>
            Parsed(srow[c].status) \in {"deployed", "undeployed"}

(* A truncated time is a time.                                             *)
LEMMA TruncNat == ASSUME NEW t \in Nat PROVE Trunc(t) \in Nat
<1>1. Ms \in Nat \ {0}
  BY DeploymentAssumption
<1>2. t \div Ms \in Nat
  BY <1>1
<1> QED
  BY <1>1, <1>2 DEF Trunc

(* The absent rows have their types.                                       *)
LEMMA NoneTypes == NoRow \in Row /\ NoCfg \in Cfg
  BY DEF NoRow, NoCfg, Row, Cfg, Statuses

(* The initial state is well typed.                                        *)
LEMMA TypeInit == Init => TypeOK
  BY NoneTypes DEF Init, TypeOK

(* The steps of a request keep every variable in its type.                 *)
LEMMA RequestType ==
  ASSUME TypeOK, NEW q \in Requests, RequestStep(q)
  PROVE  TypeOK'
<1> USE DEF cpVars, reqVars, handVars, syncVars, history
<1>1. CASE DeployCreate(q)
  <2>1. [dep |-> nextDep, status |-> "DEPLOYED", desired |-> "DEPLOYED",
         at |-> now] \in Row
    BY DEF TypeOK, Row, Statuses
  <2>2. deps' \in SUBSET Nat
    BY <1>1 DEF DeployCreate, Kept, TypeOK
  <2> QED
    BY <1>1, <2>1, <2>2 DEF DeployCreate, Begin, TypeOK
<1>2. CASE Stamp(q)
  <2>1. Trunc(now) \in Nat
    BY TruncNat DEF TypeOK
  <2>2. [op |-> EventOp(rop[q]), dep |-> rdep[q], at |-> Trunc(now)] \in Event
    BY <2>1 DEF TypeOK, Event, EventOp
  <2> QED
    BY <1>2, <2>1, <2>2 DEF Stamp, TypeOK
<1>3. CASE SetCurrent(q)
  <2>1. [dep |-> rdep[q], status |-> InitialStatus(rop[q]),
         desired |-> IF rop[q] = "undeploy" THEN "UNDEPLOYED" ELSE "DEPLOYED",
         at |-> rat[q]] \in Row
    BY DEF TypeOK, Row, Statuses, InitialStatus
  <2> QED
    BY <1>3, <2>1 DEF SetCurrent, Goto, TypeOK
<1>4. CASE SetCurrentError(q)
  <2>1. faults' \in Nat
    BY <1>4 DEF SetCurrentError, Fault, TypeOK
  <2>2. CASE Goto(q, "send")
    BY <1>4, <2>1, <2>2 DEF SetCurrentError, Goto, TypeOK
  <2>3. CASE Finish(q)
    BY <1>4, <2>1, <2>3 DEF SetCurrentError, Finish, TypeOK
  <2> QED
    BY <1>4, <2>2, <2>3 DEF SetCurrentError
<1>5. CASE Send(q)
  <2>1. EventOf(q) \in Event
    BY DEF TypeOK, Event, EventOf, EventOp
  <2>2. log' \in Seq(Event)
    <3>1. log \in Seq(Event)
      BY DEF TypeOK
    <3>2. log' = Append(log, EventOf(q))
      BY <1>5 DEF Send
    <3> HIDE DEF Event
    <3> QED BY <2>1, <3>1, <3>2
  <2> QED
    BY <1>5, <2>2 DEF Send, Finish, TypeOK
<1>6. CASE SendError(q)
  BY <1>6 DEF SendError, Finish, Fault, TypeOK
<1>7. CASE Delete(q)
  BY <1>7, NoneTypes DEF Delete, Finish, TypeOK
<1>8. ASSUME NEW d \in deps, RestoreCheck(q, d) PROVE TypeOK'
  BY <1>8 DEF RestoreCheck, Begin, TypeOK
<1>9. ASSUME NEW d \in deps, UndeployCheck(q, d) PROVE TypeOK'
  BY <1>9 DEF UndeployCheck, Begin, TypeOK
<1>10. ASSUME NEW d \in deps, DeleteCheck(q, d) PROVE TypeOK'
  BY <1>10 DEF DeleteCheck, Begin, TypeOK
<1> QED
  BY <1>1, <1>2, <1>3, <1>4, <1>5, <1>6, <1>7, <1>8, <1>9,
     <1>10 DEF RequestStep

(* An update of the status keeps the row in its type.                      *)
LEMMA UpdateType ==
  ASSUME NEW new \in Statuses, NEW at, NEW required, st \in Row,
         UpdateStatus(new, at, required)
  PROVE  st' \in Row
  BY DEF UpdateStatus, Row, Statuses

(* Answers, their loss and the timeout job.                                *)
LEMMA AnswerType ==
  ASSUME TypeOK,
         TimeoutScan \/ TimeoutResolve \/ TimeoutError
            \/ \E a \in acks : HandleAck(a) \/ LoseAck(a)
  PROVE  TypeOK'
<1> USE DEF cpVars, reqVars, handVars, syncVars, history
<1>1. CASE TimeoutScan
  BY <1>1 DEF TimeoutScan, TypeOK
<1>2. CASE TimeoutResolve
  <2>1. st' \in Row
    BY <1>2, UpdateType DEF TimeoutResolve, TypeOK, Statuses
  <2> QED
    BY <1>2, <2>1, NoneTypes DEF TimeoutResolve, TypeOK
<1>3. ASSUME NEW a \in acks, HandleAck(a) PROVE TypeOK'
  <2>1. st' \in Row
    BY <1>3, UpdateType DEF HandleAck, TypeOK, Statuses
  <2> QED
    BY <1>3, <2>1 DEF HandleAck, TypeOK
<1>4. ASSUME NEW a \in acks, LoseAck(a) PROVE TypeOK'
  BY <1>4 DEF LoseAck, Fault, TypeOK
<1>5. CASE TimeoutError
  BY <1>5, NoneTypes DEF TimeoutError, Fault, TypeOK
<1> QED
  BY <1>1, <1>2, <1>3, <1>4, <1>5

(* An acknowledgement of the event in hand has its type.                   *)
LEMMA AckType ==
  ASSUME TypeOK, NEW c \in Controllers, NEW ok \in BOOLEAN,
         hev[c] \in Event, SendAck(c, ok)
  PROVE  acks' \in SUBSET Ack
<1>1. [ctrl |-> c, op |-> hev[c].op, dep |-> hev[c].dep, at |-> hev[c].at,
       ok |-> ok] \in Ack
  BY DEF Ack, Event
<1> QED
  BY <1>1 DEF SendAck, TypeOK

(* A read loop that goes back to waiting is well typed.                    *)
LEMMA IdleType ==
  ASSUME TypeOK, NEW c \in Controllers, Idle(c)
  PROVE  /\ hpc' \in [Controllers -> {"off", "idle", "fetch", "read", "save"}]
         /\ hev' \in [Controllers -> Event \cup {NoEvent}]
         /\ \A x \in Controllers :
               hpc'[x] \notin {"off", "idle"} => hev'[x] \in Event
         /\ hdata' \in [Controllers -> Nat]
  BY DEF Idle, TypeOK

(* The steps of a controller's read loop.                                  *)
LEMMA HandlerType ==
  ASSUME TypeOK, NEW c \in Controllers, HandlerStep(c)
  PROVE  TypeOK'
<1> USE DEF cpVars, reqVars, handVars, syncVars, history
<1>1. CASE Receive(c)
  <2>1. log[pos[c] + 1] \in Event /\ pos[c] + 1 \in Nat
    BY <1>1 DEF Receive, TypeOK
  <2>2. \A x \in Controllers :
          hpc'[x] \notin {"off", "idle"} => hev'[x] \in Event
    BY <1>1, <2>1 DEF Receive, TypeOK
  <2>3. hev' \in [Controllers -> Event \cup {NoEvent}]
    BY <1>1, <2>1 DEF Receive, TypeOK
  <2>4. pos' \in [Controllers -> Nat]
    BY <1>1, <2>1 DEF Receive, TypeOK
  <2>5. hpc' \in [Controllers -> {"off", "idle", "fetch", "read", "save"}]
    BY <1>1 DEF Receive, TypeOK
  <2> QED
    BY <1>1, <2>2, <2>3, <2>4, <2>5 DEF Receive, TypeOK
<1>2. CASE Fetch(c)
  <2>1. hev[c] \in Event
    BY <1>2 DEF Fetch, TypeOK
  <2>2. CASE Idle(c) /\ SendAck(c, FALSE)
    <3>1. acks' \in SUBSET Ack
      BY <2>1, <2>2, AckType
    <3> QED
      BY <1>2, <2>2, <3>1, IdleType DEF Fetch, TypeOK
  <2>3. CASE hdata' = [hdata EXCEPT ![c] = st.dep]
             /\ hpc' = [hpc EXCEPT ![c] = "save"] /\ UNCHANGED <<acks, hev>>
    <3>1. st.dep \in Nat
      BY DEF TypeOK, Row
    <3> QED
      BY <1>2, <2>1, <2>3, <3>1 DEF Fetch, TypeOK
  <2> QED
    BY <1>2, <2>2, <2>3 DEF Fetch
<1>3. CASE Read(c)
  <2>1. hev[c] \in Event
    BY <1>3 DEF Read, TypeOK
  <2>2. ASSUME NEW ok \in BOOLEAN, Idle(c), SendAck(c, ok),
               applied' \in SUBSET Event
        PROVE  TypeOK'
    <3>1. acks' \in SUBSET Ack
      BY <2>1, <2>2, AckType
    <3> QED
      BY <1>3, <2>2, <3>1, IdleType DEF Read, TypeOK
  <2>3. CASE hdata' = [hdata EXCEPT ![c] = cfg.content]
             /\ hpc' = [hpc EXCEPT ![c] = "save"]
             /\ UNCHANGED <<acks, applied, hev>>
    <3>1. cfg.content \in Nat
      BY DEF TypeOK, Cfg
    <3> QED
      BY <1>3, <2>1, <2>3, <3>1 DEF Read, TypeOK
  <2>4. applied' = applied \cup {hev[c]} \/ applied' = applied
    BY <1>3 DEF Read
  <2>5. applied' \in SUBSET Event
    BY <2>1, <2>4 DEF TypeOK
  <2> QED
    BY <1>3, <2>2, <2>3, <2>5 DEF Read
<1>4. CASE Save(c)
  <2>1. hev[c] \in Event
    BY <1>4 DEF Save, TypeOK
  <2>2. CASE Newer(hev[c].at)
    <3>1. [state |-> IF hev[c].op = "deploy" THEN "deployed" ELSE "undeployed",
           dep |-> hev[c].dep, content |-> hdata[c], at |-> hev[c].at] \in Cfg
      BY <2>1 DEF TypeOK, Cfg, Event
    <3>2. acks' \in SUBSET Ack
      BY <1>4, <2>1, <2>2, AckType DEF Save
    <3>3. Idle(c)
      BY <1>4 DEF Save
    <3> QED
      BY <1>4, <2>1, <2>2, <3>1, <3>2, <3>3, IdleType DEF Save, TypeOK
  <2>3. CASE ~Newer(hev[c].at)
    <3>1. Idle(c) /\ UNCHANGED <<cfg, applied, acks>>
      BY <1>4, <2>3 DEF Save
    <3> QED
      BY <1>4, <3>1, IdleType DEF Save, TypeOK
  <2> QED
    BY <2>2, <2>3
<1>5. CASE HandleError(c)
  <2>1. hev[c] \in Event
    BY <1>5 DEF HandleError, TypeOK
  <2>2. acks' \in SUBSET Ack
    BY <1>5, <2>1, AckType DEF HandleError
  <2>3. Idle(c)
    BY <1>5 DEF HandleError
  <2>4. faults' \in Nat
    BY <1>5 DEF HandleError, Fault, TypeOK
  <2> QED
    BY <1>5, <2>2, <2>3, <2>4, IdleType DEF HandleError, TypeOK
<1>6. CASE Connect(c)
  <2>1. pos' \in [Controllers -> Nat]
    <3>1. PICK p \in 0..Len(log) : pos' = [pos EXCEPT ![c] = p]
      BY <1>6 DEF Connect
    <3>2. p \in Nat
      OBVIOUS
    <3> QED
      BY <3>1, <3>2 DEF TypeOK
  <2>2. faults' \in Nat
    BY <1>6 DEF Connect, Fault, TypeOK
  <2>3. spc' \in [Controllers -> {"new", "list", "diff", "fetch", "read",
                                  "save", "update", "done"}]
    BY <1>6 DEF Connect, TypeOK
  <2> QED
    BY <1>6, <2>1, <2>2, <2>3 DEF Connect, TypeOK
<1>7. CASE Disconnect(c)
  BY <1>7 DEF Disconnect, Fault, TypeOK
<1>8. CASE Restart(c)
  BY <1>8, NoneTypes DEF Restart, Fault, TypeOK
<1> QED
  BY <1>1, <1>2, <1>3, <1>4, <1>5, <1>6, <1>7, <1>8 DEF HandlerStep

(* A sync that ends is well typed.                                         *)
LEMMA SyncEndType ==
  ASSUME TypeOK, NEW c \in Controllers, SyncEnd(c)
  PROVE  /\ spc' \in [Controllers -> {"new", "list", "diff", "fetch", "read",
                                      "save", "update", "done"}]
         /\ srow' \in [Controllers -> Row]
         /\ sdata' \in [Controllers -> Nat]
  BY NoneTypes DEF SyncEnd, TypeOK

(* The steps of a controller's bulk sync.                                  *)
LEMMA SyncType ==
  ASSUME TypeOK, SyncParsed, NEW c \in Controllers, SyncStep(c)
  PROVE  TypeOK'
<1> USE DEF cpVars, reqVars, handVars, syncVars, history
<1>1. CASE SyncList(c)
  <2>1. CASE SyncEnd(c)
    BY <1>1, <2>1, SyncEndType DEF SyncList, TypeOK
  <2>2. CASE /\ spc' = [spc EXCEPT ![c] = "diff"]
             /\ srow' = [srow EXCEPT ![c] = st]
             /\ UNCHANGED sdata
    BY <1>1, <2>2 DEF SyncList, TypeOK
  <2> QED
    BY <1>1, <2>1, <2>2 DEF SyncList
<1>2. CASE SyncDiff(c)
  <2>1. CASE SyncEnd(c)
    BY <1>2, <2>1, SyncEndType DEF SyncDiff, TypeOK
  <2>2. ASSUME NEW to \in {"fetch", "read"},
               spc' = [spc EXCEPT ![c] = to], UNCHANGED <<srow, sdata>>
        PROVE  TypeOK'
    BY <1>2, <2>2 DEF SyncDiff, TypeOK
  <2> QED
    BY <1>2, <2>1, <2>2 DEF SyncDiff
<1>3. CASE SyncFetch(c)
  <2>1. CASE SyncEnd(c)
    BY <1>3, <2>1, SyncEndType DEF SyncFetch, TypeOK
  <2>2. CASE /\ sdata' = [sdata EXCEPT ![c] = srow[c].dep]
             /\ spc' = [spc EXCEPT ![c] = "save"]
             /\ UNCHANGED srow
    <3>1. srow[c].dep \in Nat
      BY DEF TypeOK, Row
    <3> QED
      BY <1>3, <2>2, <3>1 DEF SyncFetch, TypeOK
  <2> QED
    BY <1>3, <2>1, <2>2 DEF SyncFetch
<1>4. CASE SyncRead(c)
  <2>1. cfg.content \in Nat
    BY DEF TypeOK, Cfg
  <2> QED
    BY <1>4, <2>1 DEF SyncRead, TypeOK
<1>5. CASE SyncSave(c)
  <2>1. SyncEnd(c)
    BY <1>5 DEF SyncSave
  <2>2. srow[c] \in Row /\ sdata[c] \in Nat
    BY DEF TypeOK
  <2>3. spc[c] # "save" => Parsed(srow[c].status) \in {"deployed", "undeployed"}
    BY <1>5 DEF SyncSave, SyncParsed
  <2>4. cfg' \in Cfg
    BY <1>5, <2>2, <2>3 DEF SyncSave, TypeOK, Row, Cfg
  <2> QED
    BY <1>5, <2>1, <2>4, SyncEndType DEF SyncSave, TypeOK
<1>6. CASE SyncError(c)
  <2>1. SyncEnd(c)
    BY <1>6 DEF SyncError
  <2>2. faults' \in Nat
    BY <1>6 DEF SyncError, Fault, TypeOK
  <2> QED
    BY <1>6, <2>1, <2>2, SyncEndType DEF SyncError, TypeOK
<1> QED
  BY <1>1, <1>2, <1>3, <1>4, <1>5, <1>6 DEF SyncStep

(* Only a sync that found the state recognisable goes on to relabel.       *)
LEMMA SyncParsedNext ==
  ASSUME TypeOK, SyncParsed, [Next]_vars
  PROVE  SyncParsed'
<1> USE DEF cpVars, reqVars, handVars, syncVars, history
<1>1. CASE UNCHANGED syncVars
  BY <1>1 DEF SyncParsed
<1>2. ASSUME NEW c \in Controllers, Connect(c) \/ Restart(c)
      PROVE  SyncParsed'
  <2>1. ASSUME NEW x \in Controllers, x # c
        PROVE  spc'[x] = spc[x] /\ srow'[x] = srow[x]
    BY <1>2, <2>1 DEF Connect, Restart, TypeOK
  <2>2. \/ spc'[c] \in {"new", "list", "done"}
        \/ (spc'[c] = spc[c] /\ srow'[c] = srow[c])
    <3>1. CASE Connect(c)
      <4>1. UNCHANGED srow
        BY <3>1 DEF Connect
      <4>2. CASE spc[c] = "new"
        BY <3>1, <4>2 DEF Connect, TypeOK
      <4>3. CASE spc[c] # "new"
        BY <3>1, <4>1, <4>3 DEF Connect, TypeOK
      <4> QED
        BY <4>2, <4>3
    <3>2. CASE Restart(c)
      BY <3>2 DEF Restart, TypeOK
    <3> QED
      BY <1>2, <3>1, <3>2
  <2> QED
    BY <2>1, <2>2 DEF SyncParsed
<1>3. ASSUME NEW c \in Controllers, SyncStep(c)
      PROVE  SyncParsed'
  <2>1. ASSUME NEW x \in Controllers, x # c
        PROVE  spc'[x] = spc[x] /\ srow'[x] = srow[x]
    BY <1>3, <2>1 DEF SyncStep, SyncList, SyncDiff, SyncFetch, SyncRead,
                      SyncSave, SyncError, SyncEnd, TypeOK
  <2>2. spc'[c] \in {"read", "update"} =>
          Parsed(srow'[c].status) \in {"deployed", "undeployed"}
    <3>1. CASE SyncDiff(c)
      BY <1>3, <3>1 DEF SyncDiff, SyncEnd, ToUpdateStatus, Parsed, TypeOK
    <3>2. CASE SyncRead(c)
      BY <1>3, <3>2 DEF SyncRead, SyncParsed, TypeOK
    <3>3. CASE SyncList(c) \/ SyncFetch(c) \/ SyncSave(c) \/ SyncError(c)
      BY <3>3 DEF SyncList, SyncFetch, SyncSave, SyncError, SyncEnd, TypeOK
    <3> QED
      BY <1>3, <3>1, <3>2, <3>3 DEF SyncStep
  <2> QED
    BY <2>1, <2>2 DEF SyncParsed
<1>4. ASSUME NEW c \in Controllers,
             Receive(c) \/ Fetch(c) \/ Read(c) \/ Save(c) \/ HandleError(c)
               \/ Disconnect(c)
      PROVE  UNCHANGED syncVars
  BY <1>4 DEF Receive, Fetch, Read, Save, HandleError, Disconnect
<1>5. ASSUME NEW q \in Requests, RequestStep(q)
      PROVE  UNCHANGED syncVars
  BY <1>5 DEF RequestStep, DeployCreate, Stamp, SetCurrent, SetCurrentError,
              Send, SendError, Delete, RestoreCheck, UndeployCheck, DeleteCheck
<1>6. ASSUME NEW a \in acks, HandleAck(a) \/ LoseAck(a)
      PROVE  UNCHANGED syncVars
  BY <1>6 DEF HandleAck, LoseAck
<1>7. ASSUME \/ Tick \/ TimeoutScan \/ TimeoutResolve \/ TimeoutError
             \/ UNCHANGED vars
      PROVE  UNCHANGED syncVars
  BY <1>7 DEF Tick, TimeoutScan, TimeoutResolve, TimeoutError, vars
<1> QED
  BY <1>1, <1>2, <1>3, <1>4, <1>5, <1>6, <1>7 DEF Next, HandlerStep

(* Every step of the system keeps the type invariant.                      *)
LEMMA TypeNext ==
  ASSUME TypeOK, SyncParsed, [Next]_vars
  PROVE  TypeOK'
<1> USE DEF cpVars, reqVars, handVars, syncVars, history
<1>1. CASE Tick
  BY <1>1 DEF Tick, TypeOK
<1>2. CASE UNCHANGED vars
  BY <1>2 DEF vars, TypeOK
<1> QED
  BY <1>1, <1>2, RequestType, AnswerType, HandlerType, SyncType DEF Next

(* Type correctness, for every number of requests, controllers and faults: *)
(* in particular, the gateway's row never takes a state that the control   *)
(* plane reported but ParseDesiredState does not know.                     *)
THEOREM DeploymentTypeCorrect == Spec => []TypeOK
<1>1. Init => SyncParsed
  BY DEF Init, SyncParsed
<1>2. TypeOK /\ SyncParsed /\ [Next]_vars => (TypeOK /\ SyncParsed)'
  BY TypeNext, SyncParsedNext
<1> QED
  BY <1>1, <1>2, TypeInit, PTL DEF Spec

-----------------------------------------------------------------------------
(* Why a settled status was earned.  A performed_at names one operation    *)
(* (TokenUnique, from ~Ties), and whatever carries a performed_at (a       *)
(* request, an event, an event in hand, an acknowledgement, a transitional *)
(* row) carries that operation with it; so the row an acknowledgement      *)
(* settles is the row of the operation it acknowledges.                    *)

TokenUnique == \A e \in stamped, f \in stamped : e.at = f.at => e = f

RequestStamped ==
    \A q \in Requests : rpc[q] \in {"write", "send"} => EventOf(q) \in stamped

LogStamped == \A i \in 1..Len(log) : log[i] \in stamped

HandledStamped ==
    \A c \in Controllers : hpc[c] \notin {"off", "idle"} => hev[c] \in stamped

AckedEvent(a) == [op |-> a.op, dep |-> a.dep, at |-> a.at]

AcksApplied ==
    \A a \in acks : /\ AckedEvent(a) \in stamped
                    /\ a.ok => AckedEvent(a) \in applied

RowStamped ==
    /\ st.status = "DEPLOYING" =>
         [op |-> "deploy", dep |-> st.dep, at |-> st.at] \in stamped
    /\ st.status = "UNDEPLOYING" =>
         [op |-> "undeploy", dep |-> st.dep, at |-> st.at] \in stamped

ConfirmInv ==
    /\ TokenUnique /\ RequestStamped /\ LogStamped /\ HandledStamped
    /\ AcksApplied /\ RowStamped /\ Confirmed

(* The variables the argument is about.                                    *)
confirmVars == <<st, rpc, rop, rdep, rat, log, acks, hpc, hev, stamped,
                 created, applied>>

(* A step that leaves them alone keeps the invariant.                      *)
LEMMA ConfirmStutter ==
  ASSUME ConfirmInv, UNCHANGED confirmVars
  PROVE  ConfirmInv'
  BY DEF ConfirmInv, TokenUnique, RequestStamped, LogStamped, HandledStamped,
         AcksApplied, AckedEvent, RowStamped, Confirmed, EventOf, EventOp,
         confirmVars

(* A request makes its token known before it uses it, and leaves a settled *)
(* row only as Create does.                                                *)
LEMMA ConfirmRequest ==
  ASSUME ~Ties, TypeOK, ConfirmInv, NEW q \in Requests, RequestStep(q)
  PROVE  ConfirmInv'
<1> USE DEF cpVars, reqVars, handVars, syncVars, history
<1>1. CASE Stamp(q)
  <2> DEFINE new == [op |-> EventOp(rop[q]), dep |-> rdep[q],
                     at |-> Trunc(now)]
  <2>1. stamped' = stamped \cup {new} /\ \A e \in stamped : e.at # new.at
    BY <1>1 DEF Stamp, Fresh
  <2>2. TokenUnique'
    BY <2>1 DEF ConfirmInv, TokenUnique
  <2>3. RequestStamped'
    <3>1. ASSUME NEW r \in Requests, rpc'[r] \in {"write", "send"}
          PROVE  EventOf(r)' \in stamped'
      <4>1. CASE r = q
        <5>1. rat'[q] = Trunc(now) /\ UNCHANGED <<rop, rdep>>
          BY <1>1 DEF Stamp, TypeOK
        <5> QED
          BY <2>1, <4>1, <5>1 DEF EventOf
      <4>2. CASE r # q
        <5>1. rpc'[r] = rpc[r] /\ rat'[r] = rat[r] /\ UNCHANGED <<rop, rdep>>
          BY <1>1, <4>2 DEF Stamp, TypeOK
        <5>2. EventOf(r) \in stamped
          BY <3>1, <5>1 DEF ConfirmInv, RequestStamped
        <5> QED
          BY <2>1, <5>1, <5>2 DEF EventOf
      <4> QED
        BY <4>1, <4>2
    <3> QED
      BY <3>1 DEF RequestStamped
  <2>4. UNCHANGED <<st, log, acks, hpc, hev, created, applied>>
    BY <1>1 DEF Stamp
  <2>5. LogStamped' /\ HandledStamped' /\ AcksApplied' /\ RowStamped'
    BY <2>1, <2>4 DEF ConfirmInv, LogStamped, HandledStamped, AcksApplied,
                      AckedEvent, RowStamped
  <2>6. Confirmed'
    BY <2>4 DEF ConfirmInv, Confirmed
  <2> QED
    BY <2>2, <2>3, <2>5, <2>6 DEF ConfirmInv
<1>2. ASSUME UNCHANGED <<log, acks, hpc, hev, stamped, applied>>,
             created \subseteq created', RequestStamped', RowStamped',
             Confirmed'
      PROVE  ConfirmInv'
  BY <1>2 DEF ConfirmInv, TokenUnique, LogStamped, HandledStamped,
              AcksApplied, AckedEvent
<1>3. ASSUME UNCHANGED stamped,
             \A r \in Requests :
                 \/ rpc'[r] \notin {"write", "send"}
                 \/ /\ rpc[r] \in {"write", "send"}
                    /\ rop'[r] = rop[r] /\ rdep'[r] = rdep[r]
                    /\ rat'[r] = rat[r]
      PROVE  RequestStamped'
  BY <1>3 DEF ConfirmInv, RequestStamped, EventOf
<1>4. ASSUME UNCHANGED <<st, stamped, created, applied>>
      PROVE  RowStamped' /\ Confirmed'
  BY <1>4 DEF ConfirmInv, RowStamped, Confirmed
<1>5. ASSUME Finish(q), UNCHANGED stamped
      PROVE  RequestStamped'
  <2>1. \A r \in Requests :
          IF r = q
            THEN rpc'[r] = "idle"
            ELSE rpc'[r] = rpc[r] /\ rop'[r] = rop[r] /\ rdep'[r] = rdep[r]
                   /\ rat'[r] = rat[r]
    BY <1>5 DEF Finish, TypeOK
  <2> QED
    BY <1>3, <1>5, <2>1
<1>6. ASSUME Goto(q, "send"), rpc[q] = "write", UNCHANGED stamped
      PROVE  RequestStamped'
  <2>1. \A r \in Requests :
          /\ r = q \/ rpc'[r] = rpc[r]
          /\ rop'[r] = rop[r] /\ rdep'[r] = rdep[r] /\ rat'[r] = rat[r]
    BY <1>6 DEF Goto, TypeOK
  <2> QED
    BY <1>3, <1>6, <2>1
<1>7. ASSUME NEW op, NEW d, NEW next \in {"stamp", "delete"},
             Begin(q, op, d, next), UNCHANGED stamped
      PROVE  RequestStamped'
  <2>1. \A r \in Requests :
          IF r = q
            THEN rpc'[r] = next
            ELSE rpc'[r] = rpc[r] /\ rop'[r] = rop[r] /\ rdep'[r] = rdep[r]
                   /\ rat'[r] = rat[r]
    BY <1>7 DEF Begin, TypeOK
  <2> QED
    BY <1>3, <1>7, <2>1
<1>8. CASE DeployCreate(q)
  <2>1. RequestStamped'
    BY <1>7, <1>8 DEF DeployCreate
  <2>2. st'.status = "DEPLOYED" /\ <<st'.dep, st'.at>> \in created'
    BY <1>8 DEF DeployCreate
  <2>3. RowStamped' /\ Confirmed'
    BY <2>2 DEF RowStamped, Confirmed
  <2>4. /\ UNCHANGED <<log, acks, hpc, hev, stamped, applied>>
        /\ created \subseteq created'
    BY <1>8 DEF DeployCreate
  <2> QED
    BY <1>2, <2>1, <2>3, <2>4
<1>9. CASE SetCurrent(q)
  <2>1. RequestStamped'
    BY <1>6, <1>9 DEF SetCurrent
  <2>2. EventOf(q) \in stamped
    BY <1>9 DEF SetCurrent, ConfirmInv, RequestStamped
  <2>3. /\ st'.dep = rdep[q] /\ st'.at = rat[q]
        /\ st'.status = InitialStatus(rop[q])
    BY <1>9 DEF SetCurrent
  <2>4. RowStamped' /\ Confirmed'
    <3>1. UNCHANGED stamped
      BY <1>9 DEF SetCurrent
    <3>2. CASE TransitionalStatusEnabled /\ rop[q] = "undeploy"
      <4>1. st'.status = "UNDEPLOYING"
        BY <2>3, <3>2 DEF InitialStatus
      <4>2. [op |-> "undeploy", dep |-> st'.dep, at |-> st'.at] \in stamped'
        BY <2>2, <2>3, <3>1, <3>2 DEF EventOf, EventOp
      <4> QED
        BY <4>1, <4>2 DEF RowStamped, Confirmed
    <3>3. CASE TransitionalStatusEnabled /\ rop[q] # "undeploy"
      <4>1. st'.status = "DEPLOYING"
        BY <2>3, <3>3 DEF InitialStatus
      <4>2. [op |-> "deploy", dep |-> st'.dep, at |-> st'.at] \in stamped'
        BY <2>2, <2>3, <3>1, <3>3 DEF EventOf, EventOp
      <4> QED
        BY <4>1, <4>2 DEF RowStamped, Confirmed
    <3>4. CASE ~TransitionalStatusEnabled
      BY <2>3, <3>4 DEF InitialStatus, RowStamped, Confirmed
    <3> QED
      BY <3>2, <3>3, <3>4
  <2>5. UNCHANGED <<log, acks, hpc, hev, stamped, created, applied>>
    BY <1>9 DEF SetCurrent
  <2> QED
    BY <1>2, <2>1, <2>4, <2>5
<1>10. CASE SetCurrentError(q)
  <2>1. RequestStamped'
    BY <1>5, <1>6, <1>10 DEF SetCurrentError
  <2>2. UNCHANGED <<st, log, acks, hpc, hev, stamped, created, applied>>
    BY <1>10 DEF SetCurrentError
  <2> QED
    BY <1>2, <1>4, <2>1, <2>2
<1>11. CASE Send(q)
  <2>1. UNCHANGED <<st, acks, hpc, hev, stamped, created, applied>>
    BY <1>11 DEF Send
  <2>2. RequestStamped' /\ RowStamped' /\ Confirmed'
    BY <1>4, <1>5, <1>11, <2>1 DEF Send
  <2>3. EventOf(q) \in stamped
    BY <1>11 DEF Send, ConfirmInv, RequestStamped
  <2>4. LogStamped'
    BY <1>11, <2>1, <2>3 DEF Send, ConfirmInv, LogStamped, TypeOK
  <2> QED
    BY <2>1, <2>2, <2>4 DEF ConfirmInv, TokenUnique, HandledStamped,
                            AcksApplied, AckedEvent
<1>12. CASE SendError(q)
  <2>1. UNCHANGED <<st, log, acks, hpc, hev, stamped, created, applied>>
    BY <1>12 DEF SendError
  <2>2. RequestStamped'
    BY <1>5, <1>12, <2>1 DEF SendError
  <2> QED
    BY <1>2, <1>4, <2>1, <2>2
<1>13. CASE Delete(q)
  <2>1. UNCHANGED <<log, acks, hpc, hev, stamped, created, applied>>
    BY <1>13 DEF Delete
  <2>2. RequestStamped'
    BY <1>5, <1>13, <2>1 DEF Delete
  <2>3. CASE st' = st
    BY <1>2, <1>4, <2>1, <2>2, <2>3
  <2>4. CASE st' = NoRow
    <3>1. RowStamped' /\ Confirmed'
      BY <2>4 DEF NoRow, RowStamped, Confirmed
    <3> QED
      BY <1>2, <2>1, <2>2, <3>1
  <2> QED
    BY <1>13, <2>3, <2>4 DEF Delete
<1>14. ASSUME NEW d \in deps,
              RestoreCheck(q, d) \/ UndeployCheck(q, d) \/ DeleteCheck(q, d)
       PROVE  ConfirmInv'
  <2>1. UNCHANGED <<st, log, acks, hpc, hev, stamped, created, applied>>
    BY <1>14 DEF RestoreCheck, UndeployCheck, DeleteCheck
  <2>2. RequestStamped'
    BY <1>7, <1>14, <2>1 DEF RestoreCheck, UndeployCheck, DeleteCheck
  <2> QED
    BY <1>2, <1>4, <2>1, <2>2
<1> QED
  BY <1>1, <1>8, <1>9, <1>10, <1>11, <1>12, <1>13, <1>14 DEF RequestStep

(* An answer settles only the row of the operation it answers: the tokens  *)
(* agree, hence the operations do.  The timeout job only fails a row.      *)
LEMMA ConfirmAnswer ==
  ASSUME TypeOK, ConfirmInv,
         TimeoutScan \/ TimeoutResolve \/ TimeoutError
            \/ \E a \in acks : HandleAck(a) \/ LoseAck(a)
  PROVE  ConfirmInv'
<1> USE DEF cpVars, reqVars, handVars, syncVars, history
<1>1. ASSUME UNCHANGED <<rpc, rop, rdep, rat, log, hpc, hev, stamped, created,
                         applied>>,
             acks' \subseteq acks, RowStamped', Confirmed'
      PROVE  ConfirmInv'
  BY <1>1 DEF ConfirmInv, TokenUnique, RequestStamped, LogStamped,
              HandledStamped, AcksApplied, AckedEvent, EventOf, EventOp
<1>2. ASSUME UNCHANGED <<stamped, created, applied>>,
             st' = st \/ st'.status = "FAILED"
      PROVE  RowStamped' /\ Confirmed'
  BY <1>2 DEF ConfirmInv, RowStamped, Confirmed
<1>3. ASSUME NEW at, NEW required, UpdateStatus("FAILED", at, required)
      PROVE  st' = st \/ st'.status = "FAILED"
  BY <1>3 DEF UpdateStatus
<1>4. CASE TimeoutScan \/ TimeoutError
  <2>1. UNCHANGED confirmVars
    BY <1>4 DEF TimeoutScan, TimeoutError, confirmVars
  <2> QED
    BY <2>1, ConfirmStutter
<1>5. CASE TimeoutResolve
  <2>1. UNCHANGED <<rpc, rop, rdep, rat, log, acks, hpc, hev, stamped,
                    created, applied>>
    BY <1>5 DEF TimeoutResolve
  <2>2. st' = st \/ st'.status = "FAILED"
    BY <1>3, <1>5 DEF TimeoutResolve
  <2> QED
    BY <1>1, <1>2, <2>1, <2>2
<1>6. ASSUME NEW a \in acks, LoseAck(a) PROVE ConfirmInv'
  <2>1. /\ UNCHANGED <<st, rpc, rop, rdep, rat, log, hpc, hev, stamped,
                       created, applied>>
        /\ acks' \subseteq acks
    BY <1>6 DEF LoseAck
  <2> QED
    BY <1>1, <1>2, <2>1
<1>7. ASSUME NEW a \in acks, HandleAck(a) PROVE ConfirmInv'
  <2>1. /\ UNCHANGED <<rpc, rop, rdep, rat, log, hpc, hev, stamped, created,
                       applied>>
        /\ acks' \subseteq acks
    BY <1>7 DEF HandleAck
  <2>2. CASE ~a.ok
    <3>1. st' = st \/ st'.status = "FAILED"
      BY <1>3, <1>7, <2>2 DEF HandleAck
    <3> QED
      BY <1>1, <1>2, <2>1, <3>1
  <2>3. ASSUME NEW op \in {"deploy", "undeploy"},
               a.ok, a.op = op, st.at = a.at,
               [op |-> op, dep |-> st.dep, at |-> st.at] \in stamped
        PROVE  [op |-> op, dep |-> st.dep, at |-> st.at] \in applied
    <3>1. AckedEvent(a) \in stamped /\ AckedEvent(a) \in applied
      BY <2>3 DEF ConfirmInv, AcksApplied
    <3>2. AckedEvent(a) = [op |-> op, dep |-> st.dep, at |-> st.at]
      <4>1. AckedEvent(a).at = st.at
        BY <2>3 DEF AckedEvent
      <4> QED
        BY <2>3, <3>1, <4>1 DEF ConfirmInv, TokenUnique
    <3> QED
      BY <3>1, <3>2
  <2>4. CASE a.ok /\ a.op = "deploy"
    <3>1. CASE st' = st
      BY <1>1, <1>2, <2>1, <3>1
    <3>2. CASE st' # st
      <4>1. UpdateStatus("DEPLOYED", a.at, {"DEPLOYING"})
        BY <1>7, <2>4 DEF HandleAck
      <4>2. /\ st.at = a.at /\ st.status = "DEPLOYING"
            /\ st'.dep = st.dep /\ st'.at = st.at /\ st'.status = "DEPLOYED"
        BY <3>2, <4>1 DEF UpdateStatus
      <4>3. [op |-> "deploy", dep |-> st.dep, at |-> st.at] \in stamped
        BY <4>2 DEF ConfirmInv, RowStamped
      <4>4. [op |-> "deploy", dep |-> st.dep, at |-> st.at] \in applied
        BY <2>3, <2>4, <4>2, <4>3
      <4>5. RowStamped' /\ Confirmed'
        BY <2>1, <4>2, <4>4 DEF RowStamped, Confirmed
      <4> QED
        BY <1>1, <2>1, <4>5
    <3> QED
      BY <3>1, <3>2
  <2>5. CASE a.ok /\ a.op = "undeploy"
    <3>1. CASE st' = st
      BY <1>1, <1>2, <2>1, <3>1
    <3>2. CASE st' # st
      <4>1. UpdateStatus("UNDEPLOYED", a.at, {"UNDEPLOYING"})
        BY <1>7, <2>5 DEF HandleAck
      <4>2. /\ st.at = a.at /\ st.status = "UNDEPLOYING"
            /\ st'.dep = st.dep /\ st'.at = st.at /\ st'.status = "UNDEPLOYED"
        BY <3>2, <4>1 DEF UpdateStatus
      <4>3. [op |-> "undeploy", dep |-> st.dep, at |-> st.at] \in stamped
        BY <4>2 DEF ConfirmInv, RowStamped
      <4>4. [op |-> "undeploy", dep |-> st.dep, at |-> st.at] \in applied
        BY <2>3, <2>5, <4>2, <4>3
      <4>5. RowStamped' /\ Confirmed'
        BY <2>1, <4>2, <4>4 DEF RowStamped, Confirmed
      <4> QED
        BY <1>1, <2>1, <4>5
    <3> QED
      BY <3>1, <3>2
  <2> QED
    BY <1>7, <2>2, <2>4, <2>5 DEF HandleAck
<1> QED
  BY <1>4, <1>5, <1>6, <1>7

(* A controller answers with the token of the event in hand, and with      *)
(* success only for what it has applied.                                   *)
LEMMA ConfirmHandler ==
  ASSUME TypeOK, ConfirmInv, NEW c \in Controllers, HandlerStep(c)
  PROVE  ConfirmInv'
<1> USE DEF cpVars, reqVars, handVars, syncVars, history
<1>1. ASSUME UNCHANGED <<st, rpc, rop, rdep, rat, log, stamped, created>>,
             applied \subseteq applied', HandledStamped', AcksApplied'
      PROVE  ConfirmInv'
  BY <1>1 DEF ConfirmInv, TokenUnique, RequestStamped, LogStamped,
              RowStamped, Confirmed, EventOf, EventOp
<1>2. ASSUME UNCHANGED <<acks, stamped>>, applied \subseteq applied'
      PROVE  AcksApplied'
  BY <1>2 DEF ConfirmInv, AcksApplied, AckedEvent
<1>3. ASSUME NEW ok \in BOOLEAN, SendAck(c, ok), hev[c] \in Event,
             hev[c] \in stamped, UNCHANGED stamped,
             applied \subseteq applied', ok => hev[c] \in applied'
      PROVE  AcksApplied'
  <2> DEFINE new == [ctrl |-> c, op |-> hev[c].op, dep |-> hev[c].dep,
                     at |-> hev[c].at, ok |-> ok]
  <2>1. acks' = acks \cup {new}
    BY <1>3 DEF SendAck
  <2>2. AckedEvent(new) = hev[c] /\ new.ok = ok
    BY <1>3 DEF AckedEvent, Event
  <2>3. \A a \in acks : /\ AckedEvent(a) \in stamped'
                        /\ a.ok => AckedEvent(a) \in applied'
    BY <1>3 DEF ConfirmInv, AcksApplied
  <2>4. AckedEvent(new) \in stamped' /\ (new.ok => AckedEvent(new) \in applied')
    BY <1>3, <2>2
  <2>5. \A a \in acks' : /\ AckedEvent(a) \in stamped'
                         /\ a.ok => AckedEvent(a) \in applied'
    BY <2>1, <2>3, <2>4
  <2> QED
    BY <2>5 DEF AcksApplied, AckedEvent
<1>4. ASSUME UNCHANGED stamped,
             \A x \in Controllers :
                 \/ hpc'[x] \in {"off", "idle"}
                 \/ hev'[x] \in stamped
                 \/ /\ hpc[x] \notin {"off", "idle"} /\ hev'[x] = hev[x]
      PROVE  HandledStamped'
  BY <1>4 DEF ConfirmInv, HandledStamped
<1>5. ASSUME Idle(c), UNCHANGED stamped
      PROVE  HandledStamped'
  <2>1. \A x \in Controllers :
          IF x = c THEN hpc'[x] = "idle"
                   ELSE hpc'[x] = hpc[x] /\ hev'[x] = hev[x]
    BY <1>5 DEF Idle, TypeOK
  <2> QED
    BY <1>4, <1>5, <2>1
<1>6. ASSUME hpc' = [hpc EXCEPT ![c] = "save"], UNCHANGED <<hev, stamped>>,
             hpc[c] \notin {"off", "idle"}
      PROVE  HandledStamped'
  <2>1. \A x \in Controllers : x = c \/ hpc'[x] = hpc[x]
    BY <1>6 DEF TypeOK
  <2> QED
    BY <1>4, <1>6, <2>1
<1>7. ASSUME hpc[c] \notin {"off", "idle"}
      PROVE  hev[c] \in Event /\ hev[c] \in stamped
  BY <1>7 DEF TypeOK, ConfirmInv, HandledStamped
<1>8. CASE Receive(c)
  <2>1. UNCHANGED <<st, rpc, rop, rdep, rat, log, acks, stamped, created,
                    applied>>
    BY <1>8 DEF Receive
  <2>2. log[pos[c] + 1] \in stamped
    BY <1>8 DEF Receive, ConfirmInv, LogStamped, TypeOK
  <2>3. \A x \in Controllers :
          IF x = c THEN hev'[x] = log[pos[c] + 1]
                   ELSE hpc'[x] = hpc[x] /\ hev'[x] = hev[x]
    BY <1>8 DEF Receive, TypeOK
  <2>4. HandledStamped'
    BY <1>4, <2>1, <2>2, <2>3
  <2> QED
    BY <1>1, <1>2, <2>1, <2>4
<1>9. CASE Fetch(c)
  <2>1. UNCHANGED <<st, rpc, rop, rdep, rat, log, stamped, created, applied>>
    BY <1>9 DEF Fetch
  <2>2. hpc[c] \notin {"off", "idle"}
    BY <1>9 DEF Fetch
  <2>3. HandledStamped'
    BY <1>5, <1>6, <1>9, <2>1, <2>2 DEF Fetch
  <2>4. AcksApplied'
    BY <1>2, <1>3, <1>7, <1>9, <2>1, <2>2 DEF Fetch
  <2> QED
    BY <1>1, <2>1, <2>3, <2>4
<1>10. CASE Read(c)
  <2>1. UNCHANGED <<st, rpc, rop, rdep, rat, log, stamped, created>>
    BY <1>10 DEF Read
  <2>2. hpc[c] \notin {"off", "idle"} /\ applied \subseteq applied'
    BY <1>10 DEF Read
  <2>3. HandledStamped'
    BY <1>5, <1>6, <1>10, <2>1, <2>2 DEF Read
  <2>4. AcksApplied'
    BY <1>2, <1>3, <1>7, <1>10, <2>1, <2>2 DEF Read
  <2> QED
    BY <1>1, <2>1, <2>2, <2>3, <2>4
<1>11. CASE Save(c)
  <2>1. UNCHANGED <<st, rpc, rop, rdep, rat, log, stamped, created>>
    BY <1>11 DEF Save
  <2>2. hpc[c] \notin {"off", "idle"} /\ applied \subseteq applied'
    BY <1>11 DEF Save
  <2>3. HandledStamped'
    BY <1>5, <1>11, <2>1 DEF Save
  <2>4. AcksApplied'
    BY <1>2, <1>3, <1>7, <1>11, <2>1, <2>2 DEF Save
  <2> QED
    BY <1>1, <2>1, <2>2, <2>3, <2>4
<1>12. CASE HandleError(c)
  <2>1. UNCHANGED <<st, rpc, rop, rdep, rat, log, stamped, created, applied>>
    BY <1>12 DEF HandleError
  <2>2. hpc[c] \notin {"off", "idle"}
    BY <1>12 DEF HandleError
  <2>3. HandledStamped'
    BY <1>5, <1>12, <2>1 DEF HandleError
  <2>4. AcksApplied'
    BY <1>3, <1>7, <1>12, <2>1, <2>2 DEF HandleError
  <2> QED
    BY <1>1, <2>1, <2>3, <2>4
<1>13. CASE Connect(c) \/ Disconnect(c) \/ Restart(c)
  <2>1. UNCHANGED <<st, rpc, rop, rdep, rat, log, stamped, created, applied>>
    BY <1>13 DEF Connect, Disconnect, Restart
  <2>4. acks' \subseteq acks
    BY <1>13 DEF Connect, Disconnect, Restart
  <2>5. AcksApplied'
    BY <2>1, <2>4 DEF ConfirmInv, AcksApplied, AckedEvent
  <2>2. \A x \in Controllers :
          IF x = c THEN hpc'[x] \in {"off", "idle"}
                   ELSE hpc'[x] = hpc[x] /\ hev'[x] = hev[x]
    BY <1>13 DEF Connect, Disconnect, Restart, TypeOK
  <2>3. HandledStamped'
    BY <1>4, <2>1, <2>2
  <2> QED
    BY <1>1, <2>1, <2>3, <2>5
<1> QED
  BY <1>8, <1>9, <1>10, <1>11, <1>12, <1>13 DEF HandlerStep

LEMMA ConfirmInit == Init => ConfirmInv
<1>1. ASSUME Init PROVE ConfirmInv
  <2>1. TokenUnique /\ LogStamped /\ AcksApplied
    BY <1>1 DEF Init, TokenUnique, LogStamped, AcksApplied
  <2>2. RequestStamped /\ HandledStamped
    BY <1>1 DEF Init, RequestStamped, HandledStamped
  <2>3. RowStamped /\ Confirmed
    BY <1>1 DEF Init, NoRow, RowStamped, Confirmed
  <2> QED
    BY <2>1, <2>2, <2>3 DEF ConfirmInv
<1> QED
  BY <1>1

LEMMA ConfirmNext ==
  ASSUME ~Ties, TypeOK, ConfirmInv, [Next]_vars
  PROVE  ConfirmInv'
<1>1. ASSUME NEW c \in Controllers, SyncStep(c) PROVE UNCHANGED confirmVars
  BY <1>1 DEF SyncStep, SyncList, SyncDiff, SyncFetch, SyncRead, SyncSave,
              SyncError, cpVars, reqVars, handVars, history, confirmVars
<1>2. ASSUME Tick \/ UNCHANGED vars PROVE UNCHANGED confirmVars
  BY <1>2 DEF Tick, vars, cpVars, reqVars, handVars, history, confirmVars
<1> QED
  BY <1>1, <1>2, ConfirmStutter, ConfirmRequest, ConfirmAnswer,
     ConfirmHandler DEF Next

(* With transitional statuses a settled status is the gateway's word, for  *)
(* any number of requests, controllers, losses, crashes and late answers,  *)
(* if no two operations get the same performed_at.                         *)
THEOREM SettledIsConfirmed ==
  ASSUME ~Ties
  PROVE  Spec => []Confirmed
<1>1. TypeOK /\ ConfirmInv /\ [Next]_vars => ConfirmInv'
  BY ConfirmNext
<1>2. ConfirmInv => Confirmed
  BY DEF ConfirmInv
<1> QED
  BY <1>1, <1>2, ConfirmInit, DeploymentTypeCorrect, PTL DEF Spec

-----------------------------------------------------------------------------
(* What an answer or a timeout may do to a row.  No request has a token    *)
(* that the row bears already, so that a write always brings another one;  *)
(* and what the timeout job has read was stale and stays so.               *)

Issued(t) == (\E e \in stamped : e.at = t) \/ (\E c \in created : c[2] = t)

RowIssued == st # NoRow => Issued(st.at) /\ st.dep # 0

WriteAhead ==
    \A q \in Requests : rpc[q] = "write" =>
        /\ Issued(rat[q])
        /\ st # NoRow => st.at # rat[q]
        /\ \A p \in Requests : rpc[p] = "write" /\ rat[p] = rat[q] => p = q

EntryStale ==
    entry # NoRow => entry.status \in Transitional /\ entry.at + Timeout < now

TokenInv ==
    RowIssued /\ WriteAhead /\ EntryStale /\ nextDep # 0 /\ 0 \notin deps

LEMMA TokenInit == Init => TokenInv
  BY DEF Init, TokenInv, RowIssued, WriteAhead, EntryStale

(* An update of the status leaves the token and the deployment of the row. *)
LEMMA UpdateKeepsToken ==
  ASSUME st \in Row, NEW new, NEW at, NEW required,
         UpdateStatus(new, at, required)
  PROVE  /\ st'.at = st.at /\ st'.dep = st.dep
         /\ st = NoRow => st' = NoRow
         /\ st' # st => st # NoRow /\ st.at = at /\ st.status \in required
                          /\ st'.status = new
  BY DEF UpdateStatus, Row

(* Tokens stay issued.                                                     *)
LEMMA IssuedStays ==
  ASSUME NEW t, stamped \subseteq stamped', created \subseteq created', Issued(t)
  PROVE  Issued(t)'
  BY DEF Issued

LEMMA TokenRequest ==
  ASSUME ~Ties, TypeOK, TokenInv, NEW q \in Requests, RequestStep(q)
  PROVE  TokenInv'
<1> USE DEF cpVars, reqVars, handVars, syncVars, history
<1>1. stamped \subseteq stamped' /\ created \subseteq created'
  BY DEF RequestStep, DeployCreate, Stamp, SetCurrent, SetCurrentError,
         Send, SendError, Delete, RestoreCheck, UndeployCheck, DeleteCheck
<1>2. EntryStale' /\ entry' = entry /\ now' = now
  <2>1. entry' = entry /\ now' = now
    BY DEF RequestStep, DeployCreate, Stamp, SetCurrent, SetCurrentError,
           Send, SendError, Delete, RestoreCheck, UndeployCheck, DeleteCheck
  <2> QED
    BY <2>1 DEF TokenInv, EntryStale
<1>3. ASSUME \A r \in Requests :
               rpc'[r] = "write" => rpc[r] = "write" /\ rat'[r] = rat[r],
             st' = st \/ st' = NoRow
      PROVE  RowIssued' /\ WriteAhead'
  <2>1. RowIssued'
    BY <1>1, <1>3, IssuedStays DEF TokenInv, RowIssued
  <2>2. WriteAhead'
    BY <1>1, <1>3, IssuedStays DEF TokenInv, WriteAhead
  <2> QED
    BY <2>1, <2>2
<1>4. CASE DeployCreate(q)
  <2>1. /\ nextDep \in Nat /\ nextDep # 0 /\ deps' \subseteq deps \cup {nextDep}
        /\ nextDep' = nextDep + 1
    BY <1>4 DEF DeployCreate, Kept, TokenInv, TypeOK
  <2>2. ~Issued(now)
    BY <1>4 DEF DeployCreate, Fresh, Issued
  <2>3. /\ st'.at = now /\ st'.dep = nextDep
        /\ <<nextDep, now>> \in created'
    BY <1>4 DEF DeployCreate
  <2>4. RowIssued'
    BY <2>1, <2>3 DEF RowIssued, Issued
  <2>5. \A r \in Requests :
          rpc'[r] = "write" => rpc[r] = "write" /\ rat'[r] = rat[r]
    BY <1>4 DEF DeployCreate, Begin, TypeOK
  <2>6. WriteAhead'
    BY <1>1, <2>2, <2>3, <2>5, IssuedStays DEF TokenInv, WriteAhead
  <2> QED
    BY <1>2, <2>1, <2>4, <2>6 DEF TokenInv
<1>5. CASE Stamp(q)
  <2>1. ~Issued(Trunc(now))
    BY <1>5 DEF Stamp, Fresh, Issued
  <2>2. \E e \in stamped' : e.at = Trunc(now)
    <3>1. [op |-> EventOp(rop[q]), dep |-> rdep[q], at |-> Trunc(now)] \in stamped'
      BY <1>5 DEF Stamp
    <3> QED BY <3>1
  <2>3. UNCHANGED <<st, deps, nextDep>>
    BY <1>5 DEF Stamp
  <2>4. /\ rat'[q] = Trunc(now)
        /\ \A r \in Requests : r # q => rpc'[r] = rpc[r] /\ rat'[r] = rat[r]
    BY <1>5 DEF Stamp, TypeOK
  <2>5. RowIssued'
    BY <1>1, <2>3, IssuedStays DEF TokenInv, RowIssued
  <2>6. \A r \in Requests : r # q /\ rpc'[r] = "write" =>
          /\ Issued(rat[r]) /\ rat'[r] = rat[r]
          /\ st # NoRow => st.at # rat[r]
          /\ \A p \in Requests : rpc[p] = "write" /\ rat[p] = rat[r] => p = r
    BY <2>4 DEF TokenInv, WriteAhead
  <2>7. st # NoRow => st.at # Trunc(now)
    BY <2>1 DEF TokenInv, RowIssued
  <2>8. ASSUME NEW r \in Requests, rpc'[r] = "write"
        PROVE  /\ Issued(rat[r])'
               /\ st' # NoRow => st'.at # rat'[r]
               /\ \A p \in Requests : rpc'[p] = "write" /\ rat'[p] = rat'[r] => p = r
    <3>1. Issued(rat[r])'
      <4>1. CASE r = q
        BY <2>2, <2>4, <4>1 DEF Issued
      <4>2. CASE r # q
        BY <1>1, <2>6, <2>8, <4>2 DEF Issued
      <4> QED BY <4>1, <4>2
    <3>2. st' # NoRow => st'.at # rat'[r]
      BY <2>3, <2>4, <2>6, <2>7, <2>8
    <3>3. \A p \in Requests : rpc'[p] = "write" /\ rat'[p] = rat'[r] => p = r
      <4> SUFFICES ASSUME NEW p \in Requests, rpc'[p] = "write",
                          rat'[p] = rat'[r], p # r
                   PROVE  FALSE
        OBVIOUS
      <4>1. CASE p = q \/ r = q
        BY <2>1, <2>4, <2>6, <2>8, <4>1
      <4>2. CASE p # q /\ r # q
        BY <2>4, <2>6, <2>8, <4>2
      <4> QED BY <4>1, <4>2
    <3> QED
      BY <3>1, <3>2, <3>3
  <2> QED
    BY <1>2, <2>3, <2>5, <2>8 DEF TokenInv, WriteAhead
<1>6. CASE SetCurrent(q)
  <2>1. /\ rpc[q] = "write" /\ rdep[q] \in deps
        /\ st'.at = rat[q] /\ st'.dep = rdep[q]
        /\ UNCHANGED <<deps, nextDep, stamped, created>>
    BY <1>6 DEF SetCurrent
  <2>2. /\ UNCHANGED rat /\ rpc'[q] = "send"
        /\ \A r \in Requests : r # q => rpc'[r] = rpc[r]
    BY <1>6 DEF SetCurrent, Goto, TypeOK
  <2>3. RowIssued'
    BY <1>1, <2>1, IssuedStays DEF TokenInv, RowIssued, WriteAhead
  <2>4. WriteAhead'
    BY <1>1, <2>1, <2>2, IssuedStays DEF TokenInv, WriteAhead
  <2> QED
    BY <1>2, <2>1, <2>3, <2>4 DEF TokenInv
<1>7. CASE Delete(q)
  <2>1. st' = st \/ st' = NoRow
    BY <1>7 DEF Delete
  <2>2. \A r \in Requests :
          rpc'[r] = "write" => rpc[r] = "write" /\ rat'[r] = rat[r]
    BY <1>7 DEF Delete, Finish, TypeOK
  <2>3. deps' \subseteq deps /\ nextDep' = nextDep
    BY <1>7 DEF Delete
  <2> QED
    BY <1>2, <1>3, <2>1, <2>2, <2>3 DEF TokenInv
<1>8. CASE SetCurrentError(q) \/ Send(q) \/ SendError(q)
  <2>1. UNCHANGED <<st, deps, nextDep>>
    BY <1>8 DEF SetCurrentError, Send, SendError
  <2>2. \A r \in Requests :
          rpc'[r] = "write" => rpc[r] = "write" /\ rat'[r] = rat[r]
    BY <1>8 DEF SetCurrentError, Send, SendError, Finish, Goto, TypeOK
  <2> QED
    BY <1>2, <1>3, <2>1, <2>2 DEF TokenInv
<1>9. ASSUME NEW d \in deps,
             RestoreCheck(q, d) \/ UndeployCheck(q, d) \/ DeleteCheck(q, d)
      PROVE  TokenInv'
  <2>1. UNCHANGED <<st, deps, nextDep>>
    BY <1>9 DEF RestoreCheck, UndeployCheck, DeleteCheck
  <2>2. \A r \in Requests :
          rpc'[r] = "write" => rpc[r] = "write" /\ rat'[r] = rat[r]
    BY <1>9 DEF RestoreCheck, UndeployCheck, DeleteCheck, Begin, TypeOK
  <2> QED
    BY <1>2, <1>3, <2>1, <2>2 DEF TokenInv
<1> QED
  BY <1>4, <1>5, <1>6, <1>7, <1>8, <1>9 DEF RequestStep

LEMMA TokenNext ==
  ASSUME ~Ties, TypeOK, TokenInv, [Next]_vars
  PROVE  TokenInv'
<1> USE DEF cpVars, reqVars, handVars, syncVars, history
<1>1. ASSUME UNCHANGED <<deps, nextDep, rpc, rat, stamped, created>>,
             st'.at = st.at, st'.dep = st.dep, st = NoRow => st' = NoRow
      PROVE  RowIssued' /\ WriteAhead' /\ nextDep' # 0 /\ 0 \notin deps'
  <2>1. RowIssued'
    BY <1>1, IssuedStays DEF TokenInv, RowIssued
  <2>2. WriteAhead'
    BY <1>1, IssuedStays DEF TokenInv, WriteAhead
  <2> QED
    BY <1>1, <2>1, <2>2 DEF TokenInv
<1>2. CASE TimeoutScan
  <2>1. EntryStale'
    BY <1>2 DEF TimeoutScan, Stale, EntryStale
  <2> QED
    BY <1>1, <1>2, <2>1 DEF TimeoutScan, TokenInv
<1>3. CASE TimeoutResolve \/ TimeoutError
  <2>1. UNCHANGED <<deps, nextDep, rpc, rat, stamped, created>> /\ EntryStale'
    BY <1>3 DEF TimeoutResolve, TimeoutError, EntryStale
  <2>2. st'.at = st.at /\ st'.dep = st.dep /\ (st = NoRow => st' = NoRow)
    BY <1>3, UpdateKeepsToken DEF TimeoutResolve, TimeoutError, TypeOK
  <2> QED
    BY <1>1, <2>1, <2>2 DEF TokenInv
<1>4. ASSUME NEW a \in acks, HandleAck(a) \/ LoseAck(a)
      PROVE  TokenInv'
  <2>1. /\ UNCHANGED <<deps, nextDep, rpc, rat, stamped, created, entry, now>>
    BY <1>4 DEF HandleAck, LoseAck
  <2>2. st'.at = st.at /\ st'.dep = st.dep /\ (st = NoRow => st' = NoRow)
    BY <1>4, UpdateKeepsToken DEF HandleAck, LoseAck, TypeOK
  <2> QED
    BY <1>1, <2>1, <2>2 DEF TokenInv, EntryStale
<1>5. CASE Tick
  <2>1. UNCHANGED <<deps, nextDep, rpc, rat, stamped, created, entry, st>>
    BY <1>5 DEF Tick
  <2>2. EntryStale'
    <3>1. entry.at \in Nat /\ Timeout \in Nat /\ now \in Nat /\ now' = now + 1
      BY <1>5, DeploymentAssumption DEF Tick, TypeOK, Row
    <3> QED
      BY <2>1, <3>1 DEF TokenInv, EntryStale
  <2> QED
    BY <1>1, <2>1, <2>2 DEF TokenInv
<1>6. ASSUME (\E c \in Controllers : HandlerStep(c) \/ SyncStep(c))
               \/ UNCHANGED vars
      PROVE  TokenInv'
  <2>1. UNCHANGED <<deps, nextDep, rpc, rat, stamped, created, entry, now, st>>
    BY <1>6 DEF vars, HandlerStep, Receive, Fetch, Read, Save, HandleError,
         Connect, Disconnect, Restart, SyncStep, SyncList, SyncDiff,
         SyncFetch, SyncRead, SyncSave, SyncError
  <2> QED
    BY <1>1, <2>1 DEF TokenInv, EntryStale
<1> QED
  BY <1>2, <1>3, <1>4, <1>5, <1>6, TokenRequest DEF Next

(* What one step can do to the row.                                        *)
LEMMA RowSteps ==
  ASSUME ~Ties, TypeOK, TokenInv, [Next]_vars
  PROVE  \/ st' = st \/ st' = NoRow
         \/ st # NoRow => st'.at # st.at
         \/ /\ st'.at = st.at /\ st'.dep = st.dep /\ st' # st
            /\ \/ \E a \in acks : HandleAck(a)
               \/ TimeoutResolve
<1> USE DEF cpVars, reqVars, handVars, syncVars, history
<1>1. ASSUME NEW q \in Requests, DeployCreate(q)
      PROVE  st # NoRow => st'.at # st.at
  <2>1. ~Issued(now) /\ st'.at = now
    BY <1>1 DEF DeployCreate, Fresh, Issued
  <2> QED
    BY <2>1 DEF TokenInv, RowIssued
<1>2. ASSUME NEW q \in Requests, SetCurrent(q)
      PROVE  st # NoRow => st'.at # st.at
  BY <1>2 DEF SetCurrent, TokenInv, WriteAhead
<1>3. ASSUME NEW q \in Requests, RequestStep(q), ~DeployCreate(q), ~SetCurrent(q)
      PROVE  st' = st \/ st' = NoRow
  BY <1>3 DEF RequestStep, Stamp, SetCurrentError, Send, SendError, Delete,
              RestoreCheck, UndeployCheck, DeleteCheck
<1>4. ASSUME (\E a \in acks : HandleAck(a)) \/ TimeoutResolve
      PROVE  st'.at = st.at /\ st'.dep = st.dep
  BY <1>4, UpdateKeepsToken DEF HandleAck, TimeoutResolve, TypeOK
<1>5. ASSUME \/ \E c \in Controllers : HandlerStep(c) \/ SyncStep(c)
             \/ \E a \in acks : LoseAck(a)
             \/ Tick \/ TimeoutScan \/ TimeoutError \/ UNCHANGED vars
      PROVE  st' = st
  BY <1>5 DEF vars, HandlerStep, Receive, Fetch, Read, Save, HandleError,
       Connect, Disconnect, Restart, SyncStep, SyncList, SyncDiff,
       SyncFetch, SyncRead, SyncSave, SyncError, LoseAck, Tick, TimeoutScan,
       TimeoutError
<1> QED
  BY <1>1, <1>2, <1>3, <1>4, <1>5 DEF Next

(* A failed operation stays failed until another one replaces it: neither  *)
(* an answer that comes after the timeout nor a second timeout revives it, *)
(* if no two operations get the same performed_at.                         *)
THEOREM FailureIsFinal ==
  ASSUME ~Ties
  PROVE  Spec => FailedIsFinal
<1>1. ASSUME TypeOK, TokenInv, [Next]_vars, st.status = "FAILED"
      PROVE  st'.status = "FAILED" \/ st'.at # st.at \/ st' = NoRow
  <2>1. st # NoRow
    BY <1>1 DEF NoRow
  <2>2. ASSUME NEW a \in acks, HandleAck(a)
        PROVE  st'.status = "FAILED"
    <3>1. CASE UpdateStatus("FAILED", a.at, Statuses)
      BY <1>1, <3>1 DEF UpdateStatus
    <3>2. CASE \/ UpdateStatus("DEPLOYED", a.at, {"DEPLOYING"})
               \/ UpdateStatus("UNDEPLOYED", a.at, {"UNDEPLOYING"})
      BY <1>1, <3>2 DEF UpdateStatus
    <3> QED
      BY <2>2, <3>1, <3>2 DEF HandleAck
  <2>3. TimeoutResolve => st'.status = "FAILED"
    BY <1>1, UpdateKeepsToken DEF TimeoutResolve, TypeOK
  <2> QED
    BY <1>1, <2>1, <2>2, <2>3, RowSteps
<1>2. TypeOK /\ TokenInv /\ [Next]_vars =>
        [st.status = "FAILED" =>
           st'.status = "FAILED" \/ st'.at # st.at \/ st' = NoRow]_vars
  BY <1>1
<1>3. TypeOK /\ TokenInv /\ [Next]_vars => TokenInv'
  BY TokenNext
<1> QED
  BY <1>2, <1>3, TokenInit, DeploymentTypeCorrect, PTL DEF Spec, FailedIsFinal

(* An answer or a timeout touches the row of its own operation alone: the  *)
(* row of an operation that was just recorded keeps its status until a     *)
(* controller answers that operation or it has timed out.                  *)
THEOREM NewOperationKept ==
  ASSUME ~Ties
  PROVE  Spec => NewRowKept
<1>1. ASSUME TypeOK, TokenInv, ConfirmInv, [Next]_vars,
             st.status \in Transitional, st'.dep = st.dep, st'.at = st.at,
             st'.status # st.status
      PROVE  \/ st.at + Timeout < now
             \/ \E a \in acks : a.at = st.at /\ a.dep = st.dep
  <2>1. st # NoRow /\ st.dep # 0
    BY <1>1 DEF NoRow, Transitional, TokenInv, RowIssued
  <2>2. st' # NoRow /\ st' # st
    BY <1>1, <2>1 DEF NoRow
  <2>3. ASSUME NEW a \in acks, HandleAck(a)
        PROVE  a.at = st.at /\ a.dep = st.dep
    <3>1. a.at = st.at
      BY <2>2, <2>3, UpdateKeepsToken, <1>1 DEF HandleAck, TypeOK
    <3>2. AckedEvent(a) \in stamped
      BY <1>1 DEF ConfirmInv, AcksApplied
    <3>3. PICK op \in {"deploy", "undeploy"} :
            [op |-> op, dep |-> st.dep, at |-> st.at] \in stamped
      BY <1>1 DEF ConfirmInv, RowStamped, Transitional
    <3>4. AckedEvent(a) = [op |-> op, dep |-> st.dep, at |-> st.at]
      BY <1>1, <3>1, <3>2, <3>3 DEF ConfirmInv, TokenUnique, AckedEvent
    <3> QED
      BY <3>1, <3>4 DEF AckedEvent
  <2>4. TimeoutResolve => st.at + Timeout < now
    BY <1>1, <2>2, UpdateKeepsToken DEF TimeoutResolve, TypeOK, TokenInv,
       EntryStale
  <2> QED
    BY <1>1, <2>1, <2>2, <2>3, <2>4, RowSteps
<1>2. TypeOK /\ TokenInv /\ ConfirmInv /\ [Next]_vars =>
        [st.status \in Transitional /\ st'.dep = st.dep /\ st'.at = st.at
           /\ st'.status # st.status =>
              \/ st.at + Timeout < now
              \/ \E a \in acks : a.at = st.at /\ a.dep = st.dep]_vars
  BY <1>1
<1>3. /\ TypeOK /\ TokenInv /\ [Next]_vars => TokenInv'
      /\ TypeOK /\ ConfirmInv /\ [Next]_vars => ConfirmInv'
  BY TokenNext, ConfirmNext
<1> QED
  BY <1>2, <1>3, TokenInit, ConfirmInit, DeploymentTypeCorrect, PTL
     DEF Spec, NewRowKept

-----------------------------------------------------------------------------
(* The limit on stored deployments.                                         *)

(* A set of numbers has a least element.                                   *)
LEMMA LeastExists ==
  ASSUME NEW S \in SUBSET Nat, S # {}
  PROVE  \E x \in S : \A y \in S : x <= y
<1>1. PICK x \in S : \A y \in S : ~(<<y, x>> \in OpToRel(<, Nat))
  BY WFMin, NatLessThanWellFounded
<1>2. \A y \in S : ~(y < x)
  BY <1>1 DEF OpToRel
<1> QED
  BY <1>2

(* At the limit, at least the oldest archived deployment goes.             *)
LEMMA KeptLeavesRoom ==
  ASSUME deps \in SUBSET Nat, IsFiniteSet(deps), Cardinality(deps) <= HardLimit
  PROVE  IsFiniteSet(Kept) /\ Cardinality(Kept) < HardLimit
<1> DEFINE archived == {d \in deps : d # st.dep}
           older(d) == {e \in archived : e < d}
           kept == {d \in deps : d \in archived => Cardinality(older(d)) >= Batch}
<1>1. /\ HardLimit \in Nat /\ Batch \in Nat /\ Batch >= 1 /\ HardLimit > Batch
      /\ Cardinality(deps) \in Nat
  BY DeploymentAssumption, FS_CardinalityType
<1>2. CASE Cardinality(deps) < HardLimit
  BY <1>1, <1>2 DEF Kept
<1>3. CASE ~(Cardinality(deps) < HardLimit)
  <2>1. Kept = kept
    BY <1>1, <1>3 DEF Kept
  <2>2. archived = deps \ {st.dep} /\ archived # {}
    <3>1. /\ IsFiniteSet(deps \ {st.dep})
          /\ Cardinality(deps \ {st.dep}) >= Cardinality(deps) - 1
      BY <1>1, FS_RemoveElement
    <3>2. archived = deps \ {st.dep}
      OBVIOUS
    <3>3. Cardinality(deps \ {st.dep}) # 0
      BY <1>1, <1>3, <3>1
    <3> QED BY <3>2, <3>3, FS_EmptySet
  <2>3. PICK m \in archived : \A d \in archived : m <= d
    <3>1. archived \in SUBSET Nat
      OBVIOUS
    <3> QED BY <2>2, <3>1, LeastExists
  <2>4. older(m) = {}
    <3>1. m \in Nat /\ \A d \in archived : d \in Nat /\ ~(d < m)
      BY <2>3
    <3> QED BY <3>1
  <2>5. m \notin kept
    BY <1>1, <2>3, <2>4, FS_EmptySet
  <2>6. kept \in SUBSET (deps \ {m}) /\ m \in deps
    BY <2>5
  <2> HIDE DEF kept
  <2>7. /\ IsFiniteSet(deps \ {m})
        /\ Cardinality(deps \ {m}) = Cardinality(deps) - 1
    BY <2>6, FS_RemoveElement
  <2>8. IsFiniteSet(kept) /\ Cardinality(kept) <= Cardinality(deps \ {m})
    BY <2>6, <2>7, FS_Subset
  <2>9. Cardinality(kept) \in Nat
    BY <2>8, FS_CardinalityType
  <2> QED
    BY <1>1, <2>1, <2>7, <2>8, <2>9
<1> QED
  BY <1>2, <1>3

(* The stored deployments are a finite set within the limit.               *)
LimitInv == IsFiniteSet(deps) /\ LimitHolds

LEMMA LimitNext ==
  ASSUME TypeOK, LimitInv, [Next]_vars
  PROVE  LimitInv'
<1> USE DEF cpVars, reqVars, handVars, syncVars, history
<1>1. ASSUME NEW q \in Requests, DeployCreate(q)
      PROVE  LimitInv'
  <2>1. deps' = Kept \cup {nextDep}
    BY <1>1 DEF DeployCreate
  <2>2. IsFiniteSet(Kept) /\ Cardinality(Kept) < HardLimit
    BY KeptLeavesRoom DEF TypeOK, LimitInv, LimitHolds
  <2>3. /\ IsFiniteSet(Kept \cup {nextDep})
        /\ Cardinality(Kept \cup {nextDep}) \in {Cardinality(Kept), Cardinality(Kept) + 1}
    BY <2>2, FS_AddElement
  <2>4. Cardinality(Kept) \in Nat /\ HardLimit \in Nat
    BY <2>2, FS_CardinalityType, DeploymentAssumption
  <2> QED
    BY <2>1, <2>2, <2>3, <2>4 DEF LimitInv, LimitHolds
<1>2. ASSUME NEW q \in Requests, Delete(q)
      PROVE  LimitInv'
  <2>1. deps' = deps \ {rdep[q]}
    BY <1>2 DEF Delete
  <2>2. deps \ {rdep[q]} \in SUBSET deps
    OBVIOUS
  <2>3. /\ IsFiniteSet(deps \ {rdep[q]})
        /\ Cardinality(deps \ {rdep[q]}) <= Cardinality(deps)
    BY <2>2, FS_Subset DEF LimitInv
  <2>4. /\ Cardinality(deps) \in Nat /\ HardLimit \in Nat
        /\ Cardinality(deps \ {rdep[q]}) \in Nat
    BY <2>3, FS_CardinalityType, DeploymentAssumption DEF LimitInv
  <2> QED
    BY <2>1, <2>3, <2>4 DEF LimitInv, LimitHolds
<1>3. ASSUME NEW q \in Requests, RequestStep(q), ~DeployCreate(q), ~Delete(q)
      PROVE  UNCHANGED deps
  BY <1>3 DEF RequestStep, Stamp, SetCurrent, SetCurrentError, Send, SendError,
              RestoreCheck, UndeployCheck, DeleteCheck
<1>4. ASSUME \/ \E c \in Controllers : HandlerStep(c) \/ SyncStep(c)
             \/ \E a \in acks : HandleAck(a) \/ LoseAck(a)
             \/ Tick \/ TimeoutScan \/ TimeoutResolve \/ TimeoutError
             \/ UNCHANGED vars
      PROVE  UNCHANGED deps
  BY <1>4 DEF vars, HandlerStep, Receive, Fetch, Read, Save, HandleError,
       Connect, Disconnect, Restart, SyncStep, SyncList, SyncDiff, SyncFetch,
       SyncRead, SyncSave, SyncError, HandleAck, LoseAck, Tick, TimeoutScan,
       TimeoutResolve, TimeoutError
<1>5. CASE UNCHANGED deps
  BY <1>5 DEF LimitInv, LimitHolds
<1> QED
  BY <1>1, <1>2, <1>3, <1>4, <1>5 DEF Next

(* A gateway never has more stored deployments than the hard limit, for    *)
(* any limit above the number that is dropped at once: at the limit there  *)
(* is always an archived deployment to make room, whichever is current and *)
(* whatever was deleted meanwhile.                                         *)
THEOREM LimitKept == Spec => []LimitHolds
<1>1. Init => LimitInv
  <2>1. Init => deps = {}
    BY DEF Init
  <2> QED
    BY <2>1, FS_EmptySet, DeploymentAssumption DEF LimitInv, LimitHolds
<1>2. TypeOK /\ LimitInv /\ [Next]_vars => LimitInv'
  BY LimitNext
<1>3. LimitInv => LimitHolds
  BY DEF LimitInv
<1> QED
  BY <1>1, <1>2, <1>3, DeploymentTypeCorrect, PTL DEF Spec

(* The deployment that the status row names leaves the table only with the *)
(* row, for every limit and batch of the cleanup and any number of         *)
(* requests: what Create drops at the limit is archived at that moment.    *)
THEOREM CurrentSurvives == Spec => CurrentKept
<1> DEFINE Survives == st # NoRow /\ st.dep \in deps /\ st.dep \notin deps'
                         => st' = NoRow
<1>1. ASSUME [Next]_vars PROVE Survives
  <2> USE DEF cpVars, reqVars, handVars, syncVars, history
  <2>1. ASSUME NEW q \in Requests, DeployCreate(q) PROVE Survives
    <3>1. st.dep \in deps => st.dep \in Kept
      BY DEF Kept
    <3> QED
      BY <2>1, <3>1 DEF DeployCreate
  <2>2. ASSUME NEW q \in Requests, Delete(q) PROVE Survives
    BY <2>2 DEF Delete
  <2>3. ASSUME NEW q \in Requests, RequestStep(q), ~DeployCreate(q), ~Delete(q)
        PROVE  UNCHANGED deps
    BY <2>3 DEF RequestStep, Stamp, SetCurrent, SetCurrentError, Send,
                SendError, RestoreCheck, UndeployCheck, DeleteCheck
  <2>4. ASSUME \/ \E c \in Controllers : HandlerStep(c) \/ SyncStep(c)
               \/ \E a \in acks : HandleAck(a) \/ LoseAck(a)
               \/ Tick \/ TimeoutScan \/ TimeoutResolve \/ TimeoutError
               \/ UNCHANGED vars
        PROVE  UNCHANGED deps
    BY <2>4 DEF vars, HandlerStep, Receive, Fetch, Read, Save, HandleError,
         Connect, Disconnect, Restart, SyncStep, SyncList, SyncDiff, SyncFetch,
         SyncRead, SyncSave, SyncError, HandleAck, LoseAck, Tick, TimeoutScan,
         TimeoutResolve, TimeoutError
  <2> QED
    BY <1>1, <2>1, <2>2, <2>3, <2>4 DEF Next
<1> QED
  BY <1>1, PTL DEF Spec, CurrentKept

-----------------------------------------------------------------------------
(* Why the gateway ends up with what the row says, when requests follow    *)
(* one another and nothing fails.  Tokens grow along the log, so that the  *)
(* last event wins every guarded write; the row either belongs to the      *)
(* request under way or to the last event; and while the gateway does not  *)
(* have the last event, some controller still has to handle it, or its     *)
(* failure is known or on its way.                                         *)

OneRequest == \E q : Requests = {q}
Q == CHOOSE q \in Requests : TRUE

(* The last event of the log, and whether the status row is its row.       *)
Last == log[Len(log)]
RowOfLast == Len(log) > 0 /\ st # NoRow /\ st.at = Last.at

Desired(op) == IF op = "undeploy" THEN "UNDEPLOYED" ELSE "DEPLOYED"
StateOf(op) == IF op = "deploy" THEN "deployed" ELSE "undeployed"

(* No sync is under way.                                                   *)
NoSync == \A c \in Controllers : spc[c] \in {"new", "done"}

(* Tokens: none is ahead of the clock, they grow along the log, and the    *)
(* one of the request under way is newer than the whole log.               *)
ClockAhead == \A e \in stamped : e.at <= Trunc(now)

LogOrdered ==
    \A i \in 1..Len(log), j \in 1..Len(log) : i < j => log[i].at < log[j].at

RequestAhead ==
    rpc[Q] \in {"write", "send"} =>
        \A i \in 1..Len(log) : log[i].at < rat[Q]

(* A controller is somewhere in the log, with the event it has taken last. *)
InHand ==
    \A c \in Controllers :
        /\ pos[c] <= Len(log)
        /\ hpc[c] \in {"fetch", "read", "save"} =>
             pos[c] > 0 /\ hev[c] = log[pos[c]]
        /\ hpc[c] = "fetch" => hev[c].op = "deploy"
        /\ hpc[c] = "read" => hev[c].op = "undeploy"

(* The gateway's row is what some event asked for.                         *)
CfgFromLog ==
    cfg # NoCfg => \E i \in 1..Len(log) : /\ cfg.at = log[i].at
                                          /\ cfg.dep = log[i].dep
                                          /\ cfg.state = StateOf(log[i].op)

(* The deployment of the request under way exists until it is written.     *)
RequestExists ==
    /\ rpc[Q] \in {"stamp", "write"} => rdep[Q] \in deps
    /\ rpc[Q] \in {"stamp", "write", "send"} =>
         rop[Q] \in {"deploy", "restore", "undeploy"}

(* What a status says of the row.                                          *)
RowShape ==
    st # NoRow =>
        /\ st.status \in Statuses
        /\ st.status \in {"DEPLOYED", "DEPLOYING"} => st.desired = "DEPLOYED"
        /\ st.status \in {"UNDEPLOYED", "UNDEPLOYING"} =>
             st.desired = "UNDEPLOYED"

(* Whose row it is: Create's, the one of the request that is about to send *)
(* its event, or the last event's.                                         *)
RowOwned ==
    faults = 0 /\ st # NoRow =>
        \/ rpc[Q] \in {"stamp", "write"} /\ rop[Q] = "deploy"
        \/ rpc[Q] = "send"
        \/ RowOfLast

SendRow ==
    faults = 0 /\ rpc[Q] = "send" =>
        /\ st # NoRow
        /\ st.at = rat[Q] /\ st.dep = rdep[Q] /\ st.desired = Desired(rop[Q])

LastRow ==
    faults = 0 /\ RowOfLast =>
        /\ st.dep = Last.dep /\ st.desired = Desired(Last.op)

(* The content that came with the last event is the content of its         *)
(* deployment, as long as the row is its row.                              *)
LastContent ==
    faults = 0 /\ RowOfLast /\ Last.op = "deploy" =>
        /\ cfg # NoCfg /\ cfg.at = Last.at => cfg.content = Last.dep
        /\ \A c \in Controllers :
             hpc[c] = "save" /\ pos[c] = Len(log) => hdata[c] = Last.dep

(* The controller has not handled all events yet.                          *)
Behind(c) == pos[c] < Len(log) \/ hpc[c] \in {"fetch", "read", "save"}

Refused == \E a \in acks : a.at = Last.at /\ ~a.ok

LastSettles ==
    faults = 0 /\ RowOfLast =>
        \/ st.status = "FAILED" \/ Refused
        \/ cfg # NoCfg /\ cfg.at = Last.at
        \/ cfg = NoCfg /\ Last.op = "undeploy"
        \/ \E c \in Controllers : Behind(c)

ConvInv ==
    /\ NoSync /\ ClockAhead /\ LogOrdered /\ RequestAhead /\ InHand
    /\ CfgFromLog /\ RequestExists /\ RowShape /\ RowOwned /\ SendRow
    /\ LastRow /\ LastContent /\ LastSettles

(* What the proof assumes of the instance: requests one after the other,   *)
(* no two with the same performed_at, no bulk sync, and a controller.      *)
Sequential ==
    OneRequest /\ ~Ties /\ ~DeploymentSyncEnabled /\ Controllers # {}

LEMMA OnlyQ == ASSUME OneRequest PROVE Requests = {Q} /\ Q \in Requests
  BY DEF OneRequest, Q

(* Truncation keeps the order of times.                                    *)
LEMMA TruncGrows == ASSUME NEW t \in Nat PROVE Trunc(t) <= Trunc(t + 1)
<1>1. Ms \in Nat \ {0}
  BY DeploymentAssumption
<1>2. t \div Ms \in Nat /\ (t + 1) \div Ms \in Nat
  BY <1>1
<1>3. t \div Ms <= (t + 1) \div Ms
  BY <1>1
<1>4. \A m, n, k \in Nat : m <= n => m * k <= n * k
  OBVIOUS
<1> QED
  BY <1>1, <1>2, <1>3, <1>4 DEF Trunc

(* A part is kept by a step that leaves its variables alone.               *)
LEMMA ConvFrame ==
  ASSUME ConvInv
  PROVE  /\ UNCHANGED spc => NoSync'
         /\ UNCHANGED <<stamped, now>> => ClockAhead'
         /\ UNCHANGED log => LogOrdered'
         /\ UNCHANGED <<rpc, rat, log>> => RequestAhead'
         /\ UNCHANGED <<pos, hpc, hev, log>> => InHand'
         /\ UNCHANGED <<cfg, log>> => CfgFromLog'
         /\ UNCHANGED <<rpc, rop, rdep, deps>> => RequestExists'
         /\ UNCHANGED st => RowShape'
         /\ UNCHANGED <<st, rpc, rop, log, faults>> => RowOwned'
         /\ UNCHANGED <<st, rpc, rop, rdep, rat, faults>> => SendRow'
         /\ UNCHANGED <<st, log, faults>> => LastRow'
         /\ UNCHANGED <<st, log, cfg, hpc, pos, hdata, faults>> => LastContent'
         /\ UNCHANGED <<st, log, cfg, hpc, pos, acks, faults>> => LastSettles'
<1> USE DEF ConvInv
<1>1. UNCHANGED spc => NoSync'
  BY DEF NoSync
<1>2. UNCHANGED <<stamped, now>> => ClockAhead'
  BY DEF ClockAhead
<1>3. UNCHANGED log => LogOrdered'
  BY DEF LogOrdered
<1>4. UNCHANGED <<rpc, rat, log>> => RequestAhead'
  BY DEF RequestAhead
<1>5. UNCHANGED <<pos, hpc, hev, log>> => InHand'
  BY DEF InHand
<1>6. UNCHANGED <<cfg, log>> => CfgFromLog'
  BY DEF CfgFromLog
<1>7. UNCHANGED <<rpc, rop, rdep, deps>> => RequestExists'
  BY DEF RequestExists
<1>8. UNCHANGED st => RowShape'
  BY DEF RowShape
<1>9. UNCHANGED <<st, rpc, rop, log, faults>> => RowOwned'
  BY DEF RowOwned, RowOfLast, Last
<1>10. UNCHANGED <<st, rpc, rop, rdep, rat, faults>> => SendRow'
  BY DEF SendRow
<1>11. UNCHANGED <<st, log, faults>> => LastRow'
  BY DEF LastRow, RowOfLast, Last
<1>12. UNCHANGED <<st, log, cfg, hpc, pos, hdata, faults>> => LastContent'
  BY DEF LastContent, RowOfLast, Last
<1>13. UNCHANGED <<st, log, cfg, hpc, pos, acks, faults>> => LastSettles'
  BY DEF LastSettles, RowOfLast, Last, Refused, Behind
<1> QED
  BY <1>1, <1>2, <1>3, <1>4, <1>5, <1>6, <1>7, <1>8, <1>9, <1>10, <1>11,
     <1>12, <1>13

(* After a fault nothing is claimed of the row and the last event.         *)
LEMMA FaultExcuses ==
  ASSUME TypeOK, Fault
  PROVE  RowOwned' /\ SendRow' /\ LastRow' /\ LastContent' /\ LastSettles'
<1>1. faults' # 0
  BY DEF TypeOK, Fault
<1> QED
  BY <1>1 DEF RowOwned, SendRow, LastRow, LastContent, LastSettles

(* While the row is not the last event's, nothing is claimed of that.      *)
LEMMA OtherRow ==
  ASSUME ~RowOfLast' PROVE LastRow' /\ LastContent' /\ LastSettles'
  BY DEF LastRow, LastContent, LastSettles

(* The last event is one of the log, with the greatest token.              *)
LEMMA LastFacts ==
  ASSUME TypeOK, ConfirmInv, LogOrdered, Len(log) > 0
  PROVE  /\ Last \in Event /\ Last \in stamped
         /\ \A i \in 1..Len(log) : /\ log[i] \in Event
                                   /\ log[i].at <= Last.at
                                   /\ log[i].at = Last.at => i = Len(log)
<1>1. Len(log) \in 1..Len(log)
  BY DEF TypeOK
<1>2. \A i \in 1..Len(log) : log[i] \in Event /\ log[i].at \in Nat
  <2>1. \A i \in 1..Len(log) : log[i] \in Event
    BY DEF TypeOK
  <2> QED
    BY <2>1 DEF Event
<1>3. Last \in Event /\ Last.at \in Nat
  BY <1>1, <1>2 DEF Last
<1>4. Last \in stamped
  BY <1>1 DEF ConfirmInv, LogStamped, Last
<1>5. ASSUME NEW i \in 1..Len(log), i # Len(log) PROVE log[i].at < Last.at
  <2>1. i < Len(log)
    BY <1>5 DEF TypeOK
  <2> QED
    BY <1>1, <2>1 DEF LogOrdered, Last
<1> QED
  BY <1>2, <1>3, <1>4, <1>5 DEF Last

LEMMA BeginFacts ==
  ASSUME OneRequest, TypeOK, NEW op, NEW d, NEW next, Begin(Q, op, d, next)
  PROVE  /\ rpc[Q] = "idle" /\ rpc'[Q] = next
         /\ rop'[Q] = op /\ rdep'[Q] = d /\ rat' = rat
  BY OnlyQ DEF Begin, TypeOK

LEMMA FinishFacts ==
  ASSUME OneRequest, TypeOK, Finish(Q)
  PROVE  rpc'[Q] = "idle" /\ rop'[Q] = "none"
  BY OnlyQ DEF Finish, TypeOK

LEMMA GotoFacts ==
  ASSUME OneRequest, TypeOK, NEW next, Goto(Q, next)
  PROVE  rpc'[Q] = next /\ rop' = rop /\ rdep' = rdep /\ rat' = rat
  BY OnlyQ DEF Goto, TypeOK

(* A request that is not writing or sending claims nothing of its token.   *)
LEMMA NotAhead ==
  ASSUME rpc'[Q] \notin {"write", "send"} PROVE RequestAhead' /\ SendRow'
  BY DEF RequestAhead, SendRow

(* Create points the row to a deployment that has no event yet.            *)
LEMMA ConvDeployCreate ==
  ASSUME Sequential, TypeOK, ConfirmInv, ConvInv, DeployCreate(Q)
  PROVE  ConvInv'
<1> USE DEF cpVars, reqVars, handVars, syncVars, history, Sequential
<1>1. /\ rpc'[Q] = "stamp" /\ rop'[Q] = "deploy" /\ rdep'[Q] = nextDep
      /\ UNCHANGED <<now, log, cfg, pos, hpc, hev, spc, stamped>>
      /\ nextDep \in deps'
  BY BeginFacts DEF DeployCreate
<1>2. NoSync' /\ ClockAhead' /\ LogOrdered' /\ InHand' /\ CfgFromLog'
  BY <1>1, ConvFrame
<1>3. RequestAhead' /\ SendRow' /\ RequestExists' /\ RowOwned'
  BY <1>1, NotAhead DEF RequestExists, RowOwned
<1>4. st' = [dep |-> nextDep, status |-> "DEPLOYED",
             desired |-> "DEPLOYED", at |-> now]
  BY DEF DeployCreate
<1>5. RowShape'
  BY <1>4 DEF RowShape, Statuses
<1>6. ~RowOfLast'
  <2>1. SUFFICES ASSUME Len(log) > 0 PROVE Last'.at # now
    BY <1>1, <1>4 DEF RowOfLast
  <2>2. Last' = Last /\ Last \in stamped
    BY <1>1, <2>1, LastFacts DEF ConvInv, Last
  <2>3. \A e \in stamped : e.at # now
    BY DEF DeployCreate, Fresh
  <2> QED
    BY <2>2, <2>3
<1> QED
  BY <1>2, <1>3, <1>5, <1>6, OtherRow DEF ConvInv

(* The checks of a request change nothing but the request.                 *)
LEMMA ConvCheck ==
  ASSUME Sequential, TypeOK, ConfirmInv, ConvInv, NEW d \in deps,
         RestoreCheck(Q, d) \/ UndeployCheck(Q, d) \/ DeleteCheck(Q, d)
  PROVE  ConvInv'
<1> USE DEF cpVars, reqVars, handVars, syncVars, history, Sequential
<1>1. /\ rpc[Q] = "idle" /\ rpc'[Q] \in {"stamp", "delete"}
      /\ rpc'[Q] = "stamp" => rop'[Q] \in {"restore", "undeploy"}
      /\ rdep'[Q] = d
  BY BeginFacts DEF RestoreCheck, UndeployCheck, DeleteCheck
<1>2. UNCHANGED <<now, deps, st, log, acks, cfg, pos, hpc, hev, hdata, spc,
                  stamped, faults>>
  BY DEF RestoreCheck, UndeployCheck, DeleteCheck
<1>3. /\ NoSync' /\ ClockAhead' /\ LogOrdered' /\ InHand' /\ CfgFromLog'
      /\ RowShape' /\ LastRow' /\ LastContent' /\ LastSettles'
  BY <1>2, ConvFrame
<1>4. RequestAhead' /\ SendRow' /\ RequestExists'
  BY <1>1, <1>2, NotAhead DEF RequestExists
<1>5. RowOwned'
  BY <1>1, <1>2 DEF ConvInv, RowOwned, RowOfLast, Last
<1> QED
  BY <1>3, <1>4, <1>5 DEF ConvInv

(* The token of the request is newer than every token of the log.          *)
LEMMA ConvStamp ==
  ASSUME Sequential, TypeOK, ConfirmInv, ConvInv, Stamp(Q)
  PROVE  ConvInv'
<1> USE DEF cpVars, reqVars, handVars, syncVars, history, Sequential
<1>1. /\ rpc[Q] = "stamp" /\ rpc'[Q] = "write" /\ rat'[Q] = Trunc(now)
      /\ UNCHANGED <<now, deps, st, log, acks, cfg, pos, hpc, hev, hdata, spc,
                     faults, rop, rdep>>
  BY OnlyQ DEF Stamp, TypeOK
<1>2. /\ NoSync' /\ LogOrdered' /\ InHand' /\ CfgFromLog'
      /\ RowShape' /\ LastRow' /\ LastContent' /\ LastSettles'
  BY <1>1, ConvFrame
<1>3. SendRow' /\ RequestExists'
  BY <1>1 DEF ConvInv, SendRow, RequestExists
<1>4. RowOwned'
  BY <1>1 DEF ConvInv, RowOwned, RowOfLast, Last
<1>5. Trunc(now) \in Nat
  BY TruncNat DEF TypeOK
<1>6. ClockAhead'
  <2>1. stamped' = stamped \cup {[op |-> EventOp(rop[Q]), dep |-> rdep[Q],
                                  at |-> Trunc(now)]}
    BY DEF Stamp
  <2>2. Trunc(now)' = Trunc(now)
    BY <1>1
  <2> QED
    BY <1>5, <2>1, <2>2 DEF ConvInv, ClockAhead
<1>7. RequestAhead'
  <2>1. \A e \in stamped : e.at <= Trunc(now) /\ e.at # Trunc(now)
    BY DEF ConvInv, ClockAhead, Stamp, Fresh
  <2>2. \A e \in stamped : e.at \in Nat
    BY DEF TypeOK, Event
  <2>3. \A e \in stamped : e.at < Trunc(now)
    BY <1>5, <2>1, <2>2
  <2>4. \A i \in 1..Len(log) : log[i] \in stamped
    BY DEF ConfirmInv, LogStamped
  <2> QED
    BY <1>1, <2>3, <2>4 DEF RequestAhead
<1> QED
  BY <1>2, <1>3, <1>4, <1>6, <1>7 DEF ConvInv

(* The row becomes the request's, with a token that is not in the log.     *)
LEMMA ConvSetCurrent ==
  ASSUME Sequential, TypeOK, ConfirmInv, ConvInv, SetCurrent(Q)
  PROVE  ConvInv'
<1> USE DEF cpVars, reqVars, handVars, syncVars, history, Sequential
<1>1. /\ rpc[Q] = "write" /\ rpc'[Q] = "send"
      /\ UNCHANGED <<now, deps, log, acks, cfg, pos, hpc, hev, hdata, spc,
                     faults, rop, rdep, rat, stamped>>
  BY GotoFacts DEF SetCurrent
<1>2. NoSync' /\ ClockAhead' /\ LogOrdered' /\ InHand' /\ CfgFromLog'
  BY <1>1, ConvFrame
<1>3. RequestAhead' /\ RequestExists' /\ RowOwned'
  BY <1>1 DEF ConvInv, RequestAhead, RequestExists, RowOwned
<1>4. st' = [dep |-> rdep[Q], status |-> InitialStatus(rop[Q]),
             desired |-> Desired(rop[Q]), at |-> rat[Q]]
  BY DEF SetCurrent, Desired
<1>5. /\ InitialStatus(rop[Q]) \in Statuses
      /\ Desired(rop[Q]) \in {"DEPLOYED", "UNDEPLOYED"}
  BY DEF InitialStatus, Statuses, Desired
<1>6. RowShape'
  BY <1>4, <1>5 DEF RowShape, InitialStatus, Desired
<1>7. SendRow'
  BY <1>1, <1>4, <1>5 DEF SendRow, NoRow
<1>8. ~RowOfLast'
  <2>1. SUFFICES ASSUME Len(log) > 0 PROVE Last.at # rat[Q]
    BY <1>1, <1>4 DEF RowOfLast, Last
  <2>2. Len(log) \in 1..Len(log)
    BY <2>1 DEF TypeOK
  <2>3. Last.at < rat[Q]
    BY <1>1, <2>2 DEF ConvInv, RequestAhead, Last
  <2>4. Last.at \in Nat /\ rat[Q] \in Nat
    BY <2>1, OnlyQ, LastFacts DEF ConvInv, Event, TypeOK
  <2> QED
    BY <2>3, <2>4
<1> QED
  BY <1>2, <1>3, <1>6, <1>7, <1>8, OtherRow DEF ConvInv

(* Without a fault the write does not fail: the deployment is still there. *)
LEMMA ConvSetCurrentError ==
  ASSUME Sequential, TypeOK, ConfirmInv, ConvInv, SetCurrentError(Q)
  PROVE  ConvInv'
<1> USE DEF cpVars, reqVars, handVars, syncVars, history, Sequential
<1>1. /\ rpc[Q] = "write"
      /\ \/ rpc'[Q] = "send" /\ UNCHANGED <<rop, rdep, rat>>
         \/ rpc'[Q] = "idle"
      /\ UNCHANGED <<now, deps, st, log, acks, cfg, pos, hpc, hev, hdata, spc,
                     stamped>>
  BY GotoFacts, FinishFacts DEF SetCurrentError
<1>2. Fault
  BY <1>1 DEF SetCurrentError, ConvInv, RequestExists
<1>3. /\ NoSync' /\ ClockAhead' /\ LogOrdered' /\ InHand' /\ CfgFromLog'
      /\ RowShape'
  BY <1>1, ConvFrame
<1>4. RequestAhead' /\ RequestExists'
  BY <1>1 DEF ConvInv, RequestAhead, RequestExists
<1> QED
  BY <1>2, <1>3, <1>4, FaultExcuses DEF ConvInv

(* The event of the request becomes the last one: its row is in place, no  *)
(* gateway write can have its token, and every controller is behind it.    *)
LEMMA ConvSend ==
  ASSUME Sequential, TypeOK, ConfirmInv, ConvInv, Send(Q)
  PROVE  ConvInv'
<1> USE DEF cpVars, reqVars, handVars, syncVars, history, Sequential
<1> DEFINE n == Len(log)
           e == EventOf(Q)
<1>1. /\ rpc[Q] = "send" /\ rpc'[Q] = "idle"
      /\ UNCHANGED <<now, deps, st, acks, cfg, pos, hpc, hev, hdata, spc,
                     faults, stamped>>
      /\ log' = Append(log, e)
  BY FinishFacts DEF Send
<1>2. /\ NoSync' /\ ClockAhead' /\ RowShape'
  BY <1>1, ConvFrame
<1>3. RequestAhead' /\ SendRow' /\ RequestExists'
  BY <1>1, NotAhead DEF RequestExists
<1>4. /\ n \in Nat /\ Len(log') = n + 1
      /\ \A i \in 1..n : log'[i] = log[i] /\ log[i].at < rat[Q]
      /\ log'[n + 1] = e
  <2>1. log \in Seq(Event)
    BY DEF TypeOK
  <2>2. /\ n \in Nat /\ Len(log') = n + 1 /\ log'[n + 1] = e
        /\ \A i \in 1..n : log'[i] = log[i]
    BY <1>1, <2>1
  <2> QED
    BY <1>1, <2>2 DEF ConvInv, RequestAhead
<1>5. /\ e.op = EventOp(rop[Q]) /\ e.dep = rdep[Q] /\ e.at = rat[Q]
      /\ rat[Q] \in Nat
  BY OnlyQ DEF EventOf, TypeOK
<1>6. Last' = e /\ Len(log') > 0
  BY <1>4 DEF Last
<1>7. LogOrdered'
  <2>1. SUFFICES ASSUME NEW i \in 1..(n + 1), NEW j \in 1..(n + 1), i < j
                 PROVE  log'[i].at < log'[j].at
    BY <1>4 DEF LogOrdered
  <2>2. i \in 1..n
    BY <1>4, <2>1
  <2>3. CASE j = n + 1
    BY <1>4, <1>5, <2>2, <2>3
  <2>4. CASE j \in 1..n
    BY <1>4, <2>1, <2>2, <2>4 DEF ConvInv, LogOrdered
  <2> QED
    BY <1>4, <2>3, <2>4
<1>8. InHand'
  <2>1. ASSUME NEW c \in Controllers
        PROVE  /\ pos[c] \in Nat /\ pos[c] <= n
               /\ pos[c] > 0 => log'[pos[c]] = log[pos[c]]
    BY <1>4 DEF ConvInv, InHand, TypeOK
  <2> QED
    BY <1>1, <1>4, <2>1 DEF ConvInv, InHand
<1>9. CfgFromLog'
  <2>1. SUFFICES ASSUME cfg # NoCfg
                 PROVE  \E i \in 1..(n + 1) :
                            /\ cfg.at = log'[i].at
                            /\ cfg.dep = log'[i].dep
                            /\ cfg.state = StateOf(log'[i].op)
    BY <1>1, <1>4 DEF CfgFromLog
  <2>2. PICK i \in 1..n : /\ cfg.at = log[i].at
                          /\ cfg.dep = log[i].dep
                          /\ cfg.state = StateOf(log[i].op)
    BY <2>1 DEF ConvInv, CfgFromLog
  <2>3. i \in 1..(n + 1) /\ log'[i] = log[i]
    BY <1>4
  <2> QED
    BY <2>2, <2>3
<1>10. faults = 0 => /\ st # NoRow /\ st.at = rat[Q] /\ st.dep = rdep[Q]
                     /\ st.desired = Desired(rop[Q])
  BY <1>1 DEF ConvInv, SendRow
<1>11. RowOwned'
  BY <1>1, <1>5, <1>6, <1>10 DEF RowOwned, RowOfLast
<1>12. LastRow'
  <2>1. Desired(e.op) = Desired(rop[Q])
    BY <1>5 DEF Desired, EventOp
  <2> QED
    BY <1>1, <1>5, <1>6, <1>10, <2>1 DEF LastRow
<1>13. \A c \in Controllers : pos'[c] < Len(log')
  BY <1>1, <1>4 DEF ConvInv, InHand, TypeOK
<1>14. LastContent'
  <2>1. cfg # NoCfg => cfg.at # rat[Q]
    <3>1. \A i \in 1..n : log[i].at \in Nat
      <4>1. \A i \in 1..n : log[i] \in Event
        BY DEF TypeOK
      <4> QED
        BY <4>1 DEF Event
    <3> QED
      BY <1>4, <1>5, <3>1 DEF ConvInv, CfgFromLog
  <2>2. cfg' = cfg /\ Last'.at = rat[Q]
    BY <1>1, <1>5, <1>6
  <2>3. \A c \in Controllers : pos'[c] # Len(log')
    BY <1>1, <1>4 DEF ConvInv, InHand, TypeOK
  <2> QED
    BY <2>1, <2>2, <2>3 DEF LastContent
<1>15. LastSettles'
  <2>1. PICK c : c \in Controllers
    OBVIOUS
  <2>2. Behind(c)'
    BY <1>13, <2>1 DEF Behind
  <2> QED
    BY <2>1, <2>2 DEF LastSettles
<1> QED
  BY <1>2, <1>3, <1>7, <1>8, <1>9, <1>11, <1>12, <1>14, <1>15 DEF ConvInv

(* A delete leaves the row alone or removes it.                            *)
LEMMA ConvDelete ==
  ASSUME Sequential, TypeOK, ConfirmInv, ConvInv, Delete(Q) \/ SendError(Q)
  PROVE  ConvInv'
<1> USE DEF cpVars, reqVars, handVars, syncVars, history, Sequential
<1>1. /\ rpc'[Q] = "idle"
      /\ UNCHANGED <<now, log, acks, cfg, pos, hpc, hev, hdata, spc, stamped>>
      /\ st' = st \/ st' = NoRow
  BY FinishFacts DEF Delete, SendError
<1>2. NoSync' /\ ClockAhead' /\ LogOrdered' /\ InHand' /\ CfgFromLog'
  BY <1>1, ConvFrame
<1>3. RequestAhead' /\ SendRow' /\ RequestExists'
  BY <1>1, NotAhead DEF RequestExists
<1>4. RowShape'
  BY <1>1 DEF ConvInv, RowShape
<1>5. RowOwned' /\ LastRow' /\ LastContent' /\ LastSettles'
  <2>1. CASE SendError(Q)
    BY <2>1, FaultExcuses DEF SendError
  <2>2. CASE st' = NoRow
    <3>1. ~RowOfLast'
      BY <2>2 DEF RowOfLast
    <3> QED
      BY <2>2, <3>1, OtherRow DEF RowOwned
  <2>3. CASE Delete(Q) /\ st' = st
    <3>1. rpc[Q] = "delete" /\ faults' = faults
      BY <2>3 DEF Delete
    <3>2. RowOwned'
      BY <1>1, <2>3, <3>1 DEF ConvInv, RowOwned, RowOfLast, Last
    <3> QED
      BY <1>1, <2>3, <3>1, <3>2, ConvFrame
  <2> QED
    BY <1>1, <2>1, <2>2, <2>3
<1> QED
  BY <1>2, <1>3, <1>4, <1>5 DEF ConvInv

LEMMA ConvRequest ==
  ASSUME Sequential, TypeOK, ConfirmInv, ConvInv, NEW q \in Requests,
         RequestStep(q)
  PROVE  ConvInv'
<1>1. q = Q
  BY OnlyQ DEF Sequential
<1> QED
  BY <1>1, ConvDeployCreate, ConvCheck, ConvStamp, ConvSetCurrent,
     ConvSetCurrentError, ConvSend, ConvDelete DEF RequestStep

(* An answer or a timeout changes at most the status of the row, and never *)
(* revives a failure.                                                      *)
LEMMA AnswerRow ==
  ASSUME TypeOK, RowShape, NEW new \in Statuses, NEW at, NEW required,
         UpdateStatus(new, at, required),
         \/ new = "FAILED"
         \/ new = "DEPLOYED" /\ required = {"DEPLOYING"}
         \/ new = "UNDEPLOYED" /\ required = {"UNDEPLOYING"}
  PROVE  /\ st'.dep = st.dep /\ st'.desired = st.desired /\ st'.at = st.at
         /\ st' = NoRow <=> st = NoRow
         /\ st.status = "FAILED" => st'.status = "FAILED"
         /\ RowShape'
<1>1. CASE st' = st
  BY <1>1 DEF RowShape
<1>2. CASE /\ st # NoRow /\ st.status \in required
           /\ st' = [dep |-> st.dep, status |-> new, desired |-> st.desired,
                     at |-> st.at]
  <2>1. st'.status = new /\ st'.desired = st.desired /\ st'.dep = st.dep
        /\ st'.at = st.at
    BY <1>2
  <2>2. st' # NoRow
    BY <2>1 DEF NoRow, Statuses
  <2>3. new = "DEPLOYED" => st.desired = "DEPLOYED"
    BY <1>2 DEF RowShape
  <2>4. new = "UNDEPLOYED" => st.desired = "UNDEPLOYED"
    BY <1>2 DEF RowShape
  <2>5. RowShape'
    BY <2>1, <2>3, <2>4 DEF RowShape
  <2>6. st.status = "FAILED" => new = "FAILED"
    BY <1>2
  <2> QED
    BY <1>2, <2>1, <2>2, <2>5, <2>6
<1> QED
  BY <1>1, <1>2 DEF UpdateStatus

(* Answers, their loss and the timeout job: a refusal of the last event    *)
(* that is on its way fails the row when it arrives.                       *)
LEMMA ConvAnswer ==
  ASSUME Sequential, TypeOK, ConfirmInv, ConvInv,
         TimeoutScan \/ TimeoutResolve \/ TimeoutError
            \/ \E a \in acks : HandleAck(a) \/ LoseAck(a)
  PROVE  ConvInv'
<1> USE DEF cpVars, reqVars, handVars, syncVars, history, Sequential
<1>1. /\ UNCHANGED <<now, deps, rpc, rop, rdep, rat, log, cfg, pos, hpc, hev,
                     hdata, spc, stamped>>
  BY DEF TimeoutScan, TimeoutResolve, TimeoutError, HandleAck, LoseAck
<1>2. /\ NoSync' /\ ClockAhead' /\ LogOrdered' /\ RequestAhead' /\ InHand'
      /\ CfgFromLog' /\ RequestExists'
  BY <1>1, ConvFrame
<1>3. /\ st'.dep = st.dep /\ st'.desired = st.desired /\ st'.at = st.at
      /\ st' = NoRow <=> st = NoRow
      /\ st.status = "FAILED" => st'.status = "FAILED"
      /\ RowShape'
  <2>1. RowShape
    BY DEF ConvInv
  <2>2. CASE st' = st
    BY <2>1, <2>2 DEF RowShape
  <2>3. CASE TimeoutResolve
    BY <2>1, <2>3, AnswerRow DEF TimeoutResolve, Statuses
  <2>4. ASSUME NEW a \in acks, HandleAck(a)
        PROVE  \/ UpdateStatus("FAILED", a.at, Statuses)
               \/ UpdateStatus("DEPLOYED", a.at, {"DEPLOYING"})
               \/ UpdateStatus("UNDEPLOYED", a.at, {"UNDEPLOYING"})
    BY <2>4 DEF HandleAck
  <2>5. CASE \E a \in acks : HandleAck(a)
    <3>1. PICK a \in acks : HandleAck(a)
      BY <2>5
    <3>2. {"FAILED", "DEPLOYED", "UNDEPLOYED"} \subseteq Statuses
      BY DEF Statuses
    <3> QED
      BY <2>1, <2>4, <3>1, <3>2, AnswerRow
  <2> QED
    BY <2>2, <2>3, <2>5 DEF TimeoutScan, TimeoutError, LoseAck
<1>4. CASE (\E a \in acks : LoseAck(a)) \/ TimeoutError
  BY <1>2, <1>3, <1>4, FaultExcuses DEF LoseAck, TimeoutError, ConvInv
<1>5. CASE faults' = faults
  <2>1. RowOfLast' <=> RowOfLast
    BY <1>1, <1>3 DEF RowOfLast, Last
  <2>2. RowOwned'
    BY <1>1, <1>3, <1>5, <2>1 DEF ConvInv, RowOwned
  <2>3. SendRow'
    BY <1>1, <1>3, <1>5 DEF ConvInv, SendRow
  <2>4. LastRow'
    BY <1>1, <1>3, <1>5, <2>1 DEF ConvInv, LastRow, Last
  <2>5. LastContent'
    BY <1>1, <1>5, <2>1 DEF ConvInv, LastContent, Last
  <2>6. LastSettles'
    <3>1. SUFFICES ASSUME faults = 0, RowOfLast
                   PROVE  \/ st'.status = "FAILED" \/ Refused'
                          \/ cfg' # NoCfg /\ cfg'.at = Last'.at
                          \/ cfg' = NoCfg /\ Last'.op = "undeploy"
                          \/ \E c \in Controllers : Behind(c)'
      BY <1>5, <2>1 DEF LastSettles
    <3>2. Last' = Last /\ \A c \in Controllers : Behind(c)' <=> Behind(c)
      BY <1>1 DEF Last, Behind
    <3>3. CASE Refused
      <4>1. PICK b \in acks : b.at = Last.at /\ ~b.ok
        BY <3>3 DEF Refused
      <4>2. CASE b \in acks'
        BY <3>2, <4>1, <4>2 DEF Refused
      <4>3. CASE b \notin acks'
        <5>1. HandleAck(b)
          BY <1>5, <4>1, <4>3 DEF TimeoutScan, TimeoutResolve, TimeoutError,
                                  HandleAck, LoseAck, Fault, TypeOK
        <5>2. UpdateStatus("FAILED", b.at, Statuses)
          BY <4>1, <5>1 DEF HandleAck
        <5>3. st # NoRow /\ st.at = b.at /\ st.status \in Statuses
          BY <3>1, <4>1 DEF RowOfLast, ConvInv, RowShape
        <5> QED
          BY <5>2, <5>3 DEF UpdateStatus
      <4> QED
        BY <4>2, <4>3
    <3> QED
      BY <1>1, <1>3, <3>1, <3>2, <3>3 DEF ConvInv, LastSettles
  <2> QED
    BY <1>2, <1>3, <2>2, <2>3, <2>4, <2>5, <2>6 DEF ConvInv
<1> QED
  BY <1>4, <1>5 DEF TimeoutScan, TimeoutResolve, HandleAck

(* What the handler of a controller has in hand.                           *)
LEMMA HandFacts ==
  ASSUME TypeOK, ConfirmInv, ConvInv, NEW c \in Controllers,
         hpc[c] \in {"fetch", "read", "save"}
  PROVE  /\ pos[c] \in 1..Len(log) /\ hev[c] = log[pos[c]] /\ hev[c] \in Event
         /\ Len(log) > 0
         /\ ~(pos[c] < Len(log)) => hev[c] = Last /\ pos[c] = Len(log)
<1>1. /\ pos[c] \in Nat /\ Len(log) \in Nat /\ pos[c] <= Len(log)
      /\ pos[c] > 0 /\ hev[c] = log[pos[c]]
  BY DEF ConvInv, InHand, TypeOK
<1>2. hev[c] \in Event
  BY DEF TypeOK
<1> QED
  BY <1>1, <1>2 DEF Last

(* The handler returns to its loop.                                        *)
LEMMA IdleFacts ==
  ASSUME TypeOK, NEW c \in Controllers, Idle(c)
  PROVE  /\ hpc'[c] = "idle"
         /\ \A x \in Controllers \ {c} :
              hpc'[x] = hpc[x] /\ hev'[x] = hev[x] /\ hdata'[x] = hdata[x]
  BY DEF Idle, TypeOK

(* What a handler that neither moves nor takes anything leaves as it is.   *)
LEMMA HandlerFrame ==
  ASSUME ConvInv,
         UNCHANGED <<now, deps, st, rpc, rop, rdep, rat, log, stamped, spc>>
  PROVE  /\ NoSync' /\ ClockAhead' /\ LogOrdered' /\ RequestAhead'
         /\ RequestExists' /\ RowShape'
         /\ UNCHANGED faults => RowOwned' /\ SendRow' /\ LastRow'
  BY ConvFrame

(* The part about the events in hand, when one handler ends.               *)
LEMMA InHandIdle ==
  ASSUME TypeOK, ConvInv, NEW c \in Controllers, Idle(c),
         UNCHANGED <<pos, log>>
  PROVE  InHand'
<1>1. ASSUME NEW x \in Controllers
      PROVE  /\ pos'[x] <= Len(log')
             /\ hpc'[x] \in {"fetch", "read", "save"} =>
                  pos'[x] > 0 /\ hev'[x] = log'[pos'[x]]
             /\ hpc'[x] = "fetch" => hev'[x].op = "deploy"
             /\ hpc'[x] = "read" => hev'[x].op = "undeploy"
  <2>1. pos'[x] = pos[x] /\ log' = log
    OBVIOUS
  <2>2. CASE x = c
    BY <2>1, <2>2, IdleFacts DEF ConvInv, InHand
  <2>3. CASE x # c
    BY <2>1, <2>3, IdleFacts DEF ConvInv, InHand
  <2> QED
    BY <2>2, <2>3
<1> QED
  BY <1>1 DEF InHand

(* The content in hand, when one handler ends without a write.             *)
LEMMA ContentIdle ==
  ASSUME TypeOK, ConvInv, NEW c \in Controllers, Idle(c),
         UNCHANGED <<st, log, cfg, pos, faults>>
  PROVE  LastContent'
<1>1. \A x \in Controllers :
        hpc'[x] = "save" => hpc[x] = "save" /\ hdata'[x] = hdata[x]
  BY IdleFacts
<1>2. RowOfLast' = RowOfLast /\ Last' = Last
  BY DEF RowOfLast, Last
<1> QED
  BY <1>1, <1>2 DEF ConvInv, LastContent

(* A handler takes the next event.                                         *)
LEMMA ConvReceive ==
  ASSUME Sequential, TypeOK, ConfirmInv, ConvInv, NEW c \in Controllers,
         Receive(c)
  PROVE  ConvInv'
<1> USE DEF cpVars, reqVars, handVars, syncVars, history, Sequential
<1> DEFINE e == log[pos[c] + 1]
<1>1. UNCHANGED <<now, deps, st, rpc, rop, rdep, rat, log, stamped, spc, cfg,
                  faults, hdata, acks>>
  BY DEF Receive
<1>2. /\ NoSync' /\ ClockAhead' /\ LogOrdered' /\ RequestAhead'
      /\ RequestExists' /\ RowShape' /\ RowOwned' /\ SendRow' /\ LastRow'
      /\ CfgFromLog'
  BY <1>1, HandlerFrame, ConvFrame
<1>3. /\ pos[c] \in Nat /\ Len(log) \in Nat /\ pos[c] + 1 <= Len(log)
      /\ pos[c] + 1 \in 1..Len(log) /\ e \in Event
  BY DEF Receive, TypeOK
<1>4. /\ pos'[c] = pos[c] + 1 /\ hev'[c] = e
      /\ hpc'[c] = IF e.op = "deploy" THEN "fetch" ELSE "read"
      /\ \A x \in Controllers \ {c} :
           hpc'[x] = hpc[x] /\ hev'[x] = hev[x] /\ pos'[x] = pos[x]
  BY DEF Receive, TypeOK
<1>5. InHand'
  <2>1. ASSUME NEW x \in Controllers
        PROVE  /\ pos'[x] <= Len(log')
               /\ hpc'[x] \in {"fetch", "read", "save"} =>
                    pos'[x] > 0 /\ hev'[x] = log'[pos'[x]]
               /\ hpc'[x] = "fetch" => hev'[x].op = "deploy"
               /\ hpc'[x] = "read" => hev'[x].op = "undeploy"
    <3>1. CASE x = c
      <4>1. e.op = "deploy" \/ e.op = "undeploy"
        BY <1>3 DEF Event
      <4> QED
        BY <1>1, <1>3, <1>4, <3>1, <4>1
    <3>2. CASE x # c
      BY <1>1, <1>4, <3>2 DEF ConvInv, InHand
    <3> QED
      BY <3>1, <3>2
  <2> QED
    BY <2>1 DEF InHand
<1>6. LastContent'
  <2>1. \A x \in Controllers :
          hpc'[x] = "save" =>
            hpc[x] = "save" /\ pos'[x] = pos[x] /\ hdata'[x] = hdata[x]
    BY <1>1, <1>4
  <2>2. RowOfLast' = RowOfLast /\ Last' = Last
    BY <1>1 DEF RowOfLast, Last
  <2> QED
    BY <1>1, <2>1, <2>2 DEF ConvInv, LastContent
<1>7. LastSettles'
  <2>1. Behind(c)'
    BY <1>4 DEF Behind
  <2> QED
    BY <2>1 DEF LastSettles
<1> QED
  BY <1>2, <1>5, <1>6, <1>7 DEF ConvInv

(* A handler refuses its event: if that is the last one, its refusal is on *)
(* its way.                                                                *)
LEMMA RefusalSettles ==
  ASSUME TypeOK, ConfirmInv, ConvInv, NEW c \in Controllers,
         hpc[c] \in {"fetch", "read", "save"}, SendAck(c, FALSE),
         UNCHANGED <<pos, log>>
  PROVE  LastSettles'
<1>1. CASE pos[c] < Len(log)
  BY <1>1 DEF LastSettles, Behind
<1>2. CASE ~(pos[c] < Len(log))
  <2>1. hev[c] = Last /\ Last' = Last
    BY <1>2, HandFacts DEF Last
  <2> DEFINE a == [ctrl |-> c, op |-> hev[c].op, dep |-> hev[c].dep,
                   at |-> hev[c].at, ok |-> FALSE]
  <2>2. a \in acks' /\ a.at = Last'.at /\ ~a.ok
    BY <2>1 DEF SendAck
  <2>3. Refused'
    BY <2>2 DEF Refused
  <2> QED
    BY <2>3 DEF LastSettles
<1> QED
  BY <1>1, <1>2

(* Content is fetched, or the event refused.                               *)
LEMMA ConvFetch ==
  ASSUME Sequential, TypeOK, ConfirmInv, ConvInv, NEW c \in Controllers,
         Fetch(c)
  PROVE  ConvInv'
<1> USE DEF cpVars, reqVars, handVars, syncVars, history, Sequential
<1>1. /\ hpc[c] = "fetch"
      /\ UNCHANGED <<now, deps, st, rpc, rop, rdep, rat, log, stamped, spc,
                     cfg, pos, faults>>
  BY DEF Fetch
<1>2. /\ NoSync' /\ ClockAhead' /\ LogOrdered' /\ RequestAhead'
      /\ RequestExists' /\ RowShape' /\ RowOwned' /\ SendRow' /\ LastRow'
      /\ CfgFromLog'
  BY <1>1, HandlerFrame, ConvFrame
<1>3. CASE SendAck(c, FALSE) /\ Idle(c)
  <2>1. InHand' /\ LastContent' /\ LastSettles'
    BY <1>1, <1>3, InHandIdle, ContentIdle, RefusalSettles
  <2> QED
    BY <1>2, <2>1 DEF ConvInv
<1>4. CASE /\ hdata' = [hdata EXCEPT ![c] = st.dep]
           /\ hpc' = [hpc EXCEPT ![c] = "save"]
           /\ UNCHANGED <<acks, hev>>
  <2>1. /\ hdata'[c] = st.dep /\ hpc'[c] = "save"
        /\ \A x \in Controllers \ {c} :
             hpc'[x] = hpc[x] /\ hdata'[x] = hdata[x]
    BY <1>4 DEF TypeOK
  <2>2. InHand'
    BY <1>1, <1>4, <2>1 DEF ConvInv, InHand
  <2>3. LastContent'
    <3>1. RowOfLast' = RowOfLast /\ Last' = Last
      BY <1>1 DEF RowOfLast, Last
    <3>2. faults = 0 /\ RowOfLast => st.dep = Last.dep
      BY DEF ConvInv, LastRow
    <3> QED
      BY <1>1, <2>1, <3>1, <3>2 DEF ConvInv, LastContent
  <2>4. LastSettles'
    <3>1. Behind(c)'
      BY <2>1 DEF Behind
    <3> QED
      BY <3>1 DEF LastSettles
  <2> QED
    BY <1>2, <2>2, <2>3, <2>4 DEF ConvInv
<1> QED
  BY <1>3, <1>4 DEF Fetch

(* The row to undeploy is read: absent, of another deployment, or read.    *)
LEMMA ConvRead ==
  ASSUME Sequential, TypeOK, ConfirmInv, ConvInv, NEW c \in Controllers,
         Read(c)
  PROVE  ConvInv'
<1> USE DEF cpVars, reqVars, handVars, syncVars, history, Sequential
<1>1. /\ hpc[c] = "read"
      /\ UNCHANGED <<now, deps, st, rpc, rop, rdep, rat, log, stamped, spc,
                     cfg, pos, faults>>
  BY DEF Read
<1>2. /\ NoSync' /\ ClockAhead' /\ LogOrdered' /\ RequestAhead'
      /\ RequestExists' /\ RowShape' /\ RowOwned' /\ SendRow' /\ LastRow'
      /\ CfgFromLog'
  BY <1>1, HandlerFrame, ConvFrame
<1>3. hev[c].op = "undeploy"
  BY <1>1 DEF ConvInv, InHand
<1>4. CASE SendAck(c, FALSE) /\ Idle(c)
  <2>1. InHand' /\ LastContent' /\ LastSettles'
    BY <1>1, <1>4, InHandIdle, ContentIdle, RefusalSettles
  <2> QED
    BY <1>2, <2>1 DEF ConvInv
<1>5. CASE cfg = NoCfg /\ Idle(c)
  <2>1. InHand' /\ LastContent'
    BY <1>1, <1>5, InHandIdle, ContentIdle
  <2>2. LastSettles'
    <3>1. CASE pos[c] < Len(log)
      BY <1>1, <3>1 DEF LastSettles, Behind
    <3>2. CASE ~(pos[c] < Len(log))
      <4>1. Last'.op = "undeploy" /\ cfg' = NoCfg
        BY <1>1, <1>3, <1>5, <3>2, HandFacts DEF Last
      <4> QED
        BY <4>1 DEF LastSettles
    <3> QED
      BY <3>1, <3>2
  <2> QED
    BY <1>2, <2>1, <2>2 DEF ConvInv
<1>6. CASE /\ hdata' = [hdata EXCEPT ![c] = cfg.content]
           /\ hpc' = [hpc EXCEPT ![c] = "save"]
           /\ UNCHANGED hev
  <2>1. /\ hpc'[c] = "save"
        /\ \A x \in Controllers \ {c} :
             hpc'[x] = hpc[x] /\ hdata'[x] = hdata[x]
    BY <1>6 DEF TypeOK
  <2>2. InHand'
    BY <1>1, <1>6, <2>1 DEF ConvInv, InHand
  <2>3. LastContent'
    <3>1. RowOfLast' = RowOfLast /\ Last' = Last
      BY <1>1 DEF RowOfLast, Last
    <3>2. pos[c] = Len(log) => Last.op = "undeploy"
      <4>1. hev[c] = log[pos[c]]
        BY <1>1, HandFacts
      <4> QED
        BY <1>3, <4>1 DEF Last
    <3> QED
      BY <1>1, <2>1, <3>1, <3>2 DEF ConvInv, LastContent
  <2>4. LastSettles'
    <3>1. Behind(c)'
      BY <2>1 DEF Behind
    <3> QED
      BY <3>1 DEF LastSettles
  <2> QED
    BY <1>2, <2>2, <2>3, <2>4 DEF ConvInv
<1> QED
  BY <1>4, <1>5, <1>6 DEF Read

(* The guarded write: after it the gateway's row is at least as new as the *)
(* event, and thus the last event's if that was in hand.                   *)
LEMMA ConvSave ==
  ASSUME Sequential, TypeOK, ConfirmInv, ConvInv, NEW c \in Controllers,
         Save(c)
  PROVE  ConvInv'
<1> USE DEF cpVars, reqVars, handVars, syncVars, history, Sequential
<1>1. /\ hpc[c] = "save" /\ Idle(c)
      /\ UNCHANGED <<now, deps, st, rpc, rop, rdep, rat, log, stamped, spc,
                     pos, faults>>
  BY DEF Save
<1>2. /\ NoSync' /\ ClockAhead' /\ LogOrdered' /\ RequestAhead'
      /\ RequestExists' /\ RowShape' /\ RowOwned' /\ SendRow' /\ LastRow'
      /\ InHand'
  BY <1>1, HandlerFrame, InHandIdle
<1>3. /\ pos[c] \in 1..Len(log) /\ hev[c] = log[pos[c]] /\ hev[c] \in Event
      /\ Len(log) > 0
      /\ ~(pos[c] < Len(log)) => hev[c] = Last /\ pos[c] = Len(log)
  BY <1>1, HandFacts
<1>4. /\ Last \in Event
      /\ \A i \in 1..Len(log) : /\ log[i].at <= Last.at
                                /\ log[i].at = Last.at => i = Len(log)
  BY <1>3, LastFacts DEF ConvInv
<1>5. RowOfLast' = RowOfLast /\ Last' = Last
  BY <1>1 DEF RowOfLast, Last
<1>6. pos[c] < Len(log) => LastSettles'
  BY <1>1 DEF LastSettles, Behind
<1>7. CASE cfg' = [state |-> StateOf(hev[c].op), dep |-> hev[c].dep,
                   content |-> hdata[c], at |-> hev[c].at]
  <2>1. /\ cfg'.state = StateOf(hev[c].op) /\ cfg'.dep = hev[c].dep
        /\ cfg'.content = hdata[c] /\ cfg'.at = hev[c].at
    BY <1>7
  <2>2. cfg' # NoCfg
    BY <2>1 DEF NoCfg, StateOf
  <2>3. CfgFromLog'
    BY <1>1, <1>3, <2>1 DEF CfgFromLog
  <2>4. LastContent'
    <3>1. cfg'.at = Last.at => pos[c] = Len(log)
      BY <1>3, <1>4, <2>1
    <3>2. \A x \in Controllers :
            hpc'[x] = "save" => hpc[x] = "save" /\ hdata'[x] = hdata[x]
      BY <1>1, IdleFacts
    <3> QED
      BY <1>1, <1>5, <2>1, <3>1, <3>2 DEF ConvInv, LastContent
  <2>5. LastSettles'
    BY <1>3, <1>5, <1>6, <2>1, <2>2 DEF LastSettles
  <2> QED
    BY <1>2, <2>3, <2>4, <2>5 DEF ConvInv
<1>8. CASE ~Newer(hev[c].at) /\ cfg' = cfg
  <2>1. CfgFromLog' /\ LastContent'
    BY <1>1, <1>8, ConvFrame, ContentIdle
  <2>2. LastSettles'
    <3>1. CASE ~(pos[c] < Len(log))
      <4>1. cfg # NoCfg /\ ~(cfg.at < Last.at)
        BY <1>3, <1>8, <3>1 DEF Newer
      <4>2. PICK i \in 1..Len(log) : cfg.at = log[i].at
        BY <4>1 DEF ConvInv, CfgFromLog
      <4>3. cfg.at \in Nat /\ Last.at \in Nat /\ cfg.at <= Last.at
        BY <1>4, <4>2 DEF TypeOK, Cfg, Event
      <4>4. cfg.at = Last.at
        BY <4>1, <4>3
      <4> QED
        BY <1>5, <1>8, <4>1, <4>4 DEF LastSettles
    <3> QED
      BY <1>6, <3>1
  <2> QED
    BY <1>2, <2>1, <2>2 DEF ConvInv
<1> QED
  BY <1>7, <1>8 DEF Save, StateOf

(* A connection, its loss, a failed call and a restart: but for the first  *)
(* connection, which moves nothing, these are faults.                      *)
LEMMA ConvConnection ==
  ASSUME Sequential, TypeOK, ConfirmInv, ConvInv, NEW c \in Controllers,
         Connect(c) \/ Disconnect(c) \/ HandleError(c) \/ Restart(c)
  PROVE  ConvInv'
<1> USE DEF cpVars, reqVars, handVars, syncVars, history, Sequential
<1>1. UNCHANGED <<now, deps, st, rpc, rop, rdep, rat, log, stamped, cfg>>
  BY DEF Connect, Disconnect, HandleError, Restart
<1>2. NoSync'
  <2>1. ASSUME NEW x \in Controllers
        PROVE  spc'[x] \in {"new", "done"}
    <3>1. spc[x] \in {"new", "done"}
      BY DEF ConvInv, NoSync
    <3>2. CASE Connect(c)
      BY <3>1, <3>2 DEF Connect, TypeOK
    <3>3. CASE Restart(c)
      BY <3>1, <3>3 DEF Restart, TypeOK
    <3>4. CASE UNCHANGED spc
      BY <3>1, <3>4
    <3> QED
      BY <3>2, <3>3, <3>4 DEF Disconnect, HandleError
  <2> QED
    BY <2>1 DEF NoSync
<1>3. /\ ClockAhead' /\ LogOrdered' /\ RequestAhead' /\ RequestExists'
      /\ RowShape' /\ CfgFromLog'
  BY <1>1, ConvFrame
<1>4. /\ hpc'[c] \in {"off", "idle"}
      /\ \A x \in Controllers \ {c} :
           hpc'[x] = hpc[x] /\ hev'[x] = hev[x] /\ pos'[x] = pos[x]
      /\ pos'[c] = pos[c] \/ pos'[c] \in 0..Len(log)
  <2>1. CASE Connect(c)
    <3>1. PICK p \in 0..Len(log) : pos' = [pos EXCEPT ![c] = p]
      BY <2>1 DEF Connect
    <3>2. hpc' = [hpc EXCEPT ![c] = "idle"] /\ hev' = hev
      BY <2>1 DEF Connect
    <3> QED
      BY <3>1, <3>2 DEF TypeOK
  <2>2. CASE Disconnect(c)
    BY <2>2 DEF Disconnect, TypeOK
  <2>3. CASE HandleError(c)
    BY <2>3, IdleFacts DEF HandleError
  <2>4. CASE Restart(c)
    BY <2>4 DEF Restart, TypeOK
  <2> QED
    BY <2>1, <2>2, <2>3, <2>4
<1>5. InHand'
  <2>1. ASSUME NEW x \in Controllers
        PROVE  /\ pos'[x] <= Len(log')
               /\ hpc'[x] \in {"fetch", "read", "save"} =>
                    pos'[x] > 0 /\ hev'[x] = log'[pos'[x]]
               /\ hpc'[x] = "fetch" => hev'[x].op = "deploy"
               /\ hpc'[x] = "read" => hev'[x].op = "undeploy"
    <3>1. pos[x] <= Len(log) /\ Len(log) \in Nat
      BY DEF ConvInv, InHand, TypeOK
    <3>2. CASE x = c
      BY <1>1, <1>4, <3>1, <3>2
    <3>3. CASE x # c
      BY <1>1, <1>4, <3>3 DEF ConvInv, InHand
    <3> QED
      BY <3>2, <3>3
  <2> QED
    BY <2>1 DEF InHand
<1>6. CASE Fault
  BY <1>2, <1>3, <1>5, <1>6, FaultExcuses DEF ConvInv
<1>7. CASE Connect(c) /\ ~Fault
  <2>1. UNCHANGED <<pos, faults, acks, hdata>>
    BY <1>7 DEF Connect, TypeOK
  <2>2. /\ hpc[c] = "off" /\ hpc'[c] = "idle"
        /\ \A x \in Controllers \ {c} : hpc'[x] = hpc[x]
    BY <1>7 DEF Connect, TypeOK
  <2>3. /\ RowOwned' /\ SendRow' /\ LastRow'
    BY <1>1, <2>1, ConvFrame
  <2>4. RowOfLast' = RowOfLast /\ Last' = Last /\ Refused' = Refused
    BY <1>1, <2>1 DEF RowOfLast, Last, Refused
  <2>5. LastContent'
    <3>1. \A x \in Controllers : hpc'[x] = "save" => hpc[x] = "save"
      BY <2>2
    <3> QED
      BY <1>1, <2>1, <2>4, <3>1 DEF ConvInv, LastContent
  <2>6. LastSettles'
    <3>1. \A x \in Controllers : Behind(x) => Behind(x)'
      BY <1>1, <2>1, <2>2 DEF Behind
    <3> QED
      BY <1>1, <2>1, <2>4, <3>1 DEF ConvInv, LastSettles
  <2> QED
    BY <1>2, <1>3, <1>5, <2>3, <2>5, <2>6 DEF ConvInv
<1> QED
  BY <1>6, <1>7 DEF Disconnect, HandleError, Restart

LEMMA ConvHandler ==
  ASSUME Sequential, TypeOK, ConfirmInv, ConvInv, NEW c \in Controllers,
         HandlerStep(c)
  PROVE  ConvInv'
  BY ConvReceive, ConvFetch, ConvRead, ConvSave, ConvConnection
     DEF HandlerStep

LEMMA ConvInit == Sequential /\ Init => ConvInv
<1>1. ASSUME Sequential, Init PROVE ConvInv
  <2>1. /\ st = NoRow /\ cfg = NoCfg /\ log = <<>> /\ Len(log) = 0
        /\ stamped = {} /\ rpc[Q] = "idle"
    BY <1>1, OnlyQ DEF Init, Sequential
  <2>2. /\ \A c \in Controllers : /\ spc[c] = "new" /\ pos[c] = 0
                                  /\ hpc[c] = "off"
    BY <1>1 DEF Init
  <2>3. NoSync /\ ClockAhead /\ LogOrdered /\ RequestAhead /\ InHand
    BY <2>1, <2>2 DEF NoSync, ClockAhead, LogOrdered, RequestAhead, InHand
  <2>4. CfgFromLog /\ RequestExists /\ RowShape /\ RowOwned /\ SendRow
    BY <2>1 DEF CfgFromLog, RequestExists, RowShape, RowOwned, SendRow
  <2>5. ~RowOfLast
    BY <2>1 DEF RowOfLast
  <2>6. LastRow /\ LastContent /\ LastSettles
    BY <2>5 DEF LastRow, LastContent, LastSettles
  <2> QED
    BY <2>3, <2>4, <2>6 DEF ConvInv
<1> QED
  BY <1>1

LEMMA ConvNext ==
  ASSUME Sequential, TypeOK, ConfirmInv, ConvInv, [Next]_vars
  PROVE  ConvInv'
<1>1. CASE UNCHANGED vars
  BY <1>1, ConvFrame
     DEF ConvInv, vars, cpVars, reqVars, handVars, syncVars, history
<1>2. CASE Tick
  <2>1. ClockAhead'
    <3>1. /\ Trunc(now) <= Trunc(now + 1) /\ Trunc(now) \in Nat
          /\ Trunc(now + 1) \in Nat
      <4>1. now \in Nat /\ now + 1 \in Nat
        BY DEF TypeOK
      <4> QED
        BY <4>1, TruncGrows, TruncNat
    <3>2. Trunc(now)' = Trunc(now + 1) /\ stamped' = stamped
      BY <1>2 DEF Tick, history
    <3>3. \A e \in stamped : e.at \in Nat
      BY DEF TypeOK, Event
    <3> QED
      BY <3>1, <3>2, <3>3 DEF ConvInv, ClockAhead
  <2> QED
    BY <1>2, <2>1, ConvFrame
       DEF ConvInv, Tick, cpVars, reqVars, handVars, syncVars, history
<1>3. ASSUME NEW c \in Controllers, SyncStep(c) PROVE FALSE
  BY <1>3 DEF ConvInv, NoSync, SyncStep, SyncList, SyncDiff, SyncFetch,
              SyncRead, SyncSave, SyncError
<1> QED
  BY <1>1, <1>2, <1>3, ConvRequest, ConvAnswer, ConvHandler DEF Next

(* With nothing under way, the row is the last event's and no controller   *)
(* is behind it.                                                           *)
LEMMA QuietConverged ==
  ASSUME Sequential, TypeOK, ConfirmInv, ConvInv, Quiet, faults = 0
  PROVE  Converged
<1>1. rpc[Q] = "idle" /\ acks = {} /\ \A c \in Controllers : ~Behind(c)
  <2>1. \A c \in Controllers : ~(Len(log) < Len(log))
    BY DEF TypeOK
  <2> QED
    BY <2>1, OnlyQ DEF Quiet, Sequential, Behind
<1>2. CASE st.status \notin {"DEPLOYED", "UNDEPLOYED"}
  BY <1>2 DEF Converged
<1>3. CASE st.status \in {"DEPLOYED", "UNDEPLOYED"}
  <2>1. RowOfLast
    BY <1>1, <1>3 DEF ConvInv, RowOwned, NoRow
  <2>2. /\ st.dep = Last.dep /\ st.at = Last.at /\ Len(log) > 0
        /\ st.desired = Desired(Last.op)
    BY <2>1 DEF ConvInv, LastRow, RowOfLast
  <2>3. \/ cfg # NoCfg /\ cfg.at = Last.at
        \/ cfg = NoCfg /\ Last.op = "undeploy"
    BY <1>1, <1>3, <2>1 DEF ConvInv, LastSettles, Refused
  <2>4. st.desired = st.status
    BY <1>3, <2>1 DEF ConvInv, RowShape, RowOfLast
  <2>5. /\ Last \in Event
        /\ \A i \in 1..Len(log) : log[i].at = Last.at => i = Len(log)
    BY <2>2, LastFacts DEF ConvInv
  <2>6. cfg # NoCfg /\ cfg.at = Last.at =>
          cfg.dep = Last.dep /\ cfg.state = StateOf(Last.op)
    <3>1. SUFFICES ASSUME cfg # NoCfg, cfg.at = Last.at
                   PROVE  cfg.dep = Last.dep /\ cfg.state = StateOf(Last.op)
      OBVIOUS
    <3>2. PICK i \in 1..Len(log) : /\ cfg.at = log[i].at
                                   /\ cfg.dep = log[i].dep
                                   /\ cfg.state = StateOf(log[i].op)
      BY <3>1 DEF ConvInv, CfgFromLog
    <3>3. i = Len(log)
      BY <2>5, <3>1, <3>2
    <3> QED
      BY <3>2, <3>3 DEF Last
  <2>7. CASE st.status = "DEPLOYED"
    <3>1. Last.op = "deploy"
      BY <2>2, <2>4, <2>5, <2>7 DEF Desired, Event
    <3>2. cfg # NoCfg /\ cfg.at = Last.at
      BY <2>3, <3>1
    <3>3. cfg.content = Last.dep
      BY <2>1, <3>1, <3>2 DEF ConvInv, LastContent
    <3>4. /\ cfg.state = "deployed" /\ cfg.dep = st.dep
          /\ cfg.content = st.dep /\ cfg.at = st.at
      BY <2>2, <2>6, <3>1, <3>2, <3>3 DEF StateOf
    <3>5. cfg = [state |-> "deployed", dep |-> st.dep, content |-> st.dep,
                 at |-> st.at]
      BY <3>4 DEF TypeOK, Cfg
    <3> QED
      BY <2>7, <3>5 DEF Converged
  <2>8. CASE st.status = "UNDEPLOYED"
    <3>1. Last.op = "undeploy"
      BY <2>2, <2>4, <2>8 DEF Desired
    <3>2. cfg.state # "deployed"
      BY <2>3, <2>6, <3>1 DEF StateOf, NoCfg
    <3> QED
      BY <2>8, <3>2 DEF Converged
  <2> QED
    BY <1>3, <2>7, <2>8
<1> QED
  BY <1>2, <1>3

(* Once everything is handled and nothing failed, a settled status of the  *)
(* platform API describes what the gateway runs, content included: for any *)
(* number of controllers sharing the gateway's database, any number of     *)
(* operations and deployments, with and without transitional statuses,     *)
(* when requests follow one another with distinct performed_at and there   *)
(* is no bulk sync.                                                        *)
THEOREM GatewayConverges ==
  ASSUME Sequential
  PROVE  Spec => []ConvergedWhenQuiet
<1>1. Init => ConvInv
  BY ConvInit
<1>2. TypeOK /\ ConfirmInv /\ ConvInv /\ [Next]_vars => ConvInv'
  BY ConvNext
<1>3. TypeOK /\ ConfirmInv /\ [Next]_vars => ConfirmInv'
  BY ConfirmNext DEF Sequential
<1>4. TypeOK /\ ConfirmInv /\ ConvInv => ConvergedWhenQuiet
  BY QuietConverged DEF ConvergedWhenQuiet
<1> QED
  BY <1>1, <1>2, <1>3, <1>4, ConfirmInit, DeploymentTypeCorrect, PTL DEF Spec
=============================================================================
