------------------------------ MODULE EventLog ------------------------------
(***************************************************************************)
(* What the event hub promises: a log of events per gateway from which     *)
(* every replica reads forward, without a gap, from the place where it     *)
(* began.  The log is cut off at its old end and grows at its new one.     *)
(* There are no polls, pages, channels, versions or cursors here;          *)
(* EventHub implements this specification where write transactions are     *)
(* serial.                                                                 *)
(***************************************************************************)
EXTENDS Naturals

CONSTANTS Replicas, Gateways, EventIds

VARIABLES stored,  \* the events that can still be read
          taken,   \* per replica: events it has read and not passed on
          passed,  \* per replica: events it has passed on
          from     \* per replica and gateway: where its reading began

logVars == <<stored, taken, passed, from>>

LogEvent == [gw : Gateways, id : EventIds, ts : Nat]

StoredOf(g)    == {e \in stored : e.gw = g}
PassedOf(r, g) == {e \in passed[r] : e.gw = g}

LogInit ==
    /\ stored = {}
    /\ taken = [r \in Replicas |-> {}]
    /\ passed = [r \in Replicas |-> {}]
    /\ from = [r \in Replicas |-> [g \in Gateways |-> 0]]

(* An event enters at the new end.                                         *)
Enter(e) ==
    /\ e \in LogEvent
    /\ \A f \in stored : f.ts <= e.ts
    /\ stored' = stored \cup {e}
    /\ UNCHANGED <<taken, passed, from>>

(* The log loses its old end, whether it has been read or not.             *)
Expire ==
    /\ stored' \subseteq stored
    /\ \A e \in stored \ stored', f \in stored' : e.ts < f.ts
    /\ UNCHANGED <<taken, passed, from>>

(* A replica reads some events of a gateway.  Where its reading begins may *)
(* move until it has passed on the first of them.                          *)
Take(r, g) ==
    /\ \E evs \in SUBSET StoredOf(g) : taken' = [taken EXCEPT ![r] = evs]
    /\ \/ from' = from
       \/ /\ PassedOf(r, g) = {}
          /\ from'[r][g] \in Nat
          /\ from' = [from EXCEPT ![r][g] = from'[r][g]]
    /\ UNCHANGED <<stored, passed>>

(* It passes one on, and leaves behind no older one that is still there.   *)
Pass(r, e) ==
    /\ e \in taken[r]
    /\ e.ts >= from[r][e.gw]
    /\ \A f \in StoredOf(e.gw) :
         from[r][e.gw] <= f.ts /\ f.ts < e.ts => f \in passed[r]
    /\ taken' = [taken EXCEPT ![r] = @ \ {e}]
    /\ passed' = [passed EXCEPT ![r] = @ \cup {e}]
    /\ UNCHANGED <<stored, from>>

(* It gives up what it has read.                                           *)
Drop(r) ==
    /\ taken' = [taken EXCEPT ![r] = {}]
    /\ UNCHANGED <<stored, passed, from>>

(* It starts anew.                                                         *)
Reset(r) ==
    /\ taken' = [taken EXCEPT ![r] = {}]
    /\ passed' = [passed EXCEPT ![r] = {}]
    /\ from' = [from EXCEPT ![r] = [g \in Gateways |-> 0]]
    /\ UNCHANGED stored

LogNext ==
    \/ \E e \in stored' : Enter(e)
    \/ Expire
    \/ \E r \in Replicas :
          \/ \E g \in Gateways : Take(r, g)
          \/ \E e \in taken[r] : Pass(r, e)
          \/ Drop(r) \/ Reset(r)

LogSpec == LogInit /\ [][LogNext]_logVars
=============================================================================
