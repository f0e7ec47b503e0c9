-------------------------- MODULE JujuProvisioner --------------------------
(* tsuru's juju provisioner (provision/juju/provisioner.go, queue.go) with  *)
(* its ELB router (router/elb/router.go), for one app. juju gives a unit a  *)
(* machine at once and the machine its EC2 instance later, so who goes into *)
(* the load balancer is settled in three places: the handler of the         *)
(* add-unit-to-lb messages, the goroutine that every CollectStatus starts   *)
(* (heal), and the requests. They agree on nothing but the units            *)
(* collection, and read juju, the app's document and the balancer at        *)
(* different times.                                                         *)
EXTENDS Naturals, FiniteSets

CONSTANTS Unit,       \* units in the order juju makes them, 1 .. n
          MaxGens,    \* instances a machine may have, one after the other
          MaxHeals,   \* runs of heal at a time
          MaxOps,     \* requests and collections
          Faults,     \* "status", "juju", "elb": calls that may fail
          Calm,       \* see Settled
          None

VARIABLES service,    \* the app in juju: "none", "deployed", "destroyed"
          units,      \* the app's units in juju
          added,      \* units made so far
          machine,    \* a unit's EC2 instance, 0 while it is pending
          killed,     \* units whose machine is terminated
          balancer,   \* the instances in the app's load balancer, or None
          doc,        \* the app's document: the instance it has for a unit
          coll,       \* the units collection
          queue,      \* add-unit-to-lb messages, {} for all units
          handler, heals, req, ops

juju == <<service, units, added, machine, killed>>
vars == <<juju, balancer, doc, coll, queue, handler, heals, req, ops>>

Idle == [at |-> "idle", us |-> {}, snap |-> <<>>]
NoRequest == [at |-> "idle", op |-> "none", us |-> {}]
Pending == 0

Init ==
    /\ service = "none" /\ units = {} /\ added = 0
    /\ machine = [u \in Unit |-> Pending] /\ killed = {}
    /\ balancer = None
    /\ doc = [u \in Unit |-> None] /\ coll = [u \in Unit |-> None]
    /\ queue = {} /\ handler = Idle
    /\ heals = [h \in 1 .. MaxHeals |-> Idle]
    /\ req = NoRequest /\ ops = 0

(***************************************************************************)
(* The load balancer: EC2 knows an instance from its boot to its end.      *)
(***************************************************************************)
Fails(what) == IF what \in Faults THEN BOOLEAN ELSE {FALSE}
Exists(u, i) == i # Pending /\ machine[u] = i /\ u \notin killed

CanAdd(u, i) == balancer # None /\ Exists(u, i)
AddRoute(u, i) == balancer' = balancer \cup {<<u, i>>}
RemoveRoute(u, i) == balancer' = IF balancer = None THEN None ELSE balancer \ {<<u, i>>}

(***************************************************************************)
(* juju and EC2                                                            *)
(***************************************************************************)
NoHealOf(u) == \A h \in DOMAIN heals : u \notin heals[h].us

(* Calm: what nobody looks at changes, and requests wait for what is under *)
(* way and for the collector.                                              *)
Settled(u) == NoHealOf(u) /\ u \notin handler.us /\ (\A m \in queue : m # {} /\ u \notin m)

Boots(u) ==
    /\ u \in units /\ machine[u] = Pending
    /\ machine' = [machine EXCEPT ![u] = 1]
    /\ UNCHANGED <<service, units, added, killed, balancer, doc, coll, queue, handler, heals, req, ops>>

(* The instance is lost and juju starts another one for the machine. *)
Replaced(u) ==
    /\ u \in units /\ machine[u] \in 1 .. MaxGens - 1
    /\ Calm => Settled(u) /\ coll[u] = machine[u] /\ req = NoRequest
    /\ machine' = [machine EXCEPT ![u] = @ + 1]
    /\ UNCHANGED <<service, units, added, killed, balancer, doc, coll, queue, handler, heals, req, ops>>

(***************************************************************************)
(* queue.go                                                                *)
(***************************************************************************)
(* handle: juju status, then what becomes of the message. Without a status *)
(* the message stays reserved and comes back when its time is over.        *)
Receive(m) ==
    /\ handler = Idle /\ m \in queue
    /\ \E failed \in Fails("status") :
         LET mine == IF m = {} THEN units ELSE units \cap m
             noID == {u \in mine : machine[u] = Pending}
         IN  /\ IF failed \/ (mine # {} /\ noID = mine)
                THEN UNCHANGED <<queue, handler>>      \* still reserved, or released
                ELSE /\ handler' = IF mine = {} THEN Idle
                                   ELSE [at |-> "route", us |-> mine, snap |-> [u \in mine |-> machine[u]]]
                     /\ queue' = queue \ {m}
    /\ UNCHANGED <<juju, balancer, doc, coll, heals, req, ops>>

(* The routes of all units, of those without an instance too; errors are   *)
(* not looked at.                                                          *)
HandlerRoutes(u) ==
    /\ handler.at = "route" /\ u \in handler.us
    /\ \E failed \in Fails("elb") :
         IF ~failed /\ CanAdd(u, handler.snap[u]) THEN AddRoute(u, handler.snap[u]) ELSE UNCHANGED balancer
    /\ handler' = [handler EXCEPT !.us = @ \ {u}]
    /\ UNCHANGED <<juju, doc, coll, queue, heals, req, ops>>

RequeueMutant == handler.at = "route" /\ handler.us = {} /\ handler' = Idle
                 /\ UNCHANGED <<juju, balancer, doc, coll, heals, req, ops, queue>>

(* The units without an instance are put back in a message of their own. *)
Requeue ==
    /\ handler.at = "route" /\ handler.us = {}
    /\ handler' = Idle
    /\ LET noID == {u \in DOMAIN handler.snap : handler.snap[u] = Pending}
       IN  queue' = IF noID = {} THEN queue ELSE queue \cup {noID}
    /\ UNCHANGED <<juju, balancer, doc, coll, heals, req, ops>>

(***************************************************************************)
(* CollectStatus and heal                                                  *)
(***************************************************************************)
(* The collector writes what juju says into the app's document, and a      *)
(* goroutine of its own looks for instances that changed.                  *)
CollectStatus(h) ==
    /\ ops < MaxOps /\ ops' = ops + 1
    /\ service = "deployed" /\ heals[h] = Idle
    /\ Calm => req = NoRequest /\ \A k \in DOMAIN heals : heals[k] = Idle
    /\ doc' = [u \in Unit |-> IF u \in units THEN machine[u] ELSE None]
    /\ heals' = [heals EXCEPT ![h] = IF units = {} THEN Idle
                   ELSE [at |-> "look", us |-> units, snap |-> [u \in units |-> machine[u]]]]
    /\ UNCHANGED <<juju, balancer, coll, queue, handler, req>>

Goes(h, at) == heals' = [heals EXCEPT ![h].at = at]
Done(h, u) == heals' = [heals EXCEPT ![h] = IF @.us = {u} THEN Idle ELSE [@ EXCEPT !.at = "look", !.us = @ \ {u}]]

Looks(h, u) ==
    /\ heals[h].at = "look" /\ u \in heals[h].us
    /\ \A v \in heals[h].us : u <= v
    /\ LET now == heals[h].snap[u]
       IN  \/ coll[u] = None /\ coll' = [coll EXCEPT ![u] = now] /\ Done(h, u)
           \/ coll[u] = now /\ Done(h, u) /\ UNCHANGED coll
           \/ coll[u] \notin {None, now} /\ Goes(h, "drop") /\ UNCHANGED coll
    /\ UNCHANGED <<juju, balancer, doc, queue, handler, req, ops>>

First(h) == CHOOSE u \in heals[h].us : \A v \in heals[h].us : u <= v

DropsOld(h) ==
    /\ heals[h].at = "drop"
    /\ \E failed \in Fails("elb") :
         IF failed \/ coll[First(h)] = None THEN UNCHANGED balancer ELSE RemoveRoute(First(h), coll[First(h)])
    /\ Goes(h, "add")
    /\ UNCHANGED <<juju, doc, coll, queue, handler, req, ops>>

AddsNewMutant(h) == heals[h].at = "add" /\ Goes(h, "save")
                    /\ UNCHANGED <<balancer, juju, doc, coll, queue, handler, req, ops>>

(* Without the new route the collection keeps the old instance, and the    *)
(* next heal tries again.                                                  *)
AddsNew(h) ==
    /\ heals[h].at = "add"
    /\ LET u == First(h)  i == heals[h].snap[u]
       IN  \E failed \in Fails("elb") :
           IF ~failed /\ CanAdd(u, i)
           THEN AddRoute(u, i) /\ Goes(h, "save")
           ELSE Done(h, u) /\ UNCHANGED balancer
    /\ UNCHANGED <<juju, doc, coll, queue, handler, req, ops>>

(* UpdateId does nothing when the unit was removed meanwhile. *)
Saves(h) ==
    /\ heals[h].at = "save"
    /\ LET u == First(h)
       IN  /\ coll' = IF coll[u] = None THEN coll ELSE [coll EXCEPT ![u] = heals[h].snap[u]]
           /\ Done(h, u)
    /\ UNCHANGED <<juju, balancer, doc, queue, handler, req, ops>>

(***************************************************************************)
(* Requests                                                                *)
(***************************************************************************)
Begins(op, us) == /\ req = NoRequest /\ ops < MaxOps /\ ops' = ops + 1
                  /\ req' = [at |-> "juju", op |-> op, us |-> us]
Goes2(at) == req' = [req EXCEPT !.at = at]

(* juju deploy makes the first unit. *)
Provision ==
    /\ service = "none" /\ Begins("deploy", {1})
    /\ service' = "deployed" /\ units' = {1} /\ added' = 1
    /\ UNCHANGED <<machine, killed, balancer, doc, coll, queue, handler, heals>>

(* AddBackend looks at no error of CreateLoadBalancer. *)
AddBackend ==
    /\ req.op = "deploy" /\ req.at = "juju"
    /\ balancer' = {} /\ Goes2("queue")
    /\ UNCHANGED <<juju, doc, coll, queue, handler, heals, ops>>

AddUnits(n) ==
    /\ service = "deployed" /\ added + n <= Cardinality(Unit)
    /\ Begins("add", added + 1 .. added + n)
    /\ units' = units \cup (added + 1 .. added + n) /\ added' = added + n
    /\ UNCHANGED <<service, machine, killed, balancer, doc, coll, queue, handler, heals>>

EnqueueUnits ==
    /\ <<req.op, req.at>> \in {<<"deploy", "queue">>, <<"add", "juju">>}
    /\ queue' = queue \cup {IF req.op = "add" THEN req.us ELSE {}}
    /\ req' = NoRequest
    /\ UNCHANGED <<juju, balancer, doc, coll, handler, heals, ops>>

(* A unit that the document knows; five tries, then the request fails. *)
RemoveUnit(u) ==
    /\ doc[u] # None /\ service = "deployed"
    /\ Calm => Settled(u) /\ doc[u] = machine[u] /\ coll[u] = machine[u]
    /\ \E failed \in Fails("juju") :
         IF failed THEN ops < MaxOps /\ ops' = ops + 1 /\ UNCHANGED <<units, req>> /\ req = NoRequest
         ELSE Begins("remove", {u}) /\ units' = units \ {u}
    /\ UNCHANGED <<service, added, machine, killed, balancer, doc, coll, queue, handler, heals>>

(* The route of the instance that the document has; its error is lost in   *)
(* a shadowed variable.                                                    *)
RemovesRoute ==
    /\ req.op = "remove" /\ req.at = "juju"
    /\ \A u \in req.us : \E failed \in Fails("elb") :
         IF failed THEN UNCHANGED balancer ELSE RemoveRoute(u, doc[u])
    /\ Goes2("rows")
    /\ UNCHANGED <<juju, doc, coll, queue, handler, heals, ops>>

DestroyService ==
    /\ service = "deployed" /\ Begins("destroy", {})
    /\ Calm => \A u \in units : Settled(u) /\ doc[u] # None
    /\ service' = "destroyed" /\ units' = {}
    /\ UNCHANGED <<added, machine, killed, balancer, doc, coll, queue, handler, heals>>

RemoveBackend ==
    /\ req.op = "destroy" /\ req.at = "juju"
    /\ \E failed \in Fails("elb") : balancer' = IF failed THEN balancer ELSE None
    /\ req' = [req EXCEPT !.at = "rows", !.us = {u \in Unit : doc[u] # None}]
    /\ UNCHANGED <<juju, doc, coll, queue, handler, heals, ops>>

DeleteRowsMutant ==
    /\ req.at = "rows"
    /\ Goes2("terminate")
    /\ UNCHANGED <<juju, coll, balancer, doc, queue, handler, heals, ops>>

(* deleteUnits, or the RemoveId of removeUnit *)
DeleteRows ==
    /\ req.at = "rows"
    /\ coll' = [u \in Unit |-> IF u \in req.us THEN None ELSE coll[u]]
    /\ Goes2("terminate")
    /\ UNCHANGED <<juju, balancer, doc, queue, handler, heals, ops>>

(* terminateMachines (a goroutine that the next request does not overtake  *)
(* here), and the app drops the units from its document.                   *)
Terminate ==
    /\ req.at = "terminate"
    /\ killed' = killed \cup req.us
    /\ doc' = [u \in Unit |-> IF u \in req.us THEN None ELSE doc[u]]
    /\ req' = NoRequest
    /\ UNCHANGED <<service, units, added, machine, balancer, coll, queue, handler, heals, ops>>

Healing(h) ==
    \/ DropsOld(h) \/ AddsNew(h) \/ Saves(h)
    \/ \E u \in Unit : Looks(h, u)

Handling ==
    \/ \E m \in queue : Receive(m)
    \/ \E u \in Unit : HandlerRoutes(u)
    \/ Requeue

Requesting ==
    \/ AddBackend \/ EnqueueUnits \/ RemovesRoute \/ RemoveBackend \/ DeleteRows \/ Terminate

Quiet == req = NoRequest /\ handler = Idle /\ \A h \in DOMAIN heals : heals[h] = Idle
Terminated == (ops = MaxOps \/ service = "destroyed") /\ Quiet /\ UNCHANGED vars

Next ==
    \/ \E u \in Unit : Boots(u) \/ Replaced(u) \/ RemoveUnit(u)
    \/ \E h \in 1 .. MaxHeals : CollectStatus(h) \/ Healing(h)
    \/ Handling \/ Requesting
    \/ Provision \/ DestroyService \/ \E n \in 1 .. 2 : AddUnits(n)
    \/ Terminated

Spec == Init /\ [][Next]_vars

(* The handler's loop, the goroutines and the requests go on, and EC2      *)
(* starts what it promised.                                                *)
Fairness ==
    /\ \A u \in Unit : WF_vars(Boots(u)) /\ WF_vars(HandlerRoutes(u))
    /\ WF_vars(\E m \in queue : Receive(m))
    /\ WF_vars(Requeue) /\ WF_vars(Requesting)
    /\ \A h \in 1 .. MaxHeals : WF_vars(Healing(h))
FairSpec == Spec /\ Fairness

(***************************************************************************)
(* Properties                                                              *)
(***************************************************************************)
Instances == {None} \cup 0 .. MaxGens

(* TypeOK: every variable keeps its type. *)
TypeOK ==
    /\ units \subseteq Unit /\ killed \subseteq Unit /\ added \in 0 .. Cardinality(Unit)
    /\ machine \in [Unit -> 0 .. MaxGens]
    /\ balancer = None \/ balancer \subseteq Unit \X (1 .. MaxGens)
    /\ doc \in [Unit -> Instances] /\ coll \in [Unit -> Instances]
    /\ queue \subseteq SUBSET Unit
    /\ req.us \subseteq Unit /\ ops \in 0 .. MaxOps

(* When nothing is under way and heal has seen every instance, the load    *)
(* balancer has exactly the instances of the app's units: handle, heal and *)
(* removeUnit leave no unit out and no dead instance in (checked with Calm *)
(* and no failing call).                                                   *)
RoutesFollow ==
    (Calm /\ Quiet /\ queue = {} /\ service = "deployed" /\ \A u \in units : coll[u] = machine[u]) =>
        balancer = {<<u, machine[u]>> : u \in {v \in units : machine[v] # Pending}}

(* What juju no longer has is not paid for and not remembered: its machine *)
(* is terminated and it has no row in the collection.                      *)
NothingLeft ==
    (Calm /\ Quiet) => \A u \in 1 .. added : u \in units \/ (u \in killed /\ coll[u] = None)

(* Whatever overlaps, no machine is terminated under a unit of juju.       *)
OnlyTheDeadDie == killed \cap units = {}

JujuSafe == RoutesFollow /\ NothingLeft /\ OnlyTheDeadDie

(* Every unit gets its route, however late EC2 starts its machine, unless  *)
(* it is removed first.                                                    *)
UnitsServed == \A u \in Unit : u \in units ~> (u \notin units \/ (balancer # None /\ <<u, machine[u]>> \in balancer))
=============================================================================
