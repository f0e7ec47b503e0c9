--------------------------- MODULE MCPlatformLive ---------------------------
(*****************************************************************************)
(* What must eventually happen in tsuru: queued messages are dealt with,     *)
(* juju's units get their routes, and what breaks is healed.                 *)
(*****************************************************************************)
EXTENDS Healers, Integers, TLC

CONSTANTS m1, None, Parts

VARIABLES
    part,  \* the component that this behaviour is about
    state, adding, listed, loops, tube, work, preempt, unit, wrote, ran,
    excused, enqueues, stops, expiries, changes,
    service, units, added, machine, killed, balancer, doc, coll, queue,
    handler, heals, req, ops

Queue == INSTANCE WorkQueue WITH
    Msg <- {m1}, Kind <- m1 :> "envstart", MaxEnqueues <- 2, MaxStops <- 0,
    MaxExpiries <- 1, MaxChanges <- 1

Juju == INSTANCE JujuProvisioner WITH
    Unit <- 1 .. 2, MaxGens <- 1, MaxHeals <- 1, MaxOps <- 4,
    Faults <- {"status"}, Calm <- FALSE

OwnVars == vars
QueueVars == <<state, adding, listed, loops, tube, work, preempt, unit, wrote, ran,
    excused, enqueues, stops, expiries, changes>>
JujuVars == <<service, units, added, machine, killed, balancer, doc, coll, queue,
    handler, heals, req, ops>>

UInit ==
    /\ part \in Parts
    /\ Init
    /\ Queue!Init
    /\ Juju!Init

UNext ==
    \/ /\ part = "healers" /\ Next
       /\ UNCHANGED <<part, QueueVars, JujuVars>>
    \/ /\ part = "queue" /\ Queue!Next
       /\ UNCHANGED <<part, OwnVars, JujuVars>>
    \/ /\ part = "juju" /\ Juju!Next
       /\ UNCHANGED <<part, OwnVars, QueueVars>>

UVars == <<part, OwnVars, QueueVars, JujuVars>>
USpec ==
    /\ UInit /\ [][UNext]_UVars
    /\ Fairness
    /\ Queue!Fairness
    /\ Juju!Fairness

(* WorkQueue, JujuProvisioner and Healers: every queued message is dealt   *)
(* with, every unit gets its route, and what breaks is healed.             *)
AllServed ==
    /\ Queue!MessagesEnd
    /\ Juju!UnitsServed
    /\ AllHeals
=============================================================================
