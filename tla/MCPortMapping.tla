--------------------------- MODULE MCPortMapping ---------------------------
(*****************************************************************************)
(* Small hosts for PortMapping: the ports 1 .. 4, of which 2 .. 3 are the    *)
(* fountain's range. The host reboots under three containers (the module's   *)
(* own names), or the daemon restarts under running ones (Ghosts).           *)
(*****************************************************************************)
EXTENDS PortMapping, Integers, TLC

CONSTANTS c1, c2, c3, Parts

VARIABLES
    part,  \* the component that this behaviour is about
    ghostsPortUse, ghostsFount, ghostsChain, ghostsMapping, ghostsProxies,
    ghostsStep, ghostsTodo, ghostsPort, ghostsExtPorts, ghostsSaved,
    ghostsGhost, ghostsAlive, ghostsRunning, ghostsDisk, ghostsDaemon

Spec1(f, b) == [front |-> f, back |-> b]

(* c1 wants a port of the range and any port, c2 port 1 and any port; c3   *)
(* wants port 1, too, and then port 4, which is not to be had.             *)
Contended ==
    c1 :> <<Spec1(2, "http"), Spec1(Anywhere, "ssh")>>
      @@ c2 :> <<Spec1(1, "http"), Spec1(Anywhere, "ssh")>>
      @@ c3 :> <<Spec1(1, "http"), Spec1(4, "ssh")>>

(* Two containers with one port each of their choice, one with port 1. *)
Mixed ==
    c1 :> <<Spec1(Anywhere, "http")>>
      @@ c2 :> <<Spec1(Anywhere, "http"), Spec1(1, "ssh")>>

Ghosts == INSTANCE PortMapping WITH
    Container <- {c1, c2}, PortSpecs <- Mixed, Foreign <- {},
    AutoRestart <- FALSE, Fates <- {"survive", "die"},
    Faults <- {"start", "del"}, MaxRules <- 2, portUse <- ghostsPortUse,
    fount <- ghostsFount, chain <- ghostsChain, mapping <- ghostsMapping,
    proxies <- ghostsProxies, step <- ghostsStep, todo <- ghostsTodo,
    port <- ghostsPort, extPorts <- ghostsExtPorts, saved <- ghostsSaved,
    ghost <- ghostsGhost, alive <- ghostsAlive, running <- ghostsRunning,
    disk <- ghostsDisk, daemon <- ghostsDaemon

OwnVars == vars
GhostsVars == <<ghostsPortUse, ghostsFount, ghostsChain, ghostsMapping, ghostsProxies,
    ghostsStep, ghostsTodo, ghostsPort, ghostsExtPorts, ghostsSaved,
    ghostsGhost, ghostsAlive, ghostsRunning, ghostsDisk, ghostsDaemon>>

UInit ==
    /\ part \in Parts
    /\ Init
    /\ Ghosts!Init

UNext ==
    \/ /\ part = "reboot" /\ Next
       /\ UNCHANGED <<part, GhostsVars>>
    \/ /\ part = "ghosts" /\ Ghosts!Next
       /\ UNCHANGED <<part, OwnVars>>

UVars == <<part, OwnVars, GhostsVars>>
USpec ==
    /\ UInit /\ [][UNext]_UVars
    /\ Ghosts!Fairness

(* PortMapping: what is saved for a running container is held after a      *)
(* restart, its monitor has the network to release, and an allocation of   *)
(* any port finds one if there is one.                                     *)
GhostsKept ==
    /\ [](Ghosts!SavedIsHeld)
    /\ [](Ghosts!MonitorHasNetwork)
    /\ Ghosts!FreePortFound
=============================================================================
