--------------------------- MODULE MCIPAllocator ---------------------------
(*****************************************************************************)
(* Three networks: the host reboots (the module's own names), the daemon     *)
(* restarts under running containers (Ghosts), or there is every kind of     *)
(* restart (Every).                                                          *)
(*****************************************************************************)
EXTENDS IPAllocator, Integers, TLC

CONSTANTS c1, c2, c3, Parts

VARIABLES
    part,  \* the component that this behaviour is about
    ghostsPc, ghostsPos, ghostsAttempt, ghostsNewNum, ghostsSeen,
    ghostsInUse, ghostsCall, ghostsGhost, ghostsIp, ghostsRunning,
    ghostsDaemon,
    everyPc, everyPos, everyAttempt, everyNewNum, everySeen, everyInUse,
    everyCall, everyGhost, everyIp, everyRunning, everyDaemon

Ghosts == INSTANCE IPAllocator WITH
    OwnIP <- 3, Fates <- {"survive"}, Faults <- {"start", "ports"},
    pc <- ghostsPc, pos <- ghostsPos, attempt <- ghostsAttempt,
    newNum <- ghostsNewNum, seen <- ghostsSeen, inUse <- ghostsInUse,
    call <- ghostsCall, ghost <- ghostsGhost, ip <- ghostsIp,
    running <- ghostsRunning, daemon <- ghostsDaemon

Every == INSTANCE IPAllocator WITH
    OwnIP <- 2, Container <- {c1, c2}, AutoRestart <- FALSE,
    Fates <- {"survive", "die"}, Faults <- {"ports", "adopt"}, pc <- everyPc,
    pos <- everyPos, attempt <- everyAttempt, newNum <- everyNewNum,
    seen <- everySeen, inUse <- everyInUse, call <- everyCall,
    ghost <- everyGhost, ip <- everyIp, running <- everyRunning,
    daemon <- everyDaemon

OwnVars == vars
GhostsVars == <<ghostsPc, ghostsPos, ghostsAttempt, ghostsNewNum, ghostsSeen, ghostsInUse,
    ghostsCall, ghostsGhost, ghostsIp, ghostsRunning, ghostsDaemon>>
EveryVars == <<everyPc, everyPos, everyAttempt, everyNewNum, everySeen, everyInUse,
    everyCall, everyGhost, everyIp, everyRunning, everyDaemon>>

UInit ==
    /\ part \in Parts
    /\ Init
    /\ Ghosts!Init
    /\ Every!Init

UNext ==
    \/ /\ part = "reboot" /\ Next
       /\ UNCHANGED <<part, GhostsVars, EveryVars>>
    \/ /\ part = "ghosts" /\ Ghosts!Next
       /\ UNCHANGED <<part, OwnVars, EveryVars>>
    \/ /\ part = "every" /\ Every!Next
       /\ UNCHANGED <<part, OwnVars, GhostsVars>>

UVars == <<part, OwnVars, GhostsVars, EveryVars>>
USpec ==
    /\ UInit /\ [][UNext]_UVars
    /\ Every!Fairness

(* IPAllocator: ghosts keep their addresses to themselves; after every     *)
(* kind of restart no address is lost but the one that Allocate throws     *)
(* away, and every call of Acquire and Release is answered.                *)
EveryAnswered ==
    /\ [](Ghosts!UniqueIP)
    /\ [](Every!NothingLost)
    /\ Every!CallsReturn
=============================================================================
