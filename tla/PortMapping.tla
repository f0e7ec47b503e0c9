----------------------------- MODULE PortMapping -----------------------------
(***************************************************************************)
(* The public ports of the containers, network.go and its callers in       *)
(* container.go and runtime.go, for one protocol:                          *)
(*  - a PortAllocator: the map of the ports in use and the goroutine       *)
(*    runFountain, which sends the ports of a range round and round;       *)
(*  - the PortMapper: for each mapped port an iptables rule, an entry of   *)
(*    tcpMapping and a proxy that listens on the port;                     *)
(*  - allocateNetwork, which allocates and maps the ports of a container   *)
(*    one after another, and gives them all up when one fails;             *)
(*  - releaseNetwork, which monitor calls when the process has exited;     *)
(*  - the restart of the daemon, after which the containers found running  *)
(*    ("ghosts") ask for the ports they had.                               *)
(*                                                                         *)
(* A container stands for its own address in rules and mappings: the       *)
(* module IPAllocator is about addresses.                                  *)
(***************************************************************************)
EXTENDS Integers, Sequences, FiniteSets

CONSTANTS
    Container,      \* the containers on disk
    Port,           \* the host ports that anybody asks for
    PortRangeStart, \* the first port of the fountain's range ...
    PortRangeEnd,   \* ... and the first after it
    Backend,        \* the ports inside containers
    PortSpecs,      \* PortSpecs[c] is c's Config.PortSpecs, parsed
    Foreign,        \* the ports other programs of the host listen on
    AutoRestart,    \* the daemon's -r flag
    Fates,          \* what may happen to a process while no daemon runs
    Faults,         \* "add", "del": iptables fails; "start": Start fails late
    MaxRules        \* bound: no -D fails on a port with that many rules

Anywhere == 0       \* nat.Frontend of a spec that names no public port
None == "none"      \* no container

Entry == [front : Port, back : Backend]
Wish == [front : Port \cup {Anywhere}, back : Backend]
PortRange == PortRangeStart .. PortRangeEnd - 1

ASSUME PortAssumption == Port \subseteq Nat \ {0}
ASSUME RangeAssumption ==
    /\ PortRangeStart \in Nat /\ PortRangeEnd \in Nat
    /\ PortRangeStart < PortRangeEnd
    /\ PortRange \subseteq Port
ASSUME ContainerAssumption == None \notin Container
ASSUME PortSpecsAssumption == PortSpecs \in [Container -> Seq(Wish)]
ASSUME ForeignAssumption == Foreign \subseteq Port
ASSUME AutoRestartAssumption == AutoRestart \in BOOLEAN
ASSUME FatesAssumption == Fates \subseteq {"survive", "die"}
ASSUME FaultsAssumption == Faults \subseteq {"add", "del", "start"}
ASSUME MaxRulesAssumption == MaxRules \in Nat

VARIABLES
    (* The allocator and the mapper. *)
    portUse,    \* the map alloc.inUse
    fount,      \* the port runFountain is sending
    chain,      \* chain[p]: the DOCKER chain's rules for port p, in order,
                \* each the container it forwards to
    mapping,    \* mapper.tcpMapping
    proxies,    \* mapper.tcpProxies: whom the listener of a port serves
    (* The containers. *)
    step,       \* where each one is
    todo,       \* the specs allocateNetwork still has to serve
    port,       \* the port it is working on
    extPorts,   \* its interface's extPorts: the ports allocated
    saved,      \* its NetworkSettings.PortMapping
    ghost,      \* State.Ghost: "no", "yes", or "bare", when the
                \* NetworkSettings have been cleared as well
    (* The processes, and config.json. *)
    alive,      \* the containers whose process runs
    running,    \* the containers that are Running on disk
    disk,       \* PortMapping on disk
    daemon      \* in restore(), or serving the API

netVars == <<portUse, fount, chain, mapping, proxies>>
diskVars == <<running, disk, daemon>>
vars == <<portUse, fount, chain, mapping, proxies, step, todo, port, extPorts,
          saved, ghost, alive, running, disk, daemon>>

Steps ==
    { "stopped",    \* not running
      "ports",      \* in allocateNetwork's loop, about to serve a spec
      "claim",      \* got a port from the fountain
      "map",        \* has the port, about to add the rule
      "bind",       \* has rule and mapping, about to listen
      "unmap",      \* the proxy failed: about to unmap the port ...
      "unclaim",    \* ... and to release it
      "undo",       \* allocateNetwork failed: about to unmap a port ...
      "undofree",   \* ... and to release it
      "starting",   \* has its network, the rest of Start
      "up",         \* running, monitored
      "exit",       \* exited: monitor is about to unmap a port ...
      "exitfree",   \* ... and to release it
      "orphan",     \* runs, not registered with this daemon yet
      "dead",       \* Running on disk but not alive, not registered yet
      "detached" }  \* running and monitored, but container.network is nil

TypeOK ==
    /\ portUse \subseteq Port
    /\ fount \in PortRange
    /\ chain \in [Port -> Seq(Container)]
    /\ mapping \in [Port -> Container \cup {None}]
    /\ proxies \in [Port -> Container \cup {None}]
    /\ step \in [Container -> Steps]
    /\ todo \in [Container -> Seq(Wish)]
    /\ port \in [Container -> Port \cup {Anywhere}]
    /\ extPorts \in [Container -> Seq(Port)]
    /\ saved \in [Container -> SUBSET Entry]
    /\ ghost \in [Container -> {"no", "yes", "bare"}]
    /\ alive \subseteq Container
    /\ running \subseteq Container
    /\ disk \in [Container -> SUBSET Entry]
    /\ daemon \in {"restoring", "serving"}

Nothing == [p \in Port |-> None]

Init ==
    /\ portUse = {} /\ fount = PortRangeStart
    /\ chain = [p \in Port |-> <<>>]
    /\ mapping = Nothing /\ proxies = Nothing
    /\ step = [c \in Container |-> "stopped"]
    /\ todo = [c \in Container |-> <<>>]
    /\ port = [c \in Container |-> Anywhere]
    /\ extPorts = [c \in Container |-> <<>>]
    /\ saved = [c \in Container |-> {}]
    /\ ghost = [c \in Container |-> "no"]
    /\ alive = {} /\ running = {}
    /\ disk = [c \in Container |-> {}]
    /\ daemon = "serving"

SetStep(c, s) == step' = [step EXCEPT ![c] = s]

-----------------------------------------------------------------------------
(* allocateNetwork: the loop over the port specs. *)

(* The loop begins; PortMapping is made anew. *)
Allocate(c, specs) ==
    /\ SetStep(c, "ports")
    /\ todo' = [todo EXCEPT ![c] = specs]
    /\ extPorts' = [extPorts EXCEPT ![c] = <<>>]
    /\ saved' = [saved EXCEPT ![c] = {}]

(* The specs of a ghost are what its PortMapping holds, in no order. *)
Orders(S) ==
    {s \in [1 .. Cardinality(S) -> S] :
        \A i, j \in 1 .. Cardinality(S) : s[i] = s[j] => i = j}

(* runFountain goes to the next port.  Mutants: it misses the last one, or *)
(* goes past it.                                                           *)
NextPortShort ==
    IF fount + 1 < PortRangeEnd - 1 THEN fount + 1 ELSE PortRangeStart
NextPortPast == IF fount + 1 > PortRangeEnd THEN PortRangeStart ELSE fount + 1
NextPort == IF fount + 1 < PortRangeEnd THEN fount + 1 ELSE PortRangeStart

(* Acquire(0) receives a port from the fountain. *)
Draw(c) ==
    /\ step[c] = "ports"
    /\ todo[c] # <<>> /\ Head(todo[c]).front = Anywhere
    /\ SetStep(c, "claim")
    /\ port' = [port EXCEPT ![c] = fount]
    /\ fount' = NextPort
    /\ UNCHANGED <<portUse, chain, mapping, proxies, todo, extPorts, saved,
                   ghost, alive, diskVars>>

(* Acquire(p), under the allocator's lock.  When the port is in use        *)
(* Acquire(0) draws the next one, a Start with a port of its own fails.    *)
(* Mutants: it does not look, or takes what the fountain gives.            *)
InUseNever(p) == FALSE
InUseOutside(p) == p \in portUse \ PortRange
InUse(p) == p \in portUse

Claim(c) ==
    /\ \/ step[c] = "claim"
       \/ /\ step[c] = "ports"
          /\ todo[c] # <<>> /\ Head(todo[c]).front # Anywhere
    /\ LET p == IF step[c] = "claim" THEN port[c] ELSE Head(todo[c]).front
       IN  \/ /\ ~InUse(p)
              /\ portUse' = portUse \cup {p}
              /\ port' = [port EXCEPT ![c] = p]
              /\ SetStep(c, "map")
           \/ /\ InUse(p)
              /\ SetStep(c, IF step[c] = "claim" THEN "ports" ELSE "undo")
              /\ UNCHANGED <<portUse, port>>
    /\ UNCHANGED <<fount, chain, mapping, proxies, todo, extPorts, saved,
                   ghost, alive, diskVars>>

(* Map: iptables -A, and the entry of tcpMapping. *)
AddRule(c) ==
    /\ step[c] = "map"
    /\ chain' = [chain EXCEPT ![port[c]] = Append(@, c)]
    /\ mapping' = [mapping EXCEPT ![port[c]] = c]
    /\ SetStep(c, "bind")
    /\ UNCHANGED <<portUse, fount, proxies, todo, port, extPorts, saved,
                   ghost, alive, diskVars>>

(* iptables -A fails: AllocatePort releases the port. *)
AddFails(c) ==
    /\ "add" \in Faults
    /\ step[c] = "map"
    /\ portUse' = portUse \ {port[c]}
    /\ SetStep(c, "undo")
    /\ UNCHANGED <<fount, chain, mapping, proxies, todo, port, extPorts,
                   saved, ghost, alive, diskVars>>

(* Map, NewProxy: the port can be listened on; the port is the             *)
(* interface's, and allocateNetwork notes it under its backend.  The       *)
(* mutant notes the port that was asked for.                               *)
RecordedWish(c, b, p) ==
    {e \in saved[c] : e.back # b}
        \cup {[front |-> Head(todo[c]).front, back |-> b]}

Recorded(c, b, p) ==
    {e \in saved[c] : e.back # b} \cup {[front |-> p, back |-> b]}

Listening(p) == p \in Foreign \/ proxies[p] # None

Bind(c) ==
    /\ step[c] = "bind" /\ ~Listening(port[c])
    /\ proxies' = [proxies EXCEPT ![port[c]] = c]
    /\ extPorts' = [extPorts EXCEPT ![c] = Append(@, port[c])]
    /\ saved' = [saved EXCEPT ![c] =
                    Recorded(c, Head(todo[c]).back, port[c])]
    /\ todo' = [todo EXCEPT ![c] = Tail(@)]
    /\ SetStep(c, "ports")
    /\ UNCHANGED <<portUse, fount, chain, mapping, port, ghost, alive,
                   diskVars>>

(* NewProxy fails: Map takes the rule back, AllocatePort the port.  The    *)
(* mutant forgets the rule.                                                *)
AfterBindFailsLeft == "unclaim"
AfterBindFails == "unmap"

BindFails(c) ==
    /\ step[c] = "bind" /\ Listening(port[c])
    /\ SetStep(c, AfterBindFails)
    /\ UNCHANGED <<netVars, todo, port, extPorts, saved, ghost, alive,
                   diskVars>>

-----------------------------------------------------------------------------
(* Unmapping and releasing ports: Map's and allocateNetwork's error paths, *)
(* and (iface *NetworkInterface) Release().                                *)

(* The port that c unmaps or frees: the one in work, or the first of its   *)
(* interface's.                                                            *)
Leaving(c) ==
    IF step[c] \in {"unmap", "unclaim"} THEN port[c] ELSE Head(extPorts[c])

(* iptables -D removes the first matching rule; the mutant removes none. *)
DeletedNot(s, c) == s
Deleted(s, c) ==
    LET i == CHOOSE j \in 1 .. Len(s) :
                s[j] = c /\ \A k \in 1 .. j - 1 : s[k] # c
    IN  IF \E j \in 1 .. Len(s) : s[j] = c
        THEN [j \in 1 .. Len(s) - 1 |-> IF j < i THEN s[j] ELSE s[j + 1]]
        ELSE s

(* Where a container goes after Unmap, and after Release. *)
Unmapping == {"unmap", "undo", "exit"}
Freeing == {"unclaim", "undofree", "exitfree"}
AfterUnmap(s) ==
    CASE s = "unmap" -> "unclaim" [] s = "undo" -> "undofree"
      [] s = "exit" -> "exitfree"
AfterFree(s) == IF s = "exitfree" THEN "exit" ELSE "undo"

(* Unmap: nothing when the port is not mapped; otherwise the proxy is      *)
(* closed, the rule deleted and, unless that fails, the mapping as well.   *)
(* Its error is logged, and the port is released all the same.             *)
Unmap(c) ==
    /\ step[c] \in Unmapping
    /\ step[c] # "unmap" => extPorts[c] # <<>>
    /\ LET p == Leaving(c)
       IN  /\ proxies' = [proxies EXCEPT ![p] =
                            IF mapping[p] = None THEN @ ELSE None]
           /\ \/ /\ chain' = [chain EXCEPT ![p] = Deleted(@, mapping[p])]
                 /\ mapping' = [mapping EXCEPT ![p] = None]
              \/ /\ "del" \in Faults /\ Len(chain[p]) < MaxRules
                 /\ UNCHANGED <<chain, mapping>>
    /\ SetStep(c, AfterUnmap(step[c]))
    /\ UNCHANGED <<portUse, fount, todo, port, extPorts, saved, ghost, alive,
                   diskVars>>

(* delete(alloc.inUse, p), and its mutant. *)
FreedNot(p) == portUse
Freed(p) == portUse \ {p}

Free(c) ==
    /\ step[c] \in Freeing
    /\ portUse' = Freed(Leaving(c))
    /\ extPorts' = [extPorts EXCEPT ![c] =
                        IF step[c] = "unclaim" THEN @ ELSE Tail(@)]
    /\ SetStep(c, AfterFree(step[c]))
    /\ UNCHANGED <<fount, chain, mapping, proxies, todo, port, saved, ghost,
                   alive, diskVars>>

(* allocateNetwork returns the error, which ends a Start; Register ignores *)
(* it, and leaves a running container without a network.                   *)
Undone(c) ==
    /\ step[c] = "undo" /\ extPorts[c] = <<>>
    /\ SetStep(c, IF c \in alive THEN "detached" ELSE "stopped")
    /\ UNCHANGED <<netVars, todo, port, extPorts, saved, ghost, alive,
                   diskVars>>

-----------------------------------------------------------------------------
(* Containers of a running daemon. *)

Start(c) ==
    /\ daemon = "serving"
    /\ step[c] = "stopped" /\ ghost[c] = "no"
    /\ Allocate(c, PortSpecs[c])
    /\ UNCHANGED <<netVars, port, ghost, alive, diskVars>>

(* Start of a container whose Ghost flag was never reset.  Without an      *)
(* address in the NetworkSettings ipToInt panics, and nothing happens.     *)
StartGhost(c) ==
    /\ daemon = "serving"
    /\ step[c] = "stopped" /\ ghost[c] = "yes"
    /\ \E specs \in Orders(saved[c]) : Allocate(c, specs)
    /\ UNCHANGED <<netVars, port, ghost, alive, diskVars>>

(* allocateNetwork returns nil: container.network is set.  A registered    *)
(* ghost is up, a Start goes on.                                           *)
NetworkReady(c) ==
    /\ step[c] = "ports" /\ todo[c] = <<>>
    /\ SetStep(c, IF c \in alive THEN "up" ELSE "starting")
    /\ UNCHANGED <<netVars, todo, port, extPorts, saved, ghost, alive,
                   diskVars>>

(* The process runs: setRunning resets the Ghost flag, ToDisk saves. *)
Started(c) ==
    /\ step[c] = "starting"
    /\ SetStep(c, "up")
    /\ ghost' = [ghost EXCEPT ![c] = "no"]
    /\ alive' = alive \cup {c}
    /\ running' = running \cup {c}
    /\ disk' = [disk EXCEPT ![c] = saved[c]]
    /\ UNCHANGED <<netVars, todo, port, extPorts, saved, daemon>>

(* Start returns an error after allocateNetwork: nothing is released, and  *)
(* the interface is forgotten.                                             *)
StartFails(c) ==
    /\ "start" \in Faults
    /\ step[c] = "starting"
    /\ SetStep(c, "stopped")
    /\ extPorts' = [extPorts EXCEPT ![c] = <<>>]
    /\ UNCHANGED <<netVars, todo, port, saved, ghost, alive, diskVars>>

(* The process exits; monitor calls releaseNetwork. *)
Exit(c) ==
    /\ step[c] = "up"
    /\ SetStep(c, "exit")
    /\ alive' = alive \ {c}
    /\ UNCHANGED <<netVars, todo, port, extPorts, saved, ghost, diskVars>>

(* releaseNetwork clears the NetworkSettings; monitor saves them.  A flag  *)
(* set by Load is still there.                                             *)
Exited(c) ==
    /\ step[c] = "exit" /\ extPorts[c] = <<>>
    /\ SetStep(c, "stopped")
    /\ saved' = [saved EXCEPT ![c] = {}]
    /\ ghost' = [ghost EXCEPT ![c] = IF @ = "no" THEN "no" ELSE "bare"]
    /\ running' = running \ {c}
    /\ disk' = [disk EXCEPT ![c] = {}]
    /\ UNCHANGED <<netVars, todo, port, extPorts, alive, daemon>>

-----------------------------------------------------------------------------
(* The daemon stops or crashes (as it does when the monitor of a detached  *)
(* container calls releaseNetwork), and a new one starts: proxies die with *)
(* it, iptables is cleaned up, and Load reads each config.json.            *)
RestartDaemon ==
    /\ portUse' = {} /\ fount' = PortRangeStart
    /\ chain' = [p \in Port |-> <<>>]
    /\ mapping' = Nothing /\ proxies' = Nothing
    /\ alive' \in SUBSET alive
    /\ "survive" \notin Fates => alive' = {}
    /\ "die" \notin Fates => alive' = alive
    /\ step' = [c \in Container |->
                  IF c \notin running THEN "stopped"
                  ELSE IF c \in alive' THEN "orphan" ELSE "dead"]
    /\ todo' = [c \in Container |-> <<>>]
    /\ port' = [c \in Container |-> Anywhere]
    /\ extPorts' = [c \in Container |-> <<>>]
    /\ saved' = disk
    /\ ghost' = [c \in Container |->
                    IF c \in running THEN "yes" ELSE ghost[c]]
    /\ daemon' = "restoring"
    /\ UNCHANGED <<running, disk>>

(* restore() registers one container after another: it goes on when the    *)
(* Start or the allocateNetwork that Register calls has returned.          *)
Registering ==
    \E c \in Container :
        step[c] \in Steps \ {"stopped", "up", "exit", "exitfree", "orphan",
                             "dead", "detached"}

(* restore() has registered everything, and the API is served.  The mutant *)
(* does not wait for it.                                                   *)
RestoredAtOnce == TRUE
Restored ==
    ~Registering /\ \A c \in Container : step[c] \notin {"orphan", "dead"}

Serve ==
    /\ daemon = "restoring" /\ Restored
    /\ daemon' = "serving"
    /\ UNCHANGED <<netVars, step, todo, port, extPorts, saved, ghost, alive,
                   running, disk>>

(* Register of a container that still runs. *)
Adopt(c) ==
    /\ step[c] = "orphan" /\ ~Registering
    /\ \E specs \in Orders(saved[c]) : Allocate(c, specs)
    /\ UNCHANGED <<netVars, port, ghost, alive, diskVars>>

OrphanDies(c) ==
    /\ "die" \in Fates
    /\ step[c] = "orphan"
    /\ SetStep(c, "dead")
    /\ alive' = alive \ {c}
    /\ UNCHANGED <<netVars, todo, port, extPorts, saved, ghost, diskVars>>

(* Register of a container that was running and is not: started again with *)
(* -r, otherwise marked as stopped.                                        *)
RegisterDead(c) ==
    /\ step[c] = "dead" /\ ~Registering
    /\ IF AutoRestart
         THEN /\ ghost' = [ghost EXCEPT ![c] = "no"]
              /\ Allocate(c, PortSpecs[c])
              /\ UNCHANGED running
         ELSE /\ SetStep(c, "stopped")
              /\ running' = running \ {c}
              /\ UNCHANGED <<ghost, todo, extPorts, saved>>
    /\ UNCHANGED <<netVars, port, alive, disk, daemon>>

-----------------------------------------------------------------------------
Ports(c) ==
    \/ Draw(c) \/ Claim(c) \/ AddRule(c) \/ AddFails(c) \/ Bind(c)
    \/ BindFails(c) \/ Unmap(c) \/ Free(c) \/ Undone(c) \/ NetworkReady(c)

Life(c) ==
    \/ Start(c) \/ StartGhost(c) \/ Started(c) \/ StartFails(c)
    \/ Exit(c) \/ Exited(c)

Registration(c) == Adopt(c) \/ OrphanDies(c) \/ RegisterDead(c)

Next ==
    \/ RestartDaemon \/ Serve
    \/ \E c \in Container : Ports(c) \/ Life(c) \/ Registration(c)

Spec == Init /\ [][Next]_vars

(* allocateNetwork and Release run to their end. *)
Fairness == \A c \in Container : WF_vars(Ports(c))
FairSpec == Spec /\ Fairness

-----------------------------------------------------------------------------
(* Properties. *)

Ran(s) == {s[i] : i \in DOMAIN s}

(* The ports that c has: its interface's, and the one in work. *)
Held(c) ==
    Ran(extPorts[c]) \cup
    (IF step[c] \in {"map", "bind", "unmap", "unclaim"} THEN {port[c]} ELSE {})

(* PortMapper "keeps track of all mappings": a port has the one rule that  *)
(* its mapping tells of or, without a mapping, none; a proxy serves the    *)
(* same container.                                                         *)
Tracked ==
    \A p \in Port :
        /\ chain[p] = IF mapping[p] = None THEN <<>> ELSE <<mapping[p]>>
        /\ proxies[p] \in {None, mapping[p]}

(* A port that the next container may be given has neither mapping nor     *)
(* proxy left, whichever step of whichever path gave it up.                *)
FreePortsClean ==
    \A p \in Port \ portUse : mapping[p] = None /\ proxies[p] = None

(* All the time that a container is up, the public ports its settings name *)
(* lead to it and nowhere else, whatever fails around it.                  *)
Published ==
    \A c \in Container : step[c] = "up" =>
        \A e \in saved[c] :
            chain[e.front] = <<c>> /\ proxies[e.front] = c

(* When every Start with a network succeeds, the ports in use are those    *)
(* that containers have: no failure in between loses one.                  *)
NoPortLost == portUse = UNION {Held(c) : c \in Container}

(* Rules, mappings, listeners and the ports in use agree with each other.  *)
MappingsExact == Tracked /\ FreePortsClean /\ Published

(* The settings of a container that is up name the ports it has, and so    *)
(* does config.json, from which the next daemon will restore them.         *)
SavedIsHeld ==
    \A c \in Container : step[c] = "up" =>
        /\ {e.front : e \in saved[c]} = Ran(extPorts[c])
        /\ disk[c] = saved[c]

(* "when we simply 'reattach', we have to restart a monitor", and that     *)
(* monitor will release the container's network: there is one.             *)
MonitorHasNetwork == \A c \in Container : step[c] # "detached"

(* A Start that waits for any port gets one, unless every port of the      *)
(* range is taken again and again.                                         *)
Drawing(c) ==
    \/ step[c] = "ports" /\ todo[c] # <<>> /\ Head(todo[c]).front = Anywhere
    \/ step[c] = "claim"

FreePortFound ==
    \A c \in Container, p \in PortRange : ~ <>[](Drawing(c) /\ p \notin portUse)

(* The allocator with its callers is a lease of the ports. *)
Lease == INSTANCE ExclusiveLease WITH
    Holder <- Container,
    Resource <- Port,
    held <- [c \in Container |-> Held(c)]

(* No step gives a port to a container while another one has it, or takes  *)
(* it from one that still uses it.                                         *)
PortLease == Lease!Spec
=============================================================================
