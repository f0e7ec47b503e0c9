----------------------------- MODULE IPAllocator -----------------------------
(***************************************************************************)
(* The IP address allocator of the daemon and everybody who uses it:       *)
(*  - the goroutine (alloc *IPAllocator) run() of network.go, which looks  *)
(*    for a free address, then offers it on the unbuffered channel         *)
(*    queueAlloc or takes an address back from queueReleased;              *)
(*  - the containers that Allocate (a Start), give up (a Start that fails) *)
(*    and Release (monitor, after the process exited) an address;          *)
(*  - the restart of the daemon: the containers found on disk are          *)
(*    registered one after another, and one that still runs (a "ghost")    *)
(*    keeps its address, which its goroutine writes into the allocator's   *)
(*    map while run() is at work.                                          *)
(*                                                                         *)
(* An address is its offset in the bridge network: 0 is the network,       *)
(* 1 .. Max the hosts.  OwnIP is the bridge's own address.                 *)
(***************************************************************************)
EXTENDS Integers, FiniteSets

CONSTANTS
    Size,       \* networkSize(mask), the number of addresses of the network
    OwnIP,      \* the offset of the bridge's address
    Container,  \* the containers on disk
    AutoRestart,\* the daemon's -r flag
    Fates,      \* what may have become of a running container's process
                \* when a new daemon looks for it
    Faults      \* which steps of a Start may fail once it has an address

ASSUME SizeAssumption == Size \in Nat /\ Size >= 4
ASSUME OwnIPAssumption == OwnIP \in 1 .. Size - 2
ASSUME AutoRestartAssumption == AutoRestart \in BOOLEAN
ASSUME FatesAssumption == Fates \subseteq {"survive", "die"}
ASSUME FaultsAssumption == Faults \subseteq {"start", "ports", "adopt"}

Max == Size - 2     \* the code's max: neither the network nor broadcast
Host == 1 .. Max
FirstIP == 1        \* the code's firstIPNum
NoIP == 0           \* no address in the NetworkSettings

VARIABLES
    (* The goroutine run() and the allocator. *)
    pc,         \* where run() is: in the search, in the select, or about to
                \* mark the address it handed out
    pos,        \* the offset to look at next
    attempt,    \* the search's loop counter
    newNum,     \* the offset looked at last
    seen,       \* run()'s local variable inUse: what was seen at newNum
    inUse,      \* the map alloc.inUse
    (* The containers. *)
    call,       \* what is being done to each container
    ghost,      \* its State.Ghost
    ip,         \* its NetworkSettings.IPAddress
    running,    \* the containers that are Running in their config.json
    daemon      \* in restore(), or serving the API

runVars == <<pc, pos, attempt, newNum, seen>>
vars == <<pc, pos, attempt, newNum, seen, inUse, call, ghost, ip, running, daemon>>

Calls ==
    { "stopped",    \* not running
      "acquire",    \* in Start, receiving from queueAlloc
      "reacquire",  \* receiving again, after being given FirstIP
      "starting",   \* in Start, with an address
      "undo",       \* in Start, giving the address back: a port failed
      "up",         \* running, monitored
      "release",    \* exited; monitor sends the address to queueReleased
      "orphan",     \* runs while no daemon has registered it yet
      "dead",       \* was running on disk, has exited, not registered yet
      "unadopt",    \* in Register: a ghost's port failed, giving back
      "detached" }  \* running, registered, with container.network = nil

TypeOK ==
    /\ pc \in {"search", "select", "mark"}
    /\ pos \in Host
    /\ attempt \in 0 .. Max
    /\ newNum \in 0 .. Max
    /\ seen \in {"free", "used"}
    /\ inUse \subseteq Host
    /\ call \in [Container -> Calls]
    /\ ghost \in [Container -> BOOLEAN]
    /\ ip \in [Container -> 0 .. Max]
    /\ running \subseteq Container
    /\ daemon \in {"restoring", "serving"}

Init ==
    /\ pc = "search" /\ pos = 1 /\ attempt = 0 /\ newNum = 0 /\ seen = "free"
    /\ inUse = {}
    /\ call = [c \in Container |-> "stopped"]
    /\ ghost = [c \in Container |-> FALSE]
    /\ ip = [c \in Container |-> NoIP]
    /\ running = {}
    /\ daemon = "serving"

-----------------------------------------------------------------------------
(* The goroutine run(). *)

(* The head of run()'s loop: newNum and inUse are declared anew. *)
NewSearch ==
    /\ pc' = "search" /\ attempt' = 0 /\ newNum' = 0 /\ seen' = "free"

(* pos%max + 1; the mutant goes around the whole network. *)
NextPosBySize == (pos % Size) + 1
NextPos == (pos % Max) + 1

(* One round of the search.  The bridge's address is skipped before inUse  *)
(* is assigned; a free address ends the search.                            *)
TryNext ==
    /\ pc = "search"
    /\ attempt < Max
    /\ newNum' = pos
    /\ pos' = NextPos
    /\ seen' = IF pos = OwnIP THEN seen
               ELSE IF pos \in inUse THEN "used" ELSE "free"
    /\ IF pos # OwnIP /\ pos \notin inUse
         THEN pc' = "select" /\ attempt' = 0
         ELSE pc' = pc /\ attempt' = attempt + 1
    /\ UNCHANGED <<inUse, call, ghost, ip, running, daemon>>

(* The search gives up after one whole round.  Mutants: after half a round, *)
(* and never.                                                              *)
RoundOverHalfway ==
    /\ pc = "search"
    /\ attempt = Max \div 2
    /\ pc' = "select"
    /\ attempt' = 0
    /\ UNCHANGED <<pos, newNum, seen, inUse, call, ghost, ip, running, daemon>>

RoundOverNever ==
    /\ pc = "search"
    /\ attempt = Max
    /\ attempt' = 0
    /\ UNCHANGED <<pc, pos, newNum, seen, inUse, call, ghost, ip, running, daemon>>

RoundOver ==
    /\ pc = "search"
    /\ attempt = Max
    /\ pc' = "select"
    /\ attempt' = 0
    /\ UNCHANGED <<pos, newNum, seen, inUse, call, ghost, ip, running, daemon>>

(* Where to look next, once ip was released: at it if it is the only free  *)
(* one, otherwise at the address that was on offer.  The mutant forgets    *)
(* the first case.                                                         *)
PosAfterReleaseBack(addr) == IF pos = 1 THEN Max ELSE pos - 1

PosAfterRelease(addr) ==
    IF seen = "used" THEN addr ELSE IF pos = 1 THEN Max ELSE pos - 1

(* delete(alloc.inUse, addr), and its mutant. *)
FreedNot(addr) == inUse
Freed(addr) == inUse \ {addr}

(* run() receives c's address from queueReleased and looks for a free      *)
(* address again.                                                          *)
TakeBack(c) ==
    /\ pc = "select"
    /\ inUse' = Freed(ip[c])
    /\ pos' = PosAfterRelease(ip[c])
    /\ NewSearch

(* alloc.inUse[newNum] = struct{}{}, and its mutant. *)
MarkedNot == inUse
MarkedUsed == inUse \cup {newNum}

(* After the send on queueAlloc; run() marks the address even when what it *)
(* sent was an error.                                                      *)
Mark ==
    /\ pc = "mark"
    /\ inUse' = MarkedUsed
    /\ NewSearch
    /\ UNCHANGED <<pos, call, ghost, ip, running, daemon>>

-----------------------------------------------------------------------------
(* Containers of a running daemon. *)

SetCall(c, s) == call' = [call EXCEPT ![c] = s]

(* Start of a container that is no ghost: Allocate, and in it Acquire. *)
Start(c) ==
    /\ daemon = "serving"
    /\ call[c] = "stopped" /\ ~ghost[c]
    /\ SetCall(c, "acquire")
    /\ UNCHANGED <<runVars, inUse, ghost, ip, running, daemon>>

(* manager.ipAllocator.inUse[ipNum] = struct{}{}, and its mutant. *)
AdoptedNot(c) == inUse
Adopted(c) == inUse \cup {ip[c]}

(* Start of a container whose Ghost flag was never reset: allocateNetwork  *)
(* takes the address of its NetworkSettings.  Without one (after a         *)
(* releaseNetwork) ipToInt panics and the request ends where it began.     *)
StartGhost(c) ==
    /\ daemon = "serving"
    /\ call[c] = "stopped" /\ ghost[c] /\ ip[c] # NoIP
    /\ SetCall(c, "starting")
    /\ inUse' = Adopted(c)
    /\ UNCHANGED <<runVars, ghost, ip, running, daemon>>

(* What Acquire's caller does with the answer: it fails on an error; it    *)
(* does not keep FirstIP, once.  Each with its mutant.                     *)
RefusedNever == FALSE
Refused == seen = "used"
KeepsAny(c) == TRUE
Keeps(c) == newNum # FirstIP \/ call[c] = "reacquire"

(* The rendezvous on queueAlloc.  An error ends the Start; FirstIP is not  *)
(* kept but asked for again, once, and stays marked as used.               *)
Acquire(c) ==
    /\ pc = "select"
    /\ call[c] \in {"acquire", "reacquire"}
    /\ pc' = "mark"
    /\ \/ /\ Refused
          /\ SetCall(c, "stopped")
          /\ UNCHANGED ip
       \/ /\ ~Refused /\ ~Keeps(c)
          /\ SetCall(c, "reacquire")
          /\ UNCHANGED ip
       \/ /\ ~Refused /\ Keeps(c)
          /\ SetCall(c, "starting")
          /\ ip' = [ip EXCEPT ![c] = newNum]
    /\ UNCHANGED <<pos, attempt, newNum, seen, inUse, ghost, running, daemon>>

(* The process runs: setRunning resets the Ghost flag, ToDisk saves. *)
Started(c) ==
    /\ call[c] = "starting"
    /\ SetCall(c, "up")
    /\ ghost' = [ghost EXCEPT ![c] = FALSE]
    /\ running' = running \cup {c}
    /\ UNCHANGED <<runVars, inUse, ip, daemon>>

(* The address a container goes back to when it stops without              *)
(* releaseNetwork: only a ghost's matters later.                           *)
KeptIP(c) == IF ghost[c] THEN ip[c] ELSE NoIP

(* Start returns an error after allocateNetwork: nothing is released. *)
StartFails(c) ==
    /\ "start" \in Faults
    /\ call[c] = "starting"
    /\ SetCall(c, "stopped")
    /\ ip' = [ip EXCEPT ![c] = KeptIP(c)]
    /\ UNCHANGED <<runVars, inUse, ghost, running, daemon>>

(* A port cannot be allocated: allocateNetwork releases the interface. *)
PortsFail(c) ==
    /\ "ports" \in Faults
    /\ call[c] = "starting"
    /\ SetCall(c, "undo")
    /\ UNCHANGED <<runVars, inUse, ghost, ip, running, daemon>>

UndoStart(c) ==
    /\ call[c] = "undo"
    /\ TakeBack(c)
    /\ SetCall(c, "stopped")
    /\ ip' = [ip EXCEPT ![c] = KeptIP(c)]
    /\ UNCHANGED <<ghost, running, daemon>>

(* The process exits; monitor calls releaseNetwork. *)
Exit(c) ==
    /\ call[c] = "up"
    /\ SetCall(c, "release")
    /\ UNCHANGED <<runVars, inUse, ghost, ip, running, daemon>>

(* The rendezvous on queueReleased; the NetworkSettings are cleared, and   *)
(* the stopped state is saved.                                             *)
Release(c) ==
    /\ call[c] = "release"
    /\ TakeBack(c)
    /\ SetCall(c, "stopped")
    /\ ip' = [ip EXCEPT ![c] = NoIP]
    /\ running' = running \ {c}
    /\ UNCHANGED <<ghost, daemon>>

-----------------------------------------------------------------------------
(* The daemon stops or crashes, and a new one starts. *)

(* What is left of container c: its process may run on; a process that was *)
(* alive or being cleaned up may be found dead, and so is one that the old *)
(* daemon could not start again with -r.                                   *)
Aftermath(c) ==
    CASE call[c] \in {"up", "orphan", "detached", "unadopt"} ->
             (IF "survive" \in Fates THEN {"orphan"} ELSE {})
             \cup (IF "die" \in Fates THEN {"dead"} ELSE {})
      [] call[c] \in {"release", "dead"} ->
             IF "die" \in Fates THEN {"dead"} ELSE {}
      [] OTHER -> {IF c \in running THEN "dead" ELSE "stopped"}

RestartDaemon ==
    /\ pc' = "search" /\ pos' = 1 /\ attempt' = 0
    /\ newNum' = 0 /\ seen' = "free"
    /\ inUse' = {}
    /\ call' \in [Container -> {"stopped", "orphan", "dead"}]
    /\ \A c \in Container : call'[c] \in Aftermath(c)
    /\ ip' = [c \in Container |->
                IF call'[c] = "stopped" THEN KeptIP(c) ELSE ip[c]]
    /\ daemon' = "restoring"
    /\ UNCHANGED <<ghost, running>>

(* restore() registers one container after another: it goes on when the    *)
(* Start or the allocateNetwork that Register calls has returned.          *)
Registering ==
    \E c \in Container :
        call[c] \in {"acquire", "reacquire", "starting", "undo", "unadopt"}

(* restore() has registered everything, and the API is served. *)
Serve ==
    /\ daemon = "restoring" /\ ~Registering
    /\ \A c \in Container : call[c] \notin {"orphan", "dead"}
    /\ daemon' = "serving"
    /\ UNCHANGED <<runVars, inUse, call, ghost, ip, running>>

(* Register of a container that still runs: it is a ghost and keeps its    *)
(* address, which is written into inUse whatever run() is doing.           *)
Adopt(c) ==
    /\ call[c] = "orphan"
    /\ ~Registering
    /\ inUse' = Adopted(c)
    /\ ghost' = [ghost EXCEPT ![c] = TRUE]
    /\ \/ SetCall(c, "up")
       \/ "adopt" \in Faults /\ SetCall(c, "unadopt")
    /\ UNCHANGED <<runVars, ip, running, daemon>>

(* A port of the ghost is taken: the interface is released while the       *)
(* process runs on, and Register ignores the error.                        *)
Unadopt(c) ==
    /\ call[c] = "unadopt"
    /\ TakeBack(c)
    /\ SetCall(c, "detached")
    /\ UNCHANGED <<ghost, ip, running, daemon>>

(* An orphan exits before it is registered. *)
OrphanDies(c) ==
    /\ "die" \in Fates
    /\ call[c] = "orphan"
    /\ SetCall(c, "dead")
    /\ UNCHANGED <<runVars, inUse, ghost, ip, running, daemon>>

(* Register of a container that was running and is not: started again with *)
(* -r, otherwise marked as stopped with the Ghost flag that Load set.      *)
RegisterDead(c) ==
    /\ call[c] = "dead"
    /\ ~Registering
    /\ ghost' = [ghost EXCEPT ![c] = ~AutoRestart]
    /\ IF AutoRestart
         THEN /\ SetCall(c, "acquire")
              /\ ip' = [ip EXCEPT ![c] = NoIP]
              /\ UNCHANGED running
         ELSE /\ SetCall(c, "stopped")
              /\ running' = running \ {c}
              /\ UNCHANGED ip
    /\ UNCHANGED <<runVars, inUse, daemon>>

-----------------------------------------------------------------------------
Run == TryNext \/ RoundOver \/ Mark

Registration(c) == Adopt(c) \/ Unadopt(c) \/ OrphanDies(c) \/ RegisterDead(c)

Next ==
    \/ Run
    \/ RestartDaemon \/ Serve
    \/ \E c \in Container :
         \/ Start(c) \/ StartGhost(c) \/ Acquire(c) \/ Started(c)
         \/ StartFails(c) \/ PortsFail(c) \/ UndoStart(c)
         \/ Exit(c) \/ Release(c)
         \/ Registration(c)

Spec == Init /\ [][Next]_vars

(* run() is a goroutine of its own, and goes on while somebody waits for   *)
(* it.  A channel serves those who wait for it in the order they came, and *)
(* select takes each ready case again and again: strong fairness for both  *)
(* rendezvous.                                                             *)
Blocked(c) == call[c] \in {"acquire", "reacquire", "undo", "release", "unadopt"}
Fairness ==
    /\ WF_vars((\E c \in Container : Blocked(c)) /\ Run)
    /\ \A c \in Container :
         SF_vars(Acquire(c) \/ UndoStart(c) \/ Release(c) \/ Unadopt(c))
FairSpec == Spec /\ Fairness

-----------------------------------------------------------------------------
(* Properties. *)

(* The containers whose process has, or is about to have, its address. *)
Holding(c) ==
    call[c] \in {"starting", "undo", "up", "release",
                 "orphan", "unadopt", "detached"}

(* The circumstances under which no address is ever given twice: either no *)
(* process outlives its daemon and -r restarts them, or none dies unseen,  *)
(* a ghost always gets its ports, and the bridge is not at FirstIP.        *)
SafeRestart ==
    \/ "survive" \notin Fates /\ AutoRestart
    \/ "die" \notin Fates /\ "adopt" \notin Faults /\ OwnIP # FirstIP

(* Allocate's "avoid duplicate IP": no two containers have one address,    *)
(* through any interleaving of run(), Starts, exits and restarts.          *)
UniqueIP ==
    \A c, d \in Container :
        c # d /\ Holding(c) /\ Holding(d) => ip[c] # ip[d]

(* run() reports "No unallocated IP available" only when every host        *)
(* address but the bridge's own is marked, wherever its search began and   *)
(* whatever was adopted while it searched.                                 *)
ErrorMeansFull ==
    pc = "select" /\ seen = "used" => Host \ {OwnIP} \subseteq inUse

(* The address looked at first after a release is a free one: the one that *)
(* was on offer or, if there was none, the released one.                   *)
ReleasedIsNext ==
    [][ \A c \in Container :
          call[c] = "release" /\ call'[c] = "stopped"
            => pos' \notin inUse' /\ pos' # OwnIP ]_vars

(* When every Start succeeds, the only addresses that can be lost are the  *)
(* one Allocate passes over and the bridge's own.                          *)
NothingLost ==
    \A a \in inUse \ {FirstIP, OwnIP} :
        \E c \in Container : Holding(c) /\ ip[c] = a

(* A caller blocked on one of the two channels is served. *)
CallsReturn == \A c \in Container : Blocked(c) ~> ~Blocked(c)

(* The allocator with its callers is a lease of the addresses. *)
Lease == INSTANCE ExclusiveLease WITH
    Holder <- Container,
    Resource <- Host,
    held <- [c \in Container |-> IF Holding(c) THEN {ip[c]} ELSE {}]

(* No step gives an address to a container while another one has it, or    *)
(* takes it from one that still has it.                                    *)
LeaseSpec == Lease!Spec
=============================================================================
