------------------------------ MODULE Volumes ------------------------------
(***************************************************************************)
(* The volumes of containers: Container.Start (container.go), Register     *)
(* (runtime.go), ContainerDestroy (server.go).  A container has volumes at *)
(* the paths its Config names and at those of another container, a source  *)
(* each: a directory of the host, or a new volume of the daemon's.  They   *)
(* are made by its first Start, kept in memory, and saved when it runs.    *)
(* Starts of several containers go on at the same time, and a daemon can   *)
(* die at any moment.                                                      *)
(***************************************************************************)
EXTENDS Naturals, FiniteSets, Functions, FiniteSetsExt

CONSTANTS
    Cont,     \* containers
    Config,   \* Config[c]: its volume paths, and the container of VolumesFrom
    Binds,    \* Binds[c][p]: the host directory docker run binds to p, and rw
    Shipped,  \* paths where the images have files
    MaxVols,  \* bound: volumes made
    None

VARIABLES
    state,    \* state[c]: where it is, in a Start or not
    binds,    \* binds[c]: the HostConfig of the Start that is going on
    vols,     \* vols[c][p]: its source at p, in memory
    rw,       \* rw[c][p]: whether it may write there
    saved,    \* saved[c]: what the disk has: vols, rw, binds
    graph,    \* volumes the daemon has made and not removed
    made,     \* volumes made so far
    data,     \* data[s]: what is in a source: "none", "image" or "user"
    ran       \* ran[c][p]: the source c's processes have had at p

vars == <<state, binds, vols, rw, saved, graph, made, data, ran>>

Host == UNION {{Binds[c][p].dir : p \in DOMAIN Binds[c]} : c \in Cont}
Source == Host \cup 1 .. MaxVols
Empty == <<>>
NotSaved == [vols |-> Empty, rw |-> Empty, binds |-> Empty]

TypeOK ==
    /\ state \in [Cont -> {"stopped", "starting", "making", "forked", "running", "removed"}]
    /\ \A c \in Cont : /\ DOMAIN vols[c] = DOMAIN rw[c]
                       /\ Range(vols[c]) \subseteq Source /\ Range(ran[c]) \subseteq Source
    /\ graph \subseteq 1 .. made /\ made \in 0 .. MaxVols
    /\ data \in [Source -> {"none", "image", "user"}]

Init ==
    /\ state = [c \in Cont |-> "stopped"] /\ binds = [c \in Cont |-> Empty]
    /\ vols = [c \in Cont |-> Empty] /\ rw = vols /\ ran = vols
    /\ saved = [c \in Cont |-> NotSaved]
    /\ graph = {} /\ made = 0
    /\ \E S \in SUBSET Host : data = [s \in Source |-> IF s \in S THEN "user" ELSE "none"]

Set(f, p, v) == [q \in DOMAIN f \cup {p} |-> IF q = p THEN v ELSE f[q]]
From(c) == Config[c].from
-----------------------------------------------------------------------------
(* Start with the binds of docker run, or with none; then those of the     *)
(* last Start that was saved are taken.                                    *)
StartBegin(c) ==
    /\ state[c] = "stopped"
    /\ state' = [state EXCEPT ![c] = "starting"]
    /\ \E b \in {Binds[c], Empty} :
          binds' = [binds EXCEPT ![c] = IF b = Empty THEN saved[c].binds ELSE b]
    /\ UNCHANGED <<vols, rw, saved, graph, made, data, ran>>

(* Any step may fail; what the container has got by then stays in memory.  *)
StartFails(c) ==
    /\ state[c] \in {"starting", "making"}
    /\ state' = [state EXCEPT ![c] = "stopped"] /\ binds' = [binds EXCEPT ![c] = Empty]
    /\ UNCHANGED <<vols, rw, saved, graph, made, data, ran>>

(* The volumes of the other container, as they are now; a path the         *)
(* container has already is left alone.                                    *)
There(c) == From(c) # None /\ state[From(c)] # "removed"
Inherited(c) == IF From(c) = None THEN {} ELSE DOMAIN vols[From(c)] \ DOMAIN vols[c]
InheritedRWMutant(c, p) == TRUE
InheritedRW(c, p) == rw[From(c)][p]
VolumesFrom(c) ==
    /\ state[c] = "starting" /\ (From(c) = None \/ There(c))
    /\ state' = [state EXCEPT ![c] = "making"]
    /\ vols' = [vols EXCEPT ![c] = [p \in DOMAIN @ \cup Inherited(c) |->
                                      IF p \in DOMAIN @ THEN @[p] ELSE vols[From(c)][p]]]
    /\ rw' = [rw EXCEPT ![c] = [p \in DOMAIN @ \cup Inherited(c) |->
                                  IF p \in DOMAIN @ THEN @[p] ELSE InheritedRW(c, p)]]
    /\ UNCHANGED <<binds, saved, graph, made, data, ran>>

(* A path of the Config that has no source yet gets the one that is bound  *)
(* to it, or a new volume.  What the image has there is copied to a        *)
(* source that is writable and empty.                                      *)
Missing(c) == Config[c].paths \ DOMAIN vols[c]
CopiedMutant(p, s, w) == IF w /\ p \in Shipped THEN "image" ELSE data[s]
Copied(p, s, w) == IF w /\ p \in Shipped /\ data[s] = "none" THEN "image" ELSE data[s]
AddVolume(c, p, s, w) ==
    /\ vols' = [vols EXCEPT ![c] = Set(@, p, s)]
    /\ rw' = [rw EXCEPT ![c] = Set(@, p, w)]
    /\ data' = [data EXCEPT ![s] = Copied(p, s, w)]
MakeVolume(c) ==
    /\ state[c] = "making"
    /\ \E p \in Missing(c) :
          IF p \in DOMAIN binds[c]
          THEN AddVolume(c, p, binds[c][p].dir, binds[c][p].rw) /\ UNCHANGED <<graph, made>>
          ELSE /\ made < MaxVols /\ made' = made + 1 /\ graph' = graph \cup {made + 1}
               /\ AddVolume(c, p, made + 1, TRUE)
    /\ UNCHANGED <<state, binds, saved, ran>>

(* lxc-start; then the container and the HostConfig are saved.             *)
Fork(c) ==
    /\ state[c] = "making" /\ Missing(c) = {}
    /\ state' = [state EXCEPT ![c] = "forked"]
    /\ ran' = [ran EXCEPT ![c] = [p \in DOMAIN @ \cup DOMAIN vols[c] |->
                                    IF p \in DOMAIN @ THEN @[p] ELSE vols[c][p]]]
    /\ UNCHANGED <<binds, vols, rw, saved, graph, made, data>>

SavingMutant(c) == [vols |-> saved[c].vols, rw |-> saved[c].rw, binds |-> binds[c]]
Saving(c) == [vols |-> vols[c], rw |-> rw[c], binds |-> binds[c]]
Save(c) ==
    /\ state[c] = "forked"
    /\ state' = [state EXCEPT ![c] = "running"]
    /\ saved' = [saved EXCEPT ![c] = Saving(c)] /\ binds' = [binds EXCEPT ![c] = Empty]
    /\ UNCHANGED <<vols, rw, graph, made, data, ran>>

(* The process writes where it may, and ends. *)
Use(c) ==
    /\ state[c] \in {"forked", "running"}
    /\ \E p \in DOMAIN vols[c] : rw[c][p] /\ data' = [data EXCEPT ![vols[c][p]] = "user"]
    /\ UNCHANGED <<state, binds, vols, rw, saved, graph, made, ran>>
Die(c) ==
    /\ state[c] = "running"
    /\ state' = [state EXCEPT ![c] = "stopped"]
    /\ UNCHANGED <<binds, vols, rw, saved, graph, made, data, ran>>

(* ContainerDestroy -v: the sources no other container has in memory are   *)
(* deleted - by their path, under which the graph of the volumes knows     *)
(* none: the first Delete fails.                                           *)
Used(c) == UNION {Range(vols[d]) : d \in {d \in Cont \ {c} : state[d] # "removed"}}
Delete(S) == graph
Destroy(c) ==
    /\ state[c] = "stopped"
    /\ state' = [state EXCEPT ![c] = "removed"]
    /\ vols' = [vols EXCEPT ![c] = Empty] /\ rw' = [rw EXCEPT ![c] = Empty]
    /\ saved' = [saved EXCEPT ![c] = NotSaved] /\ ran' = [ran EXCEPT ![c] = Empty]
    /\ \E v \in BOOLEAN : graph' = IF v THEN Delete(Range(vols[c]) \ Used(c)) ELSE graph
    /\ UNCHANGED <<binds, made, data>>

(* The daemon dies and comes back with what is saved; the processes that   *)
(* it knew of have ended.  One that was not saved is forgotten.            *)
Restart ==
    /\ vols' = [c \in Cont |-> saved[c].vols] /\ rw' = [c \in Cont |-> saved[c].rw]
    /\ binds' = [c \in Cont |-> Empty]
    /\ state' = [c \in Cont |-> IF state[c] = "removed" THEN "removed" ELSE "stopped"]
    /\ ran' = [c \in Cont |-> IF state[c] = "forked" THEN saved[c].vols ELSE ran[c]]
    /\ UNCHANGED <<saved, graph, made, data>>

Next ==
    \/ Restart
    \/ \E c \in Cont :
          \/ StartBegin(c) \/ StartFails(c) \/ VolumesFrom(c) \/ MakeVolume(c)
          \/ Fork(c) \/ Save(c) \/ Use(c) \/ Die(c) \/ Destroy(c)

Spec == Init /\ [][Next]_vars
-----------------------------------------------------------------------------
(* TestRestartWithVolumes: every process of a container finds at a path    *)
(* the source that its processes before had there, over failed starts and  *)
(* restarts of the daemon, whatever was started or removed in between.     *)
SameVolumes ==
    \A c \in Cont : state[c] \in {"forked", "running"} =>
        \A p \in DOMAIN ran[c] : p \in DOMAIN vols[c] /\ vols[c][p] = ran[c][p]

(* TestVolumesFromReadonlyMount: a container that has the source of        *)
(* another one by VolumesFrom may write to it only if that one may.        *)
ReadOnlyStays ==
    \A c \in Cont : There(c) =>
        \A p \in DOMAIN vols[c] \cap DOMAIN vols[From(c)] :
            vols[c][p] = vols[From(c)][p] /\ p \notin Config[c].paths
                => rw[c][p] = rw[From(c)][p]

(* What a container finds of its volumes whenever it is started.           *)
VolumesSafe == SameVolumes /\ ReadOnlyStays

(* What a process has written to a volume is never replaced by the files   *)
(* of an image.                                                            *)
UserDataStays == [][\A s \in Source : data[s] = "user" => data'[s] = "user"]_data
=============================================================================
