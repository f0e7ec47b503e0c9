-------------------------- MODULE DockerProvisioner --------------------------
(* tsuru's docker provisioner: the deploy and start pipelines over the       *)
(* cluster, the collection of containers and the router; the goroutines that *)
(* replace the units of a deployment; units added, removed, collected and    *)
(* healed. An image is the number of the deployment that committed it, 0 is  *)
(* the platform's. The actions of the pipelines are shared (result).         *)
EXTENDS Integers, FiniteSets, Sequences

CONSTANTS
    App, Cont,
    MaxDeploys,   \* bound on the deployments
    MaxOps,       \* bound on the other requests
    MaxPort,      \* bound on the times a container is started again
    Serial,       \* no request and no pipeline while another is under way
    None

VARIABLES
    cont,         \* the collection: [app, status, image, port], or None
    live, up,     \* containers that the cluster has, and those that run
    port,         \* the host port a container has now
    fresh,        \* containers never created
    route,        \* the router's addresses of each app: container and port
    backend,      \* apps with a backend in the router
    units,        \* the units in the app's document
    image,        \* the last image committed for the app
    result,       \* result[a]: Action.result
    jobs,         \* goroutines of the API server
    crashed,      \* the server died in the middle of something
    deploys, ops

vars == <<cont, live, up, port, fresh, route, backend, units, image, result, jobs,
          crashed, deploys, ops>>

DeployPipeline == <<"createContainer", "startContainer", "insertContainer">>
StartPipeline == <<"createContainer", "startContainer", "setNetworkInfo",
                   "insertContainer", "addRoute">>
PipelineOf(j) == IF j.kind = "deploy" THEN DeployPipeline ELSE StartPipeline
Actions == {"createContainer", "startContainer", "setNetworkInfo", "insertContainer",
            "addRoute"}

Containers(a) == {c \in Cont : cont[c] # None /\ cont[c].app = a}

Init ==
    /\ cont = [c \in Cont |-> None]
    /\ live = {} /\ up = {} /\ fresh = Cont
    /\ port = [c \in Cont |-> 0]
    /\ route = [a \in App |-> {}] /\ backend = App
    /\ units = [a \in App |-> {}]
    /\ image = [a \in App |-> 0]
    /\ result = [a \in Actions |-> None]
    /\ jobs = {} /\ crashed = FALSE
    /\ deploys = 0 /\ ops = 0

Job(kind, a, old, img, more) ==
    [kind |-> kind, app |-> a, old |-> old, image |-> img, more |-> more,
     phase |-> IF kind = "remove" THEN "stop" ELSE "forward",
     at |-> 1, c |-> None, by |-> deploys]
Becomes(j, k) == jobs' = (jobs \ {j}) \cup {k}
Ends(j) == jobs' = jobs \ {j}
Mayrun(j) == Serial => \A k \in jobs \ {j} :
                k.phase \in {"forward", "back", "result"} => (k.phase = "forward" /\ k.at = 1)
Runs(j, a) == j.phase = "forward" /\ j.at <= Len(PipelineOf(j)) /\ PipelineOf(j)[j.at] = a

(* Pipeline.Execute: the shared result is stored, then the next action.      *)
Completes(j, c) ==
    /\ result' = [result EXCEPT ![PipelineOf(j)[j.at]] = c]
    /\ Becomes(j, [j EXCEPT !.at = @ + 1, !.c = c,
            !.phase = IF j.at = Len(PipelineOf(j)) THEN "result" ELSE @])
Fails(j) ==
    /\ result' = [result EXCEPT ![PipelineOf(j)[j.at]] = None]
    /\ Becomes(j, [j EXCEPT !.at = @ - 1, !.phase = "back"])

CreateContainer(j) ==
    /\ Runs(j, "createContainer") /\ Mayrun(j)
    /\ \/ LET c == CHOOSE c \in fresh : TRUE
          IN  /\ fresh # {} /\ fresh' = fresh \ {c}
              /\ live' = live \cup {c} /\ Completes(j, c)
       \/ Fails(j) /\ UNCHANGED <<live, fresh>>
    /\ UNCHANGED <<cont, up, port, route, backend, units, image, crashed, deploys, ops>>

StartContainer(j) ==
    /\ Runs(j, "startContainer")
    /\ \/ j.c \in live /\ up' = up \cup {j.c} /\ Completes(j, j.c)
       \/ Fails(j) /\ UNCHANGED up
    /\ UNCHANGED <<cont, live, port, fresh, route, backend, units, image, crashed,
                   deploys, ops>>

SetNetworkInfo(j) ==
    /\ Runs(j, "setNetworkInfo")
    /\ (j.c \in live /\ Completes(j, j.c)) \/ Fails(j)
    /\ UNCHANGED <<cont, live, up, port, fresh, route, backend, units, image, crashed,
                   deploys, ops>>

InsertContainer(j) ==
    /\ Runs(j, "insertContainer") /\ Completes(j, j.c)
    /\ cont' = [cont EXCEPT ![j.c] =
            [app |-> j.app, status |-> "created", image |-> None, port |-> port[j.c]]]
    /\ UNCHANGED <<live, up, port, fresh, route, backend, units, image, crashed,
                   deploys, ops>>

AddRoute(j) ==
    /\ Runs(j, "addRoute")
    /\ \/ /\ j.app \in backend /\ cont[j.c] # None
          /\ route' = [route EXCEPT ![j.app] = @ \cup {<<j.c, cont[j.c].port>>}]
          /\ Completes(j, j.c)
       \/ Fails(j) /\ UNCHANGED route
    /\ UNCHANGED <<cont, live, up, port, fresh, backend, units, image, crashed,
                   deploys, ops>>

(* Pipeline.rollback; startContainer, setNetworkInfo and addRoute undo       *)
(* nothing.                                                                  *)
UndoesMutant(a) == a = "insertContainer"
Undoes(a) == a \in {"createContainer", "insertContainer"}
Rollback(j) ==
    /\ j.phase = "back" /\ j.at > 0
    /\ LET a == PipelineOf(j)[j.at]
           c == result[a]
       IN  /\ live' = IF a = "createContainer" /\ Undoes(a) THEN live \ {c} ELSE live
           /\ up' = IF a = "createContainer" /\ Undoes(a) THEN up \ {c} ELSE up
           /\ cont' = IF a = "insertContainer" /\ Undoes(a)
                      THEN [cont EXCEPT ![c] = None] ELSE cont
    /\ Becomes(j, [j EXCEPT !.at = @ - 1])
    /\ UNCHANGED <<port, fresh, route, backend, units, image, result, crashed, deploys, ops>>

(* When start fails, startInBackground uses the container it did not get:    *)
(* the nil pointer ends the whole server and every goroutine with it.        *)
Dies(j) ==
    IF j.kind = "background"
    THEN /\ jobs' = {} /\ crashed' = TRUE
         /\ result' = [a \in Actions |-> None]
    ELSE Ends(j) /\ UNCHANGED <<crashed, result>>
Failed(j) ==
    /\ \/ j.phase = "back" /\ j.at = 0
       \/ j.phase = "result" /\ result[PipelineOf(j)[Len(PipelineOf(j))]] = None
    /\ Dies(j)
    /\ UNCHANGED <<cont, live, up, port, fresh, route, backend, units, image, deploys, ops>>

(* start after its pipeline: the container is the one that Pipeline.Result   *)
(* gives, with its image and its status; then the old unit is removed.       *)
Started(j) ==
    /\ j.phase = "result" /\ j.kind \in {"background", "addUnits"}
    /\ LET c == result["addRoute"] IN
       /\ c # None /\ cont[c] # None
       /\ cont' = [cont EXCEPT ![c].image = j.image, ![c].status = "running"]
       /\ IF j.kind = "background" /\ j.old # None
          THEN Becomes(j, [j EXCEPT !.phase = "stop", !.c = c])
          ELSE IF j.more > 1
               THEN Becomes(j, [j EXCEPT !.phase = "forward", !.at = 1, !.more = @ - 1,
                                         !.c = None])
               ELSE Ends(j)
    /\ UNCHANGED <<live, up, port, fresh, route, backend, units, image, result, crashed,
                   deploys, ops>>

(* deploy after its pipeline: the container runs its commands to their end,  *)
(* is committed as the new image and removed.                                *)
Exits(c) ==
    /\ c \in up /\ \E j \in jobs : j.kind = "deploy" /\ j.phase = "result" /\ j.c = c
    /\ up' = up \ {c}
    /\ UNCHANGED <<cont, live, port, fresh, route, backend, units, image, result, jobs,
                   crashed, deploys, ops>>
Committed(j) ==
    /\ j.kind = "deploy" /\ j.phase = "result"
    /\ result["insertContainer"] \notin up \cup {None}
    /\ \/ /\ image' = [image EXCEPT ![j.app] = j.image]
          /\ Becomes(j, [j EXCEPT !.phase = "remove", !.old = result["insertContainer"]])
       \/ Ends(j) /\ UNCHANGED image
    /\ UNCHANGED <<cont, live, up, port, fresh, route, backend, units, result, crashed,
                   deploys, ops>>

(* removeContainer and container.remove: out of the cluster, the collection  *)
(* and the router; every error is only logged.                               *)
StopMutant(j) ==
    /\ j.phase = "stop"
    /\ units' = IF j.kind = "background"
                THEN [units EXCEPT ![j.app] = @ \ {j.old}] ELSE units
    /\ Becomes(j, [j EXCEPT !.phase = "remove"])
    /\ UNCHANGED <<cont, live, up, port, fresh, route, backend, image, result, crashed,
                   deploys, ops>>
Stop(j) ==
    /\ j.phase = "stop"
    /\ up' = up \ {j.old}
    /\ units' = IF j.kind = "background"
                THEN [units EXCEPT ![j.app] = @ \ {j.old}] ELSE units
    /\ Becomes(j, [j EXCEPT !.phase = "remove"])
    /\ UNCHANGED <<cont, live, port, fresh, route, backend, image, result, crashed,
                   deploys, ops>>
Address(c) == IF cont[c] = None THEN {} ELSE {<<c, cont[c].port>>}
RemoveMutant(j) ==
    /\ j.phase = "remove"
    /\ live' = live \ {j.old}
    /\ cont' = [cont EXCEPT ![j.old] = None]
    /\ IF j.kind = "deploy" THEN Becomes(j, [j EXCEPT !.phase = "spawn"]) ELSE Ends(j)
    /\ UNCHANGED <<up, port, fresh, route, backend, units, image, result, crashed,
                   deploys, ops>>
Remove(j) ==
    /\ j.phase = "remove"
    /\ live' = live \ {j.old}
    /\ cont' = [cont EXCEPT ![j.old] = None]
    /\ route' = [route EXCEPT ![j.app] = @ \ Address(j.old)]
    /\ IF j.kind = "deploy" THEN Becomes(j, [j EXCEPT !.phase = "spawn"]) ELSE Ends(j)
    /\ UNCHANGED <<up, port, fresh, backend, units, image, result, crashed, deploys, ops>>

(* Deploy: one goroutine for each container that the collection has now.     *)
ReplacedMutant(a) == IF Containers(a) = {} THEN {None} ELSE Containers(a) \cap units[a]
Replaced(a) == IF Containers(a) = {} THEN {None} ELSE Containers(a)
Spawn(j) ==
    /\ j.phase = "spawn"
    /\ jobs' = (jobs \ {j}) \cup
               {Job("background", j.app, c, j.image, 1) : c \in Replaced(j.app)}
    /\ crashed' = FALSE
    /\ UNCHANGED <<cont, live, up, port, fresh, route, backend, units, image, result,
                   deploys, ops>>

Deploy(a) ==
    /\ deploys < MaxDeploys /\ a \in backend
    /\ Serial => jobs = {}
    /\ jobs' = jobs \cup {Job("deploy", a, None, deploys + 1, 1)}
    /\ deploys' = deploys + 1
    /\ UNCHANGED <<cont, live, up, port, fresh, route, backend, units, image, result,
                   crashed, ops>>

(* AddUnits: the image is that of some container, or else the platform's: a  *)
(* build container that a failed deployment left counts (not when Serial).   *)
GetImage(a) ==
    IF Containers(a) = {} THEN {0}
    ELSE {IF cont[c].image = None THEN 0 ELSE cont[c].image : c \in Containers(a)}
AddUnits(a, n) ==
    /\ ops < MaxOps /\ Containers(a) # {}
    /\ Serial => (jobs = {} /\ \A c \in Containers(a) : cont[c].status = "running")
    /\ \E i \in GetImage(a) : jobs' = jobs \cup {Job("addUnits", a, None, i, n)}
    /\ ops' = ops + 1
    /\ UNCHANGED <<cont, live, up, port, fresh, route, backend, units, image, result,
                   crashed, deploys>>

RemoveUnit(c) ==
    /\ ops < MaxOps /\ cont[c] # None
    /\ Serial => jobs = {}
    /\ jobs' = jobs \cup {Job("remove", cont[c].app, c, 0, 1)}
    /\ ops' = ops + 1
    /\ UNCHANGED <<cont, live, up, port, fresh, route, backend, units, image, result,
                   crashed, deploys>>

Destroy(a) ==
    /\ ops < MaxOps /\ a \in backend
    /\ Serial => jobs = {}
    /\ jobs' = jobs \cup {Job("remove", a, c, 0, 1) : c \in Containers(a)}
    /\ backend' = backend \ {a}
    /\ ops' = ops + 1
    /\ UNCHANGED <<cont, live, up, port, fresh, route, units, image, result, crashed, deploys>>

(* The healer kills and starts a container, which gets another host port;    *)
(* collectUnit finds it and moves the route.                                 *)
Heal(c) ==
    /\ c \in live /\ cont[c] # None /\ cont[c].status = "running" /\ port[c] < MaxPort
    /\ Serial => jobs = {}
    /\ up' = up \cup {c}
    /\ port' = [port EXCEPT ![c] = @ + 1]
    /\ UNCHANGED <<cont, live, fresh, route, backend, units, image, result, jobs, crashed,
                   deploys, ops>>

FixContainer(c) ==
    /\ cont' = [cont EXCEPT ![c].port = port[c]]
    /\ route' = [route EXCEPT ![cont[c].app] =
            (@ \ Address(c)) \cup (IF cont[c].app \in backend THEN {<<c, port[c]>>} ELSE {})]
CollectUnit(c) ==
    /\ cont[c] # None /\ cont[c].status # "created" /\ c \in live
    /\ Serial => jobs = {}
    /\ cont[c].port # port[c] \/ c \notin units[cont[c].app]
    /\ units' = [units EXCEPT ![cont[c].app] = @ \cup {c}]
    /\ IF cont[c].port # port[c] THEN FixContainer(c) ELSE UNCHANGED <<cont, route>>
    /\ UNCHANGED <<live, up, port, fresh, backend, image, result, jobs, crashed, deploys, ops>>

Next ==
    \/ \E j \in jobs :
        \/ CreateContainer(j) \/ StartContainer(j) \/ SetNetworkInfo(j)
        \/ InsertContainer(j) \/ AddRoute(j) \/ Rollback(j) \/ Failed(j) \/ Started(j)
        \/ Committed(j) \/ Stop(j) \/ Remove(j) \/ Spawn(j)
    \/ \E a \in App : Deploy(a) \/ Destroy(a) \/ (\E n \in 1..2 : AddUnits(a, n))
    \/ \E c \in Cont : Exits(c) \/ RemoveUnit(c) \/ Heal(c) \/ CollectUnit(c)

Spec == Init /\ [][Next]_vars
-----------------------------------------------------------------------------
TypeOK ==
    /\ \A c \in Cont : (cont[c] # None) =>
        (cont[c].app \in App /\ cont[c].status \in {"created", "running"})
    /\ up \subseteq live /\ live \cap fresh = {}
    /\ \A a \in App : units[a] \subseteq Cont /\ image[a] \in 0..deploys

Quiet == jobs = {} /\ ~crashed

(* start and remove: when nothing is under way, the router of an app knows   *)
(* exactly the addresses of its containers that run, whatever failed before. *)
RoutesAreUnits ==
    Quiet => \A a \in backend :
        route[a] = {<<c, cont[c].port>> : c \in {c \in Containers(a) : cont[c].status = "running"}}

(* The pipelines leave no container behind that the collection does not      *)
(* know, and the collection lists none that is gone.                         *)
NothingLeaks == (jobs = {} /\ ~crashed) => (live = {c \in Cont : cont[c] # None})

(* A deployment that was committed runs in every unit of the app, also after *)
(* one that ended with the server (Deploy, startInBackground).               *)
NewestRuns ==
    Quiet => \A a \in backend : \A c \in Containers(a) :
        cont[c].status = "running" => cont[c].image = image[a]

(* Router, cluster, collection and deployment are in step.                 *)
UnitsSafe == RoutesAreUnits /\ NothingLeaks /\ NewestRuns
=============================================================================
