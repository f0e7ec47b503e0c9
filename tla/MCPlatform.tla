----------------------------- MODULE MCPlatform -----------------------------
(*****************************************************************************)
(* The components of tsuru in one run: every behaviour is that of one        *)
(* part. Applications are checked twice, one request at a time, and with     *)
(* requests that interleave.                                                 *)
(*****************************************************************************)
EXTENDS TsuruProofs, Integers, TLC

CONSTANTS u1, u2, a1, a2, i1, i2, x, y, m1, m2, n1, n2, q1, q2, Parts

VARIABLES
    part,  \* the component that this behaviour is about
    cont, live, up, port, fresh, route, backend, units, image, dockerResult,
    jobs, crashed, deploys, dockerOps,
    frontend, alias, cname, router, serves, swap, hops, asked,
    nodes, lastUsed, conts, clusterRunning, imgs, host, imageHost, call,
    owner,
    robinNodes, robinLastUsed, robinConts, robinRunning, robinImgs,
    robinHost, robinImageHost, robinCall, robinOwner,
    machine, disk, holds, link, act, breaks,
    service, jujuUnits, added, jujuMachine, killed, balancer, jujuDoc, coll,
    queue, handler, heals, jujuReq, jujuOps,
    boot, bucket, saved, status, healersUp, conf, knows, sick, size, started,
    healers, run, healersBreaks

MembersOf == i1 :> {u1, u2} @@ i2 :> {u2}
OwnersOf == a1 :> {i1} @@ a2 :> {i1, i2}
VarsOf == i1 :> {"host"} @@ i2 :> {"host", "user"}
Kinds == m1 :> "envstart" @@ m2 :> "start"
Limits == u1 :> 1 @@ u2 :> None
NodeTeams == n1 :> i1 @@ n2 :> "anyone"
AppTeams == a1 :> {i1} @@ a2 :> {i1, i2}
OwnNames == q1 :> n1 @@ q2 :> n2

Prov == INSTANCE DockerProvisioner WITH
    App <- {a1}, Cont <- {"c1", "c2", "c3", "c4", "c5", "c6", "c7"},
    MaxDeploys <- 2, MaxOps <- 1, MaxPort <- 1, Serial <- TRUE,
    result <- dockerResult, ops <- dockerOps

Hip == INSTANCE HipacheRouter WITH
    App <- {a1, a2}, Address <- {x, y}, CName <- {i1, i2}, MaxOps <- 7,
    Odd <- FALSE

Cl == INSTANCE DockerCluster WITH
    Node <- {n1, n2}, Cont <- {"c1", "c2"}, Image <- {"i"}, App <- {a1, a2},
    Call <- {q1, q2}, NodeTeam <- NodeTeams, TeamsOf <- AppTeams,
    Faults <- {"error"}, Patient <- TRUE, Anyone <- "anyone",
    Storing <- TRUE, Segregated <- TRUE, Ring <- <<n1, n2>>,
    Ops <- {"start", "stop", "remove", "commit", "push"},
    running <- clusterRunning

Robin == INSTANCE DockerCluster WITH
    Node <- {n1, n2}, Cont <- {"c1", "c2"}, Image <- {"i"}, App <- {a1, a2},
    Call <- {q1, q2}, NodeTeam <- NodeTeams, TeamsOf <- AppTeams,
    Faults <- {"error"}, Patient <- TRUE, Anyone <- "anyone",
    Storing <- FALSE, Segregated <- FALSE, Ring <- <<n1>>,
    Ops <- {"inspect", "push", "remove", "commit", "pull", "removeImage", "import"},
    nodes <- robinNodes, lastUsed <- robinLastUsed, conts <- robinConts,
    running <- robinRunning, imgs <- robinImgs, host <- robinHost,
    imageHost <- robinImageHost, call <- robinCall, owner <- robinOwner

OnRax == INSTANCE Clouds WITH
    Host <- {n1, n2}, Instance <- OwnNames, Jobs <- {"c1", "c2", "c3"},
    Cont <- {x, y}, Faults <- {}, MaxBreaks <- 0, Rax <- {q1, q2}, Gce <- {}

OnGce == INSTANCE Clouds WITH
    Host <- {n1, n2}, Instance <- OwnNames, Jobs <- {"c1", "c2", "c3"},
    Cont <- {x, y}, Faults <- {"config", "api"}, MaxBreaks <- 0, Rax <- {},
    Gce <- {q1, q2}

Juju == INSTANCE JujuProvisioner WITH
    Unit <- 1 .. 3, MaxGens <- 2, MaxHeals <- 1, MaxOps <- 4, Faults <- {},
    Calm <- TRUE, units <- jujuUnits, machine <- jujuMachine, doc <- jujuDoc,
    req <- jujuReq, ops <- jujuOps

Heal == INSTANCE Healers WITH
    Unit <- {1}, MaxBoots <- 2, MaxBreaks <- 1, Faults <- {"sick"},
    Calm <- FALSE, up <- healersUp, breaks <- healersBreaks

ASSUME AppConstants == Apps!LimitAssumption

OwnVars == vars
ProvVars == <<cont, live, up, port, fresh, route, backend, units, image, dockerResult,
    jobs, crashed, deploys, dockerOps>>
HipVars == <<frontend, alias, cname, router, serves, swap, hops, asked>>
ClVars == <<nodes, lastUsed, conts, clusterRunning, imgs, host, imageHost, call, owner>>
RobinVars == <<robinNodes, robinLastUsed, robinConts, robinRunning, robinImgs, robinHost,
    robinImageHost, robinCall, robinOwner>>
OnRaxVars == <<machine, disk, holds, link, act, breaks>>
JujuVars == <<service, jujuUnits, added, jujuMachine, killed, balancer, jujuDoc, coll,
    queue, handler, heals, jujuReq, jujuOps>>
HealVars == <<boot, bucket, saved, status, healersUp, conf, knows, sick, size, started,
    healers, run, healersBreaks>>

UInit ==
    /\ part \in Parts
    /\ Init
    /\ Apps!Init
    /\ Prov!Init
    /\ Hip!Init
    /\ Bind!Init
    /\ Teams!Init
    /\ Acc!Init
    /\ Cl!Init /\ (part # "cluster" => imgs = [n \in {n1, n2} |-> {}] /\ "c1" \in conts[n1] /\ owner["c1"] = a1)
    /\ Robin!Init /\ (part # "robin" => robinImgs = [n \in {n1, n2} |-> {}] /\ "c1" \in robinConts[n1] /\ robinOwner["c1"] = a1)
    /\ (IF part = "gce" THEN OnGce!Init ELSE OnRax!Init)
    /\ Juju!Init
    /\ Heal!Init

UNext ==
    \/ /\ part = "queue" /\ Next
       /\ UNCHANGED <<part, AppsVars, ProvVars, HipVars, BindVars, TeamsVars, AccVars,
            ClVars, RobinVars, OnRaxVars, JujuVars, HealVars>>
    \/ /\ part = "apps" /\ Apps!Next
       /\ UNCHANGED <<part, OwnVars, ProvVars, HipVars, BindVars, TeamsVars, AccVars,
            ClVars, RobinVars, OnRaxVars, JujuVars, HealVars>>
    \/ /\ part = "races" /\ Races!Next
       /\ UNCHANGED <<part, OwnVars, ProvVars, HipVars, BindVars, TeamsVars, AccVars,
            ClVars, RobinVars, OnRaxVars, JujuVars, HealVars>>
    \/ /\ part = "docker" /\ Prov!Next
       /\ UNCHANGED <<part, OwnVars, AppsVars, HipVars, BindVars, TeamsVars, AccVars,
            ClVars, RobinVars, OnRaxVars, JujuVars, HealVars>>
    \/ /\ part = "hipache" /\ Hip!Next
       /\ UNCHANGED <<part, OwnVars, AppsVars, ProvVars, BindVars, TeamsVars, AccVars,
            ClVars, RobinVars, OnRaxVars, JujuVars, HealVars>>
    \/ /\ part = "bind" /\ Bind!Next
       /\ UNCHANGED <<part, OwnVars, AppsVars, ProvVars, HipVars, TeamsVars, AccVars,
            ClVars, RobinVars, OnRaxVars, JujuVars, HealVars>>
    \/ /\ part = "teams" /\ Teams!Next
       /\ UNCHANGED <<part, OwnVars, AppsVars, ProvVars, HipVars, BindVars, AccVars,
            ClVars, RobinVars, OnRaxVars, JujuVars, HealVars>>
    \/ /\ part = "teamraces" /\ TeamRaces!Next
       /\ UNCHANGED <<part, OwnVars, AppsVars, ProvVars, HipVars, BindVars, AccVars,
            ClVars, RobinVars, OnRaxVars, JujuVars, HealVars>>
    \/ /\ part = "accounts" /\ Acc!Next
       /\ UNCHANGED <<part, OwnVars, AppsVars, ProvVars, HipVars, BindVars, TeamsVars,
            ClVars, RobinVars, OnRaxVars, JujuVars, HealVars>>
    \/ /\ part = "sessions" /\ Sessions!Next
       /\ UNCHANGED <<part, OwnVars, AppsVars, ProvVars, HipVars, BindVars, TeamsVars,
            ClVars, RobinVars, OnRaxVars, JujuVars, HealVars>>
    \/ /\ part = "cluster" /\ Cl!Next
       /\ UNCHANGED <<part, OwnVars, AppsVars, ProvVars, HipVars, BindVars, TeamsVars,
            AccVars, RobinVars, OnRaxVars, JujuVars, HealVars>>
    \/ /\ part = "robin" /\ Robin!Next
       /\ UNCHANGED <<part, OwnVars, AppsVars, ProvVars, HipVars, BindVars, TeamsVars,
            AccVars, ClVars, OnRaxVars, JujuVars, HealVars>>
    \/ /\ part = "rax" /\ OnRax!Next
       /\ UNCHANGED <<part, OwnVars, AppsVars, ProvVars, HipVars, BindVars, TeamsVars,
            AccVars, ClVars, RobinVars, JujuVars, HealVars>>
    \/ /\ part = "gce" /\ OnGce!Next
       /\ UNCHANGED <<part, OwnVars, AppsVars, ProvVars, HipVars, BindVars, TeamsVars,
            AccVars, ClVars, RobinVars, JujuVars, HealVars>>
    \/ /\ part = "juju" /\ Juju!Next
       /\ UNCHANGED <<part, OwnVars, AppsVars, ProvVars, HipVars, BindVars, TeamsVars,
            AccVars, ClVars, RobinVars, OnRaxVars, HealVars>>
    \/ /\ part = "healers" /\ Heal!Next
       /\ UNCHANGED <<part, OwnVars, AppsVars, ProvVars, HipVars, BindVars, TeamsVars,
            AccVars, ClVars, RobinVars, OnRaxVars, JujuVars>>

UVars == <<part, OwnVars, AppsVars, ProvVars, HipVars, BindVars, TeamsVars,
    AccVars, ClVars, RobinVars, OnRaxVars, JujuVars, HealVars>>
USpec ==
    /\ UInit /\ [][UNext]_UVars

(* Every part's variables have their types in every state of its           *)
(* behaviours.                                                             *)
Typed ==
    /\ (part = "queue" => TypeOK)
    /\ (part \in {"apps", "races"} => Apps!TypeOK)
    /\ (part = "docker" => Prov!TypeOK)
    /\ (part = "hipache" => Hip!TypeOK)
    /\ (part = "bind" => Bind!TypeOK)
    /\ (part \in {"teams", "teamraces"} => Teams!TypeOK)
    /\ (part \in {"accounts", "sessions"} => Acc!TypeOK)
    /\ (part = "cluster" => Cl!TypeOK)
    /\ (part = "rax" => OnRax!TypeOK)
    /\ (part = "gce" => OnGce!TypeOK)
    /\ (part = "juju" => Juju!TypeOK)
    /\ (part = "healers" => Heal!TypeOK)

(* ServiceBinding: the environment and the endpoint agree with what is     *)
(* bound.                                                                  *)
BindingsSafe == part = "bind" => Bind!BindingsSafe

(* ServiceBinding: the endpoint is told of every unit of a bound app.      *)
AllUnitsFollow == Bind!AllUnitsFollow

(* DockerProvisioner, JujuProvisioner, Healers and HipacheRouter: the      *)
(* units, their machines, the router and what is remembered of them are in *)
(* step, nothing is left half done, and a name leads to its own units,     *)
(* through swaps and CNAMEs.                                               *)
UnitsSafe ==
    /\ (part = "docker" => Prov!UnitsSafe)
    /\ (part = "juju" => Juju!JujuSafe)
    /\ (part = "healers" => Heal!NothingHalfDone)
    /\ (part = "hipache" => Hip!RoutesSafe)

(* DockerCluster, with a storage and tsuru's scheduler, and without, and   *)
(* Clouds: every container is found where it is, calls are answered with   *)
(* what the nodes did, teams' nodes are their own, and who serves has a    *)
(* machine to send jobs to.                                                *)
ClusterSafe ==
    /\ (part = "cluster" => Cl!ClusterSafe)
    /\ (part = "robin" => Robin!ClusterSafe)
    /\ (part = "rax" => OnRax!CloudsSafe)
    /\ (part = "gce" => OnGce!CloudsSafe)

(* TeamAccess and Accounts: git server and database agree on who can push  *)
(* and with which keys, apps stay in reach, and sessions and password      *)
(* tokens in bounds.                                                       *)
PeopleSafe ==
    /\ (part = "teams" => Teams!AppsReachable /\ Teams!GitFollows)
    /\ (part = "accounts" => Acc!AccountsSafe)
    /\ (part = "sessions" => Sessions!SessionsBounded)

(* AppLifecycle: a creation takes effect as a whole or not at all when     *)
(* requests come one at a time; no quota is ever exceeded.                 *)
AppsSafe ==
    /\ (part = "apps" => Apps!AllOrNothing)
    /\ (part \in {"apps", "races"} => Apps!QuotaKept)

(* AppLifecycle, TeamAccess, WorkQueue and DockerCluster: no removal takes *)
(* an app's last unit, its last team or a team's last user; Preempt        *)
(* returns after the loop it stopped, and PullImage when the image is on   *)
(* every node that did not fail.                                           *)
NothingOverrun ==
    /\ Apps!AUnitStays
    /\ TeamRaces!NoOrphans
    /\ PreemptWaits
    /\ Robin!PulledEverywhere
=============================================================================
