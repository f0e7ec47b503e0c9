------------------------------- MODULE Clouds -------------------------------
(***************************************************************************)
(* libswarm's backends for machines in a cloud (backends/rax.go, cloud.go, *)
(* gce.go): a command finds or builds a machine, and jobs on containers    *)
(* then go through an ssh tunnel to a docker there. Each provider has one  *)
(* local port. A rax job looks for a machine of its own and opens a tunnel *)
(* to it, a gce command opens one that its jobs share.                     *)
(***************************************************************************)
EXTENDS Naturals, FiniteSets

CONSTANTS
    Host,      \* machines that there may be
    Rax, Gce,  \* commands, each given to a swarmd on the same computer
    Instance,  \* Instance[c]: the name that the gce command c gives
    Jobs,      \* jobs, each is run once
    Cont,      \* containers
    Faults,    \* what may fail: "config", "api", "ssh", "build"
    MaxBreaks, \* bound: machines deleted and tunnels that die
    None

Command == Rax \cup Gce
Actor == Command \cup Jobs
Port == {"rax", "gce"}

VARIABLES
    machine,  \* machine[h]: its status, "none" when it does not exist
    disk,     \* gce's root disk: "none", "free" or the machine that has it
    holds,    \* holds[h]: the containers on it
    link,     \* link[p]: where the ssh that listens on p leads to
    act,      \* act[a]: how far the command or job is
    breaks
vars == <<machine, disk, holds, link, act, breaks>>
world == <<machine, disk, holds, link, breaks>>

Pc == {"out", "auth", "list", "details", "create", "wait", "disk", "newdisk",
       "insert", "tunnel", "serving", "call", "ok", "failed"}
NoAct == [pc |-> "out", port |-> "rax", op |-> "none", cont |-> None,
          host |-> None, left |-> {}, found |-> {}, met |-> FALSE]

TypeOK ==
    /\ machine \in [Host -> {"none", "build", "active", "error"}]
    /\ disk \in {"none", "free"} \cup Host
    /\ holds \in [Host -> SUBSET Cont]
    /\ link \in [Port -> Host \cup {None, "gone"}]
    /\ act \in [Actor -> [pc : Pc, port : Port,
                          op : {"none", "create", "use", "restart", "delete", "look"},
                          cont : Cont \cup {None}, host : Host \cup {None},
                          left : SUBSET Host, found : SUBSET Host,
                          met : BOOLEAN]]
    /\ breaks \in 0 .. MaxBreaks

Init ==
    /\ machine = [h \in Host |-> "none"] /\ disk = "none"
    /\ holds = [h \in Host |-> {}] /\ link = [p \in Port |-> None]
    /\ act = [a \in Actor |->
                 [NoAct EXCEPT !.port = IF a \in Gce THEN "gce" ELSE "rax"]]
    /\ breaks = 0

Goes(a, pc) == act' = [act EXCEPT ![a].pc = pc]
(* The command or job answers an error, and a command registers no jobs. *)
Fails(a) == Goes(a, "failed")
Up(h) == h \in Host /\ machine[h] = "active"
-----------------------------------------------------------------------------
(* A command: its flags, then its credentials. *)

Options(c) ==
    /\ act[c].pc = "out"
    /\ Goes(c, "auth") \/ ("config" \in Faults /\ Fails(c))
    /\ UNCHANGED world

Authenticate(c) ==
    /\ act[c].pc = "auth"
    /\ Goes(c, "list") \/ ("config" \in Faults /\ Fails(c))
    /\ UNCHANGED world
-----------------------------------------------------------------------------
(* rax. *)

(* findDeploymentHosts lists the servers that are called rdas_target_ and  *)
(* asks for each one's status: one that is gone by then is an error.       *)
Searching(a) == a \in Rax \cup Jobs
DockerHosts ==
    {h \in Host : machine[h] # "none" /\ \A c \in Gce : Instance[c] # h}
List(a) ==
    /\ act[a].pc = "list" /\ Searching(a)
    /\ \/ act' = [act EXCEPT ![a].pc = "details", ![a].found = {},
                             ![a].left = DockerHosts]
       \/ "api" \in Faults /\ Fails(a)
    /\ UNCHANGED world
Detail(a) ==
    /\ act[a].pc = "details"
    /\ \E h \in act[a].left :
        \/ /\ machine[h] # "none"
           /\ act' = [act EXCEPT ![a].left = @ \ {h},
                                 ![a].found = IF Up(h) THEN @ \cup {h} ELSE @]
        \/ (machine[h] = "none" \/ "api" \in Faults) /\ Fails(a)
    /\ UNCHANGED world

(* findTargetHost takes whichever of a map is first. *)
Target(a) ==
    IF act[a].found = {} THEN {None} ELSE act[a].found
Pick(a) ==
    /\ act[a].pc = "details" /\ act[a].left = {}
    /\ \E h \in Target(a) :
        act' = [act EXCEPT ![a].host = h, ![a].found = {},
                  ![a].pc = IF a \in Jobs THEN "tunnel"
                            ELSE IF h = None THEN "create" ELSE "serving"]
    /\ UNCHANGED world

(* What createHost returns is dropped: run registers the jobs anyway.      *)
CreateHost(c) ==
    /\ act[c].pc = "create"
    /\ \/ \E h \in Host :
            /\ machine[h] = "none" /\ \A a \in Actor : act[a].host # h
            /\ \A g \in Gce : Instance[g] # h
            /\ machine' = [machine EXCEPT ![h] = "build"]
            /\ act' = [act EXCEPT ![c].pc = "wait", ![c].host = h]
       \/ /\ "api" \in Faults /\ Goes(c, "serving")
          /\ UNCHANGED machine
    /\ UNCHANGED <<disk, holds, link, breaks>>

(* Mutant: an error while waiting is ignored. *)
WaitForStatusMutant(c) ==
    /\ act[c].pc = "wait" /\ c \in Rax /\ Up(act[c].host)
    /\ Goes(c, "serving") /\ UNCHANGED world
(* It waits for ACTIVE or an error of the call, not for a build's failure. *)
WaitForStatus(c) ==
    /\ act[c].pc = "wait" /\ c \in Rax
    /\ machine[act[c].host] \in {"active", "none"}
    /\ Goes(c, "serving") /\ UNCHANGED world
WaitFails(c) ==
    /\ act[c].pc = "wait" /\ "api" \in Faults
    /\ Goes(c, "serving") /\ UNCHANGED world

(* A job gets a host context, a tunnel to the machine it has found. ssh -f *)
(* goes to the background and stays there, without a forward if something  *)
(* listens on the port already.                                            *)
Forward(p, h) == [link EXCEPT ![p] = IF @ = None THEN h ELSE @]
OpenTunnel(j) ==
    /\ act[j].pc = "tunnel" /\ j \in Jobs
    /\ \/ /\ Up(act[j].host)
          /\ link' = Forward("rax", act[j].host) /\ Goes(j, "call")
       \/ /\ ~Up(act[j].host) \/ "ssh" \in Faults
          /\ Fails(j) /\ UNCHANGED link
    /\ UNCHANGED <<machine, disk, holds, breaks>>

(* Mutant: the ssh that listens is killed with the context. *)
ClosedMutant(p) == IF p = "rax" THEN [link EXCEPT ![p] = None] ELSE link
(* Close kills the ssh that was started, which has exited, and not the one *)
(* it has left in the background.                                          *)
Closed(p) == link
-----------------------------------------------------------------------------
(* gce. *)

(* Any error of GetPublicIPAddress counts as no instance. *)
GetAddress(c) ==
    /\ act[c].pc = "list" /\ c \in Gce
    /\ \/ Up(Instance[c]) /\ Goes(c, "tunnel")
       \/ (~Up(Instance[c]) \/ "api" \in Faults) /\ Goes(c, "disk")
    /\ UNCHANGED world

(* getOrCreateRootDisk: all instances have one disk. *)
GetDisk(c) ==
    /\ act[c].pc = "disk"
    /\ \/ disk # "none" /\ Goes(c, "insert")
       \/ (disk = "none" \/ "api" \in Faults) /\ Goes(c, "newdisk")
    /\ UNCHANGED world
CreateDisk(c) ==
    /\ act[c].pc = "newdisk"
    /\ \/ disk = "none" /\ disk' = "free" /\ Goes(c, "insert")
       \/ (disk # "none" \/ "api" \in Faults) /\ Fails(c) /\ UNCHANGED disk
    /\ UNCHANGED <<machine, holds, link, breaks>>

(* An operation that is DONE may have failed, as when another instance has *)
(* the disk: waitForOp does not tell.                                      *)
Insert(c) ==
    LET i == Instance[c] IN
    /\ act[c].pc = "insert"
    /\ \/ /\ machine[i] = "none" /\ disk = "free"
          /\ machine' = [machine EXCEPT ![i] = "build"] /\ disk' = i
          /\ Goes(c, "wait")
       \/ /\ machine[i] = "none" /\ disk # "free"
          /\ Goes(c, "wait") \/ Fails(c)
          /\ UNCHANGED <<machine, disk>>
       \/ /\ machine[i] # "none" \/ "api" \in Faults
          /\ Fails(c) /\ UNCHANGED <<machine, disk>>
    /\ UNCHANGED <<holds, link, breaks>>

(* Mutant: the operation is not waited for. *)
WaitForOpMutant(c) ==
    /\ act[c].pc = "wait" /\ c \in Gce
    /\ Goes(c, "tunnel") /\ UNCHANGED world
(* The result of a call that fails is used: the command dies of it.        *)
WaitForOp(c) ==
    /\ act[c].pc = "wait" /\ c \in Gce
    /\ \/ machine[Instance[c]] # "build" /\ Goes(c, "tunnel")
       \/ "api" \in Faults /\ Fails(c)
    /\ UNCHANGED world

(* If something answers on the port it is taken for the tunnel; what ssh   *)
(* returns is dropped.                                                     *)
SecureTunnel(c) ==
    LET i == Instance[c]
        active == Up(link["gce"]) IN
    /\ act[c].pc = "tunnel" /\ c \in Gce
    /\ \/ active /\ Goes(c, "serving") /\ UNCHANGED link
       \/ ~active /\ machine[i] = "none" /\ Fails(c) /\ UNCHANGED link
       \/ /\ ~active /\ Up(i) /\ Goes(c, "serving")
          /\ link' = Forward("gce", i)
       \/ /\ ~active /\ machine[i] # "none" /\ (~Up(i) \/ "ssh" \in Faults)
          /\ Goes(c, "serving") /\ UNCHANGED link
    /\ UNCHANGED <<machine, disk, holds, breaks>>
-----------------------------------------------------------------------------
(* Jobs. *)

(* What create has answered is what the other jobs are about. *)
Named(p) == {act[j].cont : j \in {i \in Jobs : act[i].pc = "ok"
                                               /\ act[i].port = p}} \ {None}
Fresh == Cont \ {act[j].cont : j \in Jobs}

(* A job goes to the command that has registered it; rax's jobs look for a *)
(* machine first, gce's use the command's client.                          *)
Registers(p) ==
    {"create", "use", "delete", "look"} \cup
        (IF p = "rax" THEN {"restart"} ELSE {})
Begin(j) ==
    /\ act[j].pc = "out" /\ j \in Jobs
    /\ \E c \in Command : \E op \in Registers(act[c].port) :
        LET p == act[c].port IN
        /\ act[c].pc = "serving"
        /\ \E x \in IF op \in {"create", "look"} THEN {None} ELSE Named(p) :
            act' = [act EXCEPT ![j] =
                       [NoAct EXCEPT !.pc = IF p = "rax" THEN "list" ELSE "call",
                                     !.port = p, !.op = op, !.cont = x]]
    /\ UNCHANGED world
(* Any other job is answered at once, and not done. *)
CatchAll(j) ==
    /\ act[j].pc = "out" /\ j \in Jobs
    /\ \E c \in Command :
        /\ act[c].pc = "serving"
        /\ act' = [act EXCEPT ![j] = [NoAct EXCEPT !.pc = "ok",
                                                  !.port = act[c].port]]
    /\ UNCHANGED world

(* The call fails when nothing answers, and rax's create when the answer   *)
(* is no container; for the others any answer will do.                     *)
CallFails(j) ==
    /\ act[j].pc = "call"
    /\ \/ ~Up(link[act[j].port])
       \/ act[j].op = "create" /\ act[j].port = "rax"
    /\ Fails(j) /\ link' = Closed(act[j].port)
    /\ UNCHANGED <<machine, disk, holds, breaks>>
Answer(j, x, met) ==
    /\ act' = [act EXCEPT ![j].pc = "ok", ![j].cont = x, ![j].met = met]
    /\ link' = Closed(act[j].port)
    /\ UNCHANGED <<machine, disk, breaks>>
Calls(j, op) == act[j].pc = "call" /\ act[j].op = op /\ Up(link[act[j].port])
End(j) == link[act[j].port]
Create(j) ==
    /\ Calls(j, "create")
    /\ \E x \in Fresh :
        /\ holds' = [holds EXCEPT ![End(j)] = @ \cup {x}]
        /\ Answer(j, x, TRUE)
(* gce's create answers without a name when docker has refused it. *)
CreateUnnamed(j) ==
    /\ Calls(j, "create") /\ act[j].port = "gce"
    /\ Answer(j, None, FALSE) /\ UNCHANGED holds
(* start, stop and kill, and inspect, attach and logs. *)
Use(j) ==
    /\ Calls(j, "use") /\ UNCHANGED holds
    /\ Answer(j, act[j].cont, act[j].cont \in holds[End(j)])
(* The time is formatted where the container's name should be: the path    *)
(* names none.                                                             *)
Restart(j) ==
    /\ Calls(j, "restart") /\ UNCHANGED holds
    /\ Answer(j, act[j].cont, FALSE)
(* containers, version and pull name none. *)
Look(j) ==
    /\ Calls(j, "look") /\ UNCHANGED holds
    /\ Answer(j, None, FALSE)
ContainerDelete(j) ==
    LET k == act[j].cont IN
    /\ Calls(j, "delete")
    /\ holds' = [holds EXCEPT ![End(j)] = @ \ {k}]
    /\ Answer(j, k, k \in holds[End(j)])
-----------------------------------------------------------------------------
(* The cloud, its users and the network. *)

Boot(h) ==
    /\ machine[h] = "build"
    /\ \/ machine' = [machine EXCEPT ![h] = "active"]
       \/ "build" \in Faults /\ machine' = [machine EXCEPT ![h] = "error"]
    /\ UNCHANGED <<disk, holds, link, act, breaks>>
Breaks == breaks < MaxBreaks /\ breaks' = breaks + 1
Delete(h) ==
    /\ machine[h] \in {"active", "error"} /\ Breaks
    /\ machine' = [machine EXCEPT ![h] = "none"]
    /\ holds' = [holds EXCEPT ![h] = {}]
    /\ disk' = IF disk = h THEN "free" ELSE disk
    (* An ssh that led there still listens. *)
    /\ link' = [p \in Port |-> IF link[p] = h THEN "gone" ELSE link[p]]
    /\ UNCHANGED act
SshDies(p) ==
    /\ link[p] # None /\ Breaks /\ link' = [link EXCEPT ![p] = None]
    /\ UNCHANGED <<machine, disk, holds, act>>
-----------------------------------------------------------------------------
RaxStep(c) ==
    \/ Options(c) \/ Authenticate(c) \/ List(c) \/ Detail(c) \/ Pick(c)
    \/ CreateHost(c) \/ WaitForStatus(c)
GceStep(c) ==
    \/ Options(c) \/ Authenticate(c) \/ GetAddress(c) \/ GetDisk(c)
    \/ CreateDisk(c) \/ Insert(c) \/ WaitForOp(c) \/ SecureTunnel(c)
JobStep(j) ==
    \/ List(j) \/ Detail(j) \/ Pick(j) \/ OpenTunnel(j)
    \/ CallFails(j) \/ Create(j) \/ CreateUnnamed(j) \/ Use(j) \/ Restart(j)
    \/ Look(j) \/ ContainerDelete(j)

Next ==
    \/ \E c \in Rax : RaxStep(c) \/ WaitFails(c)
    \/ \E c \in Gce : GceStep(c)
    \/ \E j \in Jobs : Begin(j) \/ CatchAll(j) \/ JobStep(j)
    \/ \E h \in Host : Boot(h) \/ Delete(h)
    \/ \E p \in Port : SshDies(p)

Started(c) == act[c].pc # "out"
Fairness ==
    /\ \A c \in Rax : WF_vars(Started(c) /\ RaxStep(c))
    /\ \A c \in Gce : WF_vars(Started(c) /\ GceStep(c))
    /\ \A j \in Jobs : WF_vars(JobStep(j))
    /\ \A h \in Host : WF_vars(Boot(h))
Spec == Init /\ [][Next]_vars /\ Fairness
-----------------------------------------------------------------------------
(* A job but restart meets the container it names. Each rax job looks for  *)
(* a machine of its own, and an answer says nothing about the container:   *)
(* it is the tunnel left behind by the first job that leads every later    *)
(* one to the machine where the container is, until something breaks.      *)
Deleted(x) == \E j \in Jobs : act[j].op = "delete" /\ act[j].cont = x
Meets ==
    breaks = 0 =>
        \A j \in Jobs : act[j].pc = "ok" /\ act[j].cont # None =>
            act[j].met \/ act[j].op = "restart" \/ Deleted(act[j].cont)

(* A gce command that serves has a tunnel, to its own instance or to the   *)
(* one of a command before it, unless ssh or the build failed.             *)
Linked ==
    breaks = 0 /\ Faults \cap {"ssh", "build"} = {} =>
        \A c \in Gce : act[c].pc = "serving" =>
            \E d \in Gce : link["gce"] = Instance[d]

(* Jobs go where their containers are, and a command that serves has       *)
(* somewhere to send them to.                                              *)
CloudsSafe == Meets /\ Linked

(* Whatever is deleted or dies meanwhile, commands and jobs come to an end *)
(* but for a command whose machine failed to be built.                     *)
Ended(c) == act[c].pc \in {"serving", "failed"}
Unbuilt(c) == act[c].pc = "wait" /\ machine[act[c].host] = "error"
CloudsEnd ==
    /\ \A c \in Rax : (act[c].pc = "auth") ~> (Ended(c) \/ Unbuilt(c))
    /\ \A c \in Gce : (act[c].pc = "auth") ~> Ended(c)
    /\ \A j \in Jobs :
        (act[j].pc \in {"list", "call"}) ~> (act[j].pc \in {"ok", "failed"})
=============================================================================
