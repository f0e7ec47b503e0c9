---------------------------- MODULE CommandLine ----------------------------
(***************************************************************************)
(* The docker command line (commands.go) and the requests it makes of the  *)
(* daemon (api.go and the Container... operations of server.go): docker    *)
(* run is a sequence of requests - create, pull and create again, start,   *)
(* attach, wait - between which other commands act on the same container   *)
(* and on its image; the commands that take several names make a request   *)
(* for each.  What a request does inside the daemon is the subject of      *)
(* ContainerLifecycle and ImageStore: here it is one step.                 *)
(***************************************************************************)
EXTENDS Naturals, Sequences, FiniteSets

CONSTANTS
    Client,     \* commands that run at the same time
    Cont,       \* containers
    Image,      \* names of images
    Code,       \* exit codes of processes, 0 among them
    MaxRuns,    \* bound: processes started in one container
    MaxNames,   \* bound: names given to one command
    MaxCmds,    \* bound: commands begun
    None

VARIABLES
    present,    \* images the daemon has
    box,        \* box[c]: a container as the requests see it
    cidfile,    \* the file that docker run -cidfile writes: None, "empty" or a container
    cli,        \* cli[k]: where a command is
    begun       \* commands begun so far

vars == <<present, box, cidfile, cli, begun>>

Absent == [st |-> "absent", code |-> 0, runs |-> 0, codes |-> {}]
Idle == [cmd |-> "idle", pc |-> "idle", names |-> <<>>, image |-> None, box |-> None, cid |-> FALSE,
         alone |-> FALSE, await |-> 0, fails |-> FALSE, failed |-> FALSE, told |-> None]
Loops == {"start", "stop", "restart", "kill", "rm", "wait", "rmi"}
Names == UNION {[1 .. n -> Cont] : n \in 1 .. MaxNames}

TypeOK ==
    /\ present \subseteq Image /\ cidfile \in Cont \cup {None, "empty"} /\ begun \in 0 .. MaxCmds
    /\ \A c \in Cont :
          /\ box[c].st \in {"absent", "made", "up", "down", "gone"} /\ box[c].code \in Code
          /\ box[c].runs \in 0 .. MaxRuns /\ box[c].codes \subseteq Code
    /\ \A k \in Client :
          /\ cli[k].cmd \in Loops \cup {"idle", "run"} /\ cli[k].names \in Names \cup {<<>>}
          /\ cli[k].told \in Code \cup {None} /\ cli[k].box \in Cont \cup {None}

Init ==
    /\ present \in SUBSET Image /\ box = [c \in Cont |-> Absent] /\ cidfile = None
    /\ cli = [k \in Client |-> Idle] /\ begun = 0

Goto(k, pc) == cli' = [cli EXCEPT ![k].pc = pc]
Rest == <<cidfile, begun>>
-----------------------------------------------------------------------------
(* Requests.  httpError makes a 404 of "No such ...", the other errors are *)
(* all alike to the client.  A request that fails changes nothing here.    *)

(* State.setRunning: the exit code of the last process is forgotten. *)
Started(b) == [b EXCEPT !.st = "up", !.code = 0, !.runs = @ + 1]
Stopped(b, code) == [b EXCEPT !.st = "down", !.code = code, !.codes = @ \cup {code}]

PostContainersStart(c) ==
    /\ box[c].st \in {"made", "down"} /\ box[c].runs < MaxRuns
    /\ box' = [box EXCEPT ![c] = Started(@)]

(* Stop of a container that is not running does nothing, well. *)
PostContainersStop(c) ==
    \/ box[c].st \in {"made", "down"} /\ UNCHANGED box
    \/ box[c].st = "up" /\ \E code \in Code : box' = [box EXCEPT ![c] = Stopped(@, code)]
PostContainersKill(c) == PostContainersStop(c)

DeleteContainers(c) ==
    /\ box[c].st \in {"made", "down"}
    /\ box' = [box EXCEPT ![c].st = "gone"]

(* Container.Wait: nothing to wait for when nothing runs.  The exit code   *)
(* is read after the wait, from the state of that time.                    *)
Awaits(c) == IF box[c].st = "up" THEN box[c].runs ELSE 0
Over(c, run) == box[c].st # "up" \/ box[c].runs > run

(* The process ends by itself. *)
ProcessEnds(c) ==
    /\ box[c].st = "up"
    /\ \E code \in Code : box' = [box EXCEPT ![c] = Stopped(@, code)]
    /\ UNCHANGED <<present, cli, Rest>>
-----------------------------------------------------------------------------
(* docker run *)
Begin(k, cmd) ==
    /\ cli[k].pc = "idle" /\ begun < MaxCmds /\ begun' = begun + 1
    /\ \/ /\ cmd = "run"
          /\ \E i \in Image, cid \in BOOLEAN :
                cli' = [cli EXCEPT ![k] = [Idle EXCEPT !.cmd = cmd, !.image = i, !.cid = cid,
                                                       !.pc = IF cid THEN "look" ELSE "create"]]
       \/ /\ cmd = "rmi"
          /\ \E i \in Image : cli' = [cli EXCEPT ![k] = [Idle EXCEPT !.cmd = cmd, !.image = i, !.pc = "rmi"]]
       \/ /\ cmd \in Loops \ {"rmi"}
          /\ \E n \in Names : cli' = [cli EXCEPT ![k] = [Idle EXCEPT !.cmd = cmd, !.names = n, !.pc = "next"]]
    /\ UNCHANGED <<present, box, cidfile>>

(* A container id file that is there already, even an empty one, ends it.  *)
TakenMutant == FALSE
Taken == cidfile # None
LookForCid(k) ==
    /\ cli[k].pc = "look"
    /\ Goto(k, IF Taken THEN "error" ELSE "open")
    /\ UNCHANGED <<present, box, Rest>>
OpenCid(k) ==
    /\ cli[k].pc = "open"
    /\ cidfile' = "empty"
    /\ cli' = [cli EXCEPT ![k].pc = "create", ![k].alone = \A j \in Client \ {k} : ~cli[j].cid]
    /\ UNCHANGED <<present, box, begun>>

(* POST /containers/create.  The first time a missing image is pulled. *)
Create(k) ==
    /\ cli[k].pc \in {"create", "create again"}
    /\ IF cli[k].image \in present
       THEN \E c \in Cont :
               /\ box[c].st = "absent" /\ box' = [box EXCEPT ![c].st = "made"]
               /\ cli' = [cli EXCEPT ![k].box = c, ![k].pc = "created"]
       ELSE Goto(k, IF cli[k].pc = "create" THEN "pull" ELSE "error") /\ UNCHANGED box
    /\ UNCHANGED <<present, Rest>>
Pull(k) ==
    /\ cli[k].pc = "pull"
    /\ Goto(k, "create again") /\ present' = present \cup {cli[k].image}
    /\ UNCHANGED <<box, Rest>>
WriteCid(k) ==
    /\ cli[k].pc = "created"
    /\ cidfile' = IF cli[k].cid THEN cli[k].box ELSE cidfile
    /\ Goto(k, "start")
    /\ UNCHANGED <<present, box, begun>>

(* Attached to its output or not; attached, the command waits for the end  *)
(* of the container, after that of its streams.                            *)
RunStartMutant(k) == Goto(k, "wait") /\ UNCHANGED box
RunStart(k) ==
    /\ PostContainersStart(cli[k].box)
    /\ \E pc \in {"attached", "ended"} : Goto(k, pc)
Start(k) == cli[k].pc = "start" /\ RunStart(k) /\ UNCHANGED <<present, Rest>>
Hijacked(k) ==
    /\ cli[k].pc = "attached" /\ Goto(k, "wait") /\ UNCHANGED <<present, box, Rest>>
Signal(k) ==
    /\ cli[k].pc = "attached" /\ PostContainersStop(cli[k].box)
    /\ UNCHANGED <<present, cli, Rest>>

(* A request of a run fails: for a reason of the daemon's, because there   *)
(* is no such container, or no connection.                                 *)
RunFails(k) ==
    /\ cli[k].cmd = "run" /\ cli[k].pc \in {"create", "pull", "create again", "start", "attached", "wait"}
    /\ Goto(k, "error")
    /\ UNCHANGED <<present, box, Rest>>

(* POST /containers/.../wait, of docker run and of docker wait. *)
WaitForExit(k) ==
    /\ cli[k].pc = "wait" /\ box[cli[k].box].st \notin {"absent", "gone"}
    /\ cli' = [cli EXCEPT ![k].pc = "waits", ![k].await = Awaits(cli[k].box), ![k].told = None]
    /\ UNCHANGED <<present, box, Rest>>
Told(k) ==
    /\ cli[k].pc = "waits" /\ Over(cli[k].box, cli[k].await)
    /\ cli' = [cli EXCEPT ![k].told = box[cli[k].box].code,
                          ![k].pc = IF cli[k].cmd = "run" THEN "ended" ELSE "next",
                          ![k].names = IF cli[k].cmd = "run" THEN @ ELSE Tail(@)]
    /\ UNCHANGED <<present, box, Rest>>
-----------------------------------------------------------------------------
(* The commands that take names.  Only docker start has a failure of its   *)
(* own when one of its requests has failed.                                *)
FailedMutant(k, ok) == cli[k].cmd = "start" /\ ~ok
Failed(k, ok) == cli[k].cmd = "start" /\ (cli[k].failed \/ ~ok)
After(k, ok) == [cli[k] EXCEPT !.names = Tail(@), !.pc = "next", !.fails = @ \/ ~ok,
                               !.failed = Failed(k, ok)]
Each(k, cmd) == cli[k].cmd = cmd /\ cli[k].pc = "next" /\ cli[k].names # <<>>
Name(k) == Head(cli[k].names)

(* The request for the next name is refused, or does not get there. *)
Refused(k) ==
    /\ cli[k].cmd \in Loops /\ cli[k].pc \in {"next", "again", "wait"} /\ cli[k].names # <<>>
    /\ cli' = [cli EXCEPT ![k] = After(k, FALSE)]
    /\ UNCHANGED <<present, box, Rest>>

CmdStart(k) == Each(k, "start") /\ PostContainersStart(Name(k)) /\ cli' = [cli EXCEPT ![k] = After(k, TRUE)]
CmdStop(k) == Each(k, "stop") /\ PostContainersStop(Name(k)) /\ cli' = [cli EXCEPT ![k] = After(k, TRUE)]
CmdKill(k) == Each(k, "kill") /\ PostContainersKill(Name(k)) /\ cli' = [cli EXCEPT ![k] = After(k, TRUE)]
CmdRm(k) == Each(k, "rm") /\ DeleteContainers(Name(k)) /\ cli' = [cli EXCEPT ![k] = After(k, TRUE)]
CmdRestart(k) ==
    \/ Each(k, "restart") /\ PostContainersStop(Name(k)) /\ Goto(k, "again")
    \/ cli[k].pc = "again" /\ PostContainersStart(Name(k)) /\ cli' = [cli EXCEPT ![k] = After(k, TRUE)]
CmdWait(k) ==
    /\ Each(k, "wait")
    /\ cli' = [cli EXCEPT ![k] = [@ EXCEPT !.pc = "wait", !.box = Name(k)]] /\ UNCHANGED box
NextName(k) ==
    /\ CmdStart(k) \/ CmdStop(k) \/ CmdKill(k) \/ CmdRm(k) \/ CmdRestart(k) \/ CmdWait(k)
    /\ UNCHANGED <<present, Rest>>

(* DELETE /images: an image that is not used, the rule is ImageStore's. *)
CmdRmi(k) ==
    /\ cli[k].pc = "rmi"
    /\ present' \in {present, present \ {cli[k].image}} /\ Goto(k, "ended")
    /\ UNCHANGED <<box, Rest>>

(* The command exits. *)
Exit(k) ==
    /\ cli[k].pc = "next" => cli[k].names = <<>>
    /\ cli[k].pc \in {"ended", "error", "next"}
    /\ cli' = [cli EXCEPT ![k] = Idle]
    /\ UNCHANGED <<present, box, Rest>>

Next ==
    \/ \E k \in Client :
          \/ \E cmd \in Loops \cup {"run"} : Begin(k, cmd)
          \/ LookForCid(k) \/ OpenCid(k) \/ Create(k) \/ Pull(k) \/ WriteCid(k) \/ Start(k)
          \/ Hijacked(k) \/ Signal(k) \/ RunFails(k) \/ WaitForExit(k) \/ Told(k)
          \/ NextName(k) \/ Refused(k) \/ CmdRmi(k) \/ Exit(k)
    \/ \E c \in Cont : ProcessEnds(c)

Spec == Init /\ [][Next]_vars
-----------------------------------------------------------------------------
(* docker run ends with the exit code of its own container's process, when *)
(* nobody else has started the container again meanwhile.                  *)
RunTellsExit ==
    \A k \in Client :
        LET c == cli[k].box IN
        /\ cli[k].cmd = "run" /\ cli[k].told # None
        => box[c].runs > 0 /\ (box[c].runs = 1 => cli[k].told \in box[c].codes)

(* Whatever other commands do: the container id file of a run that found   *)
(* no other run at work with the file keeps the id of its container.       *)
CidNames ==
    \A k \in Client : cli[k].alone /\ cli[k].pc \in {"start", "attached", "wait", "waits", "ended"} =>
        cidfile = cli[k].box

(* docker start of several containers fails if one of them could not be    *)
(* started, whichever it is.                                               *)
StartTellsFailure ==
    \A k \in Client : cli[k].cmd = "start" => (cli[k].failed <=> cli[k].fails)

(* What the commands tell their user, in their exit status and in a file.  *)
CommandsSafe == RunTellsExit /\ CidNames /\ StartTellsFailure
=============================================================================
