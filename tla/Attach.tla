------------------------------- MODULE Attach -------------------------------
(***************************************************************************)
(* The streams of a container (no tty) and the requests attached to them:  *)
(* WriteBroadcaster and bufReader (utils.go), Container.Attach and the end *)
(* of monitor (container.go), ContainerAttach (server.go), the hijacked    *)
(* connection (api.go, commands.go).                                       *)
(*                                                                         *)
(* The process writes lines; the broadcaster of each of its two streams    *)
(* gives a line to all of its writers: the json log, and one pipe per      *)
(* request, whose drain goroutine never lets it block.  A request first    *)
(* sends the log, then adds its pipes, then has up to three jobs: one      *)
(* copies the client's stdin to the process, two copy the pipes to the     *)
(* connection.  Lines are counted: those a pipe has let through are in the *)
(* order of the process.                                                   *)
(***************************************************************************)
EXTENDS Naturals

CONSTANTS
    Request,    \* attach requests
    MaxLines,   \* bound: lines on both streams
    MaxStarts,  \* bound: starts of the container
    None

VARIABLES
    once,     \* Config.StdinOnce; stdin is open in any case
    monitor,  \* "run", then where monitor is, then "stopped"
    starts,   \* starts so far
    written,  \* written[s]: lines the process has written
    logged,   \* logged[s]: lines in the json log
    writers,  \* writers[s]: the log and the requests the broadcaster writes to
    eof,      \* the process's stdin has been closed
    req       \* req[r]: where a request is

vars == <<once, monitor, starts, written, logged, writers, eof, req>>

Stream == {"out", "err"}
Log == "log"
NewRequest(want, pc, stream) ==
    [pc |-> pc, want |-> want, stream |-> stream, jobs |-> {}, conn |-> "open", run |-> 0,
     log |-> [s \in Stream |-> 0],      \* lines sent from the log
     from |-> [s \in Stream |-> None],  \* lines written before the pipe was there
     upto |-> [s \in Stream |-> 0],     \* lines that went into the pipe
     got |-> [s \in Stream |-> 0],      \* lines the client has got
     pipe |-> [s \in Stream |-> None]]  \* "open", "eof", or "shut" by its reader
Idle == NewRequest({}, "idle", FALSE)

TypeOK ==
    /\ once \in BOOLEAN /\ eof \in BOOLEAN /\ starts \in 0 .. MaxStarts
    /\ monitor \in {"run", "die", "out", "err", "stopped"}
    /\ written \in [Stream -> 0 .. MaxLines] /\ logged \in [Stream -> 0 .. MaxLines]
    /\ writers \in [Stream -> SUBSET (Request \cup {Log})]
    /\ \A r \in Request : req[r] = Idle \/
          /\ req[r].pc \in {"log", "out", "err", "jobs", "wait", "done"}
          /\ req[r].want \subseteq Stream \cup {"in"} /\ req[r].jobs \subseteq req[r].want
          /\ req[r].conn \in {"open", "fin", "gone", "cut"}
          /\ \A s \in Stream : /\ req[r].got[s] <= req[r].upto[s]
                               /\ req[r].pipe[s] \in {None, "open", "eof", "shut"}

Init ==
    /\ once \in BOOLEAN /\ monitor = "stopped" /\ starts = 0 /\ eof = FALSE
    /\ written = [s \in Stream |-> 0] /\ logged = written
    /\ writers = [s \in Stream |-> {}] /\ req = [r \in Request |-> Idle]

Container == <<once, monitor, starts, written, logged, eof>>
Goto(r, pc) == req' = [req EXCEPT ![r].pc = pc]
-----------------------------------------------------------------------------
(* The container. Start adds the log to both streams. *)
Start ==
    /\ monitor = "stopped" /\ starts < MaxStarts
    /\ starts' = starts + 1 /\ monitor' = "run"
    /\ writers' = [s \in Stream |-> writers[s] \cup {Log}]
    /\ UNCHANGED <<once, written, logged, eof, req>>

(* WriteBroadcaster.Write: a writer that fails is evicted, the others go   *)
(* on: a request's pipe fails when its reader is closed.                   *)
Failed(s) == {r \in Request : req[r].pc # "idle" /\ req[r].pipe[s] = "shut"}
EvictMutant(s) == IF Failed(s) = {} THEN writers[s] ELSE {}
Evict(s) == writers[s] \ Failed(s)
Write(s) ==
    /\ monitor = "run" /\ written["out"] + written["err"] < MaxLines
    /\ written' = [written EXCEPT ![s] = @ + 1]
    /\ writers' = [writers EXCEPT ![s] = Evict(s)]
    /\ logged' = [logged EXCEPT ![s] = IF Log \in writers[s] THEN @ + 1 ELSE @]
    /\ req' = [r \in Request |-> IF r \in Evict(s) THEN [req[r] EXCEPT !.upto[s] = @ + 1] ELSE req[r]]
    /\ UNCHANGED <<once, monitor, starts, eof>>

(* The process ends, all it wrote being copied; monitor closes its stdin,  *)
(* ...                                                                     *)
Exit ==
    /\ monitor = "run" /\ monitor' = "die"
    /\ UNCHANGED <<once, starts, written, logged, writers, eof, req>>
CloseStdin ==
    /\ monitor = "die" /\ monitor' = "out" /\ eof' = TRUE
    /\ UNCHANGED <<once, starts, written, logged, writers, req>>

(* ... the writers of stdout, then those of stderr: all are forgotten; at  *)
(* last it makes a new stdin pipe.                                         *)
ClosedMutant(p) == p
Closed(p) == IF p = "open" THEN "eof" ELSE p
CloseWriters(s) ==
    /\ monitor = s /\ monitor' = IF s = "out" THEN "err" ELSE "stopped"
    /\ writers' = [writers EXCEPT ![s] = {}]
    /\ req' = [r \in Request |-> IF r \in writers[s]
                                 THEN [req[r] EXCEPT !.pipe[s] = Closed(@)] ELSE req[r]]
    /\ eof' = (eof /\ s = "out")
    /\ UNCHANGED <<once, starts, written, logged>>
-----------------------------------------------------------------------------
(* A request: docker logs asks for the log, docker attach for the streams, *)
(* docker run for both.                                                    *)
Ask(r) ==
    /\ req[r] = Idle
    /\ \E want \in SUBSET (Stream \cup {"in"}) \ {{}} :
          \/ \E b \in BOOLEAN : req' = [req EXCEPT ![r] = NewRequest(want, "log", b)]
          \/ req' = [req EXCEPT ![r] = NewRequest(want, "out", TRUE)]
    /\ UNCHANGED <<Container, writers>>

(* ContainerAttach: the log, of the streams asked for, as far as it goes.  *)
Present(s) == logged[s]
SendLog(r) ==
    /\ req[r].pc = "log"
    /\ req' = [req EXCEPT ![r].pc = IF req[r].stream THEN "out" ELSE "done",
                          ![r].log = [s \in Stream |-> IF s \in req[r].want THEN Present(s) ELSE 0]]
    /\ UNCHANGED <<Container, writers>>

(* The start whose stdin StdinPipe gives. *)
Current == IF monitor = "stopped" THEN starts + 1 ELSE starts

(* Attach: StdoutPipe and StderrPipe, also for a stream not asked for,     *)
(* whose lines go nowhere.  A pipe has what is written from now on.        *)
AddWriterMutant(s) == 0
AddWriter(s) == written[s]
AddPipe(r, s) ==
    /\ req[r].pc = s
    /\ req' = [req EXCEPT ![r].run = IF s = "out" THEN Current ELSE @,
                          ![r].pipe[s] = "open", ![r].pc = IF s = "out" THEN "err" ELSE "jobs",
                          ![r].from[s] = AddWriter(s), ![r].upto[s] = AddWriter(s),
                          ![r].got[s] = AddWriter(s),
                          ![r].jobs = IF s = "err" THEN req[r].want ELSE {}]
    /\ writers' = [writers EXCEPT ![s] = @ \cup {r}]
    /\ UNCHANGED Container

Up(r) == req[r].conn \in {"open", "fin"}
Jobs(r) == req[r].pc = "jobs"

(* Job stdout, job stderr: lines to the connection, ...                    *)
Copy(r, s) ==
    /\ Jobs(r) /\ s \in req[r].jobs /\ Up(r) /\ req[r].got[s] < req[r].upto[s]
    /\ req' = [req EXCEPT ![r].got[s] = @ + 1]
    /\ UNCHANGED <<Container, writers>>

(* ... until the pipe has no more.  With StdinOnce the end of either       *)
(* stream closes the connection, so that job stdin ends.                   *)
Cut(r) == IF once /\ "in" \in req[r].want /\ Up(r) THEN "cut" ELSE req[r].conn
DrainedMutant(r, s) == req[r].pipe[s] \in {"eof", "shut"}
Drained(r, s) == req[r].got[s] = req[r].upto[s] /\ req[r].pipe[s] \in {"eof", "shut"}
CopyEnds(r, s) ==
    /\ Jobs(r) /\ s \in req[r].jobs /\ Drained(r, s) /\ req[r].pipe[s] = "eof"
    /\ req' = [req EXCEPT ![r].jobs = @ \ {s}, ![r].conn = Cut(r)]
    /\ UNCHANGED <<Container, writers>>

(* A stream not asked for: its end closes the connection in any case.      *)
NopEnds(r, s) ==
    /\ Jobs(r) /\ s \notin req[r].want /\ req[r].pipe[s] = "eof" /\ Up(r)
    /\ "in" \in req[r].want
    /\ req' = [req EXCEPT ![r].conn = "cut"]
    /\ UNCHANGED <<Container, writers>>

(* A job that fails - its client is gone, its pipe was shut - ends Attach, *)
(* which shuts the pipes of the streams asked for.                         *)
Shut(r, S) ==
    [s \in Stream |-> IF s \in S \cap req[r].want /\ req[r].pipe[s] = "open" THEN "shut"
                      ELSE req[r].pipe[s]]
After == IF once THEN "wait" ELSE "done"
CopyFails(r, s) ==
    /\ Jobs(r) /\ s \in req[r].jobs
    /\ \/ ~Up(r) /\ req[r].got[s] < req[r].upto[s]
       \/ Drained(r, s) /\ req[r].pipe[s] = "shut"
    /\ req' = [req EXCEPT ![r].pc = After, ![r].jobs = @ \cap {"in"}, ![r].pipe = Shut(r, Stream),
                          ![r].conn = Cut(r)]
    /\ UNCHANGED <<Container, writers>>

(* Job stdin ends with the client's stdin, or when what the client types   *)
(* cannot be written any more; it outlives Attach.  It closes the process's*)
(* stdin, or else the pipes of the other jobs, if it has seen them.        *)
CloseStdinPipeMutant(r) == eof \/ (once /\ req[r].run = Current /\ req[r].conn # "gone")
CloseStdinPipe(r) == eof \/ (once /\ req[r].run = Current)
StdinEnds(r) ==
    /\ req[r].pc \in {"jobs", "wait", "done"} /\ "in" \in req[r].jobs
    /\ req[r].conn # "open" \/ eof \/ req[r].run < Current
    /\ eof' = CloseStdinPipe(r)
    /\ \E S \in IF once THEN {{}} ELSE SUBSET Stream :
          req' = [req EXCEPT ![r].jobs = @ \ {"in"}, ![r].pipe = Shut(r, S)]
    /\ UNCHANGED <<once, monitor, starts, written, logged, writers>>

(* All the jobs are done.  With StdinOnce, the request waits for the end   *)
(* of the process; then the connection is closed for writing.              *)
JobsDone(r) ==
    /\ Jobs(r) /\ req[r].jobs = {}
    /\ req' = [req EXCEPT ![r].pc = After, ![r].pipe = Shut(r, Stream)]
    /\ UNCHANGED <<Container, writers>>
Waited(r) ==
    /\ req[r].pc = "wait" /\ monitor = "stopped"
    /\ Goto(r, "done")
    /\ UNCHANGED <<Container, writers>>

(* The client: its stdin ends, or it goes away. *)
ClientSide(r) ==
    /\ req[r].pc \notin {"idle", "done"}
    /\ \/ req[r].conn = "open" /\ req' = [req EXCEPT ![r].conn = "fin"]
       \/ Up(r) /\ req' = [req EXCEPT ![r].conn = "gone"]
    /\ UNCHANGED <<Container, writers>>

Job(r) == JobsDone(r) \/ Waited(r) \/ \E s \in Stream : CopyEnds(r, s) \/ CopyFails(r, s) \/ NopEnds(r, s)
Monitor == CloseStdin \/ \E s \in Stream : CloseWriters(s)

Next ==
    \/ Start \/ Exit \/ Monitor \/ \E s \in Stream : Write(s)
    \/ \E r \in Request :
          \/ Ask(r) \/ SendLog(r) \/ ClientSide(r) \/ StdinEnds(r) \/ Job(r)
          \/ \E s \in Stream : AddPipe(r, s) \/ Copy(r, s)

Spec == Init /\ [][Next]_vars
Fairness ==
    /\ WF_vars(Monitor)
    /\ \A r \in Request :
          /\ WF_vars(Job(r)) /\ WF_vars(StdinEnds(r) /\ req[r].conn # "open")
          /\ \A s \in Stream : WF_vars(Copy(r, s))
-----------------------------------------------------------------------------
(* WriteBroadcaster: whoever attaches, falls behind or goes away, the log  *)
(* has every line.                                                         *)
LogIsWhole == logged = written

(* ContainerAttach with logs and stream: the client never gets a line from *)
(* the log again from the stream.  (It may miss some that came between.)   *)
NoLineTwice ==
    \A r \in Request, s \in Stream :
        req[r].pc # "idle" /\ req[r].from[s] # None => req[r].log[s] <= req[r].from[s]

(* A request that ended while its client was there has sent all of both    *)
(* streams, or with StdinOnce of the one that ended first.  (Without it, a *)
(* client that types after the end of the process loses the rest.)         *)
Sent(r, s) == s \in req[r].want => req[r].pipe[s] = "eof" /\ req[r].got[s] = req[r].upto[s]
AllSent ==
    \A r \in Request :
        req[r].pc = "done" /\ req[r].stream /\ req[r].conn \in {"open", "cut"} =>
            /\ (once => \E s \in Stream : Sent(r, s))
            /\ ("in" \notin req[r].want => \A s \in Stream : Sent(r, s))

(* What the log, the clients and the client that sends get of the lines.   *)
AttachSafe == LogIsWhole /\ NoLineTwice /\ AllSent

(* When the process has ended, every request that had its pipes by then    *)
(* ends; without StdinOnce, its job stdin may be left to the client.       *)
(* (One that adds its pipes after monitor closed the writers stays.)       *)
AttachEnds ==
    \A r \in Request :
        monitor = "die" /\ Jobs(r) ~>
            \/ req[r].pc = "done"
            \/ req[r].jobs = {"in"} /\ ~once
            \/ req[r].pc = "wait" /\ monitor # "stopped"

(* TestRunDisconnect: with StdinOnce, a client that goes away closes the   *)
(* stdin of the process.                                                   *)
DisconnectIsEof ==
    \A r \in Request :
        once /\ Jobs(r) /\ "in" \in req[r].want /\ req[r].conn = "gone"
            ~> eof \/ req[r].run < Current
=============================================================================
