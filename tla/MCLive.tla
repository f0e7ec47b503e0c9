------------------------------- MODULE MCLive -------------------------------
(*****************************************************************************)
(* What must eventually happen in the docker components that run             *)
(* concurrently, on small instances, and what pushes leave in the            *)
(* registry: every behaviour is that of one part. For the image store, the   *)
(* registry has one repository with one image on one base.                   *)
(*****************************************************************************)
EXTENDS PushRegistry, Integers, TLC

CONSTANTS base, left, repo, latest, p1, p2, addr1, addr2, conn1, conn2, Lost,
    Parts

VARIABLES
    part,  \* the component that this behaviour is about
    graph, tags, pool, used, req, job, made, mishap,
    listening, lock, table, open, addr, run, loop, close, failed,
    accepting, quit, st, events, upward, downward, client, backend, shut,
    once, monitor, starts, written, logged, writers, eof, attachReq,
    slot, rerr, werr, rlock, wlock, op, asks, told, queue, queueShut, got,
    wire, snd, buf, fds, ended, holder, out, kind, at, relay, server, alive,
    machine, disk, holds, link, act, breaks

Chain == base :> None @@ left :> base
Here == p1 :> (latest :> left) @@ p2 :> (latest :> base)
Histories == base :> <<base>> @@ left :> <<left, base>>
Hub == repo :> (latest :> left)
Disks ==
    { [graph |-> {}, tags |-> repo :> (latest :> None), used |-> {}],
      [graph |-> {base, left}, tags |-> Hub, used |-> {}] }

Img == INSTANCE ImageStore WITH
    Image <- {base, left}, History <- Histories, Repo <- {repo},
    Tag <- {latest}, RemoteTags <- Hub, Endpoints <- 2, Stores <- Disks,
    MaxRequests <- 2, Client <- {p1, p2}

UDP == INSTANCE UDPProxy WITH
    Addr <- {addr1, addr2}, Conn <- {conn1, conn2}

TCP == INSTANCE TCPProxy WITH
    Conn <- {conn1}, MaxBytes <- 1

Att == INSTANCE Attach WITH
    Request <- {p1}, MaxLines <- 1, MaxStarts <- 1, req <- attachReq

Que == INSTANCE Pipe WITH
    Client <- {p1}, Server <- {conn1}, Msg <- {addr1}, Owner <- addr1 :> p1,
    Relay <- "queue", Size <- 1, shut <- queueShut

Unix == INSTANCE UnixConn WITH
    Msg <- {addr1}, Length <- addr1 :> 1, Header <- 2, Room <- 2

Cld == INSTANCE Clouds WITH
    Host <- {base, left}, Instance <- p2 :> left, Jobs <- {"j1"},
    Cont <- {conn1}, Rax <- {p1}, Gce <- {p2},
    Faults <- {"config", "api", "ssh", "build"}, MaxBreaks <- 1

(* The disks, histories and names above are as ImageStore has them.        *)
ASSUME ImageConstants ==
    /\ Img!HistoryAssumption /\ Img!NamesAssumption
    /\ Img!EndpointsAssumption /\ Img!StoresAssumption

OwnVars == vars
ImgVars == <<graph, tags, pool, used, req, job, made, mishap>>
UDPVars == <<listening, lock, table, open, addr, run, loop, close, failed>>
TCPVars == <<accepting, quit, st, events, upward, downward, client, backend, shut>>
AttVars == <<once, monitor, starts, written, logged, writers, eof, attachReq>>
QueVars == <<slot, rerr, werr, rlock, wlock, op, asks, told, queue, queueShut, got>>
UnixVars == <<wire, snd, buf, fds, ended, holder, out, kind, at, relay, server, alive>>
CldVars == <<machine, disk, holds, link, act, breaks>>

UInit ==
    /\ part \in Parts
    /\ Init
    /\ Img!Init /\ (part # "images" => graph = {})
    /\ UDP!Init
    /\ TCP!Init
    /\ Att!Init /\ (part # "attach" => once)
    /\ Que!Init
    /\ Unix!Init
    /\ Cld!Init

UNext ==
    \/ /\ part = "push" /\ Next
       /\ UNCHANGED <<part, ImgVars, UDPVars, TCPVars, AttVars, QueVars, UnixVars,
            CldVars>>
    \/ /\ part = "images" /\ Img!Next
       /\ UNCHANGED <<part, OwnVars, UDPVars, TCPVars, AttVars, QueVars, UnixVars,
            CldVars>>
    \/ /\ part = "udp" /\ UDP!Next
       /\ UNCHANGED <<part, OwnVars, ImgVars, TCPVars, AttVars, QueVars, UnixVars,
            CldVars>>
    \/ /\ part = "tcp" /\ TCP!Next
       /\ UNCHANGED <<part, OwnVars, ImgVars, UDPVars, AttVars, QueVars, UnixVars,
            CldVars>>
    \/ /\ part = "attach" /\ Att!Next
       /\ UNCHANGED <<part, OwnVars, ImgVars, UDPVars, TCPVars, QueVars, UnixVars,
            CldVars>>
    \/ /\ part = "queue" /\ Que!Next
       /\ UNCHANGED <<part, OwnVars, ImgVars, UDPVars, TCPVars, AttVars, UnixVars,
            CldVars>>
    \/ /\ part = "unix" /\ Unix!Next
       /\ UNCHANGED <<part, OwnVars, ImgVars, UDPVars, TCPVars, AttVars, QueVars,
            CldVars>>
    \/ /\ part = "clouds" /\ Cld!Next
       /\ UNCHANGED <<part, OwnVars, ImgVars, UDPVars, TCPVars, AttVars, QueVars,
            UnixVars>>

UVars == <<part, OwnVars, ImgVars, UDPVars, TCPVars, AttVars, QueVars,
    UnixVars, CldVars>>
USpec ==
    /\ UInit /\ [][UNext]_UVars
    /\ Fairness
    /\ Img!Fairness
    /\ UDP!Fairness
    /\ TCP!Fairness
    /\ Att!Fairness
    /\ Que!Fairness
    /\ Unix!Fairness
    /\ Cld!Fairness

(* ImageStore and PushRegistry: pulls, removals and pushes come to an end, *)
(* whatever fails meanwhile.                                               *)
JobsEnd ==
    /\ PushEnds
    /\ Img!RequestsEnd

(* UDPProxy, TCPProxy, Attach, Pipe, UnixConn and Clouds: a closed         *)
(* connection leaves nobody waiting and its end is passed on; whoever      *)
(* sends or waits for an answer gets it or hears that it will not come;    *)
(* jobs in a cloud come to an end.                                         *)
ConnectionsEnd ==
    /\ UDP!CloseEnds
    /\ TCP!NobodyStays
    /\ Att!AttachEnds
    /\ Att!DisconnectIsEof
    /\ Que!SendsEnd
    /\ Unix!WaitsEnd
    /\ Cld!CloudsEnd
=============================================================================
