------------------------------ MODULE MCDaemon ------------------------------
(*****************************************************************************)
(* The components of the docker daemon and client that do not meet, or       *)
(* meet only through what their models take as input, in one run: every      *)
(* behaviour is that of one part.                                            *)
(*****************************************************************************)
EXTENDS DockerProofs, Integers, TLC

CONSTANTS base, left, right, mine, repo, latest, old, p1, p2, addr1, addr2,
    conn1, conn2, conn3, hostdir, k1, k2, k3, r1, r2, hidden, Parts

VARIABLES
    part,  \* the component that this behaviour is about
    json, mark, sum, layer, rtags, index, push, twice, begun,
    imagesGraph, tags, pool, used, req, job, imagesMade, mishap,
    images, named, conts, build, builds,
    cfgfile, account, inactive, taken, cmd, cmds, spoilt,
    present, box, cidfile, cli, cliBegun,
    daemon, listed, call, lifeLock, lifeState, lifeCmd, waitLock, mon, snap,
    proc, mounted, lifeFile, lifeSaved, lifeSeen,
    disk, layersIndex, image, layersRw, mounts, point, layersCall, calls,
    writes, crashes,
    dir, born, registryRun, list, bytes, registryAt, told, ps,
    registryCrashes, moves,
    imgs, namesTags, namesReq, namesMoves,
    slot, rerr, werr, rlock, wlock, queueOp, asks, queueTold, queue,
    queueShut, got,
    wire, snd, buf, fds, ended, holder, out, kind, unixAt, relay, server,
    alive

Above == "d" :> None @@ "f" :> "d"
BothThere == "d" :> 1 @@ "f" :> 1
FileGone == "d" :> None @@ "f" :> hidden
Plain == base :> [parent |-> None, layer |-> BothThere]
Thinned == Plain @@ left :> [parent |-> base, layer |-> FileGone]

V(x) == [text |-> x, ref |-> None]
I(o, a) == [op |-> o, arg |-> a]
Env(k, v) == [op |-> "env", key |-> k, val |-> v]
Instructions ==
    {I("run", "make"), I("cmd", "x y"), I("cmd", "x,y"), I("workdir", "w"), I("add", "f"),
     Env("a", V("1")), Env("b", [text |-> "$", ref |-> "a"])}
BaseConfigs ==
    "plain" :> [user |-> None, env |-> <<>>, cmd |-> None, entry |-> None,
                ports |-> <<>>, vols |-> {}, work |-> None]
      @@ "rich" :> [user |-> None, env |-> <<<<"a", V("0")>>>>, cmd |-> "x y",
                    entry |-> None, ports |-> <<22>>, vols |-> {}, work |-> "w0"]

Histories ==
    base :> <<base>> @@ left :> <<left, base>> @@ right :> <<right, base>>
      @@ mine :> <<mine, left, base>>
NoNames == repo :> (latest :> None @@ old :> None)
Registry == repo :> (latest :> left @@ old :> right)
Disks ==
    { [graph |-> {}, tags |-> NoNames, used |-> {}],
      [graph |-> {base, left, right}, tags |-> Registry, used |-> {left}],
      [graph |-> {base, left, right, mine},
       tags |-> repo :> (latest :> mine @@ old :> right), used |-> {}] }

S(x, y, z) == <<x, y, z>>
ContainerIds == <<S("a", "a", "b"), S("a", "b", "a"), S("a", "b", "b")>>
Flags(a, n, s, b) == [all |-> a, last |-> n = 0, n |-> IF n = 0 THEN -1 ELSE n, since |-> s, before |-> b]
PsCommands ==
    {Flags(FALSE, -1, None, None), Flags(FALSE, 0, None, <<"a", "a">>),
     Flags(TRUE, -1, <<"a", "b">>, <<"a", "a">>)}
ImageIds == <<S("a", "a", "b"), S("a", "b", "a"), S("b", "b", "a")>>
ImageParents == [i \in {ImageIds[k] : k \in {1, 2, 3}} |-> IF i = ImageIds[1] THEN None ELSE ImageIds[1]]
HostPort == <<"h", ":", "5", "/", "b">>
Named == <<<<<<"b">>, <<"a">>>>, <<<<"b">>, <<"l", "t">>>>, <<HostPort, <<"l", "t">>>>>>
Words == {<<"b">>, HostPort, <<"a">>, ImageIds[1], <<"b", ":", "a", "b">>}
Listings == {[op |-> "images", all |-> TRUE, arg |-> None], [op |-> "images", all |-> FALSE, arg |-> None],
             [op |-> "images", all |-> FALSE, arg |-> <<"b">>], [op |-> "viz", all |-> TRUE, arg |-> None],
             [op |-> "history", all |-> TRUE, arg |-> ImageIds[2]]}

Dir(d, w) == [dir |-> d, rw |-> w]
VolumeConfigs ==
    p1 :> [paths |-> {"p", "q"}, from |-> None] @@ p2 :> [paths |-> {"q", "r"}, from |-> p1]
HostBinds == p1 :> ("p" :> Dir(hostdir, FALSE)) @@ p2 :> ("r" :> Dir(hostdir, TRUE))
Owners == addr1 :> p1 @@ addr2 :> p2
Lengths == addr1 :> 0 @@ addr2 :> 1

Push == INSTANCE PushRegistry WITH
    Image <- {base, left}, ParentOf <- base :> None @@ left :> base,
    Push <- {p1, p2}, Tag <- {latest, old}, MaxPushes <- 3,
    Local <- p1 :> (latest :> left @@ old :> base) @@ p2 :> (latest :> left @@ old :> None)

Img == INSTANCE ImageStore WITH
    Image <- {base, left, right, mine}, History <- Histories, Repo <- {repo},
    Tag <- {latest, old}, RemoteTags <- Registry, Endpoints <- 2,
    Stores <- Disks, MaxRequests <- 2, Client <- {p1, p2},
    graph <- imagesGraph, made <- imagesMade

Build == INSTANCE Builder WITH
    Instruction <- Instructions, Base <- {"plain", "rich"},
    BaseConfig <- BaseConfigs, Printed <- "x y" :> "x y" @@ "x,y" :> "x,y",
    Home <- <<<<"HOME", V("/")>>>>, MaxImages <- 4, MaxBuilds <- 2,
    MaxSteps <- 3

Log == INSTANCE Login WITH
    Cmd <- {p1, p2}, Server <- {addr1, addr2}, Index <- addr1,
    Password <- {conn1, conn2}, Colon <- {conn2}, MaxCmds <- 2,
    Blank <- "blank"

CLI == INSTANCE CommandLine WITH
    Client <- {p1, p2}, Cont <- {conn1, conn2}, Image <- {base},
    Code <- {0, 1}, MaxRuns <- 2, MaxNames <- 2, MaxCmds <- 2,
    begun <- cliBegun

Life == INSTANCE ContainerLifecycleProofs WITH
    Client <- {k1, k2}, Run <- {r1, r2}, Codes <- {1}, AutoRestart <- TRUE,
    Faults <- {"start", "umount", "torn"}, Windows <- {"wake", "relock"},
    NoRun <- "NoRun", Free <- "Free", lock <- lifeLock, state <- lifeState,
    cmd <- lifeCmd, file <- lifeFile, saved <- lifeSaved, seen <- lifeSeen

Lay == INSTANCE Layers WITH
    Base <- base, Path <- {"d", "f"}, Up <- Above, Value <- {1, 2},
    InitLayer <- "d" :> 1 @@ "f" :> None, Container <- {conn1},
    Whiteout <- hidden, Image <- {base, left}, Stored <- Plain,
    Client <- {p1, p2}, MaxCalls <- 3, MaxWrites <- 0, Crashes <- 1,
    index <- layersIndex, rw <- layersRw, call <- layersCall

Diff == INSTANCE Layers WITH
    Base <- base, Path <- {"d", "f"}, Up <- Above, Value <- {1, 2},
    InitLayer <- "d" :> 1 @@ "f" :> None, Container <- {conn1},
    Whiteout <- hidden, Image <- {base, left, right}, Stored <- Thinned,
    Client <- {p1}, MaxCalls <- 2, MaxWrites <- 3, Crashes <- 0,
    index <- layersIndex, rw <- layersRw, call <- layersCall

Reg == INSTANCE Containers WITH
    Ids <- ContainerIds, ShortLen <- 2, Moves <- 1, Commands <- {},
    Crashes <- 1, run <- registryRun, at <- registryAt,
    crashes <- registryCrashes

Ps == INSTANCE Containers WITH
    Ids <- ContainerIds, ShortLen <- 2, Moves <- 1, Commands <- PsCommands,
    Crashes <- 0, run <- registryRun, at <- registryAt,
    crashes <- registryCrashes

Nam == INSTANCE Images WITH
    Ids <- ImageIds, ShortLen <- 2, ParentOf <- ImageParents,
    Sorted <- Named, Latest <- <<"l", "t">>, Words <- Words,
    Commands <- Listings, Moves <- 1, tags <- namesTags, req <- namesReq,
    moves <- namesMoves

Que == INSTANCE Pipe WITH
    Client <- {p1, p2}, Server <- {conn1}, Msg <- {addr1, addr2},
    Owner <- Owners, Size <- 1, Relay <- "queue", op <- queueOp,
    told <- queueTold, shut <- queueShut

Cop == INSTANCE Pipe WITH
    Client <- {p1, p2}, Server <- {conn1}, Msg <- {addr1, addr2},
    Owner <- Owners, Size <- 1, Relay <- "copy", op <- queueOp,
    told <- queueTold, shut <- queueShut

Unix == INSTANCE UnixConn WITH
    Msg <- {addr1, addr2}, Length <- Lengths, Header <- 2, Room <- 2,
    at <- unixAt

(* The disks, histories and names above are as ImageStore has them.        *)
ASSUME ImageConstants ==
    /\ Img!HistoryAssumption /\ Img!NamesAssumption
    /\ Img!EndpointsAssumption /\ Img!StoresAssumption
ASSUME TagConstants == Tags!TagStoreAssumption
ASSUME LifeConstants ==
    /\ Life!RunAssumption /\ Life!FreeAssumption /\ Life!ClientAssumption
    /\ Life!CodesAssumption /\ Life!AutoRestartAssumption
    /\ Life!FaultsAssumption /\ Life!WindowsAssumption

OwnVars == vars
PushVars == <<json, mark, sum, layer, rtags, index, push, twice, begun>>
ImgVars == <<imagesGraph, tags, pool, used, req, job, imagesMade, mishap>>
BuildVars == <<images, named, conts, build, builds>>
LogVars == <<cfgfile, account, inactive, taken, cmd, cmds, spoilt>>
CLIVars == <<present, box, cidfile, cli, cliBegun>>
LifeVars == <<daemon, listed, call, lifeLock, lifeState, lifeCmd, waitLock, mon, snap,
    proc, mounted, lifeFile, lifeSaved, lifeSeen>>
LayVars == <<disk, layersIndex, image, layersRw, mounts, point, layersCall, calls,
    writes, crashes>>
RegVars == <<dir, born, registryRun, list, bytes, registryAt, told, ps, registryCrashes,
    moves>>
NamVars == <<imgs, namesTags, namesReq, namesMoves>>
QueVars == <<slot, rerr, werr, rlock, wlock, queueOp, asks, queueTold, queue, queueShut,
    got>>
UnixVars == <<wire, snd, buf, fds, ended, holder, out, kind, unixAt, relay, server, alive>>

UInit ==
    /\ part \in Parts
    /\ Init /\ (part # "vols" => data = [s \in DOMAIN data |-> "none"])
    /\ Tags!Init
    /\ Push!Init
    /\ Img!Init /\ (part # "images" => imagesGraph = {})
    /\ Build!Init
    /\ UDP!Init
    /\ TCP!Init
    /\ Att!Init /\ (part # "attach" => once)
    /\ Ev!Init
    /\ Log!Init /\ (part # "login" => account = [s \in {addr1, addr2} |-> None])
    /\ CLI!Init /\ (part # "cli" => present = {})
    /\ Life!Init
    /\ (IF part = "changes" THEN Diff!Init ELSE Lay!Init)
    /\ Reg!Init
    /\ Nam!Init
    /\ Que!Init
    /\ Unix!Init

UNext ==
    \/ /\ part = "vols" /\ Next
       /\ UNCHANGED <<part, TagsVars, PushVars, ImgVars, BuildVars, UDPVars, TCPVars,
            AttVars, EvVars, LogVars, CLIVars, LifeVars, LayVars, RegVars,
            NamVars, QueVars, UnixVars>>
    \/ /\ part = "tags" /\ Tags!Next
       /\ UNCHANGED <<part, OwnVars, PushVars, ImgVars, BuildVars, UDPVars, TCPVars,
            AttVars, EvVars, LogVars, CLIVars, LifeVars, LayVars, RegVars,
            NamVars, QueVars, UnixVars>>
    \/ /\ part = "push" /\ Push!Next
       /\ UNCHANGED <<part, OwnVars, TagsVars, ImgVars, BuildVars, UDPVars, TCPVars,
            AttVars, EvVars, LogVars, CLIVars, LifeVars, LayVars, RegVars,
            NamVars, QueVars, UnixVars>>
    \/ /\ part = "images" /\ Img!Next
       /\ UNCHANGED <<part, OwnVars, TagsVars, PushVars, BuildVars, UDPVars, TCPVars,
            AttVars, EvVars, LogVars, CLIVars, LifeVars, LayVars, RegVars,
            NamVars, QueVars, UnixVars>>
    \/ /\ part = "build" /\ Build!Next
       /\ UNCHANGED <<part, OwnVars, TagsVars, PushVars, ImgVars, UDPVars, TCPVars,
            AttVars, EvVars, LogVars, CLIVars, LifeVars, LayVars, RegVars,
            NamVars, QueVars, UnixVars>>
    \/ /\ part = "udp" /\ UDP!Next
       /\ UNCHANGED <<part, OwnVars, TagsVars, PushVars, ImgVars, BuildVars, TCPVars,
            AttVars, EvVars, LogVars, CLIVars, LifeVars, LayVars, RegVars,
            NamVars, QueVars, UnixVars>>
    \/ /\ part = "tcp" /\ TCP!Next
       /\ UNCHANGED <<part, OwnVars, TagsVars, PushVars, ImgVars, BuildVars, UDPVars,
            AttVars, EvVars, LogVars, CLIVars, LifeVars, LayVars, RegVars,
            NamVars, QueVars, UnixVars>>
    \/ /\ part = "attach" /\ Att!Next
       /\ UNCHANGED <<part, OwnVars, TagsVars, PushVars, ImgVars, BuildVars, UDPVars,
            TCPVars, EvVars, LogVars, CLIVars, LifeVars, LayVars, RegVars,
            NamVars, QueVars, UnixVars>>
    \/ /\ part = "events" /\ Ev!Next
       /\ UNCHANGED <<part, OwnVars, TagsVars, PushVars, ImgVars, BuildVars, UDPVars,
            TCPVars, AttVars, LogVars, CLIVars, LifeVars, LayVars, RegVars,
            NamVars, QueVars, UnixVars>>
    \/ /\ part = "login" /\ Log!Next
       /\ UNCHANGED <<part, OwnVars, TagsVars, PushVars, ImgVars, BuildVars, UDPVars,
            TCPVars, AttVars, EvVars, CLIVars, LifeVars, LayVars, RegVars,
            NamVars, QueVars, UnixVars>>
    \/ /\ part = "cli" /\ CLI!Next
       /\ UNCHANGED <<part, OwnVars, TagsVars, PushVars, ImgVars, BuildVars, UDPVars,
            TCPVars, AttVars, EvVars, LogVars, LifeVars, LayVars, RegVars,
            NamVars, QueVars, UnixVars>>
    \/ /\ part = "life" /\ Life!Next
       /\ UNCHANGED <<part, OwnVars, TagsVars, PushVars, ImgVars, BuildVars, UDPVars,
            TCPVars, AttVars, EvVars, LogVars, CLIVars, LayVars, RegVars,
            NamVars, QueVars, UnixVars>>
    \/ /\ part = "layers" /\ Lay!Next
       /\ UNCHANGED <<part, OwnVars, TagsVars, PushVars, ImgVars, BuildVars, UDPVars,
            TCPVars, AttVars, EvVars, LogVars, CLIVars, LifeVars, RegVars,
            NamVars, QueVars, UnixVars>>
    \/ /\ part = "changes" /\ Diff!Next
       /\ UNCHANGED <<part, OwnVars, TagsVars, PushVars, ImgVars, BuildVars, UDPVars,
            TCPVars, AttVars, EvVars, LogVars, CLIVars, LifeVars, RegVars,
            NamVars, QueVars, UnixVars>>
    \/ /\ part = "registry" /\ Reg!Next
       /\ UNCHANGED <<part, OwnVars, TagsVars, PushVars, ImgVars, BuildVars, UDPVars,
            TCPVars, AttVars, EvVars, LogVars, CLIVars, LifeVars, LayVars,
            NamVars, QueVars, UnixVars>>
    \/ /\ part = "ps" /\ Ps!Next
       /\ UNCHANGED <<part, OwnVars, TagsVars, PushVars, ImgVars, BuildVars, UDPVars,
            TCPVars, AttVars, EvVars, LogVars, CLIVars, LifeVars, LayVars,
            NamVars, QueVars, UnixVars>>
    \/ /\ part = "names" /\ Nam!Next
       /\ UNCHANGED <<part, OwnVars, TagsVars, PushVars, ImgVars, BuildVars, UDPVars,
            TCPVars, AttVars, EvVars, LogVars, CLIVars, LifeVars, LayVars,
            RegVars, QueVars, UnixVars>>
    \/ /\ part = "queue" /\ Que!Next
       /\ UNCHANGED <<part, OwnVars, TagsVars, PushVars, ImgVars, BuildVars, UDPVars,
            TCPVars, AttVars, EvVars, LogVars, CLIVars, LifeVars, LayVars,
            RegVars, NamVars, UnixVars>>
    \/ /\ part = "copy" /\ Cop!Next
       /\ UNCHANGED <<part, OwnVars, TagsVars, PushVars, ImgVars, BuildVars, UDPVars,
            TCPVars, AttVars, EvVars, LogVars, CLIVars, LifeVars, LayVars,
            RegVars, NamVars, UnixVars>>
    \/ /\ part = "unix" /\ Unix!Next
       /\ UNCHANGED <<part, OwnVars, TagsVars, PushVars, ImgVars, BuildVars, UDPVars,
            TCPVars, AttVars, EvVars, LogVars, CLIVars, LifeVars, LayVars,
            RegVars, NamVars, QueVars>>

UVars == <<part, OwnVars, TagsVars, PushVars, ImgVars, BuildVars, UDPVars,
    TCPVars, AttVars, EvVars, LogVars, CLIVars, LifeVars, LayVars, RegVars,
    NamVars, QueVars, UnixVars>>
USpec ==
    /\ UInit /\ [][UNext]_UVars

(* Every part's variables have their types in every state of its           *)
(* behaviours.                                                             *)
Typed ==
    /\ (part = "vols" => TypeOK)
    /\ (part = "tags" => Tags!TypeOK)
    /\ (part = "push" => Push!TypeOK)
    /\ (part = "images" => Img!TypeOK)
    /\ (part = "build" => Build!TypeOK)
    /\ (part = "udp" => UDP!TypeOK)
    /\ (part = "tcp" => TCP!TypeOK)
    /\ (part = "attach" => Att!TypeOK)
    /\ (part = "events" => Ev!TypeOK)
    /\ (part = "login" => Log!TypeOK)
    /\ (part = "cli" => CLI!TypeOK)
    /\ (part = "layers" => Lay!TypeOK)
    /\ (part = "changes" => Diff!TypeOK)
    /\ (part \in {"registry", "ps"} => Reg!TypeOK)
    /\ (part = "names" => Nam!TypeOK)
    /\ (part \in {"queue", "copy"} => Que!TypeOK)
    /\ (part = "unix" => Unix!TypeOK)

(* Builder: a build that uses the cache makes what one without it would    *)
(* make.                                                                   *)
CacheTransparent == part = "build" => Build!CacheTransparent

(* UDPProxy: Run, the reply loops and Close agree on the table of          *)
(* connections and on its lock.                                            *)
UDPSafe == part = "udp" => UDP!UDPSafe

(* ImageStore, PushRegistry, Layers and Images: overlapping pulls and      *)
(* removals leave the pools, the graph and the names in step; what the     *)
(* registry serves is whole, whatever pushes break off or overlap; images  *)
(* are served whole, a commit gives back what the container showed, its    *)
(* differences are told as they are, names lead to their images and        *)
(* listings are true.                                                      *)
ImagesSafe ==
    /\ (part = "images" => Img!ImagesSafe)
    /\ (part = "push" => Push!PushesSafe)
    /\ (part = "names" => Nam!NamingSafe)
    /\ (part = "layers" => Lay!LayersSafe)
    /\ (part = "changes" => Diff!LayersSafe)

(* ContainerLifecycle: with requests at the same time, restarts and torn   *)
(* writes, a running process is always known to the daemon, watched and on *)
(* disk, and its container is never removed.                               *)
AliveIsKnown ==
    /\ (part = "life" => Life!AliveIsKnown)

(* TCPProxy, Attach and Events: what a connection's two directions,        *)
(* attached clients and listeners are sent is whole and in order.          *)
StreamsSafe ==
    /\ (part = "tcp" => TCP!ReplyWhole)
    /\ (part = "attach" => Att!AttachSafe)
    /\ (part = "events" => Ev!EventsSafe)

(* Pipe and UnixConn: Send is told the truth, nobody sleeps on what is     *)
(* there, messages are relayed once, whole and in order with the           *)
(* descriptors they were sent with, and an answer is not lost.             *)
ChannelsSafe ==
    /\ (part = "queue" => Que!PipeSafe)
    /\ (part = "copy" => Cop!PipeSafe)
    /\ (part = "unix" => Unix!ConnSafe)

(* Login, CommandLine and Containers: what commands leave in the user's    *)
(* files and tell in their exit status is true; containers are found,      *)
(* listed and kept as clients were told.                                   *)
ClientsSafe ==
    /\ (part = "registry" => Reg!RegistrySafe)
    /\ (part = "ps" => Ps!RegistrySafe)
    /\ (part = "login" => Log!FileVerified)
    /\ (part = "cli" => CLI!CommandsSafe)

(* TagStore: every step sets or deletes one tag at once, as TagMap         *)
(* promises.                                                               *)
TagsMapped ==
    /\ Tags!TagMapSpec

(* No step takes away an image that is in use, a name that was not meant,  *)
(* another registry's credentials, part of an image, or a mount that is    *)
(* still read; and a stop or kill that succeeds leaves no process.         *)
DataStays ==
    /\ Img!OnlyLooseGo
    /\ Nam!OneNameAtATime
    /\ Log!OthersKept
    /\ Life!StopMeansStopped
    /\ [][part = "layers" => Lay!MountsAndImages]_LayVars
=============================================================================
