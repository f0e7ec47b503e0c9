------------------------------ MODULE Builder ------------------------------
(***************************************************************************)
(* docker build (buildfile.go): an interpreter that turns each instruction *)
(* of a Dockerfile into an image, a child of the one before, or finds that *)
(* image among the children it has (ImageGetCached).  Its one Config is    *)
(* changed by the instructions, and by MergeConfig whenever a container is *)
(* created, which a step answered from the cache does not do.              *)
(* Beside each build runs the same build without the cache.                *)
(***************************************************************************)
EXTENDS Naturals, FiniteSets, SequencesExt

CONSTANTS
    Instruction,  \* what a Dockerfile may consist of
    Base,         \* names of images on the registry
    BaseConfig,   \* BaseConfig[n]: the Config of image n
    Printed,      \* Printed[c]: how fmt prints the command c
    Home,         \* the Env every build begins with
    MaxImages, MaxBuilds, MaxSteps,  \* bounds
    None

VARIABLES
    images,   \* the graph: images[k] has a parent, two configs and layers
    named,    \* named[n]: the image called n, or None
    conts,    \* the number of containers there are
    build,    \* the build that is going on
    builds    \* how many there were

vars == <<images, named, conts, build, builds>>

(* Config, as far as a Dockerfile sets it. *)
NoConfig == [user |-> None, env |-> <<>>, cmd |-> None, entry |-> None,
             ports |-> <<>>, vols |-> {}, work |-> None]
Idle == [img |-> None]
ImageIds == 1 .. Len(images)
Building == build # Idle

TypeOK ==
    /\ \A k \in ImageIds : images[k].parent \in (1 .. k - 1) \cup {None}
    /\ named \in [Base -> ImageIds \cup {None}]
    /\ conts \in 0 .. MaxImages * MaxBuilds /\ builds \in 0 .. MaxBuilds
    /\ Building => build.img \in ImageIds /\ build.tmp <= conts

Init ==
    /\ images = <<>> /\ named = [n \in Base |-> None]
    /\ conts = 0 /\ build = Idle /\ builds = 0
-----------------------------------------------------------------------------
(* utils.go: MergeConfig.  A field the user has not set is the image's;    *)
(* ports and variables the user has not set are added behind the user's.   *)
Keys(env) == {env[k][1] : k \in DOMAIN env}
Rest(seq, set) == SelectSeq(seq, LAMBDA x : x \notin set)
Or(a, b) == IF a = None THEN b ELSE a
Merge(u, i) ==
    [user |-> Or(u.user, i.user), cmd |-> Or(u.cmd, i.cmd),
     entry |-> Or(u.entry, i.entry), work |-> Or(u.work, i.work),
     vols |-> u.vols \cup i.vols,
     ports |-> u.ports \o Rest(i.ports, ToSet(u.ports)),
     env |-> u.env \o Rest(i.env, {e \in ToSet(i.env) : e[1] \in Keys(u.env)})]

(* CompareConfig: all these fields, but not the working directory.         *)
Compare(a, b) ==
    /\ a.user = b.user /\ a.cmd = b.cmd /\ a.env = b.env
    /\ a.ports = b.ports /\ a.entry = b.entry /\ a.vols = b.vols

(* ReplaceEnvMatches and CmdEnv: $key stands for the variable's value, if  *)
(* the Config of the build has it by now.                                  *)
Position(env, key) == {k \in DOMAIN env : env[k][1] = key}
First(S) == CHOOSE k \in S : \A j \in S : k <= j
Replaced(env, v) ==
    IF v.ref = None \/ Position(env, v.ref) = {} THEN v
    ELSE env[First(Position(env, v.ref))][2]
SetEnv(env, key, v) ==
    IF Position(env, key) = {} THEN Append(env, <<key, v>>)
    ELSE [env EXCEPT ![First(Position(env, key))] = <<key, v>>]

(* What an instruction makes of the Config before its commit.              *)
Apply(c, ins) ==
    CASE ins.op = "env" -> [c EXCEPT !.env = SetEnv(@, ins.key, Replaced(@, ins.val))]
      [] ins.op = "expose" -> [c EXCEPT !.ports = <<ins.arg>> \o @]
      [] ins.op = "user" -> [c EXCEPT !.user = ins.arg]
      [] ins.op = "entrypoint" -> [c EXCEPT !.entry = ins.arg]
      [] ins.op = "workdir" -> [c EXCEPT !.work = ins.arg]
      [] ins.op = "volume" -> [c EXCEPT !.vols = @ \cup {ins.arg}]
      [] OTHER -> c

(* The command of its container: what RUN runs, or else a comment.         *)
Comment(c, ins) ==
    CASE ins.op = "run" -> <<"sh", ins.arg>>
      [] ins.op = "env" -> <<"nop", ins.op, ins.key, Replaced(c.env, ins.val)>>
      [] ins.op = "cmd" -> <<"nop", ins.op, Printed[ins.arg]>>
      [] OTHER -> <<"nop", ins.op, ins.arg>>

(* The command the image gets, and the Config keeps after a CMD.           *)
AutoCmd(c, ins) == IF ins.op = "cmd" THEN ins.arg ELSE c.cmd

(* The layer: what RUN does depends on where and as whom it runs, and on   *)
(* its environment; ADD copies; the others change nothing.                 *)
Value(env) == [key \in Keys(env) |-> env[First(Position(env, key))][2]]
Layer(c, ins) ==
    CASE ins.op = "run" -> <<ins.arg, c.user, c.work, Value(c.env)>>
      [] ins.op = "add" -> <<ins.arg>>
      [] OTHER -> <<>>

(* A step without the cache, from Config c at an image with the given      *)
(* Config and layers: the Config after it, and the new image.              *)
Container(c, img, ins) == Merge([Apply(c, ins) EXCEPT !.cmd = Comment(c, ins)], img.cfg)
Commit(c, img, ins) ==
    [cfg |-> [Container(c, img, ins) EXCEPT !.cmd = AutoCmd(c, ins)],
     fs |-> Append(img.fs, Layer(Container(c, img, ins), ins))]
-----------------------------------------------------------------------------
(* FROM: the image of that name, pulled if it is not here; or by its id.   *)
(* The Config starts anew, with the image's merged in by the first Create. *)
Start(k, img) ==
    build' = [img |-> k, made |-> img.parent # None, cfg |-> [NoConfig EXCEPT !.env = Home], tmp |-> 0, n |-> 0,
              plain |-> [cfg |-> [NoConfig EXCEPT !.env = Home],
                         img |-> [cfg |-> img.cfg, fs |-> img.fs]]]

BaseImage(n) == [parent |-> None, ccfg |-> NoConfig, cfg |-> BaseConfig[n], fs |-> <<n>>]

CmdFrom ==
    /\ ~Building /\ builds < MaxBuilds /\ builds' = builds + 1
    /\ \/ \E n \in Base :
             /\ named[n] = None /\ Len(images) < MaxImages
             /\ images' = Append(images, BaseImage(n))
             /\ named' = [named EXCEPT ![n] = Len(images) + 1]
             /\ Start(Len(images) + 1, BaseImage(n))
       \/ \E k \in ImageIds : Start(k, images[k]) /\ UNCHANGED <<images, named>>
    /\ UNCHANGED conts

(* ImageGetCached: any child of the image with an equal ContainerConfig.   *)
(* ADD does not ask.                                                       *)
CachedMutant(c, k, ins) ==
    {j \in ImageIds : /\ ins.op # "add" /\ images[j].parent # None
                /\ Compare(images[j].ccfg, [Apply(c, ins) EXCEPT !.cmd = Comment(c, ins)])}
Cached(c, k, ins) ==
    {j \in ImageIds : /\ ins.op # "add" /\ images[j].parent = k
                /\ Compare(images[j].ccfg, [Apply(c, ins) EXCEPT !.cmd = Comment(c, ins)])}

Plain(ins) ==
    LET p == build.plain
    IN  [cfg |-> [Container(p.cfg, p.img, ins) EXCEPT !.cmd = AutoCmd(p.cfg, ins)],
         img |-> Commit(p.cfg, p.img, ins)]

Hit(ins, useCache) ==
    /\ useCache
    /\ \E j \in Cached(build.cfg, build.img, ins) :
          build' = [build EXCEPT !.img = j, !.n = @ + 1, !.plain = Plain(ins),
              !.cfg = [Apply(build.cfg, ins) EXCEPT !.cmd = AutoCmd(build.cfg, ins)]]
    /\ UNCHANGED <<images, conts>>

Miss(ins, useCache) ==
    LET c == build.cfg
        img == images[build.img]
        made == Commit(c, img, ins)
    IN  /\ useCache => Cached(c, build.img, ins) = {}
        /\ Len(images) < MaxImages
        /\ images' = Append(images, [parent |-> build.img, ccfg |-> Container(c, img, ins),
                                     cfg |-> made.cfg, fs |-> made.fs])
        /\ conts' = conts + 1
        /\ build' = [build EXCEPT !.img = Len(images) + 1, !.n = @ + 1, !.tmp = @ + 1,
              !.plain = Plain(ins),
              !.cfg = [Container(c, img, ins) EXCEPT !.cmd = AutoCmd(c, ins)]]

(* The next line of the Dockerfile; -no-cache is one choice per build, and *)
(* any choice per step includes it.                                        *)
Instruct ==
    /\ Building /\ build.n < MaxSteps
    /\ \E ins \in Instruction, useCache \in BOOLEAN : Hit(ins, useCache) \/ Miss(ins, useCache)
    /\ UNCHANGED <<named, builds>>

(* A step fails, a RUN after it has created its container: the containers  *)
(* of a build that fails stay.                                             *)
Fails ==
    /\ Building
    /\ conts' \in {conts, conts + 1}
    /\ build' = Idle
    /\ UNCHANGED <<images, named, builds>>

(* Successfully built; with -rm the intermediate containers go.            *)
ClearTmp == conts - build.tmp
Built ==
    /\ Building
    /\ \E rm \in BOOLEAN : conts' = IF rm THEN ClearTmp ELSE conts
    /\ build' = Idle
    /\ UNCHANGED <<images, named, builds>>

Next == CmdFrom \/ Instruct \/ Fails \/ Built

Spec == Init /\ [][Next]_vars
-----------------------------------------------------------------------------
(* Caching is transparent: at every step the image a build has reached is  *)
(* what the same instructions make without the cache, layers and Config.   *)
CacheTransparent ==
    Building /\ ~build.made =>
        /\ images[build.img].fs = build.plain.img.fs
        /\ images[build.img].cfg = build.plain.img.cfg
=============================================================================
