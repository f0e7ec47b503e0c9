------------------------------- MODULE Layers -------------------------------
(***************************************************************************)
(* Filesystem layers (graph.go, image.go, changes.go, mount.go, archive.go *)
(* and the mount, export and commit of container.go and runtime.go): how   *)
(* an image comes to the graph's directory and leaves it, how the layers   *)
(* of an image are joined under a container, and how the writable layer is *)
(* compared, exported and committed. Handlers, and the goroutine that      *)
(* cleans up after a container, do all of this without a common lock.      *)
(***************************************************************************)
EXTENDS Naturals, Sequences, FiniteSets

CONSTANTS
    Image, Base,         \* the images there may be; the one without a parent
    Path, Up,            \* the paths; Up[p] is the directory p is in, or None; None
                         \* and Whiteout are neither images nor values
    Value,               \* what a file holds, or a directory's attributes
    Stored,              \* the images on the disk at first: parent and layer
    InitLayer,           \* the dockerinit layer, common to all containers
    Container, Client,
    MaxCalls, MaxWrites, \* bounds: calls, changes of a container's files
    Crashes,             \* bound: how often the daemon dies
    None, Whiteout

Layer == [Path -> Value \cup {None, Whiteout}]
Nothing == [p \in Path |-> None]
IsDir(p) == \E f \in Path : Up[f] = p

VARIABLES disk,   \* the graph's directory: parent, layer and whether there is a json
          index,  \* graph.idIndex, in memory
          image,  \* container.Image
          rw,     \* the containers' writable layers
          mounts, \* how many times the container's rootfs is mounted
          point,  \* is there a directory to mount it on
          call, calls, writes, crashes
vars == <<disk, index, image, rw, mounts, point, call, calls, writes, crashes>>

(* A call: what it is about, how far it is, the archive its tar has made   *)
(* so far, and whether the container has been left alone meanwhile.        *)
Idle == [op |-> None, c |-> None, img |-> None, at |-> "idle",
         asked |-> {}, left |-> {}, got |-> Nothing, ans |-> None, calm |-> TRUE]

Init == /\ disk = [i \in Image |-> IF i \in DOMAIN Stored THEN Stored[i] ELSE None]
        /\ index = DOMAIN Stored /\ image \in [Container -> DOMAIN Stored]
        /\ rw = [c \in Container |-> Nothing]
        /\ mounts = [c \in Container |-> 0] /\ point = [c \in Container |-> FALSE]
        /\ call = [q \in Client |-> Idle] /\ calls = 0 /\ writes = 0 /\ crashes = 0

-----------------------------------------------------------------------------
(* Image.History from the top down, as far as graph.Get finds it.          *)
Get(i) == i \in index /\ disk[i] # None
History(i) ==
    LET up[j \in Image \cup {Base, None}] ==
            IF j = None THEN <<>>
            ELSE IF ~Get(j) THEN <<None>> ELSE <<j>> \o up[disk[j].parent]
    IN  up[i]
Whole(i) == \A k \in DOMAIN History(i) : History(i)[k] # None

(* Image.layers *)
WithInit(layers) == <<InitLayer>> \o layers
LayersOf(i) == WithInit([k \in DOMAIN History(i) |-> disk[History(i)[k]].layer])

(* What aufs shows of layers given from the top down: a whiteout hides the *)
(* file, or everything in the directory, of the layers below it.           *)
Speaks(l, p) == l[p] # None \/ (Up[p] # None /\ l[Up[p]] = Whiteout)
View(layers) == [p \in Path |->
    LET hits == {k \in DOMAIN layers : Speaks(layers[k], p)}
        top == CHOOSE k \in hits : \A j \in hits : k <= j
    IN  IF hits = {} \/ layers[top][p] = Whiteout THEN None ELSE layers[top][p]]
Rootfs(c) == View(<<rw[c]>> \o LayersOf(image[c]))

(* Changes: what the writable layer mentions, compared with the first      *)
(* layer that has such a path; a directory that looks the same there is no *)
(* change.                                                                 *)
Older(layers, p) == {k \in DOMAIN layers : layers[k][p] \notin {None, Whiteout}}
ChangesMutant(layers, top) ==  \* every directory that is mentioned has changed
    LET Kind(p) == IF top[p] = Whiteout THEN "D" ELSE IF Older(layers, p) = {} THEN "A" ELSE "C"
    IN  {<<Kind(p), p>> : p \in {x \in Path : top[x] # None}}
Changes(layers, top) ==
    LET First(p) == CHOOSE k \in Older(layers, p) : \A j \in Older(layers, p) : k <= j
        Same(p) == Older(layers, p) # {} /\ IsDir(p) /\ layers[First(p)][p] = top[p]
        Kind(p) == IF top[p] = Whiteout THEN "D" ELSE IF Older(layers, p) = {} THEN "A" ELSE "C"
    IN  {<<Kind(p), p>> : p \in {x \in Path : top[x] # None /\ ~Same(x)}}

-----------------------------------------------------------------------------
Set(q, new) == call' = [call EXCEPT ![q] = new]
Answer(q, a) == Set(q, [call[q] EXCEPT !.at = "end", !.ans = a])
Call(q, op, c, i, at) ==
    /\ call[q].at = "idle" /\ calls < MaxCalls /\ calls' = calls + 1
    /\ Set(q, [Idle EXCEPT !.op = op, !.c = c, !.img = i, !.at = at])
Others == UNCHANGED <<calls, writes, crashes>>
(* The calls about c, or about an image below it, that were in peace.      *)
Disturb(c, cs) == [q \in Client |-> IF cs[q].c = c THEN [cs[q] EXCEPT !.calm = FALSE] ELSE cs[q]]

(* Start, Commit, Export and Copy begin with container.EnsureMounted.      *)
Ask(q, op, i) == \E c \in Container :
    /\ Call(q, op, c, i, "ensure")
    /\ UNCHANGED <<disk, index, image, rw, mounts, point, writes, crashes>>
Start(q) == Ask(q, "start", None)
Commit(q) == \E i \in Image :   \* a new id
    /\ disk[i] = None /\ \A r \in Client : call[r].img # i
    /\ Ask(q, "commit", i)
Export(q) == Ask(q, "export", None)
CopyOut(q) == Ask(q, "cp", None)
Then(q) == IF call[q].op = "start" THEN [call[q] EXCEPT !.at = "end", !.ans = "ok"]
           ELSE [call[q] EXCEPT !.at = "tar"]
EnsureMounted(q) ==
    /\ call[q].at = "ensure"
    /\ Set(q, IF mounts[call[q].c] > 0 THEN Then(q) ELSE [call[q] EXCEPT !.at = "mount"])
    /\ UNCHANGED <<disk, index, image, rw, mounts, point>> /\ Others

(* Image.Mount looks again, takes the layers together and makes the        *)
(* directory; MountAUFS mounts, over another mount if there is one by now. *)
MountLooks(q) == LET c == call[q].c IN
    /\ call[q].at = "mount"
    /\ IF mounts[c] > 0 \/ ~Whole(image[c])
       THEN Answer(q, "error") /\ UNCHANGED point
       ELSE Set(q, [call[q] EXCEPT !.at = "aufs"]) /\ point' = [point EXCEPT ![c] = TRUE]
    /\ UNCHANGED <<disk, index, image, rw, mounts>> /\ Others
MountAUFS(q) == LET c == call[q].c IN
    /\ call[q].at = "aufs"
    /\ IF point[c] /\ Whole(image[c])
       THEN Set(q, Then(q)) /\ mounts' = [mounts EXCEPT ![c] = @ + 1]
       ELSE Answer(q, "error") /\ UNCHANGED mounts
    /\ UNCHANGED <<disk, index, image, rw, point>> /\ Others

(* Unmount: aufs does not let go of the directory at once, so its removal  *)
(* is tried again, up to a thousand times. A tar that works in the mounted *)
(* tree, even one nobody reads from any more, keeps it busy.               *)
Reading == {"export", "cp"}
InTree(c) == \E q \in Client : call[q].c = c /\ call[q].op \in Reading /\ call[q].at \in {"copy", "stuck"}
AskUnmount(q) == \E c \in Container :
    /\ Call(q, "unmount", c, None, "unmount")
    /\ UNCHANGED <<disk, index, image, rw, mounts, point, writes, crashes>>
Unmount(q) == LET c == call[q].c IN
    /\ call[q].at = "unmount"
    /\ IF mounts[c] = 0 \/ InTree(c)
       THEN Answer(q, "error") /\ UNCHANGED mounts
       ELSE /\ mounts' = [mounts EXCEPT ![c] = @ - 1]
            /\ call' = Disturb(c, [call EXCEPT ![q].at = "rmdir"])
    /\ UNCHANGED <<disk, index, image, rw, point>> /\ Others
RemoveMountpoint(q) == LET c == call[q].c IN
    /\ call[q].at = "rmdir" /\ mounts[c] = 0 /\ Answer(q, "ok")
    /\ point' = [point EXCEPT ![c] = FALSE]
    /\ UNCHANGED <<disk, index, image, rw, mounts>> /\ Others
GiveUpMutant(q) ==  \* no error after the last try
    /\ call[q].at = "rmdir" /\ mounts[call[q].c] > 0 /\ Answer(q, "ok")
    /\ UNCHANGED <<disk, index, image, rw, mounts, point>> /\ Others
GiveUp(q) ==
    /\ call[q].at = "rmdir" /\ mounts[call[q].c] > 0 /\ Answer(q, "error")
    /\ UNCHANGED <<disk, index, image, rw, mounts, point>> /\ Others

-----------------------------------------------------------------------------
(* Tar: a process that reads one path after the other while its output is  *)
(* read, from the writable layer (ExportRw) or from the mounted tree.      *)
Source(q) == LET c == call[q].c IN
    IF call[q].op = "commit" THEN rw[c] ELSE IF mounts[c] > 0 THEN Rootfs(c) ELSE Nothing
Inside(p) == {p} \cup {f \in Path : Up[f] = p}
Tar(q) == \E ps \in IF call[q].op = "cp" THEN {Inside(p) : p \in Path} ELSE {Path} :
    /\ call[q].at = "tar"
    /\ IF \/ call[q].op \in Reading /\ ~point[call[q].c]
          \/ call[q].op = "cp" /\ \A p \in ps : Source(q)[p] = None
       THEN Answer(q, "error")
       ELSE Set(q, [call[q] EXCEPT !.at = "copy", !.left = ps, !.asked = ps])
    /\ UNCHANGED <<disk, index, image, rw, mounts, point>> /\ Others
CopyMutant(q) == \E p \in call[q].left :  \* whiteouts are left out
    /\ call[q].at = "copy"
    /\ LET now == [call[q] EXCEPT !.left = @ \ {p},
                     !.got[p] = IF Source(q)[p] = Whiteout THEN None ELSE Source(q)[p]]
       IN  Set(q, IF now.left # {} THEN now
                  ELSE IF now.op \in Reading THEN [now EXCEPT !.at = "end", !.ans = "ok"]
                  ELSE [now EXCEPT !.at = "json"])
    /\ UNCHANGED <<disk, index, image, rw, mounts, point>> /\ Others
Copy(q) == \E p \in call[q].left :
    /\ call[q].at = "copy"
    /\ LET now == [call[q] EXCEPT !.left = @ \ {p}, !.got[p] = Source(q)[p]]
       IN  Set(q, IF now.left # {} THEN now
                  ELSE IF now.op \in Reading THEN [now EXCEPT !.at = "end", !.ans = "ok"]
                  ELSE [now EXCEPT !.at = "json"])
    /\ UNCHANGED <<disk, index, image, rw, mounts, point>> /\ Others

(* The client goes away: nobody reads the archive and nobody stops tar.    *)
Abandon(q) ==
    /\ call[q].op \in Reading /\ call[q].at = "copy" /\ Set(q, [call[q] EXCEPT !.at = "stuck"])
    /\ UNCHANGED <<disk, index, image, rw, mounts, point>> /\ Others

(* Graph.Register of a layer the registry sends, under the id it has there *)
Pull(q) == \E i \in Image \ {Base} :
    /\ ~Get(i) /\ \A r \in Client : call[r].op \in {"commit", "import"} => call[r].img # i
    /\ Call(q, "pull", None, i, "receive")
    /\ UNCHANGED <<disk, index, image, rw, mounts, point, writes, crashes>>
(* docker import: the archive the client sends, as an image without parent *)
Import(q) == \E i \in Image :
    /\ disk[i] = None /\ \A r \in Client : call[r].img # i
    /\ Call(q, "import", None, i, "receive")
    /\ UNCHANGED <<disk, index, image, rw, mounts, point, writes, crashes>>
Receive(q) == \E l \in {Stored[Base].layer, Nothing} :
    /\ call[q].at = "receive" /\ Set(q, [call[q] EXCEPT !.at = "json", !.got = l])
    /\ UNCHANGED <<disk, index, image, rw, mounts, point>> /\ Others

Registering == {"commit", "pull", "import"}
(* Untar fails, or the archive breaks off: the temporary directory goes.   *)
Untar(q) ==
    /\ call[q].op \in Registering /\ call[q].at \in {"copy", "receive"} /\ Answer(q, "error")
    /\ UNCHANGED <<disk, index, image, rw, mounts, point>> /\ Others

(* Register's end: the complete directory takes its name, unless the name  *)
(* is taken; then the index learns of it.                                  *)
ParentOf(q) == CASE call[q].op = "commit" -> image[call[q].c]
                 [] call[q].op = "pull" -> Base
                 [] OTHER -> None
RenameMutant(q) == LET i == call[q].img IN  \* over what is there
    /\ call[q].at = "json"
    /\ disk' = [disk EXCEPT ![i] = [parent |-> ParentOf(q), layer |-> call[q].got]]
    /\ Set(q, [call[q] EXCEPT !.at = "index"])
    /\ UNCHANGED <<index, image, rw, mounts, point>> /\ Others
Rename(q) == LET i == call[q].img IN
    /\ call[q].at = "json"
    /\ IF disk[i] # None THEN Answer(q, "error") /\ UNCHANGED disk
       ELSE /\ disk' = [disk EXCEPT ![i] = [parent |-> ParentOf(q), layer |-> call[q].got]]
            /\ Set(q, [call[q] EXCEPT !.at = "index"])
    /\ UNCHANGED <<index, image, rw, mounts, point>> /\ Others
RegisterMutant(q) ==  \* the index does not learn of it
    /\ call[q].at = "index" /\ UNCHANGED index /\ Answer(q, "ok")
    /\ UNCHANGED <<disk, image, rw, mounts, point>> /\ Others
Register(q) ==
    /\ call[q].at = "index" /\ index' = index \cup {call[q].img} /\ Answer(q, "ok")
    /\ UNCHANGED <<disk, image, rw, mounts, point>> /\ Others

-----------------------------------------------------------------------------
(* Graph.Delete: found, out of the index, renamed away. Its callers see to *)
(* it that no other image and no container has it below.                   *)
Below(i) == {j \in Image : disk[j] # None /\ disk[j].parent = i}
         \cup {q \in Client : call[q].op \in Registering /\ call[q].at # "end" /\ ParentOf(q) = i}
AskDelete(q) == \E i \in index \ {Base} :
    /\ Below(i) = {} /\ \A c \in Container : image[c] # i
    /\ Call(q, "delete", None, i, "unindex")
    /\ UNCHANGED <<disk, index, image, rw, mounts, point, writes, crashes>>
Unindex(q) ==
    /\ call[q].at = "unindex" /\ index' = index \ {call[q].img}
    /\ Set(q, [call[q] EXCEPT !.at = "away"])
    /\ UNCHANGED <<disk, image, rw, mounts, point>> /\ Others
Delete(q) == LET i == call[q].img IN
    /\ call[q].at = "away" /\ Answer(q, IF disk[i] = None THEN "error" ELSE "ok")
    /\ disk' = [disk EXCEPT ![i] = None]
    /\ UNCHANGED <<index, image, rw, mounts, point>> /\ Others

(* A container whose process has ended and that nobody works with is       *)
(* removed, another is created in its place.                               *)
Create(c, i) ==
    /\ Get(i) /\ i # image[c] /\ mounts[c] = 0 /\ \A q \in Client : call[q].c # c
    /\ \A q \in Client : call[q].op = "delete" => call[q].img # i
    /\ image' = [image EXCEPT ![c] = i] /\ rw' = [rw EXCEPT ![c] = Nothing]
    /\ UNCHANGED <<disk, index, mounts, point, call>> /\ Others

(* The container's process changes its files, and aufs the writable layer: *)
(* a file is written in a directory there is, a directory once it is empty *)
(* is removed; what lower layers have is hidden by a whiteout.             *)
Lower(c) == View(LayersOf(image[c]))
Write(c) == \E p \in Path, v \in Value : LET d == Up[p] IN
    /\ mounts[c] > 0 /\ writes < MaxWrites /\ writes' = writes + 1
    /\ d # None => Rootfs(c)[d] # None
    /\ IsDir(p) => rw[c][p] # Whiteout
    /\ rw' = [rw EXCEPT ![c] = [x \in Path |->
                 IF x = p THEN v ELSE IF x = d /\ @[d] = None THEN Rootfs(c)[d] ELSE @[x]]]
    /\ call' = Disturb(c, call)
    /\ UNCHANGED <<disk, index, image, mounts, point, calls, crashes>>
Remove(c) == \E p \in Path : LET d == Up[p] IN
    /\ mounts[c] > 0 /\ writes < MaxWrites /\ writes' = writes + 1
    /\ Rootfs(c)[p] # None /\ \A f \in Path : Up[f] = p => Rootfs(c)[f] = None
    /\ rw' = [rw EXCEPT ![c] = [x \in Path |->
                 CASE x = p -> IF Lower(c)[p] # None THEN Whiteout ELSE None
                   [] x # p /\ Up[x] = p -> None
                   [] x = d /\ @[d] = None -> Rootfs(c)[d]
                   [] OTHER -> @[x]]]
    /\ call' = Disturb(c, call)
    /\ UNCHANGED <<disk, index, image, mounts, point, calls, crashes>>

(* The daemon dies and is started again: calls and index are gone, mounts  *)
(* and directories are not; NewGraph finds what is in the directory.       *)
RestartMutant ==  \* the directory is not read
    /\ crashes < Crashes /\ crashes' = crashes + 1
    /\ index' = {} /\ call' = [q \in Client |-> Idle]
    /\ UNCHANGED <<disk, image, rw, mounts, point, calls, writes>>
Restart ==
    /\ crashes < Crashes /\ crashes' = crashes + 1
    /\ index' = {i \in Image : disk[i] # None} /\ call' = [q \in Client |-> Idle]
    /\ UNCHANGED <<disk, image, rw, mounts, point, calls, writes>>

Return(q) ==
    /\ call[q].at = "end" /\ Set(q, Idle)
    /\ UNCHANGED <<disk, index, image, rw, mounts, point>> /\ Others

Next ==
    \/ \E q \in Client :
          \/ Start(q) \/ Commit(q) \/ Export(q) \/ CopyOut(q)
          \/ EnsureMounted(q) \/ MountLooks(q) \/ MountAUFS(q)
          \/ AskUnmount(q) \/ Unmount(q) \/ RemoveMountpoint(q) \/ GiveUp(q)
          \/ Tar(q) \/ Copy(q) \/ Abandon(q) \/ Pull(q) \/ Import(q) \/ Receive(q) \/ Untar(q)
          \/ Rename(q) \/ Register(q) \/ AskDelete(q) \/ Unindex(q) \/ Delete(q) \/ Return(q)
    \/ \E c \in Container : Write(c) \/ Remove(c) \/ \E i \in Image : Create(c, i)
    \/ Restart

Spec == Init /\ [][Next]_vars

-----------------------------------------------------------------------------
TypeOK ==
    /\ \A i \in Image : disk[i] # None => disk[i].layer \in Layer /\ disk[i].parent \in Image \cup {None}
    /\ index \subseteq Image /\ image \in [Container -> Image] /\ rw \in [Container -> Layer]
    /\ mounts \in [Container -> Nat] /\ point \in [Container -> BOOLEAN]

(* Changes lists exactly the paths the container shows otherwise than its  *)
(* image does, each of the right kind, except that a file an image removed *)
(* and the container made again counts as changed (changes.go:36-106).      *)
DiffTellsTheTruth == \A c \in Container : Whole(image[c]) =>
    LET below == LayersOf(image[c])
        listed == Changes(below, rw[c])
        before == View(below)  after == Rootfs(c)
        Removed(p) == before[p] # None /\ after[p] = None
    IN  /\ \A p \in Path : (before[p] # after[p] /\ ~(Removed(p) /\ Up[p] # None /\ after[Up[p]] = None))
                              => \E k \in {"A", "C", "D"} : <<k, p>> \in listed
        /\ \A p \in Path : <<"D", p>> \in listed => Removed(p)
        /\ \A p \in Path : <<"A", p>> \in listed => before[p] = None /\ after[p] # None
        /\ \A p \in Path : <<"C", p>> \in listed => after[p] # None
        /\ \A k \in {"A", "C"}, p \in Path :
              <<k, p>> \in listed /\ IsDir(p) => before[p] # after[p]

(* A commit, an export or a cp of a container nobody changed meanwhile gives   *)
(* what the container showed: who starts from the new image, or unpacks    *)
(* the archive, sees the same files, those aside that the dockerinit layer *)
(* covers (runtime.go:404-421, container.go:1106).                         *)
RoundTrip == \A q \in Client :
    call[q].at = "end" /\ call[q].ans = "ok" /\ call[q].calm =>
       /\ call[q].op \in Reading => \A p \in call[q].asked : call[q].got[p] = Rootfs(call[q].c)[p]
       /\ call[q].op = "commit" /\ Get(call[q].img) =>
             \A p \in Path : InitLayer[p] = None =>
                View(LayersOf(call[q].img))[p] = Rootfs(call[q].c)[p]

(* The graph serves no image that it does not have with all its layers,    *)
(* and one it has and nobody is adding or removing, it serves              *)
(* (graph.go:119-143, 258-273).                                            *)
Moving(i) == \E q \in Client : call[q].img = i /\ call[q].op \in Registering \cup {"delete"}
GraphServesWhole == \A i \in Image :
    /\ Get(i) => Whole(i)
    /\ disk[i] # None /\ ~Moving(i) => Get(i)

(* Everything of the above at all times.                                   *)
LayersSafe == DiffTellsTheTruth /\ RoundTrip /\ GraphServesWhole

(* Unmount answers without error only when the rootfs was not mounted any  *)
(* more, and unmounts nothing that an export still reads (mount.go:13);    *)
(* an image, registered whole, stays as it is until it goes as a whole     *)
(* (graph.go:119-143).                                                     *)
UnmountIsDone(q) ==
    /\ (call[q].op = "unmount" /\ call[q].at # "end" /\ call'[q].ans = "ok") => mounts[call[q].c] = 0
    /\ call[q].op \in Reading /\ call[q].at = "copy" => mounts'[call[q].c] >= mounts[call[q].c]
ImageStays(i) == disk[i] # None => disk'[i] \in {disk[i], None}
MountsAndImages == (\A q \in Client : UnmountIsDone(q)) /\ \A i \in Image : ImageStays(i)
MountsAndImagesStay == [][MountsAndImages]_vars
=============================================================================
