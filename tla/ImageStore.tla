----------------------------- MODULE ImageStore -----------------------------
(***************************************************************************)
(* The images of the daemon and the requests that add and remove them      *)
(* (graph.go, and docker pull, commit, import, tag, run and rmi in         *)
(* server.go and runtime.go), any number of them at a time:                *)
(*  - a pull downloads the images of a repository, each with its history   *)
(*    from the image itself down to its base, in goroutines or one by one, *)
(*    from several endpoints, under the keys of srv.pullingPool;           *)
(*  - an rmi takes a name away, then the image, its descendants and its    *)
(*    ancestors, as far as no name or child keeps them.                    *)
(* The names are the table TagMap, which TagStore implements.              *)
(***************************************************************************)
EXTENDS Naturals, Sequences, FiniteSets

CONSTANTS
    Image,       \* the images there are, here or on the registry
    History,     \* History[i]: i, its parent, and so on down to its base
    Repo, Tag,   \* the names
    RemoteTags,  \* RemoteTags[r]: the registry's tags of r, image or None
    Endpoints,   \* how many endpoints the registry names
    Client,      \* requests the daemon serves at the same time
    Stores,      \* what the daemon may find on its disk at first
    MaxRequests, \* bound: requests made in a behaviour
    None, Lost

Parent(i) == IF Len(History[i]) = 1 THEN None ELSE History[i][2]
Lineage(i) == {History[i][k] : k \in DOMAIN History[i]}

HistoryAssumption ==
    /\ History \in [Image -> Seq(Image)]
    /\ \A i \in Image :
          /\ History[i] # <<>> /\ History[i][1] = i
          /\ Len(History[i]) > 1 => History[Parent(i)] = Tail(History[i])
NamesAssumption == None \notin Image /\ RemoteTags \in [Repo -> [Tag -> Image \cup {None}]]
EndpointsAssumption == Endpoints \in Nat \ {0} /\ MaxRequests \in Nat
StoresAssumption ==
    \A s \in Stores :
       /\ s.graph \subseteq Image /\ s.used \subseteq s.graph
       /\ s.tags \in [Repo -> [Tag -> s.graph \cup {None}]]
       /\ \A i \in s.graph : Lineage(i) \subseteq s.graph

VARIABLES
    graph,   \* the images in Graph: on disk and in its index
    tags,    \* TagStore
    pool,    \* the keys of srv.pullingPool
    used,    \* the images containers were created from
    req,     \* req[c]: what request c is doing
    job,     \* job[c][i]: pullRepository's downloadImage of image i
    made,    \* how many requests were made
    mishap   \* what has happened that the properties exclude, see below

vars == <<graph, tags, pool, used, req, job, made, mishap>>

Names == INSTANCE TagMap WITH Id <- Image

Idle == [kind |-> "idle"]
NoJob == [st |-> "none", pos |-> 1, ep |-> 1]
Active == {"take", "fetch"}

TypeOK ==
    /\ graph \subseteq Image /\ used \subseteq Image
    /\ tags \in [Repo -> [Tag -> Image \cup {None}]]
    /\ DOMAIN req = Client
    /\ job \in [Client -> [Image ->
          [st : {"none", "wait", "ok", "failed"} \cup Active, pos : Nat, ep : Nat]]]
    /\ made \in 0 .. MaxRequests
    /\ mishap \subseteq {"failed pull", "overlap", "old rmi", "in use"}

Init ==
    /\ \E s \in Stores : graph = s.graph /\ tags = s.tags /\ used = s.used
    /\ pool = {} /\ made = 0 /\ mishap = {}
    /\ req = [c \in Client |-> Idle]
    /\ job = [c \in Client |-> [i \in Image |-> NoJob]]

Tagged(i) == \E r \in Repo, t \in Tag : tags[r][t] = i
NamesOf(i) == {n \in Repo \X Tag : tags[n[1]][n[2]] = i}

(* Graph.ByParent()[i] *)
ChildrenMutant(i) == {k \in graph : Parent(k) = i /\ ~Tagged(k)}
Children(i) == IF i \in graph THEN {k \in graph : Parent(k) = i} ELSE {}

(* A request begins.  rmi and the requests that add images, names or       *)
(* containers know nothing of one another: that they met is a mishap.      *)
Begin(c, r) ==
    /\ req[c] = Idle /\ made < MaxRequests
    /\ made' = made + 1
    /\ req' = [req EXCEPT ![c] = r]

Meets(k) ==
    \E d \in Client : req[d] # Idle /\ (req[d].kind = "rmi") # (k = "rmi")
Overlaps(k) == IF Meets(k) THEN {"overlap"} ELSE {}

Return(c) == req' = [req EXCEPT ![c] = Idle]
-----------------------------------------------------------------------------
(* docker pull: ImagePull and pullRepository.                              *)

RepoKey(r, asked) == <<"repo", r, asked>>
ImgKey(i) == <<"img", i>>
LayerKey(i) == <<"layer", i>>

(* The tags to pull: the one that was asked for, or all. *)
Asks(r) == {t \in Tag : RemoteTags[r][t] # None}
Wanted(r, asked) == IF asked = None THEN Asks(r) ELSE {asked}

(* poolAdd takes the lock; poolRemove does not, but one delete is one step.*)
CanAdd(key) == key \notin pool

PullRepository(c) ==
    \E r \in Repo, par \in BOOLEAN : \E asked \in Asks(r) \cup {None} :
        /\ CanAdd(RepoKey(r, asked))
        /\ Begin(c, [kind |-> "pull", repo |-> r, asked |-> asked, par |-> par,
                     left |-> Wanted(r, asked)])
        /\ pool' = pool \cup {RepoKey(r, asked)}
        /\ job' = [job EXCEPT ![c] = [i \in Image |->
              IF \E t \in Wanted(r, asked) : RemoteTags[r][t] = i
              THEN [NoJob EXCEPT !.st = "wait"] ELSE NoJob]]
        /\ mishap' = mishap \cup Overlaps("pull")
        /\ UNCHANGED <<graph, tags, used>>

(* downloadImage: in a goroutine of its own, or after the ones before it.  *)
(* An image some pull is on already is skipped, and counts as pulled.      *)
DownloadImage(c, i) ==
    /\ req[c].kind = "pull" /\ job[c][i].st = "wait"
    /\ req[c].par \/ \A k \in Image : job[c][k].st \notin Active
    /\ IF CanAdd(ImgKey(i))
       THEN /\ pool' = pool \cup {ImgKey(i)}
            /\ job' = [job EXCEPT ![c][i].st = "take"]
       ELSE /\ job' = [job EXCEPT ![c][i].st = "ok"]
            /\ UNCHANGED pool
    /\ UNCHANGED <<graph, tags, used, req, mishap, made>>

(* The layers of its history a pullImage has put into the pool: the        *)
(* deferred poolRemoves take them out when it returns.                     *)
Held(i, j) ==
    {LayerKey(History[i][k]) :
        k \in 1 .. IF j.st = "fetch" THEN j.pos ELSE j.pos - 1}

AfterImageMutant(i, j) == {}
AfterImage(i, j) == Held(i, j) \cup {ImgKey(i)}
Ends(c, i, st) ==
    /\ pool' = pool \ AfterImage(i, job[c][i])
    /\ job' = [job EXCEPT ![c][i] = [NoJob EXCEPT !.st = st]]

(* pullImage at a layer: somebody else's is no error, the whole image      *)
(* counts as pulled; one that is there already is passed over.             *)
TakesMutant(layer) == TRUE
Takes(layer) == CanAdd(LayerKey(layer))
TakeLayer(c, i) ==
    /\ job[c][i].st = "take"
    /\ LET j == job[c][i]
       IN  IF j.pos > Len(History[i]) THEN Ends(c, i, "ok")
           ELSE LET layer == History[i][j.pos]
                IN  IF ~Takes(layer) THEN Ends(c, i, "ok")
                    ELSE /\ pool' = pool \cup {LayerKey(layer)}
                         /\ job' = IF layer \in graph
                                   THEN [job EXCEPT ![c][i].pos = @ + 1]
                                   ELSE [job EXCEPT ![c][i].st = "fetch"]
    /\ UNCHANGED <<graph, tags, used, req, mishap, made>>

(* The layer arrives, and is renamed into place, unless it is there.       *)
Fetched(c, i) ==
    /\ job[c][i].st = "fetch" /\ History[i][job[c][i].pos] \notin graph
    /\ graph' = graph \cup {History[i][job[c][i].pos]}
    /\ job' = [job EXCEPT ![c][i].st = "take", ![c][i].pos = @ + 1]
    /\ UNCHANGED <<tags, pool, used, req, mishap, made>>

(* An error of pullImage: the next endpoint is tried, from the top.  What  *)
(* was registered stays, a child without its parent included.              *)
NextEndpointMutant(ep) == ep
NextEndpoint(ep) == ep + 1
FetchFails(c, i) ==
    /\ job[c][i].st = "fetch"
    /\ IF job[c][i].ep < Endpoints
       THEN /\ pool' = pool \ Held(i, job[c][i])
            /\ job' = [job EXCEPT ![c][i] =
                  [st |-> "take", pos |-> 1, ep |-> NextEndpoint(job[c][i].ep)]]
            /\ UNCHANGED mishap
       ELSE /\ Ends(c, i, "failed")
            /\ mishap' = mishap \cup {"failed pull"}
    /\ UNCHANGED <<graph, tags, used, req, made>>

PullDone(c) ==
    /\ Return(c)
    /\ pool' = pool \ {RepoKey(req[c].repo, req[c].asked)}
    /\ job' = [job EXCEPT ![c] = [i \in Image |-> NoJob]]

Over(c) == \A i \in Image : job[c][i].st \in {"none", "ok", "failed"}
Failed(c) == req[c].par /\ \E i \in Image : job[c][i].st = "failed"

(* TagStore.Set begins with a lookup of the image. *)
FoundMutant(i) == TRUE
Found(i) == i \in graph

(* All downloads are over: the tags are set, one after another.  Only a    *)
(* parallel pull takes notice of a failed download; the others find out    *)
(* when the image of a tag is not there.                                   *)
SetsTags(c) == req[c].kind = "pull" /\ Over(c)
PullTags(c) ==
    /\ SetsTags(c) /\ ~Failed(c)
    /\ \E t \in req[c].left :
          LET i == RemoteTags[req[c].repo][t]
          IN  IF Found(i)
              THEN /\ Names!Set(req[c].repo, t, i)
                   /\ req' = [req EXCEPT ![c].left = @ \ {t}]
                   /\ UNCHANGED <<pool, job>>
              ELSE PullDone(c) /\ UNCHANGED tags
    /\ UNCHANGED <<graph, used, mishap, made>>

PullReturns(c) ==
    /\ SetsTags(c) /\ (Failed(c) \/ req[c].left = {})
    /\ PullDone(c)
    /\ UNCHANGED <<graph, tags, used, mishap, made>>
-----------------------------------------------------------------------------
(* docker run's ContainerCreate, docker tag, commit and import.            *)

Run(c) ==
    \E i \in graph :
        /\ Begin(c, Idle) /\ used' = used \cup {i}
        /\ mishap' = mishap \cup Overlaps("run")
        /\ UNCHANGED <<graph, tags, pool, job>>

TagImage(c) ==
    \E i \in graph, r \in Repo, t \in Tag :
        /\ Begin(c, Idle) /\ Names!Set(r, t, i)
        /\ mishap' = mishap \cup Overlaps("tag")
        /\ UNCHANGED <<graph, pool, used, job>>

(* The image of a commit is a child of its container's image, whether that *)
(* is still there or not; the one of an import has no parent.              *)
Create(c) ==
    \E i \in Image \ graph, r \in Repo, t \in Tag :
        /\ \A s \in Repo, u \in Tag : RemoteTags[s][u] = None \/ i \notin Lineage(RemoteTags[s][u])
        /\ Parent(i) \in used \cup {None}
        /\ Begin(c, [kind |-> "create", repo |-> r, tag |-> t, img |-> i])
        /\ graph' = graph \cup {i}
        /\ mishap' = mishap \cup Overlaps("create")
        /\ UNCHANGED <<tags, pool, used, job>>

CreateTags(c) ==
    /\ req[c].kind = "create"
    /\ IF Found(req[c].img)
       THEN Names!Set(req[c].repo, req[c].tag, req[c].img)
       ELSE UNCHANGED tags
    /\ Return(c)
    /\ UNCHANGED <<graph, pool, used, job, mishap, made>>
-----------------------------------------------------------------------------
(* docker rmi.                                                             *)

(* LookupImage; before API 1.2 the image is deleted at once, whatever      *)
(* names and children it has.                                              *)
Deletes(i) ==
    /\ graph' = graph \ {i}
    /\ mishap' = mishap \cup
          IF \E u \in used : i \in Lineage(u) THEN {"in use"} ELSE {}

OldRmi(c) ==
    \E i \in graph :
        /\ Begin(c, Idle)
        /\ graph' = graph \ {i}
        /\ mishap' = mishap \cup {"old rmi"}
        /\ UNCHANGED <<tags, pool, used, job>>

Frame(i) == [img |-> i, kids |-> Children(i), ref |-> FALSE, last |-> FALSE]

RmiLooks(c) ==
    \E i \in graph : \E n \in NamesOf(i) \cup {None} :
        /\ Begin(c, [kind |-> "rmi", img |-> i, name |-> n, stack |-> <<>>])
        /\ mishap' = mishap \cup Overlaps("rmi")
        /\ UNCHANGED <<graph, tags, pool, used, job>>

(* deleteImage: which name goes.  By id: the only one; a whole repository, *)
(* other images' tags included, if it alone has several names of the       *)
(* image; none, and no image either, if more than one repository has.      *)
Untags(i, n) ==
    LET ns == NamesOf(i)
    IN  IF n # None THEN Names!Delete(n[1], n[2])
        ELSE IF ns = {} THEN UNCHANGED tags
        ELSE \E m \in ns : IF ns = {m} THEN Names!Delete(m[1], m[2])
                           ELSE Names!DeleteRepo(m[1])

Conflict(i, n) == n = None /\ \E l, m \in NamesOf(i) : l[1] # m[1]
NoSuchTag(n) ==
    /\ n # None /\ tags[n[1]][n[2]] = None
    /\ tags[n[1]] # [t \in Tag |-> None]

RmiUntags(c) ==
    /\ req[c].kind = "rmi" /\ req[c].stack = <<>>
    /\ IF Conflict(req[c].img, req[c].name) \/ NoSuchTag(req[c].name)
       THEN Return(c) /\ UNCHANGED tags
       ELSE /\ Untags(req[c].img, req[c].name)
            /\ IF \E r \in Repo, t \in Tag : tags'[r][t] = req[c].img
               THEN Return(c)
               ELSE req' = [req EXCEPT ![c].stack = <<Frame(req[c].img)>>]
    /\ UNCHANGED <<graph, pool, used, job, mishap, made>>

(* deleteImageAndChildren of an image, the last on the stack, has returned:*)
(* nil, or ErrImageReferenced.  At the bottom deleteImageParents goes on.  *)
Popped(c, ref) ==
    LET s == req[c].stack
        n == Len(s)
        p == Parent(s[n].img)
    IN  IF n > 1
        THEN req' = [req EXCEPT ![c].stack =
                [SubSeq(s, 1, n - 1) EXCEPT ![n - 1].ref = @ \/ ref]]
        ELSE IF ref \/ p \notin graph \/ Tagged(p) THEN Return(c)
        ELSE req' = [req EXCEPT ![c].stack = <<Frame(p)>>]

Top(c) == req[c].stack[Len(req[c].stack)]
Visits(c) == req[c].kind = "rmi" /\ req[c].stack # <<>>

(* The next child: one with a name is referenced, any other comes first.   *)
ReferencedMutant(k) == FALSE
Referenced(k) == Tagged(k)
RmiVisits(c) ==
    /\ Visits(c) /\ Top(c).kids # {}
    /\ \E k \in Top(c).kids :
          LET n == Len(req[c].stack)
              s == [req[c].stack EXCEPT ![n].kids = @ \ {k}]
          IN  req' = [req EXCEPT ![c].stack =
                  IF Referenced(k) THEN [s EXCEPT ![n].ref = TRUE]
                  ELSE Append(s, Frame(k))]
    /\ UNCHANGED <<graph, tags, pool, used, job, mishap, made>>

(* After the children: the image stays if one was kept, or if it has       *)
(* children now ...                                                        *)
RmiDecides(c) ==
    /\ Visits(c) /\ Top(c).kids = {} /\ ~Top(c).last
    /\ IF Top(c).ref THEN Popped(c, TRUE)
       ELSE IF Children(Top(c).img) # {} THEN Popped(c, FALSE)
       ELSE req' = [req EXCEPT ![c].stack[Len(req[c].stack)].last = TRUE]
    /\ UNCHANGED <<graph, tags, pool, used, job, mishap, made>>

(* ... or else goes, with whatever names it has got meanwhile (DeleteAll). *)
(* Graph.Delete of one that is gone is an error, and ends the rmi.         *)
RmiDeletes(c) ==
    /\ Visits(c) /\ Top(c).last
    /\ tags' = [r \in Repo |-> [t \in Tag |->
                  IF tags[r][t] = Top(c).img THEN None ELSE tags[r][t]]]
    /\ IF Top(c).img \in graph
       THEN Deletes(Top(c).img) /\ Popped(c, FALSE)
       ELSE Return(c) /\ UNCHANGED <<graph, mishap>>
    /\ UNCHANGED <<pool, used, job, made>>
-----------------------------------------------------------------------------
(* The daemon dies and comes back: the graph and the names are on disk.    *)
Restart ==
    /\ \E c \in Client : req[c] # Idle
    /\ req' = [c \in Client |-> Idle]
    /\ pool' = {}
    /\ job' = [c \in Client |-> [i \in Image |-> NoJob]]
    /\ mishap' = mishap \cup
          IF \E c \in Client, i \in Image : job[c][i].st \in Active
          THEN {"failed pull"} ELSE {}
    /\ UNCHANGED <<graph, tags, used, made>>

Job(c) ==
    \E i \in Image : DownloadImage(c, i) \/ TakeLayer(c, i) \/ Fetched(c, i) \/ FetchFails(c, i)
Step(c) ==
    \/ Job(c) \/ PullTags(c) \/ PullReturns(c) \/ CreateTags(c)
    \/ RmiUntags(c) \/ RmiVisits(c) \/ RmiDecides(c) \/ RmiDeletes(c)

Next ==
    \/ Restart
    \/ \E c \in Client :
          \/ PullRepository(c) \/ Run(c) \/ TagImage(c) \/ Create(c)
          \/ OldRmi(c) \/ RmiLooks(c)
          \/ Step(c)

Spec == Init /\ [][Next]_vars
Fairness == \A c \in Client : WF_vars(Step(c))
FairSpec == Spec /\ Fairness
-----------------------------------------------------------------------------
(* The pool's comments, "ensure no two downloads of the same layer happen  *)
(* at the same time": whatever pulls overlap, whatever fails.              *)
OneDownload ==
    \A c, d \in Client, i, k \in Image :
        /\ job[c][i].st = "fetch" /\ job[d][k].st = "fetch"
        /\ History[i][job[c][i].pos] = History[k][job[d][k].pos]
        => c = d /\ i = k

(* The keys in the pool are exactly those of the pulls and downloads under *)
(* way: no way out of one leaves a key behind that refuses later pulls.    *)
PoolExact ==
    pool = UNION {
        {RepoKey(req[c].repo, req[c].asked) : d \in {d \in {c} : req[d].kind = "pull"}}
          \cup UNION {AfterImage(i, job[c][i]) : i \in {i \in Image : job[c][i].st \in Active}}
        : c \in Client}

(* An image in the graph has all its ancestors there, or a download that   *)
(* is still going on will bring them (a pull that met a layer of another   *)
(* pull returns early, and relies on it), unless a download failed, a      *)
(* removal overlapped an addition, took an image containers run on, or     *)
(* came from an old client.                                                *)
Pending == UNION {Lineage(n[2]) : n \in {m \in Client \X Image : job[m[1]][m[2]].st \in Active}}
Complete == mishap = {} => \A i \in graph : Lineage(i) \subseteq graph \cup Pending

(* Every name is the name of an image that is there, unless a removal      *)
(* overlapped an addition or came from an old client: also when several    *)
(* rmi take names, images and their ancestors away at the same time.       *)
TagsResolve ==
    mishap \cap {"overlap", "old rmi"} = {} =>
        \A r \in Repo, t \in Tag : tags[r][t] \in graph \cup {None}

(* What requests that overlap must leave of images, names and pools.       *)
ImagesSafe == OneDownload /\ PoolExact /\ Complete /\ TagsResolve

(* rmi never takes away an image that has a name or a child.               *)
OnlyLooseGo ==
    [][mishap' \cap {"overlap", "old rmi"} = {} =>
          \A i \in graph \ graph' : ~Tagged(i) /\ \A k \in graph : Parent(k) # i]_vars

(* Every pull returns, and every rmi.                                      *)
RequestsEnd == \A c \in Client : req[c] # Idle ~> req[c] = Idle
=============================================================================
