------------------------------- MODULE Images -------------------------------
(***************************************************************************)
(* Names of images (tags.go, utils.ParseRepositoryTag, the end of rmi in   *)
(* server.go) and what is told of the images there are: docker images, its *)
(* graph and docker history, which read the graph and the tags piece by    *)
(* piece while others change them. Ids and names are sequences of          *)
(* characters, so that a name may look like the beginning of an id.        *)
(***************************************************************************)
EXTENDS Naturals, Sequences, FiniteSets
LOCAL INSTANCE SequencesExt

CONSTANTS
    Ids,        \* the ids of images, in the order of a directory
    ShortLen,   \* how much of an id TruncateID keeps
    ParentOf,   \* an image's parent, or None
    Sorted,     \* the repositories and tags in use, as pairs, in order
    Latest,     \* DEFAULTTAG
    Words,      \* what users type for an image, beside the names of refs
    Commands,   \* the listings users ask for
    Moves,      \* bound: how many changes fall into one listing
    None

Known == Range(Ids)
Refs == Range(Sorted)
Repos == {r[1] : r \in Refs}

VARIABLES
    imgs,   \* the images that graph.Get finds
    tags,   \* TagStore.Repositories: the id of each ref, or None
    req,    \* the listing that is being made
    moves
vars == <<imgs, tags, req, moves>>

-----------------------------------------------------------------------------
(* A name is split at its last ":", unless what follows holds a "/": then  *)
(* the ":" is a registry's port. The tag of the result may be empty.       *)
Colon == ":"
ParseMutant(s) == LET at == {k \in DOMAIN s : s[k] = Colon} IN  \* at the first
    IF at = {} THEN <<s, <<>>>>
    ELSE LET n == CHOOSE k \in at : \A j \in at : j >= k IN
         <<SubSeq(s, 1, n - 1), SubSeq(s, n + 1, Len(s))>>
Parse(s) == LET at == {k \in DOMAIN s : s[k] = Colon} IN
    IF at = {} THEN <<s, <<>>>>
    ELSE LET n == CHOOSE k \in at : \A j \in at : j <= k
             tag == SubSeq(s, n + 1, Len(s))
         IN  IF "/" \in Range(tag) THEN <<s, <<>>>> ELSE <<SubSeq(s, 1, n - 1), tag>>
Join(r) == r[1] \o <<Colon>> \o r[2]
Typeable == Words \cup {Join(r) : r \in Refs}

(* LookupImage: an image whose id begins so; else the tag's, or, in the    *)
(* repository, one whose id begins like the tag, whichever comes first.    *)
Fit(s) == {i \in imgs : IsPrefix(s, i)}
InRepo(r) == {f \in Refs : f[1] = r /\ tags[f] # None}
GetImage(r, t) ==
    IF <<r, t>> \in InRepo(r) THEN {tags[<<r, t>>]} \cap imgs
    ELSE {tags[f] : f \in {g \in InRepo(r) : IsPrefix(t, tags[g])}} \cap imgs
LookupMutant(s) == LET p == Parse(s) IN  \* the name before the id
    IF InRepo(p[1]) # {} THEN GetImage(p[1], p[2]) ELSE Fit(s)
Lookup(s) == LET p == Parse(s) IN
    IF Cardinality(Fit(s)) = 1 THEN Fit(s)
    ELSE GetImage(p[1], IF p[2] = <<>> THEN Latest ELSE p[2])

(* ByID and ImageName: one of the names an image has, or its short id.     *)
ByID(i) == {f \in Refs : tags[f] = i}
ShortID(i) == SubSeq(i, 1, ShortLen)
ImageNames(i) == IF ByID(i) = {} THEN {ShortID(i)} ELSE {Join(f) : f \in ByID(i)}

-----------------------------------------------------------------------------
(* Others store images, tag them and remove them.                          *)
Idle == [cmd |-> None, at |-> "idle", pos |-> 0, parents |-> {}, found |-> {},
         left |-> {}, lines |-> {}, error |-> FALSE, was |-> None]
Meanwhile == IF req = Idle THEN UNCHANGED moves ELSE moves < Moves /\ moves' = moves + 1

Register(i) ==
    /\ i \notin imgs /\ ParentOf[i] \in imgs \cup {None}
    /\ imgs' = imgs \cup {i} /\ UNCHANGED <<tags, req>> /\ Meanwhile
TagImage(s, r) == \E i \in Lookup(s) :
    /\ tags' = [tags EXCEPT ![r] = i] /\ UNCHANGED <<imgs, req>> /\ Meanwhile

(* deleteImage: by an id, it takes the one tag that the image has, if that *)
(* is longer than a character; else the repository of its last name as a   *)
(* whole, unless another of its names is in another repository.            *)
Inside(i, s) == \E k \in 0 .. Len(i) - Len(s) : SubSeq(i, k + 1, k + Len(s)) = s
NamesOf(i) == SelectSeq(Sorted, LAMBDA f : tags[f] = i)
RepoOf(i, s) == FoldLeft(LAMBDA r, f : IF r = None THEN None
                            ELSE IF Inside(i, r) THEN f[1]
                            ELSE IF r # f[1] THEN None ELSE r, s, NamesOf(i))
UntaggedMutant(i, p) == InRepo(p[1])
Untagged(i, p) ==
    IF p[2] # <<>> THEN {p} \cap InRepo(p[1])
    ELSE IF ~Inside(i, p[1]) THEN InRepo(p[1])
    ELSE IF Len(NamesOf(i)) = 1 /\ Len(NamesOf(i)[1][2]) > 1 THEN {NamesOf(i)[1]}
    ELSE InRepo(RepoOf(i, p[1]))

(* deleteImageAndChildren, once nothing names the image: what is built on  *)
(* it goes, and the image itself unless a name needs it; then the same     *)
(* with its parents, as long as no name needs them (deleteImageParents).   *)
Children(k) == {j \in imgs : ParentOf[j] = k}
Prune(i, named) ==
    LET Needed[k \in Known] == k \in named \/ \E j \in Children(k) : Needed[j]
        Gone[k \in Known] == IF k \in named THEN {}
                          ELSE UNION {Gone[j] : j \in Children(k)}
                               \cup IF Needed[k] THEN {} ELSE {k}
        Up[k \in Known \cup {None}] ==
            IF k = None THEN {}
            ELSE Gone[k] \cup IF Needed[k] THEN {} ELSE Up[ParentOf[k]]
    IN  IF i \in named THEN {} ELSE Up[i]
Rmi(s) == \E i \in Lookup(s) : LET p == Parse(s) IN
    /\ p[2] = <<>> \/ p \in InRepo(p[1])
    /\ p[2] = <<>> /\ Inside(i, p[1]) => RepoOf(i, p[1]) # None
    /\ tags' = [f \in Refs |-> IF f \in Untagged(i, p) THEN None ELSE tags[f]]
    /\ imgs' = imgs \ Prune(i, {tags'[f] : f \in Refs})
    /\ UNCHANGED req /\ Meanwhile

-----------------------------------------------------------------------------
(* A listing begins. Heads walks over the directory twice: whose child is  *)
(* it, and is it anybody's parent; Map, for the others, once.              *)
Ask(c) ==
    /\ req = Idle /\ c.op # "history"
    /\ req' = [Idle EXCEPT !.cmd = c, !.at = IF c.op = "images" /\ ~c.all THEN "parents" ELSE "walk",
                   !.was = <<imgs, tags>>]
    /\ UNCHANGED <<imgs, tags, moves>>
Here == Ids[req.pos + 1]
Step(r, next) == IF r.pos + 1 < Len(Ids) THEN [r EXCEPT !.pos = @ + 1]
                 ELSE [r EXCEPT !.pos = 0, !.at = next, !.left = IF next = "refs" THEN Refs ELSE @]
ByParent ==
    /\ req.at = "parents"
    /\ req' = Step([req EXCEPT !.parents = IF Here \in imgs /\ ParentOf[Here] \in imgs
                                           THEN @ \cup {ParentOf[Here]} ELSE @], "walk")
    /\ UNCHANGED <<imgs, tags, moves>>
WalkAll ==
    /\ req.at = "walk"
    /\ req' = Step([req EXCEPT !.found = IF Here \in imgs \ req.parents THEN @ \cup {Here} ELSE @],
                   IF req.cmd.op = "viz" THEN "edges" ELSE "refs")
    /\ UNCHANGED <<imgs, tags, moves>>

(* Images: then every tag, in the order of a map; what it names is taken   *)
(* off the images without a name, which come last, unless there is a       *)
(* filter.                                                                 *)
Filtered(f) == req.cmd.arg # None /\ f[1] # req.cmd.arg
ImagesMutant == \E f \in req.left :  \* named images stay among the others
    /\ req.at = "refs"
    /\ req' = LET rest == [req EXCEPT !.left = @ \ {f}] IN
              IF Filtered(f) \/ tags[f] \notin imgs THEN rest
              ELSE [rest EXCEPT !.lines = @ \cup {<<f, tags[f]>>}]
    /\ UNCHANGED <<imgs, tags, moves>>
Images == \E f \in req.left :
    /\ req.at = "refs"
    /\ req' = LET rest == [req EXCEPT !.left = @ \ {f}] IN
              IF Filtered(f) \/ tags[f] \notin imgs THEN rest
              ELSE [rest EXCEPT !.found = @ \ {tags[f]}, !.lines = @ \cup {<<f, tags[f]>>}]
    /\ UNCHANGED <<imgs, tags, moves>>
RestMutant ==  \* under a filter too
    /\ req.at = "refs" /\ req.left = {}
    /\ req' = [req EXCEPT !.at = "done", !.found = {},
                  !.lines = @ \cup {<<None, i>> : i \in req.found}]
    /\ UNCHANGED <<imgs, tags, moves>>
Rest ==
    /\ req.at = "refs" /\ req.left = {}
    /\ req' = [req EXCEPT !.at = "done", !.found = {},
                  !.lines = IF req.cmd.arg = None THEN @ \cup {<<None, i>> : i \in req.found} ELSE @]
    /\ UNCHANGED <<imgs, tags, moves>>

(* ImagesViz: an edge from the parent of each image, looked up again.      *)
ImagesViz ==
    /\ req.at = "edges"
    /\ req' = IF req.found = {} THEN [req EXCEPT !.at = "done"]
              ELSE LET i == CHOOSE j \in req.found : TRUE
                       rest == [req EXCEPT !.found = @ \ {i}]
                   IN  IF ParentOf[i] \in imgs \cup {None}
                       THEN [rest EXCEPT !.lines = @ \cup {<<ParentOf[i], i>>}]
                       ELSE [rest EXCEPT !.at = "done", !.error = TRUE]
    /\ UNCHANGED <<imgs, tags, moves>>

(* ImageHistory: the names as they are at first, then one image after the  *)
(* other up to where no parent is found.                                   *)
ImageHistory(c) == \E i \in IF c.op = "history" THEN Lookup(c.arg) ELSE {} :
    /\ req = Idle
    /\ req' = [Idle EXCEPT !.cmd = c, !.at = "history", !.found = {i}, !.was = <<imgs, tags>>]
    /\ UNCHANGED <<imgs, tags, moves>>
WalkHistory == \E i \in req.found : LET up == {ParentOf[i]} \cap imgs IN
    /\ req.at = "history"
    /\ req' = [req EXCEPT !.lines = @ \cup {<<{f \in Refs : req.was[2][f] = i}, i>>},
                  !.found = up, !.at = IF up = {} THEN "done" ELSE @]
    /\ UNCHANGED <<imgs, tags, moves>>

Printed == req.at = "done" /\ req' = Idle /\ moves' = 0 /\ UNCHANGED <<imgs, tags>>

Init == imgs = {} /\ tags = [r \in Refs |-> None] /\ req = Idle /\ moves = 0
Next ==
    \/ \E i \in Known : Register(i)
    \/ \E s \in Typeable : Rmi(s) \/ \E r \in Refs : TagImage(s, r)
    \/ \E c \in Commands : Ask(c) \/ ImageHistory(c)
    \/ ByParent \/ WalkAll \/ Images \/ Rest \/ ImagesViz \/ WalkHistory \/ Printed
Spec == Init /\ [][Next]_vars

-----------------------------------------------------------------------------
TypeOK == /\ imgs \subseteq Known /\ tags \in [Refs -> Known \cup {None}]
          /\ req.found \subseteq Known /\ req.left \subseteq Refs

(* The name that a listing shows is one to use: repository and tag lead to *)
(* the image; the repository alone to its latest, unless it reads like the *)
(* beginning of an id; what ps shows for an image leads to it, or is a     *)
(* short id that two images share (tags.go:68-131, utils.go:858).          *)
NamesLead == req = Idle =>  \* a listing changes none of it
    /\ \A f \in Refs : tags[f] \in imgs => Lookup(Join(f)) = {tags[f]}
    /\ \A r \in Repos : tags[<<r, Latest>>] \in imgs /\ Cardinality(Fit(r)) # 1
          => Lookup(r) = {tags[<<r, Latest>>]}
    /\ \A i \in imgs : \A s \in ImageNames(i) :
          Lookup(s) = {i} \/ (ByID(i) = {} /\ Cardinality(Fit(s)) > 1)

(* Every name is the name of an image that is there, with all its parents, *)
(* whatever has been removed (server.go:996-1095).                         *)
NamesHold == \A i \in imgs \cup ({tags[f] : f \in Refs} \ {None}) :
    i \in imgs /\ ParentOf[i] \in imgs \cup {None}

(* A finished listing: every line was true at some moment of its making,   *)
(* and what was true all the time is there, named or not, once             *)
(* (server.go:159-248). The graph shows every image that stayed with its   *)
(* parent; its drawing fails only when images go meanwhile.                *)
States == {req.was, <<req.was[1], tags>>, <<imgs, tags>>}  \* rmi first unnames
Heads(is) == {i \in is : \A j \in is : ParentOf[j] # i}
Nameless(m) == (IF req.cmd.all THEN m[1] ELSE Heads(m[1])) \ {m[2][f] : f \in Refs}
Asked(m) == {<<f, m[2][f]>> : f \in {g \in Refs : m[2][g] # None /\ ~Filtered(g)}}
            \cup IF req.cmd.arg = None THEN {<<None, i>> : i \in Nameless(m)} ELSE {}
ListingIsTrue == req.at = "done" /\ req.cmd.op = "images" =>
    /\ \A l \in req.lines : \E m \in States : l \in Asked(m)
    /\ \A l \in Asked(req.was) \cap Asked(<<imgs, tags>>) : l \in req.lines
    /\ \A i \in Known : <<None, i>> \in req.lines => \A f \in Refs : <<f, i>> \notin req.lines
GraphIsTrue == req.at = "done" /\ req.cmd.op = "viz" =>
    IF req.error THEN req.was[1] \ imgs # {}
    ELSE /\ \A l \in req.lines : l[1] = ParentOf[l[2]] /\ l[2] \in req.was[1] \cup imgs
         /\ imgs \cap req.was[1] \subseteq {l[2] : l \in req.lines}

(* A history goes from the image it is asked for to the base, image by     *)
(* image, with all their names, and breaks off only where images go        *)
(* meanwhile (server.go:286-315).                                          *)
HistoryIsTrue == req.at = "done" /\ req.cmd.op = "history" =>
    LET shown == {l[2] : l \in req.lines} IN
    /\ \A i \in shown : \A f \in Refs : req.was[2][f] = i => \E l \in req.lines : l[2] = i /\ f \in l[1]
    /\ \E i \in shown : \A j \in shown \ {i} : \E k \in shown : ParentOf[k] = j
    /\ \A i \in shown : ParentOf[i] \in shown \cup {None} \cup (req.was[1] \ imgs)

NamingSafe == NamesLead /\ NamesHold /\ ListingIsTrue /\ GraphIsTrue /\ HistoryIsTrue

(* rmi of a repository's tag takes that name and no other, and no image    *)
(* that another name needs (server.go:1053-1112).                          *)
OneNameGoes == \A f \in Refs : Rmi(Join(f)) =>
    /\ \A g \in Refs \ {f} : tags'[g] = tags[g]
    /\ \A i \in imgs \ imgs' : i \notin {tags'[g] : g \in Refs}
OneNameAtATime == [][OneNameGoes]_vars
=============================================================================
