---------------------------- MODULE PushRegistry ----------------------------
(***************************************************************************)
(* docker push (server.go, registry.go) and the registry it pushes to      *)
(* (docker-registry: images.py, tags.py, index.py over local.py).  A push  *)
(* sends the image list to the index, then each image, parents first:      *)
(*     GET json, PUT json, PUT layer, PUT checksum, PUT tag,               *)
(* and at last the checksums to the index.  An image the registry has a    *)
(* mark for is still being uploaded.  Any number of pushes go on at the    *)
(* same time, of one daemon (poolAdd keeps only those of one name apart)   *)
(* or of several.  The handlers of the registry are atomic, except for the *)
(* layer, which is streamed into its file.                                 *)
(***************************************************************************)
EXTENDS Naturals, FiniteSets

CONSTANTS
    Image,      \* images, the same for every daemon
    ParentOf,     \* ParentOf[i], or None
    Push,       \* the pushes: each one its repository on the registry
    Tag,
    Local,      \* Local[c][t]: the image push c's repository calls t, or None
    MaxPushes,  \* bound: pushes begun in a behaviour
    None

VARIABLES
    json, mark, sum,  \* the images that have this file on the registry
    layer,            \* layer[i]: None, "cut" or "whole"
    rtags,            \* rtags[c][t]: the tag files of c's repository
    index,            \* index[c]: images index_images lists, 1 with checksum
    push,             \* push[c]: where a push is
    twice,            \* images two pushes were sending at the same time
    begun             \* pushes begun so far

vars == <<json, mark, sum, layer, rtags, index, push, twice, begun>>

(* WalkHistory: i and its ancestors, the least set that has i and with an  *)
(* image its parent.                                                       *)
Closed(S) == \A i \in S : ParentOf[i] \in S \cup {None}
Lineage(i) == {j \in Image : \A S \in SUBSET Image : i \in S /\ Closed(S) => j \in S}

Idle == [pc |-> "idle"]
Steps == {"index", "lookup", "json", "open", "stream", "sum", "tag", "validate", "done"}

TypeOK ==
    /\ json \subseteq Image /\ mark \subseteq Image /\ sum \subseteq Image
    /\ layer \in [Image -> {None, "cut", "whole"}]
    /\ rtags \in [Push -> [Tag -> Image \cup {None}]]
    /\ index \in [Push -> [Image -> {None, 0, 1}]]
    /\ twice \subseteq Image /\ begun \in 0 .. MaxPushes
    /\ \A c \in Push : push[c] = Idle \/
          /\ push[c].pc \in Steps /\ push[c].img \in Image \cup {None}
          /\ push[c].todo \subseteq Image /\ push[c].sent \subseteq Image

Init ==
    /\ json = {} /\ mark = {} /\ sum = {} /\ twice = {} /\ begun = 0
    /\ layer = [i \in Image |-> None]
    /\ rtags = [c \in Push |-> [t \in Tag |-> None]]
    /\ index = [c \in Push |-> [i \in Image |-> None]]
    /\ push = [c \in Push |-> Idle]

At(c, pc) == push[c].pc = pc
Goto(c, pc) == push' = [push EXCEPT ![c].pc = pc]
Registry == <<json, mark, sum, layer, rtags, index>>
-----------------------------------------------------------------------------
(* getImageList: the tags are visited in the order o of Go's map, and each *)
(* image is left with the last tag whose image it is or an ancestor of.    *)
Tagged(c) == {t \in Tag : Local[c][t] # None}
Orders(T) == {o \in [T -> 1 .. Cardinality(T)] : \A s, t \in T : o[s] = o[t] => s = t}
Nodes(c) == UNION {Lineage(Local[c][t]) : t \in Tagged(c)}
ImgList(c, o) ==
    [i \in Nodes(c) |->
        CHOOSE t \in Tagged(c) : i \in Lineage(Local[c][t])
          /\ \A s \in Tagged(c) : i \in Lineage(Local[c][s]) => o[s] <= o[t]]

(* GenerateTraversalMap: a round has the nodes whose dependencies are in   *)
(* earlier rounds; within it, the order is any.                            *)
RoundMutant(done, nodes) == nodes \ done
RoundAgain(done, nodes) == {i \in nodes : ParentOf[i] \in done \cup {None}}
Round(done, nodes) == {i \in nodes \ done : ParentOf[i] \in done \cup {None}}

NewPush(pc, i, tags) ==
    [pc |-> pc, img |-> i, tags |-> tags,
     done |-> {}, todo |-> {}, sent |-> {}, session |-> None]

(* ImagePush of a repository, or of one image by its id; a push of the     *)
(* name that is still going on is refused by the pool.                     *)
ImagePush(c) ==
    /\ push[c].pc \in {"idle", "done"} /\ begun < MaxPushes /\ begun' = begun + 1
    /\ \/ /\ Tagged(c) # {}
          /\ \E o \in Orders(Tagged(c)) :
                push' = [push EXCEPT ![c] = NewPush("index", None, ImgList(c, o))]
       \/ \E i \in Nodes(c) : push' = [push EXCEPT ![c] = NewPush("json", i, <<>>)]
    /\ UNCHANGED <<Registry, twice>>

(* Any request may fail, or be refused: the push ends there.               *)
Abort(c) ==
    /\ push[c].pc \notin {"idle", "done"}
    /\ push' = [push EXCEPT ![c] = Idle]
    /\ UNCHANGED <<Registry, twice, begun>>
Refused(c) == push' = [push EXCEPT ![c] = Idle]

(* update_index_images: what has a checksum, or was listed before, stays.  *)
ListImagesMutant(old, nodes, sums) ==
    [i \in Image |-> IF i \in sums THEN 1 ELSE IF i \in nodes THEN 0 ELSE None]
ListImages(old, nodes, sums) ==
    [i \in Image |-> IF i \in sums \cup {k \in Image : old[k] = 1} THEN 1
                     ELSE IF i \in nodes THEN 0 ELSE old[i]]

PushImageJSONIndex(c) ==
    /\ At(c, "index")
    /\ index' = [index EXCEPT ![c] = ListImages(@, DOMAIN push[c].tags, {})]
    /\ push' = [push EXCEPT ![c].pc = "lookup",
                            ![c].todo = Round({}, DOMAIN push[c].tags)]
    /\ UNCHANGED <<json, mark, sum, layer, rtags, twice, begun>>

(* The next image, and what LookupRemoteImage says of it: it is there only *)
(* if it is complete, and an error is a no.                                *)
CompleteMutant(i) == i \in json
Complete(i) == i \in json /\ i \notin mark
LookupRemoteImage(c) ==
    /\ At(c, "lookup") /\ push[c].todo # {}
    /\ \E i \in push[c].todo, there \in BOOLEAN :
          /\ there => Complete(i)
          /\ push' = [push EXCEPT ![c].img = i, ![c].todo = @ \ {i},
                                  ![c].pc = IF there THEN "tag" ELSE "json"]
    /\ UNCHANGED <<Registry, twice, begun>>

(* After the last image of a round comes the next round.                   *)
NextRound(c) ==
    /\ At(c, "lookup") /\ push[c].todo = {}
    /\ LET done == push[c].done
           next == Round(done, DOMAIN push[c].tags)
       IN  push' = [push EXCEPT ![c].todo = next,
                                ![c].pc = IF next = {} THEN "validate" ELSE "lookup"]
    /\ UNCHANGED <<Registry, twice, begun>>

(* A pushed image is tagged, if it is part of a repository. *)
AfterImage(c) == IF push[c].tags = <<>> THEN "done" ELSE "tag"

(* put_image_json: the checksum is removed first, whatever happens next; a *)
(* complete image exists already, and is as good as pushed.                *)
Sending(i) == {d \in Push : push[d].pc \in {"open", "stream", "sum"} /\ push[d].img = i}
Accepts(i) == ParentOf[i] \in json \cup {None}
PutImageJson(c) ==
    /\ At(c, "json")
    /\ LET i == push[c].img
       IN  /\ sum' = sum \ {i}
           /\ IF ~Accepts(i) THEN Refused(c) /\ UNCHANGED <<json, mark, twice>>
              ELSE IF Complete(i)
              THEN Goto(c, AfterImage(c)) /\ UNCHANGED <<json, mark, twice>>
              ELSE /\ mark' = mark \cup {i} /\ json' = json \cup {i}
                   /\ twice' = IF Sending(i) # {} THEN twice \cup {i} ELSE twice
                   /\ Goto(c, "open")
    /\ UNCHANGED <<layer, rtags, index, begun>>

(* put_image_layer: stream_write opens the file, and truncates it, ...     *)
OpenLayer(c) ==
    /\ At(c, "open")
    /\ LET i == push[c].img
       IN  IF layer[i] # None /\ i \notin mark
           THEN Refused(c) /\ UNCHANGED layer
           ELSE layer' = [layer EXCEPT ![i] = "cut"] /\ Goto(c, "stream")
    /\ UNCHANGED <<json, mark, sum, rtags, index, twice, begun>>

(* ... and has all of it in the end, unless another push writes the file   *)
(* too.  With no checksum stored yet, the session keeps the one computed;  *)
(* with one, the image is complete already.                                *)
StreamLayer(c) ==
    /\ At(c, "stream")
    /\ LET i == push[c].img
       IN  /\ \E all \in IF i \in twice THEN {"cut", "whole"} ELSE {"whole"} :
                 layer' = [layer EXCEPT ![i] = all]
           /\ IF i \in sum
              THEN mark' = mark \ {i} /\ Goto(c, "sum")
              ELSE /\ push' = [push EXCEPT ![c].pc = "sum", ![c].session = i]
                   /\ UNCHANGED mark
    /\ UNCHANGED <<json, sum, rtags, index, twice, begun>>

(* put_image_checksum: the session's, of an image that is marked.          *)
Marked(c) == push[c].session # None /\ push[c].img \in mark
PutImageChecksum(c) ==
    /\ At(c, "sum")
    /\ LET i == push[c].img
       IN  IF ~Marked(c) THEN Refused(c) /\ UNCHANGED <<mark, sum>>
           ELSE /\ sum' = sum \cup {i}
                /\ IF push[c].session # i THEN Refused(c) /\ UNCHANGED mark
                   ELSE /\ mark' = mark \ {i}
                        /\ push' = [push EXCEPT ![c].sent = @ \cup {i}, ![c].session = None,
                                                ![c].pc = AfterImage(c)]
    /\ UNCHANGED <<json, layer, rtags, index, twice, begun>>

(* put_tag, with the one tag the image has got. *)
PutTag(c) ==
    /\ At(c, "tag")
    /\ LET i == push[c].img
       IN  IF i \notin json THEN Refused(c) /\ UNCHANGED rtags
           ELSE /\ rtags' = [rtags EXCEPT ![c][push[c].tags[i]] = i]
                /\ push' = [push EXCEPT ![c].pc = "lookup", ![c].done = @ \cup {i}]
    /\ UNCHANGED <<json, mark, sum, layer, index, twice, begun>>

(* The second PushImageJSONIndex names the checksums of what was sent.     *)
Validate(c) ==
    /\ At(c, "validate")
    /\ index' = [index EXCEPT ![c] = ListImages(@, push[c].sent, push[c].sent)]
    /\ push' = [push EXCEPT ![c] = NewPush("done", None, @.tags)]
    /\ UNCHANGED <<json, mark, sum, layer, rtags, twice, begun>>

Step(c) ==
    \/ PushImageJSONIndex(c) \/ LookupRemoteImage(c) \/ NextRound(c)
    \/ PutImageJson(c) \/ OpenLayer(c) \/ StreamLayer(c)
    \/ PutImageChecksum(c) \/ PutTag(c) \/ Validate(c)

Next == \E c \in Push : ImagePush(c) \/ Abort(c) \/ Step(c)

Spec == Init /\ [][Next]_vars
Fairness == \A c \in Push : WF_vars(Step(c))
-----------------------------------------------------------------------------
(* require_completion, "make sure that the image push correctly finished": *)
(* an image the registry serves has its whole layer, however pushes fail   *)
(* and are repeated, unless two pushes were sending it at the same time.   *)
ServedIsWhole ==
    \A i \in Image : Complete(i) /\ i \notin twice => layer[i] = "whole"

(* A tag on the registry can be pulled: its image and all the ancestors    *)
(* are served, and the index lists it.  It is the image that has the tag   *)
(* here or, while a push goes on or after one has failed, an ancestor.     *)
TagsPullable ==
    \A c \in Push, t \in Tag : rtags[c][t] # None =>
        /\ \A i \in Lineage(rtags[c][t]) : Complete(i)
        /\ rtags[c][t] \in Lineage(Local[c][t])
        /\ index[c][rtags[c][t]] # None

(* A push that has succeeded leaves each tag it carried at the image that  *)
(* has the tag here, though it has put the tag on ancestors before.        *)
CarriedTagsRight ==
    \A c \in Push : At(c, "done") =>
        \A i \in DOMAIN push[c].tags :
            rtags[c][push[c].tags[i]] = Local[c][push[c].tags[i]]

(* What pushes that fail, are made again and overlap leave in the registry. *)
PushesSafe == ServedIsWhole /\ TagsPullable /\ CarriedTagsRight

(* The index never forgets an image or a checksum, however many pushes     *)
(* list a part of the images.                                              *)
IndexGrows ==
    [][\A c \in Push, i \in Image :
          /\ index[c][i] # None => index'[c][i] # None
          /\ index[c][i] = 1 => index'[c][i] = 1]_index

(* Every push ends: the rounds of the traversal cover all the images.      *)
PushEnds == \A c \in Push : push[c].pc # "idle" ~> push[c].pc \in {"idle", "done"}
=============================================================================
