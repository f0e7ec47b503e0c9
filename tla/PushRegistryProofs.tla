------------------------- MODULE PushRegistryProofs -------------------------
(***************************************************************************)
(* Proofs about PushRegistry, for any number of pushes, images and tags:   *)
(* an image that the registry serves has its whole layer, a tag can be     *)
(* pulled, and a push that has succeeded leaves its tags right.            *)
(*                                                                         *)
(* SendInv is about the images: who sends one, and what of it is there.    *)
(* RoundAt follows the push of a repository through the rounds of the      *)
(* traversal: the images that are done are complete and have their parents *)
(* among them, the next one has its parent there, and a tag is right once  *)
(* its image is done, for then all the ancestors it was put on before are. *)
(***************************************************************************)
EXTENDS PushRegistry, FiniteSetTheorems, WellFoundedInduction, TLAPS

(* The constants are as in the code: an image has at most one parent, made *)
(* before it, and a repository has finitely many tags, each of an image.   *)
Sane ==
    /\ None \notin Image \cup {0, 1, "cut", "whole"}
    /\ ParentOf \in [Image -> Image \cup {None}]
    /\ \A S \in SUBSET Image : S # {} => \E i \in S : ParentOf[i] \notin S
    /\ Local \in [Push -> [Tag -> Image \cup {None}]]
    /\ IsFiniteSet(Tag)

PushRec(c) ==
    [pc : Steps, img : Image \cup {None}, tags : {<<>>} \cup [Nodes(c) -> Tag],
     done : SUBSET Image, todo : SUBSET Image, sent : SUBSET Image,
     session : Image \cup {None}]

Shape ==
    /\ json \subseteq Image /\ mark \subseteq Image
    /\ layer \in [Image -> {None, "cut", "whole"}]
    /\ rtags \in [Push -> [Tag -> Image \cup {None}]]
    /\ index \in [Push -> [Image -> {None, 0, 1}]]
    /\ DOMAIN push = Push
    /\ \A c \in Push : push[c] \in {Idle} \cup PushRec(c)

Sends(c) == push[c].pc \in {"open", "stream", "sum"}
-----------------------------------------------------------------------------
(* What the lineage of an image is: it and its ancestors, closed.          *)
LEMMA LineageFacts ==
    ASSUME Sane, NEW i \in Image
    PROVE  /\ i \in Lineage(i) /\ Lineage(i) \subseteq Image
           /\ Closed(Lineage(i))
           /\ \A S \in SUBSET Image : i \in S /\ Closed(S) => Lineage(i) \subseteq S
<1>1. i \in Lineage(i) /\ Lineage(i) \subseteq Image
  BY DEF Lineage
<1>2. \A S \in SUBSET Image : i \in S /\ Closed(S) => Lineage(i) \subseteq S
  BY DEF Lineage
<1>3. Closed(Lineage(i))
  <2> SUFFICES ASSUME NEW j \in Lineage(i), ParentOf[j] # None
               PROVE  ParentOf[j] \in Lineage(i)
    BY DEF Closed
  <2>1. j \in Image /\ ParentOf[j] \in Image
    BY <1>1 DEF Sane
  <2>2. ASSUME NEW S \in SUBSET Image, i \in S, Closed(S) PROVE ParentOf[j] \in S
    <3>1. j \in S
      BY <1>2, <2>2
    <3> QED  BY <2>2, <3>1 DEF Closed
  <2> QED  BY <2>1, <2>2 DEF Lineage
<1> QED  BY <1>1, <1>2, <1>3

LEMMA LineageGrows ==
    ASSUME Sane, NEW i \in Image, NEW j \in Lineage(i)
    PROVE  Lineage(j) \subseteq Lineage(i)
BY LineageFacts

LEMMA NodesFacts ==
    ASSUME Sane, NEW c \in Push
    PROVE  /\ Nodes(c) \subseteq Image /\ Closed(Nodes(c))
           /\ \A t \in Tagged(c) : Local[c][t] \in Nodes(c) /\ Local[c][t] \in Image
           /\ Tagged(c) # {} => Nodes(c) # {}
<1>1. \A t \in Tagged(c) : Local[c][t] \in Image
  BY DEF Tagged, Sane
<1>2. \A t \in Tagged(c) : Local[c][t] \in Lineage(Local[c][t])
  BY <1>1, LineageFacts
<1>3. Nodes(c) \subseteq Image
  BY <1>1, LineageFacts DEF Nodes
<1>4. Closed(Nodes(c))
  <2> SUFFICES ASSUME NEW i \in Nodes(c), ParentOf[i] # None
               PROVE  ParentOf[i] \in Nodes(c)
    BY DEF Closed
  <2>1. PICK t \in Tagged(c) : i \in Lineage(Local[c][t])
    BY DEF Nodes
  <2>2. Closed(Lineage(Local[c][t]))
    BY <1>1, LineageFacts
  <2>3. ParentOf[i] \in Lineage(Local[c][t])
    BY <2>1, <2>2 DEF Closed
  <2> QED  BY <2>3 DEF Nodes
<1>5. \A t \in Tagged(c) : Local[c][t] \in Nodes(c)
  BY <1>2 DEF Nodes
<1> QED  BY <1>1, <1>3, <1>4, <1>5

(* A non-empty part of a finite set has a last element in any order.       *)
LEMMA LastExists ==
    ASSUME NEW T, IsFiniteSet(T), NEW o \in [T -> Nat], NEW U \in SUBSET T, U # {}
    PROVE  \E t \in U : \A s \in U : o[s] <= o[t]
<1> DEFINE After(t) == {s \in U : o[s] > o[t]}
           Afters == {After(t) : t \in U}
<1>1. IsFiniteSet(U)
  BY FS_Subset
<1>2. IsWellFoundedOn(StrictSubsetOrdering(U), FiniteSubsetsOf(U))
  BY <1>1, FS_StrictSubsetOrderingWellFounded
<1>3. Afters \subseteq FiniteSubsetsOf(U) /\ Afters # {}
  <2>1. FiniteSubsetsOf(U) = SUBSET U
    BY <1>1, FS_FiniteSubsetsOfFinite
  <2>2. Afters \subseteq SUBSET U /\ Afters # {}
    BY ZenonT(40)
  <2> QED  BY <2>1, <2>2
<1>4. PICK x \in Afters : \A y \in Afters : <<y, x>> \notin StrictSubsetOrdering(U)
  <2> HIDE DEF Afters
  <2> QED  BY <1>2, <1>3, WFMin
<1>5. PICK t \in U : x = After(t)
  OBVIOUS
<1>6. After(t) = {}
  <2> SUFFICES ASSUME NEW s \in After(t) PROVE FALSE
    OBVIOUS
  <2>1. After(s) \subseteq After(t) /\ s \notin After(s)
    OBVIOUS
  <2>2. <<After(s), After(t)>> \in StrictSubsetOrdering(U)
    BY <2>1 DEF StrictSubsetOrdering
  <2> QED  BY <1>4, <1>5, <2>2
<1>7. \A s \in U : o[s] <= o[t]
  BY <1>6
<1> QED  BY <1>7

-----------------------------------------------------------------------------
(* getImageList, whatever the order of the map: the tag that an image goes *)
(* with is one of its descendants', and goes with that descendant itself.  *)
TagsGood(c, tags) ==
    \A i \in Nodes(c) :
        /\ tags[i] \in Tagged(c) /\ i \in Lineage(Local[c][tags[i]])
        /\ tags[Local[c][tags[i]]] = tags[i]

LEMMA ImgListIsGood ==
    ASSUME Sane, NEW c \in Push, NEW o \in Orders(Tagged(c))
    PROVE  ImgList(c, o) \in [Nodes(c) -> Tag] /\ TagsGood(c, ImgList(c, o))
<1> DEFINE Under(i) == {t \in Tagged(c) : i \in Lineage(Local[c][t])}
           Last(i, t) == t \in Under(i) /\ \A s \in Under(i) : o[s] <= o[t]
           tags == ImgList(c, o)
<1>1. IsFiniteSet(Tagged(c)) /\ Tagged(c) \subseteq Tag
  BY FS_Subset DEF Sane, Tagged
<1>2. o \in [Tagged(c) -> Nat] /\ \A s, t \in Tagged(c) : o[s] = o[t] => s = t
  BY <1>1, FS_CardinalityType DEF Orders
<1>3. ASSUME NEW i \in Nodes(c) PROVE \E t \in Tagged(c) : Last(i, t)
  <2>1. Under(i) \in SUBSET Tagged(c) /\ Under(i) # {}
    BY DEF Nodes
  <2> HIDE DEF Under
  <2>2. \E t \in Under(i) : \A s \in Under(i) : o[s] <= o[t]
    BY <1>1, <1>2, <2>1, LastExists
  <2> QED  BY <2>1, <2>2
<1>4. ASSUME NEW i \in Nodes(c) PROVE tags[i] \in Tagged(c) /\ Last(i, tags[i])
  <2>1. tags[i] = CHOOSE t \in Tagged(c) : i \in Lineage(Local[c][t])
                     /\ \A s \in Tagged(c) : i \in Lineage(Local[c][s]) => o[s] <= o[t]
    BY DEF ImgList
  <2>2. \E t \in Tagged(c) : i \in Lineage(Local[c][t])
                     /\ \A s \in Tagged(c) : i \in Lineage(Local[c][s]) => o[s] <= o[t]
    BY <1>3
  <2> QED  BY <2>1, <2>2
<1>5. tags \in [Nodes(c) -> Tag]
  BY <1>1, <1>4 DEF ImgList
<1>6. ASSUME NEW i \in Nodes(c) PROVE tags[Local[c][tags[i]]] = tags[i]
  <2> DEFINE t == tags[i]
             j == Local[c][t]
  <2>1. t \in Tagged(c) /\ Last(i, t) /\ i \in Lineage(j)
    BY <1>4
  <2>2. j \in Nodes(c) /\ j \in Image
    BY <2>1, NodesFacts
  <2>3. t \in Under(j)
    BY <2>1, <2>2, LineageFacts
  <2>4. ASSUME NEW s \in Under(j) PROVE s \in Under(i)
    <3>1. Local[c][s] \in Image
      BY NodesFacts
    <3> QED  BY <2>1, <3>1, LineageGrows
  <2>5. tags[j] \in Tagged(c) /\ Last(j, tags[j])
    BY <1>4, <2>2
  <2>6. o[t] <= o[tags[j]] /\ o[tags[j]] <= o[t]
    BY <2>1, <2>3, <2>4, <2>5
  <2>7. o[t] \in Nat /\ o[tags[j]] \in Nat
    BY <1>2, <2>1, <2>5
  <2> QED  BY <1>2, <2>1, <2>5, <2>6, <2>7
<1> QED  BY <1>4, <1>5, <1>6 DEF TagsGood
-----------------------------------------------------------------------------
(* The pushes that are sending an image, and what of the image is there.   *)
SendInv ==
    /\ \A c, d \in Push : Sends(c) /\ Sends(d) /\ c # d /\ push[c].img = push[d].img
          => push[c].img \in twice
    /\ \A c \in Push : Sends(c) => push[c].img \in json
    /\ \A c \in Push : At(c, "sum") /\ push[c].img \notin twice
          => layer[push[c].img] = "whole"
    /\ ServedIsWhole

(* Which fields a step needs: one image, or the images of a repository.    *)
KindAt(c) ==
    /\ push[c].pc \in {"json", "open", "stream", "sum", "tag"} => push[c].img \in Image
    /\ push[c].pc \in {"index", "lookup", "tag", "validate"} => push[c].tags # <<>>

Base == Shape /\ \A c \in Push : KindAt(c)
BaseInv == Base /\ SendInv

(* Only the push c takes a step. *)
Others(c) == \A d \in Push \ {c} : push'[d] = push[d]

LEMMA PcKinds ==
    ASSUME Shape, NEW c \in Push, push[c].pc # "idle" PROVE push[c] \in PushRec(c)
BY DEF Shape, Idle

LEMMA NewPushTyped ==
    ASSUME NEW c \in Push, NEW pc \in Steps, NEW i \in Image \cup {None},
           NEW tags \in {<<>>} \cup [Nodes(c) -> Tag]
    PROVE  NewPush(pc, i, tags) \in PushRec(c)
BY DEF NewPush, PushRec

(* A push that goes on with the record r, or ends.                         *)
LEMMA Moves ==
    ASSUME Shape, NEW c \in Push, NEW r \in {Idle} \cup PushRec(c),
           push' = [push EXCEPT ![c] = r]
    PROVE  /\ DOMAIN push' = Push /\ \A d \in Push : push'[d] \in {Idle} \cup PushRec(d)
           /\ push'[c] = r /\ Others(c)
BY DEF Shape, Others

LEMMA Goes ==
    ASSUME Shape, NEW c \in Push, push[c] \in PushRec(c), NEW pc \in Steps,
           Goto(c, pc) \/ Refused(c)
    PROVE  /\ DOMAIN push' = Push /\ \A d \in Push : push'[d] \in {Idle} \cup PushRec(d)
           /\ Others(c)
           /\ Goto(c, pc) => push'[c] = [push[c] EXCEPT !.pc = pc]
           /\ Refused(c) => push'[c] = Idle
<1>1. CASE Goto(c, pc)
  <2>1. [push[c] EXCEPT !.pc = pc] \in PushRec(c)
    BY DEF PushRec
  <2>2. push' = [push EXCEPT ![c] = [push[c] EXCEPT !.pc = pc]]
    BY <1>1 DEF Goto
  <2>3. push'[c] # Idle
    BY <2>1, <2>2, Moves DEF PushRec, Idle
  <2>4. Refused(c) => push'[c] = Idle
    BY DEF Refused, Shape
  <2> QED  BY <2>1, <2>2, <2>3, <2>4, Moves
<1>2. CASE Refused(c)
  <2>1. push' = [push EXCEPT ![c] = Idle]
    BY <1>2 DEF Refused
  <2>2. push'[c] = Idle /\ Others(c) /\ DOMAIN push' = Push
        /\ \A d \in Push : push'[d] \in {Idle} \cup PushRec(d)
    BY <2>1, Moves
  <2>3. Goto(c, pc) => push'[c] = [push[c] EXCEPT !.pc = pc]
    BY DEF Goto, Shape
  <2> QED  BY <2>2, <2>3
<1> QED  BY <1>1, <1>2

(* A step that touches no image and leaves c not sending one.              *)
LEMMA Quiet ==
    ASSUME BaseInv, NEW c \in Push, Others(c), Shape', ~Sends(c)', KindAt(c)',
           UNCHANGED <<json, mark, layer, twice>>
    PROVE  BaseInv'
BY DEF BaseInv, Base, SendInv, Sends, At, KindAt, Others, ServedIsWhole, Complete

LEMMA BaseBegins == ASSUME Sane, Init PROVE BaseInv
BY DEF Sane, Init, BaseInv, Base, Shape, KindAt, SendInv, Sends, At, Idle, ServedIsWhole, Complete

LEMMA BaseStep ==
    ASSUME Sane, BaseInv, [Next]_vars PROVE BaseInv'
<1> USE DEF BaseInv, Base, SendInv, Sends, At, KindAt
<1>1. CASE UNCHANGED vars
  BY <1>1 DEF vars, Shape, ServedIsWhole, Complete
<1>2. ASSUME NEW c \in Push, ImagePush(c) PROVE BaseInv'
  <2>1. PICK pc \in {"index", "json"}, i \in Image \cup {None}, tags \in {<<>>} \cup [Nodes(c) -> Tag] :
          /\ push' = [push EXCEPT ![c] = NewPush(pc, i, tags)]
          /\ pc = "json" => i \in Image
          /\ pc = "index" => tags # <<>>
    <3>1. ASSUME NEW o \in Orders(Tagged(c)), Tagged(c) # {}
          PROVE  ImgList(c, o) \in [Nodes(c) -> Tag] /\ ImgList(c, o) # <<>>
      <4>1. ImgList(c, o) \in [Nodes(c) -> Tag] /\ Nodes(c) # {}
        BY <3>1, ImgListIsGood, NodesFacts
      <4> QED  BY <4>1
    <3>2. CASE \E o \in Orders(Tagged(c)) :
                  Tagged(c) # {} /\ push' = [push EXCEPT ![c] = NewPush("index", None, ImgList(c, o))]
      BY <3>1, <3>2
    <3>3. CASE \E i \in Nodes(c) : push' = [push EXCEPT ![c] = NewPush("json", i, <<>>)]
      BY <3>3, NodesFacts
    <3> QED  BY <1>2, <3>2, <3>3 DEF ImagePush
  <2>2. NewPush(pc, i, tags) \in PushRec(c)
    BY NewPushTyped DEF Steps
  <2>3. Shape'
    BY <1>2, <2>1, <2>2 DEF ImagePush, Registry, Shape
  <2>4. /\ push'[c].pc = pc /\ push'[c].img = i /\ push'[c].tags = tags
        /\ Others(c) /\ UNCHANGED <<json, mark, layer, twice>>
    BY <1>2, <2>1 DEF ImagePush, Registry, Others, NewPush, Shape
  <2>5. SendInv' /\ \A d \in Push : KindAt(d)'
    BY <2>1, <2>4 DEF Others, ServedIsWhole, Complete
  <2> QED  BY <2>3, <2>5
<1>3. ASSUME NEW c \in Push, Abort(c) PROVE BaseInv'
  <2>1. push'[c] = Idle /\ Others(c) /\ Shape'
    <3>1. push' = [push EXCEPT ![c] = Idle]
      BY <1>3 DEF Abort
    <3> QED  BY <1>3, <3>1, Moves DEF Abort, Registry, Shape
  <2> QED  BY <1>3, <2>1 DEF Abort, Registry, Others, Idle, ServedIsWhole, Complete
<1>4. ASSUME NEW c \in Push, PushImageJSONIndex(c) PROVE BaseInv'
  <2>1. push[c] \in PushRec(c)
    BY <1>4, PcKinds DEF PushImageJSONIndex
  <2> DEFINE r == [push[c] EXCEPT !.pc = "lookup", !.todo = Round({}, DOMAIN push[c].tags)]
  <2>2. push[c].tags \in [Nodes(c) -> Tag] /\ DOMAIN push[c].tags \subseteq Image
    BY <1>4, <2>1, NodesFacts DEF PushImageJSONIndex, PushRec
  <2>3. r \in PushRec(c)
    BY <2>1, <2>2 DEF PushRec, Steps, Round
  <2>4. push' = [push EXCEPT ![c] = r]
    BY <1>4 DEF PushImageJSONIndex
  <2>5. index' \in [Push -> [Image -> {None, 0, 1}]]
    BY <1>4 DEF PushImageJSONIndex, ListImages, Shape
  <2>6. push'[c] = r /\ Others(c) /\ Shape'
    <3> HIDE DEF r
    <3> QED  BY <1>4, <2>3, <2>4, <2>5, Moves DEF PushImageJSONIndex, Shape
  <2>7. push'[c].pc = "lookup" /\ push'[c].tags # <<>>
    <3>1. r.pc = "lookup" /\ r.tags = push[c].tags
      BY <2>1 DEF PushRec
    <3> HIDE DEF r
    <3> QED  BY <1>4, <2>6, <3>1 DEF PushImageJSONIndex
  <2> QED  BY <1>4, <2>6, <2>7, Quiet DEF PushImageJSONIndex
<1>5. ASSUME NEW c \in Push, LookupRemoteImage(c) PROVE BaseInv'
  <2>1. push[c] \in PushRec(c)
    BY <1>5, PcKinds DEF LookupRemoteImage
  <2>2. PICK i \in push[c].todo, there \in BOOLEAN :
          push' = [push EXCEPT ![c].img = i, ![c].todo = @ \ {i},
                               ![c].pc = IF there THEN "tag" ELSE "json"]
    BY <1>5 DEF LookupRemoteImage
  <2> DEFINE r == [push[c] EXCEPT !.img = i, !.todo = @ \ {i},
                                  !.pc = IF there THEN "tag" ELSE "json"]
  <2>3. i \in Image /\ r \in PushRec(c)
    BY <2>1 DEF PushRec, Steps
  <2>4. push' = [push EXCEPT ![c] = r]
    BY <2>2
  <2>5. push'[c] = r /\ Others(c) /\ Shape'
    <3> HIDE DEF r
    <3> QED  BY <1>5, <2>3, <2>4, Moves DEF LookupRemoteImage, Registry, Shape
  <2>6. /\ push'[c].pc \in {"tag", "json"} /\ push'[c].img \in Image
        /\ push'[c].tags # <<>>
    BY <1>5, <2>1, <2>3, <2>5 DEF LookupRemoteImage, PushRec
  <2> QED  BY <1>5, <2>5, <2>6, Quiet DEF LookupRemoteImage, Registry
<1>6. ASSUME NEW c \in Push, NextRound(c) PROVE BaseInv'
  <2>1. push[c] \in PushRec(c)
    BY <1>6, PcKinds DEF NextRound
  <2> DEFINE next == Round(push[c].done, DOMAIN push[c].tags)
             r == [push[c] EXCEPT !.todo = next,
                                  !.pc = IF next = {} THEN "validate" ELSE "lookup"]
  <2>2. push[c].tags \in [Nodes(c) -> Tag] /\ DOMAIN push[c].tags \subseteq Image
    BY <1>6, <2>1, NodesFacts DEF NextRound, PushRec
  <2>3. r \in PushRec(c)
    BY <2>1, <2>2 DEF PushRec, Steps, Round
  <2>4. push' = [push EXCEPT ![c] = r]
    BY <1>6 DEF NextRound
  <2>5. push'[c] = r /\ Others(c) /\ Shape'
    <3> HIDE DEF r
    <3> QED  BY <1>6, <2>3, <2>4, Moves DEF NextRound, Registry, Shape
  <2>6. push'[c].pc \in {"lookup", "validate"} /\ push'[c].tags # <<>>
    <3>1. r.pc \in {"lookup", "validate"} /\ r.tags = push[c].tags
      BY <2>1 DEF PushRec
    <3> HIDE DEF r
    <3> QED  BY <1>6, <2>5, <3>1 DEF NextRound
  <2> QED  BY <1>6, <2>5, <2>6, Quiet DEF NextRound, Registry
<1>7. ASSUME NEW c \in Push, PutImageJson(c) PROVE BaseInv'
  <2> DEFINE i == push[c].img
  <2>1. push[c] \in PushRec(c) /\ i \in Image
    BY <1>7, PcKinds DEF PutImageJson
  <2>2. PICK pc \in {"done", "tag", "open"} :
          /\ Goto(c, pc) \/ Refused(c)
          /\ pc = "tag" => push[c].tags # <<>>
          /\ ~Refused(c) /\ pc = "open" =>
                /\ mark' = mark \cup {i} /\ json' = json \cup {i}
                /\ twice' = IF Sending(i) # {} THEN twice \cup {i} ELSE twice
          /\ Refused(c) \/ pc # "open" => UNCHANGED <<json, mark, twice>>
    <3>1. CASE ~Accepts(i)
      BY <1>7, <3>1 DEF PutImageJson
    <3>2. CASE Accepts(i) /\ Complete(i)
      <4>1. AfterImage(c) \in {"done", "tag"} /\ (AfterImage(c) = "tag" => push[c].tags # <<>>)
        BY DEF AfterImage
      <4> QED  BY <1>7, <3>2, <4>1 DEF PutImageJson
    <3>3. CASE Accepts(i) /\ ~Complete(i)
      <4>1. Goto(c, "open")
        BY <1>7, <3>3 DEF PutImageJson
      <4>2. ~Refused(c)
        BY <2>1, <4>1, Goes DEF Steps, Idle, PushRec
      <4> QED  BY <1>7, <3>3, <4>1, <4>2 DEF PutImageJson
    <3> QED  BY <3>1, <3>2, <3>3
  <2>3. /\ DOMAIN push' = Push /\ \A d \in Push : push'[d] \in {Idle} \cup PushRec(d)
        /\ Others(c)
        /\ Goto(c, pc) => push'[c] = [push[c] EXCEPT !.pc = pc]
        /\ Refused(c) => push'[c] = Idle
    BY <2>1, <2>2, Goes DEF Steps
  <2>4. Shape'
    BY <1>7, <2>1, <2>2, <2>3 DEF PutImageJson, Shape
  <2>5. CASE Refused(c) \/ pc # "open"
    <3>1. ~Sends(c)' /\ KindAt(c)'
      BY <2>1, <2>2, <2>3, <2>5 DEF Idle, PushRec
    <3> QED  BY <1>7, <2>2, <2>3, <2>4, <2>5, <3>1, Quiet DEF PutImageJson
  <2>6. CASE ~Refused(c) /\ pc = "open"
    <3>1. /\ push'[c].pc = "open" /\ push'[c].img = i /\ layer' = layer
          /\ twice \subseteq twice' /\ (Sending(i) # {} => i \in twice')
      BY <1>7, <2>1, <2>2, <2>3, <2>6 DEF PutImageJson, PushRec
    <3>2. /\ mark' = mark \cup {i} /\ json' = json \cup {i}
      BY <2>2, <2>6
    <3>3. ASSUME NEW d \in Push, NEW e \in Push, Sends(d)', Sends(e)', d # e,
                 push'[d].img = push'[e].img
          PROVE  push'[d].img \in twice'
      <4>1. CASE d # c /\ e # c
        BY <2>3, <3>1, <3>3, <4>1 DEF Others
      <4>2. CASE d = c \/ e = c
        <5>1. \E f \in Push \ {c} : Sends(f) /\ push[f].img = i
          BY <2>3, <3>1, <3>3, <4>2 DEF Others
        <5> QED  BY <3>1, <3>3, <4>2, <5>1 DEF Sending
      <4> QED  BY <4>1, <4>2
    <3>4. ServedIsWhole'
      BY <3>1, <3>2 DEF ServedIsWhole, Complete
    <3>5. \A d \in Push : Sends(d)' => push'[d].img \in json'
      BY <2>3, <3>1, <3>2 DEF Others
    <3>6. \A d \in Push : At(d, "sum")' /\ push'[d].img \notin twice'
          => layer'[push'[d].img] = "whole"
      BY <2>3, <3>1, <3>2 DEF Others
    <3>7. \A d \in Push : KindAt(d)'
      BY <2>1, <2>3, <3>1 DEF Others
    <3> QED  BY <2>4, <3>3, <3>4, <3>5, <3>6, <3>7
  <2> QED  BY <2>5, <2>6
<1>8. ASSUME NEW c \in Push, OpenLayer(c) PROVE BaseInv'
  <2> DEFINE i == push[c].img
  <2>1. push[c] \in PushRec(c) /\ i \in Image /\ i \in json
    BY <1>8, PcKinds DEF OpenLayer
  <2>2. UNCHANGED <<json, mark, rtags, index, twice>>
    BY <1>8 DEF OpenLayer
  <2>3. CASE layer[i] # None /\ i \notin mark
    <3>1. Refused(c) /\ UNCHANGED layer
      BY <1>8, <2>3 DEF OpenLayer
    <3>2. push'[c] = Idle /\ Others(c) /\ Shape'
      BY <2>1, <2>2, <3>1, Goes DEF Shape, Steps
    <3> QED  BY <2>2, <3>1, <3>2, Quiet DEF Idle
  <2>4. CASE ~(layer[i] # None /\ i \notin mark)
    <3>1. layer' = [layer EXCEPT ![i] = "cut"] /\ Goto(c, "stream")
      BY <1>8, <2>4 DEF OpenLayer
    <3>2. /\ push'[c] = [push[c] EXCEPT !.pc = "stream"] /\ Others(c)
          /\ DOMAIN push' = Push /\ \A d \in Push : push'[d] \in {Idle} \cup PushRec(d)
      BY <2>1, <3>1, Goes DEF Steps
    <3>3. Shape'
      BY <2>1, <2>2, <3>1, <3>2 DEF Shape
    <3>4. push'[c].pc = "stream" /\ push'[c].img = i
      BY <2>1, <3>2 DEF PushRec
    <3>5. i \notin mark => i \in twice
      BY <2>1, <2>4 DEF ServedIsWhole, Complete, Sane
    <3>6. ServedIsWhole'
      BY <2>1, <2>2, <3>1, <3>5 DEF ServedIsWhole, Complete, Shape
    <3>7. \A d \in Push : At(d, "sum")' /\ push'[d].img \notin twice'
            => layer'[push'[d].img] = "whole"
      BY <1>8, <2>1, <2>2, <3>1, <3>2, <3>4, ZenonT(40) DEF OpenLayer, Others, Shape
    <3>8. \A d \in Push : Sends(d)' => Sends(d) /\ push'[d].img = push[d].img
      BY <1>8, <3>2, <3>4 DEF OpenLayer, Others
    <3>9. \A d \in Push : KindAt(d)'
      BY <2>1, <3>2, <3>4 DEF Others
    <3> QED  BY <2>2, <3>3, <3>6, <3>7, <3>8, <3>9
  <2> QED  BY <2>3, <2>4
<1>9. ASSUME NEW c \in Push, StreamLayer(c) PROVE BaseInv'
  <2> DEFINE i == push[c].img
  <2>1. push[c] \in PushRec(c) /\ i \in Image /\ i \in json
    BY <1>9, PcKinds DEF StreamLayer
  <2>2. UNCHANGED <<json, rtags, index, twice>> /\ (mark' = mark \/ mark' = mark \ {i})
    BY <1>9 DEF StreamLayer
  <2>3. PICK all \in {"cut", "whole"} : /\ layer' = [layer EXCEPT ![i] = all]
                                        /\ i \notin twice => all = "whole"
    BY <1>9 DEF StreamLayer
  <2>4. PICK s \in Image \cup {None} :
          push' = [push EXCEPT ![c] = [push[c] EXCEPT !.pc = "sum", !.session = s]]
    <3>1. CASE i \in sum
      <4>1. push' = [push EXCEPT ![c] = [push[c] EXCEPT !.pc = "sum"]]
        BY <1>9, <3>1 DEF StreamLayer, Goto
      <4>2. [push[c] EXCEPT !.pc = "sum"] = [push[c] EXCEPT !.pc = "sum", !.session = push[c].session]
        BY <2>1 DEF PushRec
      <4>3. push[c].session \in Image \cup {None}
        BY <2>1 DEF PushRec
      <4> QED  BY <4>1, <4>2, <4>3
    <3>2. CASE i \notin sum
      <4>1. push' = [push EXCEPT ![c] = [push[c] EXCEPT !.pc = "sum", !.session = i]]
        BY <1>9, <3>2 DEF StreamLayer
      <4> QED  BY <2>1, <4>1
    <3> QED  BY <3>1, <3>2
  <2> DEFINE r == [push[c] EXCEPT !.pc = "sum", !.session = s]
  <2>5. r \in PushRec(c) /\ r.pc = "sum" /\ r.img = i /\ r.tags = push[c].tags
    BY <2>1 DEF PushRec, Steps
  <2>6. /\ layer' \in [Image -> {None, "cut", "whole"}]
        /\ layer'[i] = all /\ \A j \in Image \ {i} : layer'[j] = layer[j]
    BY <2>1, <2>3 DEF Shape
  <2>7. mark' \subseteq Image /\ \A j \in Image \ {i} : j \in mark' <=> j \in mark
    BY <2>2 DEF Shape
  <2> HIDE DEF r
  <2>8. push'[c] = r /\ Others(c) /\ Shape'
    <3>1. /\ DOMAIN push' = Push /\ \A d \in Push : push'[d] \in {Idle} \cup PushRec(d)
          /\ push'[c] = r /\ Others(c)
      BY <2>4, <2>5, Moves DEF r
    <3> QED  BY <2>2, <2>6, <2>7, <3>1 DEF Shape
  <2>9. ServedIsWhole'
    BY <2>1, <2>2, <2>3, <2>6, <2>7 DEF ServedIsWhole, Complete
  <2>10. \A d \in Push : At(d, "sum")' /\ push'[d].img \notin twice'
          => layer'[push'[d].img] = "whole"
    BY <1>9, <2>1, <2>2, <2>3, <2>5, <2>6, <2>8 DEF StreamLayer, Others
  <2>11. \A d \in Push : Sends(d)' => Sends(d) /\ push'[d].img = push[d].img
    BY <1>9, <2>5, <2>8 DEF StreamLayer, Others
  <2>12. \A d \in Push : KindAt(d)'
    BY <2>1, <2>5, <2>8 DEF Others
  <2> QED  BY <2>2, <2>8, <2>9, <2>10, <2>11, <2>12
<1>10. ASSUME NEW c \in Push, PutImageChecksum(c) PROVE BaseInv'
  <2> DEFINE i == push[c].img
             r == [push[c] EXCEPT !.sent = @ \cup {i}, !.session = None, !.pc = AfterImage(c)]
  <2>1. push[c] \in PushRec(c) /\ i \in Image
    BY <1>10, PcKinds DEF PutImageChecksum
  <2>2. UNCHANGED <<json, layer, rtags, index, twice>>
    BY <1>10 DEF PutImageChecksum
  <2>3. \/ push' = [push EXCEPT ![c] = Idle] /\ mark' = mark
        \/ push' = [push EXCEPT ![c] = r] /\ mark' = mark \ {i}
    BY <1>10 DEF PutImageChecksum, Refused
  <2>4. /\ r \in PushRec(c) /\ r.pc \in {"done", "tag"} /\ r.img = i
        /\ r.tags = push[c].tags /\ (r.pc = "tag" => r.tags # <<>>)
    BY <2>1 DEF PushRec, Steps, AfterImage
  <2>5. push'[c] \in {Idle, r} /\ Others(c) /\ Shape'
    <3> HIDE DEF r
    <3> QED  BY <2>2, <2>3, <2>4, Moves DEF Shape
  <2> HIDE DEF r
  <2>6. ServedIsWhole'
    BY <1>10, <2>1, <2>2, <2>3 DEF PutImageChecksum, ServedIsWhole, Complete
  <2>7. ~Sends(c)' /\ KindAt(c)'
    BY <2>1, <2>4, <2>5 DEF Idle
  <2> QED  BY <2>2, <2>5, <2>6, <2>7 DEF Others
<1>11. ASSUME NEW c \in Push, PutTag(c) PROVE BaseInv'
  <2> DEFINE i == push[c].img
             r == [push[c] EXCEPT !.pc = "lookup", !.done = @ \cup {i}]
  <2>1. push[c] \in PushRec(c) /\ i \in Image
    BY <1>11, PcKinds DEF PutTag
  <2>2. UNCHANGED <<json, mark, layer, index, twice>>
    BY <1>11 DEF PutTag
  <2>3. \/ push' = [push EXCEPT ![c] = Idle] /\ rtags' = rtags
        \/ push' = [push EXCEPT ![c] = r] /\ rtags' = [rtags EXCEPT ![c][push[c].tags[i]] = i]
    BY <1>11 DEF PutTag, Refused
  <2>4. r \in PushRec(c) /\ r.pc = "lookup" /\ r.tags = push[c].tags
    BY <2>1 DEF PushRec, Steps
  <2>5. rtags' \in [Push -> [Tag -> Image \cup {None}]]
    BY <2>1, <2>3, SMTT(20) DEF Shape
  <2>6. push'[c] \in {Idle, r} /\ Others(c) /\ Shape'
    <3> HIDE DEF r
    <3> QED  BY <2>2, <2>3, <2>4, <2>5, Moves DEF Shape
  <2> HIDE DEF r
  <2>7. ~Sends(c)' /\ KindAt(c)'
    BY <1>11, <2>4, <2>6 DEF PutTag, Idle
  <2> QED  BY <2>2, <2>6, <2>7, Quiet
<1>12. ASSUME NEW c \in Push, Validate(c) PROVE BaseInv'
  <2>1. push[c] \in PushRec(c) /\ push[c].tags \in {<<>>} \cup [Nodes(c) -> Tag]
    BY <1>12, PcKinds DEF Validate, PushRec
  <2> DEFINE r == NewPush("done", None, push[c].tags)
  <2>2. r \in PushRec(c) /\ r.pc = "done"
    <3>1. r \in PushRec(c)
      BY <2>1, NewPushTyped DEF Steps
    <3> QED  BY <3>1 DEF NewPush
  <2>3. push' = [push EXCEPT ![c] = r]
    BY <1>12 DEF Validate
  <2>4. index' \in [Push -> [Image -> {None, 0, 1}]]
    BY <1>12 DEF Validate, ListImages, Shape
  <2>5. push'[c] = r /\ Others(c) /\ Shape'
    <3> HIDE DEF r
    <3> QED  BY <1>12, <2>2, <2>3, <2>4, Moves DEF Validate, Shape
  <2> HIDE DEF r
  <2> QED  BY <1>12, <2>2, <2>5, Quiet DEF Validate
<1> QED  BY <1>1, <1>2, <1>3, <1>4, <1>5, <1>6, <1>7, <1>8, <1>9, <1>10, <1>11, <1>12
         DEF Next, Step

(* For any pushes at the same time, however they fail and are repeated: an *)
(* image that the registry has no mark for has all of its layer, unless    *)
(* two pushes were sending it at once.                                     *)
THEOREM ServedImagesAreWhole == ASSUME Sane PROVE Spec => []ServedIsWhole
<1>1. BaseInv => ServedIsWhole
  BY DEF BaseInv, SendInv
<1> QED  BY <1>1, BaseBegins, BaseStep, PTL DEF Spec
-----------------------------------------------------------------------------
(* The push of a repository in its rounds, and the tag files of c.         *)
RoundAt(c) ==
    push[c].pc # "idle" /\ push[c].tags # <<>> =>
        /\ TagsGood(c, push[c].tags)
        /\ push[c].done \subseteq Nodes(c) /\ Closed(push[c].done)
        /\ \A i \in push[c].done : Complete(i)
        /\ push[c].pc = "index" => push[c].done = {}
        /\ push[c].pc # "index" => \A i \in Nodes(c) : index[c][i] # None
        /\ push[c].pc \in {"lookup", "json", "open", "stream", "sum", "tag"} =>
              /\ push[c].todo \subseteq Nodes(c) \ push[c].done
              /\ \A i \in push[c].todo : ParentOf[i] \in push[c].done \cup {None}
        /\ push[c].pc \in {"json", "open", "stream", "sum", "tag"} =>
              /\ push[c].img \in Nodes(c) \ (push[c].done \cup push[c].todo)
              /\ ParentOf[push[c].img] \in push[c].done \cup {None}
        /\ push[c].pc = "tag" => Complete(push[c].img)
        /\ \A i \in push[c].done : Local[c][push[c].tags[i]] = i
              => rtags[c][push[c].tags[i]] = i
        /\ push[c].pc = "validate" => push[c].done = Nodes(c)
        /\ push[c].pc = "done" => \A i \in Nodes(c) :
              rtags[c][push[c].tags[i]] = Local[c][push[c].tags[i]]

TagAt(c) ==
    \A t \in Tag : rtags[c][t] # None =>
        /\ \A i \in Lineage(rtags[c][t]) : Complete(i)
        /\ rtags[c][t] \in Lineage(Local[c][t])
        /\ index[c][rtags[c][t]] # None

RepoInv == \A c \in Push : RoundAt(c) /\ TagAt(c)

(* What the registry has of images, it keeps.                              *)
Kept ==
    /\ \A i \in Image : Complete(i) => Complete(i)'
    /\ \A c \in Push, i \in Image : index[c][i] # None => index'[c][i] # None

LEMMA RegistryKeeps ==
    ASSUME Sane, BaseInv, [Next]_vars PROVE Kept
<1>1. ASSUME NEW i \in Image, Complete(i) PROVE Complete(i)'
  <2>1. ASSUME NEW c \in Push, PutImageJson(c) PROVE Complete(i)'
    BY <1>1, <2>1 DEF PutImageJson, Complete
  <2> QED  BY <1>1, <2>1 DEF Next, vars, Step, ImagePush, Abort, Registry, PushImageJSONIndex,
             LookupRemoteImage, NextRound, OpenLayer, StreamLayer, PutImageChecksum, PutTag,
             Validate, Complete
<1>2. ASSUME NEW c \in Push, NEW i \in Image, index[c][i] # None PROVE index'[c][i] # None
  <2>1. ASSUME NEW d \in Push, NEW nodes, NEW sums,
               index' = [index EXCEPT ![d] = ListImages(@, nodes, sums)]
        PROVE  index'[c][i] # None
    BY <1>2, <2>1 DEF ListImages, BaseInv, Base, Shape, Sane
  <2>2. ASSUME NEW d \in Push, PushImageJSONIndex(d) \/ Validate(d) PROVE index'[c][i] # None
    BY <2>1, <2>2 DEF PushImageJSONIndex, Validate
  <2> QED  BY <1>2, <2>2 DEF Next, vars, Step, ImagePush, Abort, Registry,
             LookupRemoteImage, NextRound, PutImageJson, OpenLayer, StreamLayer,
             PutImageChecksum, PutTag
<1> QED  BY <1>1, <1>2 DEF Kept

LEMMA TagsKept ==
    ASSUME Sane, BaseInv, Kept, NEW c \in Push, TagAt(c), rtags'[c] = rtags[c]
    PROVE  TagAt(c)'
<1> SUFFICES ASSUME NEW t \in Tag, rtags[c][t] # None
             PROVE  /\ \A i \in Lineage(rtags[c][t]) : Complete(i)'
                    /\ rtags[c][t] \in Lineage(Local[c][t])
                    /\ index'[c][rtags[c][t]] # None
  BY DEF TagAt
<1>1. rtags[c][t] \in Image
  BY DEF BaseInv, Base, Shape
<1>2. Lineage(rtags[c][t]) \subseteq Image
  BY <1>1, LineageFacts
<1> QED  BY <1>1, <1>2 DEF Kept, TagAt

LEMMA RoundKept ==
    ASSUME Sane, BaseInv, Kept, NEW c \in Push, RoundAt(c),
           rtags'[c] = rtags[c], push'[c] = push[c]
    PROVE  RoundAt(c)'
<1> SUFFICES ASSUME push[c].pc # "idle", push[c].tags # <<>> PROVE RoundAt(c)'
  BY DEF RoundAt
<1>1. Nodes(c) \subseteq Image
  BY NodesFacts
<1> QED  BY <1>1 DEF Kept, RoundAt

LEMMA RepoOne ==
    ASSUME Sane, BaseInv, RepoInv, Kept, NEW c \in Push, Others(c),
           \A d \in Push \ {c} : rtags'[d] = rtags[d], RoundAt(c)', TagAt(c)'
    PROVE  RepoInv'
BY TagsKept, RoundKept DEF RepoInv, Others

(* A step that leaves the tags alone, and ends the push or changes no more *)
(* of it than where it is.                                                 *)
LEMMA RepoGoes ==
    ASSUME Sane, BaseInv, RepoInv, Kept, NEW c \in Push, Others(c), UNCHANGED rtags,
           \/ push'[c] = Idle
           \/ /\ push[c].pc \in {"json", "open", "stream", "sum"}
              /\ push'[c].pc \in {"open", "stream", "sum", "tag", "done"}
              /\ push'[c].tags = push[c].tags /\ push'[c].done = push[c].done
              /\ push'[c].todo = push[c].todo /\ push'[c].img = push[c].img
              /\ push'[c].pc = "done" => push[c].tags = <<>>
              /\ push'[c].pc = "tag" => Complete(push[c].img)'
    PROVE  RepoInv'
<1>1. TagAt(c)'
  BY TagsKept DEF RepoInv
<1>2. RoundAt(c)'
  <2>1. CASE push'[c] = Idle
    BY <2>1 DEF RoundAt, Idle
  <2>2. CASE push'[c] # Idle
    <3> SUFFICES ASSUME push[c].tags # <<>>
                 PROVE  RoundAt(c)'
      BY <2>2 DEF RoundAt
    <3>1. Nodes(c) \subseteq Image
      BY NodesFacts
    <3> QED  BY <2>2, <3>1 DEF Kept, RoundAt, RepoInv
  <2> QED  BY <2>1, <2>2
<1> QED  BY <1>1, <1>2, RepoOne

LEMMA RepoBegins == ASSUME Sane, Init PROVE RepoInv
BY DEF Init, RepoInv, RoundAt, TagAt, Idle

LEMMA RepoBegun ==
    ASSUME Sane, BaseInv, RepoInv, Kept, NEW c \in Push, ImagePush(c) PROVE RepoInv'
<1>1. UNCHANGED rtags /\ TagAt(c)'
  BY TagsKept DEF ImagePush, Registry, RepoInv
<1>2. CASE \E o \in Orders(Tagged(c)) :
              push' = [push EXCEPT ![c] = NewPush("index", None, ImgList(c, o))]
  <2>1. PICK o \in Orders(Tagged(c)) :
          push' = [push EXCEPT ![c] = NewPush("index", None, ImgList(c, o))]
    BY <1>2
  <2>2. TagsGood(c, ImgList(c, o))
    BY ImgListIsGood
  <2>3. push'[c] = NewPush("index", None, ImgList(c, o)) /\ Others(c)
    BY <2>1 DEF BaseInv, Base, Shape, Others
  <2>4. RoundAt(c)'
    BY <2>2, <2>3 DEF RoundAt, NewPush, Closed
  <2> QED  BY <1>1, <2>3, <2>4, RepoOne
<1>3. CASE \E i \in Nodes(c) : push' = [push EXCEPT ![c] = NewPush("json", i, <<>>)]
  <2>1. PICK i \in Nodes(c) : push' = [push EXCEPT ![c] = NewPush("json", i, <<>>)]
    BY <1>3
  <2>2. push'[c] = NewPush("json", i, <<>>) /\ Others(c)
    BY <2>1 DEF BaseInv, Base, Shape, Others
  <2>3. RoundAt(c)'
    BY <2>2 DEF RoundAt, NewPush
  <2> QED  BY <1>1, <2>2, <2>3, RepoOne
<1> QED  BY <1>2, <1>3 DEF ImagePush

LEMMA RepoIndexed ==
    ASSUME Sane, BaseInv, RepoInv, Kept, NEW c \in Push, PushImageJSONIndex(c) PROVE RepoInv'
<1> DEFINE r == [push[c] EXCEPT !.pc = "lookup", !.todo = Round({}, DOMAIN push[c].tags)]
<1>1. push[c] \in PushRec(c) /\ push[c].tags # <<>>
  BY PcKinds DEF PushImageJSONIndex, BaseInv, Base, KindAt, At
<1>2. DOMAIN push[c].tags = Nodes(c) /\ Nodes(c) \subseteq Image
  BY <1>1, NodesFacts DEF PushRec
<1>3. /\ r.pc = "lookup" /\ r.tags = push[c].tags /\ r.done = push[c].done
      /\ r.todo = Round({}, Nodes(c))
  BY <1>1, <1>2 DEF PushRec
<1>4. push'[c] = r /\ Others(c)
  BY DEF PushImageJSONIndex, BaseInv, Base, Shape, Others
<1> HIDE DEF r
<1>5. UNCHANGED <<rtags, json, mark>> /\ TagAt(c)'
  BY TagsKept DEF PushImageJSONIndex, RepoInv
<1>6. \A i \in Nodes(c) : index'[c][i] # None
  BY <1>2 DEF PushImageJSONIndex, ListImages, BaseInv, Base, Shape, Sane
<1>7. push[c].done = {} /\ TagsGood(c, push[c].tags)
  BY <1>1 DEF RepoInv, RoundAt, PushImageJSONIndex, At
<1>8. RoundAt(c)'
  BY <1>1, <1>3, <1>4, <1>5, <1>6, <1>7 DEF RoundAt, Round, Closed
<1> QED  BY <1>4, <1>5, <1>8, RepoOne

LEMMA RepoLooked ==
    ASSUME Sane, BaseInv, RepoInv, Kept, NEW c \in Push, LookupRemoteImage(c) PROVE RepoInv'
<1>1. push[c] \in PushRec(c) /\ push[c].tags # <<>> /\ push[c].pc = "lookup"
  BY PcKinds DEF LookupRemoteImage, BaseInv, Base, KindAt, At
<1>2. PICK i \in push[c].todo, there \in BOOLEAN :
        /\ there => Complete(i)
        /\ push' = [push EXCEPT ![c].img = i, ![c].todo = @ \ {i},
                                ![c].pc = IF there THEN "tag" ELSE "json"]
  BY DEF LookupRemoteImage
<1> DEFINE r == [push[c] EXCEPT !.img = i, !.todo = @ \ {i},
                                !.pc = IF there THEN "tag" ELSE "json"]
<1>3. /\ r.pc \in {"tag", "json"} /\ r.img = i
      /\ r.todo = push[c].todo \ {i} /\ r.tags = push[c].tags /\ r.done = push[c].done
  BY <1>1 DEF PushRec
<1>9. r.pc = "tag" => Complete(i)
  <2>1. r.pc = IF there THEN "tag" ELSE "json"
    BY <1>1 DEF PushRec
  <2> QED  BY <1>2, <2>1
<1>4. push'[c] = r /\ Others(c)
  BY <1>2 DEF BaseInv, Base, Shape, Others
<1> HIDE DEF r
<1>5. UNCHANGED <<rtags, json, mark, index>> /\ TagAt(c)'
  BY TagsKept DEF LookupRemoteImage, Registry, RepoInv
<1>6. RoundAt(c)
  BY DEF RepoInv
<1>7. i \in Nodes(c) \ push[c].done /\ ParentOf[i] \in push[c].done \cup {None}
  BY <1>1, <1>6 DEF RoundAt
<1>8. RoundAt(c)'
  BY <1>1, <1>3, <1>4, <1>5, <1>6, <1>7, <1>9 DEF RoundAt, Complete
<1> QED  BY <1>4, <1>5, <1>8, RepoOne

(* The rounds end with all the images done: of images that are not, one    *)
(* has a parent that is.                                                   *)
LEMMA RepoNextRound ==
    ASSUME Sane, BaseInv, RepoInv, Kept, NEW c \in Push, NextRound(c) PROVE RepoInv'
<1> DEFINE next == Round(push[c].done, Nodes(c))
           r == [push[c] EXCEPT !.todo = next,
                                !.pc = IF next = {} THEN "validate" ELSE "lookup"]
<1>1. push[c] \in PushRec(c) /\ push[c].tags # <<>> /\ push[c].pc = "lookup"
  BY PcKinds DEF NextRound, BaseInv, Base, KindAt, At
<1>2. DOMAIN push[c].tags = Nodes(c)
  BY <1>1 DEF PushRec
<1>3. /\ r.pc \in {"validate", "lookup"} /\ (r.pc = "validate" => next = {})
      /\ r.todo = next /\ r.tags = push[c].tags /\ r.done = push[c].done
  BY <1>1 DEF PushRec
<1>4. push'[c] = r /\ Others(c)
  BY <1>2 DEF NextRound, BaseInv, Base, Shape, Others
<1> HIDE DEF r
<1>5. UNCHANGED <<rtags, json, mark, index>> /\ TagAt(c)'
  BY TagsKept DEF NextRound, Registry, RepoInv
<1>6. RoundAt(c)
  BY DEF RepoInv
<1>7. next = {} => push[c].done = Nodes(c)
  <2> SUFFICES ASSUME next = {}, Nodes(c) \ push[c].done # {} PROVE FALSE
    BY <1>1, <1>6 DEF RoundAt
  <2>1. Nodes(c) \subseteq Image /\ Closed(Nodes(c))
    BY NodesFacts
  <2>2. PICK i \in Nodes(c) \ push[c].done : ParentOf[i] \notin Nodes(c) \ push[c].done
    BY <2>1 DEF Sane
  <2>3. ParentOf[i] \in push[c].done \cup {None}
    BY <2>1, <2>2 DEF Closed
  <2>4. i \in next
    BY <2>2, <2>3 DEF Round
  <2> QED  BY <2>4
<1>8. next \subseteq Nodes(c) \ push[c].done /\ \A i \in next : ParentOf[i] \in push[c].done \cup {None}
  BY DEF Round
<1> HIDE DEF next
<1>9. RoundAt(c)'
  BY <1>1, <1>3, <1>4, <1>5, <1>6, <1>7, <1>8 DEF RoundAt, Complete
<1> QED  BY <1>4, <1>5, <1>9, RepoOne

LEMMA RepoPutJson ==
    ASSUME Sane, BaseInv, RepoInv, Kept, NEW c \in Push, PutImageJson(c) PROVE RepoInv'
<1> DEFINE i == push[c].img
<1>1. push[c] \in PushRec(c) /\ i \in Image /\ push[c].pc = "json"
  BY PcKinds DEF PutImageJson, BaseInv, Base, KindAt, At
<1>2. UNCHANGED rtags
  BY DEF PutImageJson
<1>3. PICK pc \in {"done", "tag", "open"} :
        /\ Goto(c, pc) \/ Refused(c)
        /\ pc \in {"done", "tag"} => pc = AfterImage(c) /\ Complete(i)
  <2>1. CASE ~Accepts(i)
    <3>1. Refused(c)
      BY <2>1 DEF PutImageJson
    <3> QED  BY <3>1
  <2>2. CASE Accepts(i) /\ Complete(i)
    <3>1. AfterImage(c) \in {"done", "tag"}
      BY DEF AfterImage
    <3> QED  BY <2>2, <3>1 DEF PutImageJson
  <2>3. CASE Accepts(i) /\ ~Complete(i)
    BY <2>3 DEF PutImageJson
  <2> QED  BY <2>1, <2>2, <2>3
<1>4. Others(c) /\ \/ push'[c] = Idle
                   \/ push'[c] = [push[c] EXCEPT !.pc = pc]
  BY <1>1, <1>3, Goes DEF BaseInv, Base, Steps
<1>5. pc \in {"done", "tag"} => i \in json' /\ i \notin mark'
  BY <1>1, <1>3 DEF Kept, Complete
<1>6. CASE push'[c] = Idle
  BY <1>2, <1>4, <1>6, RepoGoes
<1>7. CASE push'[c] = [push[c] EXCEPT !.pc = pc]
  <2>1. /\ push'[c].pc = pc /\ push'[c].tags = push[c].tags /\ push'[c].done = push[c].done
        /\ push'[c].todo = push[c].todo /\ push'[c].img = push[c].img
    BY <1>1, <1>7 DEF PushRec
  <2>2. pc = "done" => push[c].tags = <<>>
    BY <1>3 DEF AfterImage
  <2> QED  BY <1>1, <1>2, <1>3, <1>4, <1>5, <2>1, <2>2, RepoGoes DEF Complete
<1> QED  BY <1>4, <1>6, <1>7

LEMMA RepoSent ==
    ASSUME Sane, BaseInv, RepoInv, Kept, NEW c \in Push,
           OpenLayer(c) \/ StreamLayer(c) \/ PutImageChecksum(c)
    PROVE  RepoInv'
<1> DEFINE i == push[c].img
<1>1. push[c] \in PushRec(c) /\ i \in Image /\ push[c].pc \in {"open", "stream", "sum"}
  BY PcKinds DEF OpenLayer, StreamLayer, PutImageChecksum, BaseInv, Base, KindAt, At
<1>2. UNCHANGED rtags /\ i \in json
  BY <1>1 DEF OpenLayer, StreamLayer, PutImageChecksum, BaseInv, SendInv, Sends
<1>3. PICK r \in {Idle} \cup PushRec(c) :
        /\ push' = [push EXCEPT ![c] = r]
        /\ \/ r = Idle
           \/ /\ r.pc \in {"stream", "sum", "tag", "done"}
              /\ r.tags = push[c].tags /\ r.done = push[c].done
              /\ r.todo = push[c].todo /\ r.img = i
              /\ r.pc = "done" => push[c].tags = <<>>
              /\ r.pc = "tag" => Complete(i)'
  <2>1. CASE OpenLayer(c)
    <3>1. \/ push' = [push EXCEPT ![c] = Idle]
          \/ push' = [push EXCEPT ![c] = [push[c] EXCEPT !.pc = "stream"]]
      BY <2>1 DEF OpenLayer, Refused, Goto
    <3> DEFINE r == [push[c] EXCEPT !.pc = "stream"]
    <3>2. /\ r \in PushRec(c) /\ r.pc = "stream" /\ r.tags = push[c].tags
          /\ r.done = push[c].done /\ r.todo = push[c].todo /\ r.img = i
      BY <1>1 DEF PushRec, Steps
    <3> HIDE DEF r
    <3>3. push' = [push EXCEPT ![c] = Idle] \/ push' = [push EXCEPT ![c] = r]
      BY <3>1 DEF r
    <3> QED  BY <3>2, <3>3
  <2>2. CASE StreamLayer(c)
    <3>1. PICK s \in Image \cup {None} :
            push' = [push EXCEPT ![c] = [push[c] EXCEPT !.pc = "sum", !.session = s]]
      <4>1. CASE i \in sum
        <5>1. push' = [push EXCEPT ![c] = [push[c] EXCEPT !.pc = "sum"]]
          BY <2>2, <4>1 DEF StreamLayer, Goto
        <5>2. [push[c] EXCEPT !.pc = "sum"] = [push[c] EXCEPT !.pc = "sum", !.session = push[c].session]
          BY <1>1 DEF PushRec
        <5>3. push[c].session \in Image \cup {None}
          BY <1>1 DEF PushRec
        <5> QED  BY <5>1, <5>2, <5>3
      <4>2. CASE i \notin sum
        <5>1. push' = [push EXCEPT ![c] = [push[c] EXCEPT !.pc = "sum", !.session = i]]
          BY <2>2, <4>2 DEF StreamLayer
        <5> QED  BY <1>1, <5>1
      <4> QED  BY <4>1, <4>2
    <3> DEFINE r == [push[c] EXCEPT !.pc = "sum", !.session = s]
    <3>2. /\ r \in PushRec(c) /\ r.pc = "sum" /\ r.tags = push[c].tags
          /\ r.done = push[c].done /\ r.todo = push[c].todo /\ r.img = i
      BY <1>1 DEF PushRec, Steps
    <3> HIDE DEF r
    <3>3. push' = [push EXCEPT ![c] = r]
      BY <3>1 DEF r
    <3> QED  BY <3>2, <3>3
  <2>3. CASE PutImageChecksum(c)
    <3> DEFINE r == [push[c] EXCEPT !.sent = @ \cup {i}, !.session = None, !.pc = AfterImage(c)]
    <3>1. \/ push' = [push EXCEPT ![c] = Idle]
          \/ push' = [push EXCEPT ![c] = r] /\ mark' = mark \ {i} /\ json' = json
      BY <2>3 DEF PutImageChecksum, Refused
    <3>2. /\ r \in PushRec(c) /\ r.pc \in {"tag", "done"} /\ r.tags = push[c].tags
          /\ r.done = push[c].done /\ r.todo = push[c].todo /\ r.img = i
          /\ r.pc = "done" => push[c].tags = <<>>
      BY <1>1 DEF PushRec, Steps, AfterImage
    <3> HIDE DEF r
    <3> QED  BY <1>2, <3>1, <3>2 DEF Complete
  <2> QED  BY <2>1, <2>2, <2>3
<1>4. Others(c) /\ push'[c] = r
  BY <1>3, Moves DEF BaseInv, Base
<1> QED  BY <1>1, <1>2, <1>3, <1>4, RepoGoes

(* A tag is put on an image whose ancestors are all complete, and on none  *)
(* whose descendant has got this tag already.                              *)
LEMMA RepoTagged ==
    ASSUME Sane, BaseInv, RepoInv, Kept, NEW c \in Push, PutTag(c) PROVE RepoInv'
<1> DEFINE i == push[c].img
           t == push[c].tags[i]
           r == [push[c] EXCEPT !.pc = "lookup", !.done = @ \cup {i}]
<1>1. push[c] \in PushRec(c) /\ i \in Image /\ push[c].pc = "tag" /\ push[c].tags # <<>>
  BY PcKinds DEF PutTag, BaseInv, Base, KindAt, At
<1>2. UNCHANGED <<json, mark, index>>
  BY DEF PutTag
<1>3. CASE i \notin json
  <2>1. push' = [push EXCEPT ![c] = Idle] /\ UNCHANGED rtags
    BY <1>3 DEF PutTag, Refused
  <2> QED  BY <2>1, Moves, RepoGoes DEF BaseInv, Base
<1>4. CASE i \in json
  <2>1. push' = [push EXCEPT ![c] = r] /\ rtags' = [rtags EXCEPT ![c][t] = i]
    BY <1>4 DEF PutTag
  <2>2. /\ r \in PushRec(c) /\ r.pc = "lookup" /\ r.tags = push[c].tags
        /\ r.done = push[c].done \cup {i} /\ r.todo = push[c].todo
    BY <1>1 DEF PushRec, Steps
  <2> HIDE DEF r
  <2>3. push'[c] = r /\ Others(c)
    BY <2>1, <2>2, Moves DEF BaseInv, Base
  <2>4. RoundAt(c) /\ TagAt(c) /\ Nodes(c) \subseteq Image
    BY NodesFacts DEF RepoInv
  <2>5. /\ i \in Nodes(c) \ (push[c].done \cup push[c].todo) /\ Complete(i)
        /\ ParentOf[i] \in push[c].done \cup {None}
        /\ push[c].done \subseteq Nodes(c) /\ Closed(push[c].done)
        /\ \A j \in push[c].done : Complete(j)
        /\ TagsGood(c, push[c].tags)
    BY <1>1, <2>4 DEF RoundAt
  <2>6. Closed(push[c].done \cup {i})
    BY <2>5 DEF Closed
  <2>7. t \in Tagged(c) /\ i \in Lineage(Local[c][t]) /\ t \in Tag /\ Local[c][t] \in Image
    BY <2>5, NodesFacts DEF TagsGood, Tagged
  <2>8. \A d \in Push \ {c} : rtags'[d] = rtags[d]
    BY <2>1 DEF BaseInv, Base, Shape
  <2>9. rtags'[c][t] = i /\ \A s \in Tag \ {t} : rtags'[c][s] = rtags[c][s]
    BY <2>1, <2>7 DEF BaseInv, Base, Shape
  <2>10. \A j \in Lineage(i) : Complete(j)
    <3>1. Lineage(i) \subseteq push[c].done \cup {i}
      <4>1. push[c].done \cup {i} \in SUBSET Image
        BY <1>1, <2>4, <2>5
      <4> QED  BY <1>1, <2>6, <4>1, LineageFacts
    <3> QED  BY <2>5, <3>1
  <2>11. TagAt(c)'
    <3>1. index[c][i] # None
      BY <1>1, <2>4, <2>5 DEF RoundAt
    <3>2. \A j \in Image : Complete(j)' <=> Complete(j)
      BY <1>2 DEF Complete
    <3>3. ASSUME NEW s \in Tag, rtags'[c][s] # None
          PROVE  /\ \A j \in Lineage(rtags'[c][s]) : Complete(j)
                 /\ rtags'[c][s] \in Lineage(Local[c][s])
                 /\ index[c][rtags'[c][s]] # None
      <4>1. CASE s = t
        BY <2>7, <2>9, <2>10, <3>1, <4>1
      <4>2. CASE s # t
        BY <2>4, <2>9, <3>3, <4>2 DEF TagAt
      <4> QED  BY <4>1, <4>2
    <3> QED  BY <1>2, <3>3 DEF TagAt, Complete
  <2>12. ASSUME NEW j \in push[c].done, Local[c][push[c].tags[j]] = j
         PROVE  rtags'[c][push[c].tags[j]] = j
    <3>1. push[c].tags[j] \in Tag /\ rtags[c][push[c].tags[j]] = j
      BY <1>1, <2>4, <2>5, <2>12 DEF RoundAt, TagsGood, Tagged
    <3>2. push[c].tags[j] # t
      <4> SUFFICES ASSUME push[c].tags[j] = t PROVE FALSE
        OBVIOUS
      <4>1. i \in Lineage(j) /\ j \in Image
        BY <2>4, <2>5, <2>7, <2>12
      <4>2. push[c].done \in SUBSET Image
        BY <2>4, <2>5
      <4>3. Lineage(j) \subseteq push[c].done
        BY <2>5, <2>12, <4>1, <4>2, LineageFacts
      <4> QED  BY <2>5, <4>1, <4>3
    <3> QED  BY <2>9, <3>1, <3>2
  <2>13. RoundAt(c)'
    <3>1. /\ push'[c].pc = "lookup" /\ push'[c].tags = push[c].tags
          /\ push'[c].done = push[c].done \cup {i} /\ push'[c].todo = push[c].todo
      BY <2>2, <2>3
    <3>2. ASSUME NEW j \in push[c].done \cup {i}, Local[c][push[c].tags[j]] = j
          PROVE  rtags'[c][push[c].tags[j]] = j
      BY <2>9, <2>12, <3>2
    <3>3. /\ push[c].todo \subseteq Nodes(c) \ (push[c].done \cup {i})
          /\ \A j \in push[c].todo : ParentOf[j] \in push[c].done \cup {i} \cup {None}
      BY <1>1, <2>4, <2>5 DEF RoundAt
    <3>4. \A j \in Nodes(c) : index'[c][j] # None
      BY <1>1, <1>2, <2>4 DEF RoundAt
    <3>5. \A j \in push[c].done \cup {i} : Complete(j)'
      BY <1>2, <2>5 DEF Complete
    <3> HIDE DEF i, t
    <3> QED  BY <2>5, <2>6, <3>1, <3>2, <3>3, <3>4, <3>5 DEF RoundAt
  <2> QED  BY <2>3, <2>8, <2>11, <2>13, RepoOne
<1> QED  BY <1>3, <1>4

LEMMA RepoValidated ==
    ASSUME Sane, BaseInv, RepoInv, Kept, NEW c \in Push, Validate(c) PROVE RepoInv'
<1> DEFINE r == NewPush("done", None, push[c].tags)
<1>1. push[c] \in PushRec(c) /\ push[c].pc = "validate" /\ push[c].tags # <<>>
  BY PcKinds DEF Validate, BaseInv, Base, KindAt, At
<1>2. r.pc = "done" /\ r.tags = push[c].tags /\ r.done = {}
  BY DEF NewPush
<1>3. push' = [push EXCEPT ![c] = r]
  BY DEF Validate
<1> HIDE DEF r
<1>4. push'[c] = r /\ Others(c)
  BY <1>3 DEF BaseInv, Base, Shape, Others
<1>5. UNCHANGED <<rtags, json, mark>> /\ TagAt(c)'
  BY TagsKept DEF Validate, RepoInv
<1>6. RoundAt(c) /\ Nodes(c) \subseteq Image
  BY NodesFacts DEF RepoInv
<1>7. push[c].done = Nodes(c) /\ TagsGood(c, push[c].tags)
  BY <1>1, <1>6 DEF RoundAt
<1>8. ASSUME NEW i \in Nodes(c)
      PROVE  rtags[c][push[c].tags[i]] = Local[c][push[c].tags[i]]
  <2> DEFINE j == Local[c][push[c].tags[i]]
  <2>1. j \in Nodes(c) /\ push[c].tags[j] = push[c].tags[i]
    BY <1>7, NodesFacts DEF TagsGood
  <2>2. j \in push[c].done /\ Local[c][push[c].tags[j]] = j
    BY <1>7, <2>1
  <2>3. rtags[c][push[c].tags[j]] = j
    BY <1>1, <1>6, <2>2 DEF RoundAt
  <2> QED  BY <2>1, <2>3
<1>9. \A i \in Nodes(c) : index'[c][i] # None
  BY <1>1, <1>6 DEF RoundAt, Kept
<1>10. RoundAt(c)'
  BY <1>1, <1>2, <1>4, <1>5, <1>7, <1>8, <1>9 DEF RoundAt, Closed
<1> QED  BY <1>4, <1>5, <1>10, RepoOne

LEMMA RepoStep ==
    ASSUME Sane, BaseInv, RepoInv, [Next]_vars PROVE RepoInv'
<1>1. Kept
  BY RegistryKeeps
<1>2. CASE UNCHANGED vars
  BY <1>1, <1>2, TagsKept, RoundKept DEF vars, RepoInv
<1>3. ASSUME NEW c \in Push, Abort(c) PROVE RepoInv'
  <2>1. push' = [push EXCEPT ![c] = Idle] /\ UNCHANGED rtags
    BY <1>3 DEF Abort, Registry
  <2>2. push'[c] = Idle /\ Others(c)
    BY <2>1, Moves DEF BaseInv, Base
  <2> QED  BY <1>1, <2>1, <2>2, RepoGoes
<1> QED  BY <1>1, <1>2, <1>3, RepoBegun, RepoIndexed, RepoLooked, RepoNextRound, RepoPutJson,
            RepoSent, RepoTagged, RepoValidated DEF Next, Step

LEMMA RepoSafe == ASSUME Sane, BaseInv, RepoInv PROVE PushesSafe
<1>1. TagsPullable
  BY DEF TagsPullable, RepoInv, TagAt
<1>2. CarriedTagsRight
  <2> SUFFICES ASSUME NEW c \in Push, push[c].pc = "done", NEW i \in DOMAIN push[c].tags
               PROVE  rtags[c][push[c].tags[i]] = Local[c][push[c].tags[i]]
    BY DEF CarriedTagsRight, At
  <2>1. push[c] \in PushRec(c) /\ push[c].tags # <<>>
    BY PcKinds DEF BaseInv, Base
  <2>2. i \in Nodes(c)
    BY <2>1 DEF PushRec
  <2> QED  BY <2>1, <2>2 DEF RepoInv, RoundAt
<1> QED  BY <1>1, <1>2 DEF PushesSafe, BaseInv, SendInv

(* For any images, repositories and pushes at the same time, whatever is   *)
(* refused, fails and is repeated: what the registry serves is whole, its  *)
(* tags can be pulled, and a push that has succeeded leaves the tags it    *)
(* carried right, in whatever order Go's map was visited.                  *)
THEOREM PushesLeaveRegistryWhole == ASSUME Sane PROVE Spec => []PushesSafe
<1> QED  BY BaseBegins, BaseStep, RepoBegins, RepoStep, RepoSafe, PTL DEF Spec

(* The index never forgets an image it has listed, nor a checksum.         *)
THEOREM IndexNeverForgets == ASSUME Sane PROVE Spec => IndexGrows
<1>1. ASSUME BaseInv, [Next]_vars, NEW c \in Push, NEW i \in Image
      PROVE  /\ index[c][i] # None => index'[c][i] # None
             /\ index[c][i] = 1 => index'[c][i] = 1
  <2>1. index[c][i] # None => index'[c][i] # None
    BY <1>1, RegistryKeeps DEF Kept
  <2>2. ASSUME NEW d \in Push, NEW nodes, NEW sums,
               index' = [index EXCEPT ![d] = ListImages(@, nodes, sums)], index[c][i] = 1
        PROVE  index'[c][i] = 1
    BY <1>1, <2>2 DEF ListImages, BaseInv, Base, Shape, Sane
  <2>3. ASSUME NEW d \in Push, PushImageJSONIndex(d) \/ Validate(d), index[c][i] = 1
        PROVE  index'[c][i] = 1
    BY <2>2, <2>3 DEF PushImageJSONIndex, Validate
  <2>4. index[c][i] = 1 => index'[c][i] = 1
    BY <1>1, <2>3 DEF Next, vars, Step, ImagePush, Abort, Registry,
             LookupRemoteImage, NextRound, PutImageJson, OpenLayer, StreamLayer,
             PutImageChecksum, PutTag
  <2> QED  BY <2>1, <2>4
<1>2. BaseInv /\ [Next]_vars =>
        [\A c \in Push, i \in Image : /\ index[c][i] # None => index'[c][i] # None
                                      /\ index[c][i] = 1 => index'[c][i] = 1]_index
  BY <1>1
<1> QED  BY <1>2, BaseBegins, BaseStep, PTL DEF Spec, IndexGrows
=============================================================================
