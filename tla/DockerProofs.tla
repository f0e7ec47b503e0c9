---------------------------- MODULE DockerProofs ----------------------------
(***************************************************************************)
(* Proofs about Volumes, UDPProxy, TCPProxy, Attach, Events and TagStore,  *)
(* side by side as MCDaemon has them, for every set of containers, clients,*)
(* connections, requests, listeners and names, and every bound.            *)
(*                                                                         *)
(* Volumes: what a process has found at a path it finds there again, and a *)
(* volume that is read-only for one container does not become writable for *)
(* another one by VolumesFrom.  VInv follows a container's volumes through *)
(* its three copies: what the disk has is part of what is in memory, and   *)
(* what processes have had is part of what the disk has, but between       *)
(* lxc-start and the save.  ModeInv says of every source where it comes    *)
(* from: a volume of the daemon's, which is always writable, or a          *)
(* directory that a container of the same family binds at this path.       *)
(*                                                                         *)
(* The others: the inductive invariants UInv, TCPInv, AttInv, EvInv and    *)
(* TagInv, with what follows from them.                                    *)
(***************************************************************************)
EXTENDS Volumes, Sequences, FiniteSetTheorems, TLAPS

CONSTANTS
    Addr, Conn, Socket, MaxBytes, Attacher, MaxLines, MaxStarts, Logger,
    Listener, MaxEvents, Repo, Tag, Id, Client, Lost

VARIABLES
    listening, lock, table, open, addr, run, loop, close, failed,
    accepting, quit, st, events, upward, downward, client, backend, shut,
    once, monitor, starts, written, logged, writers, eof, attachReq,
    eventsEvents, eventsBegun, logger, listeners, get, seen,
    file, mem, op, at, tagsData, up

UDP == INSTANCE UDPProxy
TCP == INSTANCE TCPProxy WITH Conn <- Socket
Att == INSTANCE Attach WITH Request <- Attacher, req <- attachReq
Ev == INSTANCE Events WITH Serial <- TRUE, events <- eventsEvents, begun <- eventsBegun
Tags == INSTANCE TagStore WITH Serial <- TRUE, data <- tagsData

UDPVars == <<listening, lock, table, open, addr, run, loop, close, failed>>
TCPVars == <<accepting, quit, st, events, upward, downward, client, backend, shut>>
AttVars == <<once, monitor, starts, written, logged, writers, eof, attachReq>>
EvVars == <<eventsEvents, eventsBegun, logger, listeners, get, seen>>
TagsVars == <<file, mem, op, at, tagsData, up>>
-----------------------------------------------------------------------------
(* --volumes-from names a container. *)
Linked == \A c \in Cont : From(c) \in Cont \cup {None}

(* A part of a function. *)
Sub(f, g) == /\ DOMAIN f \subseteq DOMAIN g
             /\ \A p \in DOMAIN f : f[p] = g[p]

Shape ==
    /\ DOMAIN state = Cont /\ DOMAIN binds = Cont /\ DOMAIN vols = Cont
    /\ DOMAIN rw = Cont /\ DOMAIN saved = Cont /\ DOMAIN ran = Cont
    /\ data = [s \in Source |-> data[s]]

VAt(c) ==
    /\ DOMAIN rw[c] = DOMAIN vols[c]
    /\ DOMAIN saved[c].rw = DOMAIN saved[c].vols
    /\ binds[c] \in {Binds[c], Empty} /\ saved[c].binds \in {Binds[c], Empty}
    /\ Sub(saved[c].vols, vols[c])
    /\ state[c] = "forked" => Sub(ran[c], vols[c])
    /\ state[c] # "forked" => Sub(ran[c], saved[c].vols)

VInv == Shape /\ \A c \in Cont : VAt(c)

(* The variables of every container but c are as they were. *)
Same(c) ==
    /\ state'[c] = state[c] /\ binds'[c] = binds[c] /\ vols'[c] = vols[c]
    /\ rw'[c] = rw[c] /\ saved'[c] = saved[c] /\ ran'[c] = ran[c]

LEMMA OnlyOne ==
    ASSUME VInv, Shape', NEW c \in Cont, \A d \in Cont \ {c} : Same(d), VAt(c)'
    PROVE  VInv'
BY DEF VInv, VAt, Same, Sub

LEMMA Begins == Init => VInv
BY DEF Init, VInv, Shape, VAt, Sub, NotSaved, Empty

LEMMA VInvStep ==
    ASSUME Linked, VInv, [Next]_vars PROVE VInv'
<1>1. CASE UNCHANGED vars
  BY <1>1 DEF vars, VInv, Shape, VAt, Sub
<1>2. CASE Restart
  BY <1>2 DEF Restart, VInv, Shape, VAt, Sub
<1>3. ASSUME NEW c \in Cont, StartBegin(c) PROVE VInv'
  <2>1. Shape' /\ VAt(c)'
    BY <1>3 DEF StartBegin, VInv, Shape, VAt, Sub
  <2> QED  BY <1>3, <2>1, OnlyOne DEF StartBegin, VInv, Shape, Same
<1>4. ASSUME NEW c \in Cont, StartFails(c) PROVE VInv'
  <2>1. Shape' /\ VAt(c)'
    BY <1>4 DEF StartFails, VInv, Shape, VAt, Sub
  <2> QED  BY <1>4, <2>1, OnlyOne DEF StartFails, VInv, Shape, Same
<1>5. ASSUME NEW c \in Cont, VolumesFrom(c) PROVE VInv'
  <2>1. Shape' /\ VAt(c)'
    BY <1>5 DEF VolumesFrom, VInv, Shape, VAt, Sub
  <2> QED  BY <1>5, <2>1, OnlyOne DEF VolumesFrom, VInv, Shape, Same
<1>6. ASSUME NEW c \in Cont, MakeVolume(c) PROVE VInv'
  <2>0. PICK p \in Missing(c) : \E s, w : AddVolume(c, p, s, w)
    BY <1>6 DEF MakeVolume
  <2>1. PICK s, w : AddVolume(c, p, s, w)
    BY <2>0
  <2>2. Shape'
    BY <1>6, <2>1 DEF MakeVolume, AddVolume, VInv, Shape
  <2>3. p \notin DOMAIN vols[c]
    BY DEF Missing
  <2>4. /\ vols'[c] = Set(vols[c], p, s) /\ rw'[c] = Set(rw[c], p, w)
        /\ state'[c] # "forked" /\ saved'[c] = saved[c] /\ binds'[c] = binds[c]
        /\ ran'[c] = ran[c] /\ state[c] # "forked"
    BY <1>6, <2>1 DEF MakeVolume, AddVolume, VInv, Shape
  <2>5. VAt(c)'
    BY <2>3, <2>4 DEF VInv, VAt, Sub, Set
  <2>6. \A d \in Cont \ {c} : Same(d)
    BY <1>6, <2>1 DEF MakeVolume, AddVolume, VInv, Shape, Same
  <2> QED  BY <2>2, <2>5, <2>6, OnlyOne
<1>7. ASSUME NEW c \in Cont, Fork(c) PROVE VInv'
  <2>1. Shape' /\ VAt(c)'
    BY <1>7 DEF Fork, VInv, Shape, VAt, Sub
  <2> QED  BY <1>7, <2>1, OnlyOne DEF Fork, VInv, Shape, Same
<1>8. ASSUME NEW c \in Cont, Save(c) PROVE VInv'
  <2>1. Shape' /\ VAt(c)'
    BY <1>8 DEF Save, Saving, VInv, Shape, VAt, Sub
  <2> QED  BY <1>8, <2>1, OnlyOne DEF Save, VInv, Shape, Same
<1>9. ASSUME NEW c \in Cont, Use(c) PROVE VInv'
  BY <1>9, ZenonT(40) DEF Use, VInv, Shape, VAt, Sub
<1>10. ASSUME NEW c \in Cont, Die(c) PROVE VInv'
  <2>1. Shape' /\ VAt(c)'
    BY <1>10 DEF Die, VInv, Shape, VAt, Sub
  <2> QED  BY <1>10, <2>1, OnlyOne DEF Die, VInv, Shape, Same
<1>11. ASSUME NEW c \in Cont, Destroy(c) PROVE VInv'
  <2>1. Shape' /\ VAt(c)'
    BY <1>11 DEF Destroy, NotSaved, Empty, VInv, Shape, VAt, Sub
  <2> QED  BY <1>11, <2>1, OnlyOne DEF Destroy, VInv, Shape, Same
<1> QED  BY <1>1, <1>2, <1>3, <1>4, <1>5, <1>6, <1>7, <1>8, <1>9, <1>10, <1>11 DEF Next

(* For every set of containers, paths and binds, however Starts, removals  *)
(* and restarts of the daemon fall: a process finds at a path the source   *)
(* that the container's processes before had there.                        *)
THEOREM VolumesAreKept == ASSUME Linked PROVE Spec => []SameVolumes
<1>1. VInv => SameVolumes
  BY DEF VInv, VAt, Sub, SameVolumes
<1> QED  BY <1>1, Begins, VInvStep, PTL DEF Spec
-----------------------------------------------------------------------------
(* Containers that get volumes of each other are one family: family maps   *)
(* each container to a name of its family.  Within a family a directory is *)
(* bound at a path either for writing or not, and no directory is one of   *)
(* the daemon's volumes.  A family of two needs no such assumption; in one *)
(* of three, the second may get the first's mount and the third's after a  *)
(* crash.                                                                  *)
OneMode ==
    /\ Host \cap 1 .. MaxVols = {}
    /\ \E family \in [Cont -> Cont] :
          /\ \A c \in Cont : From(c) # None => family[From(c)] = family[c]
          /\ \A c, d \in Cont : family[c] = family[d] =>
                \A p \in DOMAIN Binds[c], q \in DOMAIN Binds[d] :
                    p = q /\ Binds[c][p].dir = Binds[d][q].dir
                        => Binds[c][p].rw = Binds[d][q].rw

(* Where source s, mounted at p with mode w in the family of c, is from.   *)
Origin(family, c, p, s, w) ==
    \/ s \in 1 .. MaxVols /\ w = TRUE
    \/ \E d \in Cont : /\ family[d] = family[c] /\ p \in DOMAIN Binds[d]
                       /\ s = Binds[d][p].dir /\ w = Binds[d][p].rw

ModeAt(family, c) ==
    /\ \A p \in DOMAIN vols[c] : Origin(family, c, p, vols[c][p], rw[c][p])
    /\ \A p \in DOMAIN saved[c].vols :
          Origin(family, c, p, saved[c].vols[p], saved[c].rw[p])

ModeInv(family) == made \in Nat /\ \A c \in Cont : ModeAt(family, c)

LEMMA ModeStep ==
    ASSUME Linked, MaxVols \in Nat, VInv, NEW family,
           \A c \in Cont : From(c) # None => family[From(c)] = family[c],
           ModeInv(family), [Next]_vars
    PROVE  ModeInv(family)'
<1>1. CASE UNCHANGED vars
  BY <1>1 DEF vars, ModeInv, ModeAt
<1>2. CASE Restart
  BY <1>2 DEF Restart, ModeInv, ModeAt
<1>3. ASSUME NEW c \in Cont, StartBegin(c) \/ StartFails(c) \/ Use(c) \/ Die(c) \/ Fork(c)
      PROVE  ModeInv(family)'
  BY <1>3 DEF StartBegin, StartFails, Use, Die, Fork, ModeInv, ModeAt
<1>4. ASSUME NEW c \in Cont, VolumesFrom(c) PROVE ModeInv(family)'
  <2>1. \A d \in Cont \ {c} : Same(d)
    BY <1>4 DEF VolumesFrom, VInv, Shape, Same
  <2>2. saved'[c] = saved[c] /\ made' = made
    BY <1>4 DEF VolumesFrom
  <2>3. ASSUME NEW p \in DOMAIN vols'[c]
        PROVE  Origin(family, c, p, vols'[c][p], rw'[c][p])
    <3>1. CASE p \in DOMAIN vols[c]
      <4>1. vols'[c][p] = vols[c][p] /\ rw'[c][p] = rw[c][p]
        BY <1>4, <3>1 DEF VolumesFrom, VInv, VAt, Shape
      <4> QED  BY <3>1, <4>1 DEF ModeInv, ModeAt
    <3>2. CASE p \notin DOMAIN vols[c]
      <4>1. p \in Inherited(c)
        BY <1>4, <2>3, <3>2 DEF VolumesFrom, VInv, Shape
      <4>2. From(c) \in Cont /\ From(c) # None /\ p \in DOMAIN vols[From(c)]
        BY <4>1 DEF Inherited, Linked
      <4>3. vols'[c][p] = vols[From(c)][p] /\ rw'[c][p] = rw[From(c)][p]
        BY <1>4, <3>2, <4>1 DEF VolumesFrom, InheritedRW, VInv, VAt, Shape
      <4>4. Origin(family, From(c), p, vols[From(c)][p], rw[From(c)][p])
        BY <4>2 DEF ModeInv, ModeAt
      <4> QED  BY <4>2, <4>3, <4>4 DEF Origin
    <3> QED  BY <3>1, <3>2
  <2> QED  BY <2>1, <2>2, <2>3 DEF ModeInv, ModeAt, Same
<1>5. ASSUME NEW c \in Cont, MakeVolume(c) PROVE ModeInv(family)'
  <2>1. PICK p \in Missing(c) :
          IF p \in DOMAIN binds[c]
          THEN AddVolume(c, p, binds[c][p].dir, binds[c][p].rw) /\ UNCHANGED <<graph, made>>
          ELSE /\ made < MaxVols /\ made' = made + 1 /\ graph' = graph \cup {made + 1}
               /\ AddVolume(c, p, made + 1, TRUE)
    BY <1>5 DEF MakeVolume
  <2>2. PICK s, w : AddVolume(c, p, s, w) /\ Origin(family, c, p, s, w)
    <3>1. CASE p \in DOMAIN binds[c]
      <4>1. binds[c] = Binds[c]
        BY <3>1 DEF VInv, VAt, Empty
      <4> QED  BY <2>1, <3>1, <4>1 DEF Origin
    <3>2. CASE p \notin DOMAIN binds[c]
      <4>1. made \in Nat /\ made < MaxVols /\ AddVolume(c, p, made + 1, TRUE)
        BY <2>1, <3>2 DEF ModeInv
      <4>2. made + 1 \in 1 .. MaxVols
        BY <4>1
      <4>3. Origin(family, c, p, made + 1, TRUE)
        BY <4>2 DEF Origin
      <4> QED  BY <4>1, <4>3
    <3> QED  BY <3>1, <3>2
  <2>3. made' \in Nat
    <3>1. made' = made \/ made' = made + 1
      BY <2>1
    <3> QED  BY <3>1 DEF ModeInv
  <2>4. /\ vols'[c] = Set(vols[c], p, s) /\ rw'[c] = Set(rw[c], p, w)
        /\ saved'[c] = saved[c]
    BY <1>5, <2>2 DEF MakeVolume, AddVolume, VInv, Shape
  <2>5. \A d \in Cont \ {c} : Same(d)
    BY <1>5, <2>2 DEF MakeVolume, AddVolume, VInv, Shape, Same
  <2>6. ModeAt(family, c)'
    BY <2>2, <2>4 DEF ModeInv, ModeAt, VInv, VAt, Set
  <2> QED  BY <2>3, <2>5, <2>6 DEF ModeInv, ModeAt, Same
<1>6. ASSUME NEW c \in Cont, Save(c) PROVE ModeInv(family)'
  BY <1>6 DEF Save, Saving, VInv, Shape, ModeInv, ModeAt
<1>7. ASSUME NEW c \in Cont, Destroy(c) PROVE ModeInv(family)'
  BY <1>7 DEF Destroy, NotSaved, Empty, VInv, Shape, ModeInv, ModeAt
<1> QED  BY <1>1, <1>2, <1>3, <1>4, <1>5, <1>6, <1>7 DEF Next

LEMMA ModesAgree ==
    ASSUME Linked, VInv, Host \cap 1 .. MaxVols = {}, NEW family,
           \A c \in Cont : From(c) # None => family[From(c)] = family[c],
           \A c, d \in Cont : family[c] = family[d] =>
               \A p \in DOMAIN Binds[c], q \in DOMAIN Binds[d] :
                   p = q /\ Binds[c][p].dir = Binds[d][q].dir
                       => Binds[c][p].rw = Binds[d][q].rw,
           ModeInv(family)
    PROVE  ReadOnlyStays
<1> SUFFICES ASSUME NEW c \in Cont, There(c),
                    NEW p \in DOMAIN vols[c] \cap DOMAIN vols[From(c)],
                    vols[c][p] = vols[From(c)][p]
             PROVE  rw[c][p] = rw[From(c)][p]
  BY DEF ReadOnlyStays
<1>1. From(c) \in Cont /\ family[From(c)] = family[c]
  BY DEF There, Linked
<1>2. /\ Origin(family, c, p, vols[c][p], rw[c][p])
      /\ Origin(family, c, p, vols[c][p], rw[From(c)][p])
  <2>1. Origin(family, From(c), p, vols[From(c)][p], rw[From(c)][p])
    BY <1>1 DEF ModeInv, ModeAt
  <2>2. Origin(family, c, p, vols[c][p], rw[c][p])
    BY DEF ModeInv, ModeAt
  <2> QED  BY <1>1, <2>1, <2>2 DEF Origin
<1>3. \A d \in Cont : p \in DOMAIN Binds[d] => Binds[d][p].dir \in Host
  BY DEF Host
<1>4. CASE vols[c][p] \in 1 .. MaxVols
  <2>1. rw[c][p] = TRUE /\ rw[From(c)][p] = TRUE
    BY <1>2, <1>3, <1>4 DEF Origin
  <2> QED  BY <2>1
<1>5. CASE vols[c][p] \notin 1 .. MaxVols
  <2>1. PICK d \in Cont : /\ family[d] = family[c] /\ p \in DOMAIN Binds[d]
                          /\ vols[c][p] = Binds[d][p].dir /\ rw[c][p] = Binds[d][p].rw
    BY <1>2, <1>5 DEF Origin
  <2>2. PICK e \in Cont : /\ family[e] = family[c] /\ p \in DOMAIN Binds[e]
                          /\ vols[c][p] = Binds[e][p].dir /\ rw[From(c)][p] = Binds[e][p].rw
    BY <1>2, <1>5 DEF Origin
  <2>3. Binds[d][p].rw = Binds[e][p].rw
    <3>1. \A q \in DOMAIN Binds[d], r \in DOMAIN Binds[e] :
             q = r /\ Binds[d][q].dir = Binds[e][r].dir => Binds[d][q].rw = Binds[e][r].rw
      BY <2>1, <2>2
    <3> QED  BY <2>1, <2>2, <3>1, ZenonT(40)
  <2> QED  BY <2>1, <2>2, <2>3
<1> QED  BY <1>4, <1>5

(* The daemon gives a container its volumes again, as they were mounted:   *)
(* the sources that its processes had, and those it shares with another    *)
(* container in the mode that that one has them.                           *)
THEOREM VolumesStayAsMounted ==
    ASSUME Linked, MaxVols \in Nat, OneMode PROVE Spec => []VolumesSafe
<1>1. PICK family \in [Cont -> Cont] :
         /\ \A c \in Cont : From(c) # None => family[From(c)] = family[c]
         /\ \A c, d \in Cont : family[c] = family[d] =>
               \A p \in DOMAIN Binds[c], q \in DOMAIN Binds[d] :
                   p = q /\ Binds[c][p].dir = Binds[d][q].dir
                       => Binds[c][p].rw = Binds[d][q].rw
  BY DEF OneMode
<1>2. Init => ModeInv(family)
  BY DEF Init, ModeInv, ModeAt, NotSaved, Empty
<1>3. VInv /\ ModeInv(family) /\ [Next]_vars => ModeInv(family)'
  BY <1>1, ModeStep
<1>4. VInv /\ ModeInv(family) => VolumesSafe
  <2>1. VInv => SameVolumes
    BY DEF VInv, VAt, Sub, SameVolumes
  <2> QED  BY <1>1, <2>1, ModesAgree DEF VolumesSafe, OneMode
<1> QED  BY <1>2, <1>3, <1>4, Begins, VInvStep, PTL DEF Spec

(* Whatever is bound and whoever shares it: no step replaces what a        *)
(* process has written by the files of an image.                           *)
THEOREM UsersKeepTheirData == ASSUME Linked PROVE Spec => UserDataStays
<1>1. ASSUME VInv, [Next]_vars, NEW s \in Source, data[s] = "user"
      PROVE  data'[s] = "user"
  <2>1. CASE UNCHANGED data
    BY <1>1, <2>1
  <2>2. ASSUME NEW c \in Cont, MakeVolume(c) PROVE data'[s] = "user"
    <3>1. PICK p \in Missing(c) : \E r, w : AddVolume(c, p, r, w)
      BY <2>2 DEF MakeVolume
    <3>2. PICK r, w : AddVolume(c, p, r, w)
      BY <3>1
    <3> QED  BY <1>1, <3>2 DEF AddVolume, Copied, VInv, Shape
  <2>3. ASSUME NEW c \in Cont, Use(c) PROVE data'[s] = "user"
    BY <1>1, <2>3 DEF Use, VInv, Shape
  <2> QED  BY <1>1, <2>1, <2>2, <2>3 DEF Next, vars, Restart, StartBegin, StartFails,
             VolumesFrom, Fork, Save, Die, Destroy
<1>2. VInv /\ [Next]_vars => [\A s \in Source : data[s] = "user" => data'[s] = "user"]_data
  BY <1>1
<1> QED  BY <1>2, Begins, VInvStep, PTL DEF Spec, UserDataStays
-----------------------------------------------------------------------------
(* The run of MCDaemon: every behaviour is that of one part, so what the   *)
(* proofs of a component say of its steps holds of the steps of its part.  *)
(* UDPProxy, for any clients and connections.  Tracked is the word of the  *)
(* table: an entry and the replyLoop that will delete it stand for each    *)
(* other; and who is in the critical section is who holds the lock.        *)

(* What is None is nothing else, and Run is no connection.                 *)
Distinct == None \notin Conn \cup Addr \cup {"run"} /\ "run" \notin Conn

(* The replyLoops whose entry is still in the table.                       *)
Tracking(k) == loop[k] \in {"read", "lock", "delete"}

Tracked ==
    /\ \A k \in Conn : Tracking(k) => addr[k] \in Addr /\ table[addr[k]] = k
    /\ \A k \in Conn, a \in Addr : table[a] = k => addr[k] = a /\ Tracking(k)

(* Only Run takes a connection, and it takes none before there is one.     *)
FreeConn == run.pc \in {"lock", "look"} =>
    run.from \in Addr /\ \E k \in Conn : loop[k] = "none"

LoopsOpen == close # "done" => \A k \in Conn : loop[k] # "none" => k \in open

Locked ==
    /\ run.pc = "look" => lock = "run"
    /\ \A k \in Conn : loop[k] = "delete" => lock = k
    /\ UDP!LockHeld

UInv == UDP!TypeOK /\ Tracked /\ FreeConn /\ LoopsOpen /\ Locked

LEMMA UInvBegins ==
    ASSUME Distinct PROVE UDP!Init => UInv
<1> SUFFICES ASSUME UDP!Init PROVE UInv
  OBVIOUS
<1>1. UDP!TypeOK
  BY DEF UDP!Init, UDP!TypeOK
<1>2. Tracked /\ FreeConn /\ LoopsOpen /\ Locked
  BY DEF UDP!Init, Tracked, Tracking, FreeConn, LoopsOpen, Locked, UDP!LockHeld, Distinct
<1> QED
  BY <1>1, <1>2 DEF UInv

(* A step that leaves the table and the loops alone leaves them exact.     *)
LEMMA TrackedStutters ==
    ASSUME Tracked, UNCHANGED <<table, addr, loop>> PROVE Tracked'
BY DEF Tracked, Tracking

LEMMA NewConn ==
    ASSUME UInv, run.pc = "look"
    PROVE  LET k == CHOOSE j \in Conn : loop[j] = "none"
           IN  k \in Conn /\ loop[k] = "none"
BY DEF UInv, FreeConn

LEMMA DialledStep ==
    ASSUME Distinct, UInv, UDP!Dialled PROVE UInv'
<1> DEFINE k == CHOOSE j \in Conn : loop[j] = "none"
           a == run.from
<1>1. k \in Conn /\ loop[k] = "none"
  BY NewConn DEF UDP!Dialled
<1>2. a \in Addr /\ table[a] = None /\ run.pc = "look" /\ lock = "run"
  BY DEF UDP!Dialled, UDP!Hit, UInv, FreeConn, Locked
<1>3. /\ table' = [table EXCEPT ![a] = k] /\ open' = open \cup {k}
      /\ addr' = [addr EXCEPT ![k] = a] /\ loop' = [loop EXCEPT ![k] = "read"]
      /\ run' = [run EXCEPT !.pc = "write", !.conn = k]
      /\ lock' = None /\ UNCHANGED <<listening, close, failed>>
  BY DEF UDP!Dialled
<1> HIDE DEF k, a
<1>4. UDP!TypeOK
  BY DEF UInv
<1>5. UDP!TypeOK'
  BY <1>1, <1>2, <1>3, <1>4 DEF UDP!TypeOK
<1>6. /\ table'[a] = k /\ addr'[k] = a /\ loop'[k] = "read"
      /\ \A b \in Addr \ {a} : table'[b] = table[b]
      /\ \A j \in Conn \ {k} : addr'[j] = addr[j] /\ loop'[j] = loop[j]
      /\ run'.pc = "write"
  BY <1>1, <1>2, <1>3, <1>4 DEF UDP!TypeOK
<1>7. \A b \in Addr : table[b] # k
  BY <1>1 DEF UInv, Tracked, Tracking
<1>8. Tracked
  BY DEF UInv
<1>9. \A j \in Conn : Tracking(j)' => addr'[j] \in Addr /\ table'[addr'[j]] = j
  <2> SUFFICES ASSUME NEW j \in Conn, Tracking(j)'
               PROVE  addr'[j] \in Addr /\ table'[addr'[j]] = j
    OBVIOUS
  <2>1. CASE j = k
    BY <2>1, <1>6, <1>2
  <2>2. CASE j # k
    <3>1. addr[j] \in Addr /\ table[addr[j]] = j
      BY <2>2, <1>6, <1>8 DEF Tracked, Tracking
    <3>2. addr[j] # a
      BY <3>1, <1>2 DEF Distinct
    <3> QED
      BY <3>1, <3>2, <2>2, <1>6
  <2> QED
    BY <2>1, <2>2
<1>10. \A j \in Conn, b \in Addr : table'[b] = j => addr'[j] = b /\ Tracking(j)'
  <2> SUFFICES ASSUME NEW j \in Conn, NEW b \in Addr, table'[b] = j
               PROVE  addr'[j] = b /\ Tracking(j)'
    OBVIOUS
  <2>1. CASE b = a
    BY <2>1, <1>6 DEF Tracking
  <2>2. CASE b # a
    BY <2>2, <1>6, <1>7, <1>8 DEF Tracked, Tracking
  <2> QED
    BY <2>1, <2>2
<1>11. LoopsOpen'
  BY <1>3, <1>6 DEF UInv, LoopsOpen
<1>12. FreeConn' /\ Locked'
  BY <1>1, <1>2, <1>3, <1>6 DEF UInv, FreeConn, Locked, UDP!LockHeld, Distinct
<1> QED
  BY <1>5, <1>9, <1>10, <1>11, <1>12 DEF UInv, Tracked

LEMMA RunStep ==
    ASSUME Distinct, UInv, UDP!Run PROVE UInv'
<1>1. CASE UDP!Receive
  <2>1. UDP!TypeOK' /\ run'.pc # "look"
    BY <1>1, ZenonT(40) DEF UInv, UDP!TypeOK, UDP!Receive
  <2>2. Tracked' /\ LoopsOpen'
    BY <1>1, TrackedStutters DEF UInv, UDP!Receive, LoopsOpen
  <2>3. FreeConn'
    BY <1>1 DEF UInv, UDP!TypeOK, UDP!Receive, FreeConn
  <2>4. run.pc # "look" /\ UNCHANGED <<lock, loop, failed>>
    BY <1>1 DEF UDP!Receive
  <2>5. Locked'
    BY <2>1, <2>4 DEF UInv, Locked, UDP!LockHeld
  <2> QED
    BY <2>1, <2>2, <2>3, <2>5 DEF UInv
<1>2. CASE UDP!RunLock
  <2>1. UDP!TypeOK'
    BY <1>2 DEF UInv, UDP!TypeOK, UDP!RunLock
  <2>2. Tracked' /\ LoopsOpen' /\ FreeConn' /\ Locked'
    BY <1>2 DEF UInv, UDP!TypeOK, UDP!RunLock, Tracked, Tracking, LoopsOpen, FreeConn, Locked,
                UDP!LockHeld, Distinct
  <2> QED
    BY <2>1, <2>2 DEF UInv
<1>3. CASE UDP!Found
  <2>1. UDP!TypeOK' /\ run'.pc = "write"
    BY <1>3 DEF UInv, UDP!TypeOK, UDP!Found, FreeConn
  <2>2. Tracked' /\ LoopsOpen' /\ FreeConn' /\ Locked'
    BY <1>3, <2>1 DEF UInv, UDP!Found, Tracked, Tracking, LoopsOpen, FreeConn, Locked,
                UDP!LockHeld, Distinct
  <2> QED
    BY <2>1, <2>2 DEF UInv
<1>4. CASE UDP!Dialled
  BY <1>4, DialledStep
<1>5. CASE UDP!DialFails
  <2>1. UDP!TypeOK' /\ run'.pc = "read"
    BY <1>5 DEF UInv, UDP!TypeOK, UDP!DialFails
  <2>2. Tracked' /\ LoopsOpen' /\ FreeConn' /\ Locked'
    BY <1>5, <2>1 DEF UInv, UDP!DialFails, Tracked, Tracking, LoopsOpen, FreeConn, Locked,
                UDP!LockHeld
  <2> QED
    BY <2>1, <2>2 DEF UInv
<1>6. CASE UDP!Forward
  <2>1. UDP!TypeOK' /\ run'.pc = "read"
    BY <1>6 DEF UInv, UDP!TypeOK, UDP!Forward
  <2>2. Tracked' /\ LoopsOpen' /\ FreeConn' /\ Locked'
    BY <1>6, <2>1 DEF UInv, UDP!TypeOK, UDP!Forward, Tracked, Tracking, LoopsOpen, FreeConn, Locked,
                UDP!LockHeld
  <2> QED
    BY <2>1, <2>2 DEF UInv
<1> QED
  BY <1>1, <1>2, <1>3, <1>4, <1>5, <1>6 DEF UDP!Run

LEMMA DeleteStep ==
    ASSUME Distinct, UInv, NEW k \in Conn, UDP!Delete(k) PROVE UInv'
<1>1. /\ UDP!TypeOK /\ Tracked /\ lock = k /\ addr[k] \in Addr /\ table[addr[k]] = k
  BY DEF UInv, Tracked, Tracking, Locked, UDP!Delete
<1>2. UDP!TypeOK'
  BY <1>1 DEF UDP!TypeOK, UDP!Delete, UDP!Unlock
<1>3. /\ table'[addr[k]] = None /\ loop'[k] = "close" /\ addr' = addr
      /\ \A b \in Addr \ {addr[k]} : table'[b] = table[b]
      /\ \A j \in Conn \ {k} : loop'[j] = loop[j]
      /\ lock' = None /\ UNCHANGED <<open, run, close, failed>>
  BY <1>1 DEF UDP!TypeOK, UDP!Delete, UDP!Unlock
<1>4. Tracked'
  <2>1. \A j \in Conn : Tracking(j)' => addr'[j] \in Addr /\ table'[addr'[j]] = j
    BY <1>1, <1>3 DEF Tracked, Tracking
  <2>2. \A j \in Conn, b \in Addr : table'[b] = j => addr'[j] = b /\ Tracking(j)'
    BY <1>1, <1>3 DEF Tracked, Tracking, Distinct
  <2> QED
    BY <2>1, <2>2 DEF Tracked
<1>5. LoopsOpen' /\ FreeConn'
  BY <1>3 DEF UInv, LoopsOpen, FreeConn, UDP!Delete
<1>6. Locked'
  BY <1>1, <1>3 DEF UInv, Locked, UDP!LockHeld, Distinct
<1> QED
  BY <1>2, <1>4, <1>5, <1>6 DEF UInv

LEMMA LoopStep ==
    ASSUME Distinct, UInv, NEW k \in Conn, UDP!ReplyLoop(k) PROVE UInv'
<1> USE DEF UInv
<1>1. CASE UDP!Expired(k)
  <2>1. UDP!TypeOK' /\ loop'[k] = "lock" /\ \A j \in Conn \ {k} : loop'[j] = loop[j]
    BY <1>1 DEF UDP!TypeOK, UDP!Expired, UDP!Expire
  <2>2. Tracked' /\ LoopsOpen' /\ FreeConn' /\ Locked'
    BY <1>1, <2>1 DEF UDP!Expired, UDP!Expire, Tracked, Tracking, LoopsOpen, FreeConn, Locked,
                UDP!LockHeld
  <2> QED
    BY <2>1, <2>2
<1>2. CASE UDP!LoopLock(k)
  <2>1. UDP!TypeOK' /\ loop'[k] = "delete" /\ \A j \in Conn \ {k} : loop'[j] = loop[j]
    BY <1>2 DEF UDP!TypeOK, UDP!LoopLock
  <2>2. loop[k] = "lock" /\ lock = None /\ lock' = k
        /\ UNCHANGED <<table, open, addr, run, close>>
    BY <1>2 DEF UDP!LoopLock
  <2>3. Tracked' /\ LoopsOpen' /\ FreeConn'
    BY <2>1, <2>2 DEF Tracked, Tracking, LoopsOpen, FreeConn
  <2>4. Locked'
    BY <2>1, <2>2 DEF Locked, UDP!LockHeld, Distinct
  <2> QED
    BY <2>1, <2>3, <2>4
<1>3. CASE UDP!Delete(k)
  BY <1>3, DeleteStep
<1>4. CASE UDP!CloseConn(k)
  <2>1. /\ UDP!TypeOK' /\ loop'[k] = "none" /\ addr'[k] = None /\ open' = open \ {k}
        /\ \A j \in Conn \ {k} : loop'[j] = loop[j] /\ addr'[j] = addr[j]
    BY <1>4 DEF UDP!TypeOK, UDP!CloseConn
  <2>2. Tracked'
    BY <1>4, <2>1 DEF UDP!CloseConn, Tracked, Tracking
  <2>3. LoopsOpen' /\ FreeConn' /\ Locked'
    BY <1>4, <2>1 DEF UDP!CloseConn, LoopsOpen, FreeConn, Locked, UDP!LockHeld
  <2> QED
    BY <2>1, <2>2, <2>3
<1> QED
  BY <1>1, <1>2, <1>3, <1>4 DEF UDP!ReplyLoop

LEMMA UInvStep ==
    ASSUME Distinct PROVE UInv /\ [UDP!Next]_UDPVars => UInv'
<1> SUFFICES ASSUME UInv, [UDP!Next]_UDPVars PROVE UInv'
  OBVIOUS
<1>1. CASE UDP!Run
  BY <1>1, RunStep
<1>2. CASE \E k \in Conn : UDP!ReplyLoop(k)
  BY <1>2, LoopStep
<1>3. CASE UDP!CloseListener \/ UDP!CloseConns
  <2>1. UDP!TypeOK' /\ run' = run /\ loop' = loop /\ lock' = lock /\ failed' = failed
    BY <1>3 DEF UInv, UDP!TypeOK, UDP!CloseListener, UDP!CloseConns
  <2>2. Tracked'
    BY <1>3, TrackedStutters DEF UInv, UDP!CloseListener, UDP!CloseConns
  <2>3. LoopsOpen'
    BY <1>3 DEF UInv, LoopsOpen, UDP!CloseListener, UDP!CloseConns
  <2>4. FreeConn' /\ Locked'
    BY <2>1 DEF UInv, FreeConn, Locked, UDP!LockHeld
  <2> QED
    BY <2>1, <2>2, <2>3, <2>4 DEF UInv
<1>4. CASE UNCHANGED UDPVars
  BY <1>4 DEF UDPVars, UInv, UDP!TypeOK, Tracked, Tracking, FreeConn, LoopsOpen, Locked, UDP!LockHeld
<1>5. CASE UDP!Next
  BY <1>1, <1>2, <1>3, <1>5 DEF UDP!Next
<1> QED
  BY <1>4, <1>5

LEMMA UInvSafe == UInv => UDP!UDPSafe
<1> SUFFICES ASSUME UInv PROVE UDP!TableExact /\ UDP!EntriesOpen /\ UDP!LockHeld
  BY DEF UDP!UDPSafe
<1>1. UDP!TableExact
  BY DEF UInv, Tracked, Tracking, UDP!TableExact
<1>2. UDP!EntriesOpen
  BY DEF UInv, UDP!TypeOK, Tracked, Tracking, LoopsOpen, UDP!EntriesOpen
<1> QED
  BY <1>1, <1>2 DEF UInv, Locked
-----------------------------------------------------------------------------
(* TCPProxy. The events a clientLoop has had are those of the brokers that *)
(* are gone, and which sockets are shut tells how far the brokers are.     *)
Bit(b) == IF b THEN 1 ELSE 0
Reported(k) == events[k] = Bit(upward[k] = "gone") + Bit(downward[k] = "gone")
Phases(k) ==
    /\ st[k] \in {"none", "dial"} => upward[k] = "none" /\ downward[k] = "none"
    /\ st[k] = "join" => quit
    /\ st[k] = "done" => upward[k] \in {"none", "gone"} /\ downward[k] \in {"none", "gone"}
    /\ "backend" \in shut[k] <=> upward[k] \in {"send", "gone"}
    /\ "client" \in shut[k] <=> downward[k] \in {"send", "gone"}
    /\ client[k].gone => client[k].fin
    /\ backend[k].gone => backend[k].fin
(* While the client still sends, the copy to the backend ends only when    *)
(* that has ended, and the copy from it only when all has been copied.     *)
Carried(k) ==
    ~client[k].fin /\ ~quit =>
        /\ "backend" \in shut[k] => backend[k].fin \/ "client" \in shut[k]
        /\ "client" \in shut[k] => backend[k].fin /\ backend[k].got = backend[k].sent
TCPInv == TCP!TypeOK /\ \A k \in Socket : Reported(k) /\ Phases(k) /\ Carried(k)

LEMMA TCPInvBegins == ASSUME MaxBytes \in Nat PROVE TCP!Init => TCPInv
<1> SUFFICES ASSUME TCP!Init PROVE TCPInv
  OBVIOUS
<1>1. TCP!NewEnd \in TCP!End /\ ~TCP!NewEnd.fin /\ ~TCP!NewEnd.gone
  BY DEF TCP!NewEnd, TCP!End
<1>2. TCP!TypeOK
  <2>1. /\ client = [k \in Socket |-> TCP!NewEnd] /\ backend = [k \in Socket |-> TCP!NewEnd]
        /\ accepting = TRUE /\ quit = FALSE
        /\ st = [k \in Socket |-> "none"] /\ events = [k \in Socket |-> 0]
        /\ upward = [k \in Socket |-> "none"] /\ downward = [k \in Socket |-> "none"]
        /\ shut = [k \in Socket |-> {}]
    BY DEF TCP!Init
  <2>2. client \in [Socket -> TCP!End] /\ backend \in [Socket -> TCP!End]
    BY <1>1, <2>1
  <2>3. st \in [Socket -> {"none", "dial", "copy", "join", "done"}] /\ events \in [Socket -> 0 .. 2]
    BY <2>1
  <2>4. upward \in [Socket -> TCP!Broker] /\ downward \in [Socket -> TCP!Broker]
    BY <2>1 DEF TCP!Broker
  <2>5. shut \in [Socket -> SUBSET {"client", "backend"}]
    BY <2>1
  <2> QED
    BY <2>1, <2>2, <2>3, <2>4, <2>5 DEF TCP!TypeOK
<1>3. ASSUME NEW k \in Socket PROVE Reported(k) /\ Phases(k) /\ Carried(k)
  BY <1>1 DEF TCP!Init, Reported, Bit, Phases, Carried
<1> QED
  BY <1>2, <1>3 DEF TCPInv

LEMMA TCPInvSafe == TCPInv => TCP!ReplyWhole
BY DEF TCPInv, TCP!TypeOK, TCP!ReplyWhole, TCP!Broker, Reported, Bit, Phases, Carried

(* A step is about one connection, and all others stay as they are.        *)
LEMMA OneMoves ==
    ASSUME MaxBytes \in Nat, TCPInv, NEW k \in Socket, TCP!TypeOK', quit' = quit,
           \A j \in Socket \ {k} :
              /\ st'[j] = st[j] /\ events'[j] = events[j] /\ shut'[j] = shut[j]
              /\ upward'[j] = upward[j] /\ downward'[j] = downward[j]
              /\ client'[j] = client[j] /\ backend'[j] = backend[j],
           Reported(k)', Phases(k)', Carried(k)'
    PROVE  TCPInv'
<1>1. ASSUME NEW j \in Socket PROVE Reported(j)' /\ Phases(j)' /\ Carried(j)'
  <2>1. CASE j = k
    BY <2>1
  <2>2. CASE j # k
    BY <2>2 DEF TCPInv, Reported, Phases, Carried
  <2> QED
    BY <2>1, <2>2
<1> QED
  BY <1>1 DEF TCPInv

(* What an end does keeps it an end.                                       *)
LEMMA EndForms ==
    ASSUME MaxBytes \in Nat, NEW e \in TCP!End
    PROVE  /\ e.sent < MaxBytes => TCP!Send(e) \in TCP!End
           /\ TCP!Send(e).fin = e.fin /\ TCP!Send(e).gone = e.gone /\ TCP!Send(e).got = e.got
           /\ [e EXCEPT !.fin = TRUE] \in TCP!End
           /\ [e EXCEPT !.gone = TRUE, !.fin = TRUE] \in TCP!End
           /\ e.got < e.sent => [e EXCEPT !.got = @ + 1] \in TCP!End
<1>1. /\ e.sent \in 0 .. MaxBytes /\ e.got \in 0 .. MaxBytes
      /\ e.fin \in BOOLEAN /\ e.gone \in BOOLEAN
      /\ e = [sent |-> e.sent, got |-> e.got, fin |-> e.fin, gone |-> e.gone]
  BY DEF TCP!End
<1> DEFINE n == e.sent
           m == e.got
           f == e.fin
           g == e.gone
           End(a, b, c, d) == [sent |-> a, got |-> b, fin |-> c, gone |-> d]
<1>2. \A a \in 0 .. MaxBytes, b \in 0 .. MaxBytes, c \in BOOLEAN, d \in BOOLEAN :
         End(a, b, c, d) \in TCP!End
  BY DEF TCP!End
<1>3. e = End(n, m, f, g)
  BY <1>1
<1>4. n \in 0 .. MaxBytes /\ m \in 0 .. MaxBytes /\ f \in BOOLEAN /\ g \in BOOLEAN
  BY <1>1
<1>5. TCP!Send(e) = End(n + 1, m, f, g)
  BY <1>3 DEF TCP!Send
<1>8. [e EXCEPT !.got = @ + 1] = End(n, m + 1, f, g)
  BY <1>3
<1>9. /\ n < MaxBytes => n + 1 \in 0 .. MaxBytes
      /\ m < n => m + 1 \in 0 .. MaxBytes
  BY <1>4
<1>10. /\ n < MaxBytes => TCP!Send(e) \in TCP!End
       /\ TCP!Send(e).fin = f /\ TCP!Send(e).gone = g /\ TCP!Send(e).got = m
  BY <1>2, <1>4, <1>5, <1>9
<1>11. [e EXCEPT !.fin = TRUE] \in TCP!End
  BY DEF TCP!End
<1>13. [e EXCEPT !.gone = TRUE, !.fin = TRUE] \in TCP!End
  BY DEF TCP!End
<1>12. m < n => [e EXCEPT !.got = @ + 1] \in TCP!End
  BY <1>2, <1>4, <1>8, <1>9
<1> HIDE DEF End
<1> QED
  BY <1>10, <1>11, <1>12, <1>13

LEMMA ClientActs == ASSUME MaxBytes \in Nat, TCPInv, NEW k \in Socket, TCP!ClientActs(k) PROVE TCPInv'
<1> DEFINE E == client[k]
           Move(e) ==
              /\ e \in TCP!End /\ client' = [client EXCEPT ![k] = e]
              /\ client[k].fin => e.fin
              /\ e.gone => e.fin
<1>0. E \in TCP!End /\ (E.gone => E.fin)
  BY DEF TCPInv, TCP!TypeOK, Phases
<1>1. PICK e : Move(e)
  <2>1. CASE ~E.fin /\ E.sent < MaxBytes /\ client' = [client EXCEPT ![k] = TCP!Send(E)]
    <3>1. Move(TCP!Send(E))
      BY <1>0, <2>1, EndForms
    <3> QED
      BY <3>1
  <2>2. CASE client' = [client EXCEPT ![k].fin = TRUE]
    <3>1. Move([E EXCEPT !.fin = TRUE])
      BY <1>0, <2>2, EndForms DEF TCP!End
    <3> QED
      BY <3>1
  <2>3. CASE client' = [client EXCEPT ![k].gone = TRUE, ![k].fin = TRUE]
    <3>1. client' = [client EXCEPT ![k] = [E EXCEPT !.gone = TRUE, !.fin = TRUE]]
      BY <2>3 DEF TCPInv, TCP!TypeOK, TCP!End
    <3>2. Move([E EXCEPT !.gone = TRUE, !.fin = TRUE])
      BY <1>0, <3>1, EndForms DEF TCP!End
    <3> QED
      BY <3>2
  <2> QED
    BY <2>1, <2>2, <2>3 DEF TCP!ClientActs
<1>2. UNCHANGED <<accepting, quit, st, events, upward, downward, backend, shut>>
  BY DEF TCP!ClientActs
<1>3. TCP!TypeOK'
  BY <1>1, <1>2 DEF TCPInv, TCP!TypeOK
<1>4. client'[k] = e /\ \A j \in Socket \ {k} : client'[j] = client[j]
  BY <1>1 DEF TCPInv, TCP!TypeOK
<1>5. Reported(k)' /\ Phases(k)' /\ Carried(k)'
  BY <1>1, <1>2, <1>4 DEF TCPInv, Reported, Phases, Carried
<1> QED
  BY <1>2, <1>3, <1>4, <1>5, OneMoves

LEMMA BackendActs == ASSUME MaxBytes \in Nat, TCPInv, NEW k \in Socket, TCP!BackendActs(k) PROVE TCPInv'
<1> DEFINE E == backend[k]
           Move(e) ==
              /\ e \in TCP!End /\ backend' = [backend EXCEPT ![k] = e]
              /\ backend[k].fin => e.fin /\ e.sent = backend[k].sent
              /\ e.gone => e.fin
              /\ e.got = backend[k].got
<1>0. E \in TCP!End /\ (E.gone => E.fin)
  BY DEF TCPInv, TCP!TypeOK, Phases
<1>1. PICK e : Move(e)
  <2>1. CASE ~E.fin /\ E.sent < MaxBytes /\ backend' = [backend EXCEPT ![k] = TCP!Send(E)]
    <3>1. Move(TCP!Send(E))
      BY <1>0, <2>1, EndForms
    <3> QED
      BY <3>1
  <2>2. CASE backend' = [backend EXCEPT ![k].fin = TRUE]
    <3>1. Move([E EXCEPT !.fin = TRUE])
      BY <1>0, <2>2, EndForms DEF TCP!End
    <3> QED
      BY <3>1
  <2>3. CASE backend' = [backend EXCEPT ![k].gone = TRUE, ![k].fin = TRUE]
    <3>1. backend' = [backend EXCEPT ![k] = [E EXCEPT !.gone = TRUE, !.fin = TRUE]]
      BY <2>3 DEF TCPInv, TCP!TypeOK, TCP!End
    <3>2. Move([E EXCEPT !.gone = TRUE, !.fin = TRUE])
      BY <1>0, <3>1, EndForms DEF TCP!End
    <3> QED
      BY <3>2
  <2> QED
    BY <2>1, <2>2, <2>3 DEF TCP!BackendActs
<1>2. UNCHANGED <<accepting, quit, st, events, upward, downward, client, shut>>
  BY DEF TCP!BackendActs
<1>3. TCP!TypeOK'
  BY <1>1, <1>2 DEF TCPInv, TCP!TypeOK
<1>4. backend'[k] = e /\ \A j \in Socket \ {k} : backend'[j] = backend[j]
  BY <1>1 DEF TCPInv, TCP!TypeOK
<1>5. Reported(k)' /\ Phases(k)' /\ Carried(k)'
  BY <1>1, <1>2, <1>4 DEF TCPInv, Reported, Phases, Carried
<1> QED
  BY <1>2, <1>3, <1>4, <1>5, OneMoves

LEMMA LoopActs ==
    ASSUME MaxBytes \in Nat, TCPInv, NEW k \in Socket, TCP!Accept(k) \/ TCP!Dial(k) \/ TCP!Quit(k) PROVE TCPInv'
<1>1. UNCHANGED <<accepting, quit, events, client, backend, shut>>
  BY DEF TCP!Accept, TCP!Dial, TCP!Quit, TCP!Ends
<1>2. /\ st[k] = "none" => upward' = upward /\ downward' = downward /\ st' = [st EXCEPT ![k] = "dial"]
      /\ st[k] = "copy" => upward' = upward /\ downward' = downward /\ quit /\ st' = [st EXCEPT ![k] = "join"]
      /\ st[k] = "dial" =>
            \/ /\ st' = [st EXCEPT ![k] = "copy"]
               /\ upward' = [upward EXCEPT ![k] = "copy"] /\ downward' = [downward EXCEPT ![k] = "copy"]
            \/ st' = [st EXCEPT ![k] = "done"] /\ UNCHANGED <<upward, downward>>
      /\ st[k] \in {"none", "copy", "dial"}
  BY DEF TCP!Accept, TCP!Dial, TCP!Quit, TCP!Join
<1>3. TCP!TypeOK'
  BY <1>1, <1>2 DEF TCPInv, TCP!TypeOK, TCP!Broker
<1>4. /\ \A j \in Socket \ {k} : st'[j] = st[j] /\ upward'[j] = upward[j] /\ downward'[j] = downward[j]
      /\ \/ st[k] = "none" /\ st'[k] = "dial" /\ upward'[k] = upward[k] /\ downward'[k] = downward[k]
         \/ quit /\ st'[k] = "join" /\ upward'[k] = upward[k] /\ downward'[k] = downward[k]
         \/ st[k] = "dial" /\ st'[k] = "copy" /\ upward'[k] = "copy" /\ downward'[k] = "copy"
         \/ st[k] = "dial" /\ st'[k] = "done" /\ upward'[k] = upward[k] /\ downward'[k] = downward[k]
  BY <1>2 DEF TCPInv, TCP!TypeOK
<1>5. Reported(k)' /\ Phases(k)' /\ Carried(k)'
  BY <1>1, <1>4 DEF TCPInv, Reported, Bit, Phases, Carried
<1> QED
  BY <1>1, <1>3, <1>4, <1>5, OneMoves

LEMMA EventActs == ASSUME MaxBytes \in Nat, TCPInv, NEW k \in Socket, TCP!Event(k) PROVE TCPInv'
<1>1. UNCHANGED <<accepting, quit, client, backend, shut>>
  BY DEF TCP!Event, TCP!Ends
<1>2. /\ st[k] \in {"copy", "join"}
      /\ \/ upward[k] = "send" /\ upward' = [upward EXCEPT ![k] = "gone"] /\ UNCHANGED downward
         \/ downward[k] = "send" /\ downward' = [downward EXCEPT ![k] = "gone"] /\ UNCHANGED upward
      /\ events' = [events EXCEPT ![k] = events[k] + 1]
      /\ st' = IF events[k] = 1 THEN [st EXCEPT ![k] = "done"] ELSE st
  BY DEF TCP!Event
<1>3. events[k] \in {0, 1}
  BY <1>2 DEF TCPInv, TCP!TypeOK, Reported, Bit
<1>4. TCP!TypeOK'
  BY <1>1, <1>2, <1>3 DEF TCPInv, TCP!TypeOK, TCP!Broker
<1>5. /\ \A j \in Socket \ {k} : /\ st'[j] = st[j] /\ events'[j] = events[j]
                                 /\ upward'[j] = upward[j] /\ downward'[j] = downward[j]
      /\ events'[k] = events[k] + 1
      /\ st'[k] = IF events[k] = 1 THEN "done" ELSE st[k]
      /\ \/ upward[k] = "send" /\ upward'[k] = "gone" /\ downward'[k] = downward[k]
         \/ downward[k] = "send" /\ downward'[k] = "gone" /\ upward'[k] = upward[k]
  BY <1>2 DEF TCPInv, TCP!TypeOK
<1>6. Reported(k)'
  BY <1>3, <1>5 DEF TCPInv, TCP!TypeOK, Reported, Bit
<1>7. Phases(k)'
  BY <1>1, <1>2, <1>3, <1>5 DEF TCPInv, TCP!TypeOK, TCP!Broker, Reported, Bit, Phases
<1>8. Carried(k)'
  BY <1>1 DEF TCPInv, Carried
<1> QED
  BY <1>1, <1>4, <1>5, <1>6, <1>7, <1>8, OneMoves

LEMMA UpActs == ASSUME MaxBytes \in Nat, TCPInv, NEW k \in Socket, TCP!CopyUp(k) \/ TCP!EndUp(k) PROVE TCPInv'
<1>1. UNCHANGED <<accepting, quit, st, events, downward, backend>> /\ upward[k] = "copy"
  BY DEF TCP!CopyUp, TCP!EndUp, TCP!Ends
<1>2. CASE TCP!CopyUp(k)
  <2> DEFINE e == [client[k] EXCEPT !.got = @ + 1]
  <2>0. client[k] \in TCP!End /\ client[k].got < client[k].sent
    BY <1>2 DEF TCPInv, TCP!TypeOK, TCP!CopyUp
  <2>1. /\ e \in TCP!End /\ client' = [client EXCEPT ![k] = e]
        /\ e.fin = client[k].fin /\ e.gone = client[k].gone
    BY <1>2, <2>0, EndForms DEF TCP!CopyUp, TCP!End
  <2> HIDE DEF e
  <2>2. upward' = upward /\ shut' = shut
    BY <1>2 DEF TCP!CopyUp
  <2>3. TCP!TypeOK'
    BY <1>1, <2>1, <2>2 DEF TCPInv, TCP!TypeOK
  <2>4. client'[k] = e /\ \A j \in Socket \ {k} : client'[j] = client[j]
    BY <2>1 DEF TCPInv, TCP!TypeOK
  <2>5. Reported(k)' /\ Phases(k)' /\ Carried(k)'
    BY <1>1, <2>1, <2>2, <2>4 DEF TCPInv, Reported, Phases, Carried
  <2> QED
    BY <1>1, <2>2, <2>3, <2>4, <2>5, OneMoves
<1>3. CASE TCP!EndUp(k)
  <2>1. /\ upward' = [upward EXCEPT ![k] = "send"]
        /\ shut' = [shut EXCEPT ![k] = shut[k] \cup {"backend"}]
        /\ client' = client
        /\ st[k] = "join" \/ st[k] = "done" \/ backend[k].gone \/ client[k].fin \/ "client" \in shut[k]
    BY <1>3 DEF TCP!EndUp, TCP!Over, TCP!Closed, TCP!Ends
  <2>2. TCP!TypeOK'
    BY <1>1, <2>1 DEF TCPInv, TCP!TypeOK, TCP!Broker
  <2>3. /\ \A j \in Socket \ {k} : upward'[j] = upward[j] /\ shut'[j] = shut[j]
        /\ upward'[k] = "send" /\ shut'[k] = shut[k] \cup {"backend"}
    BY <2>1 DEF TCPInv, TCP!TypeOK
  <2>4. Reported(k)' /\ Phases(k)'
    BY <1>1, <2>1, <2>3 DEF TCPInv, Reported, Bit, Phases
  <2>5. Carried(k)'
    BY <1>1, <2>1, <2>3 DEF TCPInv, Phases, Carried
  <2> QED
    BY <1>1, <2>1, <2>2, <2>3, <2>4, <2>5, OneMoves
<1> QED
  BY <1>2, <1>3

LEMMA DownActs == ASSUME MaxBytes \in Nat, TCPInv, NEW k \in Socket, TCP!CopyDown(k) \/ TCP!EndDown(k) PROVE TCPInv'
<1>1. UNCHANGED <<accepting, quit, st, events, upward, client>> /\ downward[k] = "copy"
  BY DEF TCP!CopyDown, TCP!EndDown, TCP!Ends
<1>2. CASE TCP!CopyDown(k)
  <2> DEFINE e == [backend[k] EXCEPT !.got = @ + 1]
  <2>0. backend[k] \in TCP!End /\ backend[k].got < backend[k].sent
    BY <1>2 DEF TCPInv, TCP!TypeOK, TCP!CopyDown
  <2>1. /\ e \in TCP!End /\ backend' = [backend EXCEPT ![k] = e]
        /\ e.fin = backend[k].fin /\ e.gone = backend[k].gone
    BY <1>2, <2>0, EndForms DEF TCP!CopyDown, TCP!End
  <2> HIDE DEF e
  <2>2. downward' = downward /\ shut' = shut
    BY <1>2 DEF TCP!CopyDown
  <2>3. TCP!TypeOK'
    BY <1>1, <2>1, <2>2 DEF TCPInv, TCP!TypeOK
  <2>4. backend'[k] = e /\ \A j \in Socket \ {k} : backend'[j] = backend[j]
    BY <2>1 DEF TCPInv, TCP!TypeOK
  <2>5. Reported(k)' /\ Phases(k)' /\ Carried(k)'
    BY <1>1, <2>1, <2>2, <2>4 DEF TCPInv, Reported, Phases, Carried
  <2> QED
    BY <1>1, <2>2, <2>3, <2>4, <2>5, OneMoves
<1>3. CASE TCP!EndDown(k)
  <2>1. /\ downward' = [downward EXCEPT ![k] = "send"]
        /\ shut' = [shut EXCEPT ![k] = shut[k] \cup {"client"}]
        /\ backend' = backend
        /\ \/ st[k] = "join" \/ st[k] = "done" \/ client[k].gone
           \/ /\ backend[k].sent = backend[k].got
              /\ backend[k].fin \/ "backend" \in shut[k]
    BY <1>3 DEF TCP!EndDown, TCP!OverDown, TCP!Over, TCP!Closed, TCP!Ends
  <2>2. TCP!TypeOK'
    BY <1>1, <2>1 DEF TCPInv, TCP!TypeOK, TCP!Broker
  <2>3. /\ \A j \in Socket \ {k} : downward'[j] = downward[j] /\ shut'[j] = shut[j]
        /\ downward'[k] = "send" /\ shut'[k] = shut[k] \cup {"client"}
    BY <2>1 DEF TCPInv, TCP!TypeOK
  <2>4. Reported(k)' /\ Phases(k)'
    BY <1>1, <2>1, <2>3 DEF TCPInv, Reported, Bit, Phases
  <2>5. Carried(k)'
    BY <1>1, <2>1, <2>3 DEF TCPInv, Phases, Carried
  <2> QED
    BY <1>1, <2>1, <2>2, <2>3, <2>4, <2>5, OneMoves
<1> QED
  BY <1>2, <1>3

LEMMA RestActs == ASSUME TCPInv, TCP!Close \/ TCP!RunReturns \/ UNCHANGED TCPVars PROVE TCPInv'
<1>1. /\ UNCHANGED <<st, events, upward, downward, client, backend, shut>>
      /\ accepting' \in BOOLEAN /\ quit' \in BOOLEAN /\ (quit => quit')
  BY DEF TCPInv, TCP!TypeOK, TCP!Close, TCP!RunReturns, TCPVars, TCP!Ends
<1>2. TCP!TypeOK'
  BY <1>1 DEF TCPInv, TCP!TypeOK
<1>3. ASSUME NEW k \in Socket PROVE Reported(k)' /\ Phases(k)' /\ Carried(k)'
  BY <1>1 DEF TCPInv, Reported, Phases, Carried
<1> QED
  BY <1>2, <1>3 DEF TCPInv

LEMMA TCPInvStep == ASSUME MaxBytes \in Nat, TCPInv, [TCP!Next]_TCPVars PROVE TCPInv'
BY ClientActs, BackendActs, LoopActs, EventActs, UpActs, DownActs, RestActs DEF TCP!Next, TCP!Proxy
-----------------------------------------------------------------------------
(* Attach. What a request has of the streams, while it lives.              *)
AttachAssumption == None \notin Nat \cup {"open", "eof", "shut"} /\ Att!Log \notin Attacher

Streams == Att!Stream
RequestForms ==
    [pc : {"idle", "log", "out", "err", "jobs", "wait", "done"}, want : SUBSET (Streams \cup {"in"}),
     stream : BOOLEAN, jobs : SUBSET (Streams \cup {"in"}), conn : {"open", "fin", "gone", "cut"},
     run : Nat, log : [Streams -> Nat], from : [Streams -> Nat \cup {None}],
     upto : [Streams -> Nat], got : [Streams -> Nat],
     pipe : [Streams -> {None, "open", "eof", "shut"}]]
AttTypes ==
    /\ once \in BOOLEAN /\ starts \in Nat
    /\ written \in [Streams -> Nat] /\ logged = written
    /\ writers \in [Streams -> SUBSET (Attacher \cup {Att!Log})]
    /\ attachReq \in [Attacher -> RequestForms]
    /\ monitor = "run" => \A s \in Streams : Att!Log \in writers[s]

(* A stream that was not asked for, or has ended and was sent whole.       *)
SentOf(q, s) == s \in q.want => q.pipe[s] = "eof" /\ q.got[s] = q.upto[s]
Whole(q, o) ==
    /\ o => \E s \in Streams : SentOf(q, s)
    /\ "in" \notin q.want => \A s \in Streams : SentOf(q, s)
Careful(q, o) == o \/ "in" \notin q.want
Attached(q, w, o) ==
    /\ q.jobs \subseteq q.want
    /\ q.pc \in {"log", "out"} => q.jobs = {}
    /\ \A s \in Streams : q.log[s] <= w[s] /\ (q.from[s] # None => q.log[s] <= q.from[s])
    /\ q.pc \in {"idle", "log"} => \A s \in Streams : q.from[s] = None
    /\ q.pc \in {"idle", "log", "out", "err"} => q.conn # "cut"
    /\ q.pc \in {"idle", "log", "out"} => \A s \in Streams : q.pipe[s] = None
    /\ q.pc = "err" => q.pipe["out"] # "shut" /\ q.pipe["err"] = None
    /\ q.pc = "jobs" =>
          /\ Careful(q, o) => \A s \in Streams : q.pipe[s] # "shut"
          /\ \A s \in Streams \ q.jobs : SentOf(q, s)
    /\ q.conn = "cut" => "in" \in q.want /\ \E s \in Streams : SentOf(q, s)
    /\ q.pc \in {"wait", "done"} /\ q.stream /\ q.conn \in {"open", "cut"} => Whole(q, o)
Joined(r) == \A s \in Streams : r \in writers[s] => attachReq[r].pipe[s] \in {"open", "shut"}
AttInv == AttTypes /\ \A r \in Attacher : Attached(attachReq[r], written, once) /\ Joined(r)

LEMMA NewForm ==
    ASSUME NEW want, NEW pc, NEW b
    PROVE  /\ Att!NewRequest(want, pc, b).pc = pc /\ Att!NewRequest(want, pc, b).jobs = {}
           /\ Att!NewRequest(want, pc, b).conn = "open" /\ Att!NewRequest(want, pc, b).want = want
           /\ Att!NewRequest(want, pc, b).pipe = [s \in Streams |-> None]
           /\ Att!NewRequest(want, pc, b).from = [s \in Streams |-> None]
           /\ Att!NewRequest(want, pc, b).log = [s \in Streams |-> 0]
           /\ want \subseteq Streams \cup {"in"} /\ pc \in {"idle", "log", "out"} /\ b \in BOOLEAN =>
                 Att!NewRequest(want, pc, b) \in RequestForms
<1>1. PICK zero : zero = [s \in Streams |-> 0]
  OBVIOUS
<1>2. PICK none : none = [s \in Streams |-> None]
  OBVIOUS
<1>3. /\ zero \in [Streams -> Nat] /\ none \in [Streams -> Nat \cup {None}]
      /\ none \in [Streams -> {None, "open", "eof", "shut"}]
  BY <1>1, <1>2
<1>4. Att!NewRequest(want, pc, b) =
         [pc |-> pc, want |-> want, stream |-> b, jobs |-> {}, conn |-> "open", run |-> 0,
          log |-> zero, from |-> none, upto |-> zero, got |-> zero, pipe |-> none]
  BY <1>1, <1>2 DEF Att!NewRequest, Streams
<1>5. want \subseteq Streams \cup {"in"} /\ pc \in {"idle", "log", "out"} /\ b \in BOOLEAN =>
         Att!NewRequest(want, pc, b) \in RequestForms
  BY <1>3, <1>4 DEF RequestForms
<1> QED
  BY <1>1, <1>2, <1>4, <1>5

LEMMA IdleForm ==
    /\ Att!Idle \in RequestForms /\ Att!Idle.pc = "idle" /\ Att!Idle.jobs = {}
    /\ Att!Idle.conn = "open" /\ Att!Idle.want = {}
    /\ Att!Idle.pipe = [s \in Streams |-> None] /\ Att!Idle.from = [s \in Streams |-> None]
    /\ Att!Idle.log = [s \in Streams |-> 0]
<1>1. PICK zero : zero = [s \in Streams |-> 0]
  OBVIOUS
<1>2. PICK none : none = [s \in Streams |-> None]
  OBVIOUS
<1>3. /\ zero \in [Streams -> Nat] /\ none \in [Streams -> Nat \cup {None}]
      /\ none \in [Streams -> {None, "open", "eof", "shut"}]
  BY <1>1, <1>2
<1>4. Att!Idle =
         [pc |-> "idle", want |-> {}, stream |-> FALSE, jobs |-> {}, conn |-> "open", run |-> 0,
          log |-> zero, from |-> none, upto |-> zero, got |-> zero, pipe |-> none]
  BY <1>1, <1>2 DEF Att!Idle, Att!NewRequest, Streams
<1>5. Att!Idle \in RequestForms
  BY <1>3, <1>4 DEF RequestForms
<1> QED
  BY <1>1, <1>2, <1>4, <1>5

LEMMA AttInvBegins == ASSUME AttachAssumption PROVE Att!Init => AttInv
<1> SUFFICES ASSUME Att!Init PROVE AttInv
  OBVIOUS
<1>1. /\ once \in BOOLEAN /\ monitor = "stopped" /\ starts = 0
      /\ written = [s \in Streams |-> 0] /\ logged = written
      /\ writers = [s \in Streams |-> {}] /\ attachReq = [r \in Attacher |-> Att!Idle]
  BY DEF Att!Init, Streams
<1>2. PICK q : q = Att!Idle
  OBVIOUS
<1>2a. /\ q \in RequestForms /\ q.pc = "idle" /\ q.jobs = {} /\ q.conn = "open" /\ q.want = {}
       /\ \A s \in Streams : q.log[s] = 0 /\ q.from[s] = None /\ q.pipe[s] = None
  BY <1>2, IdleForm
<1>3. attachReq = [r \in Attacher |-> q]
  BY <1>1, <1>2
<1>4. AttTypes
  BY <1>1, <1>2a, <1>3 DEF AttTypes
<1>5. Attached(q, written, once)
  BY <1>1, <1>2a DEF Attached
<1> QED
  BY <1>1, <1>3, <1>4, <1>5 DEF AttInv, Joined

LEMMA AttInvSafe == AttInv => Att!AttachSafe
<1> SUFFICES ASSUME AttInv PROVE Att!AttachSafe
  OBVIOUS
<1>1. ASSUME NEW r \in Attacher PROVE attachReq[r] \in RequestForms /\ Attached(attachReq[r], written, once)
  BY DEF AttInv, AttTypes
<1>2. Att!NoLineTwice
  BY <1>1 DEF Att!NoLineTwice, Attached, Streams
<1>3. Att!AllSent
  BY <1>1 DEF Att!AllSent, Attached, Whole, SentOf, Att!Sent, Streams
<1> QED
  BY <1>2, <1>3 DEF AttInv, AttTypes, Att!AttachSafe, Att!LogIsWhole

(* A step of one request, to what it has to be.                            *)
LEMMA AttMoves ==
    ASSUME AttInv, NEW r \in Attacher, NEW q \in RequestForms,
           attachReq' = [attachReq EXCEPT ![r] = q],
           UNCHANGED <<once, monitor, starts, written, logged, writers>>,
           Attached(q, written, once), \A s \in Streams : r \in writers[s] => q.pipe[s] \in {"open", "shut"}
    PROVE  AttInv'
<1>1. /\ attachReq' \in [Attacher -> RequestForms] /\ attachReq'[r] = q
      /\ \A j \in Attacher \ {r} : attachReq'[j] = attachReq[j]
  BY DEF AttInv, AttTypes
<1>2. AttTypes'
  BY <1>1 DEF AttInv, AttTypes
<1>3. ASSUME NEW j \in Attacher PROVE Attached(attachReq'[j], written', once') /\ Joined(j)'
  <2>1. Attached(attachReq'[j], written', once')
    BY <1>1 DEF AttInv
  <2>2. Joined(j)'
    BY <1>1 DEF AttInv, Joined
  <2> QED
    BY <2>1, <2>2
<1> QED
  BY <1>2, <1>3 DEF AttInv

LEMMA AskStep == ASSUME AttachAssumption, AttInv, NEW r \in Attacher, Att!Ask(r) PROVE AttInv'
<1>1. PICK want \in SUBSET (Streams \cup {"in"}), pc \in {"log", "out"}, b \in BOOLEAN :
         attachReq' = [attachReq EXCEPT ![r] = Att!NewRequest(want, pc, b)]
  BY DEF Att!Ask, Streams
<1>2. attachReq[r] = Att!Idle /\ UNCHANGED <<once, monitor, starts, written, logged, writers>>
  BY DEF Att!Ask, Att!Container
<1>3. PICK q : q = Att!NewRequest(want, pc, b)
  OBVIOUS
<1>3a. /\ q \in RequestForms /\ q.pc = pc /\ q.jobs = {} /\ q.conn = "open" /\ q.want = want
       /\ \A s \in Streams : q.log[s] = 0 /\ q.from[s] = None /\ q.pipe[s] = None
  BY <1>3, NewForm
<1>4. Attached(q, written, once)
  BY <1>3a DEF Attached, AttInv, AttTypes
<1>5. \A s \in Streams : r \notin writers[s]
  <2>1. attachReq[r].pipe = [s \in Streams |-> None]
    BY <1>2, IdleForm
  <2> QED
    BY <2>1 DEF AttInv, Joined, AttachAssumption
<1> QED
  BY <1>1, <1>2, <1>3, <1>3a, <1>4, <1>5, AttMoves

LEMMA SendLogStep == ASSUME AttInv, NEW r \in Attacher, Att!SendLog(r) PROVE AttInv'
<1> DEFINE p == attachReq[r]
           sent == [s \in Streams |-> IF s \in p.want THEN logged[s] ELSE 0]
<1>1. /\ p.pc = "log" /\ UNCHANGED <<once, monitor, starts, written, logged, writers>>
      /\ attachReq' = [attachReq EXCEPT ![r].pc = IF p.stream THEN "out" ELSE "done", ![r].log = sent]
      /\ p \in RequestForms /\ Attached(p, written, once) /\ Joined(r)
  BY DEF Att!SendLog, Att!Present, Att!Container, AttInv, AttTypes, Streams
<1>2. sent \in [Streams -> Nat] /\ \A s \in Streams : sent[s] <= written[s]
  BY DEF AttInv, AttTypes
<1> HIDE DEF sent
<1>3. PICK q : q = [p EXCEPT !.pc = IF p.stream THEN "out" ELSE "done", !.log = sent]
  OBVIOUS
<1>4. /\ q \in RequestForms /\ q.pc = (IF p.stream THEN "out" ELSE "done") /\ q.log = sent
      /\ q.want = p.want /\ q.jobs = p.jobs /\ q.from = p.from /\ q.conn = p.conn
      /\ q.pipe = p.pipe /\ q.stream = p.stream
  BY <1>1, <1>2, <1>3 DEF RequestForms
<1>5. Attached(q, written, once)
  <2>1. \A s \in Streams : q.log[s] <= written[s] /\ q.from[s] = None /\ q.pipe[s] = p.pipe[s]
    BY <1>1, <1>2, <1>4 DEF Attached
  <2> QED
    BY <1>1, <1>4, <2>1 DEF Attached
<1>6. attachReq' = [attachReq EXCEPT ![r] = q]
  BY <1>1, <1>3 DEF AttInv, AttTypes
<1> QED
  BY <1>1, <1>4, <1>5, <1>6, AttMoves DEF Joined

LEMMA AddPipeStep ==
    ASSUME AttachAssumption, AttInv, NEW r \in Attacher, NEW s \in Streams, Att!AddPipe(r, s)
    PROVE  AttInv'
<1> DEFINE p == attachReq[r]
           pc == IF s = "out" THEN "err" ELSE "jobs"
           stdin == IF s = "out" THEN Att!Current ELSE p.run
           jobs == IF s = "err" THEN p.want ELSE {}
           n == written[s]
<1>1. /\ p.pc = s /\ UNCHANGED <<once, monitor, starts, written, logged>>
      /\ attachReq' = [attachReq EXCEPT ![r].run = stdin, ![r].pipe[s] = "open", ![r].pc = pc,
                         ![r].from[s] = n, ![r].upto[s] = n, ![r].got[s] = n, ![r].jobs = jobs]
      /\ writers' = [writers EXCEPT ![s] = writers[s] \cup {r}]
      /\ p \in RequestForms /\ Attached(p, written, once) /\ Joined(r) /\ n \in Nat
  BY DEF Att!AddPipe, Att!AddWriter, Att!Container, AttInv, AttTypes
<1>2. stdin \in Nat /\ pc \in {"err", "jobs"} /\ jobs \in SUBSET (Streams \cup {"in"}) /\ jobs \subseteq p.want
  BY <1>1 DEF AttInv, AttTypes, Att!Current, RequestForms
<1>3. PICK q : q = [p EXCEPT !.run = stdin, !.pipe[s] = "open", !.pc = pc,
                      !.from[s] = n, !.upto[s] = n, !.got[s] = n, !.jobs = jobs]
  OBVIOUS
<1> HIDE DEF stdin, pc, jobs, n
<1>4. /\ q \in RequestForms /\ q.pc = pc /\ q.jobs = jobs /\ q.pipe = [p.pipe EXCEPT ![s] = "open"]
      /\ q.from = [p.from EXCEPT ![s] = n] /\ q.log = p.log /\ q.want = p.want
      /\ q.conn = p.conn /\ q.stream = p.stream
  BY <1>1, <1>2, <1>3 DEF RequestForms
<1>5. /\ q.pipe[s] = "open" /\ q.from[s] = n
      /\ \A t \in Streams \ {s} : q.pipe[t] = p.pipe[t] /\ q.from[t] = p.from[t]
  BY <1>1, <1>4 DEF RequestForms
<1>6. Attached(q, written, once)
  <2>1. \A t \in Streams : q.log[t] <= written[t] /\ (q.from[t] # None => q.log[t] <= q.from[t])
    BY <1>1, <1>4, <1>5 DEF Attached, n
  <2>2. pc = "err" => q.pipe["out"] # "shut" /\ q.pipe["err"] = None
    BY <1>1, <1>4, <1>5 DEF Attached, pc, Streams, Att!Stream
  <2>3. pc = "jobs" =>
          /\ \A t \in Streams : q.pipe[t] # "shut"
          /\ \A t \in Streams \ q.jobs : SentOf(q, t)
    BY <1>1, <1>4, <1>5 DEF Attached, SentOf, pc, jobs, Streams, Att!Stream
  <2>4. q.conn # "cut"
    BY <1>1, <1>4 DEF Attached, Streams, Att!Stream
  <2> QED
    BY <1>2, <1>4, <2>1, <2>2, <2>3, <2>4 DEF Attached
<1>7. attachReq' = [attachReq EXCEPT ![r] = q]
  <2>1. DOMAIN attachReq = Attacher
    BY DEF AttInv, AttTypes
  <2>2. PICK h : h = [attachReq EXCEPT ![r].run = stdin, ![r].pipe[s] = "open", ![r].pc = pc,
                                       ![r].from[s] = n, ![r].upto[s] = n, ![r].got[s] = n]
    OBVIOUS
  <2>3. attachReq' = [h EXCEPT ![r].jobs = jobs]
    BY <1>1, <2>2
  <2>4. DOMAIN h = Attacher /\ \A x \in Attacher \ {r} : h[x] = attachReq[x]
    BY <2>1, <2>2
  <2>5. h[r] = [p EXCEPT !.run = stdin, !.pipe[s] = "open", !.pc = pc, !.from[s] = n, !.upto[s] = n,
                         !.got[s] = n]
    BY <2>1, <2>2
  <2>6. [h[r] EXCEPT !.jobs = jobs] = q
    BY <1>3, <2>5
  <2> QED
    BY <2>1, <2>3, <2>4, <2>6
<1>8. /\ attachReq' \in [Attacher -> RequestForms] /\ attachReq'[r] = q
      /\ \A j \in Attacher \ {r} : attachReq'[j] = attachReq[j]
  BY <1>4, <1>7 DEF AttInv, AttTypes
<1>9. /\ writers' \in [Streams -> SUBSET (Attacher \cup {Att!Log})]
      /\ writers'[s] = writers[s] \cup {r} /\ \A t \in Streams \ {s} : writers'[t] = writers[t]
  BY <1>1 DEF AttInv, AttTypes
<1>10. AttTypes'
  BY <1>1, <1>8, <1>9 DEF AttInv, AttTypes
<1>11. ASSUME NEW j \in Attacher PROVE Attached(attachReq'[j], written', once') /\ Joined(j)'
  <2>1. Attached(attachReq'[j], written', once')
    BY <1>1, <1>6, <1>8 DEF AttInv
  <2>2. ASSUME NEW t \in Streams, j \in writers'[t]
        PROVE  attachReq'[j].pipe[t] \in {"open", "shut"}
    <3>1. CASE j = r /\ t = s
      BY <1>5, <1>8, <3>1
    <3>2. CASE ~(j = r /\ t = s)
      <4>1. j \in writers[t]
        BY <1>9, <2>2, <3>2
      <4>2. attachReq[j].pipe[t] \in {"open", "shut"}
        BY <4>1 DEF AttInv, Joined
      <4>3. attachReq'[j].pipe[t] = attachReq[j].pipe[t]
        BY <1>5, <1>8, <3>2
      <4> QED
        BY <4>2, <4>3
    <3> QED
      BY <3>1, <3>2
  <2> QED
    BY <2>1, <2>2 DEF Joined
<1> QED
  BY <1>10, <1>11 DEF AttInv

LEMMA CopyStep ==
    ASSUME AttInv, NEW r \in Attacher, NEW s \in Streams, Att!Copy(r, s) PROVE AttInv'
<1> DEFINE p == attachReq[r]
<1>1. /\ p.pc = "jobs" /\ s \in p.jobs /\ p.got[s] < p.upto[s] /\ p.conn # "cut"
      /\ UNCHANGED <<once, monitor, starts, written, logged, writers>>
      /\ attachReq' = [attachReq EXCEPT ![r].got[s] = p.got[s] + 1]
      /\ p \in RequestForms /\ Attached(p, written, once) /\ Joined(r)
  BY DEF Att!Copy, Att!Jobs, Att!Up, Att!Container, AttInv, AttTypes
<1>2. PICK q : q = [p EXCEPT !.got[s] = p.got[s] + 1]
  OBVIOUS
<1>3. /\ q \in RequestForms /\ q.pc = p.pc /\ q.got = [p.got EXCEPT ![s] = p.got[s] + 1]
      /\ q.want = p.want /\ q.jobs = p.jobs /\ q.from = p.from /\ q.conn = p.conn
      /\ q.pipe = p.pipe /\ q.stream = p.stream /\ q.log = p.log /\ q.upto = p.upto
  BY <1>1, <1>2 DEF RequestForms
<1>4. \A t \in Streams \ q.jobs : q.got[t] = p.got[t]
  BY <1>1, <1>3 DEF RequestForms
<1>5. Attached(q, written, once)
  BY <1>1, <1>3, <1>4 DEF Attached, Careful, SentOf
<1>6. attachReq' = [attachReq EXCEPT ![r] = q]
  BY <1>1, <1>2 DEF AttInv, AttTypes
<1> QED
  BY <1>1, <1>3, <1>5, <1>6, AttMoves DEF Joined

(* What Shut leaves: a pipe that has ended stays as it is.                 *)
LEMMA ShutKeeps ==
    ASSUME AttInv, NEW r \in Attacher, NEW S \in SUBSET Streams
    PROVE  LET z == Att!Shut(r, S)
               p == attachReq[r]
           IN  /\ z \in [Streams -> {None, "open", "eof", "shut"}]
               /\ \A s \in Streams : /\ p.pipe[s] = "eof" => z[s] = "eof"
                                     /\ p.pipe[s] # "open" => z[s] = p.pipe[s]
                                     /\ p.pipe[s] = "open" => z[s] \in {"open", "shut"}
                                     /\ s \notin S => z[s] = p.pipe[s]
<1>1. attachReq[r] \in RequestForms
  BY DEF AttInv, AttTypes
<1> QED
  BY <1>1 DEF Att!Shut, RequestForms, Streams

(* A job of a stream that ends as it should.                               *)
LEMMA EndsStep ==
    ASSUME AttInv, NEW r \in Attacher, NEW s \in Streams, Att!CopyEnds(r, s) \/ Att!NopEnds(r, s)
    PROVE  AttInv'
<1> DEFINE p == attachReq[r]
<1>1. /\ p.pc = "jobs" /\ p.pipe[s] = "eof"
      /\ UNCHANGED <<once, monitor, starts, written, logged, writers>>
      /\ p \in RequestForms /\ Attached(p, written, once) /\ Joined(r)
  BY DEF Att!CopyEnds, Att!NopEnds, Att!Jobs, Att!Container, AttInv, AttTypes
<1>2. PICK jobs \in SUBSET (Streams \cup {"in"}), conn \in {"open", "fin", "gone", "cut"} :
         /\ attachReq' = [attachReq EXCEPT ![r].jobs = jobs, ![r].conn = conn]
         /\ conn = p.conn \/ (conn = "cut" /\ "in" \in p.want /\ p.conn # "gone")
         /\ jobs = p.jobs \/ jobs = p.jobs \ {s}
         /\ SentOf(p, s)
  <2>1. CASE Att!CopyEnds(r, s)
    <3>1. /\ attachReq' = [attachReq EXCEPT ![r].jobs = p.jobs \ {s}, ![r].conn = Att!Cut(r)]
          /\ p.got[s] = p.upto[s]
      BY <2>1 DEF Att!CopyEnds, Att!Drained
    <3>2. Att!Cut(r) = p.conn \/ (Att!Cut(r) = "cut" /\ "in" \in p.want /\ p.conn # "gone")
      BY DEF Att!Cut, Att!Up
    <3>3. p.jobs \in SUBSET (Streams \cup {"in"}) /\ p.conn \in {"open", "fin", "gone", "cut"}
      BY <1>1 DEF RequestForms
    <3> QED
      BY <1>1, <3>1, <3>2, <3>3 DEF SentOf
  <2>2. CASE Att!NopEnds(r, s)
    <3>1. /\ attachReq' = [attachReq EXCEPT ![r].conn = "cut"]
          /\ s \notin p.want /\ "in" \in p.want /\ p.conn # "gone"
      BY <2>2 DEF Att!NopEnds, Att!Up
    <3>2. p.jobs \in SUBSET (Streams \cup {"in"})
      BY <1>1 DEF RequestForms
    <3>3. attachReq' = [attachReq EXCEPT ![r].jobs = p.jobs, ![r].conn = "cut"]
      BY <1>1, <3>1 DEF AttInv, AttTypes, RequestForms
    <3> QED
      BY <3>1, <3>2, <3>3 DEF SentOf
  <2> QED
    BY <2>1, <2>2
<1>3. PICK q : q = [p EXCEPT !.jobs = jobs, !.conn = conn]
  OBVIOUS
<1>4. /\ q \in RequestForms /\ q.pc = p.pc /\ q.jobs = jobs /\ q.conn = conn
      /\ q.want = p.want /\ q.from = p.from /\ q.got = p.got
      /\ q.pipe = p.pipe /\ q.stream = p.stream /\ q.log = p.log /\ q.upto = p.upto
  BY <1>1, <1>3 DEF RequestForms
<1>5. Attached(q, written, once)
  <2>1. \A t \in Streams : SentOf(q, t) = SentOf(p, t)
    BY <1>4 DEF SentOf
  <2>2. \A t \in Streams \ q.jobs : SentOf(q, t)
    BY <1>1, <1>2, <1>4, <2>1 DEF Attached
  <2>3. q.conn = "cut" => "in" \in q.want /\ \E t \in Streams : SentOf(q, t)
    BY <1>1, <1>2, <1>4, <2>1 DEF Attached
  <2> QED
    BY <1>1, <1>2, <1>4, <2>2, <2>3 DEF Attached, Careful
<1>6. attachReq' = [attachReq EXCEPT ![r] = q]
  BY <1>1, <1>2, <1>3 DEF AttInv, AttTypes
<1> QED
  BY <1>1, <1>4, <1>5, <1>6, AttMoves DEF Joined

(* The request leaves Attach: all pipes of its streams are shut.           *)
LEMMA LeaveStep ==
    ASSUME AttInv, NEW r \in Attacher,
           Att!JobsDone(r) \/ \E s \in Streams : Att!CopyFails(r, s)
    PROVE  AttInv'
<1> DEFINE p == attachReq[r]
           z == Att!Shut(r, Streams)
<1>1. /\ p.pc = "jobs" /\ UNCHANGED <<once, monitor, starts, written, logged, writers>>
      /\ p \in RequestForms /\ Attached(p, written, once) /\ Joined(r) /\ Att!After \in {"wait", "done"}
  BY DEF Att!JobsDone, Att!CopyFails, Att!Jobs, Att!After, Att!Container, AttInv, AttTypes
<1>2. p.jobs \in SUBSET (Streams \cup {"in"}) /\ p.conn \in {"open", "fin", "gone", "cut"}
  BY <1>1 DEF RequestForms
<1>3. /\ z \in [Streams -> {None, "open", "eof", "shut"}]
      /\ \A s \in Streams : /\ p.pipe[s] = "eof" => z[s] = "eof"
                            /\ p.pipe[s] # "open" => z[s] = p.pipe[s]
                            /\ p.pipe[s] = "open" => z[s] \in {"open", "shut"}
  BY ShutKeeps
<1>4. PICK q \in RequestForms :
         /\ attachReq' = [attachReq EXCEPT ![r] = q]
         /\ q.pc = Att!After /\ q.pipe = z /\ q.jobs \subseteq p.jobs
         /\ q.want = p.want /\ q.from = p.from /\ q.got = p.got
         /\ q.stream = p.stream /\ q.log = p.log /\ q.upto = p.upto
         /\ q.conn = p.conn \/ (once /\ "in" \in p.want /\ q.conn = "cut")
         /\ \/ p.jobs = {} /\ q.conn = p.conn
            \/ p.conn \in {"gone", "cut"} /\ q.conn = p.conn
            \/ \E s \in Streams : p.pipe[s] = "shut"
  <2>2. CASE Att!JobsDone(r)
    <3>1. p.jobs = {} /\ attachReq' = [attachReq EXCEPT ![r].pc = Att!After, ![r].pipe = z]
      BY <2>2 DEF Att!JobsDone, Streams
    <3> HIDE DEF z
    <3>2. PICK q : q = [p EXCEPT !.pc = Att!After, !.pipe = z]
      OBVIOUS
    <3>3. /\ q \in RequestForms /\ q.pc = Att!After /\ q.pipe = z /\ q.jobs = p.jobs /\ q.conn = p.conn
          /\ q.want = p.want /\ q.from = p.from /\ q.got = p.got
          /\ q.stream = p.stream /\ q.log = p.log /\ q.upto = p.upto
      BY <1>1, <1>3, <3>2 DEF RequestForms
    <3>4. attachReq' = [attachReq EXCEPT ![r] = q]
      BY <1>1, <3>1, <3>2 DEF AttInv, AttTypes
    <3> QED
      BY <3>1, <3>3, <3>4
  <2>3. CASE \E s \in Streams : Att!CopyFails(r, s)
    <3>1. PICK s \in Streams : Att!CopyFails(r, s)
      BY <2>3
    <3>2. /\ attachReq' = [attachReq EXCEPT ![r].pc = Att!After, ![r].jobs = p.jobs \cap {"in"},
                             ![r].pipe = z, ![r].conn = Att!Cut(r)]
          /\ ~Att!Up(r) \/ p.pipe[s] = "shut"
      BY <3>1 DEF Att!CopyFails, Streams
    <3>3. /\ Att!Cut(r) = p.conn \/ (once /\ "in" \in p.want /\ Att!Cut(r) = "cut")
          /\ ~Att!Up(r) => Att!Cut(r) = p.conn /\ p.conn \in {"gone", "cut"}
      BY <1>2 DEF Att!Cut, Att!Up
    <3> HIDE DEF z
    <3>4. PICK q : q = [p EXCEPT !.pc = Att!After, !.jobs = p.jobs \cap {"in"}, !.pipe = z,
                                 !.conn = Att!Cut(r)]
      OBVIOUS
    <3>5. /\ q \in RequestForms /\ q.pc = Att!After /\ q.pipe = z /\ q.jobs = p.jobs \cap {"in"}
          /\ q.conn = Att!Cut(r)
          /\ q.want = p.want /\ q.from = p.from /\ q.got = p.got
          /\ q.stream = p.stream /\ q.log = p.log /\ q.upto = p.upto
      BY <1>1, <1>2, <1>3, <3>3, <3>4 DEF RequestForms
    <3>6. attachReq' = [attachReq EXCEPT ![r] = q]
      BY <1>1, <3>2, <3>4 DEF AttInv, AttTypes
    <3>7. q.jobs \subseteq p.jobs
      BY <3>5
    <3>8. \/ p.conn \in {"gone", "cut"} /\ q.conn = p.conn
          \/ \E t \in Streams : p.pipe[t] = "shut"
      BY <3>2, <3>3, <3>5
    <3>9. q.conn = p.conn \/ (once /\ "in" \in p.want /\ q.conn = "cut")
      BY <3>3, <3>5
    <3> QED
      BY <3>5, <3>6, <3>7, <3>8, <3>9
  <2> QED
    BY <2>2, <2>3, <1>1
<1> HIDE DEF z
<1>6. Attached(q, written, once)
  <2>1. \A t \in Streams : SentOf(p, t) => SentOf(q, t)
    BY <1>3, <1>4 DEF SentOf
  <2>2. Careful(p, once) => \A s \in Streams : p.pipe[s] # "shut"
    BY <1>1 DEF Attached
  <2>3. q.conn = "cut" => p.conn = "cut" \/ ~Careful(p, once) \/ p.jobs = {}
    BY <1>4, <2>2 DEF Careful
  <2>4. q.conn = "cut" => "in" \in q.want /\ \E t \in Streams : SentOf(q, t)
    <3>1. p.conn = "cut" => "in" \in q.want /\ \E t \in Streams : SentOf(q, t)
      BY <1>1, <1>4, <2>1 DEF Attached
    <3>2. q.conn = "cut" => p.conn = "cut"
      BY <1>4, <2>2 DEF Careful
    <3> QED
      BY <3>1, <3>2
  <2>5. p.jobs = {} => \A t \in Streams : SentOf(q, t)
    BY <1>1, <2>1 DEF Attached
  <2>6. q.conn \in {"open", "cut"} => Whole(q, once)
    <3>1. CASE p.jobs = {}
      BY <2>5, <3>1 DEF Whole, Streams, Att!Stream
    <3>2. CASE q.conn = "cut"
      BY <2>4, <3>2 DEF Whole
    <3>3. CASE \E s \in Streams : p.pipe[s] = "shut"
      BY <1>4, <2>2, <3>3 DEF Whole, Careful
    <3> QED
      BY <1>4, <3>1, <3>2, <3>3
  <2> QED
    BY <1>1, <1>2, <1>4, <2>4, <2>6 DEF Attached
<1>8. \A s \in Streams : r \in writers[s] => q.pipe[s] \in {"open", "shut"}
  BY <1>1, <1>3, <1>4 DEF Joined
<1> QED
  BY <1>1, <1>4, <1>6, <1>8, AttMoves

LEMMA StdinEndsStep == ASSUME AttInv, NEW r \in Attacher, Att!StdinEnds(r) PROVE AttInv'
<1> DEFINE p == attachReq[r]
<1>1. /\ p.pc \in {"jobs", "wait", "done"} /\ "in" \in p.jobs
      /\ UNCHANGED <<once, monitor, starts, written, logged, writers>>
      /\ p \in RequestForms /\ Attached(p, written, once) /\ Joined(r)
  BY DEF Att!StdinEnds, AttInv, AttTypes
<1>2. PICK S \in SUBSET Streams :
         /\ once => S = {}
         /\ attachReq' = [attachReq EXCEPT ![r].jobs = p.jobs \ {"in"}, ![r].pipe = Att!Shut(r, S)]
  BY DEF Att!StdinEnds, Streams
<1> DEFINE z == Att!Shut(r, S)
<1>3. /\ z \in [Streams -> {None, "open", "eof", "shut"}]
      /\ \A s \in Streams : /\ p.pipe[s] = "eof" => z[s] = "eof"
                            /\ p.pipe[s] # "open" => z[s] = p.pipe[s]
                            /\ p.pipe[s] = "open" => z[s] \in {"open", "shut"}
                            /\ s \notin S => z[s] = p.pipe[s]
  BY ShutKeeps
<1>4. "in" \in p.want /\ (Careful(p, once) => once)
  BY <1>1 DEF Attached, Careful
<1>5. Careful(p, once) => \A s \in Streams : z[s] = p.pipe[s]
  BY <1>2, <1>3, <1>4
<1>6. PICK q : q = [p EXCEPT !.jobs = p.jobs \ {"in"}, !.pipe = z]
  OBVIOUS
<1> HIDE DEF z
<1>7. /\ q \in RequestForms /\ q.pc = p.pc /\ q.jobs = p.jobs \ {"in"} /\ q.pipe = z
      /\ q.want = p.want /\ q.from = p.from /\ q.got = p.got /\ q.conn = p.conn
      /\ q.stream = p.stream /\ q.log = p.log /\ q.upto = p.upto
  BY <1>1, <1>3, <1>6 DEF RequestForms
<1>8. Attached(q, written, once)
  <2>1. \A t \in Streams : SentOf(p, t) => SentOf(q, t)
    BY <1>3, <1>7 DEF SentOf
  <2>2. p.pc = "jobs" =>
          /\ Careful(q, once) => \A s \in Streams : q.pipe[s] # "shut"
          /\ \A s \in Streams \ q.jobs : SentOf(q, s)
    BY <1>1, <1>5, <1>7, <2>1 DEF Attached, Careful, Streams, Att!Stream
  <2>3. Whole(p, once) => Whole(q, once)
    BY <1>7, <2>1 DEF Whole
  <2>4. q.conn = "cut" => "in" \in q.want /\ \E t \in Streams : SentOf(q, t)
    BY <1>1, <1>7, <2>1 DEF Attached
  <2> QED
    BY <1>1, <1>7, <2>2, <2>3, <2>4 DEF Attached
<1>9. attachReq' = [attachReq EXCEPT ![r] = q]
  BY <1>1, <1>2, <1>6 DEF AttInv, AttTypes, z
<1>10. \A s \in Streams : r \in writers[s] => q.pipe[s] \in {"open", "shut"}
  BY <1>1, <1>3, <1>7 DEF Joined
<1> QED
  BY <1>1, <1>7, <1>8, <1>9, <1>10, AttMoves

LEMMA ClientSideStep ==
    ASSUME AttInv, NEW r \in Attacher, Att!ClientSide(r) \/ Att!Waited(r) PROVE AttInv'
<1> DEFINE p == attachReq[r]
<1>1. /\ UNCHANGED <<once, monitor, starts, written, logged, writers>>
      /\ p \in RequestForms /\ Attached(p, written, once) /\ Joined(r)
  BY DEF Att!ClientSide, Att!Waited, Att!Container, AttInv, AttTypes
<1>2. CASE Att!ClientSide(r)
  <2>1. PICK conn \in {"fin", "gone"} :
           attachReq' = [attachReq EXCEPT ![r].conn = conn]
    BY <1>2 DEF Att!ClientSide
  <2>2. PICK q : q = [p EXCEPT !.conn = conn]
    OBVIOUS
  <2>3. /\ q \in RequestForms /\ q.pc = p.pc /\ q.jobs = p.jobs /\ q.pipe = p.pipe
        /\ q.want = p.want /\ q.from = p.from /\ q.got = p.got /\ q.conn = conn
        /\ q.stream = p.stream /\ q.log = p.log /\ q.upto = p.upto
    BY <1>1, <2>2 DEF RequestForms
  <2>4. Attached(q, written, once)
    BY <1>1, <2>3 DEF Attached, Careful, SentOf
  <2>5. attachReq' = [attachReq EXCEPT ![r] = q]
    BY <1>1, <2>1, <2>2 DEF AttInv, AttTypes
  <2> QED
    BY <1>1, <2>3, <2>4, <2>5, AttMoves DEF Joined
<1>3. CASE Att!Waited(r)
  <2>1. p.pc = "wait" /\ attachReq' = [attachReq EXCEPT ![r].pc = "done"]
    BY <1>3 DEF Att!Waited, Att!Goto
  <2>2. PICK q : q = [p EXCEPT !.pc = "done"]
    OBVIOUS
  <2>3. /\ q \in RequestForms /\ q.pc = "done" /\ q.jobs = p.jobs /\ q.pipe = p.pipe
        /\ q.want = p.want /\ q.from = p.from /\ q.got = p.got /\ q.conn = p.conn
        /\ q.stream = p.stream /\ q.log = p.log /\ q.upto = p.upto
    BY <1>1, <2>2 DEF RequestForms
  <2>4. Attached(q, written, once)
    BY <1>1, <2>1, <2>3 DEF Attached, Whole, SentOf
  <2>5. attachReq' = [attachReq EXCEPT ![r] = q]
    BY <1>1, <2>1, <2>2 DEF AttInv, AttTypes
  <2> QED
    BY <1>1, <2>3, <2>4, <2>5, AttMoves DEF Joined
<1> QED
  BY <1>2, <1>3

(* The container: a start, the end of the process, and its stdin.          *)
LEMMA ContainerStep ==
    ASSUME AttachAssumption, AttInv, Att!Start \/ Att!Exit \/ Att!CloseStdin \/ UNCHANGED AttVars
    PROVE  AttInv'
<1>1. /\ UNCHANGED <<once, written, logged, attachReq>> /\ starts' \in Nat
      /\ writers' \in [Streams -> SUBSET (Attacher \cup {Att!Log})]
      /\ \A r \in Attacher, s \in Streams : r \in writers'[s] => r \in writers[s]
      /\ monitor' = "run" => \A s \in Streams : Att!Log \in writers'[s]
  BY DEF Att!Start, Att!Exit, Att!CloseStdin, AttVars, AttInv, AttTypes, AttachAssumption, Streams
<1>2. AttTypes'
  BY <1>1 DEF AttInv, AttTypes
<1>3. ASSUME NEW j \in Attacher PROVE Attached(attachReq'[j], written', once') /\ Joined(j)'
  BY <1>1 DEF AttInv, Joined
<1> QED
  BY <1>2, <1>3 DEF AttInv

LEMMA WriteStep ==
    ASSUME AttachAssumption, AttInv, NEW s \in Streams, Att!Write(s) PROVE AttInv'
<1> DEFINE E == Att!Evict(s)
<1>1. /\ monitor = "run" /\ UNCHANGED <<once, monitor, starts>>
      /\ written' = [written EXCEPT ![s] = written[s] + 1]
      /\ writers' = [writers EXCEPT ![s] = E]
      /\ logged' = [logged EXCEPT ![s] = IF Att!Log \in writers[s] THEN logged[s] + 1 ELSE logged[s]]
      /\ attachReq' = [r \in Attacher |-> IF r \in E THEN [attachReq[r] EXCEPT !.upto[s] = @ + 1]
                                         ELSE attachReq[r]]
  BY DEF Att!Write
<1>2. /\ E \subseteq writers[s] /\ Att!Log \in E
      /\ \A r \in Attacher : r \in E => attachReq[r].pipe[s] # "shut" \/ attachReq[r].pc = "idle"
  BY <1>1 DEF Att!Evict, Att!Failed, AttInv, AttTypes, AttachAssumption
<1> HIDE DEF E
<1>2a. written \in [Streams -> Nat] /\ logged = written /\ Att!Log \in writers[s]
  BY <1>2, <1>1 DEF AttInv, AttTypes
<1>2b. logged' = [logged EXCEPT ![s] = logged[s] + 1]
  BY <1>1, <1>2a
<1>3. /\ written' \in [Streams -> Nat] /\ logged' = written'
      /\ \A t \in Streams : written[t] <= written'[t]
  BY <1>1, <1>2a, <1>2b
<1>4. /\ writers' \in [Streams -> SUBSET (Attacher \cup {Att!Log})]
      /\ \A t \in Streams : writers'[t] \subseteq writers[t] /\ Att!Log \in writers'[t]
  BY <1>1, <1>2 DEF AttInv, AttTypes
<1>5. ASSUME NEW r \in Attacher
      PROVE  attachReq'[r] \in RequestForms /\ Attached(attachReq'[r], written', once') /\ Joined(r)'
  <2> DEFINE p == attachReq[r]
  <2>1. p \in RequestForms /\ Attached(p, written, once) /\ Joined(r)
    BY DEF AttInv, AttTypes
  <2>2. CASE r \notin E
    <3>1. attachReq'[r] = p
      BY <1>1, <2>2
    <3>2. \A t \in Streams : p.log[t] <= written'[t]
      BY <1>3, <2>1 DEF Attached, RequestForms, AttInv, AttTypes
    <3>3. Attached(attachReq'[r], written', once')
      BY <1>1, <2>1, <3>1, <3>2 DEF Attached
    <3> QED
      BY <1>4, <2>1, <3>1, <3>3 DEF Joined
  <2>3. CASE r \in E
    <3>1. PICK q : q = [p EXCEPT !.upto[s] = p.upto[s] + 1]
      OBVIOUS
    <3>2. /\ q \in RequestForms /\ q.pc = p.pc /\ q.jobs = p.jobs /\ q.pipe = p.pipe
          /\ q.want = p.want /\ q.from = p.from /\ q.got = p.got /\ q.conn = p.conn
          /\ q.stream = p.stream /\ q.log = p.log
          /\ \A t \in Streams \ {s} : q.upto[t] = p.upto[t]
      BY <2>1, <3>1 DEF RequestForms
    <3>3. attachReq'[r] = q
      BY <1>1, <2>3, <3>1
    <3>4. p.pipe[s] \in {"open", "shut"}
      BY <1>2, <2>1, <2>3 DEF Joined
    <3>5. \A t \in Streams : SentOf(p, t) => SentOf(q, t)
      BY <3>2, <3>4 DEF SentOf
    <3>6. \A t \in Streams : p.log[t] <= written'[t]
      BY <1>3, <2>1 DEF Attached, RequestForms, AttInv, AttTypes
    <3>7. Whole(p, once) => Whole(q, once)
      BY <3>2, <3>5 DEF Whole
    <3>8. q.pc = "jobs" =>
             /\ Careful(q, once) => \A t \in Streams : q.pipe[t] # "shut"
             /\ \A t \in Streams \ q.jobs : SentOf(q, t)
      BY <2>1, <3>2, <3>5 DEF Attached, Careful
    <3>9. q.conn = "cut" => "in" \in q.want /\ \E t \in Streams : SentOf(q, t)
      BY <2>1, <3>2, <3>5 DEF Attached
    <3>10. \A t \in Streams : q.log[t] <= written'[t] /\ (q.from[t] # None => q.log[t] <= q.from[t])
      BY <2>1, <3>2, <3>6 DEF Attached
    <3>11. Attached(attachReq'[r], written', once')
      <4>1. /\ q.pc \in {"wait", "done"} /\ q.stream /\ q.conn \in {"open", "cut"} => Whole(q, once)
            /\ q.jobs \subseteq q.want
            /\ q.pc \in {"log", "out"} => q.jobs = {}
            /\ q.pc \in {"idle", "log"} => \A t \in Streams : q.from[t] = None
            /\ q.pc \in {"idle", "log", "out", "err"} => q.conn # "cut"
            /\ q.pc \in {"idle", "log", "out"} => \A t \in Streams : q.pipe[t] = None
            /\ q.pc = "err" => q.pipe["out"] # "shut" /\ q.pipe["err"] = None
        BY <2>1, <3>2, <3>7 DEF Attached
      <4>2. Attached(q, written', once)
        BY <3>8, <3>9, <3>10, <4>1 DEF Attached
      <4> QED
        BY <1>1, <3>3, <4>2
    <3> QED
      BY <1>4, <2>1, <3>2, <3>3, <3>11 DEF Joined
  <2> QED
    BY <2>2, <2>3
<1>6. attachReq' \in [Attacher -> RequestForms]
  BY <1>1, <1>5
<1>7. AttTypes'
  BY <1>1, <1>3, <1>4, <1>6 DEF AttInv, AttTypes
<1> QED
  BY <1>5, <1>7 DEF AttInv

LEMMA CloseWritersStep ==
    ASSUME AttachAssumption, AttInv, NEW s \in Streams, Att!CloseWriters(s) PROVE AttInv'
<1>1. /\ UNCHANGED <<once, starts, written, logged>> /\ monitor' # "run"
      /\ writers' = [writers EXCEPT ![s] = {}]
      /\ attachReq' = [r \in Attacher |-> IF r \in writers[s]
                         THEN [attachReq[r] EXCEPT !.pipe[s] = Att!Closed(@)] ELSE attachReq[r]]
  BY DEF Att!CloseWriters
<1>2. /\ writers' \in [Streams -> SUBSET (Attacher \cup {Att!Log})]
      /\ writers'[s] = {} /\ \A t \in Streams \ {s} : writers'[t] = writers[t]
  BY <1>1 DEF AttInv, AttTypes
<1>3. ASSUME NEW r \in Attacher
      PROVE  attachReq'[r] \in RequestForms /\ Attached(attachReq'[r], written', once') /\ Joined(r)'
  <2> DEFINE p == attachReq[r]
  <2>1. p \in RequestForms /\ Attached(p, written, once) /\ Joined(r)
    BY DEF AttInv, AttTypes
  <2>2. CASE r \notin writers[s]
    <3>1. attachReq'[r] = p
      BY <1>1, <2>2
    <3>2. Attached(attachReq'[r], written', once')
      BY <1>1, <2>1, <3>1
    <3> QED
      BY <1>2, <2>1, <3>1, <3>2 DEF Joined
  <2>3. CASE r \in writers[s]
    <3>1. PICK q : q = [p EXCEPT !.pipe[s] = Att!Closed(p.pipe[s])]
      OBVIOUS
    <3>2. p.pipe[s] \in {"open", "shut"} /\ Att!Closed(p.pipe[s]) \in {"eof", "shut"}
          /\ (Att!Closed(p.pipe[s]) = "shut" => p.pipe[s] = "shut")
      BY <2>1, <2>3 DEF Joined, Att!Closed
    <3>3. /\ q \in RequestForms /\ q.pc = p.pc /\ q.jobs = p.jobs
          /\ q.want = p.want /\ q.from = p.from /\ q.got = p.got /\ q.conn = p.conn
          /\ q.stream = p.stream /\ q.log = p.log /\ q.upto = p.upto
          /\ q.pipe[s] = Att!Closed(p.pipe[s])
          /\ \A t \in Streams \ {s} : q.pipe[t] = p.pipe[t]
      BY <2>1, <3>1, <3>2 DEF RequestForms
    <3>4. attachReq'[r] = q
      BY <1>1, <2>3, <3>1
    <3>5. \A t \in Streams : /\ SentOf(p, t) => SentOf(q, t)
                             /\ q.pipe[t] = "shut" => p.pipe[t] = "shut"
                             /\ p.pipe[t] = None => q.pipe[t] = None
      BY <3>2, <3>3 DEF SentOf, AttachAssumption
    <3>6. Whole(p, once) => Whole(q, once)
      BY <3>3, <3>5 DEF Whole
    <3>7. q.pc = "jobs" =>
             /\ Careful(q, once) => \A t \in Streams : q.pipe[t] # "shut"
             /\ \A t \in Streams \ q.jobs : SentOf(q, t)
      BY <2>1, <3>3, <3>5 DEF Attached, Careful
    <3>8. q.conn = "cut" => "in" \in q.want /\ \E t \in Streams : SentOf(q, t)
      BY <2>1, <3>3, <3>5 DEF Attached
    <3>9. q.pc \in {"idle", "log", "out"} => \A t \in Streams : q.pipe[t] = None
      BY <2>1, <3>3, <3>5 DEF Attached
    <3>10. q.pc = "err" => q.pipe["out"] # "shut" /\ q.pipe["err"] = None
      BY <2>1, <3>3, <3>5 DEF Attached, Streams, Att!Stream
    <3>11. Attached(attachReq'[r], written', once')
      <4>1. /\ q.pc \in {"wait", "done"} /\ q.stream /\ q.conn \in {"open", "cut"} => Whole(q, once)
            /\ q.jobs \subseteq q.want
            /\ q.pc \in {"log", "out"} => q.jobs = {}
            /\ \A t \in Streams : q.log[t] <= written[t] /\ (q.from[t] # None => q.log[t] <= q.from[t])
            /\ q.pc \in {"idle", "log"} => \A t \in Streams : q.from[t] = None
            /\ q.pc \in {"idle", "log", "out", "err"} => q.conn # "cut"
        BY <2>1, <3>3, <3>6 DEF Attached
      <4>2. Attached(q, written, once)
        BY <3>7, <3>8, <3>9, <3>10, <4>1 DEF Attached
      <4> QED
        BY <1>1, <3>4, <4>2
    <3> QED
      BY <1>2, <2>1, <3>3, <3>4, <3>11 DEF Joined
  <2> QED
    BY <2>2, <2>3
<1>4. attachReq' \in [Attacher -> RequestForms]
  BY <1>1, <1>3
<1>5. AttTypes'
  BY <1>1, <1>2, <1>4 DEF AttInv, AttTypes
<1> QED
  BY <1>3, <1>5 DEF AttInv

LEMMA AttInvStep == ASSUME AttachAssumption, AttInv, [Att!Next]_AttVars PROVE AttInv'
<1>1. CASE Att!Next
  BY <1>1, ContainerStep, WriteStep, CloseWritersStep, AskStep, SendLogStep, AddPipeStep, CopyStep,
     EndsStep, LeaveStep, StdinEndsStep, ClientSideStep DEF Att!Next, Att!Monitor, Att!Job, Streams
<1>2. CASE UNCHANGED AttVars
  BY <1>2, ContainerStep
<1> QED
  BY <1>1, <1>2
-----------------------------------------------------------------------------
(* Events.                                                                 *)
(* Sequences that may repeat one of their elements, once.                  *)
Rising(s) == \A j, k \in DOMAIN s : j < k => s[j] <= s[k]
Repeats(s) == {k \in DOMAIN s : k + 1 \in DOMAIN s /\ s[k] = s[k + 1]}
RepeatsOnce(s) == \A j, k \in Repeats(s) : j = k
UpTo(s, n) == \A k \in DOMAIN s : s[k] <= n
Below(s, n) == \A k \in DOMAIN s : s[k] < n

LEMMA Lengthened ==
    ASSUME NEW s \in Seq(Nat), NEW e \in Nat, Rising(s), RepeatsOnce(s), UpTo(s, e),
           Repeats(s) # {} => Below(s, e)
    PROVE  LET t == Append(s, e)
           IN  /\ t \in Seq(Nat) /\ Rising(t) /\ RepeatsOnce(t) /\ UpTo(t, e)
               /\ Below(s, e) => Repeats(t) = Repeats(s)
<1> DEFINE t == Append(s, e)
<1>1. /\ t \in Seq(Nat) /\ Len(s) \in Nat /\ DOMAIN s = 1 .. Len(s) /\ DOMAIN t = 1 .. (Len(s) + 1)
      /\ \A k \in 1 .. Len(s) : t[k] = s[k] /\ s[k] \in Nat
      /\ t[Len(s) + 1] = e
  OBVIOUS
<1> HIDE DEF t
<1>2. Rising(t) /\ UpTo(t, e)
  BY <1>1 DEF Rising, UpTo
<1>3. \A k \in Repeats(t) : k \in Repeats(s) \/ (k = Len(s) /\ k \in DOMAIN s /\ s[k] = e)
  BY <1>1 DEF Repeats
<1>4. Below(s, e) => Repeats(t) = Repeats(s)
  <2>1. Repeats(s) \subseteq Repeats(t)
    BY <1>1 DEF Repeats
  <2>2. ASSUME Below(s, e) PROVE Repeats(t) \subseteq Repeats(s)
    BY <1>1, <1>3, <2>2 DEF Below
  <2> QED
    BY <2>1, <2>2
<1>5. RepeatsOnce(t)
  <2>1. CASE Below(s, e)
    BY <1>4, <2>1 DEF RepeatsOnce
  <2>2. CASE ~Below(s, e)
    <3>1. \A k \in Repeats(t) : k = Len(s)
      BY <1>3, <2>2
    <3> QED
      BY <3>1 DEF RepeatsOnce
  <2> QED
    BY <2>1, <2>2
<1> QED
  BY <1>1, <1>2, <1>4, <1>5 DEF t

LEMMA EvCount == \A S : Ev!Cardinality(S) = Cardinality(S)
BY DEF Ev!Cardinality, Cardinality

LEMMA FewTwice ==
    ASSUME NEW s \in Seq(Nat), Rising(s), RepeatsOnce(s)
    PROVE  Ev!Cardinality(Ev!ToSet(s)) >= Len(s) - 1
<1> DEFINE n == Len(s)
           T == {s[k] : k \in 1 .. n}
<1>1. n \in Nat /\ DOMAIN s = 1 .. n /\ Ev!ToSet(s) = T /\ \A k \in 1 .. n : s[k] \in Nat
  BY DEF Ev!ToSet
<1>2. IsFiniteSet(1 .. n) /\ Cardinality(1 .. n) = n
  BY <1>1, FS_Interval
<1>3. IsFiniteSet(T) /\ Cardinality(T) \in Nat
  <2>1. [k \in 1 .. n |-> s[k]] \in Surjection(1 .. n, T)
    BY DEF Surjection
  <2> QED
    BY <1>2, <2>1, FS_Surjection, FS_CardinalityType
<1>4. PICK d \in 1 .. n + 1 : Repeats(s) \subseteq {d}
  <2>1. CASE Repeats(s) = {}
    BY <1>1, <2>1
  <2>2. CASE Repeats(s) # {}
    BY <1>1, <2>2 DEF RepeatsOnce, Repeats
  <2> QED
    BY <2>1, <2>2
<1> DEFINE D == (1 .. n) \ {d}
           f == [k \in D |-> s[k]]
<1>5. f \in Injection(D, T)
  <2>1. ASSUME NEW j \in D, NEW k \in D, j < k PROVE s[j] # s[k]
    <3>1. SUFFICES ASSUME s[j] = s[k] PROVE FALSE
      OBVIOUS
    <3>2. /\ j \in DOMAIN s /\ k \in DOMAIN s /\ j + 1 \in DOMAIN s
          /\ s[j] \in Nat /\ s[j + 1] \in Nat
          /\ (j + 1 = k \/ j + 1 < k) /\ j < j + 1
      BY <1>1, <2>1
    <3>3. s[j] <= s[j + 1] /\ s[j + 1] <= s[k]
      BY <3>2 DEF Rising
    <3>4. s[j] = s[j + 1]
      BY <3>1, <3>2, <3>3
    <3> QED
      BY <1>4, <3>2, <3>4 DEF Repeats
  <2>2. \A j, k \in D : f[j] = f[k] => j = k
    BY <1>1, <2>1
  <2>3. f \in [D -> T]
    OBVIOUS
  <2> QED
    BY <2>2, <2>3 DEF Injection, IsInjective
<1>6. IsFiniteSet(D) /\ Cardinality(D) <= Cardinality(T)
  <2> HIDE DEF f, D, T
  <2> QED
    BY <1>3, <1>5, FS_Injection
<1>7. Cardinality(D) >= n - 1
  <2> n \in Nat
    BY <1>1
  <2> HIDE DEF n
  <2>1. Cardinality((1 .. n) \ {d}) = IF d \in 1 .. n THEN Cardinality(1 .. n) - 1 ELSE Cardinality(1 .. n)
    BY <1>2, FS_RemoveElement
  <2> QED
    BY <1>2, <2>1
<1>8. Cardinality(D) \in Nat
  BY <1>6, FS_CardinalityType
<1> HIDE DEF D, T, n
<1>9. n \in Nat
  BY <1>1
<1> QED
  BY <1>1, <1>3, <1>6, <1>7, <1>8, <1>9, EvCount DEF n

-----------------------------------------------------------------------------
(* Events. One LogEvent at a time: what it read of the list still holds.   *)
LoggerForms ==
    {Ev!Out} \cup [pc : {"append"}, event : Nat, old : Seq(Nat), todo : SUBSET Listener]
             \cup [pc : {"offer"}, event : Nat, todo : SUBSET Listener]
GetForms ==
    [pc : {"none", "since", "live", "gone"}] \cup [pc : {"replay"}, rest : Seq(Nat)]
        \cup [pc : {"send"}, event : Nat]
EvTypes ==
    /\ eventsEvents \in Seq(Nat) /\ eventsBegun \in Nat
    /\ logger \in [Logger -> LoggerForms] /\ get \in [Listener -> GetForms]
    /\ seen \in [Listener -> Seq(Nat)]
OneLogs == \A g, h \in Logger : logger[g] # Ev!Out /\ logger[h] # Ev!Out => g = h
Last == Len(eventsEvents)
ListHolds ==
    /\ \A k \in 1 .. Last : eventsEvents[k] = k
    /\ (\A g \in Logger : logger[g] = Ev!Out) => eventsBegun = Last
    /\ \A g \in Logger :
          /\ logger[g].pc = "append" => /\ logger[g].old = eventsEvents
                                        /\ logger[g].event = Last + 1 /\ eventsBegun = Last + 1
          /\ logger[g].pc = "offer" => logger[g].event = Last /\ eventsBegun = Last

(* What a client has got, and what it is to get next: the last event of    *)
(* the list is offered to one that may have had it, all others come later  *)
(* than those it has.                                                      *)
Offered(l) == \E g \in Logger : logger[g].pc = "offer" /\ l \in logger[g].todo
SeenSoFar(l) ==
    /\ Rising(seen[l]) /\ RepeatsOnce(seen[l]) /\ UpTo(seen[l], Last)
    /\ get[l].pc \in {"none", "since"} => seen[l] = <<>>
    /\ get[l].pc = "replay" =>
          /\ Repeats(seen[l]) = {}
          /\ \E t \in Nat : /\ UpTo(seen[l], t) /\ t + Len(get[l].rest) <= Last
                            /\ \A k \in DOMAIN get[l].rest : get[l].rest[k] = t + k
    /\ get[l].pc = "live" => (Repeats(seen[l]) # {} /\ Offered(l) => Below(seen[l], Last))
    /\ get[l].pc = "send" =>
          /\ get[l].event <= Last /\ UpTo(seen[l], get[l].event)
          /\ Repeats(seen[l]) # {} => Below(seen[l], get[l].event)
          /\ Offered(l) => get[l].event < Last
EvInv ==
    EvTypes /\ OneLogs /\ ListHolds /\ Ev!ListenersServed /\ \A l \in Listener : SeenSoFar(l)

LEMMA EvInvBegins == Ev!Init => EvInv
<1> SUFFICES ASSUME Ev!Init PROVE EvInv
  OBVIOUS
<1>1. /\ eventsEvents = <<>> /\ eventsBegun = 0 /\ listeners = {}
      /\ logger = [g \in Logger |-> Ev!Out]
      /\ get = [l \in Listener |-> [pc |-> "none"]] /\ seen = [l \in Listener |-> <<>>]
  BY DEF Ev!Init
<1>2. Ev!Out.pc = "out"
  BY DEF Ev!Out
<1>3. EvTypes
  <2>1. logger \in [Logger -> LoggerForms]
    BY <1>1 DEF LoggerForms
  <2>2. get \in [Listener -> GetForms]
    BY <1>1 DEF GetForms
  <2> QED
    BY <1>1, <2>1, <2>2 DEF EvTypes
<1>4. OneLogs /\ ListHolds
  BY <1>1, <1>2 DEF OneLogs, ListHolds, Last
<1>5. Ev!ListenersServed
  BY <1>1 DEF Ev!ListenersServed
<1>6. ASSUME NEW l \in Listener PROVE SeenSoFar(l)
  BY <1>1 DEF SeenSoFar, Rising, RepeatsOnce, Repeats, UpTo
<1> QED
  BY <1>3, <1>4, <1>5, <1>6 DEF EvInv

LEMMA EvInvSafe == EvInv => Ev!EventsSafe
<1> SUFFICES ASSUME EvInv PROVE Ev!EventsSafe
  OBVIOUS
<1>1. \A k \in DOMAIN eventsEvents : eventsEvents[k] = k
  BY DEF EvInv, EvTypes, ListHolds, Last
<1>2. ASSUME NEW l \in Listener
      PROVE  /\ \A j, k \in DOMAIN seen[l] : j < k => seen[l][j] <= seen[l][k]
             /\ Ev!Cardinality(Ev!ToSet(seen[l])) >= Len(seen[l]) - 1
  <2>1. seen[l] \in Seq(Nat) /\ Rising(seen[l]) /\ RepeatsOnce(seen[l])
    BY DEF EvInv, EvTypes, SeenSoFar
  <2> QED
    BY <2>1, FewTwice DEF Rising
<1> QED
  BY <1>1, <1>2 DEF EvInv, Ev!EventsSafe, Ev!InOrder

LEMMA LoggerShape ==
    ASSUME NEW x \in LoggerForms
    PROVE  /\ x.pc \in {"out", "append", "offer"}
           /\ x.pc = "out" <=> x = Ev!Out
           /\ x.pc # "out" => x.event \in Nat
BY DEF LoggerForms, Ev!Out

LEMMA GetShape ==
    ASSUME NEW x \in GetForms
    PROVE  /\ x.pc \in {"none", "since", "live", "gone", "replay", "send"}
           /\ x.pc = "replay" => x.rest \in Seq(Nat)
           /\ x.pc = "send" => x.event \in Nat
BY DEF GetForms

(* A step of one logger, while the others do nothing.                      *)
LEMMA LoggerMoves ==
    ASSUME EvInv, NEW g \in Logger, NEW x \in LoggerForms,
           \A h \in Logger \ {g} : logger[h] = Ev!Out, logger' = [logger EXCEPT ![g] = x]
    PROVE  /\ logger' \in [Logger -> LoggerForms] /\ OneLogs'
           /\ logger'[g] = x
           /\ \A h \in Logger \ {g} : logger'[h] = Ev!Out /\ logger'[h].pc = "out"
<1>1. /\ logger' \in [Logger -> LoggerForms] /\ logger'[g] = x
      /\ \A h \in Logger \ {g} : logger'[h] = Ev!Out
  BY DEF EvInv, EvTypes
<1>2. Ev!Out.pc = "out"
  BY DEF Ev!Out
<1> QED
  BY <1>1, <1>2 DEF OneLogs

(* A listener that neither gets anything nor is offered anything new.      *)
LEMMA SeenStays ==
    ASSUME NEW l \in Listener, SeenSoFar(l), get'[l] = get[l], seen'[l] = seen[l],
           eventsEvents' = eventsEvents, Offered(l)' => Offered(l)
    PROVE  SeenSoFar(l)'
BY DEF SeenSoFar, Last

LEMMA LogEventStep == ASSUME EvInv, NEW g \in Logger, Ev!LogEvent(g) PROVE EvInv'
<1> DEFINE x == [pc |-> "append", event |-> eventsBegun + 1, old |-> eventsEvents, todo |-> {}]
<1>1. /\ \A h \in Logger : logger[h] = Ev!Out
      /\ eventsBegun' = eventsBegun + 1 /\ logger' = [logger EXCEPT ![g] = x]
      /\ UNCHANGED <<eventsEvents, listeners, get, seen>>
  BY DEF Ev!LogEvent
<1>2. /\ x \in LoggerForms /\ x.pc = "append" /\ x.event = eventsBegun + 1 /\ x.old = eventsEvents
      /\ x # Ev!Out /\ eventsBegun = Last /\ eventsBegun \in Nat
  BY <1>1 DEF EvInv, EvTypes, LoggerForms, ListHolds, Ev!Out
<1> HIDE DEF x
<1>3. /\ logger' \in [Logger -> LoggerForms] /\ OneLogs' /\ logger'[g] = x
      /\ \A h \in Logger \ {g} : logger'[h] = Ev!Out /\ logger'[h].pc = "out"
  BY <1>1, <1>2, LoggerMoves
<1>4. EvTypes'
  BY <1>1, <1>3 DEF EvInv, EvTypes
<1>5. ListHolds'
  BY <1>1, <1>2, <1>3 DEF EvInv, ListHolds, Last
<1>6. Ev!ListenersServed'
  BY <1>1 DEF EvInv, Ev!ListenersServed
<1>7. ASSUME NEW l \in Listener PROVE SeenSoFar(l)'
  <2>1. ~Offered(l)'
    BY <1>2, <1>3 DEF Offered
  <2> QED
    BY <1>1, <2>1, SeenStays DEF EvInv
<1> QED
  BY <1>3, <1>4, <1>5, <1>6, <1>7 DEF EvInv

LEMMA AppendStep == ASSUME EvInv, NEW g \in Logger, Ev!Append1(g) PROVE EvInv'
<1> DEFINE x == [pc |-> "offer", event |-> logger[g].event, todo |-> listeners]
<1>1. /\ logger[g].pc = "append"
      /\ eventsEvents' = Append(logger[g].old, logger[g].event)
      /\ logger' = [logger EXCEPT ![g] = x]
      /\ UNCHANGED <<eventsBegun, listeners, get, seen>>
  BY DEF Ev!Append1
<1>2. /\ logger[g] \in LoggerForms /\ logger[g] # Ev!Out
      /\ logger[g].event = Last + 1 /\ logger[g].old = eventsEvents /\ eventsBegun = Last + 1
      /\ Last \in Nat
  BY <1>1 DEF EvInv, EvTypes, ListHolds, Last, Ev!Out
<1>3. listeners \subseteq Listener
  BY DEF EvInv, Ev!ListenersServed
<1>4. /\ x \in LoggerForms /\ x.pc = "offer" /\ x.event = Last + 1 /\ x.todo = listeners
      /\ x # Ev!Out
  BY <1>2, <1>3 DEF LoggerForms, Ev!Out
<1> HIDE DEF x
<1>5. \A h \in Logger \ {g} : logger[h] = Ev!Out
  BY <1>2 DEF EvInv, OneLogs
<1>6. /\ logger' \in [Logger -> LoggerForms] /\ OneLogs' /\ logger'[g] = x
      /\ \A h \in Logger \ {g} : logger'[h] = Ev!Out /\ logger'[h].pc = "out"
  BY <1>1, <1>4, <1>5, LoggerMoves
<1>7. /\ eventsEvents' = Append(eventsEvents, Last + 1) /\ Last' = Last + 1
      /\ eventsEvents' \in Seq(Nat)
  BY <1>1, <1>2 DEF EvInv, EvTypes, Last
<1>8. EvTypes'
  BY <1>1, <1>6, <1>7 DEF EvInv, EvTypes
<1>9. ListHolds'
  <2>1. \A k \in 1 .. Last' : eventsEvents'[k] = k
    BY <1>2, <1>7 DEF EvInv, EvTypes, ListHolds, Last
  <2>2. eventsBegun' = Last'
    BY <1>1, <1>2, <1>7
  <2> QED
    BY <1>4, <1>6, <1>7, <2>1, <2>2 DEF ListHolds
<1>10. Ev!ListenersServed'
  BY <1>1 DEF EvInv, Ev!ListenersServed
<1>11. ASSUME NEW l \in Listener PROVE SeenSoFar(l)'
  <2>1. /\ SeenSoFar(l) /\ seen'[l] = seen[l] /\ get'[l] = get[l] /\ seen[l] \in Seq(Nat)
        /\ get[l] \in GetForms
    BY <1>1 DEF EvInv, EvTypes
  <2>2. UpTo(seen[l], Last') /\ Below(seen[l], Last')
    BY <1>2, <1>7, <2>1 DEF SeenSoFar, UpTo, Below
  <2>3. get[l].pc = "replay" => \A t \in Nat : t + Len(get[l].rest) <= Last => t + Len(get[l].rest) <= Last'
    BY <1>2, <1>7, <2>1, GetShape
  <2>4. get[l].pc = "send" => get[l].event <= Last' /\ get[l].event < Last'
    BY <1>2, <1>7, <2>1, GetShape DEF SeenSoFar
  <2> QED
    BY <2>1, <2>2, <2>3, <2>4 DEF SeenSoFar
<1> QED
  BY <1>6, <1>8, <1>9, <1>10, <1>11 DEF EvInv

LEMMA OfferStep ==
    ASSUME EvInv, NEW g \in Logger, NEW l \in Listener, Ev!Offer(g, l) PROVE EvInv'
<1> DEFINE x == [logger[g] EXCEPT !.todo = @ \ {l}]
           y == [pc |-> "send", event |-> logger[g].event]
<1>1. /\ logger[g].pc = "offer" /\ l \in logger[g].todo
      /\ logger' = [logger EXCEPT ![g] = x]
      /\ get' = IF get[l].pc = "live" THEN [get EXCEPT ![l] = y] ELSE get
      /\ UNCHANGED <<eventsEvents, eventsBegun, listeners, seen>>
  BY DEF Ev!Offer
<1>2. /\ logger[g] \in [pc : {"offer"}, event : Nat, todo : SUBSET Listener]
      /\ logger[g].event = Last /\ eventsBegun = Last /\ Last \in Nat /\ logger[g] # Ev!Out
  BY <1>1 DEF EvInv, EvTypes, ListHolds, Last, LoggerForms, Ev!Out
<1>3. /\ x \in [pc : {"offer"}, event : Nat, todo : SUBSET Listener]
      /\ x.pc = "offer" /\ x.event = Last /\ x.todo = logger[g].todo \ {l}
  BY <1>2
<1>4. x \in LoggerForms /\ x # Ev!Out
  BY <1>3 DEF LoggerForms, Ev!Out
<1>5. y \in GetForms /\ y.pc = "send" /\ y.event = Last
  BY <1>2 DEF GetForms
<1> HIDE DEF x, y
<1>6. \A h \in Logger \ {g} : logger[h] = Ev!Out
  BY <1>2 DEF EvInv, OneLogs
<1>7. /\ logger' \in [Logger -> LoggerForms] /\ OneLogs' /\ logger'[g] = x
      /\ \A h \in Logger \ {g} : logger'[h] = Ev!Out /\ logger'[h].pc = "out"
  BY <1>1, <1>4, <1>6, LoggerMoves
<1>8. EvTypes' /\ Last' = Last
  BY <1>1, <1>5, <1>7 DEF EvInv, EvTypes, Last
<1>9. ListHolds'
  BY <1>1, <1>2, <1>3, <1>4, <1>7, <1>8 DEF EvInv, ListHolds
<1>10. /\ \A k \in Listener \ {l} : get'[k] = get[k]
       /\ get'[l] = IF get[l].pc = "live" THEN y ELSE get[l]
  BY <1>1 DEF EvInv, EvTypes
<1>11. Ev!ListenersServed'
  BY <1>1, <1>5, <1>10 DEF EvInv, Ev!ListenersServed
<1>12. ASSUME NEW k \in Listener PROVE SeenSoFar(k)'
  <2>1. SeenSoFar(k) /\ seen'[k] = seen[k]
    BY <1>1 DEF EvInv
  <2>2. Offered(k)' => Offered(k)
    BY <1>1, <1>3, <1>7 DEF Offered
  <2>3. CASE k # l \/ get[l].pc # "live"
    BY <1>1, <1>10, <2>1, <2>2, <2>3, SeenStays
  <2>4. CASE k = l /\ get[l].pc = "live"
    <3>1. ~Offered(l)' /\ Offered(l)
      BY <1>1, <1>3, <1>7 DEF Offered
    <3>2. get'[l] = y
      BY <1>10, <2>4
    <3> QED
      BY <1>2, <1>5, <1>8, <2>1, <2>4, <3>1, <3>2 DEF SeenSoFar
  <2> QED
    BY <2>3, <2>4
<1> QED
  BY <1>7, <1>8, <1>9, <1>11, <1>12 DEF EvInv

LEMMA LogDoneStep == ASSUME EvInv, NEW g \in Logger, Ev!LogDone(g) PROVE EvInv'
<1>1. /\ logger[g].pc = "offer" /\ logger' = [logger EXCEPT ![g] = Ev!Out]
      /\ UNCHANGED <<eventsEvents, eventsBegun, listeners, get, seen>>
  BY DEF Ev!LogDone
<1>2. /\ logger[g] # Ev!Out /\ eventsBegun = Last /\ Ev!Out \in LoggerForms /\ Ev!Out.pc = "out"
  BY <1>1 DEF EvInv, ListHolds, LoggerForms, Ev!Out
<1>3. \A h \in Logger \ {g} : logger[h] = Ev!Out
  BY <1>2 DEF EvInv, OneLogs
<1>4. /\ logger' \in [Logger -> LoggerForms] /\ OneLogs' /\ logger'[g] = Ev!Out
      /\ \A h \in Logger \ {g} : logger'[h] = Ev!Out /\ logger'[h].pc = "out"
  BY <1>1, <1>2, <1>3, LoggerMoves
<1>5. EvTypes' /\ ListHolds'
  BY <1>1, <1>2, <1>4 DEF EvInv, EvTypes, ListHolds, Last
<1>6. Ev!ListenersServed'
  BY <1>1 DEF EvInv, Ev!ListenersServed
<1>7. ASSUME NEW l \in Listener PROVE SeenSoFar(l)'
  <2>1. ~Offered(l)'
    BY <1>2, <1>4 DEF Offered
  <2> QED
    BY <1>1, <2>1, SeenStays DEF EvInv
<1> QED
  BY <1>4, <1>5, <1>6, <1>7 DEF EvInv

(* A step of one request, while the list and the loggers stay.             *)
LEMMA RequestMoves ==
    ASSUME EvInv, NEW l \in Listener, NEW y \in GetForms, NEW s \in Seq(Nat),
           get' = [get EXCEPT ![l] = y], seen' = [seen EXCEPT ![l] = s],
           UNCHANGED <<eventsEvents, eventsBegun, logger>>,
           listeners' = IF y.pc \in {"none", "gone"} THEN listeners \ {l} ELSE listeners \cup {l},
           SeenSoFar(l)'
    PROVE  EvInv'
<1>1. /\ \A k \in Listener \ {l} : get'[k] = get[k] /\ seen'[k] = seen[k]
      /\ get'[l] = y /\ seen'[l] = s
  BY DEF EvInv, EvTypes
<1>2. EvTypes'
  BY DEF EvInv, EvTypes
<1>3. OneLogs' /\ ListHolds'
  BY DEF EvInv, OneLogs, ListHolds, Last
<1>4. Ev!ListenersServed'
  BY <1>1 DEF EvInv, Ev!ListenersServed
<1>5. ASSUME NEW k \in Listener PROVE SeenSoFar(k)'
  <2>1. CASE k = l
    BY <2>1
  <2>2. CASE k # l
    <3>1. Offered(k)' => Offered(k)
      BY DEF Offered
    <3> QED
      BY <1>1, <2>2, <3>1, SeenStays DEF EvInv
  <2> QED
    BY <2>1, <2>2
<1> QED
  BY <1>2, <1>3, <1>4, <1>5 DEF EvInv

LEMMA GetEventsStep ==
    ASSUME EvInv, NEW l \in Listener, Ev!GetEvents(l) \/ Ev!Replay(l) PROVE EvInv'
<1>1. /\ UNCHANGED <<eventsEvents, eventsBegun, logger, seen>>
      /\ SeenSoFar(l) /\ get[l] \in GetForms /\ seen[l] \in Seq(Nat) /\ Last \in Nat
      /\ seen' = [seen EXCEPT ![l] = seen[l]] /\ seen'[l] = seen[l] /\ Last' = Last
  BY DEF EvInv, EvTypes, Ev!GetEvents, Ev!Replay, Last
<1>2. CASE Ev!GetEvents(l)
  <2>1. PICK pc \in {"since", "live"} :
           /\ get[l].pc = "none" /\ listeners' = listeners \cup {l}
           /\ get' = [get EXCEPT ![l] = [pc |-> pc]]
    BY <1>2 DEF Ev!GetEvents
  <2>2. PICK y \in GetForms : y = [pc |-> pc]
    BY DEF GetForms
  <2>3. get'[l] = y /\ y.pc = pc
    BY <2>1, <2>2 DEF EvInv, EvTypes
  <2>4. seen[l] = <<>> /\ Repeats(<<>>) = {} /\ Below(<<>>, Last)
    BY <1>1, <2>1 DEF SeenSoFar, Repeats, Below
  <2>5. SeenSoFar(l)'
    BY <1>1, <2>3, <2>4 DEF SeenSoFar
  <2> QED
    BY <1>1, <2>1, <2>2, <2>3, <2>5, RequestMoves
<1>3. CASE Ev!Replay(l)
  <2>1. PICK t \in 0 .. Last :
           /\ get[l].pc = "since" /\ listeners' = listeners
           /\ get' = [get EXCEPT ![l] =
                        [pc |-> "replay", rest |-> SubSeq(eventsEvents, t + 1, Last)]]
    BY <1>3 DEF Ev!Replay, Last
  <2> DEFINE s == SubSeq(eventsEvents, t + 1, Last)
  <2>2. /\ s \in Seq(Nat) /\ Len(s) = Last - t /\ t \in Nat
        /\ \A k \in DOMAIN s : s[k] = t + k
    BY <1>1, <2>1 DEF EvInv, EvTypes, ListHolds, Last
  <2> HIDE DEF s
  <2>3. PICK y \in GetForms : y = [pc |-> "replay", rest |-> s]
    BY <2>2 DEF GetForms
  <2>4. get' = [get EXCEPT ![l] = y] /\ get'[l] = y /\ y.pc = "replay" /\ y.rest = s
    BY <2>1, <2>3 DEF EvInv, EvTypes, s
  <2>5. seen[l] = <<>> /\ Repeats(<<>>) = {} /\ UpTo(<<>>, t) /\ l \in listeners
    BY <1>1, <2>1 DEF SeenSoFar, Repeats, UpTo, EvInv, Ev!ListenersServed
  <2>6. UpTo(seen[l], t) /\ t + Len(s) <= Last
    BY <1>1, <2>1, <2>2, <2>5
  <2>7. SeenSoFar(l)'
    BY <1>1, <2>2, <2>4, <2>5, <2>6 DEF SeenSoFar
  <2>8. listeners' = listeners \cup {l}
    BY <2>1, <2>5
  <2> QED
    BY <1>1, <2>3, <2>4, <2>7, <2>8, RequestMoves
<1> QED
  BY <1>2, <1>3

(* A client that is sent the event e, after which y is left, or is gone.   *)
LEMMA SendStep ==
    ASSUME EvInv, NEW l \in Listener, NEW e \in Nat, NEW y \in GetForms, Ev!Send(l, e, y),
           l \in listeners, UNCHANGED <<eventsEvents, eventsBegun, logger>>,
           y.pc \notin {"none", "gone"},
           seen' = [seen EXCEPT ![l] = Append(seen[l], e)] /\ get' = [get EXCEPT ![l] = y]
              => SeenSoFar(l)'
    PROVE  EvInv'
<1>1. SeenSoFar(l) /\ get[l] \in GetForms /\ seen[l] \in Seq(Nat)
  BY DEF EvInv, EvTypes
<1>2. CASE /\ seen' = [seen EXCEPT ![l] = Append(seen[l], e)]
           /\ get' = [get EXCEPT ![l] = y] /\ UNCHANGED listeners
  <2>1. Append(seen[l], e) \in Seq(Nat)
    BY <1>1
  <2>2. listeners' = listeners \cup {l}
    BY <1>2
  <2> QED
    BY <1>2, <2>1, <2>2, RequestMoves
<1>3. CASE /\ get' = [get EXCEPT ![l] = [pc |-> "gone"]]
           /\ listeners' = listeners \ {l} /\ UNCHANGED seen
  <2>1. PICK z \in GetForms : z = [pc |-> "gone"]
    BY DEF GetForms
  <2>2. z.pc = "gone" /\ get'[l] = z
    BY <1>3, <2>1 DEF EvInv, EvTypes
  <2>3. seen' = [seen EXCEPT ![l] = seen[l]] /\ seen'[l] = seen[l]
    BY <1>3 DEF EvInv, EvTypes
  <2>4. SeenSoFar(l)'
    BY <1>1, <2>2, <2>3 DEF SeenSoFar, Last
  <2> QED
    BY <1>1, <1>3, <2>1, <2>2, <2>3, <2>4, RequestMoves
<1> QED
  BY <1>2, <1>3 DEF Ev!Send, Ev!Evict

LEMMA ReplayedStep == ASSUME EvInv, NEW l \in Listener, Ev!Replayed(l) PROVE EvInv'
<1> DEFINE r == get[l].rest
<1>1. /\ UNCHANGED <<eventsEvents, eventsBegun, logger>> /\ Last' = Last
      /\ get[l].pc = "replay" /\ SeenSoFar(l) /\ get[l] \in GetForms /\ seen[l] \in Seq(Nat)
      /\ Last \in Nat /\ l \in listeners
  <2>1. get[l].pc = "replay" /\ UNCHANGED <<eventsEvents, eventsBegun, logger>>
    BY DEF Ev!Replayed
  <2>2. l \in listeners
    BY <2>1 DEF EvInv, Ev!ListenersServed
  <2> QED
    BY <2>1, <2>2 DEF EvInv, EvTypes, Last
<1>2. r \in Seq(Nat)
  BY <1>1, GetShape
<1>3. /\ Repeats(seen[l]) = {} /\ Rising(seen[l]) /\ RepeatsOnce(seen[l]) /\ UpTo(seen[l], Last)
  BY <1>1 DEF SeenSoFar
<1>4. PICK t \in Nat : /\ UpTo(seen[l], t) /\ t + Len(r) <= Last
                       /\ \A k \in DOMAIN r : r[k] = t + k
  BY <1>1 DEF SeenSoFar
<1>5. CASE r = <<>>
  <2>1. get' = [get EXCEPT ![l] = [pc |-> "live"]] /\ UNCHANGED <<listeners, seen>>
    BY <1>5 DEF Ev!Replayed
  <2>2. PICK y \in GetForms : y = [pc |-> "live"]
    BY DEF GetForms
  <2>3. /\ y.pc = "live" /\ get'[l] = y /\ listeners' = listeners \cup {l}
        /\ seen' = [seen EXCEPT ![l] = seen[l]] /\ seen'[l] = seen[l]
    BY <1>1, <2>1, <2>2 DEF EvInv, EvTypes
  <2>4. SeenSoFar(l)'
    BY <1>1, <1>3, <2>3 DEF SeenSoFar
  <2> QED
    BY <1>1, <2>1, <2>2, <2>3, <2>4, RequestMoves
<1>6. CASE r # <<>>
  <2>1. Ev!Send(l, Head(r), [pc |-> "replay", rest |-> Tail(r)])
    BY <1>6 DEF Ev!Replayed
  <2>2. /\ Head(r) = t + 1 /\ Tail(r) \in Seq(Nat) /\ Len(Tail(r)) = Len(r) - 1
        /\ \A k \in DOMAIN Tail(r) : Tail(r)[k] = (t + 1) + k
    <3> HIDE DEF r
    <3>1. /\ Len(r) \in Nat /\ Len(r) # 0 /\ DOMAIN r = 1 .. Len(r) /\ Head(r) = r[1]
          /\ Tail(r) \in Seq(Nat) /\ Len(Tail(r)) = Len(r) - 1
          /\ \A k \in 1 .. Len(r) - 1 : Tail(r)[k] = r[k + 1]
      BY <1>2, <1>6
    <3>2. DOMAIN Tail(r) = 1 .. Len(r) - 1
      BY <3>1
    <3>3. \A k \in 1 .. Len(r) - 1 : k + 1 \in DOMAIN r /\ t + (k + 1) = (t + 1) + k
      BY <3>1, <1>4
    <3> QED
      BY <1>4, <3>1, <3>2, <3>3
  <2>3. PICK y \in GetForms : y = [pc |-> "replay", rest |-> Tail(r)]
    BY <2>2 DEF GetForms
  <2>4. y.pc = "replay" /\ y.rest = Tail(r)
    BY <2>3
  <2>5. Below(seen[l], t + 1) /\ UpTo(seen[l], t + 1)
    BY <1>1, <1>4 DEF Below, UpTo
  <2> DEFINE s == Append(seen[l], t + 1)
  <2>6. s \in Seq(Nat) /\ Rising(s) /\ RepeatsOnce(s) /\ UpTo(s, t + 1) /\ Repeats(s) = {}
    BY <1>1, <1>3, <2>5, Lengthened
  <2> HIDE DEF s
  <2>7. UpTo(s, Last) /\ t + 1 + Len(Tail(r)) <= Last /\ t + 1 \in Nat
    <3>1. Len(r) \in Nat /\ Len(r) # 0
      BY <1>2, <1>6
    <3> HIDE DEF r
    <3>2. t + 1 <= Last /\ t + 1 \in Nat /\ t + 1 + Len(Tail(r)) <= Last
      BY <1>1, <1>4, <2>2, <3>1
    <3>3. \A k \in DOMAIN s : s[k] \in Nat
      BY <2>6
    <3>4. UpTo(s, Last)
      BY <1>1, <2>6, <3>2, <3>3 DEF UpTo
    <3> QED
      BY <3>2, <3>4
  <2>8. ASSUME seen' = [seen EXCEPT ![l] = s], get' = [get EXCEPT ![l] = y]
        PROVE  SeenSoFar(l)'
    <3>1. seen'[l] = s /\ get'[l] = y
      BY <2>8 DEF EvInv, EvTypes
    <3> QED
      BY <1>1, <2>2, <2>4, <2>6, <2>7, <3>1 DEF SeenSoFar
  <2>9. /\ Ev!Send(l, t + 1, y) /\ t + 1 \in Nat /\ y.pc \notin {"none", "gone"}
        /\ seen' = [seen EXCEPT ![l] = Append(seen[l], t + 1)] /\ get' = [get EXCEPT ![l] = y]
              => SeenSoFar(l)'
    BY <1>4, <2>1, <2>2, <2>3, <2>4, <2>8 DEF s
  <2> QED
    BY <1>1, <2>9, SendStep
<1> QED
  BY <1>5, <1>6

LEMMA SendLiveStep == ASSUME EvInv, NEW l \in Listener, Ev!SendLive(l) PROVE EvInv'
<1> DEFINE e == get[l].event
<1>1. /\ UNCHANGED <<eventsEvents, eventsBegun, logger>> /\ Last' = Last
      /\ get[l].pc = "send" /\ SeenSoFar(l) /\ get[l] \in GetForms /\ seen[l] \in Seq(Nat)
      /\ Last \in Nat /\ l \in listeners
      /\ Ev!Send(l, e, [pc |-> "live"])
  BY DEF EvInv, EvTypes, Ev!SendLive, Ev!Live, Last, Ev!ListenersServed
<1>2. e \in Nat
  BY <1>1, GetShape
<1>3. /\ Rising(seen[l]) /\ RepeatsOnce(seen[l]) /\ UpTo(seen[l], e) /\ e <= Last
      /\ Repeats(seen[l]) # {} => Below(seen[l], e)
      /\ Offered(l) => e < Last
  BY <1>1 DEF SeenSoFar
<1>4. PICK y \in GetForms : y = [pc |-> "live"]
  BY DEF GetForms
<1>5. y.pc = "live"
  BY <1>4
<1> DEFINE s == Append(seen[l], e)
<1>6. s \in Seq(Nat) /\ Rising(s) /\ RepeatsOnce(s) /\ UpTo(s, e)
  BY <1>1, <1>2, <1>3, Lengthened
<1> HIDE DEF s
<1>7. UpTo(s, Last) /\ (Offered(l) => Below(s, Last))
  BY <1>1, <1>2, <1>3, <1>6 DEF UpTo, Below
<1>8. Offered(l)' = Offered(l)
  BY <1>1 DEF Offered
<1>9. ASSUME seen' = [seen EXCEPT ![l] = s], get' = [get EXCEPT ![l] = y]
      PROVE  SeenSoFar(l)'
  <2>1. seen'[l] = s /\ get'[l] = y
    BY <1>9 DEF EvInv, EvTypes
  <2> QED
    BY <1>1, <1>5, <1>6, <1>7, <1>8, <2>1 DEF SeenSoFar
<1> QED
  BY <1>1, <1>2, <1>4, <1>5, <1>9, SendStep DEF s

LEMMA EvInvStep == ASSUME EvInv, [Ev!Next]_EvVars PROVE EvInv'
<1>1. CASE UNCHANGED EvVars
  BY <1>1 DEF EvVars, EvInv, EvTypes, OneLogs, ListHolds, Last, Ev!ListenersServed, SeenSoFar, Offered
<1> QED
  BY <1>1, LogEventStep, AppendStep, OfferStep, LogDoneStep, GetEventsStep, ReplayedStep,
     SendLiveStep DEF Ev!Next
-----------------------------------------------------------------------------
(* TagStore, one request at a time: TagInv says what memory and file hold  *)
(* at each step of the one operation in progress.                          *)
Busy(c) == op[c] # Tags!Idle

OneByOne ==
    /\ \A c, d \in Client : Busy(c) /\ Busy(d) => c = d
    /\ \A c \in Client : Busy(c) => up
    /\ \A c \in Client : ~Busy(c) => at[c] = "read"

(* What the store is about to write is what the change makes of the file;  *)
(* the file is empty only between the truncation and the write.            *)
FileInStep ==
    /\ \A c \in Client : at[c] = "apply" => tagsData[c] = file
    /\ \A c \in Client : at[c] = "truncate" =>
          /\ op[c] \in Tags!Sets \cup Tags!Deletes
          /\ file # Lost /\ mem = Tags!Changed(file, op[c]) /\ tagsData[c] = mem
    /\ \A c \in Client : at[c] = "write" => file = Lost /\ tagsData[c] = mem
    /\ (up /\ \A c \in Client : at[c] \in {"read", "apply"}) => mem = file

TagInv == Tags!TypeOK /\ OneByOne /\ FileInStep
-----------------------------------------------------------------------------
(* Operators. *)
LEMMA EmptyIsContent == Tags!Empty \in Tags!Content
BY DEF Tags!Empty, Tags!Untagged, Tags!Content

LEMMA LostIsNoContent ==
    ASSUME Tags!TagStoreAssumption PROVE Lost \notin Tags!Content
BY DEF Tags!TagStoreAssumption, Tags!Content

(* Reload changes nothing when the file says what memory holds.            *)
LEMMA MergedSame == \A m \in Tags!Content : Tags!Merged(m, m) = m
BY DEF Tags!Merged, Tags!Content

LEMMA ChangedIsContent ==
    \A m \in Tags!Content, o \in Tags!Sets \cup Tags!Deletes : Tags!Changed(m, o) \in Tags!Content
<1> SUFFICES ASSUME NEW m \in Tags!Content, NEW o \in Tags!Sets \cup Tags!Deletes
             PROVE  Tags!Changed(m, o) \in Tags!Content
  OBVIOUS
<1>0. Tags!Untagged \in [Tag -> Id \cup {None}]
  BY DEF Tags!Untagged
<1>1. CASE o \in Tags!Sets
  <2>1. o.kind = "set" /\ o.repo \in Repo /\ o.tag \in Tag /\ o.id \in Id
    BY <1>1 DEF Tags!Sets
  <2>2. [m[o.repo] EXCEPT ![o.tag] = o.id] \in [Tag -> Id \cup {None}]
    BY <2>1 DEF Tags!Content
  <2>3. Tags!SetTag(m, o.repo, o.tag, o.id) \in Tags!Content
    BY <2>1, <2>2 DEF Tags!SetTag, Tags!Content
  <2> QED
    BY <2>1, <2>3 DEF Tags!Changed
<1>2. CASE o \in Tags!Deletes
  <2>1. o.kind = "delete" /\ o.repo \in Repo
    BY <1>2 DEF Tags!Deletes
  <2>2. [m[o.repo] EXCEPT ![o.tag] = None] \in [Tag -> Id \cup {None}]
    BY <2>1 DEF Tags!Content
  <2>3. Tags!DeleteTags(m, o.repo, o.tag) \in Tags!Content
    BY <1>0, <2>1, <2>2 DEF Tags!DeleteTags, Tags!Content
  <2> QED
    BY <2>1, <2>3 DEF Tags!Changed
<1> QED
  BY <1>1, <1>2
-----------------------------------------------------------------------------
LEMMA TagInvBegins == Tags!Init => TagInv
<1> SUFFICES ASSUME Tags!Init PROVE TagInv
  OBVIOUS
<1>1. Tags!TypeOK
  BY EmptyIsContent DEF Tags!Init, Tags!TypeOK
<1>2. OneByOne /\ FileInStep
  BY DEF Tags!Init, OneByOne, FileInStep, Busy
<1> QED
  BY <1>1, <1>2 DEF TagInv

LEMMA TagCall ==
    ASSUME Tags!TagStoreAssumption, TagInv, NEW c \in Client, Tags!Call(c) PROVE TagInv'
<1>1. up /\ \A d \in Client : op[d] = Tags!Idle /\ at[d] = "read"
  BY DEF Tags!Call, TagInv, OneByOne, Busy
<1>2. PICK o \in Tags!Gets \cup Tags!Sets \cup Tags!Deletes : op' = [op EXCEPT ![c] = o]
  BY DEF Tags!Call
<1>3. UNCHANGED <<file, mem, at, tagsData, up>>
  BY DEF Tags!Call
<1>4. Tags!TypeOK'
  BY <1>2, <1>3 DEF TagInv, Tags!TypeOK
<1>5. \A d \in Client \ {c} : op'[d] = Tags!Idle
  BY <1>1, <1>2 DEF TagInv, Tags!TypeOK
<1>6. OneByOne'
  BY <1>1, <1>3, <1>5 DEF OneByOne, Busy
<1>7. FileInStep'
  BY <1>1, <1>3 DEF TagInv, FileInStep
<1> QED
  BY <1>4, <1>6, <1>7 DEF TagInv

(* While c works, the others wait before their first step.                 *)
LEMMA NobodyElse ==
    ASSUME TagInv, NEW c \in Client, Busy(c)
    PROVE  up /\ \A d \in Client \ {c} : ~Busy(d) /\ at[d] = "read"
BY DEF TagInv, OneByOne

LEMMA TagReturnType ==
    ASSUME Tags!TypeOK, NEW c \in Client, Tags!Return(c)
    PROVE  /\ op' \in [Client -> {Tags!Idle} \cup Tags!Gets \cup Tags!Sets \cup Tags!Deletes]
           /\ at' \in [Client -> {"read", "apply", "truncate", "write"}]
           /\ tagsData' \in [Client -> Tags!Content]
           /\ op'[c] = Tags!Idle /\ at'[c] = "read"
           /\ \A d \in Client \ {c} : op'[d] = op[d] /\ at'[d] = at[d] /\ tagsData'[d] = tagsData[d]
BY EmptyIsContent DEF Tags!TypeOK, Tags!Return

(* An operation has come to its end: memory and file agree again.          *)
LEMMA TagReturn ==
    ASSUME TagInv, NEW c \in Client, Busy(c), Tags!Return(c),
           file' \in Tags!Content, mem' = file', up' = up
    PROVE  TagInv'
<1>1. up /\ \A d \in Client \ {c} : ~Busy(d) /\ at[d] = "read"
  BY NobodyElse
<1>2. /\ op' \in [Client -> {Tags!Idle} \cup Tags!Gets \cup Tags!Sets \cup Tags!Deletes]
      /\ at' \in [Client -> {"read", "apply", "truncate", "write"}]
      /\ tagsData' \in [Client -> Tags!Content]
      /\ op'[c] = Tags!Idle /\ at'[c] = "read"
      /\ \A d \in Client \ {c} : op'[d] = op[d] /\ at'[d] = at[d] /\ tagsData'[d] = tagsData[d]
  BY TagReturnType DEF TagInv
<1>3. Tags!TypeOK'
  BY <1>2 DEF TagInv, Tags!TypeOK
<1>4. \A d \in Client : op'[d] = Tags!Idle /\ at'[d] = "read"
  BY <1>1, <1>2 DEF Busy
<1>5. OneByOne' /\ FileInStep'
  BY <1>4 DEF OneByOne, FileInStep, Busy
<1> QED
  BY <1>3, <1>5 DEF TagInv

LEMMA TagRead ==
    ASSUME Tags!TagStoreAssumption, TagInv, NEW c \in Client, Tags!Read(c) PROVE TagInv'
<1>1. Busy(c) /\ at[c] = "read" /\ UNCHANGED <<file, mem, up>>
  BY DEF Tags!Read, Busy
<1>2. up /\ \A d \in Client \ {c} : ~Busy(d) /\ at[d] = "read"
  BY <1>1, NobodyElse
<1>3. mem = file /\ file \in Tags!Content
  BY <1>1, <1>2 DEF TagInv, FileInStep, Tags!TypeOK
<1>4. /\ tagsData' = [tagsData EXCEPT ![c] = file] /\ at' = [at EXCEPT ![c] = "apply"]
      /\ UNCHANGED op
  BY <1>3, LostIsNoContent DEF Tags!Read
<1>5. Tags!TypeOK'
  BY <1>1, <1>3, <1>4 DEF TagInv, Tags!TypeOK
<1>6. /\ at'[c] = "apply" /\ tagsData'[c] = file
      /\ \A d \in Client \ {c} : at'[d] = "read"
  BY <1>2, <1>4 DEF TagInv, Tags!TypeOK
<1>7. OneByOne'
  BY <1>1, <1>2, <1>4, <1>6 DEF OneByOne, Busy
<1>8. FileInStep'
  BY <1>1, <1>3, <1>6 DEF FileInStep
<1> QED
  BY <1>5, <1>7, <1>8 DEF TagInv

LEMMA TagApply ==
    ASSUME Tags!TagStoreAssumption, TagInv, NEW c \in Client, Tags!Apply(c) PROVE TagInv'
<1>1. Busy(c) /\ at[c] = "apply" /\ UNCHANGED <<file, up>>
  BY DEF Tags!Apply, Busy
<1>2. up /\ \A d \in Client \ {c} : ~Busy(d) /\ at[d] = "read"
  BY <1>1, NobodyElse
<1>3. tagsData[c] = file /\ mem = file /\ file \in Tags!Content /\ mem \in Tags!Content
  BY <1>1, <1>2 DEF TagInv, FileInStep, Tags!TypeOK
<1>4. Tags!Merged(mem, tagsData[c]) = mem
  BY <1>3, MergedSame
<1>5. CASE op[c].kind = "get" \/ Tags!NoSuchTag(mem, op[c])
  <2>1. mem' = mem /\ Tags!Return(c)
    BY <1>4, <1>5 DEF Tags!Apply
  <2> QED
    BY <1>1, <1>3, <2>1, TagReturn
<1>6. CASE ~(op[c].kind = "get" \/ Tags!NoSuchTag(mem, op[c]))
  <2>1. /\ mem' = Tags!Changed(mem, op[c]) /\ tagsData' = [tagsData EXCEPT ![c] = mem']
        /\ at' = [at EXCEPT ![c] = "truncate"] /\ UNCHANGED op
    BY <1>4, <1>6 DEF Tags!Apply
  <2>2. op[c] \in Tags!Sets \cup Tags!Deletes
    BY <1>1, <1>6 DEF TagInv, Tags!TypeOK, Busy, Tags!Gets
  <2>3. mem' \in Tags!Content
    BY <1>3, <2>1, <2>2, ChangedIsContent
  <2>4. Tags!TypeOK'
    BY <1>1, <2>1, <2>3 DEF TagInv, Tags!TypeOK
  <2>5. /\ at'[c] = "truncate" /\ tagsData'[c] = mem'
        /\ \A d \in Client \ {c} : at'[d] = "read"
    BY <1>2, <2>1 DEF TagInv, Tags!TypeOK
  <2>6. OneByOne'
    BY <1>1, <1>2, <2>1, <2>5 DEF OneByOne, Busy
  <2>7. file' # Lost /\ mem' = Tags!Changed(file', op'[c])
    BY <1>1, <1>3, <2>1, LostIsNoContent
  <2>8. FileInStep'
    BY <2>1, <2>2, <2>5, <2>7 DEF FileInStep
  <2> QED
    BY <2>4, <2>6, <2>8 DEF TagInv
<1> QED
  BY <1>5, <1>6

LEMMA TagTruncate ==
    ASSUME TagInv, NEW c \in Client, Tags!Truncate(c) PROVE TagInv'
<1>1. /\ Busy(c) /\ at[c] = "truncate" /\ UNCHANGED <<mem, op, tagsData, up>>
      /\ file' = Lost /\ at' = [at EXCEPT ![c] = "write"]
  BY DEF Tags!Truncate, Busy
<1>2. up /\ \A d \in Client \ {c} : ~Busy(d) /\ at[d] = "read"
  BY <1>1, NobodyElse
<1>3. Tags!TypeOK'
  BY <1>1 DEF TagInv, Tags!TypeOK
<1>4. at'[c] = "write" /\ tagsData'[c] = mem' /\ \A d \in Client \ {c} : at'[d] = "read"
  BY <1>1, <1>2 DEF TagInv, Tags!TypeOK, FileInStep
<1>5. OneByOne' /\ FileInStep'
  BY <1>1, <1>2, <1>4 DEF OneByOne, FileInStep, Busy
<1> QED
  BY <1>3, <1>5 DEF TagInv

LEMMA TagWrite ==
    ASSUME TagInv, NEW c \in Client, Tags!Write(c) PROVE TagInv'
<1>1. /\ Busy(c) /\ at[c] = "write" /\ UNCHANGED <<mem, up>>
      /\ file' = tagsData[c] /\ Tags!Return(c)
  BY DEF Tags!Write, Busy
<1>2. tagsData[c] = mem /\ mem \in Tags!Content
  BY <1>1 DEF TagInv, FileInStep, Tags!TypeOK
<1> QED
  BY <1>1, <1>2, TagReturn

LEMMA TagDaemon ==
    ASSUME TagInv, Tags!Crash \/ Tags!NewTagStore \/ Tags!Removed PROVE TagInv'
<1>1. CASE Tags!Crash
  <2>1. Tags!TypeOK'
    BY <1>1, EmptyIsContent DEF TagInv, Tags!TypeOK, Tags!Crash
  <2> QED
    BY <1>1, <2>1 DEF TagInv, OneByOne, FileInStep, Busy, Tags!Crash
<1>2. CASE Tags!NewTagStore
  <2>1. ~up /\ file # Lost /\ up' = TRUE /\ mem' = file /\ UNCHANGED <<file, op, at, tagsData>>
    BY <1>2 DEF Tags!NewTagStore, Tags!Restart
  <2>2. \A c \in Client : op[c] = Tags!Idle /\ at[c] = "read"
    BY <2>1 DEF TagInv, OneByOne, Busy
  <2>3. Tags!TypeOK'
    BY <2>1 DEF TagInv, Tags!TypeOK
  <2> QED
    BY <2>1, <2>2, <2>3 DEF TagInv, OneByOne, FileInStep, Busy
<1>3. CASE Tags!Removed
  <2>1. ~up /\ file' = Tags!Empty /\ mem' = Tags!Empty /\ up' = TRUE /\ UNCHANGED <<op, at, tagsData>>
    BY <1>3 DEF Tags!Removed
  <2>2. \A c \in Client : op[c] = Tags!Idle /\ at[c] = "read"
    BY <2>1 DEF TagInv, OneByOne, Busy
  <2>3. Tags!TypeOK'
    BY <2>1, EmptyIsContent DEF TagInv, Tags!TypeOK
  <2> QED
    BY <2>1, <2>2, <2>3 DEF TagInv, OneByOne, FileInStep, Busy
<1> QED
  BY <1>1, <1>2, <1>3

LEMMA TagInvStep ==
    ASSUME Tags!TagStoreAssumption PROVE TagInv /\ [Tags!Next]_TagsVars => TagInv'
<1> SUFFICES ASSUME TagInv, [Tags!Next]_TagsVars PROVE TagInv'
  OBVIOUS
<1>1. ASSUME NEW c \in Client,
             Tags!Call(c) \/ Tags!Read(c) \/ Tags!Apply(c) \/ Tags!Truncate(c) \/ Tags!Write(c)
      PROVE  TagInv'
  BY <1>1, TagCall, TagRead, TagApply, TagTruncate, TagWrite
<1>2. CASE Tags!Crash \/ Tags!NewTagStore \/ Tags!Removed
  BY <1>2, TagDaemon
<1>3. CASE UNCHANGED TagsVars
  BY <1>3 DEF TagsVars, TagInv, Tags!TypeOK, OneByOne, FileInStep, Busy
<1> QED
  BY <1>1, <1>2, <1>3 DEF Tags!Next

LEMMA TagInvariance ==
    ASSUME Tags!TagStoreAssumption PROVE Tags!Spec => []TagInv
<1>1. TagInv /\ [Tags!Next]_TagsVars => TagInv'
  BY TagInvStep
<1> QED
  BY <1>1, TagInvBegins, PTL DEF Tags!Spec, Tags!vars, TagsVars

(* One request at a time: whatever the interleaving with a crash, once an  *)
(* operation is over, lookups in memory and a restarted daemon agree, for  *)
(* any number of repositories, tags and images (tags.go:45-84).            *)
THEOREM MemoryFollowsFile ==
    ASSUME Tags!TagStoreAssumption PROVE Tags!Spec => []Tags!MemoryIsFile
<1>1. TagInv => Tags!MemoryIsFile
  BY DEF TagInv, Tags!TypeOK, FileInStep, Tags!MemoryIsFile
<1> QED
  BY <1>1, TagInvariance, PTL
-----------------------------------------------------------------------------
(* The refinement. *)
Shown == IF file # Lost THEN file ELSE IF up THEN mem ELSE Lost

LEMMA SameNames == Tags!Promised!Untagged = Tags!Untagged /\ Tags!Promised!Empty = Tags!Empty
BY DEF Tags!Promised!Untagged, Tags!Promised!Empty, Tags!Untagged, Tags!Empty

LEMMA TagsRefineInit ==
    ASSUME Tags!TagStoreAssumption PROVE Tags!Init => Tags!Promised!TagInit
BY SameNames, EmptyIsContent, LostIsNoContent DEF Tags!Init, Tags!Promised!TagInit

(* Truncate is where a change takes effect.                                *)
LEMMA TagsRefineTruncate ==
    ASSUME Tags!TagStoreAssumption, TagInv, NEW c \in Client, Tags!Truncate(c) PROVE Tags!Promised!TagNext
<1>1. /\ at[c] = "truncate" /\ up /\ file' = Lost /\ UNCHANGED <<mem, up>>
  BY NobodyElse DEF Tags!Truncate, Busy
<1>2. file # Lost /\ mem = Tags!Changed(file, op[c]) /\ op[c] \in Tags!Sets \cup Tags!Deletes
  BY <1>1 DEF TagInv, FileInStep
<1>3. Shown = file /\ Shown' = Tags!Changed(file, op[c])
  BY <1>1, <1>2 DEF Shown
<1>4. CASE op[c] \in Tags!Sets
  <2>1. op[c].kind = "set" /\ op[c].repo \in Repo /\ op[c].tag \in Tag /\ op[c].id \in Id
    BY <1>4 DEF Tags!Sets
  <2>2. Tags!Promised!Set(op[c].repo, op[c].tag, op[c].id)
    BY <1>3, <2>1 DEF Tags!Promised!Set, Tags!Changed, Tags!SetTag, Shown
  <2> QED
    BY <1>2, <1>3, <2>1, <2>2 DEF Tags!Promised!TagNext, Tags!Promised!Change, Shown
<1>5. CASE op[c] \in Tags!Deletes
  <2>1. op[c].kind = "delete" /\ op[c].repo \in Repo /\ op[c].tag \in Tag \cup {Tags!AllTags}
    BY <1>5 DEF Tags!Deletes
  <2>2. CASE op[c].tag = Tags!AllTags
    <3>1. Tags!Promised!DeleteRepo(op[c].repo)
      BY <1>3, <2>1, <2>2, SameNames DEF Tags!Promised!DeleteRepo, Tags!Changed, Tags!DeleteTags, Shown
    <3> QED
      BY <1>2, <1>3, <2>1, <3>1 DEF Tags!Promised!TagNext, Tags!Promised!Change, Shown
  <2>3. CASE op[c].tag # Tags!AllTags
    <3>1. Tags!Promised!Delete(op[c].repo, op[c].tag)
      BY <1>3, <2>1, <2>3 DEF Tags!Promised!Delete, Tags!Changed, Tags!DeleteTags, Shown
    <3> QED
      BY <1>2, <1>3, <2>1, <2>3, <3>1 DEF Tags!Promised!TagNext, Tags!Promised!Change, Shown
  <2> QED
    BY <2>2, <2>3
<1> QED
  BY <1>2, <1>4, <1>5

(* Before it, the file is what it was; after it, the copy in memory is.    *)
LEMMA TagsRefineOthers ==
    ASSUME Tags!TagStoreAssumption, TagInv, NEW c \in Client,
           Tags!Call(c) \/ Tags!Read(c) \/ Tags!Apply(c) \/ Tags!Write(c)
    PROVE  Shown' = Shown
<1>1. CASE Tags!Call(c)
  <2>1. up /\ \A d \in Client : at[d] = "read"
    BY <1>1 DEF Tags!Call, TagInv, OneByOne, Busy
  <2>2. file # Lost
    BY <2>1, LostIsNoContent DEF TagInv, FileInStep, Tags!TypeOK
  <2> QED
    BY <1>1, <2>2 DEF Tags!Call, Shown
<1>2. CASE Tags!Read(c)
  BY <1>2 DEF Tags!Read, Shown
<1>3. CASE Tags!Apply(c)
  <2>1. file = tagsData[c] /\ tagsData[c] \in Tags!Content
    BY <1>3 DEF Tags!Apply, TagInv, FileInStep, Tags!TypeOK
  <2> QED
    BY <1>3, <2>1, LostIsNoContent DEF Tags!Apply, Shown
<1>4. CASE Tags!Write(c)
  <2>1. file = Lost /\ tagsData[c] = mem /\ mem \in Tags!Content
    BY <1>4 DEF Tags!Write, TagInv, FileInStep, Tags!TypeOK
  <2>2. up /\ up' = up /\ file' = mem
    BY <1>4, <2>1, NobodyElse DEF Tags!Write, Busy
  <2> QED
    BY <2>1, <2>2, LostIsNoContent DEF Shown
<1> QED
  BY <1>1, <1>2, <1>3, <1>4

LEMMA TagsRefineStep ==
    ASSUME Tags!TagStoreAssumption, TagInv, [Tags!Next]_TagsVars
    PROVE  Tags!Promised!TagNext \/ Shown' = Shown
<1>1. ASSUME NEW c \in Client, Tags!Call(c) \/ Tags!Read(c) \/ Tags!Apply(c) \/ Tags!Write(c)
      PROVE  Shown' = Shown
  BY <1>1, TagsRefineOthers
<1>2. ASSUME NEW c \in Client, Tags!Truncate(c)
      PROVE  Tags!Promised!TagNext
  BY <1>2, TagsRefineTruncate
<1>3. CASE Tags!Crash
  BY <1>3 DEF Tags!Crash, Shown, Tags!Promised!TagNext, Tags!Promised!Lose
<1>4. CASE Tags!NewTagStore
  BY <1>4 DEF Tags!NewTagStore, Tags!Restart, Shown
<1>5. CASE Tags!Removed
  BY <1>5, SameNames, EmptyIsContent, LostIsNoContent
     DEF Tags!Removed, Tags!Promised!TagNext, Tags!Promised!StartAfresh
<1>6. CASE UNCHANGED TagsVars
  BY <1>6 DEF TagsVars, Shown
<1> QED
  BY <1>1, <1>2, <1>3, <1>4, <1>5, <1>6 DEF Tags!Next

(* One request at a time, the tag store is the table TagMap promises: a    *)
(* tag is set or deleted at once, or a crash loses the whole file, and     *)
(* nothing else ever happens to the tags (tags.go:45-166).                 *)
THEOREM ImplementsTagMap ==
    ASSUME Tags!TagStoreAssumption PROVE Tags!Spec => Tags!TagMapSpec
<1>1. TagInv /\ [Tags!Next]_TagsVars => Tags!Promised!TagNext \/ Shown' = Shown
  BY TagsRefineStep
<1>2. TagInv /\ [Tags!Next]_TagsVars => [Tags!Promised!TagNext]_Shown
  BY <1>1
<1> QED
  BY <1>2, TagsRefineInit, TagInvariance, PTL DEF Tags!Spec, Tags!vars, TagsVars, Tags!TagMapSpec, Tags!Promised!TagSpec, Shown
=============================================================================
