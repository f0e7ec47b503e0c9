-------------------------- MODULE IPAllocatorProofs --------------------------
(***************************************************************************)
(* Theorems about the IP allocator, for every network, every set of        *)
(* containers and every interleaving.                                      *)
(***************************************************************************)
EXTENDS IPAllocator, TLAPS

USE SizeAssumption, OwnIPAssumption, AutoRestartAssumption,
    FatesAssumption, FaultsAssumption
    DEF Max, Host, FirstIP, NoIP, Freed, MarkedUsed, Refused, Keeps, Adopted

(* The search goes around the host addresses: after the last comes the     *)
(* first.                                                                  *)
LEMMA NextPosValue ==
    ASSUME pos \in Host
    PROVE  NextPos = IF pos = Max THEN 1 ELSE pos + 1
BY DEF NextPos

-----------------------------------------------------------------------------
(* Type correctness. *)

(* A send on queueAlloc only follows a search that looked at some address, *)
(* so what Mark puts into inUse is a host address.                         *)
Looked ==
    \/ pc = "search" /\ attempt = 0
    \/ newNum \in Host

(* Whatever is released was a host address. *)
HasIP ==
    \A c \in Container : Holding(c) => ip[c] \in Host

TypeInv == TypeOK /\ Looked /\ HasIP

LEMMA InitType == Init => TypeInv
<1> SUFFICES ASSUME Init PROVE TypeInv
  OBVIOUS
<1>1. TypeOK
  BY DEF Init, TypeOK, Calls
<1>2. Looked /\ HasIP
  BY DEF Init, Looked, HasIP, Holding
<1> QED
  BY <1>1, <1>2 DEF TypeInv

LEMMA NextType == TypeInv /\ [Next]_vars => TypeInv'
<1> SUFFICES ASSUME TypeInv, [Next]_vars PROVE TypeInv'
  OBVIOUS
<1> USE DEF TypeInv, TypeOK, Looked, HasIP, Holding, Calls
<1>1. CASE TryNext
  BY <1>1, NextPosValue DEF TryNext
<1>2. CASE RoundOver
  BY <1>2 DEF RoundOver
<1>3. CASE Mark
  BY <1>3 DEF Mark, NewSearch
<1>4. CASE RestartDaemon
  BY <1>4 DEF RestartDaemon, KeptIP, Aftermath
<1>5. ASSUME NEW c \in Container, Start(c) PROVE TypeInv'
  BY <1>5 DEF Start, SetCall, runVars
<1>6. ASSUME NEW c \in Container, StartGhost(c) PROVE TypeInv'
  <2>1. ip[c] \in Host
    BY <1>6 DEF StartGhost
  <2>2. inUse' \subseteq Host
    BY <1>6, <2>1 DEF StartGhost
  <2> QED
    BY <1>6, <2>1, <2>2 DEF StartGhost, SetCall, runVars
<1>7. ASSUME NEW c \in Container, Acquire(c) PROVE TypeInv'
  BY <1>7 DEF Acquire, SetCall
<1>8. ASSUME NEW c \in Container, Started(c) PROVE TypeInv'
  BY <1>8 DEF Started, SetCall, runVars
<1>9. ASSUME NEW c \in Container, StartFails(c) PROVE TypeInv'
  BY <1>9 DEF StartFails, SetCall, runVars, KeptIP
<1>10. ASSUME NEW c \in Container, PortsFail(c) \/ Exit(c) PROVE TypeInv'
  BY <1>10 DEF PortsFail, Exit, SetCall, runVars
<1>11. ASSUME NEW c \in Container, UndoStart(c) \/ Release(c) \/ Unadopt(c)
       PROVE  TypeInv'
  <2>1. ip[c] \in Host
    BY <1>11 DEF UndoStart, Release, Unadopt
  <2>2. TakeBack(c)
    BY <1>11 DEF UndoStart, Release, Unadopt
  <2>3. /\ pc' = "search" /\ attempt' = 0 /\ newNum' = 0 /\ seen' = "free"
    BY <2>2 DEF TakeBack, NewSearch
  <2>3a. pos' \in Host
    BY <2>1, <2>2 DEF TakeBack, PosAfterRelease
  <2>3b. inUse' \subseteq Host
    BY <2>2 DEF TakeBack
  <2>4. CASE UndoStart(c)
    BY <2>3, <2>3a, <2>3b, <2>4 DEF UndoStart, SetCall, KeptIP
  <2>5. CASE Release(c)
    BY <2>3, <2>3a, <2>3b, <2>5 DEF Release, SetCall
  <2>6. CASE Unadopt(c)
    BY <2>3, <2>3a, <2>3b, <2>6 DEF Unadopt, SetCall
  <2> QED
    BY <1>11, <2>4, <2>5, <2>6
<1>12. ASSUME NEW c \in Container, Adopt(c) PROVE TypeInv'
  BY <1>12 DEF Adopt, SetCall, runVars
<1>13. ASSUME NEW c \in Container, OrphanDies(c) PROVE TypeInv'
  BY <1>13 DEF OrphanDies, SetCall, runVars
<1>14. ASSUME NEW c \in Container, RegisterDead(c) PROVE TypeInv'
  BY <1>14 DEF RegisterDead, SetCall, runVars
<1>15. CASE UNCHANGED vars
  BY <1>15 DEF vars
<1>16. CASE Serve
  BY <1>16 DEF Serve, runVars
<1> QED
  BY <1>1, <1>2, <1>3, <1>4, <1>5, <1>6, <1>7, <1>8, <1>9, <1>10, <1>11,
     <1>12, <1>13, <1>14, <1>15, <1>16 DEF Next, Run, Registration

(* Every variable keeps its type: run() never leaves the host addresses,   *)
(* and only host addresses are handed out and taken back.                  *)
THEOREM TypeCorrect == Spec => []TypeOK
<1>1. TypeInv => TypeOK
  BY DEF TypeInv
<1> QED
  BY InitType, NextType, <1>1, PTL DEF Spec

-----------------------------------------------------------------------------
(* No address is given twice. *)

(* The address of a container that this daemon serves is marked, or about  *)
(* to be.                                                                  *)
Marked ==
    \A c \in Container :
        call[c] \in {"starting", "undo", "up", "release"} =>
            ip[c] \in inUse \/ (pc = "mark" /\ newNum = ip[c])

(* What is on offer is marked for nobody, is not the bridge's address, and *)
(* is the address looked at last.                                          *)
OfferFree ==
    pc = "select" /\ seen = "free" =>
        /\ newNum \notin inUse
        /\ newNum # OwnIP
        /\ pos = IF newNum = Max THEN 1 ELSE newNum + 1

(* Nobody has the bridge's address. *)
OwnAvoided ==
    \A c \in Container : Holding(c) => ip[c] # OwnIP

(* A search that has seen no marked address has looked at nothing but the  *)
(* bridge's own.                                                           *)
SearchSound ==
    pc = "search" /\ seen = "free" =>
        attempt = 0 \/ (attempt = 1 /\ pos # OwnIP)

(* No ghost has lost its interface, and none that was released can be      *)
(* started again with an address of old.                                   *)
GhostsTame ==
    \A c \in Container :
        /\ call[c] \notin {"unadopt", "detached"}
        /\ call[c] = "orphan" => "survive" \in Fates
        /\ call[c] = "dead" => "die" \in Fates
        /\ c \in running =>
               "die" \in Fates \/ call[c] \in {"up", "release", "orphan"}
        /\ ghost[c] => "survive" \in Fates
        /\ ghost[c] => \/ call[c] \in {"up", "release", "orphan"}
                       \/ call[c] = "stopped" /\ ip[c] = NoIP

(* Until the last orphan is adopted nobody has asked for an address, so    *)
(* run() has nothing on offer but FirstIP.                                 *)
OnlyFirstOffered ==
    (\E c \in Container : call[c] = "orphan") =>
        /\ daemon = "restoring" /\ ~Registering
        /\ FirstIP \notin inUse
        /\ \/ pc = "search" /\ attempt = 0 /\ pos = 1
           \/ pc = "select" /\ newNum = FirstIP /\ seen = "free" /\ pos = 2

(* Nobody keeps FirstIP: who is given it asks again while it is marked. *)
FirstAvoided ==
    "survive" \in Fates =>
        \A c \in Container :
            /\ Holding(c) => ip[c] # FirstIP
            /\ call[c] = "reacquire" =>
                   FirstIP \in inUse \/ (pc = "mark" /\ newNum = FirstIP)

IInv ==
    /\ Marked
    /\ OfferFree
    /\ OwnAvoided
    /\ SearchSound
    /\ GhostsTame
    /\ OnlyFirstOffered
    /\ FirstAvoided
    /\ UniqueIP

LEMMA InitIInv == Init => IInv
BY DEF Init, IInv, Marked, OfferFree, OwnAvoided, SearchSound, GhostsTame,
       OnlyFirstOffered, FirstAvoided, UniqueIP, Holding

LEMMA NextIInv ==
    ASSUME SafeRestart, TypeInv, IInv, [Next]_vars
    PROVE  IInv'
<1> USE DEF IInv, Marked, OfferFree, OwnAvoided, SearchSound, GhostsTame,
            OnlyFirstOffered, FirstAvoided, UniqueIP, SafeRestart,
            Registering, TypeInv, TypeOK, Looked, HasIP, Holding, Calls, SetCall, runVars
<1>1. CASE TryNext
  BY <1>1, NextPosValue DEF TryNext
<1>2. CASE RoundOver
  BY <1>2 DEF RoundOver
<1>3. CASE Mark
  BY <1>3 DEF Mark, NewSearch
<1>4. CASE RestartDaemon
  BY <1>4 DEF RestartDaemon, Aftermath, KeptIP
<1>5. ASSUME NEW c \in Container, Start(c) PROVE IInv'
  BY <1>5 DEF Start
<1>6. ASSUME NEW c \in Container, StartGhost(c) PROVE IInv'
  BY <1>6 DEF StartGhost
<1>7. ASSUME NEW c \in Container, Acquire(c) PROVE IInv'
  BY <1>7 DEF Acquire
<1>8. ASSUME NEW c \in Container, Started(c) PROVE IInv'
  BY <1>8 DEF Started
<1>9. ASSUME NEW c \in Container, StartFails(c) PROVE IInv'
  BY <1>9 DEF StartFails, KeptIP
<1>10. ASSUME NEW c \in Container, PortsFail(c) PROVE IInv'
  BY <1>10 DEF PortsFail
<1>11. ASSUME NEW c \in Container, Exit(c) PROVE IInv'
  BY <1>11 DEF Exit
<1>12. ASSUME NEW c \in Container, UndoStart(c) PROVE IInv'
  BY <1>12 DEF UndoStart, TakeBack, NewSearch, PosAfterRelease, KeptIP
<1>13. ASSUME NEW c \in Container, Release(c) PROVE IInv'
  BY <1>13 DEF Release, TakeBack, NewSearch, PosAfterRelease
<1>14. ASSUME NEW c \in Container, Unadopt(c) PROVE IInv'
  BY <1>14 DEF Unadopt
<1>15. ASSUME NEW c \in Container, Adopt(c) PROVE IInv'
  BY <1>15 DEF Adopt
<1>16. ASSUME NEW c \in Container, OrphanDies(c) PROVE IInv'
  BY <1>16 DEF OrphanDies
<1>17. ASSUME NEW c \in Container, RegisterDead(c) PROVE IInv'
  BY <1>17 DEF RegisterDead
<1>18. CASE UNCHANGED vars
  BY <1>18 DEF vars
<1>19. CASE Serve
  BY <1>19 DEF Serve
<1> QED
  BY <1>1, <1>2, <1>3, <1>4, <1>5, <1>6, <1>7, <1>8, <1>9, <1>10, <1>11,
         <1>12, <1>13, <1>14, <1>15, <1>16, <1>17, <1>18, <1>19 DEF Next,
         Run, Registration

LEMMA Invariance ==
    ASSUME SafeRestart
    PROVE  Spec => [](TypeInv /\ IInv)
<1>1. Init => TypeInv /\ IInv
  BY InitType, InitIInv
<1>2. TypeInv /\ IInv /\ [Next]_vars => (TypeInv /\ IInv)'
  BY NextType, NextIInv
<1> QED
  BY <1>1, <1>2, PTL DEF Spec

(* No two containers ever have one address, as long as a restart of the    *)
(* daemon is one that SafeRestart describes.                               *)
THEOREM NoDuplicateIP ==
    ASSUME SafeRestart
    PROVE  Spec => []UniqueIP
<1>1. IInv => UniqueIP
  BY DEF IInv
<1> QED
  BY Invariance, <1>1, PTL

(* After a release the first address looked at is free.                    *)
THEOREM ReleasedComesNext ==
    ASSUME SafeRestart
    PROVE  Spec => ReleasedIsNext
<1>1. ASSUME TypeInv, IInv, [Next]_vars, NEW c \in Container,
             call[c] = "release", call'[c] = "stopped"
      PROVE  pos' \notin inUse' /\ pos' # OwnIP
  <2>1. CASE RestartDaemon
    BY <1>1, <2>1 DEF RestartDaemon, Aftermath
  <2>2. CASE Release(c)
    BY <1>1, <2>2 DEF Release, TakeBack, PosAfterRelease, TypeInv, TypeOK,
                      HasIP, Holding, IInv, OfferFree, OwnAvoided, Looked
  <2>3. CASE ~RestartDaemon /\ ~Release(c)
    BY <1>1, <2>3 DEF Next, Run, TryNext, RoundOver, Mark, Registration,
          Start, StartGhost, Acquire, Started, StartFails, PortsFail,
          UndoStart, Exit, Release, Unadopt, Adopt, OrphanDies,
          RegisterDead, SetCall, vars, TypeInv, TypeOK, Serve
  <2> QED
    BY <2>1, <2>2, <2>3
<1>2. TypeInv /\ IInv /\ [Next]_vars
        => [\A c \in Container :
              call[c] = "release" /\ call'[c] = "stopped"
                => pos' \notin inUse' /\ pos' # OwnIP]_vars
  BY <1>1
<1> QED
  BY <1>2, Invariance, PTL DEF Spec, ReleasedIsNext

-----------------------------------------------------------------------------
(* The error is reported only when the network is full.  This needs no     *)
(* assumption about restarts: inUse only grows while run() searches.       *)

(* What the search has gone over: the attempt addresses before pos, around *)
(* the network.                                                            *)
Visited(a) ==
    IF a < pos THEN pos - a <= attempt ELSE pos + Max - a <= attempt

VisitedUsed ==
    pc = "search" => \A a \in Host \ {OwnIP} : Visited(a) => a \in inUse

FullInv == VisitedUsed /\ ErrorMeansFull

LEMMA InitFull == Init => FullInv
BY DEF Init, FullInv, VisitedUsed, Visited, ErrorMeansFull

LEMMA NextFull == TypeInv /\ FullInv /\ [Next]_vars => FullInv'
<1> SUFFICES ASSUME TypeInv, FullInv, [Next]_vars PROVE FullInv'
  OBVIOUS
<1> USE DEF TypeInv, TypeOK, FullInv, VisitedUsed, Visited, ErrorMeansFull
<1>1. CASE TryNext
  <2>1. ASSUME NEW a \in Host \ {OwnIP}, pc' = "search", Visited(a)'
        PROVE  a \in inUse'
    <3>1. a = pos \/ Visited(a)
      BY <1>1, <2>1, NextPosValue DEF TryNext
    <3> QED
      BY <1>1, <2>1, <3>1 DEF TryNext
  <2> QED
    BY <1>1, <2>1 DEF TryNext
<1>2. CASE RoundOver
  BY <1>2 DEF RoundOver
<1>3. CASE Mark \/ RestartDaemon
  BY <1>3, NextType DEF Mark, NewSearch, RestartDaemon
<1>4. ASSUME NEW c \in Container, UndoStart(c) \/ Release(c) \/ Unadopt(c)
      PROVE  FullInv'
  BY <1>4, NextType DEF UndoStart, Release, Unadopt, TakeBack, NewSearch
<1>5. ASSUME NEW c \in Container, Acquire(c) PROVE FullInv'
  BY <1>5 DEF Acquire
<1>6. ASSUME /\ UNCHANGED runVars
             /\ inUse \subseteq inUse'
      PROVE  FullInv'
  BY <1>6 DEF runVars
<1>7. ASSUME NEW c \in Container,
             \/ Start(c) \/ StartGhost(c) \/ Started(c) \/ StartFails(c)
             \/ PortsFail(c) \/ Exit(c) \/ Adopt(c) \/ OrphanDies(c)
             \/ RegisterDead(c)
      PROVE  UNCHANGED runVars /\ inUse \subseteq inUse'
  BY <1>7 DEF Start, StartGhost, Started, StartFails, PortsFail, Exit,
              Adopt, OrphanDies, RegisterDead
<1>8. CASE UNCHANGED vars
  BY <1>8 DEF vars
<1>9. CASE Serve
  BY <1>6, <1>9 DEF Serve
<1> QED
  BY <1>1, <1>2, <1>3, <1>4, <1>5, <1>6, <1>7, <1>8, <1>9
     DEF Next, Run, Registration

(* "No unallocated IP available" is never said while there is one.         *)
THEOREM ErrorOnlyWhenFull == Spec => []ErrorMeansFull
<1>1. FullInv => ErrorMeansFull
  BY DEF FullInv
<1> QED
  BY InitType, NextType, InitFull, NextFull, <1>1, PTL DEF Spec

-----------------------------------------------------------------------------
(* No address is lost: one that is marked belongs to somebody.  This needs *)
(* no assumption about restarts, but that no Start fails late.             *)

(* Somebody registered with this daemon has the address, or it is one of   *)
(* the two that nobody has: FirstIP, which Allocate passes over, and the   *)
(* bridge's.                                                               *)
Owned(a) ==
    \/ a \in {FirstIP, OwnIP}
    \/ \E c \in Container : Holding(c) /\ call[c] # "orphan" /\ ip[c] = a

(* Nor is the one that run() is about to mark.                             *)
LostInv ==
    /\ \A a \in inUse : Owned(a)
    /\ pc = "mark" => Owned(newNum)

LEMMA InitLost == Init => LostInv
BY DEF Init, LostInv

(* Who has an address keeps it.                                            *)
LEMMA OwnedStays ==
    ASSUME \A d \in Container :
             Holding(d) /\ call[d] # "orphan" =>
                 Holding(d)' /\ call'[d] # "orphan" /\ ip'[d] = ip[d]
    PROVE  \A a : Owned(a) => Owned(a)'
BY DEF Owned

(* Who gives an address back takes its mark away.                          *)
LEMMA LostTakenBack ==
    ASSUME LostInv, NEW c \in Container, TakeBack(c),
           \A d \in Container \ {c} : call'[d] = call[d] /\ ip'[d] = ip[d]
    PROVE  LostInv'
<1>1. \A a \in inUse' : a \in inUse /\ a # ip[c]
  BY DEF TakeBack
<1>2. \A a : Owned(a) /\ a # ip[c] => Owned(a)'
  BY DEF Owned, Holding
<1>3. pc' # "mark"
  BY DEF TakeBack, NewSearch
<1> QED
  BY <1>1, <1>2, <1>3 DEF LostInv

LEMMA NextLost ==
    ASSUME "start" \notin Faults, TypeInv, FullInv, LostInv, [Next]_vars
    PROVE  LostInv'
<1> USE DEF SetCall, runVars
<1>0. call \in [Container -> Calls] /\ ip \in [Container -> 0 .. Max] /\ newNum \in 0 .. Max
  BY DEF TypeInv, TypeOK
<1>1. CASE Run \/ Serve \/ UNCHANGED vars
  <2>1. \A a : Owned(a)' <=> Owned(a)
    BY <1>1 DEF Run, Serve, TryNext, RoundOver, Mark, vars, Owned, Holding
  <2>2. CASE Mark
    BY <2>1, <2>2 DEF Mark, NewSearch, LostInv
  <2>3. CASE ~ Mark
    BY <1>1, <2>1, <2>3 DEF Run, Serve, TryNext, RoundOver, vars, LostInv
  <2> QED
    BY <2>2, <2>3
<1>2. CASE RestartDaemon
  BY <1>2 DEF RestartDaemon, LostInv
<1>3. ASSUME NEW c \in Container, Acquire(c)
      PROVE  LostInv'
  <2>1. /\ pc = "select" /\ pc' = "mark" /\ inUse' = inUse /\ newNum' = newNum
        /\ call[c] \in {"acquire", "reacquire"}
    BY <1>3 DEF Acquire
  <2>2. \A d \in Container \ {c} : call'[d] = call[d] /\ ip'[d] = ip[d]
    BY <1>0, <1>3 DEF Acquire
  <2>3. \A a : Owned(a) => Owned(a)'
    BY <2>1, <2>2, OwnedStays DEF Holding
  <2>4. Owned(newNum)'
    <3>1. CASE Refused
      <4>1. Host \ {OwnIP} \subseteq inUse
        BY <2>1, <3>1 DEF FullInv, ErrorMeansFull
      <4>2. newNum \in Host
        BY <2>1 DEF TypeInv, Looked
      <4>3. PICK a \in Host : a = newNum
        BY <4>2
      <4>4. Owned(a)
        BY <4>1, <4>3 DEF LostInv, Owned
      <4>5. Owned(a)'
        BY <2>3, <4>4
      <4> QED
        BY <2>1, <4>3, <4>5 DEF Owned
    <3>2. CASE ~ Refused /\ ~ Keeps(c)
      BY <2>1, <3>2 DEF Owned
    <3>3. CASE ~ Refused /\ Keeps(c)
      <4>1. call'[c] = "starting" /\ ip'[c] = newNum
        BY <1>0, <1>3, <3>3 DEF Acquire
      <4> QED
        BY <2>1, <4>1 DEF Owned, Holding
    <3> QED
      BY <2>1, <3>1, <3>2, <3>3
  <2> QED
    BY <2>1, <2>3, <2>4 DEF LostInv
<1>4. ASSUME NEW c \in Container, UndoStart(c) \/ Release(c) \/ Unadopt(c)
      PROVE  LostInv'
  BY <1>0, <1>4, LostTakenBack DEF UndoStart, Release, Unadopt
<1>5. ASSUME NEW c \in Container,
             \/ Start(c) \/ StartGhost(c) \/ Started(c) \/ PortsFail(c) \/ Exit(c)
             \/ Adopt(c) \/ OrphanDies(c) \/ RegisterDead(c)
      PROVE  LostInv'
  <2>1. \A d \in Container :
          Holding(d) /\ call[d] # "orphan" =>
              Holding(d)' /\ call'[d] # "orphan" /\ ip'[d] = ip[d]
    BY <1>0, <1>5 DEF Start, StartGhost, Started, PortsFail, Exit, Adopt,
       OrphanDies, RegisterDead, Holding
  <2>2. \A a : Owned(a) => Owned(a)'
    BY <2>1, OwnedStays
  <2>3. \A a \in inUse' : a \in inUse \/ Owned(a)'
    <3>1. CASE StartGhost(c) \/ Adopt(c)
      <4>1. Holding(c)' /\ call'[c] # "orphan" /\ ip'[c] = ip[c]
        BY <1>0, <3>1 DEF StartGhost, Adopt, Holding
      <4> QED
        BY <3>1, <4>1 DEF StartGhost, Adopt, Owned
    <3>2. CASE ~ StartGhost(c) /\ ~ Adopt(c)
      BY <1>5, <3>2 DEF Start, Started, PortsFail, Exit, OrphanDies, RegisterDead
    <3> QED
      BY <3>1, <3>2
  <2>4. pc' = pc /\ newNum' = newNum
    BY <1>5 DEF Start, StartGhost, Started, PortsFail, Exit, Adopt, OrphanDies,
       RegisterDead
  <2> QED
    BY <2>2, <2>3, <2>4 DEF LostInv
<1>6. ASSUME NEW c \in Container, StartFails(c)
      PROVE  FALSE
  BY <1>6 DEF StartFails
<1> QED
  BY <1>1, <1>2, <1>3, <1>4, <1>5, <1>6 DEF Next, Registration

(* When every Start with an address succeeds, no address but FirstIP and   *)
(* the bridge's own is lost, through any interleaving, failing ports,      *)
(* ghosts that cannot be adopted, and every kind of restart: run() marks   *)
(* what it sent even when that was an error, but an error means that the   *)
(* address had an owner already.                                           *)
THEOREM NothingIsLost ==
    ASSUME "start" \notin Faults
    PROVE  Spec => []NothingLost
<1>1. LostInv => NothingLost
  BY DEF LostInv, Owned, NothingLost
<1>2. TypeInv /\ FullInv /\ LostInv /\ [Next]_vars => LostInv'
  BY NextLost
<1> QED
  BY InitType, NextType, InitFull, NextFull, InitLost, <1>1, <1>2, PTL DEF Spec

(* What a restart must leave alone: nobody's address is given to another,  *)
(* and nobody's is lost.                                                   *)
Restarted == UniqueIP /\ NothingLost

(* Both together, where the restarts are those of SafeRestart.             *)
THEOREM RestartsKeepAddresses ==
    ASSUME SafeRestart, "start" \notin Faults
    PROVE  Spec => []Restarted
<1>1. UniqueIP /\ NothingLost => Restarted
  BY DEF Restarted
<1> QED
  BY <1>1, NoDuplicateIP, NothingIsLost, PTL

-----------------------------------------------------------------------------
(* The allocator implements the lease. *)

LeaseHeld == [c \in Container |-> IF Holding(c) THEN {ip[c]} ELSE {}]

LEMMA LeaseInit == Init => Lease!Init
BY DEF Init, Lease!Init, Holding

(* Only a rendezvous on queueAlloc, or a stale ghost's Start, gives an     *)
(* address; the invariant says that nobody has it.                         *)
LEMMA LeaseAcquire ==
    ASSUME SafeRestart, TypeInv, IInv, NEW c \in Container, Acquire(c)
    PROVE  Lease!Next \/ UNCHANGED LeaseHeld
<1> USE DEF TypeInv, TypeOK, Looked, Holding, Acquire, SetCall, Calls
<1>1. CASE call'[c] # "starting"
  <2>1. \A d \in Container : Holding(d)' = Holding(d) /\ ip'[d] = ip[d]
    BY <1>1
  <2> QED
    BY <2>1 DEF LeaseHeld
<1>2. CASE call'[c] = "starting"
  <2>1. newNum \in Host /\ newNum \notin inUse /\ ip'[c] = newNum
    BY <1>2 DEF IInv, OfferFree
  <2>2. \A d \in Container : Holding(d) => ip[d] \in inUse
    BY DEF IInv, Marked, GhostsTame, OnlyFirstOffered, Registering
  <2>3. newNum \notin Lease!Taken
    BY <2>1, <2>2 DEF Lease!Taken
  <2>4. LeaseHeld' = [LeaseHeld EXCEPT ![c] = @ \cup {newNum}]
    <3>1. ~Holding(c) /\ Holding(c)'
      BY <1>2
    <3>2. \A d \in Container \ {c} :
            Holding(d)' = Holding(d) /\ ip'[d] = ip[d]
      BY <1>2
    <3>3. LeaseHeld'[c] = LeaseHeld[c] \cup {newNum}
      BY <2>1, <3>1 DEF LeaseHeld
    <3>4. \A d \in Container \ {c} : LeaseHeld'[d] = LeaseHeld[d]
      BY <3>2 DEF LeaseHeld
    <3> QED
      BY <3>3, <3>4 DEF LeaseHeld
  <2> QED
    BY <2>1, <2>3, <2>4, ZenonT(40) DEF Lease!Next, Lease!Take, LeaseHeld
<1> QED
  BY <1>1, <1>2

(* A step that gives no address only lets addresses go. *)
LEMMA LeaseDrop ==
    ASSUME TypeInv,
           \A c \in Container : Holding(c)' => Holding(c) /\ ip'[c] = ip[c]
    PROVE  Lease!Next
<1>1. LeaseHeld' \in [Container -> SUBSET Host]
  BY DEF LeaseHeld, TypeInv, HasIP
<1>2. \A c \in Container : LeaseHeld'[c] \subseteq LeaseHeld[c]
  BY DEF LeaseHeld
<1> QED
  BY <1>1, <1>2 DEF Lease!Next, Lease!Drop, LeaseHeld

LEMMA LeaseStep ==
    ASSUME SafeRestart, TypeInv, IInv, [Next]_vars
    PROVE  Lease!Next \/ UNCHANGED LeaseHeld
<1> USE DEF TypeInv, TypeOK, Holding, SetCall, runVars
<1>1. CASE Run \/ Serve \/ UNCHANGED vars
  BY <1>1 DEF Run, Serve, TryNext, RoundOver, Mark, vars, LeaseHeld
<1>2. CASE RestartDaemon
  <2>1. \A c \in Container : Holding(c)' => Holding(c) /\ ip'[c] = ip[c]
    BY <1>2 DEF RestartDaemon, Aftermath
  <2> QED
    BY <2>1, LeaseDrop
<1>3. ASSUME NEW c \in Container, Acquire(c)
      PROVE  Lease!Next \/ UNCHANGED LeaseHeld
  BY <1>3, LeaseAcquire
<1>4. ASSUME NEW c \in Container, StartGhost(c)
      PROVE  FALSE
  BY <1>4 DEF StartGhost, IInv, GhostsTame
<1>5. ASSUME NEW c \in Container,
             \/ Start(c) \/ Started(c) \/ StartFails(c) \/ PortsFail(c)
             \/ UndoStart(c) \/ Exit(c) \/ Release(c) \/ Registration(c)
      PROVE  Lease!Next
  <2>1. \A d \in Container : Holding(d)' => Holding(d) /\ ip'[d] = ip[d]
    BY <1>5 DEF Start, Started, StartFails, PortsFail, UndoStart, Exit,
                Release, Registration, Adopt, Unadopt, OrphanDies,
                RegisterDead
  <2> QED
    BY <2>1, LeaseDrop
<1> QED
  BY <1>1, <1>2, <1>3, <1>4, <1>5 DEF Next

(* Every step of the allocator and its callers is a step of ExclusiveLease *)
(* or leaves it alone.                                                     *)
THEOREM ImplementsLease ==
    ASSUME SafeRestart
    PROVE  Spec => LeaseSpec
<1>1. TypeInv /\ IInv /\ [Next]_vars => [Lease!Next]_LeaseHeld
  BY LeaseStep
<1> QED
  BY <1>1, LeaseInit, Invariance, PTL DEF Spec, LeaseSpec, Lease!Spec, LeaseHeld
=============================================================================
