-------------------------- MODULE PortMappingProofs --------------------------
(***************************************************************************)
(* Theorems about the public ports, for every set of containers and ports, *)
(* every list of port specs, every restart of the daemon and every failure *)
(* but that of iptables -D.                                                *)
(***************************************************************************)
EXTENDS PortMapping, FiniteSetTheorems, TLAPS

USE PortAssumption, RangeAssumption, ContainerAssumption,
    PortSpecsAssumption, ForeignAssumption
    DEF Anywhere, PortRange, InUse, Freed, AfterBindFails

-----------------------------------------------------------------------------
(* Sequences. *)

(* No port is twice in an interface's list. *)
NoRepeat(s) == \A i, j \in 1 .. Len(s) : s[i] = s[j] => i = j

LEMMA RanAppend ==
    ASSUME NEW s \in Seq(Port), NEW p \in Port
    PROVE  /\ Append(s, p) \in Seq(Port)
           /\ Ran(Append(s, p)) = Ran(s) \cup {p}
           /\ NoRepeat(s) /\ p \notin Ran(s) => NoRepeat(Append(s, p))
<1>1. /\ Append(s, p) \in Seq(Port)
      /\ DOMAIN Append(s, p) = 1 .. Len(s) + 1
      /\ Len(Append(s, p)) = Len(s) + 1
      /\ \A i \in 1 .. Len(s) : Append(s, p)[i] = s[i]
      /\ Append(s, p)[Len(s) + 1] = p
  OBVIOUS
<1>2. DOMAIN s = 1 .. Len(s) /\ Len(s) \in Nat
  OBVIOUS
<1>3. Ran(Append(s, p)) = Ran(s) \cup {p}
  BY <1>1, <1>2 DEF Ran
<1> QED
  BY <1>1, <1>2, <1>3, SMTT(20) DEF Ran, NoRepeat

LEMMA RanTail ==
    ASSUME NEW s \in Seq(Port), s # <<>>, NoRepeat(s)
    PROVE  /\ Tail(s) \in Seq(Port)
           /\ Head(s) \in Port /\ Head(s) \in Ran(s)
           /\ Ran(Tail(s)) = Ran(s) \ {Head(s)}
           /\ NoRepeat(Tail(s))
<1>1. /\ Tail(s) \in Seq(Port)
      /\ DOMAIN Tail(s) = 1 .. Len(s) - 1
      /\ Len(Tail(s)) = Len(s) - 1
      /\ \A i \in 1 .. Len(s) - 1 : Tail(s)[i] = s[i + 1]
      /\ Head(s) = s[1]
  OBVIOUS
<1>2. DOMAIN s = 1 .. Len(s) /\ Len(s) \in Nat \ {0}
  OBVIOUS
<1>3. Head(s) \in Port /\ Head(s) \in Ran(s)
  BY <1>1, <1>2 DEF Ran
<1>4. Ran(Tail(s)) = Ran(s) \ {Head(s)}
  <2>1. ASSUME NEW x \in Ran(s), x # Head(s) PROVE x \in Ran(Tail(s))
    <3>1. PICK i \in 1 .. Len(s) : x = s[i]
      BY <1>2 DEF Ran
    <3>2. i # 1
      BY <3>1, <2>1, <1>1
    <3>3. i - 1 \in 1 .. Len(s) - 1 /\ Tail(s)[i - 1] = x
      BY <3>1, <3>2, <1>1, <1>2
    <3> QED
      BY <3>3, <1>1 DEF Ran
  <2>2. ASSUME NEW x \in Ran(Tail(s)) PROVE x \in Ran(s) /\ x # Head(s)
    BY <1>1, <1>2 DEF Ran, NoRepeat
  <2> QED
    BY <2>1, <2>2
<1>5. NoRepeat(Tail(s))
  BY <1>1, <1>2 DEF NoRepeat
<1> QED
  BY <1>1, <1>3, <1>4, <1>5

(* The one rule of a port is deleted, and nothing else is.                 *)
LEMMA DeletedOnly ==
    ASSUME NEW c
    PROVE  /\ Deleted(<<c>>, c) = <<>>
           /\ Deleted(<<>>, c) = <<>>
BY DEF Deleted

LEMMA DeletedType ==
    ASSUME NEW S, NEW s \in Seq(S), NEW x
    PROVE  Deleted(s, x) \in Seq(S)
<1>1. CASE \E j \in 1 .. Len(s) : s[j] = x
  <2> DEFINE i == CHOOSE j \in 1 .. Len(s) :
                      s[j] = x /\ \A k \in 1 .. j - 1 : s[k] # x
             t == [j \in 1 .. Len(s) - 1 |-> IF j < i THEN s[j] ELSE s[j + 1]]
  <2>1. Len(s) \in Nat \ {0} /\ \A j \in 1 .. Len(s) : s[j] \in S
    BY <1>1
  <2>2. Deleted(s, x) = t
    BY <1>1 DEF Deleted
  <2> HIDE DEF i
  <2>3. t \in [1 .. Len(s) - 1 -> S]
    BY <2>1
  <2> QED
    BY <2>1, <2>2, <2>3
<1>2. CASE ~ \E j \in 1 .. Len(s) : s[j] = x
  BY <1>2 DEF Deleted
<1> QED
  BY <1>1, <1>2

(* Every order of a finite set of entries is a list of specs.              *)
LEMMA OrdersType ==
    ASSUME NEW S \in SUBSET Entry, IsFiniteSet(S), NEW s \in Orders(S)
    PROVE  s \in Seq(Wish)
<1>1. Cardinality(S) \in Nat
  BY FS_CardinalityType
<1>2. s \in Seq(Entry)
  BY <1>1 DEF Orders
<1>3. Entry \subseteq Wish
  BY DEF Entry, Wish
<1> QED
  BY <1>2, <1>3

-----------------------------------------------------------------------------
(* Type correctness. *)

(* What a step of a container needs is there: the port it works on, the    *)
(* spec it serves, a port to free.  What is saved is finite, so that a     *)
(* ghost's specs have an order.                                            *)
Ready ==
    \A c \in Container :
        /\ step[c] \in {"claim", "map", "bind", "unmap", "unclaim"} =>
               port[c] \in Port
        /\ step[c] \in {"claim", "map", "bind"} => todo[c] # <<>>
        /\ step[c] \in {"undofree", "exitfree"} => extPorts[c] # <<>>
        /\ IsFiniteSet(saved[c]) /\ IsFiniteSet(disk[c])

TypeInv == TypeOK /\ Ready

LEMMA InitType == Init => TypeInv
<1> SUFFICES ASSUME Init PROVE TypeInv
  OBVIOUS
<1>1. TypeOK
  BY DEF Init, TypeOK, Steps, Nothing
<1>2. Ready
  BY FS_EmptySet DEF Init, Ready
<1> QED
  BY <1>1, <1>2 DEF TypeInv

(* allocateNetwork starts with a list of specs.                            *)
LEMMA AllocateType ==
    ASSUME TypeInv, NEW c \in Container, NEW specs \in Seq(Wish),
           Allocate(c, specs),
           UNCHANGED <<netVars, port, disk>>,
           ghost' \in [Container -> {"no", "yes", "bare"}],
           alive' \subseteq Container, running' \subseteq Container,
           daemon' \in {"restoring", "serving"}
    PROVE  TypeInv'
<1>1. TypeOK'
  <2>1. /\ step' \in [Container -> Steps]
        /\ todo' \in [Container -> Seq(Wish)]
        /\ extPorts' \in [Container -> Seq(Port)]
        /\ saved' \in [Container -> SUBSET Entry]
    BY DEF TypeInv, TypeOK, Allocate, SetStep, Steps
  <2> QED
    BY <2>1 DEF TypeInv, TypeOK, netVars
<1>2. Ready'
  BY FS_EmptySet DEF TypeInv, TypeOK, Ready, Allocate, SetStep
<1> QED
  BY <1>1, <1>2 DEF TypeInv

LEMMA NextType == TypeInv /\ [Next]_vars => TypeInv'
<1> SUFFICES ASSUME TypeInv, [Next]_vars PROVE TypeInv'
  OBVIOUS
<1> USE DEF TypeInv, TypeOK, Ready, SetStep, netVars, diskVars
<1>1. ASSUME NEW c \in Container, Draw(c) PROVE TypeInv'
  BY <1>1 DEF Draw, NextPort, Steps
<1>2. ASSUME NEW c \in Container, Claim(c) PROVE TypeInv'
  <2>1. CASE step[c] = "claim"
    <3>1. port[c] \in Port
      BY <2>1
    <3> QED
      BY <1>2, <2>1, <3>1 DEF Claim, Steps
  <2>2. CASE step[c] = "ports" /\ todo[c] # <<>> /\ Head(todo[c]).front # Anywhere
    <3>1. Head(todo[c]) \in Wish
      BY <2>2
    <3>2. Head(todo[c]).front \in Port
      BY <2>2, <3>1 DEF Wish
    <3> QED
      BY <1>2, <2>2, <3>2, ZenonT(40) DEF Claim, Steps
  <2> QED
    BY <1>2, <2>1, <2>2 DEF Claim
<1>3. ASSUME NEW c \in Container, AddRule(c) PROVE TypeInv'
  <2>1. port[c] \in Port
    BY <1>3 DEF AddRule
  <2>1a. chain[port[c]] \in Seq(Container)
    BY <2>1
  <2>2. Append(chain[port[c]], c) \in Seq(Container)
    BY <2>1a
  <2> QED
    BY <1>3, <2>1, <2>2 DEF AddRule, Steps
<1>4. ASSUME NEW c \in Container, AddFails(c) PROVE TypeInv'
  BY <1>4 DEF AddFails, Steps
<1>5. ASSUME NEW c \in Container, Bind(c) PROVE TypeInv'
  <2>1. Head(todo[c]) \in Wish /\ Tail(todo[c]) \in Seq(Wish)
    BY <1>5 DEF Bind
  <2> DEFINE e == [front |-> port[c], back |-> Head(todo[c]).back]
             S == {x \in saved[c] : x.back # Head(todo[c]).back}
  <2>2. e \in Entry
    BY <1>5, <2>1 DEF Bind, Wish, Entry
  <2>3. IsFiniteSet(S \cup {e})
    <3>1. IsFiniteSet(saved[c]) /\ S \subseteq saved[c]
      OBVIOUS
    <3>2. IsFiniteSet(S)
      BY <3>1, FS_Subset
    <3> QED
      BY <3>2, FS_AddElement
  <2>4. saved' = [saved EXCEPT ![c] = S \cup {e}]
    BY <1>5 DEF Bind, Recorded
  <2> HIDE DEF e, S
  <2>5. S \cup {e} \subseteq Entry
    BY <2>2 DEF S
  <2>6. port[c] \in Port /\ Append(extPorts[c], port[c]) \in Seq(Port)
    BY <1>5 DEF Bind
  <2>7. TypeOK'
    BY <1>5, <2>1, <2>4, <2>5, <2>6 DEF Bind, Steps
  <2>8. Ready'
    BY <1>5, <2>3, <2>4 DEF Bind, Steps
  <2> QED
    BY <2>7, <2>8
<1>6. ASSUME NEW c \in Container, BindFails(c) PROVE TypeInv'
  BY <1>6 DEF BindFails, Steps
<1>7. ASSUME NEW c \in Container, Unmap(c) PROVE TypeInv'
  <2>1. Leaving(c) \in Port
    BY <1>7 DEF Unmap, Unmapping, Leaving
  <2>2. Deleted(chain[Leaving(c)], mapping[Leaving(c)]) \in Seq(Container)
    BY <2>1, DeletedType
  <2>3. /\ chain' \in [Port -> Seq(Container)]
        /\ mapping' \in [Port -> Container \cup {None}]
    <3> DEFINE p == Leaving(c)
    <3>1. CASE /\ chain' = [chain EXCEPT ![p] = Deleted(@, mapping[p])]
               /\ mapping' = [mapping EXCEPT ![p] = None]
      <4>1. p \in Port /\ Deleted(chain[p], mapping[p]) \in Seq(Container)
        BY <2>1, <2>2
      <4> HIDE DEF p
      <4> QED
        BY <4>1, <3>1
    <3>2. CASE UNCHANGED <<chain, mapping>>
      BY <3>2
    <3> QED
      BY <1>7, <3>1, <3>2 DEF Unmap
  <2>3a. proxies' \in [Port -> Container \cup {None}]
    BY <1>7, <2>1 DEF Unmap
  <2>4. step' \in [Container -> Steps]
    BY <1>7 DEF Unmap, Unmapping, AfterUnmap, Steps
  <2> QED
    BY <1>7, <2>1, <2>3, <2>3a, <2>4 DEF Unmap, Unmapping, AfterUnmap
<1>8. ASSUME NEW c \in Container, Free(c) PROVE TypeInv'
  <2>1. extPorts' \in [Container -> Seq(Port)]
    BY <1>8 DEF Free, Freeing
  <2> QED
    BY <1>8, <2>1 DEF Free, Freeing, AfterFree, Steps
<1>9. ASSUME NEW c \in Container, Undone(c) PROVE TypeInv'
  BY <1>9 DEF Undone, Steps
<1>10. ASSUME NEW c \in Container, NetworkReady(c) PROVE TypeInv'
  BY <1>10 DEF NetworkReady, Steps
<1>11. ASSUME NEW c \in Container, Start(c) PROVE TypeInv'
  BY <1>11, AllocateType DEF Start
<1>12. ASSUME NEW c \in Container, StartGhost(c) PROVE TypeInv'
  BY <1>12, AllocateType, OrdersType DEF StartGhost
<1>13. ASSUME NEW c \in Container, Started(c) PROVE TypeInv'
  BY <1>13 DEF Started, Steps
<1>14. ASSUME NEW c \in Container, StartFails(c) PROVE TypeInv'
  BY <1>14 DEF StartFails, Steps
<1>15. ASSUME NEW c \in Container, Exit(c) PROVE TypeInv'
  BY <1>15 DEF Exit, Steps
<1>16. ASSUME NEW c \in Container, Exited(c) PROVE TypeInv'
  BY <1>16, FS_EmptySet DEF Exited, Steps
<1>17. ASSUME NEW c \in Container, Adopt(c) PROVE TypeInv'
  BY <1>17, AllocateType, OrdersType DEF Adopt
<1>18. ASSUME NEW c \in Container, OrphanDies(c) PROVE TypeInv'
  BY <1>18 DEF OrphanDies, Steps
<1>19. ASSUME NEW c \in Container, RegisterDead(c) PROVE TypeInv'
  <2>1. CASE AutoRestart
    BY <1>19, <2>1, AllocateType, ZenonT(40) DEF RegisterDead
  <2>2. CASE ~AutoRestart
    BY <1>19, <2>2, ZenonT(40) DEF RegisterDead, Steps
  <2> QED
    BY <2>1, <2>2
<1>20. CASE RestartDaemon
  BY <1>20 DEF RestartDaemon, Nothing, Steps
<1>21. CASE Serve
  BY <1>21 DEF Serve
<1>22. CASE UNCHANGED vars
  BY <1>22 DEF vars
<1> QED
  BY <1>1, <1>2, <1>3, <1>4, <1>5, <1>6, <1>7, <1>8, <1>9, <1>10, <1>11,
     <1>12, <1>13, <1>14, <1>15, <1>16, <1>17, <1>18, <1>19, <1>20, <1>21,
     <1>22 DEF Next, Ports, Life, Registration

(* Ports, rules, mappings and specs keep their types, and no step reaches  *)
(* for a spec or a port that is not there.                                 *)
THEOREM TypeCorrect == Spec => []TypeOK
<1>1. TypeInv => TypeOK
  BY DEF TypeInv
<1> QED
  BY InitType, NextType, <1>1, PTL DEF Spec

-----------------------------------------------------------------------------
(* Rules, mappings and proxies belong to who holds the port. *)

InWork(c) == step[c] \in {"map", "bind", "unmap", "unclaim"}

(* A container has each of its ports once.                                 *)
HeldOnce ==
    \A c \in Container :
        /\ NoRepeat(extPorts[c])
        /\ InWork(c) => port[c] \notin Ran(extPorts[c])

(* What is held is in use, and nobody else's.                              *)
HeldUsed == \A c \in Container : Held(c) \subseteq portUse
HeldApart ==
    \A c, d \in Container : c # d => Held(c) \cap Held(d) = {}

(* The allocator's part: it needs to know nothing of rules and proxies.    *)
HeldInv == HeldOnce /\ HeldUsed /\ HeldApart

(* How far the mapping of the port in work has got.                        *)
WorkMapped ==
    \A c \in Container :
        /\ step[c] \in {"map", "unclaim"} =>
               mapping[port[c]] = None /\ proxies[port[c]] = None
        /\ step[c] \in {"bind", "unmap"} =>
               mapping[port[c]] = c /\ proxies[port[c]] = None

(* An interface's ports are mapped and served, but the one that has just   *)
(* been unmapped.                                                          *)
ListMapped ==
    \A c \in Container : \A p \in Ran(extPorts[c]) :
        IF step[c] \in {"undofree", "exitfree"} /\ p = Head(extPorts[c])
        THEN mapping[p] = None /\ proxies[p] = None
        ELSE mapping[p] = c /\ proxies[p] = c

(* Until the interface is given up the settings name ports that it has.    *)
SavedHeld ==
    \A c \in Container :
        step[c] \in {"ports", "claim", "map", "bind", "unmap", "unclaim",
                     "starting", "up"} =>
            \A e \in saved[c] : e.front \in Ran(extPorts[c])

IInv ==
    /\ Tracked
    /\ FreePortsClean
    /\ HeldOnce
    /\ HeldUsed
    /\ HeldApart
    /\ WorkMapped
    /\ ListMapped
    /\ SavedHeld

LEMMA RanEmpty == Ran(<<>>) = {} /\ NoRepeat(<<>>)
BY DEF Ran, NoRepeat

LEMMA InitIInv == Init => IInv
BY RanEmpty DEF Init, Nothing, IInv, Tracked, FreePortsClean, HeldOnce,
       HeldUsed, HeldApart, Held, InWork, WorkMapped, ListMapped, SavedHeld

(* One container gets a free port.                                         *)
LEMMA HeldGrows ==
    ASSUME HeldUsed, HeldApart, NEW c \in Container, NEW p, p \notin portUse,
           portUse' = portUse \cup {p},
           Held(c)' = Held(c) \cup {p},
           \A d \in Container \ {c} : Held(d)' = Held(d)
    PROVE  HeldUsed' /\ HeldApart'
BY DEF HeldUsed, HeldApart

(* The port claimed is the fountain's or the spec's.                       *)
LEMMA ClaimedPort ==
    ASSUME TypeInv, NEW c \in Container, Claim(c)
    PROVE  (IF step[c] = "claim" THEN port[c] ELSE Head(todo[c]).front)
              \in Port
<1> USE DEF TypeInv, TypeOK, Ready
<1>1. CASE step[c] = "claim"
  BY <1>1
<1>2. CASE step[c] # "claim"
  <2>1. todo[c] # <<>> /\ Head(todo[c]).front # Anywhere
    BY <1>2 DEF Claim
  <2>2. Head(todo[c]) \in Wish
    BY <2>1
  <2> QED
    BY <1>2, <2>1, <2>2 DEF Wish
<1> QED
  BY <1>1, <1>2

(* Only Claim gives a container a port, and a port that is not in use.     *)
LEMMA HeldStep ==
    ASSUME TypeInv, HeldInv, [Next]_vars
    PROVE  \/ \A d \in Container : Held(d)' \subseteq Held(d)
           \/ \E c \in Container, p \in Port \ portUse :
                 /\ portUse' = portUse \cup {p}
                 /\ Held(c)' = Held(c) \cup {p}
                 /\ \A d \in Container \ {c} : Held(d)' = Held(d)
<1> USE DEF TypeInv, TypeOK, Ready, SetStep, netVars, diskVars, Held
<1>1. ASSUME NEW c \in Container, Claim(c)
      PROVE  \/ \A d \in Container : Held(d)' \subseteq Held(d)
             \/ \E p \in Port \ portUse :
                   /\ portUse' = portUse \cup {p}
                   /\ Held(c)' = Held(c) \cup {p}
                   /\ \A d \in Container \ {c} : Held(d)' = Held(d)
  <2> DEFINE p == IF step[c] = "claim" THEN port[c] ELSE Head(todo[c]).front
  <2>1. p \in Port
    BY <1>1, ClaimedPort
  <2>2. CASE p \notin portUse
    <3>1. /\ portUse' = portUse \cup {p}
          /\ port' = [port EXCEPT ![c] = p]
          /\ step' = [step EXCEPT ![c] = "map"]
          /\ step[c] \in {"claim", "ports"} /\ UNCHANGED extPorts
      BY <1>1, <2>2 DEF Claim
    <3> HIDE DEF p
    <3>2. Held(c)' = Held(c) \cup {p}
      BY <3>1
    <3>3. \A d \in Container \ {c} : Held(d)' = Held(d)
      BY <3>1
    <3> QED
      BY <2>1, <2>2, <3>1, <3>2, <3>3
  <2>3. CASE p \in portUse
    BY <1>1, <2>1, <2>3 DEF Claim
  <2> QED
    BY <2>2, <2>3
<1>2. ASSUME NEW c \in Container, Bind(c)
      PROVE  \A d \in Container : Held(d)' \subseteq Held(d)
  <2>1. step[c] = "bind" /\ port[c] \in Port /\ extPorts[c] \in Seq(Port)
    BY <1>2 DEF Bind
  <2>2. Ran(extPorts'[c]) = Ran(extPorts[c]) \cup {port[c]}
    <3>1. extPorts'[c] = Append(extPorts[c], port[c])
      BY <1>2 DEF Bind
    <3> QED
      BY <2>1, <3>1, RanAppend
  <2> QED
    BY <1>2, <2>1, <2>2 DEF Bind
<1>3. ASSUME NEW c \in Container, Free(c)
      PROVE  \A d \in Container : Held(d)' \subseteq Held(d)
  <2>1. step[c] \in Freeing /\ step'[c] \in {"undo", "exit"}
    BY <1>3 DEF Free, AfterFree
  <2>2. Ran(extPorts'[c]) \subseteq Ran(extPorts[c])
    <3>1. CASE step[c] = "unclaim"
      BY <1>3, <3>1 DEF Free
    <3>2. CASE step[c] # "unclaim"
      <4>1. extPorts[c] # <<>> /\ extPorts'[c] = Tail(extPorts[c])
        BY <1>3, <2>1, <3>2 DEF Free, Freeing
      <4>2. NoRepeat(extPorts[c])
        BY DEF HeldInv, HeldOnce
      <4> QED
        BY <4>1, <4>2, RanTail
    <3> QED
      BY <3>1, <3>2
  <2> QED
    BY <1>3, <2>1, <2>2 DEF Free
<1>4. ASSUME NEW c \in Container, Unmap(c)
      PROVE  \A d \in Container : Held(d)' \subseteq Held(d)
  BY <1>4 DEF Unmap, Unmapping, AfterUnmap
<1>5. ASSUME NEW c \in Container,
             \/ Draw(c) \/ AddRule(c) \/ AddFails(c) \/ BindFails(c)
             \/ Undone(c) \/ NetworkReady(c) \/ Started(c) \/ Exit(c)
             \/ Exited(c) \/ OrphanDies(c)
      PROVE  \A d \in Container : Held(d)' \subseteq Held(d)
  BY <1>5 DEF Draw, AddRule, AddFails, BindFails, Undone, NetworkReady,
              Started, Exit, Exited, OrphanDies
<1>6. ASSUME NEW c \in Container, NEW specs, Allocate(c, specs),
             UNCHANGED port
      PROVE  \A d \in Container : Held(d)' \subseteq Held(d)
  BY <1>6, RanEmpty DEF Allocate
<1>7. ASSUME NEW c \in Container, Start(c) \/ StartGhost(c) \/ Adopt(c)
      PROVE  \A d \in Container : Held(d)' \subseteq Held(d)
  <2>1. PICK specs : Allocate(c, specs) /\ UNCHANGED port
    BY <1>7 DEF Start, StartGhost, Adopt
  <2> QED
    BY <2>1, RanEmpty DEF Allocate
<1>8. ASSUME NEW c \in Container, RegisterDead(c) \/ StartFails(c)
      PROVE  \A d \in Container : Held(d)' \subseteq Held(d)
  BY <1>8, RanEmpty, ZenonT(40) DEF RegisterDead, StartFails, Allocate
<1>9. CASE RestartDaemon \/ Serve \/ UNCHANGED vars
  BY <1>9, RanEmpty DEF RestartDaemon, Serve, vars
<1> QED
  BY <1>1, <1>2, <1>3, <1>4, <1>5, <1>7, <1>8, <1>9
     DEF Next, Ports, Life, Registration

(* The ports of a container stay apart, whatever becomes of its rules.     *)
LEMMA HeldOnceStep ==
    ASSUME TypeInv, HeldInv, [Next]_vars
    PROVE  HeldOnce'
<1> USE DEF TypeInv, TypeOK, Ready, SetStep, netVars, diskVars, HeldInv,
            HeldOnce, InWork
<1>1. ASSUME NEW c \in Container, Claim(c) PROVE HeldOnce'
  <2> DEFINE p == IF step[c] = "claim" THEN port[c] ELSE Head(todo[c]).front
  <2>1. /\ step[c] \in {"claim", "ports"} /\ UNCHANGED extPorts
        /\ \/ p \notin portUse /\ port' = [port EXCEPT ![c] = p]
              /\ step' = [step EXCEPT ![c] = "map"]
           \/ /\ UNCHANGED port
              /\ \/ step' = [step EXCEPT ![c] = "ports"]
                 \/ step' = [step EXCEPT ![c] = "undo"]
    BY <1>1 DEF Claim
  <2>2. p \in Port /\ Ran(extPorts[c]) \subseteq portUse
    BY <1>1, ClaimedPort DEF HeldUsed, Held
  <2> HIDE DEF p
  <2>3. CASE /\ p \notin portUse /\ port' = [port EXCEPT ![c] = p]
             /\ step' = [step EXCEPT ![c] = "map"]
    <3>1. /\ port'[c] = p /\ p \notin Ran(extPorts'[c])
          /\ \A d \in Container \ {c} : step'[d] = step[d] /\ port'[d] = port[d]
          /\ UNCHANGED extPorts
      BY <2>1, <2>2, <2>3
    <3> QED
      BY <3>1
  <2>4. CASE /\ UNCHANGED port
             /\ \/ step' = [step EXCEPT ![c] = "ports"]
                \/ step' = [step EXCEPT ![c] = "undo"]
    <3>1. /\ step'[c] \in {"ports", "undo"}
          /\ \A d \in Container \ {c} : step'[d] = step[d]
          /\ UNCHANGED <<port, extPorts>>
      BY <2>1, <2>4
    <3> QED
      BY <3>1
  <2> QED
    BY <2>1, <2>3, <2>4
<1>2. ASSUME NEW c \in Container, Bind(c) PROVE HeldOnce'
  <2>1. /\ extPorts[c] \in Seq(Port) /\ NoRepeat(extPorts[c])
        /\ port[c] \in Port /\ port[c] \notin Ran(extPorts[c])
    BY <1>2 DEF Bind
  <2>2. NoRepeat(Append(extPorts[c], port[c]))
    BY <2>1, RanAppend
  <2> QED
    BY <1>2, <2>2 DEF Bind
<1>3. ASSUME NEW c \in Container, Free(c) PROVE HeldOnce'
  <2>1. /\ step'[c] \in {"undo", "exit"} /\ UNCHANGED port
        /\ \A d \in Container \ {c} :
              step'[d] = step[d] /\ extPorts'[d] = extPorts[d]
    BY <1>3 DEF Free, Freeing, AfterFree
  <2>2. NoRepeat(extPorts'[c])
    <3>1. CASE step[c] = "unclaim"
      BY <1>3, <3>1 DEF Free
    <3>2. CASE step[c] # "unclaim"
      <4>1. extPorts[c] # <<>> /\ extPorts'[c] = Tail(extPorts[c])
        BY <1>3, <3>2 DEF Free, Freeing
      <4>2. extPorts[c] \in Seq(Port) /\ NoRepeat(extPorts[c])
        OBVIOUS
      <4> QED
        BY <4>1, <4>2, RanTail
    <3> QED
      BY <3>1, <3>2
  <2> QED
    BY <2>1, <2>2
<1>4. ASSUME NEW c \in Container, Unmap(c) PROVE HeldOnce'
  BY <1>4 DEF Unmap, Unmapping, AfterUnmap
<1>5. ASSUME NEW c \in Container,
             \/ Draw(c) \/ AddRule(c) \/ AddFails(c) \/ BindFails(c)
             \/ Undone(c) \/ NetworkReady(c) \/ Started(c) \/ Exit(c)
             \/ Exited(c) \/ OrphanDies(c)
      PROVE  HeldOnce'
  BY <1>5 DEF Draw, AddRule, AddFails, BindFails, Undone, NetworkReady,
              Started, Exit, Exited, OrphanDies
<1>6. ASSUME NEW c \in Container, Start(c) \/ StartGhost(c) \/ Adopt(c)
      PROVE  HeldOnce'
  <2>1. PICK specs : Allocate(c, specs) /\ UNCHANGED port
    BY <1>6 DEF Start, StartGhost, Adopt
  <2> QED
    BY <2>1, RanEmpty DEF Allocate
<1>7. ASSUME NEW c \in Container, RegisterDead(c) \/ StartFails(c)
      PROVE  HeldOnce'
  BY <1>7, RanEmpty, ZenonT(40) DEF RegisterDead, StartFails, Allocate
<1>8. CASE RestartDaemon \/ Serve \/ UNCHANGED vars
  BY <1>8, RanEmpty DEF RestartDaemon, Serve, vars
<1> QED
  BY <1>1, <1>2, <1>3, <1>4, <1>5, <1>6, <1>7, <1>8
     DEF Next, Ports, Life, Registration

(* A port that leaves the allocator's map leaves its holder as well.       *)
LEMMA PortUseStep ==
    ASSUME TypeInv, HeldInv, [Next]_vars
    PROVE  \/ portUse \subseteq portUse'
           \/ \A d \in Container : Held(d)' = {}
           \/ \E c \in Container : \E p \in Held(c) :
                 portUse' = portUse \ {p} /\ p \notin Held(c)'
<1> USE DEF TypeInv, TypeOK, Ready, SetStep, netVars, diskVars, Held
<1>1. ASSUME NEW c \in Container, Free(c)
      PROVE  \E p \in Held(c) : portUse' = portUse \ {p} /\ p \notin Held(c)'
  <2> DEFINE p == Leaving(c)
  <2>1. portUse' = portUse \ {p} /\ step'[c] \in {"undo", "exit"}
    BY <1>1 DEF Free, Freeing, AfterFree
  <2>2. p \in Held(c) /\ p \notin Ran(extPorts'[c])
    <3>1. CASE step[c] = "unclaim"
      BY <1>1, <3>1 DEF Leaving, Free, HeldInv, HeldOnce, InWork
    <3>2. CASE step[c] # "unclaim"
      <4>1. /\ extPorts[c] # <<>> /\ p = Head(extPorts[c])
            /\ extPorts'[c] = Tail(extPorts[c])
        BY <1>1, <3>2 DEF Leaving, Free, Freeing
      <4>2. extPorts[c] \in Seq(Port) /\ NoRepeat(extPorts[c])
        BY DEF HeldInv, HeldOnce
      <4> QED
        BY <4>1, <4>2, RanTail
    <3> QED
      BY <3>1, <3>2
  <2> HIDE DEF p
  <2> QED
    BY <2>1, <2>2
<1>2. ASSUME NEW c \in Container, AddFails(c)
      PROVE  \E p \in Held(c) : portUse' = portUse \ {p} /\ p \notin Held(c)'
  BY <1>2 DEF AddFails, HeldInv, HeldOnce, InWork
<1>3. CASE RestartDaemon
  BY <1>3, RanEmpty DEF RestartDaemon
<1>4. ASSUME NEW c \in Container, Claim(c) PROVE portUse \subseteq portUse'
  BY <1>4 DEF Claim
<1>5. ASSUME NEW c \in Container,
             \/ Draw(c) \/ AddRule(c) \/ Bind(c) \/ BindFails(c) \/ Unmap(c)
             \/ Undone(c) \/ NetworkReady(c) \/ Life(c) \/ Registration(c)
      PROVE  UNCHANGED portUse
  BY <1>5 DEF Draw, AddRule, Bind, BindFails, Unmap, Undone, NetworkReady,
     Life, Start, StartGhost, Started, StartFails, Exit, Exited,
     Registration, Adopt, OrphanDies, RegisterDead
<1>6. CASE Serve \/ UNCHANGED vars
  BY <1>6 DEF Serve, vars
<1> QED
  BY <1>1, <1>2, <1>3, <1>4, <1>5, <1>6 DEF Next, Ports

LEMMA NextHeld ==
    ASSUME TypeInv, HeldInv, [Next]_vars
    PROVE  HeldInv'
<1>1. HeldOnce'
  BY HeldOnceStep
<1>2. CASE \A d \in Container : Held(d)' \subseteq Held(d)
  <2>1. HeldApart'
    BY <1>2 DEF HeldInv, HeldApart
  <2>2. HeldUsed'
    <3>1. CASE portUse \subseteq portUse' \/ \A d \in Container : Held(d)' = {}
      BY <1>2, <3>1 DEF HeldInv, HeldUsed
    <3>2. CASE \E c \in Container : \E p \in Held(c) :
                 portUse' = portUse \ {p} /\ p \notin Held(c)'
      BY <1>2, <3>2 DEF HeldInv, HeldUsed, HeldApart
    <3> QED
      BY <3>1, <3>2, PortUseStep
  <2> QED
    BY <1>1, <2>1, <2>2 DEF HeldInv
<1>3. CASE \E c \in Container, p \in Port \ portUse :
             /\ portUse' = portUse \cup {p}
             /\ Held(c)' = Held(c) \cup {p}
             /\ \A d \in Container \ {c} : Held(d)' = Held(d)
  BY <1>1, <1>3, HeldGrows DEF HeldInv
<1> QED
  BY <1>2, <1>3, HeldStep

(* allocateNetwork starts with nothing held.                               *)
LEMMA AllocateIInv ==
    ASSUME TypeInv, IInv, NEW c \in Container, NEW specs,
           step[c] \in {"stopped", "orphan", "dead"},
           Allocate(c, specs), UNCHANGED <<netVars, port>>
    PROVE  IInv'
BY RanEmpty DEF Allocate, TypeInv, TypeOK, SetStep, netVars, IInv, Tracked,
       FreePortsClean, HeldOnce, HeldUsed, HeldApart, Held, InWork,
       WorkMapped, ListMapped, SavedHeld

LEMMA NextIInv ==
    ASSUME "del" \notin Faults, TypeInv, IInv, [Next]_vars
    PROVE  IInv'
<1>0. HeldOnce' /\ HeldUsed' /\ HeldApart'
  BY NextHeld DEF IInv, HeldInv
<1> USE DEF TypeInv, TypeOK, Ready, SetStep, netVars, diskVars
<1> USE DEF IInv, Tracked, FreePortsClean, HeldOnce, HeldUsed, HeldApart,
            Held, InWork, WorkMapped, ListMapped, SavedHeld
<1>1. ASSUME NEW c \in Container, Draw(c) PROVE IInv'
  BY <1>1 DEF Draw
<1>2. ASSUME NEW c \in Container, Claim(c) PROVE IInv'
  <2> DEFINE p == IF step[c] = "claim" THEN port[c] ELSE Head(todo[c]).front
  <2>0. p \in Port
    BY <1>2, ClaimedPort
  <2>1. /\ p \notin portUse => /\ portUse' = portUse \cup {p}
                              /\ port' = [port EXCEPT ![c] = p]
                              /\ step' = [step EXCEPT ![c] = "map"]
        /\ p \in portUse =>
                /\ UNCHANGED <<portUse, port>>
                /\ \/ step' = [step EXCEPT ![c] = "ports"]
                   \/ step' = [step EXCEPT ![c] = "undo"]
    BY <1>2 DEF Claim
  <2>2. /\ step[c] \in {"claim", "ports"}
        /\ UNCHANGED <<chain, mapping, proxies, extPorts, saved>>
    BY <1>2 DEF Claim
  <2> HIDE DEF p
  <2>3. CASE p \in portUse
    <3>1. \A d \in Container \ {c} : step'[d] = step[d]
      BY <2>1, <2>3
    <3>2. step'[c] \in {"ports", "undo"}
      BY <2>1, <2>3
    <3>3. UNCHANGED <<portUse, port>>
      BY <2>1, <2>3
    <3>4. Tracked' /\ FreePortsClean' /\ SavedHeld'
      BY <2>2, <3>1, <3>2, <3>3, ZenonT(40)
    <3>5. WorkMapped'
      BY <2>2, <3>1, <3>2, <3>3
    <3>6. ListMapped'
      BY <2>2, <3>1, <3>2
    <3> QED
      BY <1>0, <3>4, <3>5, <3>6
  <2>4. CASE p \notin portUse
    <3>1. mapping[p] = None /\ proxies[p] = None
      BY <2>0, <2>4
    <3>2. \A d \in Container : p \notin Held(d)
      BY <2>4
    <3>3. /\ step'[c] = "map" /\ port'[c] = p
          /\ \A d \in Container \ {c} : step'[d] = step[d] /\ port'[d] = port[d]
      BY <2>1, <2>4
    <3>4. Tracked' /\ FreePortsClean' /\ SavedHeld'
      BY <2>1, <2>2, <2>4, <3>2, <3>3
    <3>5. WorkMapped'
      BY <2>2, <3>1, <3>3
    <3>6. ListMapped'
      BY <2>2, <3>3
    <3> QED
      BY <1>0, <3>4, <3>5, <3>6
  <2> QED
    BY <2>3, <2>4
<1>3. ASSUME NEW c \in Container, AddRule(c) PROVE IInv'
  <2> DEFINE p == port[c]
  <2>1. /\ p \in Port /\ step[c] = "map" /\ p \in Held(c) /\ p \in portUse
        /\ mapping[p] = None /\ chain[p] = <<>> /\ proxies[p] = None
    BY <1>3 DEF AddRule
  <2>2. /\ step' = [step EXCEPT ![c] = "bind"]
        /\ mapping' = [mapping EXCEPT ![p] = c]
        /\ chain' = [chain EXCEPT ![p] = <<c>>]
        /\ UNCHANGED <<portUse, proxies, port, extPorts, saved>>
    BY <1>3, <2>1 DEF AddRule
  <2>3. \A d \in Container \ {c} : p \notin Held(d)
    BY <2>1
  <2>4. Tracked'
    BY <2>1, <2>2
  <2>5. FreePortsClean' /\ SavedHeld'
    BY <2>1, <2>2
  <2>6. WorkMapped'
    BY <2>1, <2>2, <2>3
  <2>7. ListMapped'
    BY <2>1, <2>2, <2>3
  <2> QED
    BY <1>0, <2>4, <2>5, <2>6, <2>7
<1>4. ASSUME NEW c \in Container, AddFails(c) PROVE IInv'
  BY <1>4 DEF AddFails
<1>5. ASSUME NEW c \in Container, Bind(c) PROVE IInv'
  <2> DEFINE p == port[c]
             s == Append(extPorts[c], p)
  <2>1. /\ p \in Port /\ step[c] = "bind" /\ p \in Held(c) /\ p \in portUse
        /\ p \notin Ran(extPorts[c])
        /\ mapping[p] = c /\ proxies[p] = None
    BY <1>5 DEF Bind
  <2>2. Ran(s) = Ran(extPorts[c]) \cup {p}
    <3>1. extPorts[c] \in Seq(Port) /\ p \in Port
      BY <2>1
    <3> HIDE DEF p, TypeInv, TypeOK, IInv, HeldOnce
    <3> QED
      BY <3>1, RanAppend
  <2>3. \A e \in saved'[c] : e.front \in Ran(extPorts[c]) \cup {p}
    BY <1>5 DEF Bind, Recorded
  <2>4. /\ step' = [step EXCEPT ![c] = "ports"]
        /\ proxies' = [proxies EXCEPT ![p] = c]
        /\ extPorts' = [extPorts EXCEPT ![c] = s]
        /\ \A d \in Container \ {c} : saved'[d] = saved[d]
        /\ UNCHANGED <<portUse, chain, mapping, port>>
    BY <1>5 DEF Bind
  <2>5. \A d \in Container \ {c} : p \notin Held(d)
    BY <2>1
  <2> HIDE DEF s
  <2>6. Tracked' /\ FreePortsClean'
    BY <2>1, <2>4
  <2>7. SavedHeld'
    BY <2>2, <2>3, <2>4
  <2>8. WorkMapped'
    BY <2>1, <2>4, <2>5
  <2>9. ListMapped'
    BY <2>1, <2>2, <2>4, <2>5
  <2> QED
    BY <1>0, <2>6, <2>7, <2>8, <2>9
<1>6. ASSUME NEW c \in Container, BindFails(c) PROVE IInv'
  BY <1>6 DEF BindFails
<1>7. ASSUME NEW c \in Container, Unmap(c) PROVE IInv'
  <2> DEFINE p == Leaving(c)
  <2>1. step[c] \in {"unmap", "undo", "exit"}
    BY <1>7 DEF Unmap, Unmapping
  <2>2. /\ p \in Port /\ p \in Held(c) /\ p \in portUse
        /\ mapping[p] = c
        /\ step[c] = "unmap" => p = port[c]
        /\ step[c] # "unmap" => p = Head(extPorts[c])
    <3>1. CASE step[c] = "unmap"
      BY <3>1 DEF Leaving
    <3>2. CASE step[c] # "unmap"
      <4>1. extPorts[c] # <<>> /\ p = Head(extPorts[c])
        BY <1>7, <2>1, <3>2 DEF Unmap, Leaving
      <4>2. p \in Port /\ p \in Ran(extPorts[c])
        BY <4>1, RanTail
      <4>3. ~(step[c] \in {"undofree", "exitfree"})
        BY <2>1
      <4>4. mapping[p] = c /\ p \in Held(c)
        BY <4>2, <4>3
      <4>5. p \in portUse
        BY <4>4
      <4> QED
        BY <3>2, <4>1, <4>2, <4>4, <4>5
    <3> QED
      BY <3>1, <3>2
  <2>3. Deleted(chain[p], mapping[p]) = <<>>
    <3>1. chain[p] = <<c>>
      BY <2>2, ZenonT(40)
    <3> QED
      BY <2>2, <3>1, DeletedOnly
  <2>4. /\ step' = [step EXCEPT ![c] = AfterUnmap(step[c])]
        /\ chain' = [chain EXCEPT ![p] = <<>>]
        /\ mapping' = [mapping EXCEPT ![p] = None]
        /\ proxies' = [proxies EXCEPT ![p] = None]
        /\ UNCHANGED <<portUse, port, extPorts, saved>>
    BY <1>7, <2>2, <2>3 DEF Unmap
  <2>5. \A d \in Container \ {c} : p \notin Held(d)
    BY <2>2
  <2> HIDE DEF p
  <2>6. Tracked' /\ FreePortsClean'
    BY <2>2, <2>4
  <2>7. /\ step[c] = "unmap" => step'[c] = "unclaim"
        /\ step[c] = "undo" => step'[c] = "undofree"
        /\ step[c] = "exit" => step'[c] = "exitfree"
        /\ \A d \in Container \ {c} : step'[d] = step[d]
    BY <2>1, <2>4 DEF AfterUnmap
  <2>8. SavedHeld'
    BY <2>1, <2>4, <2>7
  <2>9. WorkMapped'
    BY <2>1, <2>2, <2>4, <2>5, <2>7
  <2>10. ListMapped'
    BY <2>1, <2>2, <2>4, <2>5, <2>7
  <2> QED
    BY <1>0, <2>6, <2>8, <2>9, <2>10
<1>8. ASSUME NEW c \in Container, Free(c) PROVE IInv'
  <2> DEFINE p == Leaving(c)
  <2>1. /\ step[c] \in {"unclaim", "undofree", "exitfree"}
        /\ step'[c] \in {"undo", "exit"}
        /\ \A d \in Container \ {c} :
              step'[d] = step[d] /\ extPorts'[d] = extPorts[d]
        /\ portUse' = portUse \ {p}
        /\ UNCHANGED <<chain, mapping, proxies, port, saved>>
    BY <1>8 DEF Free, Freeing, AfterFree
  <2>2. /\ p \in Port /\ p \in Held(c)
        /\ mapping[p] = None /\ proxies[p] = None
        /\ Ran(extPorts'[c]) = Ran(extPorts[c]) \ {p}
        /\ NoRepeat(extPorts'[c])
    <3>1. CASE step[c] = "unclaim"
      BY <1>8, <3>1 DEF Leaving, Free
    <3>2. CASE step[c] # "unclaim"
      <4>1. /\ extPorts[c] # <<>> /\ p = Head(extPorts[c])
            /\ extPorts'[c] = Tail(extPorts[c])
        BY <1>8, <2>1, <3>2 DEF Leaving, Free
      <4>2. /\ p \in Port /\ p \in Ran(extPorts[c])
            /\ Ran(extPorts'[c]) = Ran(extPorts[c]) \ {p}
            /\ NoRepeat(extPorts'[c])
        BY <4>1, RanTail
      <4> QED
        BY <2>1, <3>2, <4>1, <4>2
    <3> QED
      BY <3>1, <3>2
  <2> HIDE DEF p
  <2>4. Tracked' /\ FreePortsClean'
    BY <2>1, <2>2
  <2>7. SavedHeld'
    BY <2>1, <2>2
  <2>8. WorkMapped'
    BY <2>1
  <2>9. ListMapped'
    <3>1. ASSUME NEW q \in Ran(extPorts'[c])
          PROVE  mapping[q] = c /\ proxies[q] = c
      <4>1. q \in Ran(extPorts[c]) /\ q # p
        BY <2>2, <3>1
      <4>2. step[c] # "unclaim" => p = Head(extPorts[c])
        BY <1>8, <2>1 DEF p, Leaving
      <4> QED
        BY <2>1, <4>1, <4>2
    <3>2. step'[c] \notin {"undofree", "exitfree"}
      BY <2>1
    <3>3. UNCHANGED <<mapping, proxies>>
      BY <2>1
    <3>4. ASSUME NEW d \in Container \ {c}, NEW q \in Ran(extPorts'[d])
          PROVE  IF step'[d] \in {"undofree", "exitfree"} /\ q = Head(extPorts'[d])
                 THEN mapping[q] = None /\ proxies[q] = None
                 ELSE mapping[q] = d /\ proxies[q] = d
      BY <2>1, <3>4
    <3>5. ASSUME NEW d \in Container, NEW q \in Ran(extPorts'[d])
          PROVE  IF step'[d] \in {"undofree", "exitfree"} /\ q = Head(extPorts'[d])
                 THEN mapping'[q] = None /\ proxies'[q] = None
                 ELSE mapping'[q] = d /\ proxies'[q] = d
      <4>1. CASE d = c
        BY <3>1, <3>2, <3>3, <3>5, <4>1
      <4>2. CASE d # c
        BY <3>3, <3>4, <3>5, <4>2
      <4> QED
        BY <4>1, <4>2
    <3> HIDE DEF TypeInv, IInv
    <3> QED
      BY <3>5 DEF ListMapped
  <2> QED
    BY <1>0, <2>4, <2>7, <2>8, <2>9
<1>9. ASSUME NEW c \in Container, Undone(c) PROVE IInv'
  BY <1>9 DEF Undone
<1>10. ASSUME NEW c \in Container, NetworkReady(c) PROVE IInv'
  BY <1>10 DEF NetworkReady
<1>13. ASSUME NEW c \in Container, Started(c) PROVE IInv'
  BY <1>13 DEF Started
<1>14. ASSUME NEW c \in Container, StartFails(c) PROVE IInv'
  BY <1>14, RanEmpty DEF StartFails
<1>15. ASSUME NEW c \in Container, Exit(c) PROVE IInv'
  BY <1>15 DEF Exit
<1>16. ASSUME NEW c \in Container, Exited(c) PROVE IInv'
  BY <1>16 DEF Exited
<1>18. ASSUME NEW c \in Container, OrphanDies(c) PROVE IInv'
  BY <1>18 DEF OrphanDies
<1>19. ASSUME NEW c \in Container, RegisterDead(c) PROVE IInv'
  <2>1. CASE AutoRestart
    <3> HIDE DEF TypeInv, IInv
    <3>1. step[c] = "dead" /\ Allocate(c, PortSpecs[c])
      BY <1>19, <2>1 DEF RegisterDead
    <3>2. UNCHANGED <<netVars, port>>
      BY <1>19 DEF RegisterDead
    <3> QED
      BY AllocateIInv, <3>1, <3>2
  <2>2. CASE ~AutoRestart
    <3>1. /\ step[c] = "dead" /\ step' = [step EXCEPT ![c] = "stopped"]
          /\ UNCHANGED <<netVars, port, extPorts, saved>>
      BY <1>19, <2>2 DEF RegisterDead
    <3> QED
      BY <3>1
  <2> QED
    BY <2>1, <2>2
<1>20. CASE RestartDaemon
  BY <1>20, RanEmpty DEF RestartDaemon, Nothing
<1>21. CASE Serve
  BY <1>21 DEF Serve
<1>22. CASE UNCHANGED vars
  BY <1>22 DEF vars
<1>23. ASSUME NEW c \in Container, Start(c) \/ StartGhost(c) \/ Adopt(c) PROVE IInv'
  <2> HIDE DEF TypeInv, IInv
  <2>1. step[c] \in {"stopped", "orphan"} /\ UNCHANGED <<netVars, port>>
    BY <1>23 DEF Start, StartGhost, Adopt
  <2>2. PICK specs : Allocate(c, specs)
    BY <1>23 DEF Start, StartGhost, Adopt
  <2> QED
    BY AllocateIInv, <2>1, <2>2
<1> QED
  BY <1>1, <1>2, <1>3, <1>4, <1>5, <1>6, <1>7, <1>8, <1>9, <1>10, <1>23,
     <1>13, <1>14, <1>15, <1>16, <1>18, <1>19, <1>20, <1>21,
     <1>22 DEF Next, Ports, Life, Registration

LEMMA Invariance ==
    ASSUME "del" \notin Faults
    PROVE  Spec => [](TypeInv /\ IInv)
<1>1. Init => TypeInv /\ IInv
  BY InitType, InitIInv
<1>2. TypeInv /\ IInv /\ [Next]_vars => (TypeInv /\ IInv)'
  BY NextType, NextIInv
<1> QED
  BY <1>1, <1>2, PTL DEF Spec

(* The mapper keeps track of every rule and every proxy, through failures  *)
(* of Start, of iptables -A and of proxies, unless iptables -D fails.      *)
THEOREM MapperTracks ==
    ASSUME "del" \notin Faults
    PROVE  Spec => []Tracked
<1>1. IInv => Tracked
  BY DEF IInv
<1> QED
  BY Invariance, <1>1, PTL

(* A free port has no mapping and no proxy.                                *)
THEOREM FreeIsClean ==
    ASSUME "del" \notin Faults
    PROVE  Spec => []FreePortsClean
<1>1. IInv => FreePortsClean
  BY DEF IInv
<1> QED
  BY Invariance, <1>1, PTL

(* The ports in a running container's settings lead to it and nowhere      *)
(* else.                                                                   *)
THEOREM StaysPublished ==
    ASSUME "del" \notin Faults
    PROVE  Spec => []Published
<1>1. TypeInv /\ IInv => Published
  <2> SUFFICES ASSUME TypeInv, IInv, NEW c \in Container, step[c] = "up",
                      NEW e \in saved[c]
               PROVE  chain[e.front] = <<c>> /\ proxies[e.front] = c
    BY DEF Published
  <2>1. e.front \in Port
    BY DEF TypeInv, TypeOK, Entry
  <2>2. mapping[e.front] = c /\ proxies[e.front] = c
    BY DEF IInv, SavedHeld, ListMapped
  <2> QED
    BY <2>1, <2>2 DEF IInv, Tracked
<1> QED
  BY Invariance, <1>1, PTL

(* The three together, as the run of PortMapping checks them: as long as   *)
(* iptables -D does not fail, rules, mappings, listeners and allocated     *)
(* ports agree whatever else fails.                                        *)
THEOREM RulesAreExact ==
    ASSUME "del" \notin Faults
    PROVE  Spec => []MappingsExact
<1>1. Tracked /\ FreePortsClean /\ Published => MappingsExact
  BY DEF MappingsExact
<1> QED
  BY <1>1, MapperTracks, FreeIsClean, StaysPublished, PTL

-----------------------------------------------------------------------------
(* No port is lost. *)

(* Whoever is about to call allocateNetwork has no port that the fresh     *)
(* list of its interface would forget.                                     *)
Listless ==
    \A c \in Container :
        step[c] \in {"stopped", "orphan", "dead", "detached"} =>
            extPorts[c] = <<>>

UsedHeld == \A p \in portUse : \E c \in Container : p \in Held(c)

KeptInv == TypeInv /\ HeldInv /\ Listless

(* No container gives up a port that stays in use.                         *)
LEMMA HeldKept ==
    ASSUME \A d \in Container : Held(d) \cap portUse' \subseteq Held(d)',
           portUse' \subseteq portUse
    PROVE  UsedHeld => UsedHeld'
BY DEF UsedHeld

(* allocateNetwork starts with nothing held, and leaves the others alone.  *)
LEMMA AllocateKept ==
    ASSUME TypeInv, Listless, NEW c \in Container, NEW specs,
           step[c] \in {"stopped", "orphan", "dead"},
           Allocate(c, specs), UNCHANGED port
    PROVE  Listless' /\ \A d \in Container : Held(d)' = Held(d)
BY RanEmpty DEF TypeInv, TypeOK, Listless, Held, Allocate, SetStep

LEMMA NextKept ==
    ASSUME KeptInv, [Next]_vars
    PROVE  /\ KeptInv'
           /\ (UsedHeld /\ \A c \in Container : ~StartFails(c)) => UsedHeld'
<1>0. TypeInv' /\ HeldInv'
  BY NextType, NextHeld DEF KeptInv
<1> USE DEF TypeInv, TypeOK, Ready, SetStep, netVars, diskVars, KeptInv,
            Listless
<1>1. ASSUME NEW c \in Container, Claim(c) PROVE Listless' /\ (UsedHeld => UsedHeld')
  <2> DEFINE p == IF step[c] = "claim" THEN port[c] ELSE Head(todo[c]).front
  <2>1. /\ step[c] \in {"claim", "ports"} /\ UNCHANGED extPorts
        /\ \/ /\ portUse' = portUse \cup {p} /\ port' = [port EXCEPT ![c] = p]
              /\ step' = [step EXCEPT ![c] = "map"]
           \/ /\ UNCHANGED <<portUse, port>>
              /\ \/ step' = [step EXCEPT ![c] = "ports"]
                 \/ step' = [step EXCEPT ![c] = "undo"]
    BY <1>1 DEF Claim
  <2> HIDE DEF p
  <2>2. Listless'
    BY <2>1
  <2>3. \A d \in Container : Held(d) \subseteq Held(d)'
    BY <2>1 DEF Held
  <2>4. portUse' \subseteq portUse \cup Held(c)'
    BY <2>1 DEF Held
  <2>5. UsedHeld => UsedHeld'
    <3> HIDE DEF KeptInv, TypeInv, TypeOK, Listless
    <3> QED
      BY <2>3, <2>4 DEF UsedHeld
  <2> QED
    BY <2>2, <2>5
<1>2. ASSUME NEW c \in Container, Bind(c) PROVE Listless' /\ (UsedHeld => UsedHeld')
  <2>1. step[c] = "bind" /\ port[c] \in Port /\ extPorts[c] \in Seq(Port)
    BY <1>2 DEF Bind
  <2>2. Ran(extPorts'[c]) = Ran(extPorts[c]) \cup {port[c]}
    <3>1. extPorts'[c] = Append(extPorts[c], port[c])
      BY <1>2 DEF Bind
    <3> QED
      BY <2>1, <3>1, RanAppend
  <2>3. \A d \in Container : Held(d) \subseteq Held(d)'
    BY <1>2, <2>1, <2>2 DEF Bind, Held
  <2>4. Listless' /\ portUse' = portUse
    BY <1>2 DEF Bind
  <2> QED
    BY <2>3, <2>4, HeldKept
<1>3. ASSUME NEW c \in Container, Free(c) PROVE Listless' /\ (UsedHeld => UsedHeld')
  <2> DEFINE p == Leaving(c)
  <2>1. /\ portUse' = portUse \ {p} /\ step'[c] \in {"undo", "exit"}
        /\ UNCHANGED port
        /\ \A d \in Container \ {c} :
              step'[d] = step[d] /\ extPorts'[d] = extPorts[d]
    BY <1>3 DEF Free, Freeing, AfterFree
  <2>2. Held(c) \ {p} \subseteq Ran(extPorts'[c])
    <3>1. CASE step[c] = "unclaim"
      BY <1>3, <3>1 DEF Leaving, Free, Held
    <3>2. CASE step[c] # "unclaim"
      <4>1. /\ extPorts[c] # <<>> /\ p = Head(extPorts[c])
            /\ extPorts'[c] = Tail(extPorts[c])
            /\ step[c] \in {"undofree", "exitfree"}
        BY <1>3, <3>2 DEF Leaving, Free, Freeing
      <4>2. extPorts[c] \in Seq(Port) /\ NoRepeat(extPorts[c])
        BY DEF HeldInv, HeldOnce
      <4> QED
        BY <4>1, <4>2, RanTail DEF Held
    <3> QED
      BY <3>1, <3>2
  <2> HIDE DEF p
  <2>3. \A d \in Container : Held(d) \cap portUse' \subseteq Held(d)'
    BY <2>1, <2>2 DEF Held
  <2>4. Listless'
    BY <2>1
  <2> QED
    BY <2>1, <2>3, <2>4, HeldKept
<1>4. ASSUME NEW c \in Container, AddFails(c) PROVE Listless' /\ (UsedHeld => UsedHeld')
  <2>1. \A d \in Container : Held(d) \cap portUse' \subseteq Held(d)'
    BY <1>4 DEF AddFails, Held
  <2> QED
    BY <1>4, <2>1, HeldKept DEF AddFails
<1>5. ASSUME NEW c \in Container, Unmap(c) PROVE Listless' /\ (UsedHeld => UsedHeld')
  <2>1. \A d \in Container : Held(d) \subseteq Held(d)'
    BY <1>5 DEF Unmap, Unmapping, AfterUnmap, Held
  <2>2. Listless' /\ portUse' = portUse
    BY <1>5 DEF Unmap, Unmapping, AfterUnmap
  <2> QED
    BY <2>1, <2>2, HeldKept
<1>6. ASSUME NEW c \in Container,
             \/ Draw(c) \/ AddRule(c) \/ BindFails(c) \/ Undone(c)
             \/ NetworkReady(c) \/ Started(c) \/ Exit(c) \/ Exited(c)
             \/ OrphanDies(c)
      PROVE  Listless' /\ (UsedHeld => UsedHeld')
  <2>1. \A d \in Container : Held(d) \subseteq Held(d)'
    BY <1>6, RanEmpty
       DEF Draw, AddRule, BindFails, Undone, NetworkReady, Started, Exit,
           Exited, OrphanDies, Held
  <2>2. portUse' = portUse
    BY <1>6 DEF Draw, AddRule, BindFails, Undone, NetworkReady, Started,
                Exit, Exited, OrphanDies
  <2>3. Listless'
    BY <1>6 DEF Draw, AddRule, BindFails, Undone, NetworkReady, Started,
                Exit, Exited, OrphanDies
  <2> QED
    BY <2>1, <2>2, <2>3, HeldKept
<1>7. ASSUME NEW c \in Container, Start(c) \/ StartGhost(c) \/ Adopt(c)
      PROVE  Listless' /\ (UsedHeld => UsedHeld')
  <2>1. PICK specs : Allocate(c, specs)
    BY <1>7 DEF Start, StartGhost, Adopt
  <2>2. /\ step[c] \in {"stopped", "orphan"}
        /\ UNCHANGED <<portUse, port>>
    BY <1>7 DEF Start, StartGhost, Adopt
  <2>3. Listless' /\ \A d \in Container : Held(d)' = Held(d)
    BY <2>1, <2>2, AllocateKept
  <2> QED
    BY <2>2, <2>3, HeldKept
<1>8. ASSUME NEW c \in Container, RegisterDead(c) PROVE Listless' /\ (UsedHeld => UsedHeld')
  <2>1. step[c] = "dead" /\ UNCHANGED <<portUse, port>>
    BY <1>8 DEF RegisterDead
  <2>2. CASE AutoRestart
    <3>1. Allocate(c, PortSpecs[c])
      BY <1>8, <2>2 DEF RegisterDead
    <3>2. Listless' /\ \A d \in Container : Held(d)' = Held(d)
      BY <2>1, <3>1, AllocateKept
    <3> QED
      BY <2>1, <3>2, HeldKept
  <2>3. CASE ~AutoRestart
    <3>1. step' = [step EXCEPT ![c] = "stopped"] /\ UNCHANGED extPorts
      BY <1>8, <2>3 DEF RegisterDead
    <3>2. \A d \in Container : Held(d)' = Held(d)
      BY <2>1, <3>1 DEF Held
    <3> QED
      BY <2>1, <3>1, <3>2, HeldKept
  <2> QED
    BY <2>2, <2>3
<1>9. ASSUME NEW c \in Container, StartFails(c) PROVE Listless'
  BY <1>9 DEF StartFails
<1>10. ASSUME RestartDaemon PROVE Listless' /\ (UsedHeld => UsedHeld')
  BY <1>10 DEF RestartDaemon, UsedHeld
<1>11. ASSUME Serve \/ UNCHANGED vars PROVE Listless' /\ (UsedHeld => UsedHeld')
  <2>1. Listless' /\ portUse' = portUse /\ \A d \in Container : Held(d)' = Held(d)
    BY <1>11 DEF Serve, vars, Held
  <2> HIDE DEF TypeInv, TypeOK, Listless
  <2> QED
    BY <2>1, HeldKept
<1>12. /\ Listless'
       /\ (UsedHeld /\ \A c \in Container : ~StartFails(c)) => UsedHeld'
  <2> HIDE DEF TypeInv, TypeOK, Ready, SetStep, netVars, diskVars, KeptInv,
               Listless
  <2> QED
    BY <1>1, <1>2, <1>3, <1>4, <1>5, <1>6, <1>7, <1>8, <1>9, <1>10, <1>11
       DEF Next, Ports, Life, Registration
<1> QED
  BY <1>0, <1>12 DEF KeptInv

(* When no Start fails after its network was made, the ports marked in use *)
(* are those that containers hold, whatever else fails: iptables, a proxy, *)
(* the daemon.                                                             *)
THEOREM NoPortIsLost ==
    ASSUME "start" \notin Faults
    PROVE  Spec => []NoPortLost
<1>1. Init => KeptInv /\ UsedHeld
  <2> SUFFICES ASSUME Init PROVE KeptInv /\ UsedHeld
    OBVIOUS
  <2>1. TypeInv /\ HeldInv
    BY InitType, InitIInv DEF IInv, HeldInv
  <2>2. Listless /\ UsedHeld
    BY DEF Init, Listless, UsedHeld
  <2> QED
    BY <2>1, <2>2 DEF KeptInv
<1>2. KeptInv /\ UsedHeld /\ [Next]_vars => (KeptInv /\ UsedHeld)'
  BY NextKept DEF StartFails
<1>3. KeptInv /\ UsedHeld => NoPortLost
  BY DEF KeptInv, HeldInv, HeldUsed, UsedHeld, NoPortLost
<1> QED
  BY <1>1, <1>2, <1>3, PTL DEF Spec

-----------------------------------------------------------------------------
(* What is saved is what is held. *)

Fronts(S) == {e.front : e \in S}

(* PortMapping is a map from backends: it cannot tell two specs of one     *)
(* backend apart, neither in a list of specs nor in what is saved.         *)
BackOnce(s) == \A i, j \in DOMAIN s : s[i].back = s[j].back => i = j
KeyedByBack(S) == \A e, f \in S : e.back = f.back => e = f

OneSpecPerBackend == \A c \in Container : BackOnce(PortSpecs[c])

Working == {"ports", "claim", "map", "bind"}

(* What holds of each container.  While its process runs, it is not past  *)
(* its exit.                                                               *)
AliveRuns(c) ==
    c \in alive =>
        /\ c \in running
        /\ step[c] \notin {"stopped", "starting", "exit", "exitfree", "dead"}

SavedKeyed(c) == KeyedByBack(saved[c]) /\ KeyedByBack(disk[c])

(* The specs still to be served are for other backends than those served.  *)
TodoApart(c) ==
    step[c] \in Working =>
        /\ BackOnce(todo[c])
        /\ \A i \in DOMAIN todo[c] : \A e \in saved[c] :
               todo[c][i].back # e.back

(* The settings name the ports that the interface has got so far ...       *)
Noted(c) ==
    step[c] \in Working \cup {"starting", "up"} =>
        Fronts(saved[c]) = Ran(extPorts[c])

(* ... and, when a ghost is adopted, config.json what it has got and what  *)
(* it still has to get.                                                    *)
Adopting(c) ==
    c \in alive =>
        /\ step[c] \in {"orphan", "up"} => saved[c] = disk[c]
        /\ step[c] \in Working =>
               /\ \A i \in DOMAIN todo[c] : todo[c][i] \in Entry
               /\ disk[c] = saved[c] \cup Ran(todo[c])
               /\ step[c] # "claim"
               /\ step[c] \in {"map", "bind"} => port[c] = Head(todo[c]).front

(* Until monitor has released the network, config.json names its ports.    *)
Written(c) ==
    /\ step[c] = "up" => c \in alive
    /\ step[c] \in {"exit", "exitfree"} =>
           Ran(extPorts[c]) \subseteq Fronts(disk[c])

SavedAt(c) ==
    /\ AliveRuns(c) /\ SavedKeyed(c) /\ TodoApart(c)
    /\ Noted(c) /\ Adopting(c) /\ Written(c)

SavedInv == \A c \in Container : SavedAt(c)

(* A step of c leaves the other containers alone.                          *)
Only(c) ==
    \A d \in Container \ {c} :
        /\ step'[d] = step[d] /\ todo'[d] = todo[d]
        /\ port'[d] = port[d] /\ extPorts'[d] = extPorts[d]
        /\ saved'[d] = saved[d] /\ disk'[d] = disk[d]
        /\ d \in alive' <=> d \in alive
        /\ d \in running' <=> d \in running

LEMMA OnlyOne ==
    ASSUME SavedInv, NEW c \in Container, SavedAt(c)', Only(c)
    PROVE  SavedInv'
<1>1. ASSUME NEW d \in Container, d # c PROVE SavedAt(d)'
  <2>1. SavedAt(d)
    BY DEF SavedInv
  <2>2. /\ step'[d] = step[d] /\ todo'[d] = todo[d] /\ port'[d] = port[d]
        /\ extPorts'[d] = extPorts[d] /\ saved'[d] = saved[d]
        /\ disk'[d] = disk[d]
        /\ d \in alive' <=> d \in alive
        /\ d \in running' <=> d \in running
    BY <1>1 DEF Only
  <2>3. AliveRuns(d)' /\ SavedKeyed(d)' /\ TodoApart(d)' /\ Noted(d)'
    BY <2>1, <2>2 DEF SavedAt, AliveRuns, SavedKeyed, TodoApart, Noted
  <2>4. Adopting(d)' /\ Written(d)'
    BY <2>1, <2>2 DEF SavedAt, Adopting, Written
  <2> QED
    BY <2>3, <2>4 DEF SavedAt
<1> QED
  BY <1>1 DEF SavedInv

(* The first spec of a list is served, and the rest is left.               *)
LEMMA Served ==
    ASSUME NEW s \in Seq(Wish), s # <<>>, BackOnce(s)
    PROVE  /\ BackOnce(Tail(s))
           /\ Head(s) \in Wish /\ Tail(s) \in Seq(Wish)
           /\ Head(s) \in Ran(s) /\ Ran(s) = Ran(Tail(s)) \cup {Head(s)}
           /\ \A i \in DOMAIN Tail(s) :
                 /\ Tail(s)[i] \in Ran(s)
                 /\ Tail(s)[i].back # Head(s).back
           /\ Head(s) = s[1] /\ 1 \in DOMAIN s
<1>1. /\ DOMAIN Tail(s) = 1 .. Len(s) - 1
      /\ \A i \in 1 .. Len(s) - 1 : Tail(s)[i] = s[i + 1]
      /\ Head(s) = s[1]
      /\ Head(s) \in Wish /\ Tail(s) \in Seq(Wish)
  OBVIOUS
<1>2. DOMAIN s = 1 .. Len(s) /\ Len(s) \in Nat \ {0}
  OBVIOUS
<1>3. BackOnce(Tail(s))
  BY <1>1, <1>2 DEF BackOnce
<1>4. \A i \in DOMAIN Tail(s) :
         Tail(s)[i] \in Ran(s) /\ Tail(s)[i].back # Head(s).back
  BY <1>1, <1>2 DEF BackOnce, Ran
<1>5. Head(s) \in Ran(s)
  BY <1>1, <1>2 DEF Ran
<1>6. Ran(s) = Ran(Tail(s)) \cup {Head(s)}
  <2>1. ASSUME NEW x \in Ran(s), x # Head(s) PROVE x \in Ran(Tail(s))
    <3>1. PICK i \in 1 .. Len(s) : x = s[i]
      BY <1>2 DEF Ran
    <3>2. i - 1 \in 1 .. Len(s) - 1 /\ Tail(s)[i - 1] = x
      BY <3>1, <2>1, <1>1, <1>2
    <3> QED
      BY <3>2, <1>1 DEF Ran
  <2>2. Ran(Tail(s)) \subseteq Ran(s)
    BY <1>4 DEF Ran
  <2> QED
    BY <2>1, <2>2, <1>5
<1> QED
  BY <1>1, <1>2, <1>3, <1>4, <1>5, <1>6

(* An order of a finite set of entries leaves none of them out.            *)
LEMMA OrdersAll ==
    ASSUME NEW S \in SUBSET Entry, IsFiniteSet(S), KeyedByBack(S),
           NEW s \in Orders(S)
    PROVE  Ran(s) = S /\ BackOnce(s) /\ \A i \in DOMAIN s : s[i] \in Entry
<1> DEFINE n == Cardinality(S)
<1>1. n \in Nat
  BY FS_CardinalityType
<1>2. /\ s \in [1 .. n -> S]
      /\ \A i, j \in 1 .. n : s[i] = s[j] => i = j
  BY DEF Orders
<1>3. BackOnce(s) /\ \A i \in DOMAIN s : s[i] \in Entry
  BY <1>2 DEF BackOnce, KeyedByBack
<1>4. IsFiniteSet(1 .. n) /\ Cardinality(1 .. n) = n
  <2>1. Cardinality(1 .. n) = IF 1 > n THEN 0 ELSE n - 1 + 1
    BY <1>1, FS_Interval
  <2> QED
    BY <1>1, <2>1, FS_Interval
<1>5. s \in Injection(1 .. n, S)
  BY <1>2 DEF Injection, IsInjective
<1>6. s \in Surjection(1 .. n, S)
  BY <1>4, <1>5, FS_Injection
<1>7. \A x \in S : \E i \in 1 .. n : s[i] = x
  BY <1>6 DEF Surjection
<1>8. Ran(s) = S
  BY <1>2, <1>7 DEF Ran
<1> QED
  BY <1>3, <1>8

(* allocateNetwork begins with specs for different backends: a ghost's are *)
(* those that config.json has for it.                                      *)
LEMMA AllocateSaved ==
    ASSUME TypeInv, SavedInv, NEW c \in Container, NEW specs,
           BackOnce(specs), step[c] \in {"stopped", "orphan", "dead"},
           c \in alive => /\ \A i \in DOMAIN specs : specs[i] \in Entry
                          /\ Ran(specs) = disk[c],
           Allocate(c, specs),
           UNCHANGED <<port, alive, running, disk>>
    PROVE  SavedInv'
<1> USE DEF TypeInv, TypeOK
<1>1. /\ step'[c] = "ports" /\ todo'[c] = specs /\ extPorts'[c] = <<>>
      /\ saved'[c] = {}
      /\ \A d \in Container \ {c} :
            /\ step'[d] = step[d] /\ todo'[d] = todo[d]
            /\ extPorts'[d] = extPorts[d] /\ saved'[d] = saved[d]
  BY DEF Allocate, SetStep
<1>2. AliveRuns(c) /\ SavedKeyed(c)
  BY DEF SavedInv, SavedAt
<1> HIDE DEF TypeInv, TypeOK
<1>3. AliveRuns(c)' /\ SavedKeyed(c)'
  BY <1>1, <1>2 DEF AliveRuns, SavedKeyed, KeyedByBack
<1>4. TodoApart(c)' /\ Written(c)'
  BY <1>1 DEF TodoApart, Written
<1>5. Noted(c)'
  BY <1>1, RanEmpty DEF Noted, Fronts
<1>6. Adopting(c)'
  BY <1>1 DEF Adopting
<1>7. SavedAt(c)' /\ Only(c)
  BY <1>1, <1>3, <1>4, <1>5, <1>6 DEF SavedAt, Only
<1> QED
  BY <1>7, OnlyOne

LEMMA NextSaved ==
    ASSUME OneSpecPerBackend, TypeInv, HeldInv, SavedInv, [Next]_vars
    PROVE  SavedInv'
<1> USE DEF TypeInv, TypeOK, Ready, SetStep, netVars, diskVars
<1>1. ASSUME NEW c \in Container, Draw(c) PROVE SavedInv'
  <2>1. /\ step[c] = "ports" /\ step'[c] = "claim" /\ todo[c] # <<>>
        /\ Head(todo[c]).front = Anywhere
        /\ UNCHANGED <<todo, extPorts, saved, alive, running, disk>>
    BY <1>1 DEF Draw
  <2>2. SavedAt(c) /\ Only(c)
    BY <1>1 DEF Draw, SavedInv, Only
  <2>3. c \notin alive
    <3>1. 1 \in DOMAIN todo[c] /\ Head(todo[c]) = todo[c][1]
      BY <2>1
    <3>2. todo[c][1] \notin Entry
      BY <2>1, <3>1 DEF Entry
    <3> QED
      BY <2>1, <2>2, <3>1, <3>2 DEF SavedAt, Adopting, Working
  <2>4. SavedAt(c)'
    BY <2>1, <2>2, <2>3 DEF SavedAt, AliveRuns, SavedKeyed, TodoApart, Noted,
                            Adopting, Written, Working
  <2> QED
    BY <2>2, <2>4, OnlyOne
<1>2. ASSUME NEW c \in Container, Claim(c) PROVE SavedInv'
  <2> DEFINE p == IF step[c] = "claim" THEN port[c] ELSE Head(todo[c]).front
  <2>1. /\ step[c] \in {"claim", "ports"}
        /\ \/ step'[c] = "map" /\ port'[c] = p
           \/ step'[c] \in {"ports", "undo"}
        /\ step[c] = "ports" => step'[c] # "ports"
        /\ UNCHANGED <<todo, extPorts, saved, alive, running, disk>>
    BY <1>2 DEF Claim
  <2>2. SavedAt(c) /\ Only(c)
    BY <1>2 DEF Claim, SavedInv, Only
  <2>3. c \in alive => step[c] = "ports"
    BY <2>1, <2>2 DEF SavedAt, Adopting, Working
  <2>4. c \in alive /\ step'[c] = "map" => port'[c] = Head(todo'[c]).front
    BY <2>1, <2>3
  <2> HIDE DEF p
  <2>5. SavedAt(c)'
    BY <2>1, <2>2, <2>3, <2>4
       DEF SavedAt, AliveRuns, SavedKeyed, TodoApart, Noted, Adopting,
           Written, Working
  <2> QED
    BY <2>2, <2>5, OnlyOne
<1>3. ASSUME NEW c \in Container, AddRule(c) PROVE SavedInv'
  <2>1. SavedAt(c) /\ Only(c)
    BY <1>3 DEF AddRule, SavedInv, Only
  <2>2. SavedAt(c)'
    BY <1>3, <2>1
       DEF AddRule, SavedAt, AliveRuns, SavedKeyed, TodoApart,
           Noted, Adopting, Written, Working
  <2> QED
    BY <2>1, <2>2, OnlyOne
<1>4. ASSUME NEW c \in Container, AddFails(c) PROVE SavedInv'
  <2>1. SavedAt(c) /\ Only(c)
    BY <1>4 DEF AddFails, SavedInv, Only
  <2>2. SavedAt(c)'
    BY <1>4, <2>1
       DEF AddFails, SavedAt, AliveRuns, SavedKeyed, TodoApart,
           Noted, Adopting, Written, Working
  <2> QED
    BY <2>1, <2>2, OnlyOne
<1>5. ASSUME NEW c \in Container, Bind(c) PROVE SavedInv'
  <2> DEFINE p == port[c]
             h == Head(todo[c])
             e == [front |-> p, back |-> h.back]
  <2>1. /\ step[c] = "bind" /\ p \in Port /\ todo[c] # <<>>
        /\ todo[c] \in Seq(Wish) /\ extPorts[c] \in Seq(Port)
        /\ step'[c] = "ports" /\ todo'[c] = Tail(todo[c])
        /\ extPorts'[c] = Append(extPorts[c], p)
        /\ saved'[c] = {x \in saved[c] : x.back # h.back} \cup {e}
        /\ UNCHANGED <<port, alive, running, disk>>
    BY <1>5 DEF Bind, Recorded
  <2>2. SavedAt(c) /\ Only(c)
    BY <1>5 DEF Bind, SavedInv, Only
  <2>3. /\ BackOnce(todo[c])
        /\ \A i \in DOMAIN todo[c] : \A x \in saved[c] :
               todo[c][i].back # x.back
        /\ Fronts(saved[c]) = Ran(extPorts[c])
    BY <2>1, <2>2 DEF SavedAt, TodoApart, Noted, Working
  <2>4. /\ BackOnce(Tail(todo[c])) /\ h \in Wish
        /\ Ran(todo[c]) = Ran(Tail(todo[c])) \cup {h}
        /\ \A i \in DOMAIN Tail(todo[c]) :
              /\ Tail(todo[c])[i] \in Ran(todo[c])
              /\ Tail(todo[c])[i].back # h.back
        /\ h = todo[c][1] /\ 1 \in DOMAIN todo[c]
    BY <2>1, <2>3, Served
  <2>5. saved'[c] = saved[c] \cup {e}
    BY <2>1, <2>3, <2>4
  <2>6. e.front = p /\ e.back = h.back
    OBVIOUS
  <2>7. Ran(extPorts'[c]) = Ran(extPorts[c]) \cup {p}
    <3> HIDE DEF TypeInv, TypeOK, Ready, p
    <3> QED
      BY <2>1, RanAppend
  <2>8. c \in alive => h = e
    <3> SUFFICES ASSUME c \in alive PROVE h = e
      OBVIOUS
    <3>1. h \in Entry /\ p = h.front
      BY <2>1, <2>2, <2>4 DEF SavedAt, Adopting, Working
    <3> QED
      BY <3>1 DEF Entry
  <2> HIDE DEF p, h, e, TypeInv, TypeOK, Ready
  <2>9. AliveRuns(c)' /\ Written(c)'
    BY <2>1, <2>2 DEF SavedAt, AliveRuns, Written
  <2>10. SavedKeyed(c)'
    BY <2>1, <2>2, <2>3, <2>4, <2>5, <2>6
       DEF SavedAt, SavedKeyed, KeyedByBack
  <2>11. TodoApart(c)'
    <3>1. \A i \in DOMAIN todo'[c] : \A x \in saved'[c] :
              todo'[c][i].back # x.back
      BY <2>1, <2>3, <2>4, <2>5, <2>6 DEF Ran
    <3> QED
      BY <2>1, <2>4, <3>1 DEF TodoApart
  <2>12. Noted(c)'
    <3>1. Fronts(saved'[c]) = Ran(extPorts'[c])
      BY <2>3, <2>5, <2>6, <2>7 DEF Fronts
    <3> QED
      BY <3>1 DEF Noted
  <2>13. Adopting(c)'
    <3>1. c \in alive => /\ \A i \in DOMAIN todo[c] : todo[c][i] \in Entry
                         /\ disk[c] = saved[c] \cup Ran(todo[c])
      BY <2>1, <2>2 DEF SavedAt, Adopting, Working
    <3>2. c \in alive =>
            \A i \in DOMAIN Tail(todo[c]) : Tail(todo[c])[i] \in Entry
      BY <2>4, <3>1 DEF Ran
    <3>3. c \in alive => disk[c] = saved'[c] \cup Ran(Tail(todo[c]))
      BY <2>4, <2>5, <2>8, <3>1
    <3> QED
      BY <2>1, <3>2, <3>3 DEF Adopting
  <2> QED
    BY <2>2, <2>9, <2>10, <2>11, <2>12, <2>13, OnlyOne DEF SavedAt
<1>6. ASSUME NEW c \in Container, BindFails(c) PROVE SavedInv'
  <2>1. SavedAt(c) /\ Only(c)
    BY <1>6 DEF BindFails, SavedInv, Only
  <2>2. SavedAt(c)'
    BY <1>6, <2>1
       DEF BindFails, SavedAt, AliveRuns, SavedKeyed, TodoApart,
           Noted, Adopting, Written, Working
  <2> QED
    BY <2>1, <2>2, OnlyOne
<1>7. ASSUME NEW c \in Container, Unmap(c) PROVE SavedInv'
  <2>1. SavedAt(c) /\ Only(c)
    BY <1>7 DEF Unmap, SavedInv, Only, Unmapping, AfterUnmap
  <2>2. SavedAt(c)'
    BY <1>7, <2>1
       DEF Unmap, Unmapping, AfterUnmap, SavedAt, AliveRuns, SavedKeyed, TodoApart,
           Noted, Adopting, Written, Working
  <2> QED
    BY <2>1, <2>2, OnlyOne
<1>8. ASSUME NEW c \in Container, Free(c) PROVE SavedInv'
  <2>1. /\ step[c] \in {"unclaim", "undofree"} => step'[c] = "undo"
        /\ step[c] = "exitfree" => step'[c] = "exit"
        /\ step[c] \in {"unclaim", "undofree", "exitfree"}
        /\ UNCHANGED <<todo, port, saved, alive, running, disk>>
    BY <1>8 DEF Free, Freeing, AfterFree
  <2>2. SavedAt(c) /\ Only(c)
    BY <1>8 DEF Free, SavedInv, Only
  <2>3. step[c] = "exitfree" => Ran(extPorts'[c]) \subseteq Ran(extPorts[c])
    <3> SUFFICES ASSUME step[c] = "exitfree"
                 PROVE  Ran(extPorts'[c]) \subseteq Ran(extPorts[c])
      OBVIOUS
    <3>1. extPorts[c] # <<>> /\ extPorts'[c] = Tail(extPorts[c])
      BY <1>8 DEF Free
    <3>2. NoRepeat(extPorts[c]) /\ extPorts[c] \in Seq(Port)
      BY DEF HeldInv, HeldOnce
    <3> QED
      BY <3>1, <3>2, RanTail
  <2>4. SavedAt(c)'
    BY <2>1, <2>2, <2>3
       DEF SavedAt, AliveRuns, SavedKeyed, TodoApart, Noted, Adopting,
           Written, Working
  <2> QED
    BY <2>2, <2>4, OnlyOne
<1>9. ASSUME NEW c \in Container, Undone(c) PROVE SavedInv'
  <2>1. SavedAt(c) /\ Only(c)
    BY <1>9 DEF Undone, SavedInv, Only
  <2>2. SavedAt(c)'
    BY <1>9, <2>1
       DEF Undone, SavedAt, AliveRuns, SavedKeyed, TodoApart,
           Noted, Adopting, Written, Working
  <2> QED
    BY <2>1, <2>2, OnlyOne
<1>10. ASSUME NEW c \in Container, NetworkReady(c) PROVE SavedInv'
  <2>1. SavedAt(c) /\ Only(c)
    BY <1>10 DEF NetworkReady, SavedInv, Only
  <2>2. SavedAt(c)'
    BY <1>10, <2>1, RanEmpty
       DEF NetworkReady, SavedAt, AliveRuns, SavedKeyed, TodoApart,
           Noted, Adopting, Written, Working
  <2> QED
    BY <2>1, <2>2, OnlyOne
<1>11. ASSUME NEW c \in Container, Start(c) PROVE SavedInv'
  <2>1. step[c] = "stopped" /\ c \notin alive /\ BackOnce(PortSpecs[c])
    BY <1>11 DEF Start, SavedInv, SavedAt, AliveRuns, OneSpecPerBackend
  <2>2. Allocate(c, PortSpecs[c]) /\ UNCHANGED <<port, alive, running, disk>>
    BY <1>11 DEF Start
  <2> QED
    BY <2>1, <2>2, AllocateSaved
<1>12. ASSUME NEW c \in Container, StartGhost(c) \/ Adopt(c) PROVE SavedInv'
  <2>1. /\ step[c] \in {"stopped", "orphan"}
        /\ c \in alive => step[c] = "orphan" /\ saved[c] = disk[c]
        /\ UNCHANGED <<port, alive, running, disk>>
    BY <1>12 DEF StartGhost, Adopt, SavedInv, SavedAt, AliveRuns, Adopting
  <2>2. PICK specs \in Orders(saved[c]) : Allocate(c, specs)
    BY <1>12 DEF StartGhost, Adopt
  <2>3. /\ Ran(specs) = saved[c] /\ BackOnce(specs)
        /\ \A i \in DOMAIN specs : specs[i] \in Entry
    <3>1. /\ saved[c] \in SUBSET Entry /\ IsFiniteSet(saved[c])
          /\ KeyedByBack(saved[c])
      BY DEF SavedInv, SavedAt, SavedKeyed
    <3> QED
      BY <3>1, OrdersAll
  <2> QED
    BY <2>1, <2>2, <2>3, AllocateSaved
<1>13. ASSUME NEW c \in Container, Started(c) PROVE SavedInv'
  <2>1. SavedAt(c) /\ Only(c)
    BY <1>13 DEF Started, SavedInv, Only
  <2>2. SavedAt(c)'
    BY <1>13, <2>1
       DEF Started, SavedAt, AliveRuns, SavedKeyed, TodoApart,
           Noted, Adopting, Written, Working
  <2> QED
    BY <2>1, <2>2, OnlyOne
<1>14. ASSUME NEW c \in Container, StartFails(c) PROVE SavedInv'
  <2>1. SavedAt(c) /\ Only(c)
    BY <1>14 DEF StartFails, SavedInv, Only
  <2>2. SavedAt(c)'
    BY <1>14, <2>1
       DEF StartFails, SavedAt, AliveRuns, SavedKeyed, TodoApart,
           Noted, Adopting, Written, Working
  <2> QED
    BY <2>1, <2>2, OnlyOne
<1>15. ASSUME NEW c \in Container, Exit(c) PROVE SavedInv'
  <2>1. SavedAt(c) /\ Only(c)
    BY <1>15 DEF Exit, SavedInv, Only
  <2>2. SavedAt(c)'
    BY <1>15, <2>1
       DEF Exit, SavedAt, AliveRuns, SavedKeyed, TodoApart,
           Noted, Adopting, Written, Working
  <2> QED
    BY <2>1, <2>2, OnlyOne
<1>16. ASSUME NEW c \in Container, Exited(c) PROVE SavedInv'
  <2>1. SavedAt(c) /\ Only(c)
    BY <1>16 DEF Exited, SavedInv, Only, KeyedByBack
  <2>2. SavedAt(c)'
    BY <1>16, <2>1, RanEmpty
       DEF Exited, KeyedByBack, SavedAt, AliveRuns, SavedKeyed, TodoApart,
           Noted, Adopting, Written, Working
  <2> QED
    BY <2>1, <2>2, OnlyOne
<1>17. ASSUME NEW c \in Container, OrphanDies(c) PROVE SavedInv'
  <2>1. SavedAt(c) /\ Only(c)
    BY <1>17 DEF OrphanDies, SavedInv, Only
  <2>2. SavedAt(c)'
    BY <1>17, <2>1
       DEF OrphanDies, SavedAt, AliveRuns, SavedKeyed, TodoApart,
           Noted, Adopting, Written, Working
  <2> QED
    BY <2>1, <2>2, OnlyOne
<1>18. ASSUME NEW c \in Container, RegisterDead(c) PROVE SavedInv'
  <2>1. /\ step[c] = "dead" /\ c \notin alive /\ BackOnce(PortSpecs[c])
        /\ SavedAt(c)
    BY <1>18 DEF RegisterDead, SavedInv, SavedAt, AliveRuns, OneSpecPerBackend
  <2>2. CASE AutoRestart
    BY <1>18, <2>1, <2>2, AllocateSaved DEF RegisterDead
  <2>3. CASE ~AutoRestart
    <3>1. Only(c)
      BY <1>18, <2>3 DEF RegisterDead, Only
    <3>2. SavedAt(c)'
      BY <1>18, <2>1, <2>3
         DEF RegisterDead, SavedAt, AliveRuns, SavedKeyed, TodoApart, Noted,
             Adopting, Written, Working
    <3> QED
      BY <3>1, <3>2, OnlyOne
  <2> QED
    BY <2>2, <2>3
<1>19. CASE RestartDaemon
  <2> SUFFICES ASSUME NEW c \in Container PROVE SavedAt(c)'
    BY DEF SavedInv
  <2>1. SavedAt(c)
    BY DEF SavedInv
  <2> QED
    BY <1>19, <2>1
       DEF RestartDaemon, SavedAt, AliveRuns, SavedKeyed, TodoApart, Noted,
           Adopting, Written, Working
<1>20. CASE Serve \/ UNCHANGED vars
  BY <1>20 DEF Serve, vars, SavedInv, SavedAt, AliveRuns, SavedKeyed,
               TodoApart, Noted, Adopting, Written
<1> HIDE DEF TypeInv, TypeOK, Ready, SetStep, netVars, diskVars
<1> QED
  BY <1>1, <1>2, <1>3, <1>4, <1>5, <1>6, <1>7, <1>8, <1>9, <1>10, <1>11,
     <1>12, <1>13, <1>14, <1>15, <1>16, <1>17, <1>18, <1>19, <1>20
     DEF Next, Ports, Life, Registration

LEMMA InitSaved == Init => SavedInv
BY RanEmpty
   DEF Init, SavedInv, SavedAt, AliveRuns, SavedKeyed, KeyedByBack, TodoApart,
       Noted, Adopting, Written, Working

(* A container that is up has the ports that its settings and config.json  *)
(* name, and no others: through every restart of the daemon, whatever      *)
(* fails, if no two of its specs have one backend.                         *)
THEOREM SavedIsAlwaysHeld ==
    ASSUME OneSpecPerBackend
    PROVE  Spec => []SavedIsHeld
<1>1. Init => TypeInv /\ HeldInv /\ SavedInv
  BY InitType, InitIInv, InitSaved DEF IInv, HeldInv
<1>2. TypeInv /\ HeldInv /\ SavedInv /\ [Next]_vars
         => (TypeInv /\ HeldInv /\ SavedInv)'
  BY NextType, NextHeld, NextSaved
<1>3. SavedInv => SavedIsHeld
  BY DEF SavedInv, SavedAt, Noted, Adopting, Written, Fronts, SavedIsHeld
<1> QED
  BY <1>1, <1>2, <1>3, PTL DEF Spec

-----------------------------------------------------------------------------
(* A port that nobody listens on. *)

(* Whatever becomes of the rules, a proxy listens only on a mapped port    *)
(* that is in use, and never on the one that is to be listened on next.    *)
ProxyInv ==
    /\ \A p \in Port :
          /\ p \notin portUse => proxies[p] = None
          /\ proxies[p] # None => mapping[p] # None
    /\ \A c \in Container :
          /\ InWork(c) => proxies[port[c]] = None
          /\ step[c] = "bind" => mapping[port[c]] # None
          /\ step[c] \in {"undofree", "exitfree"} =>
                 proxies[Head(extPorts[c])] = None

(* What a container holds is a port, the one it unmaps or frees included.  *)
LEMMA HeldPort ==
    ASSUME TypeInv, HeldInv, NEW c \in Container
    PROVE  /\ InWork(c) => port[c] \in Held(c)
           /\ extPorts[c] # <<>> => Head(extPorts[c]) \in Held(c)
           /\ Held(c) \subseteq Port
<1> USE DEF TypeInv, TypeOK, Ready
<1>1. extPorts[c] \in Seq(Port) /\ NoRepeat(extPorts[c])
  BY DEF HeldInv, HeldOnce
<1>2. extPorts[c] # <<>> => Head(extPorts[c]) \in Ran(extPorts[c])
  BY <1>1, RanTail
<1> QED
  BY <1>1, <1>2 DEF Held, InWork, Ran

LEMMA NextProxy ==
    ASSUME TypeInv, HeldInv, ProxyInv, [Next]_vars
    PROVE  ProxyInv'
<1> USE DEF TypeInv, TypeOK, Ready, SetStep, netVars, diskVars, InWork
<1>1. ASSUME NEW c \in Container, Claim(c) PROVE ProxyInv'
  <2> DEFINE p == IF step[c] = "claim" THEN port[c] ELSE Head(todo[c]).front
  <2>0. p \in Port
    BY <1>1, ClaimedPort
  <2>1. /\ step[c] \in {"claim", "ports"}
        /\ \/ /\ p \notin portUse /\ portUse' = portUse \cup {p}
              /\ port' = [port EXCEPT ![c] = p]
              /\ step' = [step EXCEPT ![c] = "map"]
           \/ /\ UNCHANGED <<portUse, port>> /\ step'[c] \in {"ports", "undo"}
        /\ \A d \in Container \ {c} : step'[d] = step[d] /\ port'[d] = port[d]
        /\ UNCHANGED <<mapping, proxies, extPorts>>
    BY <1>1 DEF Claim
  <2> HIDE DEF p
  <2> QED
    BY <2>0, <2>1 DEF ProxyInv
<1>2. ASSUME NEW c \in Container, AddRule(c) PROVE ProxyInv'
  <2>1. /\ step[c] = "map" /\ step'[c] = "bind" /\ port[c] \in Port
        /\ mapping' = [mapping EXCEPT ![port[c]] = c]
        /\ \A d \in Container \ {c} : step'[d] = step[d]
        /\ UNCHANGED <<portUse, proxies, port, extPorts>>
    BY <1>2 DEF AddRule
  <2> QED
    BY <2>1 DEF ProxyInv
<1>3. ASSUME NEW c \in Container, AddFails(c) PROVE ProxyInv'
  <2>1. /\ step[c] = "map" /\ step'[c] = "undo"
        /\ portUse' = portUse \ {port[c]}
        /\ \A d \in Container \ {c} : step'[d] = step[d]
        /\ UNCHANGED <<mapping, proxies, port, extPorts>>
    BY <1>3 DEF AddFails
  <2> QED
    BY <2>1 DEF ProxyInv
<1>4. ASSUME NEW c \in Container, Bind(c) PROVE ProxyInv'
  <2>1. /\ step[c] = "bind" /\ step'[c] = "ports" /\ port[c] \in Port
        /\ proxies' = [proxies EXCEPT ![port[c]] = c]
        /\ \A d \in Container \ {c} :
              step'[d] = step[d] /\ extPorts'[d] = extPorts[d]
        /\ UNCHANGED <<portUse, mapping, port>>
    BY <1>4 DEF Bind
  <2>2. port[c] \in Held(c) /\ port[c] \in portUse
    BY <2>1, HeldPort DEF HeldInv, HeldUsed
  <2>3. \A d \in Container \ {c} :
          /\ InWork(d) => port[d] # port[c]
          /\ step[d] \in {"undofree", "exitfree"} => Head(extPorts[d]) # port[c]
    <3> SUFFICES ASSUME NEW d \in Container \ {c}
                 PROVE  /\ InWork(d) => port[d] # port[c]
                        /\ step[d] \in {"undofree", "exitfree"} =>
                               Head(extPorts[d]) # port[c]
      OBVIOUS
    <3>1. port[c] \notin Held(d)
      BY <2>2 DEF HeldInv, HeldApart
    <3> QED
      BY <3>1, HeldPort
  <2> QED
    BY <2>1, <2>2, <2>3 DEF ProxyInv
<1>5. ASSUME NEW c \in Container, Unmap(c) PROVE ProxyInv'
  <2> DEFINE p == Leaving(c)
  <2>1. /\ step[c] = "unmap" => step'[c] = "unclaim" /\ p = port[c]
        /\ step[c] = "undo" => step'[c] = "undofree"
        /\ step[c] = "exit" => step'[c] = "exitfree"
        /\ step[c] \in {"unmap", "undo", "exit"}
        /\ step[c] # "unmap" => extPorts[c] # <<>> /\ p = Head(extPorts[c])
        /\ \A d \in Container \ {c} : step'[d] = step[d]
        /\ UNCHANGED <<portUse, port, extPorts>>
    BY <1>5 DEF Unmap, Unmapping, AfterUnmap, Leaving
  <2>2. p \in Held(c) /\ p \in Port /\ p \in portUse
    BY <2>1, HeldPort DEF HeldInv, HeldUsed
  <2>3. \A q \in Port \ {p} : mapping'[q] = mapping[q] /\ proxies'[q] = proxies[q]
    BY <1>5, <2>2 DEF Unmap
  <2>4. proxies'[p] = None
    BY <1>5, <2>2 DEF Unmap, ProxyInv
  <2>5. \A d \in Container \ {c} :
          /\ InWork(d) => port[d] # p
          /\ step[d] \in {"undofree", "exitfree"} => Head(extPorts[d]) # p
    <3> SUFFICES ASSUME NEW d \in Container \ {c}
                 PROVE  /\ InWork(d) => port[d] # p
                        /\ step[d] \in {"undofree", "exitfree"} =>
                               Head(extPorts[d]) # p
      OBVIOUS
    <3>1. p \notin Held(d)
      BY <2>2 DEF HeldInv, HeldApart
    <3> QED
      BY <3>1, HeldPort
  <2>6. \A d \in Container :
          /\ InWork(d) => port[d] \in Port
          /\ step[d] \in {"undofree", "exitfree"} =>
                 Head(extPorts[d]) \in Port
    BY HeldPort
  <2> HIDE DEF p, TypeInv, TypeOK, Ready
  <2>7. \A q \in Port : /\ q \notin portUse' => proxies'[q] = None
                        /\ proxies'[q] # None => mapping'[q] # None
    BY <2>1, <2>2, <2>3, <2>4 DEF ProxyInv
  <2>8. ASSUME NEW d \in Container \ {c}
        PROVE  /\ InWork(d)' => proxies'[port'[d]] = None
               /\ step'[d] = "bind" => mapping'[port'[d]] # None
               /\ step'[d] \in {"undofree", "exitfree"} =>
                      proxies'[Head(extPorts'[d])] = None
    BY <2>1, <2>3, <2>5, <2>6, ZenonT(40) DEF ProxyInv
  <2>9. /\ InWork(c)' => proxies'[port'[c]] = None
        /\ step'[c] # "bind"
        /\ step'[c] \in {"undofree", "exitfree"} =>
               proxies'[Head(extPorts'[c])] = None
    BY <2>1, <2>4
  <2> QED
    BY <2>7, <2>8, <2>9 DEF ProxyInv
<1>6. ASSUME NEW c \in Container, Free(c) PROVE ProxyInv'
  <2> DEFINE p == Leaving(c)
  <2>1. /\ step[c] = "unclaim" => p = port[c]
        /\ step[c] # "unclaim" => extPorts[c] # <<>> /\ p = Head(extPorts[c])
        /\ step[c] \in {"unclaim", "undofree", "exitfree"}
        /\ portUse' = portUse \ {p}
        /\ step'[c] \in {"undo", "exit"}
        /\ \A d \in Container \ {c} :
              step'[d] = step[d] /\ extPorts'[d] = extPorts[d]
        /\ UNCHANGED <<mapping, proxies, port>>
    BY <1>6 DEF Free, Freeing, AfterFree, Leaving
  <2>2. proxies[p] = None
    BY <2>1 DEF ProxyInv
  <2> HIDE DEF p
  <2> QED
    BY <2>1, <2>2 DEF ProxyInv
<1>7. ASSUME NEW c \in Container,
             \/ Draw(c) \/ BindFails(c) \/ Undone(c) \/ NetworkReady(c)
             \/ Started(c) \/ StartFails(c) \/ Exit(c) \/ Exited(c)
             \/ OrphanDies(c) \/ Start(c) \/ StartGhost(c) \/ Adopt(c)
             \/ RegisterDead(c)
      PROVE  ProxyInv'
  <2>1. /\ InWork(c)' => InWork(c) /\ step[c] = "bind" /\ port'[c] = port[c]
        /\ step'[c] \notin {"bind", "undofree", "exitfree"}
        /\ \A d \in Container \ {c} :
              /\ step'[d] = step[d] /\ extPorts'[d] = extPorts[d]
              /\ port'[d] = port[d]
        /\ UNCHANGED <<portUse, mapping, proxies>>
    BY <1>7 DEF Draw, BindFails, Undone, NetworkReady, Started, StartFails,
                Exit, Exited, OrphanDies, Start, StartGhost, Adopt,
                RegisterDead, Allocate
  <2> HIDE DEF TypeInv, TypeOK, Ready
  <2>2. ASSUME NEW d \in Container
        PROVE  /\ InWork(d)' => proxies'[port'[d]] = None
               /\ step'[d] = "bind" => mapping'[port'[d]] # None
               /\ step'[d] \in {"undofree", "exitfree"} =>
                      proxies'[Head(extPorts'[d])] = None
    <3>1. CASE d = c
      BY <2>1, <3>1 DEF ProxyInv
    <3>2. CASE d # c
      BY <2>1, <3>2 DEF ProxyInv
    <3> QED
      BY <3>1, <3>2
  <2> QED
    BY <2>1, <2>2 DEF ProxyInv
<1>8. CASE RestartDaemon
  BY <1>8 DEF RestartDaemon, Nothing, ProxyInv
<1>9. CASE Serve \/ UNCHANGED vars
  BY <1>9 DEF Serve, vars, ProxyInv
<1> HIDE DEF TypeInv, TypeOK, Ready, SetStep, netVars, diskVars, InWork
<1> QED
  BY <1>1, <1>2, <1>3, <1>4, <1>5, <1>6, <1>7, <1>8, <1>9
     DEF Next, Ports, Life, Registration

-----------------------------------------------------------------------------
(* A restart finds every port free. *)

(* The ports that ghosts ask for are free to be had: nothing else starts   *)
(* before they are registered, and no rule is refused.                     *)
GhostsFirst == ~AutoRestart /\ "add" \notin Faults

FrontOnce(S) == \A e, f \in S : e.front = f.front => e = f

(* No port that was ever listened on is another program's, or twice in one *)
(* container's settings.                                                   *)
OwnPorts(c) ==
    /\ \A e \in saved[c] \cup disk[c] : e.front \notin Foreign
    /\ FrontOnce(disk[c])
    /\ step[c] \in Working \cup {"starting"} => FrontOnce(saved[c])

(* Until the API is served only ghosts get their networks, and none of     *)
(* them fails to.                                                          *)
Phase(c) ==
    IF daemon = "serving"
    THEN step[c] # "detached" /\ (c \in alive => step[c] = "up")
    ELSE IF c \in alive
         THEN step[c] \in {"orphan", "ports", "map", "bind", "up"}
         ELSE step[c] \in {"stopped", "dead", "exit", "exitfree"}

(* The containers whose ports in config.json are theirs, or will be; no    *)
(* two have one port there.                                                *)
Bonded(c) ==
    \/ c \in alive
    \/ daemon = "restoring" /\ step[c] \in {"exit", "exitfree"}

DiskApart ==
    \A c, d \in Container : c # d /\ Bonded(c) /\ Bonded(d) =>
        Fronts(disk[c]) \cap Fronts(disk[d]) = {}

RestInv ==
    /\ \A c \in Container : OwnPorts(c) /\ Phase(c)
    /\ DiskApart
    /\ daemon = "restoring" => UsedHeld

AllInv == KeptInv /\ SavedInv /\ ProxyInv /\ RestInv

(* Until the API is served a container holds nothing but ports that        *)
(* config.json has for it.                                                 *)
LEMMA HeldOnDisk ==
    ASSUME AllInv, daemon = "restoring", NEW d \in Container, NEW p \in Held(d)
    PROVE  Bonded(d) /\ p \in Fronts(disk[d])
<1>1. SavedAt(d) /\ Phase(d) /\ TypeInv /\ Listless
  BY DEF AllInv, SavedInv, RestInv, KeptInv
<1>2. CASE d \in alive
  <2>1. step[d] \in {"orphan", "ports", "map", "bind", "up"}
    BY <1>1, <1>2 DEF Phase
  <2>2. step[d] # "orphan"
    BY <1>1, RanEmpty DEF Listless, Held
  <2>3. Ran(extPorts[d]) \subseteq Fronts(disk[d])
    BY <1>1, <1>2, <2>1, <2>2
       DEF SavedAt, Noted, Adopting, Working, Fronts
  <2>4. step[d] \in {"map", "bind"} => port[d] \in Fronts(disk[d])
    <3> SUFFICES ASSUME step[d] \in {"map", "bind"}
                 PROVE  port[d] \in Fronts(disk[d])
      OBVIOUS
    <3>1. /\ todo[d] # <<>> /\ todo[d] \in Seq(Wish) /\ BackOnce(todo[d])
          /\ disk[d] = saved[d] \cup Ran(todo[d])
          /\ port[d] = Head(todo[d]).front
      BY <1>1, <1>2 DEF TypeInv, TypeOK, Ready, SavedAt, TodoApart, Adopting,
                        Working
    <3> QED
      BY <3>1, Served DEF Fronts
  <2> QED
    BY <1>2, <2>1, <2>3, <2>4 DEF Held, Bonded
<1>3. CASE d \notin alive
  <2>1. step[d] \in {"stopped", "dead", "exit", "exitfree"}
    BY <1>1, <1>3 DEF Phase
  <2>2. step[d] \in {"exit", "exitfree"} /\ p \in Ran(extPorts[d])
    BY <1>1, <2>1, RanEmpty DEF Listless, Held
  <2> QED
    BY <1>1, <2>2 DEF SavedAt, Written, Bonded
<1> QED
  BY <1>2, <1>3

(* The port that a ghost asks for is nobody's.                             *)
LEMMA GhostsPortIsFree ==
    ASSUME AllInv, daemon = "restoring", NEW c \in Container,
           step[c] = "ports", todo[c] # <<>>
    PROVE  c \in alive /\ Head(todo[c]).front \notin portUse
<1>1. SavedAt(c) /\ OwnPorts(c) /\ Phase(c) /\ TypeInv
  BY DEF AllInv, SavedInv, RestInv, KeptInv
<1>2. c \in alive
  BY <1>1 DEF Phase
<1> DEFINE h == Head(todo[c])
<1>3. /\ todo[c] \in Seq(Wish) /\ BackOnce(todo[c])
      /\ disk[c] = saved[c] \cup Ran(todo[c])
      /\ \A i \in DOMAIN todo[c] : \A e \in saved[c] :
             todo[c][i].back # e.back
      /\ Fronts(saved[c]) = Ran(extPorts[c])
  BY <1>1, <1>2 DEF TypeInv, TypeOK, SavedAt, TodoApart, Adopting, Noted,
                    Working
<1>4. h \in disk[c] /\ \A e \in saved[c] : h.back # e.back
  BY <1>3, Served
<1> HIDE DEF h
<1>5. h.front \notin Held(c)
  <2>1. h.front \notin Fronts(saved[c])
    BY <1>1, <1>3, <1>4 DEF OwnPorts, FrontOnce, Fronts
  <2> QED
    BY <1>3, <2>1 DEF Held
<1>6. ASSUME NEW d \in Container \ {c} PROVE h.front \notin Held(d)
  <2> SUFFICES ASSUME h.front \in Held(d) PROVE FALSE
    OBVIOUS
  <2>1. Bonded(d) /\ h.front \in Fronts(disk[d])
    BY HeldOnDisk
  <2>2. Bonded(c) /\ h.front \in Fronts(disk[c])
    BY <1>2, <1>4 DEF Bonded, Fronts
  <2> QED
    BY <2>1, <2>2 DEF AllInv, RestInv, DiskApart
<1>7. h.front \notin portUse
  BY <1>5, <1>6 DEF AllInv, RestInv, UsedHeld
<1> QED
  BY <1>2, <1>7 DEF h

(* A step of c that does not write its settings to config.json.            *)
LEMMA RestOne ==
    ASSUME RestInv, NEW c \in Container, Only(c), UNCHANGED daemon,
           OwnPorts(c)', Phase(c)',
           \/ disk'[c] = {}
           \/ disk'[c] = disk[c] /\ (Bonded(c)' => Bonded(c)),
           (daemon = "restoring" => UsedHeld)'
    PROVE  RestInv'
<1>1. ASSUME NEW d \in Container
      PROVE  /\ OwnPorts(d)' /\ Phase(d)'
             /\ d # c => /\ disk'[d] = disk[d]
                         /\ Bonded(d)' <=> Bonded(d)
  <2>1. CASE d = c
    BY <2>1
  <2>2. CASE d # c
    <3>1. /\ step'[d] = step[d] /\ saved'[d] = saved[d] /\ disk'[d] = disk[d]
          /\ d \in alive' <=> d \in alive
      BY <2>2 DEF Only
    <3>2. OwnPorts(d) /\ Phase(d)
      BY DEF RestInv
    <3> QED
      BY <3>1, <3>2 DEF OwnPorts, Phase, Bonded
  <2> QED
    BY <2>1, <2>2
<1>2. DiskApart'
  <2> SUFFICES ASSUME NEW d \in Container, NEW e \in Container, d # e,
                      Bonded(d)', Bonded(e)'
               PROVE  Fronts(disk'[d]) \cap Fronts(disk'[e]) = {}
    BY DEF DiskApart, Fronts
  <2>1. DiskApart /\ Fronts({}) = {}
    BY DEF RestInv, Fronts
  <2>2. CASE d # c /\ e # c
    BY <1>1, <2>1, <2>2 DEF DiskApart
  <2>3. CASE d = c
    BY <1>1, <2>1, <2>3 DEF DiskApart
  <2>4. CASE e = c
    BY <1>1, <2>1, <2>4 DEF DiskApart
  <2> QED
    BY <2>2, <2>3, <2>4
<1> QED
  BY <1>1, <1>2 DEF RestInv

LEMMA NextRest ==
    ASSUME GhostsFirst, AllInv, [Next]_vars, SavedInv', KeptInv'
    PROVE  RestInv'
<1> USE DEF SetStep, netVars, diskVars
<1>0. \A c \in Container : OwnPorts(c) /\ Phase(c)
  BY DEF AllInv, RestInv
<1>a. TypeOK
  BY DEF AllInv, KeptInv, TypeInv
<1>b. (daemon = "restoring" => UsedHeld)'
  <2>1. CASE RestartDaemon
    BY <2>1 DEF RestartDaemon, UsedHeld
  <2>2. CASE ~RestartDaemon
    <3>1. daemon' = "restoring" => daemon = "restoring"
      BY <2>2 DEF Next, vars, Ports, Life, Registration, Serve, Draw, Claim,
         AddRule, AddFails, Bind, BindFails, Unmap, Free, Undone,
         NetworkReady, Start, StartGhost, Started, StartFails, Exit, Exited,
         Adopt, OrphanDies, RegisterDead
    <3>2. daemon = "restoring" => \A c \in Container : ~StartFails(c)
      BY <1>0 DEF Phase, StartFails
    <3>3. daemon = "restoring" => UsedHeld /\ KeptInv
      BY DEF AllInv, RestInv
    <3> QED
      BY <3>1, <3>2, <3>3, NextKept
  <2> QED
    BY <2>1, <2>2
<1>c. daemon \in {"restoring", "serving"}
  BY <1>a DEF TypeOK
<1>1. ASSUME NEW c \in Container, Draw(c) PROVE RestInv'
  <2>1. Only(c) /\ UNCHANGED daemon
    BY <1>a, <1>1 DEF Draw, TypeOK, Only
  <2>2. step[c] = "ports" /\ step'[c] = "claim" /\ UNCHANGED <<saved, disk, alive>>
    BY <1>a, <1>1 DEF Draw, TypeOK
  <2>3. daemon = "serving"
    <3>1. c \notin alive
      BY <2>2 DEF SavedInv, SavedAt, Adopting, Working
    <3> QED
      BY <1>0, <1>c, <2>2, <3>1 DEF Phase
  <2>4. OwnPorts(c)' /\ Phase(c)' /\ (Bonded(c)' => Bonded(c))
    BY <1>0, <2>1, <2>2, <2>3 DEF OwnPorts, Phase, Bonded, Working
  <2> QED
    BY <2>1, <2>2, <2>4, <1>b, RestOne DEF AllInv
<1>2. ASSUME NEW c \in Container, Claim(c) PROVE RestInv'
  <2>1. Only(c) /\ UNCHANGED daemon
    BY <1>a, <1>2 DEF Claim, TypeOK, Only
  <2>2. /\ step[c] \in {"ports", "claim"} /\ UNCHANGED <<saved, disk, alive>>
        /\ step'[c] \in {"map", "ports", "undo"}
    BY <1>a, <1>2 DEF Claim, TypeOK
  <2>3. daemon = "restoring" => step'[c] = "map"
    <3> SUFFICES ASSUME daemon = "restoring" PROVE step'[c] = "map"
      OBVIOUS
    <3>1. step[c] = "ports" /\ todo[c] # <<>>
      BY <1>0, <1>2, <2>2 DEF Phase, Claim
    <3>2. Head(todo[c]).front \notin portUse
      BY <3>1, GhostsPortIsFree
    <3> QED
      BY <1>a, <1>2, <3>1, <3>2 DEF Claim, TypeOK
  <2>4. OwnPorts(c)' /\ Phase(c)' /\ (Bonded(c)' => Bonded(c))
    BY <1>0, <1>c, <2>1, <2>2, <2>3 DEF OwnPorts, Phase, Bonded, Working
  <2> QED
    BY <2>1, <2>2, <2>4, <1>b, RestOne DEF AllInv
<1>3. ASSUME NEW c \in Container, AddRule(c) PROVE RestInv'
  <2>1. Only(c) /\ UNCHANGED daemon
    BY <1>a, <1>3 DEF AddRule, TypeOK, Only
  <2>2. /\ OwnPorts(c)' /\ Phase(c)'
        /\ \/ disk'[c] = {}
           \/ disk'[c] = disk[c] /\ (Bonded(c)' => Bonded(c))
    BY <1>0, <1>a, <1>c, <1>3
       DEF AddRule, TypeOK, OwnPorts, Phase, Bonded, Working, FrontOnce
  <2> QED
    BY <2>1, <2>2, <1>b, RestOne DEF AllInv
<1>4. ASSUME NEW c \in Container, AddFails(c) PROVE RestInv'
  BY <1>4 DEF AddFails, GhostsFirst
<1>5. ASSUME NEW c \in Container, Bind(c) PROVE RestInv'
  <2> DEFINE p == port[c]
             e == [front |-> p, back |-> Head(todo[c]).back]
  <2>1. Only(c) /\ UNCHANGED daemon
    BY <1>a, <1>5 DEF Bind, TypeOK, Only
  <2>2. /\ step[c] = "bind" /\ step'[c] = "ports" /\ UNCHANGED <<disk, alive>>
        /\ saved'[c] \subseteq saved[c] \cup {e} /\ p \notin Foreign
    BY <1>a, <1>5 DEF Bind, TypeOK, Recorded, Listening
  <2>3. p \notin Fronts(saved[c])
    BY <2>2 DEF AllInv, KeptInv, HeldInv, HeldOnce, InWork, SavedInv, SavedAt,
                Noted, Working
  <2>4. e.front = p
    OBVIOUS
  <2> HIDE DEF p, e
  <2>5. OwnPorts(c)'
    BY <1>0, <2>2, <2>3, <2>4 DEF OwnPorts, FrontOnce, Fronts, Working
  <2>6. Phase(c)' /\ (Bonded(c)' => Bonded(c))
    BY <1>0, <1>c, <2>1, <2>2 DEF Phase, Bonded
  <2> QED
    BY <2>1, <2>2, <2>5, <2>6, <1>b, RestOne DEF AllInv
<1>6. ASSUME NEW c \in Container, BindFails(c) PROVE RestInv'
  <2>1. Only(c) /\ UNCHANGED daemon
    BY <1>a, <1>6 DEF BindFails, TypeOK, Only
  <2>2. /\ step[c] = "bind" /\ step'[c] = "unmap" /\ Listening(port[c])
        /\ UNCHANGED <<saved, disk, alive>>
    BY <1>a, <1>6 DEF BindFails, TypeOK
  <2>3. daemon = "serving"
    <3> SUFFICES ASSUME daemon = "restoring" PROVE FALSE
      BY <1>c
    <3>1. port[c] \in Fronts(disk[c])
      <4>1. port[c] \in Held(c)
        BY <2>2 DEF Held
      <4> QED
        BY <4>1, HeldOnDisk
    <3>2. port[c] \notin Foreign
      BY <1>0, <3>1 DEF OwnPorts, Fronts
    <3>3. proxies[port[c]] = None
      BY <2>2 DEF AllInv, ProxyInv, InWork
    <3> QED
      BY <2>2, <3>2, <3>3 DEF Listening
  <2>4. OwnPorts(c)' /\ Phase(c)' /\ (Bonded(c)' => Bonded(c))
    BY <1>0, <2>1, <2>2, <2>3 DEF OwnPorts, Phase, Bonded, Working
  <2> QED
    BY <2>1, <2>2, <2>4, <1>b, RestOne DEF AllInv
<1>7. ASSUME NEW c \in Container, Unmap(c) PROVE RestInv'
  <2>1. Only(c) /\ UNCHANGED daemon
    BY <1>a, <1>7 DEF Unmap, TypeOK, Only
  <2>2. /\ OwnPorts(c)' /\ Phase(c)'
        /\ \/ disk'[c] = {}
           \/ disk'[c] = disk[c] /\ (Bonded(c)' => Bonded(c))
    BY <1>0, <1>a, <1>c, <1>7
       DEF Unmap, Unmapping, AfterUnmap, TypeOK, OwnPorts, Phase, Bonded, Working, FrontOnce
  <2> QED
    BY <2>1, <2>2, <1>b, RestOne DEF AllInv
<1>8. ASSUME NEW c \in Container, Free(c) PROVE RestInv'
  <2>1. Only(c) /\ UNCHANGED daemon
    BY <1>a, <1>8 DEF Free, TypeOK, Only
  <2>2. /\ OwnPorts(c)' /\ Phase(c)'
        /\ \/ disk'[c] = {}
           \/ disk'[c] = disk[c] /\ (Bonded(c)' => Bonded(c))
    BY <1>0, <1>a, <1>c, <1>8
       DEF Free, Freeing, AfterFree, TypeOK, OwnPorts, Phase, Bonded, Working, FrontOnce
  <2> QED
    BY <2>1, <2>2, <1>b, RestOne DEF AllInv
<1>9. ASSUME NEW c \in Container, Undone(c) PROVE RestInv'
  <2>1. Only(c) /\ UNCHANGED daemon
    BY <1>a, <1>9 DEF Undone, TypeOK, Only
  <2>2. /\ OwnPorts(c)' /\ Phase(c)'
        /\ \/ disk'[c] = {}
           \/ disk'[c] = disk[c] /\ (Bonded(c)' => Bonded(c))
    BY <1>0, <1>a, <1>c, <1>9
       DEF Undone, TypeOK, OwnPorts, Phase, Bonded, Working, FrontOnce
  <2> QED
    BY <2>1, <2>2, <1>b, RestOne DEF AllInv
<1>10. ASSUME NEW c \in Container, NetworkReady(c) PROVE RestInv'
  <2>1. Only(c) /\ UNCHANGED daemon
    BY <1>a, <1>10 DEF NetworkReady, TypeOK, Only
  <2>2. /\ OwnPorts(c)' /\ Phase(c)'
        /\ \/ disk'[c] = {}
           \/ disk'[c] = disk[c] /\ (Bonded(c)' => Bonded(c))
    BY <1>0, <1>a, <1>c, <1>10
       DEF NetworkReady, TypeOK, OwnPorts, Phase, Bonded, Working, FrontOnce
  <2> QED
    BY <2>1, <2>2, <1>b, RestOne DEF AllInv
<1>11. ASSUME NEW c \in Container, Start(c) PROVE RestInv'
  <2>1. Only(c) /\ UNCHANGED daemon
    BY <1>a, <1>11 DEF Start, Allocate, TypeOK, Only
  <2>2. /\ OwnPorts(c)' /\ Phase(c)'
        /\ \/ disk'[c] = {}
           \/ disk'[c] = disk[c] /\ (Bonded(c)' => Bonded(c))
    BY <1>0, <1>a, <1>c, <1>11
       DEF Start, Allocate, TypeOK, OwnPorts, Phase, Bonded, Working, FrontOnce
  <2> QED
    BY <2>1, <2>2, <1>b, RestOne DEF AllInv
<1>12. ASSUME NEW c \in Container, StartGhost(c) PROVE RestInv'
  <2>1. Only(c) /\ UNCHANGED daemon
    BY <1>a, <1>12 DEF StartGhost, Allocate, TypeOK, Only
  <2>2. /\ OwnPorts(c)' /\ Phase(c)'
        /\ \/ disk'[c] = {}
           \/ disk'[c] = disk[c] /\ (Bonded(c)' => Bonded(c))
    BY <1>0, <1>a, <1>c, <1>12
       DEF StartGhost, Allocate, TypeOK, OwnPorts, Phase, Bonded, Working, FrontOnce
  <2> QED
    BY <2>1, <2>2, <1>b, RestOne DEF AllInv
<1>13. ASSUME NEW c \in Container, Started(c) PROVE RestInv'
  <2>1. Only(c) /\ UNCHANGED daemon
    BY <1>a, <1>13 DEF Started, TypeOK, Only
  <2>2. /\ step[c] = "starting" /\ step'[c] = "up" /\ c \in alive'
        /\ UNCHANGED saved /\ disk'[c] = saved[c]
    BY <1>a, <1>13 DEF Started, TypeOK
  <2>3. daemon = "serving" /\ daemon' = "serving"
    BY <1>0, <1>c, <2>1, <2>2 DEF Phase
  <2>4. Fronts(disk'[c]) \subseteq Held(c)
    BY <2>2 DEF AllInv, SavedInv, SavedAt, Noted, Working, Held
  <2>5. ASSUME NEW d \in Container \ {c}
        PROVE  /\ OwnPorts(d)' /\ Phase(d)'
               /\ Bonded(d)' => Bonded(d) /\ Fronts(disk'[d]) \subseteq Held(d)
               /\ disk'[d] = disk[d]
    <3>1. /\ step'[d] = step[d] /\ saved'[d] = saved[d] /\ disk'[d] = disk[d]
          /\ d \in alive' <=> d \in alive
      BY <2>1, <2>5 DEF Only
    <3>2. OwnPorts(d) /\ Phase(d) /\ SavedAt(d)
      BY <1>0 DEF AllInv, SavedInv
    <3>3. d \in alive => Fronts(disk[d]) \subseteq Held(d)
      BY <2>3, <3>2 DEF Phase, SavedAt, Noted, Adopting, Working, Held
    <3> QED
      BY <2>3, <3>1, <3>2, <3>3 DEF OwnPorts, Phase, Bonded
  <2>6. OwnPorts(c)' /\ Phase(c)'
    BY <1>0, <2>2, <2>3 DEF OwnPorts, Phase, Working
  <2>7. DiskApart'
    <3>1. \A d, e \in Container : d # e => Held(d) \cap Held(e) = {}
      BY DEF AllInv, KeptInv, HeldInv, HeldApart
    <3> SUFFICES ASSUME NEW d \in Container, NEW e \in Container, d # e,
                        Bonded(d)', Bonded(e)'
                 PROVE  Fronts(disk'[d]) \cap Fronts(disk'[e]) = {}
      BY DEF DiskApart, Fronts
    <3> QED
      BY <2>4, <2>5, <3>1
  <2> QED
    BY <1>b, <2>5, <2>6, <2>7 DEF RestInv
<1>14. ASSUME NEW c \in Container, StartFails(c) PROVE RestInv'
  <2>1. Only(c) /\ UNCHANGED daemon
    BY <1>a, <1>14 DEF StartFails, TypeOK, Only
  <2>2. /\ OwnPorts(c)' /\ Phase(c)'
        /\ \/ disk'[c] = {}
           \/ disk'[c] = disk[c] /\ (Bonded(c)' => Bonded(c))
    BY <1>0, <1>a, <1>c, <1>14
       DEF StartFails, TypeOK, OwnPorts, Phase, Bonded, Working, FrontOnce
  <2> QED
    BY <2>1, <2>2, <1>b, RestOne DEF AllInv
<1>15. ASSUME NEW c \in Container, Exit(c) PROVE RestInv'
  <2>1. Only(c) /\ UNCHANGED daemon
    BY <1>a, <1>15 DEF Exit, TypeOK, Only
  <2>2. /\ OwnPorts(c)' /\ Phase(c)'
        /\ \/ disk'[c] = {}
           \/ disk'[c] = disk[c] /\ (Bonded(c)' => Bonded(c))
    BY <1>0, <1>a, <1>c, <1>15
       DEF Exit, TypeOK, OwnPorts, Phase, Bonded, Working, FrontOnce
  <2> QED
    BY <2>1, <2>2, <1>b, RestOne DEF AllInv
<1>16. ASSUME NEW c \in Container, Exited(c) PROVE RestInv'
  <2>1. Only(c) /\ UNCHANGED daemon
    BY <1>a, <1>16 DEF Exited, TypeOK, Only
  <2>2. /\ OwnPorts(c)' /\ Phase(c)'
        /\ \/ disk'[c] = {}
           \/ disk'[c] = disk[c] /\ (Bonded(c)' => Bonded(c))
    BY <1>0, <1>a, <1>c, <1>16
       DEF Exited, TypeOK, OwnPorts, Phase, Bonded, Working, FrontOnce
  <2> QED
    BY <2>1, <2>2, <1>b, RestOne DEF AllInv
<1>17. ASSUME NEW c \in Container, Adopt(c) PROVE RestInv'
  <2>1. Only(c) /\ UNCHANGED daemon
    BY <1>a, <1>17 DEF Adopt, Allocate, TypeOK, Only
  <2>2. /\ OwnPorts(c)' /\ Phase(c)'
        /\ \/ disk'[c] = {}
           \/ disk'[c] = disk[c] /\ (Bonded(c)' => Bonded(c))
    BY <1>0, <1>a, <1>c, <1>17
       DEF Adopt, Allocate, TypeOK, OwnPorts, Phase, Bonded, Working, FrontOnce
  <2> QED
    BY <2>1, <2>2, <1>b, RestOne DEF AllInv
<1>18. ASSUME NEW c \in Container, OrphanDies(c) PROVE RestInv'
  <2>1. Only(c) /\ UNCHANGED daemon
    BY <1>a, <1>18 DEF OrphanDies, TypeOK, Only
  <2>2. /\ OwnPorts(c)' /\ Phase(c)'
        /\ \/ disk'[c] = {}
           \/ disk'[c] = disk[c] /\ (Bonded(c)' => Bonded(c))
    BY <1>0, <1>a, <1>c, <1>18
       DEF OrphanDies, TypeOK, OwnPorts, Phase, Bonded, Working, FrontOnce
  <2> QED
    BY <2>1, <2>2, <1>b, RestOne DEF AllInv
<1>19. ASSUME NEW c \in Container, RegisterDead(c) PROVE RestInv'
  <2>1. Only(c) /\ UNCHANGED daemon
    BY <1>a, <1>19 DEF RegisterDead, GhostsFirst, TypeOK, Only
  <2>2. /\ OwnPorts(c)' /\ Phase(c)'
        /\ \/ disk'[c] = {}
           \/ disk'[c] = disk[c] /\ (Bonded(c)' => Bonded(c))
    BY <1>0, <1>a, <1>c, <1>19
       DEF RegisterDead, GhostsFirst, TypeOK, OwnPorts, Phase, Bonded, Working, FrontOnce
  <2> QED
    BY <2>1, <2>2, <1>b, RestOne DEF AllInv
<1>20. CASE RestartDaemon
  <2>1. ASSUME NEW c \in Container
        PROVE  /\ OwnPorts(c)' /\ Phase(c)'
               /\ Bonded(c)' => Bonded(c)
    <3>1. /\ saved'[c] = disk[c] /\ disk'[c] = disk[c] /\ daemon' = "restoring"
          /\ step'[c] = IF c \notin running THEN "stopped"
                        ELSE IF c \in alive' THEN "orphan" ELSE "dead"
          /\ alive' \subseteq alive
      BY <1>20 DEF RestartDaemon
    <3>2. c \in alive => c \in running
      BY DEF AllInv, SavedInv, SavedAt, AliveRuns
    <3>3. OwnPorts(c)
      BY <1>0
    <3> QED
      BY <3>1, <3>2, <3>3 DEF OwnPorts, Phase, Bonded, Working
  <2>2. DiskApart' /\ UNCHANGED disk
    BY <1>20, <2>1 DEF RestartDaemon, AllInv, RestInv, DiskApart
  <2> QED
    BY <1>b, <2>1, <2>2 DEF RestInv
<1>21. CASE Serve
  <2>1. /\ daemon' = "serving" /\ daemon = "restoring"
        /\ UNCHANGED <<step, saved, alive, disk>>
    BY <1>21 DEF Serve
  <2>2. ASSUME NEW c \in Container
        PROVE  OwnPorts(c)' /\ Phase(c)' /\ (Bonded(c)' => Bonded(c))
    <3>1. step[c] \in Steps
      BY <1>a DEF TypeOK
    <3>2. step[c] \notin {"orphan", "ports", "map", "bind"}
      BY <1>21, <3>1 DEF Serve, Restored, Registering, Steps
    <3> QED
      BY <1>0, <2>1, <3>2 DEF OwnPorts, Phase, Bonded
  <2>3. DiskApart'
    BY <2>1, <2>2 DEF AllInv, RestInv, DiskApart
  <2> QED
    BY <1>b, <2>2, <2>3 DEF RestInv
<1>22. CASE UNCHANGED vars
  BY <1>22, <1>b DEF vars, AllInv, RestInv, OwnPorts, Phase, DiskApart, Bonded
<1> HIDE DEF SetStep, netVars, diskVars
<1> QED
  BY <1>1, <1>2, <1>3, <1>4, <1>5, <1>6, <1>7, <1>8, <1>9, <1>10, <1>11,
     <1>12, <1>13, <1>14, <1>15, <1>16, <1>17, <1>18, <1>19, <1>20, <1>21,
     <1>22 DEF Next, Ports, Life, Registration

LEMMA InitAll == Init => AllInv
<1> SUFFICES ASSUME Init PROVE AllInv
  OBVIOUS
<1>1. TypeInv /\ HeldInv /\ SavedInv
  BY InitType, InitIInv, InitSaved DEF IInv, HeldInv
<1>2. Listless /\ ProxyInv
  BY DEF Init, Listless, ProxyInv, Nothing, InWork
<1>3. RestInv
  BY DEF Init, RestInv, OwnPorts, Phase, FrontOnce, DiskApart, Fronts
<1> QED
  BY <1>1, <1>2, <1>3 DEF AllInv, KeptInv

(* The monitor of a container that survived the daemon has a network to    *)
(* release: its ports are free when it is registered, unless a rule is     *)
(* refused, a container that -r starts again is given one of them, or two  *)
(* of its specs have one backend.                                          *)
THEOREM MonitorAlwaysHasNetwork ==
    ASSUME OneSpecPerBackend, GhostsFirst
    PROVE  Spec => []MonitorHasNetwork
<1>1. AllInv /\ [Next]_vars => AllInv'
  <2> SUFFICES ASSUME AllInv, [Next]_vars PROVE AllInv'
    OBVIOUS
  <2>1. KeptInv' /\ SavedInv' /\ ProxyInv'
    BY NextKept, NextSaved, NextProxy DEF AllInv, KeptInv
  <2> QED
    BY <2>1, NextRest DEF AllInv
<1>2. AllInv => MonitorHasNetwork
  BY DEF AllInv, KeptInv, TypeInv, TypeOK, RestInv, Phase, MonitorHasNetwork
<1> QED
  BY InitAll, <1>1, <1>2, PTL DEF Spec

(* What a restart leaves of the ports: those that a running container's    *)
(* settings name are its own, and its monitor will give them back.         *)
GhostsKept == SavedIsHeld /\ MonitorHasNetwork

(* Both hold for every set of containers and ports, as long as ghosts get  *)
(* their ports first.                                                      *)
THEOREM GhostsKeepPorts ==
    ASSUME OneSpecPerBackend, GhostsFirst
    PROVE  Spec => []GhostsKept
<1>1. SavedIsHeld /\ MonitorHasNetwork => GhostsKept
  BY DEF GhostsKept
<1> QED
  BY SavedIsAlwaysHeld, MonitorAlwaysHasNetwork, <1>1, PTL

-----------------------------------------------------------------------------
(* The allocator implements the lease. *)

LeaseHeld == [c \in Container |-> Held(c)]

LEMMA HeldType == TypeInv => \A c \in Container : Held(c) \subseteq Port
BY DEF TypeInv, TypeOK, Ready, Held, Ran

LEMMA LeaseStep ==
    ASSUME TypeInv, HeldInv, [Next]_vars
    PROVE  Lease!Next \/ UNCHANGED LeaseHeld
<1>1. CASE \A d \in Container : Held(d)' \subseteq Held(d)
  <2>1. LeaseHeld' \in [Container -> SUBSET Port]
    BY <1>1, HeldType DEF LeaseHeld
  <2>2. \A d \in Container : LeaseHeld'[d] \subseteq LeaseHeld[d]
    BY <1>1 DEF LeaseHeld
  <2> QED
    BY <2>1, <2>2 DEF Lease!Next, Lease!Drop, LeaseHeld
<1>2. ASSUME NEW c \in Container, NEW p \in Port \ portUse,
             Held(c)' = Held(c) \cup {p},
             \A d \in Container \ {c} : Held(d)' = Held(d)
      PROVE  Lease!Next
  <2>1. p \notin Lease!Taken
    BY <1>2 DEF Lease!Taken, HeldInv, HeldUsed
  <2>2. LeaseHeld' = [LeaseHeld EXCEPT ![c] = @ \cup {p}]
    BY <1>2 DEF LeaseHeld
  <2> QED
    BY <2>1, <2>2 DEF Lease!Next, Lease!Take, LeaseHeld
<1> QED
  BY HeldStep, <1>1, <1>2

(* Every step of the allocator and its callers is a step of ExclusiveLease *)
(* or leaves it alone, whatever fails: ports stay exclusive even when their *)
(* rules do not.                                                           *)
THEOREM ImplementsLease == Spec => PortLease
<1>1. Init => Lease!Init
  BY RanEmpty DEF Init, Lease!Init, Held
<1>2. Init => TypeInv /\ HeldInv
  BY InitType, InitIInv DEF IInv, HeldInv
<1>3. TypeInv /\ HeldInv /\ [Next]_vars => (TypeInv /\ HeldInv)'
  BY NextType, NextHeld
<1>4. TypeInv /\ HeldInv /\ [Next]_vars => [Lease!Next]_LeaseHeld
  BY LeaseStep
<1> QED
  BY <1>1, <1>2, <1>3, <1>4, PTL DEF Spec, PortLease, Lease!Spec, LeaseHeld
=============================================================================
