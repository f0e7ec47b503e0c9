---------------------------- MODULE DaemonProofs ---------------------------
(***************************************************************************)
(* Proofs about the composite MCDaemon, where every behaviour is that of   *)
(* one part (PartStep): each theorem rests on the inductive invariant of   *)
(* its parts, which DockerProofs and ContainerLifecycleProofs have.        *)
(***************************************************************************)
EXTENDS MCDaemon

LEMMA PartStep ==
    ASSUME [UNext]_UVars
    PROVE  /\ part' = part
           /\ part = "udp" => [UDP!Next]_UDPVars
           /\ part = "tcp" => [TCP!Next]_TCPVars
           /\ part = "attach" => [Att!Next]_AttVars
           /\ part = "events" => [Ev!Next]_EvVars
           /\ part = "tags" => [Tags!Next]_TagsVars
           /\ part # "tags" => UNCHANGED TagsVars
           /\ part = "life" => [Life!Next]_LifeVars
BY DEF UNext, UVars

(* For any number of clients and connections: no replyLoop deletes or      *)
(* loses another's entry of connTrackTable, no datagram is handed to a     *)
(* closed connection before Close, and the lock is held only by who is     *)
(* about to release it, unless a dial has failed.                          *)
THEOREM ProxyAlwaysSafe ==
    ASSUME Distinct PROVE USpec => []UDPSafe
<1> DEFINE Inv == part = "udp" => UInv
<1>1. UInit => Inv
  BY UInvBegins DEF UInit
<1>2. Inv /\ [UNext]_UVars => Inv'
  BY PartStep, UInvStep
<1>3. Inv => UDPSafe
  BY UInvSafe DEF UDPSafe
<1> QED
  BY <1>1, <1>2, <1>3, PTL DEF USpec

(* For any connections, requests, loggers and listeners.  TCPProxy: an     *)
(* answer reaches the client whole, unless the client stopped sending      *)
(* first or the proxy was closed.  Attach: the log has every line, no      *)
(* client gets a line of the log again from the stream, and a request that *)
(* ends while its client is there has sent its streams to the end.         *)
(* Events: while one is logged at a time, listeners get them in order,     *)
(* none twice but the last one of the list, and nobody stays in the list   *)
(* of listeners who is not served.                                         *)
THEOREM StreamsStaySafe ==
    ASSUME MaxBytes \in Nat, AttachAssumption PROVE USpec => []StreamsSafe
<1> DEFINE Inv == /\ part = "tcp" => TCPInv
                  /\ part = "attach" => AttInv
                  /\ part = "events" => EvInv
<1>1. UInit => Inv
  BY TCPInvBegins, AttInvBegins, EvInvBegins DEF UInit
<1>2. Inv /\ [UNext]_UVars => Inv'
  BY PartStep, TCPInvStep, AttInvStep, EvInvStep
<1>3. Inv => StreamsSafe
  BY TCPInvSafe, AttInvSafe, EvInvSafe DEF StreamsSafe
<1> QED
  BY <1>1, <1>2, <1>3, PTL DEF USpec

(* ContainerLifecycle: with failing starts and unmounts, torn writes, a    *)
(* Wait that falls between setRunning and the new waitLock, and restarts,  *)
(* a process that lxc runs is watched, on disk, and never removed.         *)
THEOREM AliveStaysKnown == USpec => []AliveIsKnown
<1> DEFINE Inv == part = "life" => Life!TypeOK /\ Life!IInv /\ Life!WInv /\ Life!AInv
<1>1. Life!Sheltered /\ Life!Reliable /\ Life!Orderly
  BY DEF Life!Sheltered, Life!Reliable, Life!Orderly
<1>2. UInit => Inv
  BY LifeConstants, Life!InitType, Life!InitIInv, Life!InitWInv, Life!InitAInv DEF UInit
<1>3. Inv /\ [UNext]_UVars => Inv'
  BY LifeConstants, <1>1, PartStep, Life!NextType, Life!NextIInv, Life!NextWInv,
     Life!NextAInv DEF LifeVars, Life!vars
<1>4. Inv => AliveIsKnown
  BY LifeConstants, Life!AInvKnown DEF AliveIsKnown
<1> QED
  BY <1>2, <1>3, <1>4, PTL DEF USpec

(* TagStore, for any names and requests: one at a time, the store is       *)
(* TagMap's table.                                                         *)
THEOREM TagsStayMapped == USpec => TagsMapped
<1> USE TagConstants
<1>1. UInit => TagInv /\ Tags!Promised!TagInit
  BY TagInvBegins, TagsRefineInit DEF UInit
<1>2. TagInv /\ [UNext]_UVars => TagInv'
  BY PartStep, TagInvStep
<1>3. TagInv /\ [UNext]_UVars => [Tags!Promised!TagNext]_Shown
  BY PartStep, TagsRefineStep
<1> QED
  BY <1>1, <1>2, <1>3, PTL
     DEF USpec, TagsMapped, Tags!TagMapSpec, Tags!Promised!TagSpec, Shown
=============================================================================
