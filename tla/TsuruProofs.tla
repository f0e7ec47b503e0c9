------------------------------ MODULE TsuruProofs ------------------------------
(***************************************************************************)
(* Proofs about WorkQueue, AppLifecycle, ServiceBinding, TeamAccess and    *)
(* Accounts, side by side as MCPlatform has them.                          *)
(*                                                                         *)
(* WorkQueue, for every set and kind of messages and every bound: its type *)
(* invariant, QueueSafe, and PreemptWaits.  They rest on OneStarted, which *)
(* says what executor.state stands for, and on Reasons, which follows a    *)
(* message through its handlers.                                           *)
(*                                                                         *)
(* The others for every set of instances, applications, units, people,     *)
(* teams, keys and requests, and every bound: the inductive invariants     *)
(* QuotaInv, AppInv, BInv, TInv, AccInv and SInv, with what follows from   *)
(* them.  QuotaInv and SInv hold however the requests overlap, the others  *)
(* when they come one at a time.                                           *)
(***************************************************************************)
EXTENDS WorkQueue, Sequences, FiniteSetTheorems, TLAPS
-----------------------------------------------------------------------------
(* None is none of the values it is told from.                             *)
NoneIsNothing == None \notin {"test", "get", "ready", "reserved", "gone", "stop", "wait", "done"}

Alive == {l \in Loops : loops[l] # None}

(* The word of Start and loop: not "stopped" means that one goroutine is   *)
(* on its way to the registry, or in the loop.                             *)
OneStarted ==
    \/ state = "stopped" /\ adding = 0 /\ Alive = {}
    \/ state # "stopped" /\ adding = 1 /\ Alive = {}
    \/ state # "stopped" /\ adding = 0 /\ \E l \in Loops : Alive = {l}

HasReason(m) == m \in excused \/ m \in (IF Kind[m] = "start" THEN ran ELSE wrote)

Reasons ==
    /\ \A m \in Msg : tube[m] = "gone" => HasReason(m)
    /\ \A j \in work : j.delete => HasReason(j.m)
    /\ \A j \in work : j.at = "start" => j.delete

IInv == TypeOK /\ OneStarted /\ Reasons
-----------------------------------------------------------------------------
LEMMA InitIInv == ASSUME NoneIsNothing PROVE Init => IInv
<1> SUFFICES ASSUME Init PROVE IInv
  OBVIOUS
<1>1. TypeOK /\ Alive = {}
  BY DEF Init, TypeOK, Alive
<1> QED
  BY <1>1 DEF Init, IInv, OneStarted, Reasons, HasReason, NoneIsNothing

(* The executor.                                                           *)
LEMMA AliveSame == ASSUME loops' = loops PROVE Alive' = Alive
BY DEF Alive

LEMMA EnqueueStep ==
    ASSUME NoneIsNothing, IInv, NEW m \in Msg, Enqueue(m) PROVE IInv'
<1>1. /\ tube' = [tube EXCEPT ![m] = "ready"] /\ tube[m] = None
      /\ UNCHANGED <<loops, work, preempt, excused, wrote, ran>>
  BY DEF Enqueue, app
<1>2. TypeOK' /\ OneStarted'
  BY <1>1, AliveSame DEF Enqueue, IInv, TypeOK, OneStarted, MayStart
<1>3. Reasons'
  BY <1>1 DEF IInv, TypeOK, Reasons, HasReason
<1> QED
  BY <1>2, <1>3 DEF IInv

LEMMA AddedStep ==
    ASSUME NoneIsNothing, IInv, Added PROVE IInv'
<1>1. /\ adding > 0 /\ adding' = adding - 1
      /\ UNCHANGED <<state, tube, work, preempt, excused, wrote, ran>>
  BY DEF Added, app
<1>2. PICK l \in Loops : loops[l] = None /\ loops' = [loops EXCEPT ![l] = "test"]
  BY DEF Added
<1>3. state # "stopped" /\ adding = 1 /\ Alive = {}
  BY <1>1 DEF IInv, OneStarted
<1>4. TypeOK'
  BY <1>1, <1>2, <1>3 DEF IInv, TypeOK
<1>5. \A k \in Loops : loops[k] = None
  BY <1>3 DEF Alive
<1>6. loops'[l] = "test" /\ \A k \in Loops \ {l} : loops'[k] = None
  BY <1>2, <1>5 DEF IInv, TypeOK
<1>7. Alive' = {l}
  BY <1>6 DEF Alive, NoneIsNothing
<1>8. OneStarted'
  BY <1>1, <1>3, <1>7 DEF OneStarted
<1>9. Reasons'
  BY <1>1 DEF IInv, Reasons, HasReason
<1> QED
  BY <1>4, <1>8, <1>9 DEF IInv

(* The only loop, if there is one.                                         *)
LEMMA LoopAlive ==
    ASSUME NoneIsNothing, IInv, NEW l \in Loops, loops[l] \in {"test", "get"}
    PROVE  state # "stopped" /\ adding = 0 /\ \A k \in Loops \ {l} : loops[k] = None
<1>1. l \in Alive
  BY DEF Alive, NoneIsNothing
<1>2. state # "stopped" /\ adding = 0 /\ Alive = {l}
  BY <1>1 DEF IInv, OneStarted
<1> QED
  BY <1>2 DEF Alive

LEMMA TestStep ==
    ASSUME NoneIsNothing, IInv, NEW l \in Loops, Test(l) PROVE IInv'
<1>1. loops[l] = "test" /\ UNCHANGED <<adding, tube, work, preempt, excused, wrote, ran>>
  BY DEF Test, app
<1>2. state # "stopped" /\ adding = 0 /\ \A k \in Loops \ {l} : loops[k] = None
  BY <1>1, LoopAlive
<1>3. Reasons'
  BY <1>1 DEF IInv, Reasons, HasReason
<1>4. CASE state = "running"
  <2>1. loops' = [loops EXCEPT ![l] = "get"] /\ state' = state
    BY <1>4 DEF Test
  <2>2. TypeOK'
    BY <1>1, <2>1 DEF IInv, TypeOK
  <2>3. loops'[l] = "get" /\ \A k \in Loops \ {l} : loops'[k] = None
    BY <1>2, <2>1 DEF IInv, TypeOK
  <2>4. Alive' = {l}
    BY <2>3 DEF Alive, NoneIsNothing
  <2> QED
    BY <1>1, <1>2, <1>3, <2>1, <2>2, <2>4 DEF IInv, OneStarted
<1>5. CASE state # "running"
  <2>1. loops' = [loops EXCEPT ![l] = None] /\ state' = "stopped"
    BY <1>5 DEF Test
  <2>2. TypeOK'
    BY <1>1, <2>1 DEF IInv, TypeOK
  <2>3. \A k \in Loops : loops'[k] = None
    BY <1>2, <2>1 DEF IInv, TypeOK
  <2>4. Alive' = {}
    BY <2>3 DEF Alive
  <2> QED
    BY <1>1, <1>2, <1>3, <2>1, <2>2, <2>4 DEF IInv, OneStarted
<1> QED
  BY <1>4, <1>5

(* A Get takes a message, or none; its loop goes on.                       *)
LEMMA GetStep ==
    ASSUME NoneIsNothing, IInv, NEW l \in Loops,
           TimesOut(l) \/ \E m \in Msg : Get(l, m)
    PROVE  IInv'
<1>1. /\ loops[l] = "get" /\ loops' = [loops EXCEPT ![l] = "test"]
      /\ UNCHANGED <<state, adding, preempt, excused, wrote, ran>>
  BY DEF Get, TimesOut, app
<1>2. state # "stopped" /\ adding = 0 /\ \A k \in Loops \ {l} : loops[k] = None
  BY <1>1, LoopAlive
<1>3. loops'[l] = "test" /\ \A k \in Loops \ {l} : loops'[k] = None
  BY <1>1, <1>2 DEF IInv, TypeOK
<1>4. Alive' = {l}
  BY <1>3 DEF Alive, NoneIsNothing
<1>5. OneStarted'
  BY <1>1, <1>2, <1>4 DEF OneStarted
<1>6. CASE TimesOut(l)
  <2>1. UNCHANGED <<tube, work>>
    BY <1>6 DEF TimesOut
  <2>2. TypeOK' /\ Reasons'
    BY <1>1, <2>1 DEF IInv, TypeOK, Reasons, HasReason
  <2> QED
    BY <1>5, <2>2 DEF IInv
<1>7. ASSUME NEW m \in Msg, Get(l, m) PROVE IInv'
  <2>1. tube' = [tube EXCEPT ![m] = "reserved"] /\ work' = work \cup {Job(m)}
    BY <1>7 DEF Get
  <2>2. Job(m) \in Jobs /\ Job(m).delete = FALSE /\ Job(m).at = "first"
    BY DEF Job, Jobs
  <2>3. TypeOK'
    BY <1>1, <2>1, <2>2 DEF IInv, TypeOK
  <2>4. Reasons'
    BY <1>1, <2>1, <2>2 DEF IInv, TypeOK, Reasons, HasReason
  <2> QED
    BY <1>5, <2>3, <2>4 DEF IInv
<1> QED
  BY <1>6, <1>7

LEMMA PreemptStep ==
    ASSUME NoneIsNothing, IInv, Preempt \/ Stop \/ Wait \/ Leave PROVE IInv'
<1>1. UNCHANGED <<adding, loops, tube, work, excused, wrote, ran>>
  BY DEF Preempt, Stop, Wait, Leave, app, exec
<1>2. state' = state \/ (state = "running" /\ state' = "stopping")
  BY DEF Preempt, Stop, Stopped, Wait, Leave, exec
<1>3. preempt' \in {None, "stop", "wait", "done"}
  BY DEF Preempt, Stop, Wait, Leave
<1>4. TypeOK' /\ OneStarted'
  BY <1>1, <1>2, <1>3, AliveSame DEF IInv, TypeOK, OneStarted
<1>5. Reasons'
  BY <1>1 DEF IInv, Reasons, HasReason
<1> QED
  BY <1>4, <1>5 DEF IInv
-----------------------------------------------------------------------------
(* The handlers.                                                           *)
LEMMA MoveReasons ==
    ASSUME IInv, NEW j \in work, NEW k \in Jobs, Move(j, k), tube' = tube,
           excused \subseteq excused', wrote \subseteq wrote', ran \subseteq ran',
           k.delete => HasReason(k.m)', k.at = "start" => k.delete
    PROVE  Reasons' /\ work' \subseteq Jobs
<1>1. \A m : HasReason(m) => HasReason(m)'
  BY DEF HasReason
<1> QED
  BY <1>1 DEF IInv, TypeOK, Reasons, Move

LEMMA ExecutorSame ==
    ASSUME IInv, work' \subseteq Jobs, UNCHANGED <<exec, preempt>>,
           tube' \in [Msg -> {None, "ready", "reserved", "gone"}]
    PROVE  TypeOK' /\ OneStarted'
BY AliveSame DEF IInv, TypeOK, OneStarted, exec

(* A job and what becomes of it.                                           *)
LEMMA JobForms ==
    ASSUME NEW j \in Jobs, NEW del \in BOOLEAN
    PROVE  /\ j.m \in Msg /\ j.delete \in BOOLEAN
           /\ Ended(j, del) \in Jobs /\ Ended(j, del).m = j.m
           /\ Ended(j, del).delete = del /\ Ended(j, del).at = "end"
           /\ \A p \in {"start", "end"} :
                LET k == [j EXCEPT !.at = p, !.delete = TRUE]
                IN  k \in Jobs /\ k.m = j.m /\ k.delete = TRUE
BY DEF Jobs, Ended

LEMMA NotReadyStep ==
    ASSUME IInv, NEW j \in work, NotReady(j), UNCHANGED <<exec, tube, preempt>>
    PROVE  IInv'
<1>1. j \in Jobs
  BY DEF IInv, TypeOK
<1>2. PICK del \in BOOLEAN : del = (j.delete \/ Drops(j.m))
  BY <1>1, JobForms DEF Drops
<1> DEFINE k == Ended(j, del)
<1>3. k \in Jobs /\ k.m = j.m /\ k.delete = del /\ k.at = "end"
  BY <1>1, <1>2, JobForms
<1>4. Drops(j.m) => j.m \in excused'
  BY DEF NotReady, Drops
<1>5. excused \subseteq excused' /\ wrote' = wrote /\ ran' = ran
  BY DEF NotReady
<1>6. j.delete => HasReason(j.m)
  BY DEF IInv, Reasons
<1>7. k.delete => HasReason(k.m)'
  <2>1. HasReason(j.m) => HasReason(j.m)'
    BY <1>5 DEF HasReason
  <2>2. j.m \in excused' => HasReason(j.m)'
    BY DEF HasReason
  <2>3. del => HasReason(j.m)'
    BY <1>2, <1>4, <1>6, <2>1, <2>2, Zenon
  <2> HIDE DEF k
  <2> QED
    BY <1>3, <2>3
<1>8. Move(j, k)
  BY <1>2 DEF NotReady
<1> HIDE DEF k
<1>10. k.at = "start" => k.delete
  BY <1>3
<1>9. Reasons' /\ work' \subseteq Jobs
  BY <1>3, <1>5, <1>7, <1>8, <1>10, MoveReasons
<1> QED
  BY <1>9, ExecutorSame DEF IInv, TypeOK

LEMMA FirstStep ==
    ASSUME IInv, NEW j \in work, First(j) PROVE IInv'
<1>1. j \in Jobs /\ Kind[j.m] # "start" /\ UNCHANGED <<exec, tube, preempt>>
  BY DEF First, IInv, TypeOK
<1>2. CASE ~Ready(j.m)
  BY <1>1, <1>2, NotReadyStep DEF First
<1>3. CASE Ready(j.m)
  <2> DEFINE k == [j EXCEPT !.at = IF Kind[j.m] = "env" THEN "end" ELSE "start", !.delete = TRUE]
  <2>1. wrote' = wrote \cup {j.m} /\ UNCHANGED <<ran, excused>> /\ Move(j, k)
    BY <1>3 DEF First
  <2>2. k \in Jobs /\ k.m = j.m /\ k.delete = TRUE
    <3>1. (IF Kind[j.m] = "env" THEN "end" ELSE "start") \in {"start", "end"}
      OBVIOUS
    <3> QED
      BY <1>1, <3>1 DEF Jobs
  <2> HIDE DEF k
  <2>3. HasReason(k.m)'
    BY <1>1, <2>1, <2>2 DEF HasReason
  <2>4. Reasons' /\ work' \subseteq Jobs
    BY <1>1, <2>1, <2>2, <2>3, MoveReasons
  <2> QED
    BY <1>1, <2>4, ExecutorSame DEF IInv, TypeOK
<1> QED
  BY <1>2, <1>3

LEMMA SecondStep ==
    ASSUME IInv, NEW j \in work, Second(j) PROVE IInv'
<1>1. j \in Jobs /\ UNCHANGED <<exec, tube, preempt>>
  BY DEF Second, IInv, TypeOK
<1>2. CASE ~Ready(j.m)
  BY <1>1, <1>2, NotReadyStep DEF Second
<1>3. CASE Ready(j.m)
  <2>1. UNCHANGED <<wrote, excused>> /\ ran \subseteq ran'
    BY <1>3 DEF Second
  <2>2. j.delete => HasReason(j.m)
    BY DEF IInv, Reasons
  <2>3. CASE Move(j, Ended(j, TRUE)) /\ ran' = ran \cup {j.m}
    <3> DEFINE k == Ended(j, TRUE)
    <3>1. k \in Jobs /\ k.m = j.m /\ k.at = "end"
      BY <1>1, JobForms
    <3>2. Kind[j.m] = "start" \/ j.at = "start"
      BY DEF Second
    <3>3. Kind[j.m] = "start" \/ HasReason(j.m)
      BY <3>2 DEF IInv, Reasons
    <3>4. HasReason(j.m)'
      BY <2>1, <2>3, <3>3 DEF HasReason
    <3> HIDE DEF k
    <3>5. Reasons' /\ work' \subseteq Jobs
      BY <1>1, <2>1, <2>3, <3>1, <3>4, MoveReasons DEF k
    <3> QED
      BY <1>1, <3>5, ExecutorSame DEF IInv, TypeOK
  <2>4. CASE Move(j, Ended(j, j.delete)) /\ UNCHANGED ran
    <3>1. /\ Ended(j, j.delete) \in Jobs /\ Ended(j, j.delete).m = j.m
          /\ Ended(j, j.delete).delete = j.delete /\ Ended(j, j.delete).at = "end"
      <4>1. j.delete \in BOOLEAN
        BY <1>1 DEF Jobs
      <4> QED
        BY <1>1, <4>1, JobForms, ZenonT(40)
    <3>2. Ended(j, j.delete).delete => HasReason(Ended(j, j.delete).m)'
      BY <2>1, <2>2, <2>4, <3>1, Zenon DEF HasReason
    <3>3. Reasons' /\ work' \subseteq Jobs
      BY <1>1, <2>1, <2>4, <3>1, <3>2, MoveReasons
    <3> QED
      BY <1>1, <3>3, ExecutorSame DEF IInv, TypeOK
  <2> QED
    BY <1>3, <2>3, <2>4 DEF Second
<1> QED
  BY <1>2, <1>3
LEMMA FinishStep ==
    ASSUME IInv, NEW j \in work, Finish(j) PROVE IInv'
<1>1. j \in Jobs /\ j.m \in Msg
  BY DEF IInv, TypeOK, Jobs
<1>2. /\ work' = work \ {j} /\ UNCHANGED <<exec, preempt, excused, wrote, ran>>
      /\ tube' = [tube EXCEPT ![j.m] = IF j.delete THEN "gone" ELSE Returns(j)]
  BY DEF Finish, app
<1>3. tube[j.m] \in {None, "ready", "reserved", "gone"}
  BY <1>1 DEF IInv, TypeOK
<1>4. /\ Returns(j) \in {None, "ready", "reserved", "gone"}
      /\ Returns(j) = "gone" => tube[j.m] = "gone"
  BY <1>3 DEF Returns
<1>5. tube' \in [Msg -> {None, "ready", "reserved", "gone"}] /\ work' \subseteq Jobs
  BY <1>1, <1>2, <1>4 DEF IInv, TypeOK
<1>6. tube'[j.m] = "gone" => j.delete \/ tube[j.m] = "gone"
  BY <1>1, <1>2, <1>4 DEF IInv, TypeOK
<1>7. \A m \in Msg \ {j.m} : tube'[m] = tube[m]
  BY <1>2 DEF IInv, TypeOK
<1>8. \A m : HasReason(m)' <=> HasReason(m)
  BY <1>2 DEF HasReason
<1>9. Reasons'
  BY <1>2, <1>6, <1>7, <1>8 DEF IInv, Reasons
<1> QED
  BY <1>2, <1>5, <1>9, ExecutorSame DEF IInv
-----------------------------------------------------------------------------
LEMMA NextIInv ==
    ASSUME NoneIsNothing PROVE IInv /\ [Next]_vars => IInv'
<1> SUFFICES ASSUME IInv, [Next]_vars PROVE IInv'
  OBVIOUS
<1>1. ASSUME NEW m \in Msg, Enqueue(m) PROVE IInv'
  BY <1>1, EnqueueStep
<1>2. ASSUME NEW m \in Msg, Expires(m) PROVE IInv'
  <2>1. /\ tube' = [tube EXCEPT ![m] = "ready"]
        /\ UNCHANGED <<exec, work, preempt, excused, wrote, ran>>
    BY <1>2 DEF Expires, app
  <2>2. TypeOK' /\ OneStarted'
    BY <2>1, ExecutorSame DEF IInv, TypeOK
  <2>3. Reasons'
    BY <2>1 DEF IInv, TypeOK, Reasons, HasReason
  <2> QED
    BY <2>2, <2>3 DEF IInv
<1>3. ASSUME NEW m \in Msg, NEW s \in {"started", "error", "gone"}, Collect(m, s) PROVE IInv'
  <2>1. UNCHANGED <<exec, tube, work, preempt, wrote, ran, excused>>
    BY <1>3 DEF Collect
  <2>2. TypeOK' /\ OneStarted'
    BY <2>1, ExecutorSame DEF IInv, TypeOK
  <2> QED
    BY <2>1, <2>2 DEF IInv, Reasons, HasReason
<1>4. CASE Added
  BY <1>4, AddedStep
<1>5. CASE Preempt \/ Stop \/ Wait \/ Leave
  BY <1>5, PreemptStep
<1>6. ASSUME NEW l \in Loops, Test(l) \/ TimesOut(l) \/ \E m \in Msg : Get(l, m) PROVE IInv'
  BY <1>6, TestStep, GetStep
<1>7. ASSUME NEW j \in work, First(j) \/ Second(j) \/ Finish(j) PROVE IInv'
  BY <1>7, FirstStep, SecondStep, FinishStep
<1>8. CASE UNCHANGED vars
  <2>1. UNCHANGED <<exec, tube, work, preempt, wrote, ran, excused>>
    BY <1>8 DEF vars, exec
  <2>2. TypeOK' /\ OneStarted'
    BY <2>1, ExecutorSame DEF IInv, TypeOK
  <2> QED
    BY <2>1, <2>2 DEF IInv, Reasons, HasReason
<1> QED
  BY <1>1, <1>2, <1>3, <1>4, <1>5, <1>6, <1>7, <1>8 DEF Next

LEMMA Invariance ==
    ASSUME NoneIsNothing PROVE Spec => []IInv
<1>1. Init => IInv
  BY InitIInv
<1>2. IInv /\ [Next]_vars => IInv'
  BY NextIInv
<1> QED
  BY <1>1, <1>2, PTL DEF Spec

LEMMA CountOne == ASSUME IInv PROVE Cardinality(Alive) + adding <= 1
<1>1. Cardinality({}) = 0 /\ \A l : Cardinality({l}) = 1
  BY FS_EmptySet, FS_Singleton
<1>2. CASE Alive = {} /\ adding \in {0, 1}
  BY <1>1, <1>2
<1>3. CASE adding = 0 /\ \E l \in Loops : Alive = {l}
  <2>1. Cardinality(Alive) = 1
    BY <1>1, <1>3
  <2> QED
    BY <1>3, <2>1
<1> QED
  BY <1>2, <1>3 DEF IInv, OneStarted

(* For every queue of messages: executor.Start never makes a second loop,  *)
(* also while one is stopping, and a message leaves the queue only when    *)
(* what it asks for was done or could not be done (queue/executor.go,      *)
(* app/queue.go handle), however often its reservation runs out.           *)
THEOREM QueueIsSafe ==
    ASSUME NoneIsNothing PROVE Spec => []QueueSafe
<1>1. IInv => QueueSafe
  <2>1. IInv => OneLoop
    BY CountOne DEF OneLoop, Alive
  <2>2. IInv => LeavesWithReason
    BY DEF IInv, Reasons, HasReason, LeavesWithReason
  <2> QED
    BY <2>1, <2>2 DEF QueueSafe
<1> QED
  BY <1>1, Invariance, PTL

(* Preempt does not return before the loop it stopped has ended: the       *)
(* executor is "stopped" only when no loop is left (queue/executor.go).    *)
THEOREM PreemptSeesTheEnd ==
    ASSUME NoneIsNothing PROVE Spec => PreemptWaits
<1>1. IInv /\ [Next]_vars =>
        [\A l \in Loops : (preempt = "wait" /\ preempt' = "done") => loops[l] = None]_vars
  <2> SUFFICES ASSUME IInv, Next, preempt = "wait", preempt' = "done", NEW l \in Loops
               PROVE  loops[l] = None
    OBVIOUS
  <2>1. Wait
    BY DEF Next, Enqueue, Expires, Collect, Added, Preempt, Stop, Leave, Test, TimesOut, Get,
           First, Second, Finish
  <2>2. Alive = {}
    BY <2>1 DEF Wait, Awaited, IInv, OneStarted
  <2> QED
    BY <2>2 DEF Alive
<1> QED
  BY <1>1, Invariance, PTL DEF Spec, PreemptWaits
-----------------------------------------------------------------------------
CONSTANTS Req, AppName, AppUser, Slot, FewSlots, UserLimit, UnitLimit, AppOps, RaceOps

VARIABLES
    apps, reserved, items, tokens, repos, routes, running, result, locked, req, pass, ops

Apps == INSTANCE AppLifecycle WITH
    Name <- AppName, User <- AppUser, Unit <- Slot, AppLimit <- UserLimit,
    MaxOps <- AppOps, Serial <- TRUE, Fresh <- TRUE

AppsVars == <<apps, reserved, items, tokens, repos, routes, running, result, locked, req,
    pass, ops>>

(* Quotas. What is reserved is within its limit, and will be when the one  *)
(* request that has looked under the owner's lock reserves what it wants.  *)
QuotaAssumption ==
    /\ AppUser \cap AppName = {}
    /\ \A u \in AppUser : UserLimit[u] \in Nat \cup {None}
    /\ UnitLimit \in Nat \cup {None}
    /\ None \notin Nat \cup Req \cup {"create", "addUnits", "forward", "reserving", "back"}

InLimit(S, l) == IsFiniteSet(S) /\ (l # None => Cardinality(S) <= l)

Form(q) ==
    q = [op |-> q.op, name |-> q.name, user |-> q.user, n |-> q.n, at |-> q.at,
         phase |-> q.phase, app |-> q.app, token |-> q.token, prev |-> q.prev, look |-> q.look]
Asked(q) ==
    /\ q.phase \in {"forward", "reserving"} =>
          /\ q.op \in {"create", "addUnits"} /\ q.name \in AppName
          /\ q.op = "create" => q.user \in AppUser /\ q.at \in 1 .. 6
          /\ q.op = "addUnits" => q.at \in 1 .. 3 /\ q.n \in Nat
    /\ q.phase = "reserving" => q.at = 1 /\ IsFiniteSet(q.prev) /\ q.look \in Nat
OwnerOf(q) == IF q.op = "create" THEN q.user ELSE q.name
Looked(r) ==
    req[r].phase = "reserving" =>
        LET o == OwnerOf(req[r])
        IN  /\ locked[o] = r
            /\ o \in AppUser /\ UserLimit[o] # None =>
                  Cardinality(reserved[o]) + req[r].look <= UserLimit[o]
            /\ o \in AppName /\ items[o] # None =>
                  Cardinality(items[o]) + req[r].look <= UnitLimit
QuotaShapes ==
    /\ reserved = [u \in AppUser |-> reserved[u]] /\ items = [n \in AppName |-> items[n]]
    /\ locked = [o \in AppUser \cup AppName |-> locked[o]] /\ req = [r \in Req |-> req[r]]
    /\ \A r \in Req : Form(req[r]) /\ Asked(req[r])
QuotaInv ==
    /\ QuotaShapes
    /\ \A u \in AppUser : InLimit(reserved[u], UserLimit[u])
    /\ \A n \in AppName : items[n] # None => UnitLimit \in Nat /\ InLimit(items[n], UnitLimit)
    /\ \A r \in Req : Looked(r)

LEMMA AppsCount == \A S : Apps!Cardinality(S) = Cardinality(S)
BY DEF Apps!Cardinality, Cardinality

LEMMA Fewer ==
    ASSUME NEW S, NEW T, NEW l \in Nat \cup {None}, InLimit(S, l), T \subseteq S
    PROVE  InLimit(T, l) /\ Cardinality(T) \in Nat /\ Cardinality(S) \in Nat
           /\ Cardinality(T) <= Cardinality(S)
<1>1. IsFiniteSet(T) /\ Cardinality(T) <= Cardinality(S)
  BY FS_Subset DEF InLimit
<1>2. Cardinality(T) \in Nat /\ Cardinality(S) \in Nat
  BY <1>1, FS_CardinalityType DEF InLimit
<1> QED
  BY <1>1, <1>2 DEF InLimit

LEMMA QuotaBegins == ASSUME QuotaAssumption PROVE Apps!Init => QuotaInv
<1> SUFFICES ASSUME Apps!Init PROVE QuotaInv
  OBVIOUS
<1>1. IsFiniteSet({}) /\ Cardinality({}) = 0
  BY FS_EmptySet
<1>2. \A r \in Req : req[r] = Apps!Idle
  BY DEF Apps!Init
<1>3. Apps!Idle.phase = None /\ Form(Apps!Idle)
  BY DEF Apps!Idle, Form
<1>4. \A r \in Req : Form(req[r]) /\ Asked(req[r]) /\ Looked(r)
  BY <1>2, <1>3 DEF Asked, Looked, QuotaAssumption
<1>5. QuotaShapes
  BY <1>4 DEF Apps!Init, QuotaShapes
<1>6. \A u \in AppUser : InLimit(reserved[u], UserLimit[u])
  BY <1>1 DEF Apps!Init, InLimit, QuotaAssumption
<1> QED
  BY <1>4, <1>5, <1>6 DEF Apps!Init, QuotaInv

(* What gives back, or moves other requests, keeps within the limits.      *)
Shrinks ==
    /\ reserved' = [u \in AppUser |-> reserved'[u]] /\ items' = [n \in AppName |-> items'[n]]
    /\ \A u \in AppUser : reserved'[u] \subseteq reserved[u]
    /\ \A n \in AppName : \/ items'[n] = None
                          \/ items[n] # None /\ items'[n] \subseteq items[n]
Others(r) == \A j \in Req : j # r => req'[j] = req[j]

LEMMA QuotaShrinks ==
    ASSUME QuotaAssumption, QuotaInv, Shrinks, req' = [r \in Req |-> req'[r]],
           locked' = [o \in AppUser \cup AppName |-> locked'[o]],
           \A r \in Req : /\ Form(req'[r]) /\ Asked(req'[r])
                          /\ req'[r].phase = "reserving" =>
                                /\ req'[r] = req[r]
                                /\ locked'[OwnerOf(req[r])] = locked[OwnerOf(req[r])]
    PROVE  QuotaInv'
<1>1. QuotaShapes'
  BY DEF QuotaInv, QuotaShapes, Shrinks
<1>2. ASSUME NEW u \in AppUser
      PROVE  /\ InLimit(reserved'[u], UserLimit[u])
             /\ Cardinality(reserved'[u]) \in Nat /\ Cardinality(reserved[u]) \in Nat
             /\ Cardinality(reserved'[u]) <= Cardinality(reserved[u])
  BY Fewer DEF QuotaInv, Shrinks, QuotaAssumption
<1>3. ASSUME NEW n \in AppName, items'[n] # None
      PROVE  /\ UnitLimit \in Nat /\ InLimit(items'[n], UnitLimit) /\ items[n] # None
             /\ Cardinality(items'[n]) \in Nat /\ Cardinality(items[n]) \in Nat
             /\ Cardinality(items'[n]) <= Cardinality(items[n])
  BY <1>3, Fewer DEF QuotaInv, Shrinks, QuotaAssumption
<1>4. ASSUME NEW r \in Req PROVE Looked(r)'
  <2> SUFFICES ASSUME req'[r].phase = "reserving" PROVE Looked(r)'
    BY DEF Looked
  <2>1. /\ req'[r] = req[r] /\ Looked(r) /\ req[r].look \in Nat
        /\ locked'[OwnerOf(req[r])] = locked[OwnerOf(req[r])]
    BY DEF QuotaInv, QuotaShapes, Asked
  <2>2. PICK o : o = OwnerOf(req[r])
    OBVIOUS
  <2>3. o \in AppUser /\ UserLimit[o] # None =>
            Cardinality(reserved'[o]) + req[r].look <= UserLimit[o]
    BY <1>2, <2>1, <2>2 DEF Looked, QuotaAssumption
  <2>4. o \in AppName /\ items'[o] # None =>
            Cardinality(items'[o]) + req[r].look <= UnitLimit
    BY <1>3, <2>1, <2>2 DEF Looked
  <2> QED
    BY <2>1, <2>2, <2>3, <2>4 DEF Looked, OwnerOf
<1> QED
  BY <1>1, <1>2, <1>3, <1>4 DEF QuotaInv

LEMMA AppIdle == Apps!Idle.op = None /\ Apps!Idle.phase = None /\ Form(Apps!Idle)
BY DEF Apps!Idle, Form

LEMMA IdleAsks == ASSUME QuotaAssumption PROVE Asked(Apps!Idle) /\ Apps!Idle.phase # "reserving"
BY AppIdle DEF Asked, QuotaAssumption

LEMMA Pipes ==
    /\ Apps!PipelineOf("create") =
          <<"reserveUserApp", "createAppQuota", "insertApp", "exportEnvironments",
            "createRepository", "provisionApp">>
    /\ Apps!PipelineOf("addUnits") = <<"reserveUnitsToAdd", "provisionAddUnits", "saveNewUnits">>
    /\ Len(Apps!PipelineOf("create")) = 6 /\ Len(Apps!PipelineOf("addUnits")) = 3
BY DEF Apps!PipelineOf, Apps!CreatePipeline, Apps!AddPipeline

(* How the request r moves, for what is said of requests.                  *)
Moved(r) ==
    /\ req' = [j \in Req |-> req'[j]] /\ Others(r)
    /\ Form(req'[r]) /\ Asked(req'[r])

LEMMA AppCompletes ==
    ASSUME QuotaAssumption, QuotaInv, NEW r \in Req, NEW res, req[r].phase = "forward",
           Apps!Completes(r, res)
    PROVE  /\ Moved(r) /\ req'[r].phase # "reserving"
           /\ req[r].at = Len(Apps!PipelineOf(req[r].op)) => req'[r] = Apps!Idle
           /\ req[r].at # Len(Apps!PipelineOf(req[r].op)) =>
                 /\ req'[r].op = req[r].op /\ req'[r].name = req[r].name
                 /\ req'[r].user = req[r].user /\ req'[r].at = req[r].at + 1
                 /\ req'[r].phase = "forward" /\ req'[r].prev = res
                 /\ req'[r].token = req[r].token /\ req'[r].n = req[r].n
<1>1. Form(req[r]) /\ Asked(req[r]) /\ req = [j \in Req |-> req[j]]
  BY DEF QuotaInv, QuotaShapes
<1>2. CASE req[r].at = Len(Apps!PipelineOf(req[r].op))
  <2>1. req' = [req EXCEPT ![r] = Apps!Idle]
    BY <1>2 DEF Apps!Completes
  <2>2. req'[r] = Apps!Idle /\ Others(r) /\ req' = [j \in Req |-> req'[j]]
    BY <1>1, <2>1 DEF Others
  <2> QED
    BY <1>2, <2>2, AppIdle, IdleAsks DEF Moved
<1>3. CASE req[r].at # Len(Apps!PipelineOf(req[r].op))
  <2>1. PICK q : q = [req[r] EXCEPT !.at = req[r].at + 1, !.prev = res]
    OBVIOUS
  <2>2. req' = [req EXCEPT ![r] = q]
    BY <1>3, <2>1 DEF Apps!Completes
  <2>3. q = [op |-> req[r].op, name |-> req[r].name, user |-> req[r].user, n |-> req[r].n,
             at |-> req[r].at + 1, phase |-> req[r].phase, app |-> req[r].app,
             token |-> req[r].token, prev |-> res, look |-> req[r].look]
    BY <1>1, <2>1 DEF Form
  <2>4. req'[r] = q /\ Others(r) /\ req' = [j \in Req |-> req'[j]]
    BY <1>1, <2>2 DEF Others
  <2>5. Form(q) /\ q.at = req[r].at + 1 /\ q.phase = "forward" /\ q.op = req[r].op
        /\ q.name = req[r].name /\ q.user = req[r].user /\ q.prev = res
        /\ q.token = req[r].token /\ q.n = req[r].n
    BY <2>3 DEF Form
  <2>6. Asked(q)
    <3>1. /\ req[r].op = "create" => req[r].at \in 1 .. 6 /\ req[r].at # 6
          /\ req[r].op = "addUnits" => req[r].at \in 1 .. 3 /\ req[r].at # 3
      BY <1>1, <1>3, Pipes DEF Asked
    <3>2. q.phase # "reserving" /\ q.op \in {"create", "addUnits"} /\ q.name \in AppName
          /\ (q.op = "create" => q.user \in AppUser) /\ (q.op = "addUnits" => q.n \in Nat)
      BY <1>1, <2>5 DEF Asked
    <3> QED
      BY <2>5, <3>1, <3>2 DEF Asked
  <2> QED
    BY <1>3, <2>4, <2>5, <2>6 DEF Moved
<1> QED
  BY <1>2, <1>3

LEMMA AppFails ==
    ASSUME QuotaAssumption, QuotaInv, NEW r \in Req, NEW res, Apps!Fails(r, res)
    PROVE  /\ Moved(r) /\ req'[r].phase # "reserving"
           /\ req[r].at = 1 => req'[r] = Apps!Idle
           /\ req[r].at # 1 =>
                 /\ req'[r].op = req[r].op /\ req'[r].name = req[r].name
                 /\ req'[r].user = req[r].user /\ req'[r].at = req[r].at - 1
                 /\ req'[r].phase = "back" /\ req'[r].token = req[r].token
<1>1. Form(req[r]) /\ req = [j \in Req |-> req[j]]
  BY DEF QuotaInv, QuotaShapes
<1>2. CASE req[r].at = 1
  <2>1. req' = [req EXCEPT ![r] = Apps!Idle]
    BY <1>2 DEF Apps!Fails
  <2>2. req'[r] = Apps!Idle /\ Others(r) /\ req' = [j \in Req |-> req'[j]]
    BY <1>1, <2>1 DEF Others
  <2> QED
    BY <1>2, <2>2, AppIdle, IdleAsks DEF Moved
<1>3. CASE req[r].at # 1
  <2>1. PICK q : q = [req[r] EXCEPT !.at = req[r].at - 1, !.phase = "back"]
    OBVIOUS
  <2>2. req' = [req EXCEPT ![r] = q]
    BY <1>3, <2>1 DEF Apps!Fails
  <2>3. q = [op |-> req[r].op, name |-> req[r].name, user |-> req[r].user, n |-> req[r].n,
             at |-> req[r].at - 1, phase |-> "back", app |-> req[r].app,
             token |-> req[r].token, prev |-> req[r].prev, look |-> req[r].look]
    BY <1>1, <2>1 DEF Form
  <2>4. req'[r] = q /\ Others(r) /\ req' = [j \in Req |-> req'[j]]
    BY <1>1, <2>2 DEF Others
  <2>5. Form(q) /\ q.at = req[r].at - 1 /\ q.phase = "back" /\ q.op = req[r].op
        /\ q.name = req[r].name /\ q.user = req[r].user /\ q.token = req[r].token
    BY <2>3 DEF Form
  <2> QED
    BY <1>3, <2>4, <2>5 DEF Moved, Asked
<1> QED
  BY <1>2, <1>3

LEMMA AppBackEnds ==
    ASSUME QuotaAssumption, QuotaInv, NEW r \in Req, req[r].phase = "back", Apps!BackEnds(r)
    PROVE  /\ Moved(r) /\ req'[r].phase # "reserving"
           /\ req[r].at = 1 => req'[r] = Apps!Idle
           /\ req[r].at # 1 =>
                 /\ req'[r].op = req[r].op /\ req'[r].name = req[r].name
                 /\ req'[r].user = req[r].user /\ req'[r].at = req[r].at - 1
                 /\ req'[r].phase = "back" /\ req'[r].token = req[r].token
<1>1. Form(req[r]) /\ req = [j \in Req |-> req[j]]
  BY DEF QuotaInv, QuotaShapes
<1>2. CASE req[r].at = 1
  <2>1. req' = [req EXCEPT ![r] = Apps!Idle]
    BY <1>2 DEF Apps!BackEnds
  <2>2. req'[r] = Apps!Idle /\ Others(r) /\ req' = [j \in Req |-> req'[j]]
    BY <1>1, <2>1 DEF Others
  <2> QED
    BY <1>2, <2>2, AppIdle, IdleAsks DEF Moved
<1>3. CASE req[r].at # 1
  <2>1. PICK q : q = [req[r] EXCEPT !.at = req[r].at - 1]
    OBVIOUS
  <2>2. req' = [req EXCEPT ![r] = q]
    BY <1>3, <2>1 DEF Apps!BackEnds
  <2>3. q = [op |-> req[r].op, name |-> req[r].name, user |-> req[r].user, n |-> req[r].n,
             at |-> req[r].at - 1, phase |-> req[r].phase, app |-> req[r].app,
             token |-> req[r].token, prev |-> req[r].prev, look |-> req[r].look]
    BY <1>1, <2>1 DEF Form
  <2>4. req'[r] = q /\ Others(r) /\ req' = [j \in Req |-> req'[j]]
    BY <1>1, <2>2 DEF Others
  <2>5. Form(q) /\ q.at = req[r].at - 1 /\ q.phase = "back" /\ q.op = req[r].op
        /\ q.name = req[r].name /\ q.user = req[r].user /\ q.token = req[r].token
    BY <2>3 DEF Form
  <2> QED
    BY <1>3, <2>4, <2>5 DEF Moved, Asked
<1> QED
  BY <1>2, <1>3

LEMMA AppOwner ==
    ASSUME NEW r \in Req, Asked(req[r]), req[r].phase \in {"forward", "reserving"},
           req[r].at = 1 \/ req[r].op # "create"
    PROVE  Apps!Owner(r) = OwnerOf(req[r]) /\ OwnerOf(req[r]) \in AppUser \cup AppName
BY DEF Apps!Owner, OwnerOf, Asked

LEMMA ReservesFirst ==
    ASSUME NEW r \in Req, Asked(req[r]), Apps!Reserving(r) PROVE req[r].at = 1
<1>1. CASE req[r].op = "create"
  BY <1>1, Pipes DEF Apps!Reserving, Asked
<1>2. CASE req[r].op = "addUnits"
  BY <1>2, Pipes DEF Apps!Reserving, Asked
<1> QED
  BY <1>1, <1>2 DEF Apps!Reserving, Asked

LEMMA ItemsFinite == ASSUME NEW us, NEW n \in Nat PROVE IsFiniteSet(Apps!NextItems(us, n))
<1>1. PICK l : l = Apps!NextItem(us)
  OBVIOUS
<1>2. Apps!NextItems(us, n) = {l + i : i \in 0 .. n - 1}
  BY <1>1 DEF Apps!NextItems
<1>3. IsFiniteSet(0 .. n - 1)
  BY FS_Interval
<1> DEFINE f == [i \in 0 .. n - 1 |-> l + i]
<1>4. f \in Surjection(0 .. n - 1, {l + i : i \in 0 .. n - 1})
  BY DEF Surjection
<1> QED
  BY <1>2, <1>3, <1>4, FS_Surjection

LEMMA ReserveStep == ASSUME QuotaAssumption, QuotaInv, NEW r \in Req, Apps!Reserve(r) PROVE QuotaInv'
<1>1. /\ Form(req[r]) /\ Asked(req[r]) /\ req = [j \in Req |-> req[j]]
      /\ req[r].phase = "forward" /\ UNCHANGED <<reserved, items>>
      /\ Apps!Reserving(r) /\ Apps!Free(Apps!Owner(r)) /\ Apps!HasQuota(Apps!Owner(r))
      /\ locked' = [locked EXCEPT ![Apps!Owner(r)] = r]
  BY DEF QuotaInv, QuotaShapes, Apps!Reserve, Apps!Reserving
<1>2. req[r].at = 1
  BY <1>1, ReservesFirst
<1>3. PICK o : o = Apps!Owner(r)
  OBVIOUS
<1>4. o = OwnerOf(req[r]) /\ o \in AppUser \cup AppName
  BY <1>1, <1>2, <1>3, AppOwner
<1>5. PICK p : p = IF req[r].op = "create" THEN {req[r].name}
                   ELSE Apps!NextItems(apps[req[r].name].units, req[r].n)
  OBVIOUS
<1>6. IsFiniteSet(p)
  BY <1>1, <1>5, ItemsFinite, FS_Singleton DEF Asked
<1>7. PICK l : l = Apps!Available(o)
  OBVIOUS
<1>8. /\ l \in Nat
      /\ o \in AppUser /\ UserLimit[o] # None => Cardinality(reserved[o]) + l <= UserLimit[o]
      /\ o \in AppName /\ items[o] # None => Cardinality(items[o]) + l <= UnitLimit
  <2>1. CASE o \in AppUser
    <3>1. UserLimit[o] \in Nat /\ o \notin AppName
      BY <1>1, <1>3, <2>1 DEF Apps!HasQuota, QuotaAssumption
    <3>2. Cardinality(reserved[o]) \in Nat /\ Cardinality(reserved[o]) <= UserLimit[o]
      BY <1>1, <1>3, <2>1, <3>1, FS_CardinalityType DEF QuotaInv, InLimit, Apps!HasQuota
    <3>3. l = UserLimit[o] - Cardinality(reserved[o])
      BY <1>7, <2>1, <3>1, <3>2, AppsCount DEF Apps!Available, Apps!LimitOf, Apps!ItemsOf
    <3> QED
      BY <2>1, <3>1, <3>2, <3>3
  <2>2. CASE o \notin AppUser
    <3>1. o \in AppName /\ items[o] # None /\ UnitLimit \in Nat
      BY <1>1, <1>3, <1>4, <2>2 DEF Apps!HasQuota, QuotaInv
    <3>2. UnitLimit # None \/ UnitLimit = None
      OBVIOUS
    <3>3. InLimit(items[o], UnitLimit)
      BY <3>1 DEF QuotaInv
    <3>4. Cardinality(items[o]) \in Nat
      BY <3>3, FS_CardinalityType DEF InLimit
    <3>5. l = IF UnitLimit < Cardinality(items[o]) THEN 0 ELSE UnitLimit - Cardinality(items[o])
      BY <1>7, <2>2, AppsCount DEF Apps!Available, Apps!LimitOf, Apps!ItemsOf
    <3>6. Cardinality(items[o]) <= UnitLimit
      BY <3>1, <3>3 DEF InLimit, QuotaAssumption
    <3> QED
      BY <2>2, <3>1, <3>4, <3>5, <3>6
  <2> QED
    BY <2>1, <2>2
<1>9. PICK q : q = [req[r] EXCEPT !.phase = "reserving", !.look = l, !.prev = p]
  OBVIOUS
<1>10. q = [op |-> req[r].op, name |-> req[r].name, user |-> req[r].user, n |-> req[r].n,
            at |-> req[r].at, phase |-> "reserving", app |-> req[r].app,
            token |-> req[r].token, prev |-> p, look |-> l]
  BY <1>1, <1>9 DEF Form
<1>11. req'[r] = q /\ Others(r) /\ req' = [j \in Req |-> req'[j]]
  BY <1>1, <1>3, <1>5, <1>7, <1>9 DEF Apps!Reserve, Others
<1>12. /\ Form(q) /\ q.op = req[r].op /\ q.name = req[r].name /\ q.user = req[r].user
       /\ q.at = 1 /\ q.phase = "reserving" /\ q.look = l /\ q.prev = p /\ q.n = req[r].n
  BY <1>2, <1>10 DEF Form
<1>13. Asked(q) /\ OwnerOf(q) = o
  BY <1>1, <1>4, <1>6, <1>8, <1>12 DEF Asked, OwnerOf
<1>14. locked' = [x \in AppUser \cup AppName |-> locked'[x]] /\ locked'[o] = r /\ locked[o] = None
       /\ \A x \in AppUser \cup AppName : x # o => locked'[x] = locked[x]
  BY <1>1, <1>3, <1>4 DEF QuotaInv, QuotaShapes, Apps!Free
<1>15. QuotaShapes'
  BY <1>1, <1>11, <1>12, <1>13, <1>14 DEF QuotaInv, QuotaShapes, Others
<1>16. Looked(r)'
  BY <1>1, <1>8, <1>11, <1>12, <1>13, <1>14 DEF Looked
<1>17. ASSUME NEW j \in Req, j # r PROVE Looked(j)'
  <2> SUFFICES ASSUME req[j].phase = "reserving" PROVE Looked(j)'
    BY <1>11, <1>17 DEF Looked, Others
  <2>1. req'[j] = req[j] /\ Looked(j) /\ Asked(req[j])
    BY <1>11, <1>17 DEF Others, QuotaInv, QuotaShapes
  <2>2. PICK x : x = OwnerOf(req[j])
    OBVIOUS
  <2>3. locked[x] = j /\ x \in AppUser \cup AppName
    BY <2>1, <2>2 DEF Looked, Asked, OwnerOf
  <2>4. x # o
    BY <1>14, <2>3 DEF QuotaAssumption
  <2> QED
    BY <1>1, <1>14, <2>1, <2>2, <2>3, <2>4 DEF Looked
<1> QED
  BY <1>1, <1>15, <1>16, <1>17 DEF QuotaInv

(* Who has looked holds the lock of one owner, and nobody else holds it.   *)
LEMMA OwnLock ==
    ASSUME QuotaAssumption, QuotaInv, NEW j \in Req, req[j].phase = "reserving"
    PROVE  /\ locked[OwnerOf(req[j])] = j /\ OwnerOf(req[j]) \in AppUser \cup AppName
           /\ Apps!Owner(j) = OwnerOf(req[j]) /\ req[j].look \in Nat /\ req[j].at = 1
           /\ IsFiniteSet(req[j].prev)
<1>1. Asked(req[j]) /\ Looked(j)
  BY DEF QuotaInv, QuotaShapes
<1>2. req[j].at = 1
  BY <1>1 DEF Asked
<1> QED
  BY <1>1, <1>2, AppOwner DEF Looked, Asked

LEMMA Nothing == QuotaInv /\ UNCHANGED <<reserved, items>> => Shrinks
BY DEF QuotaInv, QuotaShapes, Shrinks

LEMMA UpdateStep ==
    ASSUME QuotaAssumption, QuotaInv, NEW r \in Req, Apps!UpdateQuota(r) PROVE QuotaInv'
<1> DEFINE o == OwnerOf(req[r])
<1>1. /\ Form(req[r]) /\ Asked(req[r]) /\ req = [j \in Req |-> req[j]] /\ Looked(r)
      /\ req[r].phase = "reserving" /\ Apps!Owner(r) = o /\ o \in AppUser \cup AppName
      /\ locked[o] = r /\ req[r].at = 1 /\ IsFiniteSet(req[r].prev) /\ req[r].look \in Nat
  BY OwnLock DEF QuotaInv, QuotaShapes, Apps!UpdateQuota
<1>2. locked' = [locked EXCEPT ![o] = None]
  BY <1>1 DEF Apps!UpdateQuota
<1>3. /\ locked' = [x \in AppUser \cup AppName |-> locked'[x]]
      /\ \A x \in AppUser \cup AppName : x # o => locked'[x] = locked[x]
  BY <1>2 DEF QuotaInv, QuotaShapes
<1>4. ASSUME NEW j \in Req, j # r, req[j].phase = "reserving"
      PROVE  /\ locked'[OwnerOf(req[j])] = locked[OwnerOf(req[j])]
             /\ OwnerOf(req[j]) # o /\ OwnerOf(req[j]) \in AppUser \cup AppName
             /\ Looked(j)
  BY <1>1, <1>3, <1>4, OwnLock DEF QuotaInv
<1>5. CASE /\ req[r].look < Apps!Cardinality(req[r].prev) \/ ~Apps!HasQuota(o)
           /\ Apps!Fails(r, None) /\ UNCHANGED <<reserved, items>>
  <2>1. Moved(r) /\ req'[r].phase # "reserving"
    BY <1>5, AppFails
  <2>2. ASSUME NEW j \in Req
        PROVE  /\ Form(req'[j]) /\ Asked(req'[j])
               /\ req'[j].phase = "reserving" =>
                     req'[j] = req[j] /\ locked'[OwnerOf(req[j])] = locked[OwnerOf(req[j])]
    BY <1>4, <2>1 DEF Moved, Others, QuotaInv, QuotaShapes
  <2> QED
    BY <1>3, <1>5, <2>1, <2>2, Nothing, QuotaShrinks DEF Moved
<1>6. CASE /\ req[r].look >= Apps!Cardinality(req[r].prev) /\ Apps!HasQuota(o)
           /\ IF o \in AppUser
              THEN reserved' = [reserved EXCEPT ![o] = @ \cup req[r].prev] /\ UNCHANGED items
              ELSE items' = [items EXCEPT ![o] = @ \cup req[r].prev] /\ UNCHANGED reserved
           /\ req' = [req EXCEPT ![r].phase = "forward", ![r].at = 2, ![r].look = 0]
  <2>1. PICK q : q = [req[r] EXCEPT !.phase = "forward", !.at = 2, !.look = 0]
    OBVIOUS
  <2>2. q = [op |-> req[r].op, name |-> req[r].name, user |-> req[r].user, n |-> req[r].n,
             at |-> 2, phase |-> "forward", app |-> req[r].app,
             token |-> req[r].token, prev |-> req[r].prev, look |-> 0]
    BY <1>1, <2>1 DEF Form
  <2>3. req'[r] = q /\ Others(r) /\ req' = [j \in Req |-> req'[j]]
    BY <1>1, <1>6, <2>1 DEF Others
  <2>4. Form(q) /\ q.op = req[r].op /\ q.name = req[r].name /\ q.user = req[r].user
        /\ q.at = 2 /\ q.phase = "forward" /\ q.n = req[r].n
    BY <2>2 DEF Form
  <2>5. Asked(q)
    BY <1>1, <2>4 DEF Asked
  <2>6. /\ \A u \in AppUser : u # o => reserved'[u] = reserved[u]
        /\ \A n \in AppName : n # o => items'[n] = items[n]
        /\ reserved' = [u \in AppUser |-> reserved'[u]] /\ items' = [n \in AppName |-> items'[n]]
    BY <1>6 DEF QuotaInv, QuotaShapes
  <2>7. ASSUME NEW S, NEW l \in Nat, InLimit(S, l), Cardinality(S) + req[r].look <= l
        PROVE  InLimit(S \cup req[r].prev, l)
    <3>1. /\ IsFiniteSet(S \cup req[r].prev)
          /\ Cardinality(S \cup req[r].prev) =
                Cardinality(S) + Cardinality(req[r].prev) - Cardinality(S \cap req[r].prev)
      BY <1>1, <2>7, FS_Union DEF InLimit
    <3>2. Cardinality(S) \in Nat /\ Cardinality(req[r].prev) \in Nat
      BY <1>1, <2>7, FS_CardinalityType DEF InLimit
    <3>3. S \cap req[r].prev \in SUBSET S
      OBVIOUS
    <3>4. IsFiniteSet(S \cap req[r].prev)
      BY <2>7, <3>3, FS_Subset DEF InLimit
    <3>5. Cardinality(S \cap req[r].prev) \in Nat
      BY <3>4, FS_CardinalityType
    <3>6. req[r].look >= Cardinality(req[r].prev)
      BY <1>6, AppsCount
    <3> QED
      BY <1>1, <2>7, <3>1, <3>2, <3>5, <3>6 DEF InLimit
  <2>8. ASSUME o \in AppUser
        PROVE  /\ \A u \in AppUser : InLimit(reserved'[u], UserLimit[u])
               /\ \A n \in AppName : items'[n] # None => UnitLimit \in Nat /\ InLimit(items'[n], UnitLimit)
    <3>1. reserved'[o] = reserved[o] \cup req[r].prev /\ items' = items
      BY <1>6, <2>8 DEF QuotaInv, QuotaShapes
    <3>2. UserLimit[o] \in Nat /\ InLimit(reserved[o], UserLimit[o])
          /\ Cardinality(reserved[o]) + req[r].look <= UserLimit[o]
      BY <1>1, <1>6, <2>8 DEF Apps!HasQuota, QuotaAssumption, QuotaInv, Looked
    <3>3. InLimit(reserved'[o], UserLimit[o])
      BY <2>7, <3>1, <3>2
    <3> QED
      BY <2>6, <2>8, <3>1, <3>3 DEF QuotaInv
  <2>9. ASSUME o \notin AppUser
        PROVE  /\ \A u \in AppUser : InLimit(reserved'[u], UserLimit[u])
               /\ \A n \in AppName : items'[n] # None => UnitLimit \in Nat /\ InLimit(items'[n], UnitLimit)
    <3>1. o \in AppName /\ items'[o] = items[o] \cup req[r].prev /\ reserved' = reserved
      BY <1>1, <1>6, <2>9 DEF QuotaInv, QuotaShapes
    <3>2. items[o] # None /\ UnitLimit \in Nat /\ InLimit(items[o], UnitLimit)
          /\ Cardinality(items[o]) + req[r].look <= UnitLimit
      BY <1>1, <1>6, <2>9, <3>1 DEF Apps!HasQuota, QuotaInv, Looked
    <3>3. InLimit(items'[o], UnitLimit)
      BY <2>7, <3>1, <3>2
    <3> QED
      BY <2>6, <2>9, <3>1, <3>2, <3>3 DEF QuotaInv
  <2>10. /\ \A u \in AppUser : InLimit(reserved'[u], UserLimit[u])
         /\ \A n \in AppName : items'[n] # None => UnitLimit \in Nat /\ InLimit(items'[n], UnitLimit)
    BY <2>8, <2>9
  <2>11. QuotaShapes'
    BY <1>3, <2>3, <2>4, <2>5, <2>6 DEF QuotaInv, QuotaShapes, Others
  <2>12. ASSUME NEW j \in Req PROVE Looked(j)'
    <3>1. CASE j = r
      BY <2>3, <2>4, <3>1 DEF Looked
    <3>2. CASE j # r
      BY <1>4, <2>3, <2>6, <3>2 DEF Looked, Others
    <3> QED
      BY <3>1, <3>2
  <2> QED
    BY <2>10, <2>11, <2>12 DEF QuotaInv
<1> QED
  BY <1>1, <1>5, <1>6 DEF Apps!UpdateQuota

LEMMA CreateQuotaStep ==
    ASSUME QuotaAssumption, QuotaInv, NEW r \in Req, Apps!CreateAppQuota(r) PROVE QuotaInv'
<1> DEFINE m == req[r].name
<1>1. /\ req[r].phase = "forward" /\ Asked(req[r]) /\ m \in AppName
      /\ UNCHANGED <<reserved, locked>> /\ locked[m] = None
  BY DEF QuotaInv, QuotaShapes, Asked, Apps!CreateAppQuota, Apps!Runs, Apps!Free
<1>2. CASE UnitLimit = 0 /\ Apps!Fails(r, None) /\ UNCHANGED items
  <2>1. Moved(r) /\ req'[r].phase # "reserving"
    BY <1>2, AppFails
  <2> QED
    BY <1>1, <1>2, <2>1, Nothing, QuotaShrinks DEF Moved, Others, QuotaInv, QuotaShapes
<1>3. CASE UnitLimit # 0 /\ Apps!Completes(r, m)
           /\ items' = [items EXCEPT ![m] =
                    IF UnitLimit = None THEN items[m] ELSE IF items[m] = None THEN {0}
                    ELSE IF Apps!Cardinality(items[m]) < UnitLimit THEN items[m] \cup {0}
                    ELSE items[m]]
  <2>1. Moved(r) /\ req'[r].phase # "reserving"
    BY <1>1, <1>3, AppCompletes
  <2>2. /\ items' = [n \in AppName |-> items'[n]]
        /\ \A n \in AppName : n # m => items'[n] = items[n]
        /\ items'[m] = IF UnitLimit = None THEN items[m] ELSE IF items[m] = None THEN {0}
                       ELSE IF Cardinality(items[m]) < UnitLimit THEN items[m] \cup {0}
                       ELSE items[m]
    BY <1>1, <1>3, AppsCount DEF QuotaInv, QuotaShapes
  <2>3. items'[m] # None => UnitLimit \in Nat /\ InLimit(items'[m], UnitLimit)
    <3>1. CASE UnitLimit = None \/ items'[m] = items[m]
      BY <1>1, <2>2, <3>1 DEF QuotaInv
    <3>2. CASE UnitLimit # None /\ items[m] = None
      <4>1. UnitLimit \in Nat /\ UnitLimit >= 1 /\ items'[m] = {0}
        BY <1>3, <2>2, <3>2 DEF QuotaAssumption
      <4> QED
        BY <4>1, FS_Singleton DEF InLimit
    <3>3. CASE UnitLimit # None /\ items[m] # None /\ Cardinality(items[m]) < UnitLimit
      <4>1. UnitLimit \in Nat /\ IsFiniteSet(items[m]) /\ items'[m] = items[m] \cup {0}
        BY <1>1, <2>2, <3>3 DEF QuotaInv, InLimit
      <4>2. /\ IsFiniteSet(items[m] \cup {0}) /\ Cardinality(items[m]) \in Nat
            /\ Cardinality(items[m] \cup {0}) \in {Cardinality(items[m]), Cardinality(items[m]) + 1}
        BY <4>1, FS_AddElement, FS_CardinalityType
      <4> QED
        BY <3>3, <4>1, <4>2 DEF InLimit
    <3> QED
      BY <2>2, <3>1, <3>2, <3>3
  <2>4. \A n \in AppName : items'[n] # None => UnitLimit \in Nat /\ InLimit(items'[n], UnitLimit)
    BY <2>2, <2>3 DEF QuotaInv
  <2>5. ASSUME NEW j \in Req PROVE Looked(j)'
    <3>1. CASE j = r
      BY <2>1, <3>1 DEF Looked
    <3>2. CASE j # r /\ req[j].phase = "reserving"
      <4>1. locked[OwnerOf(req[j])] = j /\ Looked(j) /\ req'[j] = req[j]
        BY <2>1, <3>2, OwnLock DEF QuotaInv, Moved, Others
      <4>2. OwnerOf(req[j]) # m
        BY <1>1, <4>1 DEF QuotaAssumption
      <4> QED
        BY <1>1, <2>2, <4>1, <4>2 DEF Looked
    <3> QED
      BY <2>1, <3>1, <3>2 DEF Looked, Moved, Others
  <2>6. QuotaShapes'
    BY <1>1, <2>1, <2>2 DEF QuotaInv, QuotaShapes, Moved, Others
  <2> QED
    BY <1>1, <2>4, <2>5, <2>6 DEF QuotaInv
<1> QED
  BY <1>2, <1>3 DEF Apps!CreateAppQuota

LEMMA QuotaMoves ==
    ASSUME QuotaAssumption, QuotaInv, NEW r \in Req, Moved(r), req'[r].phase # "reserving",
           Shrinks, UNCHANGED locked
    PROVE  QuotaInv'
<1>1. locked' = [o \in AppUser \cup AppName |-> locked'[o]]
  BY DEF QuotaInv, QuotaShapes
<1>2. \A j \in Req : /\ Form(req'[j]) /\ Asked(req'[j])
                     /\ req'[j].phase = "reserving" =>
                           req'[j] = req[j] /\ locked'[OwnerOf(req[j])] = locked[OwnerOf(req[j])]
  BY DEF Moved, Others, QuotaInv, QuotaShapes
<1> QED
  BY <1>1, <1>2, QuotaShrinks DEF Moved

LEMMA MovesTo ==
    ASSUME QuotaInv, NEW r \in Req, NEW q, req' = [req EXCEPT ![r] = q], Form(q), Asked(q)
    PROVE  Moved(r) /\ req'[r] = q
BY DEF QuotaInv, QuotaShapes, Moved, Others

LEMMA GoesIdle ==
    ASSUME QuotaAssumption, QuotaInv, NEW r \in Req, req' = [req EXCEPT ![r] = Apps!Idle]
    PROVE  Moved(r) /\ req'[r] = Apps!Idle /\ req'[r].phase # "reserving"
BY MovesTo, AppIdle, IdleAsks

LEMMA ActionStep ==
    ASSUME QuotaAssumption, QuotaInv, NEW r \in Req, UNCHANGED <<reserved, items, locked>>,
           \/ req[r].phase = "forward" /\ \E res : Apps!Completes(r, res)
           \/ \E res : Apps!Fails(r, res)
    PROVE  QuotaInv'
<1>1. Shrinks
  BY Nothing
<1>2. Moved(r) /\ req'[r].phase # "reserving"
  BY AppCompletes, AppFails
<1> QED
  BY <1>1, <1>2, QuotaMoves

LEMMA ExportStep ==
    ASSUME QuotaAssumption, QuotaInv, NEW r \in Req, Apps!ExportEnvironments(r) PROVE QuotaInv'
<1>1. CASE Apps!Fails(r, None)
  BY <1>1, ActionStep DEF Apps!ExportEnvironments
<1>2. CASE ~Apps!Fails(r, None)
  <2>1. PICK n, t : req' = [req EXCEPT ![r].at = 5, ![r].prev = n, ![r].token = t]
    BY <1>2 DEF Apps!ExportEnvironments
  <2>2. PICK q : q = [req[r] EXCEPT !.at = 5, !.prev = n, !.token = t]
    OBVIOUS
  <2>3. Form(req[r]) /\ Asked(req[r]) /\ req = [j \in Req |-> req[j]] /\ req[r].phase = "forward"
        /\ req[r].op = "create"
    <3>1. Form(req[r]) /\ Asked(req[r]) /\ req = [j \in Req |-> req[j]] /\ req[r].phase = "forward"
      BY DEF QuotaInv, QuotaShapes, Apps!ExportEnvironments, Apps!Runs
    <3>2. req[r].op # "addUnits"
      <4> SUFFICES ASSUME req[r].op = "addUnits" PROVE FALSE
        OBVIOUS
      <4>1. req[r].at \in 1 .. 3
        BY <3>1 DEF Asked
      <4> QED
        BY <4>1, Pipes DEF Apps!ExportEnvironments, Apps!Runs
    <3> QED
      BY <3>1, <3>2 DEF Asked
  <2>4. q = [op |-> req[r].op, name |-> req[r].name, user |-> req[r].user, n |-> req[r].n,
             at |-> 5, phase |-> "forward", app |-> req[r].app,
             token |-> t, prev |-> n, look |-> req[r].look]
    BY <2>2, <2>3 DEF Form
  <2>5. req' = [req EXCEPT ![r] = q]
    BY <2>1, <2>2, <2>3
  <2>6. Form(q) /\ q.phase = "forward" /\ q.at = 5 /\ q.op = "create" /\ q.name = req[r].name
        /\ q.user = req[r].user
    BY <2>3, <2>4 DEF Form
  <2>7. Asked(q)
    BY <2>3, <2>6 DEF Asked
  <2>8. Shrinks /\ UNCHANGED locked
    BY Nothing DEF Apps!ExportEnvironments
  <2> QED
    BY <2>5, <2>6, <2>7, <2>8, MovesTo, QuotaMoves
<1> QED
  BY <1>1, <1>2

LEMMA RollbackStep ==
    ASSUME QuotaAssumption, QuotaInv, NEW r \in Req, Apps!Rollback(r) PROVE QuotaInv'
<1>1. req[r].phase = "back" /\ UNCHANGED locked
  BY DEF Apps!Rollback
<1>2. CASE req' = [req EXCEPT ![r] = Apps!Idle] /\ UNCHANGED <<reserved, items>>
  BY <1>1, <1>2, GoesIdle, Nothing, QuotaMoves
<1>3. CASE Apps!BackEnds(r) /\ \E a, x : Apps!Undo(r, a, x)
  <2>1. Moved(r) /\ req'[r].phase # "reserving"
    BY <1>1, <1>3, AppBackEnds
  <2>2. PICK a, x : Apps!Undo(r, a, x)
    BY <1>3
  <2>3. Shrinks
    BY <2>2 DEF Apps!Undo, Shrinks, QuotaInv, QuotaShapes
  <2> QED
    BY <1>1, <2>1, <2>3, QuotaMoves
<1> QED
  BY <1>2, <1>3 DEF Apps!Rollback

LEMMA DestroyStep ==
    ASSUME QuotaAssumption, QuotaInv, NEW r \in Req, Apps!ForceDestroy(r) PROVE QuotaInv'
<1>1. req[r].phase = "destroy" /\ UNCHANGED locked /\ Form(req[r])
  BY DEF Apps!ForceDestroy, QuotaInv, QuotaShapes
<1>2. Shrinks
  BY DEF Apps!ForceDestroy, Apps!Destroyed, Shrinks, QuotaInv, QuotaShapes
<1>3. CASE req' = [req EXCEPT ![r] = Apps!Idle]
  BY <1>1, <1>2, <1>3, GoesIdle, QuotaMoves
<1>4. CASE req' # [req EXCEPT ![r] = Apps!Idle]
  <2>1. PICK q : q = [req[r] EXCEPT !.at = req[r].at + 1]
    OBVIOUS
  <2>2. req' = [req EXCEPT ![r] = q]
    BY <1>4, <2>1 DEF Apps!ForceDestroy
  <2>3. q = [op |-> req[r].op, name |-> req[r].name, user |-> req[r].user, n |-> req[r].n,
             at |-> req[r].at + 1, phase |-> "destroy", app |-> req[r].app,
             token |-> req[r].token, prev |-> req[r].prev, look |-> req[r].look]
    BY <1>1, <2>1 DEF Form
  <2>4. Form(q) /\ q.phase = "destroy"
    BY <2>3 DEF Form
  <2> QED
    BY <1>1, <1>2, <2>2, <2>4, MovesTo, QuotaMoves DEF Asked
<1> QED
  BY <1>3, <1>4

LEMMA RemoveStep ==
    ASSUME QuotaAssumption, QuotaInv, NEW r \in Req,
           Apps!TakeUnits(r) \/ Apps!WriteUnits(r) \/ Apps!ReleaseUnits(r)
    PROVE  QuotaInv'
<1>1. Form(req[r]) /\ req = [j \in Req |-> req[j]]
  BY DEF QuotaInv, QuotaShapes
<1>2. CASE Apps!TakeUnits(r)
  <2>1. Shrinks /\ UNCHANGED locked
    BY <1>2, Nothing DEF Apps!TakeUnits
  <2>2. CASE req' = [req EXCEPT ![r] = Apps!Idle]
    BY <2>1, <2>2, GoesIdle, QuotaMoves
  <2>3. CASE req' # [req EXCEPT ![r] = Apps!Idle]
    <3>1. PICK k, p : req' = [req EXCEPT ![r] =
                [req[r] EXCEPT !.phase = "writeUnits", !.app.units = k, !.prev = p]]
      BY <1>2, <2>3, Zenon DEF Apps!TakeUnits
    <3>2. PICK a : a = [req[r].app EXCEPT !.units = k]
      OBVIOUS
    <3>3. PICK q : q = [req[r] EXCEPT !.phase = "writeUnits", !.app.units = k, !.prev = p]
      OBVIOUS
    <3>4. q = [op |-> req[r].op, name |-> req[r].name, user |-> req[r].user, n |-> req[r].n,
               at |-> req[r].at, phase |-> "writeUnits", app |-> a,
               token |-> req[r].token, prev |-> p, look |-> req[r].look]
      BY <1>1, <3>2, <3>3 DEF Form
    <3>5. Form(q) /\ q.phase = "writeUnits"
      BY <3>4 DEF Form
    <3>6. req' = [req EXCEPT ![r] = q]
      BY <3>1, <3>3
    <3> QED
      BY <2>1, <3>5, <3>6, MovesTo, QuotaMoves, Zenon DEF Asked
  <2> QED
    BY <2>2, <2>3
<1>3. CASE Apps!WriteUnits(r)
  <2>1. Shrinks /\ UNCHANGED locked
    BY <1>3, Nothing DEF Apps!WriteUnits
  <2>2. PICK q : q = [req[r] EXCEPT !.phase = "releaseUnits"]
    OBVIOUS
  <2>3. req' = [req EXCEPT ![r] = q]
    BY <1>1, <1>3, <2>2 DEF Apps!WriteUnits
  <2>4. q = [op |-> req[r].op, name |-> req[r].name, user |-> req[r].user, n |-> req[r].n,
             at |-> req[r].at, phase |-> "releaseUnits", app |-> req[r].app,
             token |-> req[r].token, prev |-> req[r].prev, look |-> req[r].look]
    BY <1>1, <2>2 DEF Form
  <2>5. Form(q) /\ q.phase = "releaseUnits"
    BY <2>4 DEF Form
  <2> QED
    BY <2>1, <2>3, <2>5, MovesTo, QuotaMoves DEF Asked
<1>4. CASE Apps!ReleaseUnits(r)
  <2>1. Shrinks /\ UNCHANGED locked
    BY <1>4 DEF Apps!ReleaseUnits, Shrinks, QuotaInv, QuotaShapes
  <2> QED
    BY <1>4, <2>1, GoesIdle, QuotaMoves DEF Apps!ReleaseUnits
<1> QED
  BY <1>2, <1>3, <1>4

LEMMA RequestStep ==
    ASSUME QuotaAssumption, QuotaInv, NEW r \in Req, Apps!Step(r) PROVE QuotaInv'
<1>1. CASE Apps!Reserve(r)
  BY <1>1, ReserveStep
<1>2. CASE Apps!UpdateQuota(r)
  BY <1>2, UpdateStep
<1>3. CASE Apps!Unlimited(r)
  <2>1. UNCHANGED <<reserved, items, locked>> /\ req[r].phase = "forward"
    BY <1>3 DEF Apps!Unlimited, Apps!Reserving
  <2>2. (\E res : Apps!Completes(r, res)) \/ (\E res : Apps!Fails(r, res))
    BY <1>3 DEF Apps!Unlimited
  <2> QED
    BY <2>1, <2>2, ActionStep
<1>4. CASE Apps!CreateAppQuota(r)
  BY <1>4, CreateQuotaStep
<1>5. CASE Apps!ExportEnvironments(r)
  BY <1>5, ExportStep
<1>6. CASE Apps!InsertApp(r) \/ Apps!CreateRepository(r) \/ Apps!ProvisionApp(r)
           \/ Apps!ProvisionAddUnits(r) \/ Apps!SaveNewUnits(r)
  <2>1. UNCHANGED <<reserved, items, locked>> /\ req[r].phase = "forward"
    BY <1>6 DEF Apps!InsertApp, Apps!CreateRepository, Apps!ProvisionApp,
       Apps!ProvisionAddUnits, Apps!SaveNewUnits, Apps!Runs
  <2>2. (\E res : Apps!Completes(r, res)) \/ (\E res : Apps!Fails(r, res))
    BY <1>6 DEF Apps!InsertApp, Apps!CreateRepository, Apps!ProvisionApp,
       Apps!ProvisionAddUnits, Apps!SaveNewUnits
  <2> QED
    BY <2>1, <2>2, ActionStep
<1>7. CASE Apps!Rollback(r) \/ Apps!ForceDestroy(r)
  BY <1>7, RollbackStep, DestroyStep
<1>8. CASE Apps!TakeUnits(r) \/ Apps!WriteUnits(r) \/ Apps!ReleaseUnits(r)
  BY <1>8, RemoveStep
<1> QED
  BY <1>1, <1>2, <1>3, <1>4, <1>5, <1>6, <1>7, <1>8 DEF Apps!Step

(* A request that begins.                                                  *)
Starts(r, op, name, user, n) ==
    req' = [req EXCEPT ![r] = [Apps!Idle EXCEPT !.op = op, !.name = name, !.user = user,
            !.n = n, !.at = 1, !.app = apps[name],
            !.phase = IF op \in {"create", "addUnits"} THEN "forward" ELSE op]]

LEMMA BeginStep ==
    ASSUME QuotaAssumption, QuotaInv, NEW r \in Req, NEW op, NEW name \in AppName, NEW user,
           NEW n \in Nat, op \in {"create", "destroy", "addUnits", "removeUnits"},
           op = "create" => user \in AppUser,
           Starts(r, op, name, user, n), UNCHANGED <<reserved, items, locked>>
    PROVE  QuotaInv'
<1>1. PICK p : p = IF op \in {"create", "addUnits"} THEN "forward" ELSE op
  OBVIOUS
<1>2. PICK q : q = [Apps!Idle EXCEPT !.op = op, !.name = name, !.user = user,
            !.n = n, !.at = 1, !.app = apps[name], !.phase = p]
  OBVIOUS
<1>3. q = [op |-> op, name |-> name, user |-> user, n |-> n, at |-> 1, phase |-> p,
           app |-> apps[name], token |-> None, prev |-> None, look |-> 0]
  BY <1>2 DEF Apps!Idle
<1>4. Form(q) /\ q.op = op /\ q.name = name /\ q.user = user /\ q.n = n /\ q.at = 1 /\ q.phase = p
  BY <1>3 DEF Form
<1>5. Asked(q) /\ q.phase # "reserving"
  BY <1>1, <1>4 DEF Asked
<1>6. req' = [req EXCEPT ![r] = q]
  BY <1>1, <1>2 DEF Starts
<1> QED
  BY <1>4, <1>5, <1>6, MovesTo, QuotaMoves, Nothing

LEMMA StillStep ==
    ASSUME QuotaAssumption, QuotaInv, UNCHANGED <<reserved, items, locked, req>> PROVE QuotaInv'
BY DEF QuotaInv, QuotaShapes, Looked, InLimit, Asked, Form, OwnerOf

LEMMA QuotaStep ==
    ASSUME QuotaAssumption, QuotaInv, [Apps!Next]_AppsVars PROVE QuotaInv'
<1>1. ASSUME NEW r \in Req, NEW n \in AppName, NEW u \in AppUser, Apps!Begin(r, "create", n, u, 0)
      PROVE  QuotaInv'
  <2>1. Starts(r, "create", n, u, 0) /\ UNCHANGED <<reserved, items, locked>>
    BY <1>1 DEF Apps!Begin, Starts
  <2> QED
    BY <2>1, BeginStep
<1>2. ASSUME NEW r \in Req, NEW n \in AppName, Apps!Begin(r, "destroy", n, None, 0)
      PROVE  QuotaInv'
  <2>1. Starts(r, "destroy", n, None, 0) /\ UNCHANGED <<reserved, items, locked>>
    BY <1>2 DEF Apps!Begin, Starts
  <2> QED
    BY <2>1, BeginStep
<1>3. ASSUME NEW r \in Req, NEW n \in AppName, NEW k \in 1 .. 2,
             Apps!Begin(r, "addUnits", n, None, k) \/ Apps!Begin(r, "removeUnits", n, None, k)
      PROVE  QuotaInv'
  <2>1. k \in Nat
    OBVIOUS
  <2>2. CASE Apps!Begin(r, "addUnits", n, None, k)
    <3>1. Starts(r, "addUnits", n, None, k) /\ UNCHANGED <<reserved, items, locked>>
      BY <2>2 DEF Apps!Begin, Starts
    <3> QED
      BY <2>1, <3>1, BeginStep
  <2>3. CASE Apps!Begin(r, "removeUnits", n, None, k)
    <3>1. Starts(r, "removeUnits", n, None, k) /\ UNCHANGED <<reserved, items, locked>>
      BY <2>3 DEF Apps!Begin, Starts
    <3> QED
      BY <2>1, <3>1, BeginStep
  <2> QED
    BY <1>3, <2>2, <2>3
<1>4. ASSUME \/ \E n \in AppName, x \in Slot : Apps!Deployed(n, x)
             \/ Apps!CollectRead \/ \E n \in AppName : Apps!CollectWrite(n)
             \/ UNCHANGED AppsVars
      PROVE  QuotaInv'
  BY <1>4, StillStep DEF Apps!Deployed, Apps!CollectRead, Apps!CollectWrite, AppsVars
<1> QED
  BY <1>1, <1>2, <1>3, <1>4, RequestStep DEF Apps!Next

LEMMA QuotaHolds == ASSUME QuotaAssumption, QuotaInv PROVE Apps!QuotaKept
<1>1. ASSUME NEW n \in AppName, items[n] # None PROVE Cardinality(items[n]) <= UnitLimit
  BY <1>1 DEF QuotaInv, InLimit, QuotaAssumption
<1> QED
  BY <1>1, AppsCount DEF QuotaInv, InLimit, Apps!QuotaKept
-----------------------------------------------------------------------------
(* Creation and destruction, one request at a time.                        *)
Document(d) == d = [owner |-> d.owner, token |-> d.token, units |-> d.units]
Reservation(x) == x = [user |-> x.user, app |-> x.app]
AppAssumption ==
    /\ QuotaAssumption
    /\ None \notin AppName \cup {"destroy", "removeUnits", "writeUnits", "releaseUnits"}
    /\ ~IsFiniteSet(None) /\ ~Document(None) /\ ~Reservation(None)
    /\ IsFiniteSet(Slot)

Filled(us) == us # <<>> /\ us \in Seq({us[i] : i \in DOMAIN us})

(* The first k actions of the creation of n by u have taken effect.        *)
Held(n, u, k) ==
    /\ \A v \in AppUser : n \in reserved[v] => v = u /\ k >= 1
    /\ (k >= 1 /\ UserLimit[u] # None) => n \in reserved[u]
    /\ items[n] # None => k >= 2
    /\ (k >= 2 /\ UnitLimit # None) => items[n] # None
    /\ IF k >= 3 THEN /\ apps[n] # None /\ Document(apps[n]) /\ apps[n].owner = u
                      /\ Filled(apps[n].units)
                 ELSE apps[n] = None
    /\ k >= 4 => apps[n].token \in tokens /\ apps[n].token[1] = n
    /\ \A t \in tokens : t[1] = n => k >= 4 /\ t = apps[n].token
    /\ n \in repos <=> k >= 5
    /\ n \in routes <=> k >= 6
    /\ running[n] # {} => k >= 6

(* The first k steps of the destruction of n, with the document d.         *)
Fallen(n, d, k) ==
    /\ apps[n] = d /\ d # None /\ d.owner \in AppUser /\ Filled(d.units)
    /\ d.token[1] = n
    /\ n \in repos => k < 1
    /\ n \in routes \/ running[n] # {} => k < 2
    /\ \A t \in tokens : t[1] = n => k < 3 /\ t = d.token
    /\ \A v \in AppUser : n \in reserved[v] => k < 4 /\ v = d.owner
    /\ items[n] # None => k < 5

Stands(n) == \E u \in AppUser : Held(n, u, 6)
Settled(n) == Held(n, None, 0) \/ Stands(n)

(* The results of the first k actions, as the shared actions keep them.    *)
Remembered(q, k) ==
    /\ k >= 1 => result["reserveUserApp"] = [user |-> q.user, app |-> q.name]
    /\ k >= 2 => result["createAppQuota"] = q.name
    /\ k >= 3 => result["insertApp"] = q.name
    /\ k >= 4 => q.token = apps[q.name].token
    /\ k >= 5 => result["createRepository"] = q.name
Creates(q) ==
    /\ q.user \in AppUser /\ q.at \in 1 .. 6
    /\ \/ /\ q.phase = "forward"
          /\ Held(q.name, q.user, q.at - 1) /\ Remembered(q, q.at - 1)
       \/ q.phase = "reserving" /\ q.at = 1 /\ q.prev = {q.name} /\ Held(q.name, q.user, 0)
       \/ q.phase = "back" /\ q.at <= 5 /\ Held(q.name, q.user, q.at) /\ Remembered(q, q.at)
Adds(q) ==
    /\ q.phase \in {"forward", "reserving", "back"} /\ q.at \in 1 .. 3 /\ Stands(q.name)
    /\ q.phase = "forward" /\ q.at = 3 => q.prev.units \subseteq Slot
RemovesUnits(q) ==
    /\ q.phase \in {"removeUnits", "writeUnits", "releaseUnits"} /\ Stands(q.name)
    /\ q.phase # "releaseUnits" => Filled(q.app.units)
    /\ q.phase = "removeUnits" => q.n \in Nat /\ q.n < Len(q.app.units)
Destroys(q) == q.phase = "destroy" /\ q.at \in 1 .. 6 /\ Fallen(q.name, q.app, q.at - 1)
Going(q) ==
    \/ q = Apps!Idle
    \/ /\ q.name \in AppName
       /\ \/ q.op = "create" /\ Creates(q)
          \/ q.op = "addUnits" /\ Adds(q)
          \/ q.op = "removeUnits" /\ RemovesUnits(q)
          \/ q.op = "destroy" /\ Destroys(q)
AppShapes ==
    /\ apps = [n \in AppName |-> apps[n]] /\ running = [n \in AppName |-> running[n]]
    /\ result = [a \in Apps!Actions |-> result[a]]
    /\ \A n \in AppName : running[n] \subseteq Slot
Rereads(n) ==
    /\ apps[n] # None /\ pass[n] # None /\ Document(pass[n]) /\ Filled(pass[n].units)
    /\ pass[n].owner = apps[n].owner /\ pass[n].token = apps[n].token
Passing == pass # None => DOMAIN pass \subseteq AppName /\ \A n \in DOMAIN pass : Rereads(n)
OneAtATime ==
    /\ \A q, r \in Req : req[q].op # None /\ req[r].op # None => q = r
    /\ pass # None => \A r \in Req : req[r].op = None
AppInv ==
    /\ QuotaInv /\ AppShapes /\ OneAtATime /\ Passing
    /\ \A r \in Req : Going(req[r])
    /\ \A n \in AppName : (\A r \in Req : req[r].name # n) => Settled(n)

LEMMA FilledIs == ASSUME NEW S, NEW us \in Seq(S), us # <<>> PROVE Filled(us)
BY DEF Filled

LEMMA FilledHas == ASSUME NEW us, Filled(us)
    PROVE /\ Len(us) \in Nat /\ Len(us) >= 1 /\ DOMAIN us = 1 .. Len(us)
BY DEF Filled

LEMMA FilledAppends == ASSUME NEW us, Filled(us), NEW x PROVE Filled(Append(us, x))
<1> DEFINE S == {us[i] : i \in DOMAIN us}
           T == S \cup {x}
<1>1. us \in Seq(T) /\ x \in T
  BY DEF Filled
<1> HIDE DEF T
<1>2. Append(us, x) \in Seq(T) /\ Len(Append(us, x)) = Len(us) + 1 /\ Len(us) \in Nat
  BY <1>1
<1>3. Append(us, x) # <<>>
  <2>1. Len(<<>>) = 0
    OBVIOUS
  <2> QED
    BY <1>2, <2>1
<1> QED  BY <1>2, <1>3, FilledIs

LEMMA FilledExcepts == ASSUME NEW us, Filled(us), NEW i, NEW x PROVE Filled([us EXCEPT ![i] = x])
<1> DEFINE S == {us[j] : j \in DOMAIN us}
           T == S \cup {x}
<1>1. us \in Seq(T) /\ x \in T /\ Len(us) \in Nat /\ Len(us) >= 1
  BY FilledHas DEF Filled
<1> HIDE DEF T
<1>2. PICK vs : vs = [us EXCEPT ![i] = x]
  OBVIOUS
<1>3. vs \in [1 .. Len(us) -> T]
  <2>1. us \in [1 .. Len(us) -> T]
    BY <1>1
  <2> QED
    BY <1>1, <1>2, <2>1
<1>4. vs \in Seq(T) /\ vs # <<>>
  BY <1>1, <1>3
<1> QED  BY <1>2, <1>4, FilledIs

LEMMA FilledJoins == ASSUME NEW us, Filled(us), NEW S, NEW vs \in Seq(S) PROVE Filled(us \o vs)
<1> DEFINE R == {us[j] : j \in DOMAIN us}
           T == R \cup S
<1>1. us \in Seq(T) /\ vs \in Seq(T) /\ us # <<>>
  BY DEF Filled
<1> HIDE DEF T
<1>2. us \o vs \in Seq(T) /\ us \o vs # <<>>
  BY <1>1
<1> QED  BY <1>2, FilledIs

LEMMA Listed == ASSUME NEW S, IsFiniteSet(S)
    PROVE /\ Cardinality(S) \in Nat /\ Apps!SetToSeq(S) \in [1 .. Cardinality(S) -> S]
          /\ Len(Apps!SetToSeq(S)) = Cardinality(S)
<1>1. Cardinality(S) \in Nat /\ ExistsBijection(1 .. Cardinality(S), S)
  BY FS_CardinalityType
<1>2. \E f \in [1 .. Cardinality(S) -> S] : Apps!IsInjective(f)
  <2>1. PICK f : f \in Injection(1 .. Cardinality(S), S)
    BY <1>1 DEF ExistsBijection, Bijection
  <2>2. f \in [1 .. Cardinality(S) -> S] /\ \A a, b \in DOMAIN f : f[a] = f[b] => a = b
    BY <2>1 DEF Injection, IsInjective
  <2> QED
    BY <2>2 DEF Apps!IsInjective
<1>3. Apps!SetToSeq(S) \in [1 .. Cardinality(S) -> S]
  BY <1>2, AppsCount DEF Apps!SetToSeq
<1> QED
  BY <1>1, <1>3

LEMMA NewSeq == ASSUME NEW us, NEW ids, IsFiniteSet(us) PROVE \E S : Apps!NewUnits(us, ids) \in Seq(S)
<1>1. PICK s : s = Apps!SetToSeq(us)
  OBVIOUS
<1>2. PICK d : d = Apps!SetToSortSeq(ids, <)
  OBVIOUS
<1>3. Len(s) \in Nat
  BY <1>1, Listed
<1>4. Apps!NewUnits(us, ids) = [i \in 1 .. Len(s) |-> [name |-> s[i], item |-> d[i], weight |-> 2]]
  BY <1>1, <1>2 DEF Apps!NewUnits
<1> DEFINE S == {[name |-> s[i], item |-> d[i], weight |-> 2] : i \in 1 .. Len(s)}
<1>5. Apps!NewUnits(us, ids) \in [1 .. Len(s) -> S]
  BY <1>4
<1> HIDE DEF S
<1>6. Apps!NewUnits(us, ids) \in Seq(S)
  BY <1>3, <1>5
<1> QED
  BY <1>6

LEMMA AddFills == ASSUME NEW us, Filled(us), NEW x, NEW w PROVE Filled(Apps!AddUnit(us, x, w))
BY FilledAppends, FilledExcepts DEF Apps!AddUnit

LEMMA CollectFills ==
    ASSUME NEW n, NEW w, Filled(apps[n].units), IsFiniteSet(running[n])
    PROVE  Filled(Apps!Collected(n, w))
<1>1. PICK s : s = Apps!SetToSeq(running[n])
  OBVIOUS
<1>2. Len(s) \in Nat
  BY <1>1, Listed
<1>3. PICK u0 : u0 = apps[n].units
  OBVIOUS
<1> DEFINE G(g, k) == g = [j \in 0 .. k |-> IF j = 0 THEN u0 ELSE Apps!AddUnit(g[j - 1], s[j], w)]
           Bad == {k \in Nat : ~\E g : G(g, k) /\ Filled(g[k])}
<1>4. Bad = {}
  <2> SUFFICES ASSUME Bad # {} PROVE FALSE
    OBVIOUS
  <2>1. PICK k \in Bad : \A y \in Bad : ~(<<y, k>> \in OpToRel(<, Nat))
    BY NatLessThanWellFounded, WFMin
  <2>2. k \in Nat /\ \A y \in Bad : ~(y < k)
    BY <2>1 DEF OpToRel
  <2>3. CASE k = 0
    <3>1. PICK g : g = [j \in 0 .. 0 |-> u0]
      OBVIOUS
    <3>2. G(g, 0) /\ Filled(g[0])
      BY <3>1, <1>3
    <3> QED
      BY <2>3, <3>2
  <2>4. CASE k # 0
    <3>0. k - 1 \in Nat /\ k - 1 < k
      BY <2>2, <2>4
    <3>1. PICK g : G(g, k - 1) /\ Filled(g[k - 1])
      <4> HIDE DEF G
      <4> QED
        BY <2>2, <3>0
    <3>2. PICK v : v = Apps!AddUnit(g[k - 1], s[k], w)
      OBVIOUS
    <3>3. PICK h : h = [j \in 0 .. k |-> IF j = k THEN v ELSE g[j]]
      OBVIOUS
    <3>4. Filled(h[k]) /\ h[k] = v /\ \A j \in 0 .. k - 1 : h[j] = g[j]
      BY <2>2, <3>1, <3>2, <3>3, AddFills
    <3>5. \A j \in 0 .. k : h[j] = IF j = 0 THEN u0 ELSE Apps!AddUnit(h[j - 1], s[j], w)
      <4>1. h[0] = u0
        BY <2>2, <2>4, <3>1, <3>4
      <4>2. ASSUME NEW j \in 1 .. k - 1 PROVE h[j] = Apps!AddUnit(h[j - 1], s[j], w)
        <5>1. g[j] = Apps!AddUnit(g[j - 1], s[j], w) /\ h[j] = g[j] /\ h[j - 1] = g[j - 1]
          BY <2>2, <3>1, <3>4
        <5> QED
          BY <5>1
      <4>3. h[k] = Apps!AddUnit(h[k - 1], s[k], w)
        BY <2>2, <2>4, <3>2, <3>4
      <4> QED
        BY <2>2, <4>1, <4>2, <4>3
    <3>6. G(h, k)
      BY <3>3, <3>5
    <3> QED
      BY <2>2, <3>4, <3>6
  <2> QED
    BY <2>3, <2>4
<1>5. \E g : G(g, Len(s)) /\ Filled(g[Len(s)])
  BY <1>2, <1>4
<1>6. ASSUME NEW f, NEW g, G(f, Len(s)), G(g, Len(s)) PROVE \A k \in 0 .. Len(s) : f[k] = g[k]
  <2> DEFINE Differ == {k \in 0 .. Len(s) : f[k] # g[k]}
  <2> SUFFICES ASSUME Differ # {} PROVE FALSE
    OBVIOUS
  <2>0. Differ \subseteq Nat
    OBVIOUS
  <2>1. PICK k \in Differ : \A y \in Differ : ~(<<y, k>> \in OpToRel(<, Nat))
    BY <2>0, NatLessThanWellFounded, WFMin
  <2>2. k \in 0 .. Len(s) /\ \A y \in Differ : ~(y < k)
    BY <2>0, <2>1 DEF OpToRel
  <2>3. k # 0 => f[k - 1] = g[k - 1]
    BY <1>2, <2>2
  <2>4. f[k] = g[k]
    BY <1>2, <1>6, <2>2, <2>3
  <2> QED
    BY <2>1, <2>4
<1>7. Apps!Collected(n, w) = (CHOOSE g : G(g, Len(s)))[Len(s)]
  BY <1>1, <1>3 DEF Apps!Collected
<1>8. PICK f : f = CHOOSE g : G(g, Len(s))
  OBVIOUS
<1>9. G(f, Len(s))
  BY <1>5, <1>8
<1>10. PICK g : G(g, Len(s)) /\ Filled(g[Len(s)])
  BY <1>5
<1>11. f[Len(s)] = g[Len(s)]
  <2> HIDE DEF G
  <2>1. Len(s) \in 0 .. Len(s)
    BY <1>2
  <2> QED
    BY <1>6, <1>9, <1>10, <2>1
<1>12. Apps!Collected(n, w) = f[Len(s)]
  BY <1>7, <1>8
<1> QED
  BY <1>10, <1>11, <1>12

(* A step for the application n leaves the others as they are.             *)
OthersStay(n) ==
    \A m \in AppName \ {n} :
        /\ apps'[m] = apps[m] /\ items'[m] = items[m] /\ running'[m] = running[m]
        /\ m \in repos' <=> m \in repos
        /\ m \in routes' <=> m \in routes
        /\ \A u \in AppUser : m \in reserved'[u] <=> m \in reserved[u]
        /\ \A t : t[1] = m => (t \in tokens' <=> t \in tokens)
(* The request r of n is done, or goes on.                                 *)
Onward(r, n) ==
    \/ req'[r] = Apps!Idle /\ Settled(n)'
    \/ req'[r].name = n /\ Going(req[r])'

LEMMA OthersSettled ==
    ASSUME NEW n, OthersStay(n), NEW m \in AppName, m # n, Settled(m) PROVE Settled(m)'
<1>1. ASSUME NEW u, NEW k, Held(m, u, k), u \in AppUser \/ k = 0 PROVE Held(m, u, k)'
  <2>1. /\ apps'[m] = apps[m] /\ items'[m] = items[m] /\ running'[m] = running[m]
        /\ m \in repos' <=> m \in repos
        /\ m \in routes' <=> m \in routes
        /\ \A v \in AppUser : m \in reserved'[v] <=> m \in reserved[v]
        /\ \A t : t[1] = m => (t \in tokens' <=> t \in tokens)
    BY DEF OthersStay
  <2>2. k >= 4 => apps'[m].token \in tokens' /\ apps'[m].token[1] = m
    <3> SUFFICES ASSUME k >= 4 PROVE apps'[m].token \in tokens' /\ apps'[m].token[1] = m
      OBVIOUS
    <3> QED
      BY <1>1, <2>1 DEF Held
  <2> QED
    BY <1>1, <2>1, <2>2 DEF Held
<1> QED
  BY <1>1 DEF Settled, Stands

LEMMA IdleIs == \A r : req[r] = Apps!Idle => req[r].op = None /\ req[r].name = None
BY DEF Apps!Idle

LEMMA GoingIs ==
    ASSUME AppAssumption, NEW q, Going(q)
    PROVE  /\ q = Apps!Idle <=> q.op = None
           /\ q.op # None => q.name \in AppName
           /\ q = Apps!Idle => q.name = None /\ q.phase = None /\ q.op = None
BY DEF Going, Apps!Idle, AppAssumption, QuotaAssumption, Creates, Adds, RemovesUnits, Destroys

LEMMA Continues ==
    ASSUME AppAssumption, AppInv, NEW r \in Req, NEW n \in AppName, req[r].op # None,
           n = req[r].name, Moved(r), QuotaInv', AppShapes', UNCHANGED pass, OthersStay(n),
           Onward(r, n)
    PROVE  AppInv'
<1>1. pass = None /\ \A j \in Req : j # r => req[j].op = None
  BY DEF AppInv, OneAtATime
<1>2. \A j \in Req : j # r => req[j] = Apps!Idle /\ req'[j] = Apps!Idle
  BY <1>1, GoingIs DEF AppInv, Moved, Others
<1>3. Apps!Idle.op = None /\ Apps!Idle.name = None
  BY DEF Apps!Idle
<1>4. OneAtATime'
  BY <1>1, <1>2, <1>3 DEF OneAtATime
<1>5. Passing'
  BY <1>1 DEF Passing
<1>6. Going(Apps!Idle)'
  BY DEF Going, Apps!Idle
<1>7. Going(req[r])'
  BY <1>6 DEF Onward
<1>8. \A j \in Req : Going(req[j])'
  BY <1>2, <1>6, <1>7
<1>9. ASSUME NEW m \in AppName, \A j \in Req : req'[j].name # m PROVE Settled(m)'
  <2>1. CASE m = n
    BY <1>9, <2>1 DEF Onward
  <2>2. CASE m # n
    <3>1. \A j \in Req : req[j].name # m
      BY <1>2, <1>3, <2>2 DEF AppAssumption
    <3> QED
      BY <2>2, <3>1, OthersSettled DEF AppInv
  <2> QED
    BY <2>1, <2>2
<1> QED
  BY <1>4, <1>5, <1>8, <1>9 DEF AppInv

LEMMA HeldNothing == ASSUME NEW n, NEW u, Held(n, u, 0) PROVE Held(n, None, 0) /\ Settled(n)
BY DEF Held, Settled

LEMMA ActionNames ==
    Apps!Actions = {"reserveUserApp", "createAppQuota", "insertApp", "exportEnvironments",
        "createRepository", "provisionApp", "reserveUnitsToAdd", "provisionAddUnits", "saveNewUnits"}
<1>1. Apps!Range(Apps!CreatePipeline) = {"reserveUserApp", "createAppQuota", "insertApp",
        "exportEnvironments", "createRepository", "provisionApp"}
  <2>1. DOMAIN Apps!CreatePipeline = 1 .. 6
    BY DEF Apps!CreatePipeline
  <2>2. 1 .. 6 = {1, 2, 3, 4, 5, 6}
    OBVIOUS
  <2> QED
    BY <2>1, <2>2 DEF Apps!Range, Apps!CreatePipeline
<1>2. Apps!Range(Apps!AddPipeline) = {"reserveUnitsToAdd", "provisionAddUnits", "saveNewUnits"}
  <2>1. DOMAIN Apps!AddPipeline = 1 .. 3
    BY DEF Apps!AddPipeline
  <2>2. 1 .. 3 = {1, 2, 3}
    OBVIOUS
  <2> QED
    BY <2>1, <2>2 DEF Apps!Range, Apps!AddPipeline
<1> QED
  BY <1>1, <1>2 DEF Apps!Actions

LEMMA WhichAction ==
    ASSUME NEW r \in Req, Asked(req[r]), NEW a, Apps!Runs(r, a)
    PROVE  /\ req[r].phase = "forward" /\ req[r].name \in AppName
           /\ a = "createAppQuota" => req[r].op = "create" /\ req[r].at = 2
           /\ a = "insertApp" => req[r].op = "create" /\ req[r].at = 3
           /\ a = "exportEnvironments" => req[r].op = "create" /\ req[r].at = 4
           /\ a = "createRepository" => req[r].op = "create" /\ req[r].at = 5
           /\ a = "provisionApp" => req[r].op = "create" /\ req[r].at = 6
           /\ a = "provisionAddUnits" => req[r].op = "addUnits" /\ req[r].at = 2
           /\ a = "saveNewUnits" => req[r].op = "addUnits" /\ req[r].at = 3
<1>1. req[r].phase = "forward" /\ req[r].name \in AppName /\ req[r].op \in {"create", "addUnits"}
      /\ Apps!PipelineOf(req[r].op)[req[r].at] = a
  BY DEF Apps!Runs, Asked
<1>2. CASE req[r].op = "create"
  <2>1. req[r].at \in 1 .. 6
    BY <1>1, <1>2 DEF Asked
  <2> QED
    BY <1>1, <1>2, <2>1, Pipes
<1>3. CASE req[r].op = "addUnits"
  <2>1. req[r].at \in 1 .. 3
    BY <1>1, <1>3 DEF Asked
  <2> QED
    BY <1>1, <1>3, <2>1, Pipes
<1> QED
  BY <1>1, <1>2, <1>3

(* A result is stored in the action; the results of the others stay.       *)
LEMMA Stored ==
    ASSUME AppShapes, NEW a \in Apps!Actions, NEW x, result' = [result EXCEPT ![a] = x]
    PROVE  /\ result' = [b \in Apps!Actions |-> result'[b]] /\ result'[a] = x
           /\ \A b \in Apps!Actions \ {a} : result'[b] = result[b]
BY DEF AppShapes

LEMMA CreatePipe ==
    /\ Apps!PipelineOf("create")[1] = "reserveUserApp"
    /\ Apps!PipelineOf("create")[2] = "createAppQuota"
    /\ Apps!PipelineOf("create")[3] = "insertApp"
    /\ Apps!PipelineOf("create")[4] = "exportEnvironments"
    /\ Apps!PipelineOf("create")[5] = "createRepository"
    /\ Apps!PipelineOf("create")[6] = "provisionApp"
    /\ \A i \in 1 .. 6 : Apps!PipelineOf("create")[i] \in Apps!Actions
    /\ \A i \in 1 .. 3 : Apps!PipelineOf("addUnits")[i] \in Apps!Actions
BY Pipes, ActionNames

LEMMA Advances ==
    ASSUME AppAssumption, AppInv, NEW r \in Req, NEW n \in AppName, NEW k, NEW res,
           req[r].op = "create", req[r].phase = "forward", n = req[r].name, k = req[r].at,
           k # 4, Apps!Completes(r, res), Held(n, req[r].user, k - 1),
           res = IF k = 1 THEN [user |-> req[r].user, app |-> n] ELSE n,
           k >= 5 => apps'[n].token = apps[n].token,
           \A u : u = req[r].user => Held(n, u, k)'
    PROVE  Onward(r, n)
<1>1. Creates(req[r]) /\ Asked(req[r])
  BY DEF AppInv, Going, QuotaInv, QuotaShapes, Apps!Idle
<1>2. k \in 1 .. 6 /\ Remembered(req[r], k - 1) /\ req[r].user \in AppUser
  BY <1>1, AppAssumption DEF Creates, AppAssumption, QuotaAssumption
<1>3. PICK u : u = req[r].user
  OBVIOUS
<1>4. Held(n, u, k)'
  BY <1>3
<1>5. CASE k = 6
  <2>1. req'[r] = Apps!Idle
    <3>1. req[r].at = Len(Apps!PipelineOf(req[r].op))
      BY <1>5, Pipes
    <3> QED
      BY <3>1, AppCompletes DEF AppInv, AppAssumption
  <2>2. Stands(n)'
    BY <1>2, <1>3, <1>4, <1>5 DEF Stands
  <2> QED
    BY <2>1, <2>2 DEF Onward, Settled
<1>6. CASE k # 6
  <2>1. /\ req'[r].op = "create" /\ req'[r].name = n /\ req'[r].user = u /\ req'[r].at = k + 1
        /\ req'[r].phase = "forward" /\ req'[r].token = req[r].token
    BY <1>3, <1>6, AppCompletes, Pipes DEF AppInv, AppAssumption
  <2>2. result' = [result EXCEPT ![Apps!PipelineOf("create")[k]] = res]
    BY DEF Apps!Completes
  <2>3. Remembered(req[r], k)'
    <3>1. PICK a : a = Apps!PipelineOf("create")[k]
      OBVIOUS
    <3>2. a \in Apps!Actions
      BY <1>2, <3>1, CreatePipe
    <3>3. result'[a] = res /\ \A b \in Apps!Actions : b # a => result'[b] = result[b]
      BY <2>2, <3>1, <3>2, Stored DEF AppInv
    <3>4. CASE k = 1
      BY <1>3, <2>1, <3>1, <3>3, <3>4, CreatePipe DEF Remembered
    <3>5. CASE k = 2
      BY <1>2, <1>3, <2>1, <3>1, <3>3, <3>5, CreatePipe, ActionNames DEF Remembered
    <3>6. CASE k = 3
      BY <1>2, <1>3, <2>1, <3>1, <3>3, <3>6, CreatePipe, ActionNames DEF Remembered
    <3>7. CASE k = 5
      BY <1>2, <1>3, <2>1, <3>1, <3>3, <3>7, CreatePipe, ActionNames DEF Remembered
    <3> QED
      BY <1>2, <1>6, <3>4, <3>5, <3>6, <3>7
  <2>4. Creates(req[r])'
    BY <1>2, <1>3, <1>4, <1>6, <2>1, <2>3 DEF Creates
  <2> QED
    BY <2>1, <2>4 DEF Onward, Going
<1> QED
  BY <1>5, <1>6

LEMMA Retreats ==
    ASSUME AppAssumption, AppInv, NEW r \in Req, NEW n \in AppName, NEW k, NEW res,
           req[r].op = "create", req[r].phase \in {"forward", "reserving"}, n = req[r].name,
           k = req[r].at, Apps!Fails(r, res), UNCHANGED apps,
           \A u : u = req[r].user => Held(n, u, k - 1)'
    PROVE  Onward(r, n)
<1>1. Creates(req[r]) /\ Asked(req[r])
  BY DEF AppInv, Going, QuotaInv, QuotaShapes, Apps!Idle
<1>2. k \in 1 .. 6 /\ req[r].user \in AppUser
      /\ (req[r].phase = "forward" => Remembered(req[r], k - 1))
      /\ (req[r].phase = "reserving" => k = 1)
  BY <1>1 DEF Creates, AppAssumption, QuotaAssumption
<1>3. PICK u : u = req[r].user
  OBVIOUS
<1>4. Held(n, u, k - 1)'
  BY <1>3
<1>5. CASE k = 1
  <2>1. req'[r] = Apps!Idle
    BY <1>5, AppFails DEF AppInv, AppAssumption
  <2>2. Settled(n)'
    BY <1>4, <1>5 DEF Held, Settled
  <2> QED
    BY <2>1, <2>2 DEF Onward
<1>6. CASE k # 1
  <2>1. /\ req'[r].op = "create" /\ req'[r].name = n /\ req'[r].user = u /\ req'[r].at = k - 1
        /\ req'[r].phase = "back" /\ req'[r].token = req[r].token
    BY <1>3, <1>6, AppFails DEF AppInv, AppAssumption
  <2>2. result' = [result EXCEPT ![Apps!PipelineOf("create")[k]] = res]
    BY DEF Apps!Fails
  <2>3. Remembered(req[r], k - 1) /\ k \in 2 .. 6
    BY <1>2, <1>6
  <2>4. Remembered(req[r], k - 1)'
    <3>1. PICK a : a = Apps!PipelineOf("create")[k]
      OBVIOUS
    <3>2. a \in Apps!Actions
      BY <1>2, <3>1, CreatePipe
    <3>3. \A b \in Apps!Actions : b # a => result'[b] = result[b]
      BY <2>2, <3>1, <3>2, Stored DEF AppInv
    <3>4. CASE k = 2
      BY <1>3, <2>1, <2>3, <3>1, <3>3, <3>4, CreatePipe, ActionNames DEF Remembered
    <3>5. CASE k = 3
      BY <1>3, <2>1, <2>3, <3>1, <3>3, <3>5, CreatePipe, ActionNames DEF Remembered
    <3>6. CASE k = 4
      BY <1>3, <2>1, <2>3, <3>1, <3>3, <3>6, CreatePipe, ActionNames DEF Remembered
    <3>7. CASE k = 5
      BY <1>3, <2>1, <2>3, <3>1, <3>3, <3>7, CreatePipe, ActionNames DEF Remembered
    <3>8. CASE k = 6
      BY <1>3, <2>1, <2>3, <3>1, <3>3, <3>8, CreatePipe, ActionNames DEF Remembered
    <3> QED
      BY <2>3, <3>4, <3>5, <3>6, <3>7, <3>8
  <2>5. Creates(req[r])'
    BY <1>2, <1>3, <1>4, <1>6, <2>1, <2>4 DEF Creates
  <2> QED
    BY <2>1, <2>5 DEF Onward, Going
<1> QED
  BY <1>5, <1>6

(* What the shapes are after a step that stores a result.                  *)
LEMMA ShapesStay ==
    ASSUME AppInv, NEW a \in Apps!Actions, NEW x, result' = [result EXCEPT ![a] = x],
           apps' = [m \in AppName |-> apps'[m]], running' = [m \in AppName |-> running'[m]],
           \A m \in AppName : running'[m] \subseteq Slot
    PROVE  AppShapes'
BY Stored DEF AppInv, AppShapes

LEMMA Creating ==
    ASSUME AppAssumption, AppInv, NEW r \in Req, req[r].op = "create"
    PROVE  /\ Creates(req[r]) /\ Asked(req[r]) /\ req[r].name \in AppName /\ req[r].user \in AppUser
           /\ req[r].at \in 1 .. 6
           /\ req[r].phase = "forward" =>
                 /\ Held(req[r].name, req[r].user, req[r].at - 1)
                 /\ Remembered(req[r], req[r].at - 1)
           /\ req[r].phase = "reserving" =>
                 /\ req[r].at = 1 /\ req[r].prev = {req[r].name}
                 /\ Held(req[r].name, req[r].user, 0)
<1>1. Creates(req[r]) /\ Asked(req[r]) /\ req[r].name \in AppName
  BY DEF AppInv, Going, QuotaInv, QuotaShapes, Apps!Idle, AppAssumption, QuotaAssumption
<1> QED
  BY <1>1 DEF Creates

LEMMA InsertKeeps ==
    ASSUME AppAssumption, AppInv, QuotaInv', NEW r \in Req, Apps!InsertApp(r) PROVE AppInv'
<1>1. /\ req[r].phase = "forward" /\ req[r].op = "create" /\ req[r].at = 3
      /\ pass' = pass
  BY WhichAction DEF Apps!InsertApp, AppInv, QuotaInv, QuotaShapes
<1>2. PICK n \in AppName : n = req[r].name
  BY <1>1, Creating
<1>3. PICK u : u = req[r].user
  OBVIOUS
<1>4. Held(n, u, 2) /\ u \in AppUser
  BY <1>1, <1>2, <1>3, Creating
<1>5. apps[n] = None
  BY <1>4 DEF Held
<1>6. /\ apps' = [apps EXCEPT ![n] = [owner |-> u, token |-> None, units |-> <<Apps!Placeholder>>]]
      /\ Apps!Completes(r, n)
      /\ UNCHANGED <<reserved, items, tokens, repos, routes, running, pass>>
  BY <1>2, <1>3, <1>5 DEF Apps!InsertApp
<1>7. apps' = [m \in AppName |-> apps'[m]] /\ \A m \in AppName \ {n} : apps'[m] = apps[m]
  BY <1>6 DEF AppInv, AppShapes
<1>8. PICK d : d = [owner |-> u, token |-> None, units |-> <<Apps!Placeholder>>]
  OBVIOUS
<1>9. Document(d) /\ d # None /\ d.owner = u /\ Filled(d.units)
  <2>1. <<Apps!Placeholder>> \in Seq({Apps!Placeholder}) /\ <<Apps!Placeholder>> # <<>>
    OBVIOUS
  <2>2. Filled(<<Apps!Placeholder>>)
    BY <2>1, FilledIs
  <2> QED
    BY <1>8, <2>2 DEF Document, AppAssumption
<1>10. apps'[n] = d
  BY <1>6, <1>8 DEF AppInv, AppShapes
<1>11. Held(n, u, 3)'
  BY <1>4, <1>6, <1>9, <1>10 DEF Held
<1>12. Onward(r, n)
  BY <1>1, <1>2, <1>3, <1>4, <1>6, <1>11, Advances
<1>13. OthersStay(n)
  BY <1>6, <1>7 DEF OthersStay
<1>14. AppShapes'
  <2>1. result' = [result EXCEPT !["insertApp"] = n]
    BY <1>1, <1>6, CreatePipe DEF Apps!Completes
  <2> QED
    BY <1>6, <1>7, <2>1, ShapesStay, ActionNames DEF AppInv, AppShapes
<1>15. Moved(r)
  BY <1>1, <1>6, AppCompletes DEF AppInv, AppAssumption
<1> QED
  BY <1>1, <1>2, <1>12, <1>13, <1>14, <1>15, Continues DEF AppAssumption, QuotaAssumption

LEMMA MovedIs == ASSUME QuotaInv', NEW r \in Req, Others(r) PROVE Moved(r)
BY DEF QuotaInv, QuotaShapes, Moved

LEMMA ReserveMoves ==
    ASSUME QuotaInv, QuotaInv', NEW r \in Req, Apps!Reserve(r)
    PROVE  /\ Moved(r) /\ req'[r].op = req[r].op /\ req'[r].name = req[r].name
           /\ req'[r].user = req[r].user /\ req'[r].at = req[r].at /\ req'[r].phase = "reserving"
           /\ req[r].op = "create" => req'[r].prev = {req[r].name}
<1>1. PICK p, l : /\ req' = [req EXCEPT ![r].phase = "reserving", ![r].look = l, ![r].prev = p]
                  /\ req[r].op = "create" => p = {req[r].name}
  BY DEF Apps!Reserve
<1>2. PICK q : q = [req[r] EXCEPT !.phase = "reserving", !.look = l, !.prev = p]
  OBVIOUS
<1>3. Form(req[r]) /\ req = [j \in Req |-> req[j]]
  BY DEF QuotaInv, QuotaShapes
<1>4. req' = [req EXCEPT ![r] = q]
  BY <1>1, <1>2, <1>3
<1>5. q = [op |-> req[r].op, name |-> req[r].name, user |-> req[r].user, n |-> req[r].n,
           at |-> req[r].at, phase |-> "reserving", app |-> req[r].app,
           token |-> req[r].token, prev |-> p, look |-> l]
  BY <1>2, <1>3 DEF Form
<1>6. req'[r] = q /\ Others(r)
  BY <1>3, <1>4 DEF Others
<1>7. q.op = req[r].op /\ q.name = req[r].name /\ q.user = req[r].user /\ q.at = req[r].at
      /\ q.phase = "reserving" /\ q.prev = p
  BY <1>5
<1>8. Moved(r)
  BY <1>6, MovedIs
<1> QED
  BY <1>1, <1>6, <1>7, <1>8

LEMMA AddingUnits ==
    ASSUME AppAssumption, AppInv, NEW r \in Req, req[r].op = "addUnits"
    PROVE  Adds(req[r]) /\ Asked(req[r]) /\ req[r].name \in AppName /\ Stands(req[r].name)
<1>1. Adds(req[r]) /\ Asked(req[r]) /\ req[r].name \in AppName
  BY DEF AppInv, Going, QuotaInv, QuotaShapes, Apps!Idle, AppAssumption, QuotaAssumption
<1> QED
  BY <1>1 DEF Adds

LEMMA Asks ==
    ASSUME AppAssumption, AppInv, NEW r \in Req, req[r].phase \in {"forward", "reserving"}
    PROVE  /\ req[r].op \in {"create", "addUnits"} /\ req[r].op # None /\ req[r].name \in AppName
           /\ Asked(req[r])
BY DEF AppInv, QuotaInv, QuotaShapes, Asked, AppAssumption, QuotaAssumption

LEMMA ReserveKeeps ==
    ASSUME AppAssumption, AppInv, QuotaInv', NEW r \in Req, Apps!Reserve(r) PROVE AppInv'
<1>1. /\ req[r].phase = "forward" /\ Apps!Reserving(r)
      /\ UNCHANGED <<apps, reserved, items, tokens, repos, routes, running, result, pass>>
  BY DEF Apps!Reserve, Apps!Reserving
<1>2. req[r].op \in {"create", "addUnits"} /\ req[r].op # None /\ Asked(req[r])
  BY <1>1, Asks
<1>3. PICK n \in AppName : n = req[r].name
  BY <1>1, Asks
<1>4. req[r].at = 1
  BY <1>1, <1>2, ReservesFirst
<1>5. /\ Moved(r) /\ req'[r].op = req[r].op /\ req'[r].name = n /\ req'[r].user = req[r].user
      /\ req'[r].at = 1 /\ req'[r].phase = "reserving"
      /\ req[r].op = "create" => req'[r].prev = {n}
  BY <1>3, <1>4, ReserveMoves DEF AppInv
<1>6. Going(req[r])'
  <2>1. CASE req[r].op = "create"
    <3>1. PICK u : u = req[r].user
      OBVIOUS
    <3>2. Held(n, u, 0) /\ u \in AppUser
      BY <1>1, <1>3, <1>4, <2>1, <3>1, Creating
    <3>3. Held(n, u, 0)'
      BY <1>1, <3>2 DEF Held
    <3>4. Creates(req[r])'
      BY <1>5, <2>1, <3>1, <3>2, <3>3 DEF Creates
    <3> QED
      BY <1>5, <2>1, <3>4 DEF Going
  <2>2. CASE req[r].op = "addUnits"
    <3>1. Stands(n)
      BY <1>3, <2>2, AddingUnits
    <3>2. Stands(n)'
      BY <1>1, <3>1 DEF Stands, Held
    <3>3. Adds(req[r])'
      BY <1>5, <3>2 DEF Adds
    <3> QED
      BY <1>5, <2>2, <3>3 DEF Going
  <2> QED
    BY <1>2, <2>1, <2>2
<1>7. OthersStay(n) /\ AppShapes'
  BY <1>1 DEF OthersStay, AppInv, AppShapes
<1> QED
  BY <1>1, <1>2, <1>3, <1>5, <1>6, <1>7, Continues DEF Onward

(* An application goes on to stand whatever its units are.                 *)
LEMMA StandsOn ==
    ASSUME NEW n \in AppName, Stands(n), apps'[n] # None, Document(apps'[n]), apps'[n].owner = apps[n].owner,
           apps'[n].token = apps[n].token, Filled(apps'[n].units),
           items[n] # None => items'[n] # None, UNCHANGED <<reserved, tokens, repos, routes>>
    PROVE  Stands(n)'
BY DEF Stands, Held

LEMMA AddsOn ==
    ASSUME AppAssumption, AppInv, NEW r \in Req, NEW n \in AppName, req[r].op = "addUnits",
           n = req[r].name, Stands(n)',
           req'[r] = Apps!Idle \/ /\ req'[r].op = "addUnits" /\ req'[r].name = n
                                  /\ req'[r].phase \in {"forward", "reserving", "back"}
                                  /\ req'[r].at \in 1 .. 3
                                  /\ req'[r].phase = "forward" /\ req'[r].at = 3
                                        => req'[r].prev.units \subseteq Slot
    PROVE  Onward(r, n)
BY DEF Onward, Going, Adds, Settled

LEMMA UpdateKeeps ==
    ASSUME AppAssumption, AppInv, QuotaInv', NEW r \in Req, Apps!UpdateQuota(r) PROVE AppInv'
<1>1. /\ req[r].phase = "reserving" /\ UNCHANGED <<apps, tokens, repos, routes, running, pass>>
  BY DEF Apps!UpdateQuota
<1>2. req[r].op \in {"create", "addUnits"} /\ req[r].op # None /\ Asked(req[r])
  BY <1>1, Asks
<1>3. PICK n \in AppName : n = req[r].name
  BY <1>1, Asks
<1>4. /\ req[r].at = 1 /\ Apps!Owner(r) = OwnerOf(req[r]) /\ IsFiniteSet(req[r].prev)
  BY <1>1, OwnLock DEF AppInv, AppAssumption
<1>5. PICK a, x : a \in Apps!Actions /\ result' = [result EXCEPT ![a] = x]
                  /\ a = Apps!PipelineOf(req[r].op)[1]
  <2>1. Apps!PipelineOf(req[r].op)[1] \in Apps!Actions
    BY <1>2, CreatePipe
  <2> QED
    BY <1>4, <2>1 DEF Apps!UpdateQuota, Apps!Fails
<1>6. AppShapes'
  BY <1>1, <1>5, ShapesStay DEF AppInv, AppShapes
<1>7. CASE Apps!Fails(r, None) /\ UNCHANGED <<reserved, items>>
  <2>1. Moved(r) /\ req'[r] = Apps!Idle
    BY <1>4, <1>7, AppFails DEF AppInv, AppAssumption
  <2>2. OthersStay(n)
    BY <1>1, <1>7 DEF OthersStay
  <2>3. Onward(r, n)
    <3>1. CASE req[r].op = "create"
      <4>1. ASSUME NEW u, u = req[r].user PROVE Held(n, u, 0)'
        <5>1. Held(n, u, 0)
          BY <1>1, <1>3, <3>1, <4>1, Creating
        <5> QED
          BY <1>1, <1>7, <5>1 DEF Held
      <4>2. Settled(n)'
        BY <4>1 DEF Held, Settled
      <4> QED
        BY <2>1, <4>2 DEF Onward
    <3>2. CASE req[r].op = "addUnits"
      <4>1. Stands(n)
        BY <1>3, <3>2, AddingUnits
      <4>2. Stands(n)'
        BY <1>1, <1>7, <4>1 DEF Stands, Held
      <4> QED
        BY <2>1, <4>2 DEF Onward, Settled
    <3> QED
      BY <1>2, <3>1, <3>2
  <2> QED
    BY <1>1, <1>2, <1>3, <1>6, <2>1, <2>2, <2>3, Continues
<1>8. CASE /\ Apps!HasQuota(OwnerOf(req[r]))
           /\ IF OwnerOf(req[r]) \in AppUser
              THEN /\ reserved' = [reserved EXCEPT ![OwnerOf(req[r])] = @ \cup req[r].prev]
                   /\ UNCHANGED items
              ELSE /\ items' = [items EXCEPT ![OwnerOf(req[r])] = @ \cup req[r].prev]
                   /\ UNCHANGED reserved
           /\ result' = [result EXCEPT ![Apps!PipelineOf(req[r].op)[1]] = Apps!Reserved(r)]
           /\ req' = [req EXCEPT ![r].phase = "forward", ![r].at = 2, ![r].look = 0]
  <2>1. /\ Moved(r) /\ req'[r].op = req[r].op /\ req'[r].name = n /\ req'[r].user = req[r].user
        /\ req'[r].at = 2 /\ req'[r].phase = "forward"
    <3>1. PICK q : q = [req[r] EXCEPT !.phase = "forward", !.at = 2, !.look = 0]
      OBVIOUS
    <3>2. Form(req[r]) /\ req = [j \in Req |-> req[j]]
      BY DEF AppInv, QuotaInv, QuotaShapes
    <3>3. q = [op |-> req[r].op, name |-> req[r].name, user |-> req[r].user, n |-> req[r].n,
               at |-> 2, phase |-> "forward", app |-> req[r].app,
               token |-> req[r].token, prev |-> req[r].prev, look |-> 0]
      BY <3>1, <3>2 DEF Form
    <3>4. req'[r] = q /\ Others(r)
      BY <1>8, <3>1, <3>2 DEF Others
    <3> QED
      BY <1>3, <3>3, <3>4, MovedIs
  <2>2. CASE req[r].op = "create"
    <3>1. PICK u \in AppUser : u = req[r].user
      BY <2>2, Creating
    <3>2. Held(n, u, 0) /\ req[r].prev = {n} /\ OwnerOf(req[r]) = u
      BY <1>1, <1>3, <2>2, <3>1, Creating DEF OwnerOf
    <3>3. /\ reserved' = [reserved EXCEPT ![u] = @ \cup {n}] /\ UNCHANGED items
          /\ reserved = [v \in AppUser |-> reserved[v]]
      BY <1>8, <3>1, <3>2 DEF AppInv, QuotaInv, QuotaShapes
    <3>4. Held(n, u, 1)'
      BY <1>1, <3>2, <3>3 DEF Held
    <3>5. Remembered(req[r], 1)'
      <4>1. result'["reserveUserApp"] = [user |-> u, app |-> n]
        <5>1. PICK y : y = Apps!Reserved(r)
          OBVIOUS
        <5>2. y = [user |-> u, app |-> n]
          BY <1>3, <2>2, <3>1, <5>1 DEF Apps!Reserved
        <5>3. a = "reserveUserApp" /\ result' = [result EXCEPT ![a] = y]
          BY <1>5, <1>8, <2>2, <5>1, CreatePipe
        <5>4. result'[a] = y
          BY <1>5, <5>3, Stored DEF AppInv
        <5> QED
          BY <5>2, <5>3, <5>4
      <4> QED
        BY <2>1, <3>1, <4>1 DEF Remembered
    <3>6. Creates(req[r])'
      BY <2>1, <3>1, <3>4, <3>5 DEF Creates
    <3>7. Onward(r, n)
      BY <2>1, <2>2, <3>6 DEF Onward, Going
    <3>8. OthersStay(n)
      BY <1>1, <3>3 DEF OthersStay
    <3> QED
      BY <1>1, <1>2, <1>3, <1>6, <2>1, <3>7, <3>8, Continues
  <2>3. CASE req[r].op = "addUnits"
    <3>1. Stands(n) /\ OwnerOf(req[r]) = n /\ n \notin AppUser
      BY <1>3, <2>3, AddingUnits, AppAssumption DEF OwnerOf, AppAssumption, QuotaAssumption
    <3>2. /\ items' = [items EXCEPT ![n] = @ \cup req[r].prev] /\ UNCHANGED reserved
          /\ items = [m \in AppName |-> items[m]] /\ items[n] # None
      BY <1>8, <3>1 DEF AppInv, QuotaInv, QuotaShapes, Apps!HasQuota
    <3>3. items'[n] # None
      <4>1. IsFiniteSet(items[n])
        BY <3>2 DEF AppInv, QuotaInv, InLimit
      <4>2. IsFiniteSet(items[n] \cup req[r].prev)
        BY <1>4, <4>1, FS_Union
      <4> QED
        BY <3>2, <4>2 DEF AppAssumption
    <3>4. Stands(n)'
      BY <1>1, <3>1, <3>2, <3>3 DEF Stands, Held
    <3>5. Onward(r, n)
      BY <1>3, <2>1, <2>3, <3>4, AddsOn
    <3>6. OthersStay(n)
      BY <1>1, <3>2 DEF OthersStay
    <3> QED
      BY <1>1, <1>2, <1>3, <1>6, <2>1, <3>5, <3>6, Continues
  <2> QED
    BY <1>2, <2>2, <2>3
<1> QED
  BY <1>4, <1>7, <1>8 DEF Apps!UpdateQuota

LEMMA ActionKeeps ==
    ASSUME AppAssumption, AppInv, QuotaInv', NEW r \in Req, NEW n \in AppName, n = req[r].name,
           req[r].phase = "forward", UNCHANGED pass, OthersStay(n), Onward(r, n),
           apps' = [m \in AppName |-> apps'[m]], running' = [m \in AppName |-> running'[m]],
           running'[n] \subseteq Slot,
           (\E x : Apps!Completes(r, x)) \/ (\E x : Apps!Fails(r, x))
    PROVE  AppInv'
<1>1. req[r].op \in {"create", "addUnits"} /\ req[r].op # None /\ Asked(req[r])
  BY Asks
<1>2. PICK a : a = Apps!PipelineOf(req[r].op)[req[r].at]
  OBVIOUS
<1>3. a \in Apps!Actions
  <2>1. req[r].op = "create" => req[r].at \in 1 .. 6
    BY <1>1 DEF Asked
  <2>2. req[r].op = "addUnits" => req[r].at \in 1 .. 3
    BY <1>1, Zenon DEF Asked
  <2> QED
    BY <1>1, <1>2, <2>1, <2>2, CreatePipe, Zenon
<1>4. \E x : result' = [result EXCEPT ![a] = x]
  BY <1>2, Zenon DEF Apps!Completes, Apps!Fails
<1>5. \A m \in AppName : running'[m] \subseteq Slot
  BY DEF OthersStay, AppInv, AppShapes
<1>6. AppShapes'
  BY <1>3, <1>4, <1>5, ShapesStay
<1>7. Moved(r)
  BY AppCompletes, AppFails DEF AppInv, AppAssumption
<1> QED
  BY <1>1, <1>6, <1>7, Continues

LEMMA UnlimitedKeeps ==
    ASSUME AppAssumption, AppInv, QuotaInv', NEW r \in Req, Apps!Unlimited(r) PROVE AppInv'
<1>1. /\ req[r].phase = "forward" /\ Apps!Reserving(r)
      /\ UNCHANGED <<apps, reserved, items, tokens, repos, routes, running, pass>>
  BY DEF Apps!Unlimited, Apps!Reserving
<1>2. req[r].op \in {"create", "addUnits"} /\ req[r].op # None /\ Asked(req[r])
  BY <1>1, Asks
<1>3. PICK n \in AppName : n = req[r].name
  BY <1>1, Asks
<1>4. req[r].at = 1
  BY <1>1, <1>2, ReservesFirst
<1>5. OthersStay(n)
  BY <1>1 DEF OthersStay
<1>6. (\E x : Apps!Completes(r, x)) \/ (\E x : Apps!Fails(r, x))
  BY DEF Apps!Unlimited
<1>7. Onward(r, n)
  <2>1. CASE req[r].op = "create"
    <3>1. PICK u \in AppUser : u = req[r].user
      BY <2>1, Creating
    <3>2. Held(n, u, 0) /\ OwnerOf(req[r]) = u
      BY <1>1, <1>3, <1>4, <2>1, <3>1, Creating DEF OwnerOf
    <3>3. Apps!Owner(r) = u
      BY <1>1, <1>2, <1>4, <3>2, AppOwner
    <3>4. PICK x : x = [user |-> req[r].user, app |-> n]
      OBVIOUS
    <3>5. UserLimit[u] = None /\ Apps!Completes(r, x)
      BY <1>3, <2>1, <3>1, <3>3, <3>4 DEF Apps!Unlimited, Apps!HasQuota, Apps!Reserved
    <3>6. Held(n, u, 1)'
      BY <1>1, <3>2, <3>5 DEF Held
    <3>7. Held(n, req[r].user, 1 - 1)
      BY <3>1, <3>2
    <3>8. \A v : v = req[r].user => Held(n, v, 1)'
      BY <3>1, <3>6
    <3> QED
      BY <1>1, <1>3, <1>4, <2>1, <3>4, <3>5, <3>7, <3>8, Advances
  <2>2. CASE req[r].op = "addUnits"
    <3>1. Stands(n)
      BY <1>3, <2>2, AddingUnits
    <3>2. Stands(n)'
      BY <1>1, <3>1 DEF Stands, Held
    <3>3. \/ req'[r] = Apps!Idle
          \/ /\ req'[r].op = "addUnits" /\ req'[r].name = n /\ req'[r].phase = "forward"
             /\ req'[r].at = 2
      BY <1>1, <1>3, <1>4, <1>6, <2>2, AppCompletes, AppFails, Pipes DEF AppInv, AppAssumption
    <3> QED
      BY <1>3, <2>2, <3>2, <3>3, AddsOn
  <2> QED
    BY <1>2, <2>1, <2>2
<1> QED
  BY <1>1, <1>3, <1>5, <1>6, <1>7, ActionKeeps DEF AppInv, AppShapes

LEMMA CreateQuotaKeeps ==
    ASSUME AppAssumption, AppInv, QuotaInv', NEW r \in Req, Apps!CreateAppQuota(r) PROVE AppInv'
<1>1. /\ req[r].phase = "forward" /\ req[r].op = "create" /\ req[r].at = 2
      /\ UNCHANGED <<apps, reserved, tokens, repos, routes, running, pass>>
  BY WhichAction DEF Apps!CreateAppQuota, AppInv, QuotaInv, QuotaShapes
<1>2. PICK n \in AppName : n = req[r].name
  BY <1>1, Creating
<1>3. PICK u \in AppUser : u = req[r].user
  BY <1>1, Creating
<1>4. Held(n, u, 1)
  BY <1>1, <1>2, <1>3, Creating
<1>5. items[n] = None
  BY <1>4 DEF Held
<1>6. CASE UnitLimit = 0 /\ Apps!Fails(r, None) /\ UNCHANGED items
  <2>1. Held(n, u, 1)'
    BY <1>1, <1>4, <1>6 DEF Held
  <2>2. Onward(r, n)
    BY <1>1, <1>2, <1>3, <1>6, <2>1, Retreats
  <2>3. OthersStay(n)
    BY <1>1, <1>6 DEF OthersStay
  <2> QED
    BY <1>1, <1>2, <1>6, <2>2, <2>3, ActionKeeps DEF AppInv, AppShapes
<1>7. CASE UnitLimit # 0 /\ Apps!Completes(r, n)
           /\ items' = [items EXCEPT ![n] = IF UnitLimit = None THEN None ELSE {0}]
  <2>1. /\ items'[n] = IF UnitLimit = None THEN None ELSE {0}
        /\ \A m \in AppName \ {n} : items'[m] = items[m]
    BY <1>7 DEF AppInv, QuotaInv, QuotaShapes
  <2>2. {0} # None
    <3>1. IsFiniteSet({0})
      BY FS_Singleton
    <3> QED
      BY <3>1 DEF AppAssumption
  <2>3. Held(n, u, 2)'
    BY <1>1, <1>4, <2>1, <2>2 DEF Held
  <2>4. Held(n, req[r].user, 2 - 1) /\ \A v : v = req[r].user => Held(n, v, 2)'
    BY <1>3, <1>4, <2>3
  <2>5. Onward(r, n)
    BY <1>1, <1>2, <1>7, <2>4, Advances
  <2>6. OthersStay(n)
    BY <1>1, <2>1 DEF OthersStay
  <2> QED
    BY <1>1, <1>2, <1>7, <2>5, <2>6, ActionKeeps DEF AppInv, AppShapes
<1> QED
  BY <1>2, <1>5, <1>6, <1>7 DEF Apps!CreateAppQuota

LEMMA RepositoryKeeps ==
    ASSUME AppAssumption, AppInv, QuotaInv', NEW r \in Req, Apps!CreateRepository(r) PROVE AppInv'
<1>1. /\ req[r].phase = "forward" /\ req[r].op = "create" /\ req[r].at = 5
      /\ UNCHANGED <<apps, reserved, items, tokens, routes, running, pass>>
  BY WhichAction DEF Apps!CreateRepository, AppInv, QuotaInv, QuotaShapes
<1>2. PICK n \in AppName : n = req[r].name
  BY <1>1, Creating
<1>3. PICK u \in AppUser : u = req[r].user
  BY <1>1, Creating
<1>4. Held(n, u, 4)
  BY <1>1, <1>2, <1>3, Creating
<1>5. CASE repos' = repos /\ Apps!Fails(r, n)
  <2>1. Held(n, u, 4)'
    BY <1>1, <1>4, <1>5 DEF Held
  <2>2. Onward(r, n)
    BY <1>1, <1>2, <1>3, <1>5, <2>1, Retreats
  <2>3. OthersStay(n)
    BY <1>1, <1>5 DEF OthersStay
  <2> QED
    BY <1>1, <1>2, <1>5, <2>2, <2>3, ActionKeeps DEF AppInv, AppShapes
<1>6. CASE repos' = repos \cup {n} /\ Apps!Completes(r, n)
  <2>1. Held(n, u, 5)'
    BY <1>1, <1>4, <1>6 DEF Held
  <2>2. Held(n, req[r].user, 5 - 1) /\ \A v : v = req[r].user => Held(n, v, 5)'
    BY <1>3, <1>4, <2>1
  <2>3. Onward(r, n)
    BY <1>1, <1>2, <1>6, <2>2, Advances
  <2>4. OthersStay(n)
    BY <1>1, <1>6 DEF OthersStay
  <2> QED
    BY <1>1, <1>2, <1>6, <2>3, <2>4, ActionKeeps DEF AppInv, AppShapes
<1> QED
  BY <1>2, <1>5, <1>6 DEF Apps!CreateRepository

LEMMA ProvisionKeeps ==
    ASSUME AppAssumption, AppInv, QuotaInv', NEW r \in Req, Apps!ProvisionApp(r) PROVE AppInv'
<1>1. /\ req[r].phase = "forward" /\ req[r].op = "create" /\ req[r].at = 6
      /\ UNCHANGED <<apps, reserved, items, tokens, repos, running, pass>>
  BY WhichAction DEF Apps!ProvisionApp, AppInv, QuotaInv, QuotaShapes
<1>2. PICK n \in AppName : n = req[r].name
  BY <1>1, Creating
<1>3. PICK u \in AppUser : u = req[r].user
  BY <1>1, Creating
<1>4. Held(n, u, 5)
  BY <1>1, <1>2, <1>3, Creating
<1>5. CASE routes' = routes /\ Apps!Fails(r, None)
  <2>1. Held(n, u, 5)'
    BY <1>1, <1>4, <1>5 DEF Held
  <2>2. Onward(r, n)
    BY <1>1, <1>2, <1>3, <1>5, <2>1, Retreats
  <2>3. OthersStay(n)
    BY <1>1, <1>5 DEF OthersStay
  <2> QED
    BY <1>1, <1>2, <1>5, <2>2, <2>3, ActionKeeps DEF AppInv, AppShapes
<1>6. CASE routes' = routes \cup {n} /\ Apps!Completes(r, n)
  <2>1. Held(n, u, 6)'
    BY <1>1, <1>4, <1>6 DEF Held
  <2>2. Held(n, req[r].user, 6 - 1) /\ \A v : v = req[r].user => Held(n, v, 6)'
    BY <1>3, <1>4, <2>1
  <2>3. Onward(r, n)
    BY <1>1, <1>2, <1>6, <2>2, Advances
  <2>4. OthersStay(n)
    BY <1>1, <1>6 DEF OthersStay
  <2> QED
    BY <1>1, <1>2, <1>6, <2>3, <2>4, ActionKeeps DEF AppInv, AppShapes
<1> QED
  BY <1>2, <1>5, <1>6 DEF Apps!ProvisionApp

LEMMA ExportKeeps ==
    ASSUME AppAssumption, AppInv, QuotaInv', NEW r \in Req, Apps!ExportEnvironments(r) PROVE AppInv'
<1>1. /\ req[r].phase = "forward" /\ req[r].op = "create" /\ req[r].at = 4
      /\ UNCHANGED <<reserved, items, repos, routes, running, pass>>
  BY WhichAction DEF Apps!ExportEnvironments, AppInv, QuotaInv, QuotaShapes
<1>2. PICK n \in AppName : n = req[r].name
  BY <1>1, Creating
<1>3. PICK u \in AppUser : u = req[r].user
  BY <1>1, Creating
<1>4. Held(n, u, 3) /\ Remembered(req[r], 3)
  BY <1>1, <1>2, <1>3, Creating
<1>5. PICK t : t = <<n, ops, r>>
  OBVIOUS
<1>6. /\ tokens' = tokens \cup {t} /\ apps' = [apps EXCEPT ![n].token = t]
      /\ result' = [result EXCEPT !["exportEnvironments"] = n]
      /\ req' = [req EXCEPT ![r].at = 5, ![r].prev = n, ![r].token = t]
  BY <1>2, <1>4, <1>5 DEF Apps!ExportEnvironments, Held
<1>7. /\ Moved(r) /\ req'[r].op = "create" /\ req'[r].name = n /\ req'[r].user = u
      /\ req'[r].at = 5 /\ req'[r].phase = "forward" /\ req'[r].token = t
  <2>1. PICK q : q = [req[r] EXCEPT !.at = 5, !.prev = n, !.token = t]
    OBVIOUS
  <2>2. Form(req[r]) /\ req = [j \in Req |-> req[j]]
    BY DEF AppInv, QuotaInv, QuotaShapes
  <2>3. q = [op |-> req[r].op, name |-> req[r].name, user |-> req[r].user, n |-> req[r].n,
             at |-> 5, phase |-> req[r].phase, app |-> req[r].app,
             token |-> t, prev |-> n, look |-> req[r].look]
    BY <2>1, <2>2 DEF Form
  <2>4. req'[r] = q /\ Others(r)
    BY <1>6, <2>1, <2>2 DEF Others
  <2> QED
    BY <1>1, <1>2, <1>3, <2>3, <2>4, MovedIs
<1>8. PICK d : d = [apps[n] EXCEPT !.token = t]
  OBVIOUS
<1>9. /\ apps'[n] = d /\ \A m \in AppName \ {n} : apps'[m] = apps[m]
      /\ apps' = [m \in AppName |-> apps'[m]]
  BY <1>6, <1>8 DEF AppInv, AppShapes
<1>10. d = [owner |-> apps[n].owner, token |-> t, units |-> apps[n].units]
  BY <1>4, <1>8 DEF Held, Document
<1>11. Document(d) /\ d # None /\ d.owner = u /\ d.token = t /\ Filled(d.units)
  <2>1. d.owner = apps[n].owner /\ d.token = t /\ d.units = apps[n].units
    BY <1>10
  <2>2. Document(d)
    BY <1>10, <2>1 DEF Document
  <2> QED
    BY <1>4, <2>1, <2>2 DEF Held, AppAssumption
<1>12. t[1] = n
  BY <1>5
<1>13. Held(n, u, 4)'
  BY <1>1, <1>4, <1>6, <1>9, <1>11, <1>12 DEF Held
<1>14. Remembered(req[r], 4)'
  <2>1. \A b \in Apps!Actions : b # "exportEnvironments" => result'[b] = result[b]
    BY <1>6, Stored, ActionNames DEF AppInv
  <2> QED
    BY <1>2, <1>3, <1>4, <1>7, <1>9, <1>11, <2>1, ActionNames DEF Remembered
<1>15. Onward(r, n)
  <2>1. Creates(req[r])'
    BY <1>3, <1>7, <1>13, <1>14 DEF Creates
  <2> QED
    BY <1>7, <2>1 DEF Onward, Going
<1>16. OthersStay(n)
  BY <1>1, <1>6, <1>9, <1>12 DEF OthersStay
<1>17. AppShapes'
  BY <1>1, <1>6, <1>9, ShapesStay, ActionNames DEF AppInv, AppShapes
<1> QED
  BY <1>1, <1>2, <1>7, <1>15, <1>16, <1>17, Continues DEF AppAssumption, QuotaAssumption

LEMMA AddUnitsKeeps ==
    ASSUME AppAssumption, AppInv, QuotaInv', NEW r \in Req, Apps!ProvisionAddUnits(r) PROVE AppInv'
<1>1. /\ req[r].phase = "forward" /\ req[r].op = "addUnits" /\ req[r].at = 2
      /\ UNCHANGED <<apps, reserved, items, tokens, repos, routes, pass>>
  BY WhichAction DEF Apps!ProvisionAddUnits, AppInv, QuotaInv, QuotaShapes
<1>2. PICK n \in AppName : n = req[r].name
  BY <1>1, AddingUnits
<1>3. PICK us \in SUBSET Slot : /\ running' = [running EXCEPT ![n] = @ \cup us]
        /\ \/ Apps!Completes(r, [units |-> us, ids |-> req[r].prev])
           \/ Apps!Fails(r, None)
  BY <1>2 DEF Apps!ProvisionAddUnits
<1>4. Stands(n)
  BY <1>1, <1>2, AddingUnits
<1>5. Stands(n)'
  BY <1>1, <1>4 DEF Stands, Held
<1>6. Onward(r, n)
  <2>1. PICK x : x = [units |-> us, ids |-> req[r].prev]
    OBVIOUS
  <2>2. CASE Apps!Completes(r, x)
    <3>1. /\ req'[r].op = "addUnits" /\ req'[r].name = n /\ req'[r].phase = "forward"
          /\ req'[r].at = 3 /\ req'[r].prev = x
      <4>1. Len(Apps!PipelineOf("addUnits")) = 3
        BY Pipes
      <4>2. req[r].at # Len(Apps!PipelineOf(req[r].op)) /\ req[r].at + 1 = 3
        BY <1>1, <4>1
      <4> QED
        BY <1>1, <1>2, <2>2, <4>2, AppCompletes DEF AppInv, AppAssumption
    <3>2. req'[r].prev.units = us
      BY <2>1, <3>1
    <3> QED
      BY <1>1, <1>2, <1>5, <3>1, <3>2, AddsOn
  <2>3. CASE Apps!Fails(r, None)
    <3>1. /\ req'[r].op = "addUnits" /\ req'[r].name = n /\ req'[r].phase = "back"
          /\ req'[r].at = 1
      BY <1>1, <1>2, <2>3, AppFails DEF AppInv, AppAssumption
    <3> QED
      BY <1>1, <1>2, <1>5, <3>1, AddsOn
  <2> QED
    BY <1>3, <2>1, <2>2, <2>3
<1>7. /\ running' = [m \in AppName |-> running'[m]] /\ running'[n] \subseteq Slot
      /\ \A m \in AppName \ {n} : running'[m] = running[m]
  BY <1>3 DEF AppInv, AppShapes
<1>8. OthersStay(n)
  BY <1>1, <1>7 DEF OthersStay
<1> QED
  BY <1>1, <1>2, <1>3, <1>6, <1>7, <1>8, ActionKeeps DEF AppInv, AppShapes

(* The units of a document are replaced.                                   *)
LEMMA NewUnitsOf ==
    ASSUME AppAssumption, AppInv, NEW n \in AppName, Stands(n), NEW us, Filled(us),
           apps' = [apps EXCEPT ![n].units = us], UNCHANGED <<reserved, items, tokens, repos, routes>>
    PROVE  /\ Stands(n)' /\ \A m \in AppName \ {n} : apps'[m] = apps[m]
           /\ apps' = [m \in AppName |-> apps'[m]]
<1>1. PICK d : d = [apps[n] EXCEPT !.units = us]
  OBVIOUS
<1>2. /\ apps'[n] = d /\ \A m \in AppName \ {n} : apps'[m] = apps[m]
      /\ apps' = [m \in AppName |-> apps'[m]]
  BY <1>1 DEF AppInv, AppShapes
<1>3. Document(apps[n])
  BY DEF Stands, Held
<1>4. d = [owner |-> apps[n].owner, token |-> apps[n].token, units |-> us]
  BY <1>1, <1>3 DEF Document
<1>5. d.owner = apps[n].owner /\ d.token = apps[n].token /\ d.units = us /\ Document(d)
  <2>1. d.owner = apps[n].owner /\ d.token = apps[n].token /\ d.units = us
    BY <1>4
  <2> QED
    BY <1>4, <2>1 DEF Document
<1>6. d # None
  BY <1>5 DEF AppAssumption
<1> QED
  BY <1>2, <1>5, <1>6, StandsOn

LEMMA SaveKeeps ==
    ASSUME AppAssumption, AppInv, QuotaInv', NEW r \in Req, Apps!SaveNewUnits(r) PROVE AppInv'
<1>1. /\ req[r].phase = "forward" /\ req[r].op = "addUnits" /\ req[r].at = 3
      /\ UNCHANGED <<reserved, items, tokens, repos, routes, running, pass>>
  BY WhichAction DEF Apps!SaveNewUnits, AppInv, QuotaInv, QuotaShapes
<1>2. PICK n \in AppName : n = req[r].name
  BY <1>1, AddingUnits
<1>3. Stands(n) /\ req[r].prev.units \subseteq Slot
  BY <1>1, <1>2, AddingUnits DEF Adds
<1>4. apps[n] # None /\ Filled(apps[n].units)
  BY <1>3 DEF Stands, Held
<1>5. PICK us : us = apps[n].units \o Apps!NewUnits(req[r].prev.units, req[r].prev.ids)
  OBVIOUS
<1>6. Filled(us)
  <2>1. IsFiniteSet(req[r].prev.units)
    BY <1>3, FS_Subset DEF AppAssumption
  <2> QED
    BY <1>4, <1>5, <2>1, NewSeq, FilledJoins
<1>7. apps' = [apps EXCEPT ![n].units = us] /\ Apps!Completes(r, None)
  BY <1>2, <1>4, <1>5 DEF Apps!SaveNewUnits
<1>8. /\ Stands(n)' /\ \A m \in AppName \ {n} : apps'[m] = apps[m]
      /\ apps' = [m \in AppName |-> apps'[m]]
  BY <1>1, <1>3, <1>6, <1>7, NewUnitsOf
<1>9. req'[r] = Apps!Idle
  BY <1>1, <1>7, AppCompletes, Pipes DEF AppInv, AppAssumption
<1>10. Onward(r, n)
  BY <1>8, <1>9 DEF Onward, Settled
<1>11. OthersStay(n)
  BY <1>1, <1>8 DEF OthersStay
<1> QED
  BY <1>1, <1>2, <1>7, <1>8, <1>10, <1>11, ActionKeeps DEF AppInv, AppShapes

LEMMA GoesBack ==
    ASSUME AppAssumption, AppInv, NEW r \in Req, req[r].phase = "back"
    PROVE  /\ req[r].op # None /\ req[r].name \in AppName
           /\ \/ /\ req[r].op = "create" /\ req[r].user \in AppUser /\ req[r].at \in 1 .. 5
                 /\ Held(req[r].name, req[r].user, req[r].at) /\ Remembered(req[r], req[r].at)
              \/ /\ req[r].op = "addUnits" /\ req[r].at \in 1 .. 3 /\ Stands(req[r].name)
<1>1. Going(req[r]) /\ req[r] # Apps!Idle
  BY DEF AppInv, Apps!Idle, AppAssumption, QuotaAssumption
<1>2. req[r].name \in AppName /\ req[r].op # None
  BY <1>1, GoingIs
<1>3. \/ req[r].op = "create" /\ Creates(req[r])
      \/ req[r].op = "addUnits" /\ Adds(req[r])
  <2>1. ~RemovesUnits(req[r]) /\ ~Destroys(req[r])
    BY DEF RemovesUnits, Destroys
  <2> QED
    BY <1>1, <2>1 DEF Going
<1> QED
  BY <1>2, <1>3 DEF Creates, Adds

LEMMA Reverts ==
    ASSUME AppAssumption, AppInv, NEW r \in Req, NEW n \in AppName, NEW k \in 1 .. 5,
           req[r].op = "create", req[r].phase = "back", n = req[r].name, k = req[r].at,
           Apps!BackEnds(r), UNCHANGED result, k = 5 => UNCHANGED apps,
           \A u : u = req[r].user => Held(n, u, k - 1)'
    PROVE  Onward(r, n)
<1>1. req[r].user \in AppUser /\ Remembered(req[r], k)
  BY GoesBack
<1>2. PICK u \in AppUser : u = req[r].user
  BY <1>1
<1>3. Held(n, u, k - 1)'
  BY <1>2
<1>4. CASE k = 1
  <2>1. req'[r] = Apps!Idle
    BY <1>4, AppBackEnds DEF AppInv, AppAssumption
  <2>2. Settled(n)'
    BY <1>3, <1>4 DEF Held, Settled
  <2> QED
    BY <2>1, <2>2 DEF Onward
<1>5. CASE k # 1
  <2>1. /\ req'[r].op = "create" /\ req'[r].name = n /\ req'[r].user = u /\ req'[r].at = k - 1
        /\ req'[r].phase = "back" /\ req'[r].token = req[r].token
    BY <1>2, <1>5, AppBackEnds DEF AppInv, AppAssumption
  <2>2. Remembered(req[r], k - 1)'
    BY <1>1, <1>2, <1>5, <2>1 DEF Remembered
  <2>3. Creates(req[r])'
    BY <1>2, <1>3, <1>5, <2>1, <2>2 DEF Creates
  <2> QED
    BY <2>1, <2>3 DEF Onward, Going
<1> QED
  BY <1>4, <1>5

LEMMA AddPipe ==
    /\ Apps!PipelineOf("addUnits")[1] = "reserveUnitsToAdd"
    /\ Apps!PipelineOf("addUnits")[2] = "provisionAddUnits"
    /\ Apps!PipelineOf("addUnits")[3] = "saveNewUnits"
BY Pipes

LEMMA RollbackKeeps ==
    ASSUME AppAssumption, AppInv, QuotaInv', NEW r \in Req, Apps!Rollback(r) PROVE AppInv'
<1>1. req[r].phase = "back" /\ UNCHANGED <<routes, result, pass>>
  BY DEF Apps!Rollback
<1>2. PICK n \in AppName : n = req[r].name
  BY <1>1, GoesBack
<1>3. req[r].op # None
  BY <1>1, GoesBack
<1>4. PICK a : a = Apps!PipelineOf(req[r].op)[req[r].at]
  OBVIOUS
<1>5. \/ /\ result[a] = None /\ a # "exportEnvironments"
         /\ req' = [req EXCEPT ![r] = Apps!Idle]
         /\ UNCHANGED <<apps, reserved, items, tokens, repos, running>>
      \/ Apps!Undo(r, a, result[a]) /\ Apps!BackEnds(r)
  BY <1>4 DEF Apps!Rollback, Apps!ResultOf
<1>6. Moved(r)
  BY <1>1, <1>5, GoesIdle, AppBackEnds DEF AppInv, AppAssumption
<1>7. /\ apps = [m \in AppName |-> apps[m]] /\ running = [m \in AppName |-> running[m]]
      /\ items = [m \in AppName |-> items[m]] /\ reserved = [m \in AppUser |-> reserved[m]]
      /\ \A m \in AppName : running[m] \subseteq Slot
  BY DEF AppInv, AppShapes, QuotaInv, QuotaShapes
<1>8. CASE req[r].op = "create"
  <2>1. PICK u \in AppUser : u = req[r].user
    BY <1>1, <1>8, GoesBack
  <2>2. PICK k \in 1 .. 5 : k = req[r].at
    BY <1>1, <1>8, GoesBack
  <2>3. Held(n, u, k) /\ Remembered(req[r], k)
    BY <1>1, <1>2, <1>8, <2>1, <2>2, GoesBack
  <2>4. a = Apps!PipelineOf("create")[k]
    BY <1>4, <1>8, <2>2
  <2>5. n # None /\ [user |-> u, app |-> n] # None
    <3>1. PICK x : x = [user |-> u, app |-> n]
      OBVIOUS
    <3>2. Reservation(x)
      BY <3>1 DEF Reservation
    <3> QED
      BY <3>1, <3>2 DEF AppAssumption
  <2>6. OthersStay(n) /\ AppShapes' /\ \A v : v = u => Held(n, v, k - 1)'
        /\ (k = 5 => UNCHANGED apps) /\ Apps!BackEnds(r)
    <3>1. CASE k = 1
      <4>1. a = "reserveUserApp" /\ result[a] = [user |-> u, app |-> n]
        BY <1>2, <2>1, <2>3, <2>4, <3>1, CreatePipe DEF Remembered
      <4>2. PICK x : x = [user |-> u, app |-> n]
        OBVIOUS
      <4>3. Apps!BackEnds(r) /\ Apps!Undo(r, "reserveUserApp", x)
        BY <1>5, <2>5, <4>1, <4>2
      <4>4. /\ reserved' = [reserved EXCEPT ![u] = @ \ {n}]
            /\ UNCHANGED <<apps, items, tokens, repos, running>>
        BY <4>2, <4>3 DEF Apps!Undo
      <4>5. Held(n, u, 0)'
        BY <1>1, <1>7, <2>3, <3>1, <4>4 DEF Held
      <4>6. OthersStay(n) /\ AppShapes'
        BY <1>1, <1>7, <4>4 DEF OthersStay, AppInv, AppShapes
      <4> QED
        BY <3>1, <4>3, <4>5, <4>6
    <3>2. CASE k = 2
      <4>1. a = "createAppQuota" /\ result[a] = n
        BY <1>2, <2>3, <2>4, <3>2, CreatePipe DEF Remembered
      <4>2. Apps!BackEnds(r) /\ Apps!Undo(r, "createAppQuota", n)
        BY <1>5, <2>5, <4>1
      <4>3. items' = [items EXCEPT ![n] = None] /\ UNCHANGED <<apps, reserved, tokens, repos, running>>
        BY <4>2 DEF Apps!Undo
      <4>4. Held(n, u, 1)'
        BY <1>1, <1>7, <2>3, <3>2, <4>3 DEF Held
      <4>5. OthersStay(n) /\ AppShapes'
        BY <1>1, <1>7, <4>3 DEF OthersStay, AppInv, AppShapes
      <4> QED
        BY <3>2, <4>2, <4>4, <4>5
    <3>3. CASE k = 3
      <4>1. a = "insertApp" /\ result[a] = n
        BY <1>2, <2>3, <2>4, <3>3, CreatePipe DEF Remembered
      <4>2. Apps!BackEnds(r) /\ Apps!Undo(r, "insertApp", n)
        BY <1>5, <2>5, <4>1
      <4>3. apps' = [apps EXCEPT ![n] = None] /\ UNCHANGED <<items, reserved, tokens, repos, running>>
        BY <4>2 DEF Apps!Undo
      <4>4. Held(n, u, 2)'
        BY <1>1, <1>7, <2>3, <3>3, <4>3 DEF Held
      <4>5. OthersStay(n) /\ AppShapes'
        BY <1>1, <1>7, <4>3 DEF OthersStay, AppInv, AppShapes
      <4> QED
        BY <3>3, <4>2, <4>4, <4>5
    <3>4. CASE k = 4
      <4>1. a = "exportEnvironments" /\ req[r].token = apps[n].token
        BY <1>2, <2>3, <2>4, <3>4, CreatePipe DEF Remembered
      <4>2. Apps!BackEnds(r) /\ Apps!Undo(r, "exportEnvironments", result[a])
        BY <1>5, <4>1
      <4>3. /\ tokens' = tokens \ {apps[n].token}
            /\ apps' = [apps EXCEPT ![n] = IF @ = None THEN None ELSE [@ EXCEPT !.token = None]]
            /\ UNCHANGED <<reserved, items, repos, running>>
        BY <1>2, <4>1, <4>2 DEF Apps!Undo
      <4>4. apps[n] # None /\ Document(apps[n]) /\ apps[n].token[1] = n
        BY <2>3, <3>4 DEF Held
      <4>5. PICK d : d = [apps[n] EXCEPT !.token = None]
        OBVIOUS
      <4>6. d = [owner |-> apps[n].owner, token |-> None, units |-> apps[n].units]
        BY <4>4, <4>5 DEF Document
      <4>7. Document(d) /\ d.owner = apps[n].owner /\ d.units = apps[n].units
        <5>1. d.owner = apps[n].owner /\ d.token = None /\ d.units = apps[n].units
          BY <4>6
        <5> QED
          BY <4>6, <5>1 DEF Document
      <4>8. /\ d # None /\ apps'[n] = d /\ \A m \in AppName \ {n} : apps'[m] = apps[m]
            /\ apps' = [m \in AppName |-> apps'[m]]
        BY <1>7, <4>3, <4>4, <4>5, <4>7 DEF AppAssumption
      <4>9. Held(n, u, 3)'
        BY <1>1, <2>3, <3>4, <4>3, <4>7, <4>8 DEF Held
      <4>10. OthersStay(n)
        BY <1>1, <4>3, <4>4, <4>8 DEF OthersStay
      <4>11. AppShapes'
        BY <1>1, <1>7, <4>3, <4>8 DEF AppInv, AppShapes
      <4> QED
        BY <3>4, <4>2, <4>9, <4>10, <4>11
    <3>5. CASE k = 5
      <4>1. a = "createRepository" /\ result[a] = n
        BY <1>2, <2>3, <2>4, <3>5, CreatePipe DEF Remembered
      <4>2. Apps!BackEnds(r) /\ Apps!Undo(r, "createRepository", n)
        BY <1>5, <2>5, <4>1
      <4>3. repos' = repos \ {n} /\ UNCHANGED <<apps, items, reserved, tokens, running>>
        BY <4>2 DEF Apps!Undo
      <4>4. Held(n, u, 4)'
        BY <1>1, <2>3, <3>5, <4>3 DEF Held
      <4>5. OthersStay(n) /\ AppShapes'
        BY <1>1, <1>7, <4>3 DEF OthersStay, AppInv, AppShapes
      <4> QED
        BY <3>5, <4>2, <4>3, <4>4, <4>5
    <3> QED
      BY <2>2, <3>1, <3>2, <3>3, <3>4, <3>5
  <2>7. Onward(r, n)
    BY <1>1, <1>2, <1>8, <2>1, <2>2, <2>6, Reverts
  <2> QED
    BY <1>1, <1>2, <1>3, <1>6, <2>6, <2>7, Continues
<1>9. CASE req[r].op = "addUnits"
  <2>1. PICK k \in 1 .. 3 : k = req[r].at
    BY <1>1, <1>9, GoesBack
  <2>2. Stands(n)
    BY <1>1, <1>2, <1>9, GoesBack DEF Creates
  <2>3. a \in {"reserveUnitsToAdd", "provisionAddUnits", "saveNewUnits"}
    BY <1>4, <1>9, <2>1, AddPipe
  <2>4. /\ UNCHANGED <<apps, reserved, tokens, repos>>
        /\ \/ UNCHANGED <<items, running>>
           \/ UNCHANGED running /\ \E x : items' = [items EXCEPT ![n] = IF @ = None THEN None ELSE @ \ x]
           \/ UNCHANGED items /\ \E x : running' = [running EXCEPT ![n] = @ \ x]
    BY <1>2, <1>5, <2>3 DEF Apps!Undo
  <2>5. /\ items[n] # None => items'[n] # None
        /\ \A m \in AppName \ {n} : items'[m] = items[m] /\ running'[m] = running[m]
        /\ AppShapes'
    <3>1. CASE UNCHANGED <<items, running>>
      BY <1>1, <2>4, <3>1 DEF AppInv, AppShapes
    <3>2. CASE UNCHANGED running /\ \E x : items' = [items EXCEPT ![n] = IF @ = None THEN None ELSE @ \ x]
      <4>1. PICK x : items' = [items EXCEPT ![n] = IF @ = None THEN None ELSE @ \ x]
        BY <3>2
      <4>2. ASSUME items[n] # None PROVE items'[n] # None
        <5>1. IsFiniteSet(items[n] \ x)
          BY <4>2, FS_Difference DEF AppInv, QuotaInv, InLimit
        <5>2. items[n] \ x # None
          BY <5>1 DEF AppAssumption
        <5> QED
          BY <1>7, <4>1, <4>2, <5>2
      <4> QED
        BY <1>1, <1>7, <2>4, <3>2, <4>1, <4>2 DEF AppInv, AppShapes
    <3>3. CASE UNCHANGED items /\ \E x : running' = [running EXCEPT ![n] = @ \ x]
      BY <1>1, <1>7, <2>4, <3>3 DEF AppInv, AppShapes
    <3> QED
      BY <2>4, <3>1, <3>2, <3>3
  <2>6. Stands(n)'
    BY <1>1, <2>2, <2>4, <2>5 DEF Stands, Held
  <2>7. OthersStay(n)
    BY <1>1, <2>4, <2>5 DEF OthersStay
  <2>8. \/ req'[r] = Apps!Idle
        \/ /\ req'[r].op = "addUnits" /\ req'[r].name = n /\ req'[r].phase = "back"
           /\ req'[r].at \in 1 .. 3
    BY <1>1, <1>2, <1>5, <1>9, <2>1, GoesIdle, AppBackEnds DEF AppInv, AppAssumption
  <2>9. Onward(r, n)
    BY <1>2, <1>9, <2>6, <2>8, AddsOn
  <2> QED
    BY <1>1, <1>2, <1>3, <1>6, <2>5, <2>7, <2>9, Continues
<1> QED
  BY <1>1, <1>8, <1>9, GoesBack

LEMMA DestroyKeeps ==
    ASSUME AppAssumption, AppInv, QuotaInv', NEW r \in Req, Apps!ForceDestroy(r) PROVE AppInv'
<1>1. req[r].phase = "destroy" /\ UNCHANGED <<result, pass>>
  BY DEF Apps!ForceDestroy
<1>2. req[r].op = "destroy" /\ Destroys(req[r]) /\ req[r].name \in AppName /\ req[r].op # None
  <2>1. Going(req[r]) /\ req[r] # Apps!Idle
    BY <1>1 DEF AppInv, Apps!Idle, AppAssumption, QuotaAssumption
  <2>2. ~Creates(req[r]) /\ ~Adds(req[r]) /\ ~RemovesUnits(req[r])
    BY <1>1 DEF Creates, Adds, RemovesUnits
  <2> QED
    BY <2>1, <2>2, GoingIs DEF Going
<1>3. PICK n \in AppName : n = req[r].name
  BY <1>2
<1>4. PICK k \in 1 .. 6 : k = req[r].at
  BY <1>2 DEF Destroys
<1>5. PICK d : d = req[r].app
  OBVIOUS
<1>6. Fallen(n, d, k - 1)
  BY <1>2, <1>3, <1>4, <1>5 DEF Destroys
<1>7. PICK what : what = Apps!DestroyOrder[k]
  OBVIOUS
<1>8. /\ repos' = IF what = "repository" THEN repos \ {n} ELSE repos
      /\ IF what = "provisioner"
         THEN running' = [running EXCEPT ![n] = {}] /\ routes' = routes \ {n}
         ELSE UNCHANGED <<running, routes>>
      /\ tokens' = IF what = "token" THEN tokens \ {d.token} ELSE tokens
      /\ reserved' = IF what = "release" THEN [reserved EXCEPT ![d.owner] = @ \ {n}] ELSE reserved
      /\ items' = IF what = "quota" THEN [items EXCEPT ![n] = None] ELSE items
      /\ apps' = IF what = "document" THEN [apps EXCEPT ![n] = None] ELSE apps
  <2>1. d.units # <<>>
    BY <1>6 DEF Fallen, Filled
  <2> QED
    BY <1>3, <1>4, <1>5, <1>7, <2>1 DEF Apps!ForceDestroy, Apps!Destroyed
<1>9. /\ apps = [m \in AppName |-> apps[m]] /\ running = [m \in AppName |-> running[m]]
      /\ items = [m \in AppName |-> items[m]] /\ reserved = [m \in AppUser |-> reserved[m]]
      /\ \A m \in AppName : running[m] \subseteq Slot
  BY DEF AppInv, AppShapes, QuotaInv, QuotaShapes
<1>10. OthersStay(n)
  <2>1. d.token[1] = n
    BY <1>6 DEF Fallen
  <2> QED
    BY <1>8, <1>9, <2>1 DEF OthersStay
<1>11. AppShapes'
  BY <1>1, <1>8, <1>9 DEF AppInv, AppShapes
<1>12. /\ k = 1 => what = "repository"
       /\ k = 2 => what = "provisioner"
       /\ k = 3 => what = "token"
       /\ k = 4 => what = "release"
       /\ k = 5 => what = "quota"
       /\ k = 6 => what = "document"
  BY <1>7 DEF Apps!DestroyOrder
<1>13. Len(Apps!DestroyOrder) = 6
  BY DEF Apps!DestroyOrder
<1>14. CASE k = 6
  <2>1. Held(n, None, 0)'
    BY <1>6, <1>8, <1>9, <1>12, <1>14 DEF Fallen, Held
  <2>2. req' = [req EXCEPT ![r] = Apps!Idle]
    BY <1>4, <1>13, <1>14 DEF Apps!ForceDestroy
  <2>3. Moved(r) /\ req'[r] = Apps!Idle
    BY <2>2, GoesIdle DEF AppInv, AppAssumption
  <2>4. Onward(r, n)
    BY <2>1, <2>3 DEF Onward, Settled
  <2> QED
    BY <1>1, <1>2, <1>3, <1>10, <1>11, <2>3, <2>4, Continues
<1>15. CASE k # 6
  <2>1. PICK q : q = [req[r] EXCEPT !.at = k + 1]
    OBVIOUS
  <2>2. Form(req[r]) /\ req = [j \in Req |-> req[j]]
    BY DEF AppInv, QuotaInv, QuotaShapes
  <2>3. q = [op |-> req[r].op, name |-> req[r].name, user |-> req[r].user, n |-> req[r].n,
             at |-> k + 1, phase |-> req[r].phase, app |-> req[r].app,
             token |-> req[r].token, prev |-> req[r].prev, look |-> req[r].look]
    BY <2>1, <2>2 DEF Form
  <2>4. req' = [req EXCEPT ![r] = q]
    BY <1>4, <1>13, <1>15, <2>1 DEF Apps!ForceDestroy
  <2>5. req'[r] = q /\ Others(r)
    BY <2>2, <2>4 DEF Others
  <2>6. /\ Moved(r) /\ req'[r].op = "destroy" /\ req'[r].name = n /\ req'[r].at = k + 1
        /\ req'[r].phase = "destroy" /\ req'[r].app = d
    BY <1>1, <1>2, <1>3, <1>5, <2>3, <2>5, MovedIs
  <2>7. Fallen(n, d, k)'
    <3>1. CASE k = 1
      BY <1>6, <1>8, <1>9, <1>12, <3>1 DEF Fallen
    <3>2. CASE k = 2
      BY <1>6, <1>8, <1>9, <1>12, <3>2 DEF Fallen
    <3>3. CASE k = 3
      BY <1>6, <1>8, <1>9, <1>12, <3>3 DEF Fallen
    <3>4. CASE k = 4
      BY <1>6, <1>8, <1>9, <1>12, <3>4 DEF Fallen
    <3>5. CASE k = 5
      BY <1>6, <1>8, <1>9, <1>12, <3>5 DEF Fallen
    <3> QED
      BY <1>4, <1>15, <3>1, <3>2, <3>3, <3>4, <3>5
  <2>8. Destroys(req[r])'
    BY <1>15, <2>6, <2>7 DEF Destroys
  <2>9. Onward(r, n)
    BY <2>6, <2>8 DEF Onward, Going
  <2> QED
    BY <1>1, <1>2, <1>3, <1>10, <1>11, <2>6, <2>9, Continues
<1> QED
  BY <1>14, <1>15

LEMMA Removing ==
    ASSUME AppAssumption, AppInv, NEW r \in Req,
           req[r].phase \in {"removeUnits", "writeUnits", "releaseUnits"}
    PROVE  /\ req[r].op = "removeUnits" /\ req[r].op # None /\ req[r].name \in AppName
           /\ RemovesUnits(req[r]) /\ Stands(req[r].name)
<1>1. Going(req[r]) /\ req[r] # Apps!Idle
  BY DEF AppInv, Apps!Idle, AppAssumption, QuotaAssumption
<1>2. ~Creates(req[r]) /\ ~Adds(req[r]) /\ ~Destroys(req[r])
  BY DEF Creates, Adds, Destroys
<1>3. req[r].op = "removeUnits" /\ RemovesUnits(req[r])
  BY <1>1, <1>2 DEF Going
<1> QED
  BY <1>1, <1>3, GoingIs DEF RemovesUnits

LEMMA RemovesOn ==
    ASSUME AppAssumption, AppInv, QuotaInv', NEW r \in Req, NEW n \in AppName, n = req[r].name,
           req[r].phase \in {"removeUnits", "writeUnits", "releaseUnits"}, Stands(n)', Moved(r),
           req'[r] = Apps!Idle \/ /\ req'[r].op = "removeUnits" /\ req'[r].name = n
                                  /\ req'[r].phase \in {"writeUnits", "releaseUnits"}
                                  /\ req'[r].phase = "writeUnits" => Filled(req'[r].app.units),
           UNCHANGED <<result, pass, reserved, tokens, repos, routes>>,
           apps' = [m \in AppName |-> apps'[m]], running' = [m \in AppName |-> running'[m]],
           running'[n] \subseteq Slot,
           \A m \in AppName \ {n} :
                apps'[m] = apps[m] /\ items'[m] = items[m] /\ running'[m] = running[m]
    PROVE  AppInv'
<1>1. Onward(r, n)
  <2>1. CASE req'[r] = Apps!Idle
    BY <2>1 DEF Onward, Settled
  <2>2. CASE req'[r] # Apps!Idle
    <3>1. RemovesUnits(req[r])'
      BY <2>2 DEF RemovesUnits
    <3> QED
      BY <2>2, <3>1 DEF Onward, Going
  <2> QED
    BY <2>1, <2>2
<1>2. OthersStay(n)
  BY DEF OthersStay
<1>3. AppShapes'
  BY DEF AppInv, AppShapes
<1> QED
  BY <1>1, <1>2, <1>3, Removing, Continues

LEMMA TakeKeeps ==
    ASSUME AppAssumption, AppInv, QuotaInv', NEW r \in Req, Apps!TakeUnits(r) PROVE AppInv'
<1>1. /\ req[r].phase = "removeUnits"
      /\ UNCHANGED <<apps, reserved, items, tokens, repos, routes, result, pass>>
  BY DEF Apps!TakeUnits
<1>2. RemovesUnits(req[r]) /\ Stands(req[r].name) /\ req[r].op = "removeUnits"
  BY <1>1, Removing
<1>3. PICK n \in AppName : n = req[r].name
  BY <1>1, Removing
<1> DEFINE us == Apps!Sorted(req[r].app.units)
           gone == {i \in 1 .. req[r].n : Apps!Known(r, us[i])}
           rest == 1 .. Len(req[r].app.units) \ gone
           kept == [j \in 1 .. Apps!Cardinality(rest) |-> us[Apps!SetToSortSeq(rest, <)[j]]]
           left == {us[i].name : i \in gone}
           p == {us[i].item : i \in 1 .. req[r].n}
<1>9. /\ running' = [running EXCEPT ![req[r].name] = @ \ left]
      /\ req' = [req EXCEPT ![r] = IF gone = {} THEN Apps!Idle
              ELSE [@ EXCEPT !.phase = "writeUnits", !.app.units = kept, !.prev = p]]
  BY DEF Apps!TakeUnits
<1> HIDE DEF us, p, left
<1>11. Filled(kept)
  <2>1. /\ req[r].n \in Nat /\ Len(req[r].app.units) \in Nat /\ req[r].n < Len(req[r].app.units)
    BY <1>1, <1>2, FilledHas DEF RemovesUnits
  <2>2. Len(req[r].app.units) \in rest
    BY <2>1
  <2>3. IsFiniteSet(rest)
    <3>1. PICK l \in Nat : l = Len(req[r].app.units)
      BY <2>1
    <3>2. IsFiniteSet(1 .. l)
      BY FS_Interval
    <3> QED
      BY <3>1, <3>2, FS_Difference
  <2>4. Cardinality(rest) \in Nat /\ Cardinality(rest) # 0
    BY <2>2, <2>3, FS_CardinalityType, FS_EmptySet
  <2> HIDE DEF rest, gone
  <2>5. PICK c \in Nat : c = Apps!Cardinality(rest)
    BY <2>4, AppsCount
  <2>6. c >= 1
    BY <2>4, <2>5, AppsCount
  <2>7. PICK d : d = Apps!SetToSortSeq(rest, <)
    OBVIOUS
  <2> DEFINE S == {us[d[j]] : j \in 1 .. c}
  <2>8. kept \in [1 .. c -> S]
    BY <2>5, <2>7
  <2> HIDE DEF S, kept
  <2>9. kept \in Seq(S) /\ kept # <<>>
    BY <2>6, <2>8
  <2> QED
    BY <2>9, FilledIs
<1> HIDE DEF gone, rest, kept
<1>10. PICK l : running' = [running EXCEPT ![n] = @ \ l]
  BY <1>3, <1>9
<1>12. /\ running' = [m \in AppName |-> running'[m]] /\ running'[n] \subseteq Slot
       /\ \A m \in AppName \ {n} : running'[m] = running[m]
  BY <1>10 DEF AppInv, AppShapes
<1>13. Stands(n)'
  BY <1>1, <1>2, <1>3 DEF Stands, Held
<1>14. CASE gone = {}
  <2>1. req' = [req EXCEPT ![r] = Apps!Idle]
    BY <1>9, <1>14
  <2>2. Moved(r) /\ req'[r] = Apps!Idle
    BY <2>1, GoesIdle DEF AppInv, AppAssumption
  <2> QED
    BY <1>1, <1>3, <1>12, <1>13, <2>2, RemovesOn DEF AppInv, AppShapes
<1>15. CASE gone # {}
  <2>1. PICK q : q = [req[r] EXCEPT !.phase = "writeUnits", !.app.units = kept, !.prev = p]
    OBVIOUS
  <2>2. Form(req[r]) /\ req = [j \in Req |-> req[j]]
    BY DEF AppInv, QuotaInv, QuotaShapes
  <2>3. PICK a : a = [req[r].app EXCEPT !.units = kept]
    OBVIOUS
  <2>4. q = [op |-> req[r].op, name |-> req[r].name, user |-> req[r].user, n |-> req[r].n,
             at |-> req[r].at, phase |-> "writeUnits", app |-> a,
             token |-> req[r].token, prev |-> p, look |-> req[r].look]
    BY <2>1, <2>2, <2>3 DEF Form
  <2>5. req'[r] = q /\ Others(r)
    BY <1>9, <1>15, <2>1, <2>2 DEF Others
  <2>6. Moved(r) /\ req'[r].op = "removeUnits" /\ req'[r].name = n /\ req'[r].phase = "writeUnits"
        /\ req'[r].app = a
    BY <1>2, <1>3, <2>4, <2>5, MovedIs
  <2>7. Filled(a.units)
    BY <1>11, <2>3
  <2> QED
    BY <1>1, <1>3, <1>12, <1>13, <2>6, <2>7, RemovesOn DEF AppInv, AppShapes
<1> QED
  BY <1>14, <1>15

LEMMA WriteKeeps ==
    ASSUME AppAssumption, AppInv, QuotaInv', NEW r \in Req, Apps!WriteUnits(r) PROVE AppInv'
<1>1. /\ req[r].phase = "writeUnits"
      /\ UNCHANGED <<reserved, items, tokens, repos, routes, running, result, pass>>
  BY DEF Apps!WriteUnits
<1>2. RemovesUnits(req[r]) /\ Stands(req[r].name) /\ req[r].op = "removeUnits"
  BY <1>1, Removing
<1>3. PICK n \in AppName : n = req[r].name
  BY <1>1, Removing
<1>4. Filled(req[r].app.units) /\ apps[n] # None
  BY <1>1, <1>2, <1>3 DEF RemovesUnits, Stands, Held
<1>5. apps' = [apps EXCEPT ![n].units = req[r].app.units]
  BY <1>3, <1>4 DEF Apps!WriteUnits, AppInv, AppShapes
<1>6. /\ Stands(n)' /\ \A m \in AppName \ {n} : apps'[m] = apps[m]
      /\ apps' = [m \in AppName |-> apps'[m]]
  BY <1>1, <1>2, <1>3, <1>4, <1>5, NewUnitsOf
<1>7. Moved(r) /\ req'[r].op = "removeUnits" /\ req'[r].name = n /\ req'[r].phase = "releaseUnits"
  <2>1. PICK q : q = [req[r] EXCEPT !.phase = "releaseUnits"]
    OBVIOUS
  <2>2. Form(req[r]) /\ req = [j \in Req |-> req[j]]
    BY DEF AppInv, QuotaInv, QuotaShapes
  <2>3. q = [op |-> req[r].op, name |-> req[r].name, user |-> req[r].user, n |-> req[r].n,
             at |-> req[r].at, phase |-> "releaseUnits", app |-> req[r].app,
             token |-> req[r].token, prev |-> req[r].prev, look |-> req[r].look]
    BY <2>1, <2>2 DEF Form
  <2>4. req'[r] = q /\ Others(r)
    BY <2>1, <2>2 DEF Others, Apps!WriteUnits
  <2> QED
    BY <1>2, <1>3, <2>3, <2>4, MovedIs
<1> QED
  BY <1>1, <1>3, <1>6, <1>7, RemovesOn DEF AppInv, AppShapes

LEMMA ReleaseKeeps ==
    ASSUME AppAssumption, AppInv, QuotaInv', NEW r \in Req, Apps!ReleaseUnits(r) PROVE AppInv'
<1>1. /\ req[r].phase = "releaseUnits" /\ req' = [req EXCEPT ![r] = Apps!Idle]
      /\ UNCHANGED <<apps, reserved, tokens, repos, routes, running, result, pass>>
  BY DEF Apps!ReleaseUnits
<1>2. Stands(req[r].name) /\ req[r].op = "removeUnits"
  BY <1>1, Removing
<1>3. PICK n \in AppName : n = req[r].name
  BY <1>1, Removing
<1>4. items' = [items EXCEPT ![n] = IF @ = None THEN None ELSE @ \ req[r].prev]
  BY <1>3 DEF Apps!ReleaseUnits
<1>5. items = [m \in AppName |-> items[m]]
  BY DEF AppInv, QuotaInv, QuotaShapes
<1>6. ASSUME items[n] # None PROVE items'[n] # None
  <2>1. IsFiniteSet(items[n] \ req[r].prev)
    BY <1>6, FS_Difference DEF AppInv, QuotaInv, InLimit
  <2>2. items[n] \ req[r].prev # None
    BY <2>1 DEF AppAssumption
  <2> QED
    BY <1>4, <1>5, <1>6, <2>2
<1>7. \A m \in AppName \ {n} : items'[m] = items[m]
  BY <1>4, <1>5
<1>8. Stands(n)'
  BY <1>1, <1>2, <1>3, <1>6 DEF Stands, Held
<1>9. Moved(r) /\ req'[r] = Apps!Idle
  BY <1>1, GoesIdle DEF AppInv, AppAssumption
<1> QED
  BY <1>1, <1>3, <1>7, <1>8, <1>9, RemovesOn DEF AppInv, AppShapes

LEMMA AtRest ==
    ASSUME AppAssumption, AppInv, \A r \in Req : req[r].op = None
    PROVE  /\ \A r \in Req : req[r] = Apps!Idle
           /\ \A n \in AppName : Settled(n)
<1>1. \A r \in Req : req[r] = Apps!Idle /\ req[r].name = None
  BY GoingIs DEF AppInv
<1> QED
  BY <1>1 DEF AppInv, AppAssumption

LEMMA ExistsStands ==
    ASSUME NEW n, Settled(n)
    PROVE  /\ apps[n] # None => Stands(n)
           /\ apps[n] = None => \A u : Held(n, u, 0)
BY DEF Settled, Stands, Held

LEMMA BeginKeeps ==
    ASSUME AppAssumption, AppInv, QuotaInv', NEW r \in Req, NEW op, NEW n \in AppName, NEW user,
           NEW k \in Nat, op \in {"create", "destroy", "addUnits", "removeUnits"},
           op = "create" => user \in AppUser, Apps!Begin(r, op, n, user, k)
    PROVE  AppInv'
<1>1. /\ pass = None /\ \A j \in Req : req[j].op = None
      /\ UNCHANGED <<apps, reserved, items, tokens, repos, routes, running, result, pass>>
      /\ Starts(r, op, n, user, k)
      /\ op = "create" => apps[n] = None
      /\ op # "create" => apps[n] # None
      /\ op = "removeUnits" => ~(k >= Len(apps[n].units))
  BY DEF Apps!Begin, Apps!Quiet, Apps!TooMany, Starts
<1>2. /\ \A j \in Req : req[j] = Apps!Idle
      /\ \A m \in AppName : Settled(m)
  BY <1>1, AtRest
<1>3. PICK p : p = IF op \in {"create", "addUnits"} THEN "forward" ELSE op
  OBVIOUS
<1>4. PICK q : q = [Apps!Idle EXCEPT !.op = op, !.name = n, !.user = user,
            !.n = k, !.at = 1, !.app = apps[n], !.phase = p]
  OBVIOUS
<1>5. q = [op |-> op, name |-> n, user |-> user, n |-> k, at |-> 1, phase |-> p,
           app |-> apps[n], token |-> None, prev |-> None, look |-> 0]
  BY <1>4 DEF Apps!Idle
<1>6. q.op = op /\ q.name = n /\ q.user = user /\ q.n = k /\ q.at = 1 /\ q.phase = p
      /\ q.app = apps[n]
  BY <1>5
<1>7. req' = [req EXCEPT ![r] = q]
  BY <1>1, <1>3, <1>4 DEF Starts
<1>8. req'[r] = q /\ \A j \in Req \ {r} : req'[j] = Apps!Idle
  BY <1>2, <1>7 DEF AppInv, QuotaInv, QuotaShapes
<1>9. Apps!Idle.op = None /\ Apps!Idle.name = None
  BY DEF Apps!Idle
<1>10. ASSUME NEW m \in AppName PROVE Settled(m)'
  <2>1. ASSUME NEW u, NEW i, Held(m, u, i) PROVE Held(m, u, i)'
    BY <1>1, <2>1 DEF Held
  <2> QED
    BY <1>2, <2>1 DEF Settled, Stands
<1>11. Going(req[r])'
  <2>1. CASE op = "create"
    <3>1. Held(n, user, 0)
      BY <1>1, <1>2, <2>1, ExistsStands
    <3>2. Held(n, user, 0)'
      BY <1>1, <3>1 DEF Held
    <3>3. Remembered(req[r], 0)'
      BY DEF Remembered
    <3>4. Creates(req[r])'
      BY <1>3, <1>6, <1>8, <2>1, <3>2, <3>3 DEF Creates
    <3> QED
      BY <1>6, <1>8, <2>1, <3>4 DEF Going
  <2>2. CASE op # "create"
    <3>1. Stands(n)
      BY <1>1, <1>2, <2>2, ExistsStands
    <3>2. Stands(n)'
      BY <1>1, <3>1 DEF Stands, Held
    <3>3. CASE op = "addUnits"
      <4>1. Adds(req[r])'
        BY <1>3, <1>6, <1>8, <3>2, <3>3 DEF Adds
      <4> QED
        BY <1>6, <1>8, <3>3, <4>1 DEF Going
    <3>4. CASE op = "removeUnits"
      <4>1. Filled(apps[n].units)
        BY <3>1 DEF Stands, Held
      <4>2. Len(apps[n].units) \in Nat /\ k < Len(apps[n].units)
        BY <1>1, <3>4, <4>1, FilledHas
      <4>3. RemovesUnits(req[r])'
        BY <1>1, <1>3, <1>6, <1>8, <3>2, <3>4, <4>1, <4>2 DEF RemovesUnits
      <4> QED
        BY <1>6, <1>8, <3>4, <4>3 DEF Going
    <3>5. CASE op = "destroy"
      <4>1. PICK d : d = apps[n]
        OBVIOUS
      <4>2. Fallen(n, d, 0)
        BY <3>1, <4>1 DEF Stands, Held, Fallen
      <4>3. Fallen(n, d, 0)'
        BY <1>1, <4>2 DEF Fallen
      <4>4. Destroys(req[r])'
        BY <1>1, <1>3, <1>6, <1>8, <3>5, <4>1, <4>3 DEF Destroys
      <4> QED
        BY <1>6, <1>8, <3>5, <4>4 DEF Going
    <3> QED
      BY <2>2, <3>3, <3>4, <3>5
  <2> QED
    BY <2>1, <2>2
<1>12. \A j \in Req : Going(req[j])'
  BY <1>8, <1>11 DEF Going, Apps!Idle
<1>13. OneAtATime'
  BY <1>1, <1>8, <1>9 DEF OneAtATime
<1>14. Passing' /\ AppShapes'
  BY <1>1 DEF Passing, AppInv, AppShapes
<1> QED
  BY <1>10, <1>12, <1>13, <1>14 DEF AppInv

LEMMA DeployedKeeps ==
    ASSUME AppAssumption, AppInv, QuotaInv', NEW n \in AppName, NEW x \in Slot, Apps!Deployed(n, x)
    PROVE  AppInv'
<1>1. /\ pass = None /\ \A j \in Req : req[j].op = None
      /\ UNCHANGED <<apps, reserved, items, tokens, repos, routes, result, req, pass>>
      /\ apps[n] # None /\ running' = [running EXCEPT ![n] = {x}]
  BY DEF Apps!Deployed, Apps!Quiet
<1>2. /\ \A j \in Req : req[j] = Apps!Idle
      /\ \A m \in AppName : Settled(m)
  BY <1>1, AtRest
<1>3. AppShapes' /\ \A m \in AppName \ {n} : running'[m] = running[m]
  BY <1>1 DEF AppInv, AppShapes
<1>4. Stands(n)
  BY <1>1, <1>2, ExistsStands
<1>5. Stands(n)'
  BY <1>1, <1>4 DEF Stands, Held
<1>6. OthersStay(n)
  BY <1>1, <1>3 DEF OthersStay
<1>7. \A m \in AppName : Settled(m)'
  BY <1>2, <1>5, <1>6, OthersSettled DEF Settled
<1>8. \A j \in Req : Going(req[j])'
  BY <1>1, <1>2 DEF Going, Apps!Idle
<1>9. OneAtATime' /\ Passing'
  BY <1>1 DEF OneAtATime, Passing
<1> QED
  BY <1>3, <1>7, <1>8, <1>9 DEF AppInv

LEMMA CollectReadKeeps ==
    ASSUME AppAssumption, AppInv, QuotaInv', Apps!CollectRead PROVE AppInv'
<1>1. /\ \A j \in Req : req[j].op = None
      /\ UNCHANGED <<apps, reserved, items, tokens, repos, routes, running, result, req>>
  BY DEF Apps!CollectRead, Apps!Quiet
<1>2. PICK w : pass' = [n \in {n \in AppName : apps[n] # None /\ running[n] # {}} |->
                          [apps[n] EXCEPT !.units = Apps!Collected(n, w)]]
  BY DEF Apps!CollectRead
<1>3. /\ \A j \in Req : req[j] = Apps!Idle
      /\ \A m \in AppName : Settled(m)
  BY <1>1, AtRest
<1>4. ASSUME NEW n \in DOMAIN pass' PROVE n \in AppName /\ Rereads(n)'
  <2>1. n \in AppName /\ apps[n] # None
    BY <1>2
  <2>2. Stands(n)
    BY <1>3, <2>1, ExistsStands
  <2>3. Document(apps[n]) /\ Filled(apps[n].units)
    BY <2>2 DEF Stands, Held
  <2>4. PICK us : us = Apps!Collected(n, w)
    OBVIOUS
  <2>5. Filled(us)
    <3>1. IsFiniteSet(running[n])
      BY <2>1, FS_Subset DEF AppInv, AppShapes, AppAssumption
    <3> QED
      BY <2>3, <2>4, <3>1, CollectFills
  <2>6. PICK d : d = [apps[n] EXCEPT !.units = us]
    OBVIOUS
  <2>7. pass'[n] = d
    BY <1>2, <2>4, <2>6
  <2>8. d = [owner |-> apps[n].owner, token |-> apps[n].token, units |-> us]
    BY <2>3, <2>6 DEF Document
  <2>9. d.owner = apps[n].owner /\ d.token = apps[n].token /\ d.units = us
    BY <2>8
  <2>10. Document(d)
    BY <2>8, <2>9 DEF Document
  <2>11. d # None
    BY <2>10 DEF AppAssumption
  <2> QED
    BY <1>1, <2>1, <2>5, <2>7, <2>9, <2>10, <2>11 DEF Rereads
<1>5. Passing'
  BY <1>4 DEF Passing
<1>6. OneAtATime'
  BY <1>1 DEF OneAtATime
<1>7. AppShapes'
  BY <1>1 DEF AppInv, AppShapes
<1>8. \A j \in Req : Going(req[j])'
  BY <1>1, <1>3 DEF Going, Apps!Idle
<1>9. ASSUME NEW m \in AppName PROVE Settled(m)'
  <2>1. ASSUME NEW u, NEW i, Held(m, u, i) PROVE Held(m, u, i)'
    BY <1>1, <2>1 DEF Held
  <2> QED
    BY <1>3, <2>1 DEF Settled, Stands
<1> QED
  BY <1>5, <1>6, <1>7, <1>8, <1>9 DEF AppInv

LEMMA CollectWriteKeeps ==
    ASSUME AppAssumption, AppInv, QuotaInv', NEW n \in AppName, Apps!CollectWrite(n) PROVE AppInv'
<1>1. /\ pass # None /\ n \in DOMAIN pass
      /\ UNCHANGED <<reserved, items, tokens, repos, routes, running, result, req>>
      /\ apps' = [apps EXCEPT ![n] = IF @ = None THEN None ELSE pass[n]]
      /\ pass' = IF DOMAIN pass = {n} THEN None
                 ELSE [m \in DOMAIN pass \ {n} |-> pass[m]]
  BY DEF Apps!CollectWrite
<1>2. DOMAIN pass \subseteq AppName /\ \A m \in DOMAIN pass : Rereads(m)
  BY <1>1 DEF AppInv, Passing
<1>3. \A j \in Req : req[j].op = None
  BY <1>1 DEF AppInv, OneAtATime
<1>4. /\ \A j \in Req : req[j] = Apps!Idle
      /\ \A m \in AppName : Settled(m)
  BY <1>3, AtRest
<1>5. PICK d : d = pass[n]
  OBVIOUS
<1>6. /\ apps[n] # None /\ d # None /\ Document(d) /\ Filled(d.units)
      /\ d.owner = apps[n].owner /\ d.token = apps[n].token
  BY <1>1, <1>2, <1>5 DEF Rereads
<1>7. /\ apps'[n] = d /\ \A m \in AppName \ {n} : apps'[m] = apps[m]
      /\ apps' = [m \in AppName |-> apps'[m]]
  BY <1>1, <1>5, <1>6 DEF AppInv, AppShapes
<1>8. Stands(n)
  BY <1>4, <1>6, ExistsStands
<1>9. Stands(n)'
  BY <1>1, <1>6, <1>7, <1>8, StandsOn
<1>10. OthersStay(n)
  BY <1>1, <1>7 DEF OthersStay
<1>11. \A m \in AppName : Settled(m)'
  BY <1>4, <1>9, <1>10, OthersSettled DEF Settled
<1>12. Passing'
  <2>1. CASE DOMAIN pass = {n}
    BY <1>1, <2>1 DEF Passing
  <2>2. CASE DOMAIN pass # {n}
    <3>1. DOMAIN pass' = DOMAIN pass \ {n} /\ \A m \in DOMAIN pass \ {n} : pass'[m] = pass[m]
      BY <1>1, <2>2
    <3>2. \A m \in DOMAIN pass' : Rereads(m)'
      BY <1>2, <1>7, <3>1 DEF Rereads
    <3> QED
      BY <1>2, <3>1, <3>2 DEF Passing
  <2> QED
    BY <2>1, <2>2
<1>13. OneAtATime' /\ AppShapes'
  BY <1>1, <1>3, <1>7 DEF OneAtATime, AppInv, AppShapes
<1>14. \A j \in Req : Going(req[j])'
  BY <1>1, <1>4 DEF Going, Apps!Idle
<1> QED
  BY <1>11, <1>12, <1>13, <1>14 DEF AppInv

LEMMA AppInvBegins == ASSUME AppAssumption PROVE Apps!Init => AppInv
<1> SUFFICES ASSUME Apps!Init PROVE AppInv
  OBVIOUS
<1>1. QuotaInv
  BY QuotaBegins DEF AppAssumption
<1>2. \A r \in Req : req[r] = Apps!Idle /\ req[r].op = None
  BY DEF Apps!Init, Apps!Idle
<1>3. AppShapes /\ OneAtATime /\ Passing
  BY <1>2 DEF Apps!Init, AppShapes, OneAtATime, Passing
<1>4. \A n \in AppName : Held(n, None, 0)
  BY DEF Apps!Init, Held
<1> QED
  BY <1>1, <1>2, <1>3, <1>4 DEF AppInv, Going, Settled

LEMMA AppInvStep == ASSUME AppAssumption, AppInv, [Apps!Next]_AppsVars PROVE AppInv'
<1>1. QuotaInv'
  BY QuotaStep DEF AppInv, AppAssumption
<1>2. ASSUME NEW r \in Req, Apps!Step(r) PROVE AppInv'
  BY <1>1, <1>2, ReserveKeeps, UpdateKeeps, UnlimitedKeeps, CreateQuotaKeeps, InsertKeeps,
     ExportKeeps, RepositoryKeeps, ProvisionKeeps, AddUnitsKeeps, SaveKeeps, RollbackKeeps,
     DestroyKeeps, TakeKeeps, WriteKeeps, ReleaseKeeps DEF Apps!Step
<1>3. ASSUME NEW r \in Req, NEW n \in AppName, NEW u \in AppUser, Apps!Begin(r, "create", n, u, 0)
      PROVE  AppInv'
  BY <1>1, <1>3, BeginKeeps
<1>4. ASSUME NEW r \in Req, NEW n \in AppName, Apps!Begin(r, "destroy", n, None, 0)
      PROVE  AppInv'
  BY <1>1, <1>4, BeginKeeps
<1>5. ASSUME NEW r \in Req, NEW n \in AppName, NEW k \in 1 .. 2,
             Apps!Begin(r, "addUnits", n, None, k) \/ Apps!Begin(r, "removeUnits", n, None, k)
      PROVE  AppInv'
  <2>1. k \in Nat
    OBVIOUS
  <2>2. CASE Apps!Begin(r, "addUnits", n, None, k)
    BY <1>1, <2>1, <2>2, BeginKeeps
  <2>3. CASE Apps!Begin(r, "removeUnits", n, None, k)
    BY <1>1, <2>1, <2>3, BeginKeeps
  <2> QED
    BY <1>5, <2>2, <2>3
<1>6. CASE UNCHANGED AppsVars
  <2>1. ASSUME NEW m, NEW u, NEW i PROVE Held(m, u, i) => Held(m, u, i)'
    BY <1>6 DEF Held, AppsVars
  <2>2. ASSUME NEW m PROVE Settled(m) => Settled(m)'
    BY <2>1 DEF Settled, Stands
  <2>3. ASSUME NEW q, Going(q) PROVE Going(q)'
    <3>1. ASSUME NEW k, Remembered(q, k) PROVE Remembered(q, k)'
      BY <1>6, <3>1 DEF Remembered, AppsVars
    <3>2. ASSUME NEW k, Fallen(q.name, q.app, k) PROVE Fallen(q.name, q.app, k)'
      BY <1>6, <3>2 DEF Fallen, AppsVars
    <3>3. Stands(q.name) => Stands(q.name)'
      BY <2>1 DEF Stands
    <3>4. Creates(q) => Creates(q)'
      BY <2>1, <3>1 DEF Creates
    <3>5. (Adds(q) => Adds(q)') /\ (RemovesUnits(q) => RemovesUnits(q)')
      BY <3>3 DEF Adds, RemovesUnits
    <3>6. Destroys(q) => Destroys(q)'
      BY <3>2 DEF Destroys
    <3> QED
      BY <2>3, <3>4, <3>5, <3>6 DEF Going, Apps!Idle
  <2>4. \A j \in Req : Going(req[j])'
    BY <1>6, <2>3 DEF AppInv, AppsVars
  <2> QED
    BY <1>1, <1>6, <2>2, <2>4 DEF AppInv, AppShapes, OneAtATime, Passing, Rereads, AppsVars
<1>7. CASE Apps!Next
  BY <1>1, <1>2, <1>3, <1>4, <1>5, <1>7, DeployedKeeps, CollectReadKeeps, CollectWriteKeeps
     DEF Apps!Next
<1> QED
  BY <1>6, <1>7

LEMMA AppInvSafe == ASSUME AppAssumption, AppInv PROVE Apps!AllOrNothing /\ Apps!QuotaKept
<1>1. ASSUME Apps!Quiet, NEW n \in AppName PROVE Apps!Whole(n)
  <2>1. Settled(n)
    BY <1>1, AtRest DEF Apps!Quiet
  <2>2. CASE Stands(n)
    BY <2>2 DEF Stands, Held, Apps!Whole
  <2>3. CASE Held(n, None, 0)
    BY <2>3 DEF Held, Apps!Whole
  <2> QED
    BY <2>1, <2>2, <2>3 DEF Settled
<1> QED
  BY <1>1, QuotaHolds DEF Apps!AllOrNothing, AppInv, AppAssumption
-----------------------------------------------------------------------------
CONSTANTS Instance, App, Unit, Var, Vars, MaxOps, MaxUnits, Patient, Prompt, Blank

VARIABLES
    inst, held, bindUnits, bindFresh, env, bindReq, calls, tasks, wrong,
    skipped, done

Bind == INSTANCE ServiceBinding WITH
    units <- bindUnits, fresh <- bindFresh, req <- bindReq

BindVars == <<inst, held, bindUnits, bindFresh, env, bindReq, calls, tasks, wrong,
    skipped, done>>

(* ServiceBinding.  Its invariant says of every unit and instance that the *)
(* endpoint holds what the document says, or why it may not yet, or not    *)
(* any more; that a unit is in one application, once; and that what is     *)
(* still to be told is true, since no request comes meanwhile.             *)

(* No request and no collection in between, and None and the nameless unit *)
(* are told from what they stand beside.                                   *)
BindAssumption ==
    /\ Patient /\ Prompt /\ Blank \notin Unit
    /\ None \notin (SUBSET App) \cup (SUBSET (Unit \cup {Blank})) \cup Seq(Unit \cup {Blank})
    /\ None \notin Instance

BindUnits == Unit \cup {Blank}

BTypes ==
    /\ inst \in [Instance -> (SUBSET App) \cup {None}]
    /\ held \in [Instance -> (SUBSET BindUnits) \cup {None}]
    /\ bindUnits \in [App -> Seq(BindUnits) \cup {None}]
    /\ env \in [App -> [Var -> Instance \cup {None}]]
    /\ bindFresh \subseteq App \X Unit /\ tasks \subseteq App \X Unit
    /\ wrong \subseteq Instance \X BindUnits
    /\ calls \subseteq [op : {"bind", "unbind"}, i : Instance, u : BindUnits, first : BOOLEAN]

(* Who is in the table is there once. *)
Within(a, u) == u \in Bind!UnitsIn(a) \/ <<a, u>> \in bindFresh
OneApp ==
    /\ \A u \in Unit : \A a, b \in App : Within(a, u) /\ Within(b, u) => a = b
    /\ \A a \in App : \A m, n \in 1..Len(Bind!SeqOf(a)) :
          Bind!SeqOf(a)[m] = Bind!SeqOf(a)[n] => m = n

Live(i) == inst[i] # None
Bound(i, a) == Live(i) /\ a \in inst[i]

RequestBinds ==
    bindReq # None => bindReq.a \in App /\ bindReq.i \in Instance /\ Bound(bindReq.i, bindReq.a)
EnvBound ==
    \A a \in App, v \in Var : env[a][v] # None => Bound(env[a][v], a)

CallsTrue ==
    \A c \in calls :
        /\ Live(c.i)
        /\ c.op = "bind" => c.u \in Bind!UnitsOf(c.i)
        /\ c.op = "unbind" /\ c.u \in Unit => c.u \notin Bind!UnitsOf(c.i)
TasksTrue == \A t \in tasks : Within(t[1], t[2])
(* A unit that the collector has not seen is the first one of its app, and *)
(* nothing else goes on.                                                   *)
FreshFirst ==
    bindFresh # {} =>
        /\ calls = {} /\ tasks = bindFresh
        /\ \A p, q \in bindFresh : p = q
        /\ \A p \in bindFresh : bindUnits[p[1]] \in {<<>>, <<Blank>>}

Unsettled(i, u) ==
    \/ <<i, u>> \in wrong \cup skipped
    \/ \E c \in calls : c.i = i /\ c.u = u
    \/ \E a \in inst[i] : <<a, u>> \in tasks
Follows ==
    \A i \in Instance : Live(i) =>
        /\ held[i] # None
        /\ \A u \in Unit : Unsettled(i, u) \/ (u \in held[i] <=> u \in Bind!UnitsOf(i))

BInv ==
    /\ BTypes /\ OneApp /\ RequestBinds /\ EnvBound
    /\ CallsTrue /\ TasksTrue /\ FreshFirst /\ Follows
-----------------------------------------------------------------------------
LEMMA SeqTypes ==
    ASSUME BTypes, NEW a \in App
    PROVE  /\ Bind!SeqOf(a) \in Seq(BindUnits) /\ Len(Bind!SeqOf(a)) \in Nat
           /\ Bind!UnitsIn(a) \subseteq BindUnits
           /\ Bind!GetUnits(a) \subseteq Bind!UnitsIn(a)
<1>1. Bind!SeqOf(a) \in Seq(BindUnits)
  <2>1. bindUnits[a] \in Seq(BindUnits) \cup {None}
    BY DEF BTypes
  <2>2. <<>> \in Seq(BindUnits)
    OBVIOUS
  <2> QED  BY <2>1, <2>2 DEF Bind!SeqOf
<1> QED  BY <1>1 DEF Bind!UnitsIn, Bind!GetUnits

LEMMA QuietBegins ==
    ASSUME BindAssumption, Bind!Begins
    PROVE  bindReq = None /\ calls = {} /\ tasks = {} /\ bindFresh = {}
BY DEF BindAssumption, Bind!Begins, Bind!Quiet

(* A step that leaves the applications' units alone.                       *)
LEMMA UnitsStay ==
    ASSUME UNCHANGED bindUnits
    PROVE  /\ \A a : Bind!SeqOf(a)' = Bind!SeqOf(a) /\ Bind!UnitsIn(a)' = Bind!UnitsIn(a)
BY DEF Bind!SeqOf, Bind!UnitsIn

LEMMA OneAppStays ==
    ASSUME OneApp, UNCHANGED <<bindUnits, bindFresh>> PROVE OneApp'
BY UnitsStay DEF OneApp, Within

LEMMA CreateInstanceStep ==
    ASSUME BindAssumption, BInv, NEW i \in Instance, Bind!CreateInstance(i)
    PROVE  BInv'
<1>1. /\ UNCHANGED <<bindUnits, bindFresh, env, bindReq, calls, tasks, wrong, skipped>>
      /\ inst[i] = None /\ held[i] = None
      /\ \/ inst' = [inst EXCEPT ![i] = {}] /\ held' = [held EXCEPT ![i] = {}]
         \/ inst' = inst /\ held' \in {held, [held EXCEPT ![i] = {}]}
  BY DEF Bind!CreateInstance
<1>2. bindReq = None /\ calls = {} /\ tasks = {} /\ bindFresh = {}
  BY QuietBegins DEF Bind!CreateInstance
<1>3. BTypes'
  BY <1>1 DEF BInv, BTypes
<1>4. OneApp'
  BY <1>1, OneAppStays DEF BInv
<1>5. EnvBound'
  BY <1>1 DEF BInv, BTypes, EnvBound, Bound, Live
<1>6. RequestBinds' /\ CallsTrue' /\ TasksTrue' /\ FreshFirst'
  BY <1>1, <1>2 DEF RequestBinds, CallsTrue, TasksTrue, FreshFirst
<1>7. Follows'
  <2> SUFFICES ASSUME NEW j \in Instance, Live(j)'
               PROVE  held'[j] # None /\ \A u \in Unit : Unsettled(j, u)' \/ (u \in held'[j] <=> u \in Bind!UnitsOf(j)')
    BY DEF Follows
  <2>1. CASE j = i /\ inst'[i] = {}
    <3>1. held'[i] = {} /\ None # {}
      BY <1>1, <2>1 DEF BInv, BTypes, BindAssumption, Live
    <3> QED  BY <2>1, <3>1 DEF Bind!UnitsOf
  <2>2. CASE inst'[j] = inst[j] /\ inst[j] # None
    <3>1. held'[j] = held[j]
      BY <1>1, <2>2 DEF BInv, BTypes
    <3>2. Bind!UnitsOf(j)' = Bind!UnitsOf(j) /\ \A u : Unsettled(j, u)' = Unsettled(j, u)
      BY <1>1, <2>2, UnitsStay DEF Bind!UnitsOf, Unsettled
    <3> QED  BY <2>2, <3>1, <3>2 DEF BInv, Follows, Live
  <2> QED  BY <1>1, <2>1, <2>2 DEF BInv, BTypes, Live
<1> QED  BY <1>3, <1>4, <1>5, <1>6, <1>7 DEF BInv

LEMMA DeleteInstanceStep ==
    ASSUME BindAssumption, BInv, NEW i \in Instance, Bind!DeleteInstance(i)
    PROVE  BInv'
<1>1. /\ UNCHANGED <<bindUnits, bindFresh, env, bindReq, calls, tasks, skipped>>
      /\ inst[i] = {} /\ inst' = [inst EXCEPT ![i] = None]
      /\ held' \in {held, [held EXCEPT ![i] = None]}
      /\ wrong' = {p \in wrong : p[1] # i}
  BY DEF Bind!DeleteInstance, Bind!Deletable
<1>2. bindReq = None /\ calls = {} /\ tasks = {} /\ bindFresh = {}
  BY QuietBegins DEF Bind!DeleteInstance
<1>3. BTypes'
  <2>1. wrong' \subseteq wrong
    BY <1>1
  <2>2. inst' \in [Instance -> (SUBSET App) \cup {None}] /\ held' \in [Instance -> (SUBSET BindUnits) \cup {None}]
    BY <1>1 DEF BInv, BTypes
  <2> QED  BY <1>1, <2>1, <2>2 DEF BInv, BTypes
<1>4. OneApp'
  BY <1>1, OneAppStays DEF BInv
<1>5. EnvBound'
  BY <1>1 DEF BInv, BTypes, EnvBound, Bound, Live
<1>6. RequestBinds' /\ CallsTrue' /\ TasksTrue' /\ FreshFirst'
  BY <1>1, <1>2 DEF RequestBinds, CallsTrue, TasksTrue, FreshFirst
<1>7. Follows'
  <2> SUFFICES ASSUME NEW j \in Instance, Live(j)'
               PROVE  held'[j] # None /\ \A u \in Unit : Unsettled(j, u)' \/ (u \in held'[j] <=> u \in Bind!UnitsOf(j)')
    BY DEF Follows
  <2>1. j # i /\ inst'[j] = inst[j] /\ inst[j] # None /\ held'[j] = held[j]
    BY <1>1 DEF BInv, BTypes, Live
  <2>2. Bind!UnitsOf(j)' = Bind!UnitsOf(j) /\ \A u : Unsettled(j, u)' = Unsettled(j, u)
    BY <1>1, <2>1, UnitsStay DEF Bind!UnitsOf, Unsettled
  <2> QED  BY <2>1, <2>2 DEF BInv, Follows, Live
<1> QED  BY <1>3, <1>4, <1>5, <1>6, <1>7 DEF BInv

LEMMA BindAppStep ==
    ASSUME BindAssumption, BInv, NEW i \in Instance, NEW a \in App, Bind!BindApp(i, a)
    PROVE  BInv'
<1>1. /\ inst[i] # None /\ bindUnits[a] # None /\ a \notin inst[i]
      /\ inst' = [inst EXCEPT ![i] = @ \cup {a}]
      /\ calls' = calls \cup {Bind!Call("bind", i, u, TRUE) : u \in Bind!GetUnits(a)}
      /\ bindReq' = IF bindUnits[a] = <<>> THEN None ELSE [op |-> "bind", i |-> i, a |-> a]
      /\ skipped' = skipped \cup Bind!LeftOut(i, a)
      /\ UNCHANGED <<held, bindUnits, bindFresh, env, tasks, wrong>>
  BY DEF Bind!BindApp
<1>2. bindReq = None /\ calls = {} /\ tasks = {} /\ bindFresh = {}
  BY QuietBegins DEF Bind!BindApp
<1>3. /\ Bind!GetUnits(a) \subseteq Bind!UnitsIn(a) /\ Bind!UnitsIn(a) \subseteq BindUnits
  BY SeqTypes DEF BInv
<1>4. \A c \in calls' : \E u \in Bind!GetUnits(a) :
        c = [op |-> "bind", i |-> i, u |-> u, first |-> TRUE]
  BY <1>1, <1>2 DEF Bind!Call
<1>5. inst \in [Instance -> (SUBSET App) \cup {None}] /\ inst'[i] = inst[i] \cup {a}
      /\ \A j \in Instance \ {i} : inst'[j] = inst[j]
  BY <1>1 DEF BInv, BTypes
<1>6. inst'[i] # None /\ inst'[i] \in SUBSET App
  <2>1. inst[i] \in SUBSET App
    BY <1>1, <1>5
  <2> QED  BY <1>5, <2>1 DEF BindAssumption
<1>7. BTypes'
  <2>1. calls' \subseteq [op : {"bind", "unbind"}, i : Instance, u : BindUnits, first : BOOLEAN]
    <3>1. \A u \in Bind!GetUnits(a) : [op |-> "bind", i |-> i, u |-> u, first |-> TRUE]
            \in [op : {"bind", "unbind"}, i : Instance, u : BindUnits, first : BOOLEAN]
      BY <1>3
    <3> QED  BY <1>4, <3>1
  <2>2. inst' \in [Instance -> (SUBSET App) \cup {None}]
    BY <1>1, <1>5, <1>6
  <2> QED  BY <1>1, <2>1, <2>2 DEF BInv, BTypes
<1>8. OneApp'
  BY <1>1, OneAppStays DEF BInv
<1>9. EnvBound'
  BY <1>1, <1>5, <1>6 DEF BInv, BTypes, EnvBound, Bound, Live
<1>10. RequestBinds' /\ TasksTrue' /\ FreshFirst'
  BY <1>1, <1>2, <1>5, <1>6 DEF RequestBinds, TasksTrue, FreshFirst, Bound, Live
<1>11. Bind!UnitsIn(a)' = Bind!UnitsIn(a)
  BY <1>1, UnitsStay
<1>12. CallsTrue'
  <2> SUFFICES ASSUME NEW u \in Bind!GetUnits(a) PROVE Live(i)' /\ u \in Bind!UnitsOf(i)'
    BY <1>4 DEF CallsTrue
  <2>1. u \in Bind!UnitsIn(a)' /\ a \in inst'[i]
    BY <1>3, <1>5, <1>11
  <2> QED  BY <1>6, <2>1 DEF Bind!UnitsOf, Live
<1>13. Follows'
  <2> SUFFICES ASSUME NEW j \in Instance, Live(j)'
               PROVE  held'[j] # None /\ \A u \in Unit : Unsettled(j, u)' \/ (u \in held'[j] <=> u \in Bind!UnitsOf(j)')
    BY DEF Follows
  <2>1. CASE j # i
    <3>1. inst'[j] = inst[j] /\ Bind!UnitsOf(j)' = Bind!UnitsOf(j)
      BY <1>1, <1>5, <2>1, UnitsStay DEF Bind!UnitsOf
    <3>2. \A u : Unsettled(j, u) => Unsettled(j, u)'
      BY <1>1, <3>1 DEF Unsettled
    <3> QED  BY <1>1, <3>1, <3>2 DEF BInv, Follows, Live
  <2>2. CASE j = i
    <3>1. held'[i] # None
      BY <1>1 DEF BInv, Follows, Live
    <3>2. ASSUME NEW u \in Unit, u \in Bind!UnitsIn(a) PROVE Unsettled(i, u)'
      <4>1. CASE u \in Bind!GetUnits(a)
        <5>1. Bind!Call("bind", i, u, TRUE) \in calls'
          BY <1>1, <4>1
        <5> QED  BY <5>1 DEF Unsettled, Bind!Call
      <4>2. CASE u \notin Bind!GetUnits(a)
        BY <1>1, <3>2, <4>2 DEF Unsettled, Bind!LeftOut
      <4> QED  BY <4>1, <4>2
    <3>3. ASSUME NEW u \in Unit, u \notin Bind!UnitsIn(a)
          PROVE  Unsettled(i, u)' \/ (u \in held'[i] <=> u \in Bind!UnitsOf(i)')
      <4>1. u \in Bind!UnitsOf(i)' <=> u \in Bind!UnitsOf(i)
        BY <1>1, <1>5, <3>3, UnitsStay DEF Bind!UnitsOf
      <4>2. Unsettled(i, u) => Unsettled(i, u)'
        BY <1>1, <1>2 DEF Unsettled
      <4> QED  BY <1>1, <4>1, <4>2 DEF BInv, Follows, Live
    <3> QED  BY <2>2, <3>1, <3>2, <3>3
  <2> QED  BY <2>1, <2>2
<1> QED  BY <1>7, <1>8, <1>9, <1>10, <1>12, <1>13 DEF BInv

LEMMA Elsewhere ==
    ASSUME OneApp, NEW a \in App, NEW b \in App, b # a, NEW u \in Unit, Within(a, u)
    PROVE  u \notin Bind!UnitsIn(b)
BY DEF OneApp, Within

LEMMA UnbindAppStep ==
    ASSUME BindAssumption, BInv, NEW i \in Instance, NEW a \in App, Bind!UnbindApp(i, a)
    PROVE  BInv'
<1>1. /\ inst[i] # None /\ a \in inst[i]
      /\ inst' = [inst EXCEPT ![i] = @ \ {a}]
      /\ calls' = calls \cup {Bind!Call("unbind", i, u, FALSE) : u \in Bind!GetUnits(a)}
      /\ env' = [env EXCEPT ![a] = Bind!UnsetEnvs(a, i)]
      /\ skipped' = skipped \cup Bind!LeftOut(i, a)
      /\ UNCHANGED <<held, bindUnits, bindFresh, bindReq, tasks, wrong>>
  BY DEF Bind!UnbindApp, Bind!BoundTo
<1>2. bindReq = None /\ calls = {} /\ tasks = {} /\ bindFresh = {}
  BY QuietBegins DEF Bind!UnbindApp
<1>3. /\ Bind!GetUnits(a) \subseteq Bind!UnitsIn(a) /\ Bind!UnitsIn(a) \subseteq BindUnits
  BY SeqTypes DEF BInv
<1>4. \A c \in calls' : \E u \in Bind!GetUnits(a) :
        c = [op |-> "unbind", i |-> i, u |-> u, first |-> FALSE]
  BY <1>1, <1>2 DEF Bind!Call
<1>5. inst \in [Instance -> (SUBSET App) \cup {None}] /\ inst'[i] = inst[i] \ {a}
      /\ \A j \in Instance \ {i} : inst'[j] = inst[j]
  BY <1>1 DEF BInv, BTypes
<1>6. inst'[i] # None /\ inst'[i] \in SUBSET App /\ inst[i] \in SUBSET App
  <2>1. inst[i] \in SUBSET App
    BY <1>1, <1>5
  <2> QED  BY <1>5, <2>1 DEF BindAssumption
<1>7. BTypes'
  <2>1. calls' \subseteq [op : {"bind", "unbind"}, i : Instance, u : BindUnits, first : BOOLEAN]
    <3>1. \A u \in Bind!GetUnits(a) : [op |-> "unbind", i |-> i, u |-> u, first |-> FALSE]
            \in [op : {"bind", "unbind"}, i : Instance, u : BindUnits, first : BOOLEAN]
      BY <1>3
    <3> QED  BY <1>4, <3>1
  <2>2. inst' \in [Instance -> (SUBSET App) \cup {None}]
    BY <1>1, <1>5, <1>6
  <2>3. env' \in [App -> [Var -> Instance \cup {None}]]
    BY <1>1 DEF BInv, BTypes, Bind!UnsetEnvs
  <2> QED  BY <1>1, <2>1, <2>2, <2>3 DEF BInv, BTypes
<1>8. OneApp'
  BY <1>1, OneAppStays DEF BInv
<1>9. EnvBound'
  <2> SUFFICES ASSUME NEW b \in App, NEW v \in Var, env'[b][v] # None
               PROVE  Bound(env[b][v], b)'
    BY DEF EnvBound
  <2>1. env[b][v] = env'[b][v] /\ (b = a => env'[b][v] # i) /\ env[b][v] \in Instance
    BY <1>1 DEF BInv, BTypes, Bind!UnsetEnvs
  <2>2. Bound(env[b][v], b)
    BY <2>1 DEF BInv, EnvBound
  <2> QED  BY <1>5, <1>6, <2>1, <2>2 DEF Bound, Live
<1>10. RequestBinds' /\ TasksTrue' /\ FreshFirst'
  BY <1>1, <1>2 DEF RequestBinds, TasksTrue, FreshFirst
<1>11. \A b : Bind!UnitsIn(b)' = Bind!UnitsIn(b)
  BY <1>1, UnitsStay
<1>12. \A u \in Unit : u \in Bind!UnitsIn(a) => u \notin Bind!UnitsOf(i)'
  BY <1>5, <1>6, <1>11, Elsewhere DEF Bind!UnitsOf, Within, BInv
<1>13. CallsTrue'
  BY <1>3, <1>4, <1>6, <1>12 DEF CallsTrue, Live
<1>14. Follows'
  <2> SUFFICES ASSUME NEW j \in Instance, Live(j)'
               PROVE  held'[j] # None /\ \A u \in Unit : Unsettled(j, u)' \/ (u \in held'[j] <=> u \in Bind!UnitsOf(j)')
    BY DEF Follows
  <2>1. CASE j # i
    <3>1. inst'[j] = inst[j] /\ Bind!UnitsOf(j)' = Bind!UnitsOf(j)
      BY <1>1, <1>5, <2>1, UnitsStay DEF Bind!UnitsOf
    <3>2. \A u : Unsettled(j, u) => Unsettled(j, u)'
      BY <1>1, <3>1 DEF Unsettled
    <3> QED  BY <1>1, <3>1, <3>2 DEF BInv, Follows, Live
  <2>2. CASE j = i
    <3>1. held'[i] # None
      BY <1>1 DEF BInv, Follows, Live
    <3>2. ASSUME NEW u \in Unit, u \in Bind!UnitsIn(a) PROVE Unsettled(i, u)'
      <4>1. CASE u \in Bind!GetUnits(a)
        <5>1. Bind!Call("unbind", i, u, FALSE) \in calls'
          BY <1>1, <4>1
        <5> QED  BY <5>1 DEF Unsettled, Bind!Call
      <4>2. CASE u \notin Bind!GetUnits(a)
        BY <1>1, <3>2, <4>2 DEF Unsettled, Bind!LeftOut
      <4> QED  BY <4>1, <4>2
    <3>3. ASSUME NEW u \in Unit, u \notin Bind!UnitsIn(a)
          PROVE  Unsettled(i, u)' \/ (u \in held'[i] <=> u \in Bind!UnitsOf(i)')
      <4>1. u \in Bind!UnitsOf(i)' <=> u \in Bind!UnitsOf(i)
        BY <1>1, <1>5, <3>3, UnitsStay DEF Bind!UnitsOf
      <4>2. Unsettled(i, u) => Unsettled(i, u)'
        BY <1>1, <1>2 DEF Unsettled
      <4> QED  BY <1>1, <4>1, <4>2 DEF BInv, Follows, Live
    <3> QED  BY <2>2, <3>1, <3>2, <3>3
  <2> QED  BY <2>1, <2>2
<1> QED  BY <1>7, <1>8, <1>9, <1>10, <1>13, <1>14 DEF BInv

LEMMA UnitsChange ==
    ASSUME BTypes, NEW a \in App, NEW s, bindUnits' = [bindUnits EXCEPT ![a] = s]
    PROVE  /\ \A b \in App \ {a} : Bind!SeqOf(b)' = Bind!SeqOf(b) /\ Bind!UnitsIn(b)' = Bind!UnitsIn(b)
           /\ bindUnits'[a] = s /\ \A b \in App \ {a} : bindUnits'[b] = bindUnits[b]
           /\ s # None => Bind!SeqOf(a)' = s
           /\ s = None => Bind!SeqOf(a)' = <<>> /\ Bind!UnitsIn(a)' = {}
<1>1. bindUnits'[a] = s /\ \A b \in App \ {a} : bindUnits'[b] = bindUnits[b]
  BY DEF BTypes
<1>2. \A b \in App \ {a} : Bind!SeqOf(b)' = Bind!SeqOf(b)
  BY <1>1 DEF Bind!SeqOf
<1>3. \A b \in App \ {a} : Bind!UnitsIn(b)' = Bind!UnitsIn(b)
  BY <1>2 DEF Bind!UnitsIn
<1>4. s # None => Bind!SeqOf(a)' = s
  BY <1>1 DEF Bind!SeqOf
<1>5. s = None => Bind!SeqOf(a)' = <<>>
  BY <1>1 DEF Bind!SeqOf
<1>6. s = None => Bind!UnitsIn(a)' = {}
  BY <1>5 DEF Bind!UnitsIn
<1> QED  BY <1>1, <1>2, <1>3, <1>4, <1>5, <1>6

(* What the requests that only change the units of an app leave to show.   *)
LEMMA UnitsOnly ==
    ASSUME BindAssumption, BInv, NEW a \in App, UNCHANGED <<inst, held, env, wrong, skipped>>,
           bindReq' = bindReq, calls = {}, tasks = {}, bindReq = None,
           \A b \in App \ {a} : Bind!UnitsIn(b)' = Bind!UnitsIn(b),
           \A u \in Unit : (u \in Bind!UnitsIn(a)' <=> u \in Bind!UnitsIn(a))
              \/ \A i \in Instance : Bound(i, a) => Unsettled(i, u)'
    PROVE  EnvBound' /\ RequestBinds' /\ Follows'
<1>1. EnvBound' /\ RequestBinds'
  BY DEF BInv, EnvBound, RequestBinds, Bound, Live
<1>2. Follows'
  <2> SUFFICES ASSUME NEW i \in Instance, Live(i)'
               PROVE  held'[i] # None /\ \A u \in Unit : Unsettled(i, u)' \/ (u \in held'[i] <=> u \in Bind!UnitsOf(i)')
    BY DEF Follows
  <2>0. Live(i) /\ held[i] # None
    BY DEF BInv, Follows, Live
  <2> SUFFICES ASSUME NEW u \in Unit
               PROVE  Unsettled(i, u)' \/ (u \in held[i] <=> u \in Bind!UnitsOf(i)')
    BY <2>0
  <2>1. inst[i] \subseteq App
    BY <2>0 DEF BInv, BTypes, Live
  <2>2. Unsettled(i, u) => Unsettled(i, u)'
    BY DEF Unsettled
  <2>3. held[i] # None /\ (Unsettled(i, u) \/ (u \in held[i] <=> u \in Bind!UnitsOf(i)))
    BY <2>0 DEF BInv, Follows
  <2>4. CASE a \notin inst[i] \/ (u \in Bind!UnitsIn(a)' <=> u \in Bind!UnitsIn(a))
    <3>1. u \in Bind!UnitsOf(i)' <=> u \in Bind!UnitsOf(i)
      BY <2>1, <2>4 DEF Bind!UnitsOf
    <3> QED  BY <2>2, <2>3, <3>1
  <2>5. CASE a \in inst[i] /\ ~(u \in Bind!UnitsIn(a)' <=> u \in Bind!UnitsIn(a))
    BY <2>0, <2>3, <2>5 DEF Bound
  <2> QED  BY <2>4, <2>5
<1> QED  BY <1>1, <1>2

LEMMA CreateAppStep ==
    ASSUME BindAssumption, BInv, NEW a \in App, Bind!CreateApp(a) PROVE BInv'
<1>1. /\ bindUnits[a] = None /\ bindUnits' = [bindUnits EXCEPT ![a] = <<Blank>>]
      /\ UNCHANGED <<inst, held, bindFresh, env, bindReq, calls, tasks, wrong, skipped>>
  BY DEF Bind!CreateApp
<1>2. bindReq = None /\ calls = {} /\ tasks = {} /\ bindFresh = {}
  BY QuietBegins DEF Bind!CreateApp
<1>3. <<Blank>> \in Seq(BindUnits) /\ <<Blank>> # None
  <2>1. <<Blank>> \in Seq(Unit \cup {Blank})
    OBVIOUS
  <2> QED  BY <2>1 DEF BindAssumption, BindUnits
<1>4. /\ \A b \in App \ {a} : Bind!SeqOf(b)' = Bind!SeqOf(b) /\ Bind!UnitsIn(b)' = Bind!UnitsIn(b)
      /\ Bind!SeqOf(a)' = <<Blank>> /\ Bind!SeqOf(a) = <<>>
  BY <1>1, <1>3, UnitsChange DEF BInv, Bind!SeqOf
<1>5. Bind!UnitsIn(a)' = {Blank} /\ Bind!UnitsIn(a) = {}
  BY <1>4 DEF Bind!UnitsIn
<1>6. BTypes'
  BY <1>1, <1>3 DEF BInv, BTypes
<1>7. OneApp'
  BY <1>1, <1>2, <1>4, <1>5 DEF BInv, OneApp, Within, BindAssumption
<1>8. CallsTrue' /\ TasksTrue' /\ FreshFirst'
  BY <1>1, <1>2 DEF CallsTrue, TasksTrue, FreshFirst
<1>9. \A u \in Unit : u \in Bind!UnitsIn(a)' <=> u \in Bind!UnitsIn(a)
  BY <1>5 DEF BindAssumption
<1> QED  BY <1>1, <1>2, <1>4, <1>6, <1>7, <1>8, <1>9, UnitsOnly DEF BInv

LEMMA AddUnitStep ==
    ASSUME BindAssumption, BInv, NEW a \in App, NEW u \in Unit, Bind!AddUnit(a, u) PROVE BInv'
<1> DEFINE s == bindUnits[a]
<1>1. /\ s # None /\ ~ Bind!Busy(u)
      /\ bindUnits' = [bindUnits EXCEPT ![a] = Append(s, u)]
      /\ tasks' = tasks \cup {<<a, u>>}
      /\ UNCHANGED <<inst, held, bindFresh, env, bindReq, calls, wrong, skipped>>
  BY DEF Bind!AddUnit, Bind!Enqueued
<1>2. bindReq = None /\ calls = {} /\ tasks = {} /\ bindFresh = {}
  BY QuietBegins DEF Bind!AddUnit
<1>3. s \in Seq(BindUnits) /\ Bind!SeqOf(a) = s /\ u \in BindUnits
  BY <1>1 DEF BInv, BTypes, Bind!SeqOf, BindUnits
<1>4. Append(s, u) \in Seq(BindUnits) /\ Append(s, u) # None
  BY <1>3 DEF BindAssumption, BindUnits
<1>5. /\ \A b \in App \ {a} : Bind!SeqOf(b)' = Bind!SeqOf(b) /\ Bind!UnitsIn(b)' = Bind!UnitsIn(b)
      /\ Bind!SeqOf(a)' = Append(s, u)
  BY <1>1, <1>4, UnitsChange DEF BInv
<1> HIDE DEF s
<1>6. Bind!UnitsIn(a)' = Bind!UnitsIn(a) \cup {u}
  BY <1>3, <1>5 DEF Bind!UnitsIn
<1>7. \A b \in App : u \notin Bind!UnitsIn(b)
  BY <1>1 DEF Bind!Busy
<1>8. BTypes'
  <2>1. bindUnits' \in [App -> Seq(BindUnits) \cup {None}]
    BY <1>1, <1>4 DEF BInv, BTypes
  <2> QED  BY <1>1, <2>1 DEF BInv, BTypes
<1>9. OneApp'
  <2>1. \A v \in Unit : \A b, c \in App : Within(b, v)' /\ Within(c, v)' => b = c
    BY <1>1, <1>5, <1>2, <1>6, <1>7 DEF BInv, OneApp, Within
  <2>2. \A m, n \in 1..Len(Bind!SeqOf(a)') : Bind!SeqOf(a)'[m] = Bind!SeqOf(a)'[n] => m = n
    <3>1. \A m \in 1..Len(s) : s[m] # u
      BY <1>3, <1>7 DEF Bind!UnitsIn
    <3>2. \A m, n \in 1..Len(s) : s[m] = s[n] => m = n
      BY <1>3 DEF BInv, OneApp
    <3> QED  BY <1>3, <1>5, <3>1, <3>2
  <2> QED  BY <1>5, <2>1, <2>2 DEF BInv, OneApp
<1>10. CallsTrue' /\ TasksTrue' /\ FreshFirst'
  BY <1>1, <1>2, <1>6 DEF CallsTrue, TasksTrue, FreshFirst, Within
<1>11. \A v \in Unit : (v \in Bind!UnitsIn(a)' <=> v \in Bind!UnitsIn(a))
         \/ \A i \in Instance : Bound(i, a) => Unsettled(i, v)'
  BY <1>1, <1>6 DEF Bound, Unsettled
<1> QED  BY <1>1, <1>2, <1>5, <1>8, <1>9, <1>10, <1>11, UnitsOnly DEF BInv

LEMMA DeployStep ==
    ASSUME BindAssumption, BInv, NEW a \in App, NEW u \in Unit, Bind!Deploy(a, u) PROVE BInv'
<1>1. /\ bindUnits[a] \in {<<>>, <<Blank>>} /\ ~ Bind!Busy(u)
      /\ bindFresh' = bindFresh \cup {<<a, u>>} /\ tasks' = tasks \cup {<<a, u>>}
      /\ UNCHANGED <<inst, held, bindUnits, env, bindReq, calls, wrong, skipped>>
  BY DEF Bind!Deploy, Bind!Enqueued
<1>2. bindReq = None /\ calls = {} /\ tasks = {} /\ bindFresh = {}
  BY QuietBegins DEF Bind!Deploy
<1>3. \A b : Bind!SeqOf(b)' = Bind!SeqOf(b) /\ Bind!UnitsIn(b)' = Bind!UnitsIn(b)
  BY <1>1, UnitsStay
<1>4. BTypes'
  BY <1>1 DEF BInv, BTypes
<1>5. OneApp'
  <2>1. \A b \in App : u \notin Bind!UnitsIn(b)
    BY <1>1 DEF Bind!Busy
  <2>2. \A v \in Unit : \A b, c \in App : Within(b, v)' /\ Within(c, v)' => b = c
    BY <1>1, <1>2, <1>3, <2>1 DEF BInv, OneApp, Within
  <2> QED  BY <1>3, <2>2 DEF BInv, OneApp
<1>6. CallsTrue' /\ TasksTrue' /\ FreshFirst'
  BY <1>1, <1>2 DEF CallsTrue, TasksTrue, FreshFirst, Within
<1> QED  BY <1>1, <1>2, <1>3, <1>4, <1>5, <1>6, UnitsOnly DEF BInv

(* removeUnits takes the unit at n out, and no other.                      *)
LEMMA WithoutOne ==
    ASSUME NEW S, NEW s \in Seq(S), NEW n \in 1..Len(s)
    PROVE  LET w == Bind!Without(s, n)
           IN  /\ w \in Seq(S) /\ Len(w) = Len(s) - 1
               /\ \A k \in 1..Len(w) : w[k] = IF k < n THEN s[k] ELSE s[k + 1]
               /\ \A k \in 1..Len(s) : k # n => \E j \in 1..Len(w) : w[j] = s[k]
<1> DEFINE w == Bind!Without(s, n)
<1>1. Len(s) - 1 \in Nat /\ n \in Nat
  OBVIOUS
<1>2. w = [k \in 1..(Len(s) - 1) |-> IF k < n THEN s[k] ELSE s[k + 1]]
  BY DEF Bind!Without
<1>3. \A k \in 1..(Len(s) - 1) : (IF k < n THEN s[k] ELSE s[k + 1]) \in S
  OBVIOUS
<1> HIDE DEF w
<1>4. w \in [1..(Len(s) - 1) -> S]
  BY <1>2, <1>3
<1>5. w \in Seq(S) /\ Len(w) = Len(s) - 1
  BY <1>1, <1>4
<1>6. \A k \in 1..Len(w) : w[k] = IF k < n THEN s[k] ELSE s[k + 1]
  BY <1>2, <1>5
<1>7. ASSUME NEW k \in 1..Len(s), k # n PROVE \E j \in 1..Len(w) : w[j] = s[k]
  <2>1. CASE k < n
    BY <1>1, <1>5, <1>6, <2>1
  <2>2. CASE k > n
    <3>1. k - 1 \in 1..Len(w) /\ ~(k - 1 < n) /\ (k - 1) + 1 = k
      BY <1>1, <1>5, <2>2
    <3>2. w[k - 1] = s[k]
      BY <1>6, <3>1
    <3> QED  BY <3>1, <3>2
  <2> QED  BY <1>1, <1>7, <2>1, <2>2
<1> QED  BY <1>5, <1>6, <1>7 DEF w

LEMMA RemoveUnitStep ==
    ASSUME BindAssumption, BInv, NEW a \in App, NEW n \in 1..Len(Bind!SeqOf(a)),
           Bind!RemoveUnit(a, n)
    PROVE  BInv'
<1> DEFINE s == bindUnits[a]
           w == Bind!Without(s, n)
<1>0. PICK u : u = bindUnits[a][n]
  OBVIOUS
<1>1. /\ u # Blank
      /\ bindUnits' = [bindUnits EXCEPT ![a] = w]
      /\ calls' = calls \cup {Bind!Call("unbind", i, u, FALSE) : i \in Bind!BoundTo(a)}
      /\ UNCHANGED <<inst, held, bindFresh, env, bindReq, tasks, wrong, skipped>>
  BY <1>0 DEF Bind!RemoveUnit, Bind!UnbindCalls
<1>2. bindReq = None /\ calls = {} /\ tasks = {} /\ bindFresh = {}
  BY QuietBegins DEF Bind!RemoveUnit
<1>3. s \in Seq(BindUnits) /\ Bind!SeqOf(a) = s /\ s # None
  <2>1. s # None
    <3> SUFFICES ASSUME s = None PROVE FALSE
      OBVIOUS
    <3>1. Bind!SeqOf(a) = <<>>
      BY DEF Bind!SeqOf
    <3> QED  BY <3>1
  <2> QED  BY <2>1 DEF BInv, BTypes, Bind!SeqOf
<1>4. n \in 1..Len(s)
  BY <1>3
<1>5. /\ w \in Seq(BindUnits) /\ Len(w) = Len(s) - 1
      /\ \A k \in 1..Len(w) : w[k] = IF k < n THEN s[k] ELSE s[k + 1]
      /\ \A k \in 1..Len(s) : k # n => \E j \in 1..Len(w) : w[j] = s[k]
  BY <1>3, <1>4, WithoutOne
<1>6. w # None
  BY <1>5 DEF BindAssumption, BindUnits
<1>7. /\ \A b \in App \ {a} : Bind!SeqOf(b)' = Bind!SeqOf(b) /\ Bind!UnitsIn(b)' = Bind!UnitsIn(b)
      /\ Bind!SeqOf(a)' = w
  BY <1>1, <1>6, UnitsChange DEF BInv
<1>8. u \in Bind!UnitsIn(a) /\ u \in Unit
  <2>1. u \in BindUnits
    BY <1>0, <1>3, <1>4
  <2> QED  BY <1>0, <1>1, <1>3, <2>1 DEF Bind!UnitsIn, BindUnits
<1> HIDE DEF w
<1>9. \A j, k \in 1..Len(s) : s[j] = s[k] => j = k
  BY <1>3 DEF BInv, OneApp
<1>10. Len(s) \in Nat /\ n \in Nat /\ u = s[n]
  BY <1>0, <1>3
<1> HIDE DEF s
<1>11. \A k \in 1..Len(w) : \E j \in 1..Len(s) : j # n /\ w[k] = s[j]
  <2> TAKE k \in 1..Len(w)
  <2>1. CASE k < n
    BY <1>4, <1>5, <1>10, <2>1
  <2>2. CASE ~(k < n)
    <3>1. k + 1 \in 1..Len(s) /\ k + 1 # n
      BY <1>5, <1>10, <2>2
    <3>2. w[k] = s[k + 1]
      BY <1>5, <2>2
    <3> QED  BY <3>1, <3>2
  <2> QED  BY <2>1, <2>2
<1>12. Bind!UnitsIn(a)' = Bind!UnitsIn(a) \ {u}
  <2>1. Bind!UnitsIn(a)' = {w[k] : k \in 1..Len(w)} /\ Bind!UnitsIn(a) = {s[k] : k \in 1..Len(s)}
    BY <1>3, <1>7 DEF Bind!UnitsIn
  <2>2. \A k \in 1..Len(w) : w[k] \in Bind!UnitsIn(a) \ {u}
    BY <1>4, <1>9, <1>10, <1>11, <2>1
  <2>3. \A k \in 1..Len(s) : s[k] # u => s[k] \in Bind!UnitsIn(a)'
    BY <1>5, <1>10, <2>1
  <2> QED  BY <2>1, <2>2, <2>3
<1>13. BTypes'
  <2>1. calls' \subseteq [op : {"bind", "unbind"}, i : Instance, u : BindUnits, first : BOOLEAN]
    <3>1. \A i \in Instance : [op |-> "unbind", i |-> i, u |-> u, first |-> FALSE]
            \in [op : {"bind", "unbind"}, i : Instance, u : BindUnits, first : BOOLEAN]
      BY <1>8 DEF BindUnits
    <3>2. \A c \in calls' : \E i \in Instance : c = [op |-> "unbind", i |-> i, u |-> u, first |-> FALSE]
      BY <1>1, <1>2 DEF Bind!Call, Bind!BoundTo
    <3> QED  BY <3>1, <3>2
  <2>2. bindUnits' \in [App -> Seq(BindUnits) \cup {None}]
    BY <1>1, <1>5 DEF BInv, BTypes
  <2> QED  BY <1>1, <2>1, <2>2 DEF BInv, BTypes
<1>14. OneApp'
  <2>1. \A v \in Unit : \A b, c \in App : Within(b, v)' /\ Within(c, v)' => b = c
    BY <1>1, <1>7, <1>2, <1>12 DEF BInv, OneApp, Within
  <2>2. \A j, k \in 1..Len(w) : w[j] = w[k] => j = k
    <3> TAKE j, k \in 1..Len(w)
    <3> HAVE w[j] = w[k]
    <3>1. j \in Nat /\ k \in Nat /\ j + 1 \in 1..Len(s) /\ k + 1 \in 1..Len(s) /\ j \in 1..Len(s) /\ k \in 1..Len(s)
      BY <1>5, <1>10
    <3>2. (IF j < n THEN s[j] ELSE s[j + 1]) = (IF k < n THEN s[k] ELSE s[k + 1])
      BY <1>5
    <3> QED  BY <1>9, <1>10, <3>1, <3>2
  <2> QED  BY <1>7, <2>1, <2>2 DEF BInv, OneApp
<1>15. \A b \in App : u \notin Bind!UnitsIn(b)'
  BY <1>7, <1>8, <1>12, Elsewhere DEF BInv, Within
<1>16. \A c \in calls' : \E i \in Bind!BoundTo(a) : c = [op |-> "unbind", i |-> i, u |-> u, first |-> FALSE]
  BY <1>1, <1>2 DEF Bind!Call
<1>17. CallsTrue' /\ TasksTrue' /\ FreshFirst'
  <2>1. CallsTrue'
    <3> SUFFICES ASSUME NEW i \in Bind!BoundTo(a) PROVE Live(i)' /\ u \notin Bind!UnitsOf(i)'
      BY <1>16 DEF CallsTrue
    <3>1. inst'[i] = inst[i] /\ inst[i] # None /\ inst[i] \subseteq App
      BY <1>1 DEF Bind!BoundTo, BInv, BTypes
    <3> QED  BY <1>15, <3>1 DEF Live, Bind!UnitsOf
  <2> QED  BY <1>1, <1>2, <2>1 DEF TasksTrue, FreshFirst
<1>18. \A v \in Unit : (v \in Bind!UnitsIn(a)' <=> v \in Bind!UnitsIn(a))
         \/ \A i \in Instance : Bound(i, a) => Unsettled(i, v)'
  <2>1. ASSUME NEW i \in Instance, Bound(i, a) PROVE Unsettled(i, u)'
    <3>1. Bind!Call("unbind", i, u, FALSE) \in calls'
      BY <1>1, <2>1 DEF Bind!BoundTo, Bound, Live
    <3> QED  BY <3>1 DEF Unsettled, Bind!Call
  <2> QED  BY <1>12, <2>1
<1> QED  BY <1>1, <1>2, <1>7, <1>13, <1>14, <1>17, <1>18, UnitsOnly DEF BInv

LEMMA ForceDestroyStep ==
    ASSUME BindAssumption, BInv, NEW a \in App, Bind!ForceDestroy(a) PROVE BInv'
<1> DEFINE Told == UNION {Bind!UnbindCalls(a, u) : u \in Bind!GetUnits(a)}
<1>1. /\ bindUnits[a] # None /\ bindUnits' = [bindUnits EXCEPT ![a] = None]
      /\ env' = [env EXCEPT ![a] = Bind!NoEnv]
      /\ inst' = IF bindUnits[a] = <<>> THEN inst
                 ELSE [i \in Instance |-> IF inst[i] = None THEN None ELSE inst[i] \ {a}]
      /\ calls' = calls \cup Told
      /\ skipped' = skipped \cup UNION {Bind!LeftOut(i, a) : i \in Bind!BoundTo(a)}
      /\ UNCHANGED <<held, bindFresh, bindReq, tasks, wrong>>
  BY DEF Bind!ForceDestroy
<1>2. bindReq = None /\ calls = {} /\ tasks = {} /\ bindFresh = {}
  BY QuietBegins DEF Bind!ForceDestroy
<1>3. /\ Bind!GetUnits(a) \subseteq Bind!UnitsIn(a) /\ Bind!UnitsIn(a) \subseteq BindUnits
  BY SeqTypes DEF BInv
<1>4. /\ \A b \in App \ {a} : Bind!SeqOf(b)' = Bind!SeqOf(b) /\ Bind!UnitsIn(b)' = Bind!UnitsIn(b)
      /\ Bind!SeqOf(a)' = <<>> /\ Bind!UnitsIn(a)' = {}
  BY <1>1, UnitsChange DEF BInv
<1>5. inst \in [Instance -> (SUBSET App) \cup {None}]
  BY DEF BInv, BTypes
<1>6. bindUnits[a] = <<>> => Bind!UnitsIn(a) = {}
  BY <1>1 DEF Bind!UnitsIn, Bind!SeqOf
<1>7. \A i \in Instance : inst'[i] =
        IF inst[i] = None \/ bindUnits[a] = <<>> THEN inst[i] ELSE inst[i] \ {a}
  BY <1>1
<1>8. \A i \in Instance : inst[i] # None =>
        inst[i] \in SUBSET App /\ inst'[i] \in SUBSET App /\ inst'[i] # None
  <2> TAKE i \in Instance
  <2> HAVE inst[i] # None
  <2>1. inst[i] \in SUBSET App
    BY <1>5
  <2>2. inst'[i] \in SUBSET App
    BY <1>7, <2>1
  <2> QED  BY <2>1, <2>2 DEF BindAssumption
<1>9. \A i \in Instance : inst'[i] # None => inst[i] # None
  BY <1>7
<1>10. \A c \in calls' : \E i \in Bind!BoundTo(a), u \in Bind!GetUnits(a) :
         c = [op |-> "unbind", i |-> i, u |-> u, first |-> FALSE]
  BY <1>1, <1>2 DEF Bind!Call, Bind!UnbindCalls
<1> HIDE DEF Told
<1>11. BTypes'
  <2>1. calls' \subseteq [op : {"bind", "unbind"}, i : Instance, u : BindUnits, first : BOOLEAN]
    <3>1. \A i \in Instance, u \in BindUnits : [op |-> "unbind", i |-> i, u |-> u, first |-> FALSE]
            \in [op : {"bind", "unbind"}, i : Instance, u : BindUnits, first : BOOLEAN]
      OBVIOUS
    <3> SUFFICES ASSUME NEW c \in calls'
                 PROVE  c \in [op : {"bind", "unbind"}, i : Instance, u : BindUnits, first : BOOLEAN]
      OBVIOUS
    <3>2. PICK i \in Bind!BoundTo(a), u \in Bind!GetUnits(a) :
            c = [op |-> "unbind", i |-> i, u |-> u, first |-> FALSE]
      BY <1>10
    <3>3. i \in Instance /\ u \in BindUnits
      BY <1>3 DEF Bind!BoundTo
    <3> QED  BY <3>1, <3>2, <3>3
  <2>2. inst' \in [Instance -> (SUBSET App) \cup {None}]
    <3>1. DOMAIN inst' = Instance /\ inst' = [i \in Instance |-> inst'[i]]
      BY <1>1, <1>5
    <3> QED  BY <1>7, <1>8, <3>1
  <2>3. env' \in [App -> [Var -> Instance \cup {None}]]
    BY <1>1 DEF BInv, BTypes, Bind!NoEnv
  <2>4. bindUnits' \in [App -> Seq(BindUnits) \cup {None}]
    BY <1>1 DEF BInv, BTypes
  <2> QED  BY <1>1, <2>1, <2>2, <2>3, <2>4 DEF BInv, BTypes
<1>12. OneApp'
  <2>1. \A v \in Unit : \A b, c \in App : Within(b, v)' /\ Within(c, v)' => b = c
    BY <1>1, <1>4, <1>2 DEF BInv, OneApp, Within
  <2> QED  BY <1>4, <2>1 DEF BInv, OneApp
<1>13. EnvBound'
  <2> SUFFICES ASSUME NEW b \in App, NEW v \in Var, env'[b][v] # None
               PROVE  Bound(env[b][v], b)'
    <3>1. ASSUME NEW b \in App, NEW v \in Var, env'[b][v] # None PROVE env'[b][v] = env[b][v]
      BY <1>1, <3>1 DEF Bind!NoEnv, BInv, BTypes
    <3> QED  BY <3>1 DEF EnvBound, Bound, Live
  <2>1. b # a /\ env[b][v] = env'[b][v] /\ env[b][v] \in Instance
    BY <1>1 DEF BInv, BTypes, Bind!NoEnv
  <2>2. Bound(env[b][v], b)
    BY <2>1 DEF BInv, EnvBound
  <2> QED  BY <1>7, <1>8, <2>1, <2>2 DEF Bound, Live
<1>14. RequestBinds' /\ TasksTrue' /\ FreshFirst'
  BY <1>1, <1>2 DEF RequestBinds, TasksTrue, FreshFirst
<1>15. \A u \in Unit : u \in Bind!UnitsIn(a) => \A b \in App : u \notin Bind!UnitsIn(b)'
  BY <1>4, Elsewhere DEF BInv, Within
<1>16. \A u \in Unit, i \in Instance : inst[i] # None /\ u \in Bind!UnitsIn(a) => u \notin Bind!UnitsOf(i)'
  BY <1>8, <1>15 DEF Bind!UnitsOf
<1>17. CallsTrue'
  BY <1>3, <1>8, <1>10, <1>16 DEF CallsTrue, Live, Bind!BoundTo
<1>18. Follows'
  <2> SUFFICES ASSUME NEW j \in Instance, Live(j)'
               PROVE  held'[j] # None /\ \A u \in Unit : Unsettled(j, u)' \/ (u \in held'[j] <=> u \in Bind!UnitsOf(j)')
    BY DEF Follows
  <2>1. inst[j] # None /\ Live(j) /\ held'[j] = held[j] /\ held[j] # None
    BY <1>1, <1>9 DEF Live, BInv, Follows
  <2> SUFFICES ASSUME NEW u \in Unit
               PROVE  Unsettled(j, u)' \/ (u \in held[j] <=> u \in Bind!UnitsOf(j)')
    BY <2>1
  <2>2. CASE u \in Bind!UnitsIn(a) /\ a \in inst[j]
    <3>1. j \in Bind!BoundTo(a)
      BY <2>1, <2>2 DEF Bind!BoundTo
    <3>2. CASE u \in Bind!GetUnits(a)
      <4>1. Bind!Call("unbind", j, u, FALSE) \in calls'
        <5>1. Bind!Call("unbind", j, u, FALSE) \in Told
          <6>1. Bind!Call("unbind", j, u, FALSE) \in Bind!UnbindCalls(a, u)
            BY <3>1 DEF Bind!UnbindCalls
          <6> QED  BY <3>2, <6>1 DEF Told
        <5> QED  BY <1>1, <5>1
      <4> QED  BY <4>1 DEF Unsettled, Bind!Call
    <3>3. CASE u \notin Bind!GetUnits(a)
      <4>1. <<j, u>> \in Bind!LeftOut(j, a)
        BY <2>2, <3>3 DEF Bind!LeftOut
      <4>2. <<j, u>> \in skipped'
        BY <1>1, <3>1, <4>1
      <4> QED  BY <4>2 DEF Unsettled
    <3> QED  BY <3>2, <3>3
  <2>3. CASE ~(u \in Bind!UnitsIn(a) /\ a \in inst[j])
    <3>1. u \in Bind!UnitsOf(j)' <=> u \in Bind!UnitsOf(j)
      <4>1. inst[j] \subseteq App /\ \A b \in App : b # a => (b \in inst'[j] <=> b \in inst[j])
        BY <1>7, <1>8, <2>1
      <4>2. inst'[j] \subseteq App
        BY <1>8, <2>1
      <4> QED  BY <1>4, <2>3, <4>1, <4>2 DEF Bind!UnitsOf
    <3>2. Unsettled(j, u) => Unsettled(j, u)'
      BY <1>1, <1>2 DEF Unsettled
    <3> QED  BY <2>1, <3>1, <3>2 DEF BInv, Follows
  <2> QED  BY <2>2, <2>3
<1> QED  BY <1>11, <1>12, <1>13, <1>14, <1>17, <1>18 DEF BInv

LEMMA AnswerStep ==
    ASSUME BindAssumption, BInv, NEW c \in calls, NEW d \in BOOLEAN, NEW ok \in BOOLEAN,
           Bind!Answer(c, d, ok)
    PROVE  BInv'
<1>1. /\ calls' = calls \ {c}
      /\ d => held[c.i] # None
      /\ held' = IF d THEN Bind!Effect(c) ELSE held
      /\ wrong' = IF d THEN wrong \ {<<c.i, c.u>>} ELSE wrong \cup {<<c.i, c.u>>}
      /\ IF c.first /\ bindReq # None THEN Bind!Answered(ok) ELSE UNCHANGED <<bindReq, env>>
      /\ skipped' = skipped \ {<<c.i, c.u>>}
      /\ UNCHANGED <<inst, bindUnits, bindFresh, tasks>>
  BY DEF Bind!Answer
<1>2. /\ c.i \in Instance /\ c.u \in BindUnits /\ c.op \in {"bind", "unbind"}
      /\ Live(c.i) /\ held[c.i] # None
      /\ c.op = "bind" => c.u \in Bind!UnitsOf(c.i)
      /\ c.op = "unbind" /\ c.u \in Unit => c.u \notin Bind!UnitsOf(c.i)
  <2>1. c \in [op : {"bind", "unbind"}, i : Instance, u : BindUnits, first : BOOLEAN]
    BY DEF BInv, BTypes
  <2> QED  BY <2>1 DEF BInv, CallsTrue, Follows
<1>3. held \in [Instance -> (SUBSET BindUnits) \cup {None}] /\ held[c.i] \in SUBSET BindUnits
  BY <1>2 DEF BInv, BTypes
<1>4. /\ \A i \in Instance \ {c.i} : held'[i] = held[i]
      /\ d /\ c.op = "bind" => held'[c.i] = held[c.i] \cup {c.u}
      /\ d /\ c.op = "unbind" => held'[c.i] = held[c.i] \ {c.u}
      /\ ~d => held' = held
  BY <1>1, <1>2, <1>3 DEF Bind!Effect
<1>5. held'[c.i] \in SUBSET BindUnits /\ held'[c.i] # None
  <2>1. held'[c.i] \in SUBSET BindUnits
    BY <1>2, <1>3, <1>4
  <2> QED  BY <2>1 DEF BindAssumption, BindUnits
<1>6. /\ \A b : Bind!SeqOf(b)' = Bind!SeqOf(b) /\ Bind!UnitsIn(b)' = Bind!UnitsIn(b)
      /\ \A i : Bind!UnitsOf(i)' = Bind!UnitsOf(i)
  BY <1>1, UnitsStay DEF Bind!UnitsOf
<1>7. env' \in [App -> [Var -> Instance \cup {None}]] /\ EnvBound' /\ RequestBinds'
  <2>1. CASE c.first /\ bindReq # None /\ ok
    <3>1. /\ bindReq.a \in App /\ bindReq.i \in Instance /\ Bound(bindReq.i, bindReq.a)
          /\ bindReq' = None /\ env' = [env EXCEPT ![bindReq.a] = Bind!SetEnvs(bindReq.a, bindReq.i)]
      BY <1>1, <2>1 DEF Bind!Answered, BInv, RequestBinds
    <3>2. env' \in [App -> [Var -> Instance \cup {None}]]
      BY <3>1 DEF BInv, BTypes, Bind!SetEnvs
    <3>3. ASSUME NEW a \in App, NEW v \in Var, env'[a][v] # None PROVE Bound(env'[a][v], a)
      <4>1. CASE env'[a][v] = env[a][v]
        BY <3>3, <4>1 DEF BInv, EnvBound
      <4>2. CASE env'[a][v] # env[a][v]
        BY <3>1, <4>2 DEF BInv, BTypes, Bind!SetEnvs
      <4> QED  BY <4>1, <4>2
    <3> QED  BY <1>1, <3>1, <3>2, <3>3 DEF EnvBound, RequestBinds, Bound, Live
  <2>2. CASE ~(c.first /\ bindReq # None /\ ok)
    <3>1. env' = env /\ bindReq' \in {bindReq, None}
      BY <1>1, <2>2 DEF Bind!Answered
    <3> QED  BY <1>1, <3>1 DEF BInv, BTypes, EnvBound, RequestBinds, Bound, Live
  <2> QED  BY <2>1, <2>2
<1>8. BTypes'
  <2>1. held' \in [Instance -> (SUBSET BindUnits) \cup {None}]
    <3>1. held' = [i \in Instance |-> held'[i]]
      BY <1>1, <1>3 DEF Bind!Effect
    <3> QED  BY <1>3, <1>4, <1>5, <3>1
  <2>2. wrong' \subseteq Instance \X BindUnits
    BY <1>1, <1>2 DEF BInv, BTypes
  <2> QED  BY <1>1, <1>7, <2>1, <2>2 DEF BInv, BTypes
<1>9. OneApp'
  BY <1>1, OneAppStays DEF BInv
<1>10. CallsTrue' /\ TasksTrue'
  BY <1>1, <1>6 DEF BInv, CallsTrue, TasksTrue, Live, Within
<1>11. FreshFirst'
  BY <1>1 DEF BInv, FreshFirst
<1>12. Follows'
  <2> SUFFICES ASSUME NEW i \in Instance, Live(i)'
               PROVE  held'[i] # None /\ \A u \in Unit : Unsettled(i, u)' \/ (u \in held'[i] <=> u \in Bind!UnitsOf(i)')
    BY DEF Follows
  <2>1. Live(i) /\ held'[i] # None
    BY <1>1, <1>4, <1>5 DEF Live, BInv, Follows
  <2> SUFFICES ASSUME NEW u \in Unit
               PROVE  Unsettled(i, u)' \/ (u \in held'[i] <=> u \in Bind!UnitsOf(i)')
    BY <2>1
  <2>2. CASE i = c.i /\ u = c.u
    <3>1. CASE d
      BY <1>2, <1>4, <1>6, <2>2, <3>1
    <3>2. CASE ~d
      BY <1>1, <2>2, <3>2 DEF Unsettled
    <3> QED  BY <3>1, <3>2
  <2>3. CASE ~(i = c.i /\ u = c.u)
    <3>1. Unsettled(i, u) => Unsettled(i, u)'
      BY <1>1, <2>3 DEF Unsettled
    <3>2. u \in held'[i] <=> u \in held[i]
      BY <1>4, <2>3, <1>2
    <3> QED  BY <1>6, <2>1, <3>1, <3>2 DEF BInv, Follows
  <2> QED  BY <2>2, <2>3
<1> QED  BY <1>7, <1>8, <1>9, <1>10, <1>11, <1>12 DEF BInv

LEMMA CollectStep ==
    ASSUME BindAssumption, BInv, NEW a \in App, NEW u \in Unit, Bind!Collect(a, u) PROVE BInv'
<1>1. /\ <<a, u>> \in bindFresh /\ bindFresh' = bindFresh \ {<<a, u>>}
      /\ UNCHANGED <<inst, held, env, bindReq, calls, tasks, wrong, skipped>>
      /\ bindUnits' = IF bindUnits[a] = None THEN bindUnits ELSE [bindUnits EXCEPT ![a] = <<u>>]
  BY DEF Bind!Collect
<1>2. /\ calls = {} /\ tasks = {<<a, u>>} /\ bindFresh = {<<a, u>>} /\ bindFresh' = {}
      /\ bindUnits[a] \in {<<>>, <<Blank>>}
  BY <1>1 DEF BInv, FreshFirst
<1>3. /\ <<>> \in Seq(BindUnits) /\ <<Blank>> \in Seq(BindUnits) /\ <<u>> \in Seq(BindUnits)
      /\ <<u>> # None
  <2>1. <<>> \in Seq(BindUnits) /\ <<Blank>> \in Seq(BindUnits) /\ <<u>> \in Seq(BindUnits)
    BY DEF BindUnits
  <2> QED  BY <2>1 DEF BindAssumption, BindUnits
<1>4. bindUnits[a] # None
  BY <1>2, <1>3 DEF BindAssumption, BindUnits
<1>5. /\ \A b \in App \ {a} : Bind!SeqOf(b)' = Bind!SeqOf(b) /\ Bind!UnitsIn(b)' = Bind!UnitsIn(b)
      /\ Bind!SeqOf(a)' = <<u>> /\ Bind!SeqOf(a) \in {<<>>, <<Blank>>}
  BY <1>1, <1>2, <1>3, <1>4, UnitsChange DEF BInv, Bind!SeqOf
<1>6. Bind!UnitsIn(a)' = {u} /\ Bind!UnitsIn(a) \subseteq {Blank}
  BY <1>5 DEF Bind!UnitsIn
<1>7. BTypes'
  BY <1>1, <1>3 DEF BInv, BTypes
<1>8. OneApp'
  <2>1. \A v \in Unit : \A b, c \in App : Within(b, v)' /\ Within(c, v)' => b = c
    <3>1. \A v \in Unit, b \in App : Within(b, v)' => Within(b, v)
      BY <1>2, <1>5, <1>6 DEF Within
    <3> QED  BY <3>1 DEF BInv, OneApp
  <2> QED  BY <1>5, <2>1 DEF BInv, OneApp
<1>9. EnvBound' /\ RequestBinds'
  BY <1>1 DEF BInv, EnvBound, RequestBinds, Bound, Live
<1>10. CallsTrue' /\ TasksTrue' /\ FreshFirst'
  BY <1>1, <1>2, <1>6 DEF CallsTrue, TasksTrue, FreshFirst, Within
<1>11. Follows'
  <2> SUFFICES ASSUME NEW i \in Instance, Live(i)'
               PROVE  held'[i] # None /\ \A v \in Unit : Unsettled(i, v)' \/ (v \in held'[i] <=> v \in Bind!UnitsOf(i)')
    BY DEF Follows
  <2>1. Live(i) /\ inst[i] \subseteq App /\ held'[i] # None
    BY <1>1 DEF Live, BInv, BTypes, Follows
  <2> SUFFICES ASSUME NEW v \in Unit
               PROVE  Unsettled(i, v)' \/ (v \in held'[i] <=> v \in Bind!UnitsOf(i)')
    BY <2>1
  <2>2. Unsettled(i, v) => Unsettled(i, v)'
    BY <1>1 DEF Unsettled
  <2>3. CASE v = u /\ a \in inst[i]
    BY <1>1, <1>2, <2>3 DEF Unsettled
  <2>4. CASE ~(v = u /\ a \in inst[i])
    <3>1. v \in Bind!UnitsOf(i)' <=> v \in Bind!UnitsOf(i)
      BY <1>1, <1>5, <1>6, <2>1, <2>4 DEF Bind!UnitsOf, BindAssumption
    <3> QED  BY <1>1, <2>1, <2>2, <3>1 DEF BInv, Follows
  <2> QED  BY <2>3, <2>4
<1> QED  BY <1>7, <1>8, <1>9, <1>10, <1>11 DEF BInv

LEMMA BindUnitStep ==
    ASSUME BindAssumption, BInv, NEW a \in App, NEW u \in Unit, Bind!BindUnit(a, u) PROVE BInv'
<1>1. /\ <<a, u>> \in tasks /\ <<a, u>> \notin bindFresh
      /\ tasks' = tasks \ {<<a, u>>}
      /\ calls' = IF u \in Bind!UnitsIn(a)
                  THEN calls \cup {Bind!Call("bind", i, u, FALSE) : i \in Bind!BoundTo(a)} ELSE calls
      /\ UNCHANGED <<inst, held, bindUnits, bindFresh, env, bindReq, wrong, skipped>>
  BY DEF Bind!BindUnit, BindAssumption
<1>2. u \in Bind!UnitsIn(a) /\ bindFresh = {}
  BY <1>1 DEF BInv, TasksTrue, Within, FreshFirst
<1>3. /\ \A b : Bind!SeqOf(b)' = Bind!SeqOf(b) /\ Bind!UnitsIn(b)' = Bind!UnitsIn(b)
      /\ \A i : Bind!UnitsOf(i)' = Bind!UnitsOf(i)
  BY <1>1, UnitsStay DEF Bind!UnitsOf
<1>4. \A c \in calls' : c \in calls \/ \E i \in Bind!BoundTo(a) :
        c = [op |-> "bind", i |-> i, u |-> u, first |-> FALSE]
  BY <1>1, <1>2 DEF Bind!Call
<1>5. BTypes'
  <2>1. calls' \subseteq [op : {"bind", "unbind"}, i : Instance, u : BindUnits, first : BOOLEAN]
    <3>1. \A i \in Instance : [op |-> "bind", i |-> i, u |-> u, first |-> FALSE]
            \in [op : {"bind", "unbind"}, i : Instance, u : BindUnits, first : BOOLEAN]
      BY DEF BindUnits
    <3> QED  BY <1>4, <3>1, ZenonT(30) DEF Bind!BoundTo, BInv, BTypes
  <2> QED  BY <1>1, <2>1 DEF BInv, BTypes
<1>6. OneApp'
  BY <1>1, OneAppStays DEF BInv
<1>7. EnvBound' /\ RequestBinds'
  BY <1>1 DEF BInv, EnvBound, RequestBinds, Bound, Live
<1>8. CallsTrue'
  <2> SUFFICES ASSUME NEW c \in calls'
               PROVE  /\ Live(c.i)'
                      /\ c.op = "bind" => c.u \in Bind!UnitsOf(c.i)
                      /\ c.op = "unbind" /\ c.u \in Unit => c.u \notin Bind!UnitsOf(c.i)
    BY <1>3 DEF CallsTrue
  <2>1. CASE c \in calls
    BY <1>1, <2>1 DEF BInv, CallsTrue, Live
  <2>2. ASSUME NEW i \in Bind!BoundTo(a), c = [op |-> "bind", i |-> i, u |-> u, first |-> FALSE]
        PROVE  Live(c.i)' /\ c.op = "bind" /\ c.u \in Bind!UnitsOf(c.i)
    BY <1>1, <1>2, <2>2 DEF Bind!BoundTo, Live, Bind!UnitsOf
  <2> QED  BY <1>4, <2>1, <2>2
<1>9. TasksTrue' /\ FreshFirst'
  BY <1>1, <1>2, <1>3 DEF BInv, TasksTrue, FreshFirst, Within
<1>10. Follows'
  <2> SUFFICES ASSUME NEW i \in Instance, Live(i)'
               PROVE  held'[i] # None /\ \A v \in Unit : Unsettled(i, v)' \/ (v \in held'[i] <=> v \in Bind!UnitsOf(i)')
    BY DEF Follows
  <2>1. Live(i) /\ held'[i] # None
    BY <1>1 DEF Live, BInv, Follows
  <2> SUFFICES ASSUME NEW v \in Unit
               PROVE  Unsettled(i, v)' \/ (v \in held'[i] <=> v \in Bind!UnitsOf(i)')
    BY <2>1
  <2>2. CASE v = u /\ a \in inst[i]
    <3>1. Bind!Call("bind", i, u, FALSE) \in calls'
      BY <1>1, <1>2, <2>1, <2>2 DEF Bind!BoundTo, Live
    <3> QED  BY <2>2, <3>1 DEF Unsettled, Bind!Call
  <2>3. CASE ~(v = u /\ a \in inst[i])
    <3>1. Unsettled(i, v) => Unsettled(i, v)'
      BY <1>1, <2>3 DEF Unsettled
    <3> QED  BY <1>1, <1>3, <2>1, <3>1 DEF BInv, Follows
  <2> QED  BY <2>2, <2>3
<1> QED  BY <1>5, <1>6, <1>7, <1>8, <1>9, <1>10 DEF BInv

LEMMA BInvStep ==
    ASSUME BindAssumption, BInv, [Bind!Next]_BindVars PROVE BInv'
<1>1. CASE UNCHANGED BindVars
  <2>1. /\ UNCHANGED <<inst, held, bindUnits, bindFresh, env, bindReq, calls, tasks, wrong, skipped>>
        /\ \A b : Bind!SeqOf(b)' = Bind!SeqOf(b) /\ Bind!UnitsIn(b)' = Bind!UnitsIn(b)
        /\ \A i : Bind!UnitsOf(i)' = Bind!UnitsOf(i)
    BY <1>1, UnitsStay DEF BindVars, Bind!UnitsOf
  <2>2. BTypes' /\ RequestBinds' /\ EnvBound' /\ FreshFirst'
    BY <2>1 DEF BInv, BTypes, RequestBinds, EnvBound, FreshFirst, Bound, Live
  <2>3. OneApp' /\ TasksTrue'
    BY <2>1 DEF BInv, OneApp, TasksTrue, Within
  <2>4. CallsTrue'
    BY <2>1 DEF BInv, CallsTrue, Live
  <2>5. \A i, u : Unsettled(i, u)' = Unsettled(i, u)
    BY <2>1 DEF Unsettled
  <2>6. Follows'
    BY <2>1, <2>5 DEF BInv, Follows, Live
  <2> QED  BY <2>2, <2>3, <2>4, <2>6 DEF BInv
<1> QED
  BY <1>1, CreateInstanceStep, DeleteInstanceStep, BindAppStep, UnbindAppStep, AnswerStep,
     CreateAppStep, ForceDestroyStep, AddUnitStep, DeployStep, CollectStep, BindUnitStep,
     RemoveUnitStep DEF Bind!Next

LEMMA BInvBegins == ASSUME BindAssumption PROVE Bind!Init => BInv
<1> SUFFICES ASSUME Bind!Init PROVE BInv
  OBVIOUS
<1>1. \A a \in App : Bind!SeqOf(a) = <<>> /\ Bind!UnitsIn(a) = {}
  BY DEF Bind!Init, Bind!SeqOf, Bind!UnitsIn
<1>2. BTypes
  BY DEF Bind!Init, BTypes, Bind!NoEnv
<1>3. OneApp
  BY <1>1 DEF Bind!Init, OneApp, Within
<1> QED
  BY <1>2, <1>3 DEF Bind!Init, BInv, RequestBinds, EnvBound, CallsTrue, TasksTrue,
     FreshFirst, Follows, Live, Bind!NoEnv

LEMMA BInvSafe == BInv => Bind!BindingsSafe
<1> SUFFICES ASSUME BInv PROVE Bind!BindingsSafe
  OBVIOUS
<1>1. Bind!EnvMeansBound
  BY DEF BInv, EnvBound, Bound, Bind!EnvMeansBound
<1>2. Bind!UnitsFollow
  BY DEF BInv, Follows, Live, Unsettled, Bind!UnitsFollow, Bind!FollowsBut, Bind!Quiet
<1> QED  BY <1>1, <1>2 DEF Bind!BindingsSafe

(* The run of MCPlatform: every behaviour is that of one part.             *)
-----------------------------------------------------------------------------
CONSTANTS Person, Team, Members, Owners, TeamOps

VARIABLES users, team, owners, git, teamsReq, odd, teamsDone

Teams == INSTANCE TeamAccess WITH
    User <- Person, Faults <- {"git", "db"}, MaxOps <- TeamOps,
    Serial <- TRUE, req <- teamsReq, done <- teamsDone

TeamsVars == <<users, team, owners, git, teamsReq, odd, teamsDone>>

(* TeamAccess, one request at a time.  Its invariant says what a request   *)
(* has read and that it still holds, and of every user and app that        *)
(* gandalf follows the database, or which of the two a request has told.   *)

(* Every app has a team, every team of an app has members, and None is not *)
(* a request.                                                              *)
TeamRequests ==
    [at : {"grant", "store", "undo"}, by : Person, t : Team, u : Person, doc : SUBSET Person]
      \cup [at : {"revoke", "unstore"}, t : Team, u : Person, doc : SUBSET Person]
      \cup [at : {"drop"}, by : Person, t : Team]
      \cup [at : {"own", "push", "nopush"}, t : Team, a : App, doc : SUBSET Team, us : SUBSET Person]
      \cup [at : {"leave"}, u : Person, ts : SUBSET Team, docs : [Team -> SUBSET Person]]
TeamAssumption ==
    /\ Members \in [Team -> SUBSET Person] /\ Owners \in [App -> SUBSET Team]
    /\ \A a \in App : Owners[a] # {} /\ \A t \in Owners[a] : Members[t] # {}
    /\ None \notin TeamRequests

TeamTypes ==
    /\ users \subseteq Person /\ team \in [Team -> SUBSET Person]
    /\ owners \in [App -> SUBSET Team] /\ git \in [App -> SUBSET Person]
    /\ teamsReq \in [Req -> TeamRequests \cup {None}]
Alone == \A r, s \in Req : teamsReq[r] # None /\ teamsReq[s] # None => r = s
Peopled ==
    /\ \A t \in Team : team[t] \subseteq users
    /\ \A a \in App : owners[a] # {} /\ \A t \in owners[a] : team[t] # {}
StillTrue(q) ==
    /\ q.at \in {"grant", "store", "undo"} => q.doc = team[q.t] /\ q.by \in team[q.t] /\ q.u \in users
    /\ q.at \in {"revoke", "unstore"} => q.doc = team[q.t] /\ q.doc \ {q.u} # {}
    /\ q.at = "drop" => Teams!OfTeam(q.t) = {}
    /\ q.at = "own" => /\ q.doc # {} /\ q.us = team[q.t] /\ q.us # {}
                       /\ q.doc = owners[q.a] \cup {q.t} \/ q.doc = owners[q.a] \ {q.t}
                       /\ q.t \in q.doc <=> q.t \notin owners[q.a]
    /\ q.at \in {"push", "nopush"} => q.us = team[q.t] /\ q.doc = owners[q.a]
    /\ q.at = "push" => q.t \in q.doc
    /\ q.at = "leave" => q.ts = {t \in Team : q.u \in team[t]} /\ \A t \in q.ts : q.docs[t] = team[t]
ReadsHold == \A r \in Req : teamsReq[r] # None => StillTrue(teamsReq[r])

(* A request between gandalf and the database, about u and a, and what it  *)
(* has done in gandalf.                                                    *)
Between(q, u, a) ==
    /\ q # None
    /\ \/ q.at \in {"store", "undo", "unstore"} /\ u = q.u /\ a \in Teams!OfTeam(q.t)
       \/ q.at \in {"push", "nopush"} /\ a = q.a /\ u \in q.us
       \/ q.at = "leave" /\ u = q.u
Already(q, u, a) ==
    /\ q.at \in {"store", "undo", "nopush"} => u \in git[a]
    /\ q.at \in {"unstore", "leave"} => u \notin git[a]
    /\ q.at = "unstore" => a \notin Teams!Elsewhere(u, q.t)
Mirrors(u, a) ==
    /\ \A r \in Req : Between(teamsReq[r], u, a) => Already(teamsReq[r], u, a)
    /\ (\A r \in Req : ~Between(teamsReq[r], u, a)) => (u \in git[a] <=> a \in Teams!AllowedApps(u))
GitMirrors == \A u \in Person, a \in App : <<u, a>> \notin odd => Mirrors(u, a)

TInv == TeamTypes /\ Alone /\ Peopled /\ ReadsHold /\ GitMirrors

(* Who reaches an app changes with team and owners only. *)
LEMMA AccessStays ==
    ASSUME UNCHANGED <<team, owners>>
    PROVE  /\ \A u \in Person : Teams!AllowedApps(u)' = Teams!AllowedApps(u)
           /\ \A t \in Team : Teams!OfTeam(t)' = Teams!OfTeam(t)
           /\ \A u \in Person, t \in Team : Teams!Elsewhere(u, t)' = Teams!Elsewhere(u, t)
BY DEF Teams!AllowedApps, Teams!OfTeam, Teams!Elsewhere

LEMMA TeamBegins ==
    ASSUME TeamAssumption, TInv, NEW r \in Req, Teams!Begins(r)
    PROVE  /\ \A s \in Req : teamsReq[s] = None
           /\ \A u \in Person, a \in App : <<u, a>> \notin odd => (u \in git[a] <=> a \in Teams!AllowedApps(u))
<1>1. \A s \in Req : teamsReq[s] = None
  BY DEF Teams!Begins
<1>2. \A u, a : \A s \in Req : ~Between(teamsReq[s], u, a)
  BY <1>1 DEF Between
<1> QED  BY <1>1, <1>2 DEF TInv, GitMirrors, Mirrors

(* What a request of each kind carries, and that it is one at its next step. *)
LEMMA TeamShapes ==
    ASSUME NEW q \in TeamRequests
    PROVE  /\ q.at \in {"grant", "store", "undo"} =>
                /\ q.by \in Person /\ q.t \in Team /\ q.u \in Person /\ q.doc \subseteq Person
                /\ \A at \in {"grant", "store", "undo"} : [q EXCEPT !.at = at] \in TeamRequests
           /\ q.at \in {"revoke", "unstore"} =>
                /\ q.t \in Team /\ q.u \in Person /\ q.doc \subseteq Person
                /\ \A at \in {"revoke", "unstore"} : [q EXCEPT !.at = at] \in TeamRequests
           /\ q.at = "drop" => q.by \in Person /\ q.t \in Team
           /\ q.at \in {"own", "push", "nopush"} =>
                /\ q.t \in Team /\ q.a \in App /\ q.doc \subseteq Team /\ q.us \subseteq Person
                /\ \A at \in {"own", "push", "nopush"} : [q EXCEPT !.at = at] \in TeamRequests
           /\ q.at = "leave" =>
                /\ q.u \in Person /\ q.ts \subseteq Team /\ q.docs \in [Team -> SUBSET Person]
                /\ \A ts \in SUBSET Team : [q EXCEPT !.ts = ts] \in TeamRequests
BY DEF TeamRequests

LEMMA TeamGoesOn ==
    ASSUME TeamAssumption, TInv, NEW r \in Req, teamsReq[r] # None
    PROVE  /\ teamsReq[r] \in TeamRequests /\ StillTrue(teamsReq[r])
           /\ \A s \in Req : s # r => teamsReq[s] = None
           /\ \A u \in Person, a \in App : <<u, a>> \notin odd =>
                 IF Between(teamsReq[r], u, a) THEN Already(teamsReq[r], u, a)
                 ELSE u \in git[a] <=> a \in Teams!AllowedApps(u)
<1>1. /\ teamsReq[r] \in TeamRequests /\ StillTrue(teamsReq[r])
      /\ \A s \in Req : s # r => teamsReq[s] = None
  BY DEF TInv, TeamTypes, Alone, ReadsHold
<1>2. \A u, a : \A s \in Req : s # r => ~Between(teamsReq[s], u, a)
  BY <1>1 DEF Between
<1> QED  BY <1>1, <1>2 DEF TInv, GitMirrors, Mirrors

(* The state after a step of r, which goes on, or not. *)
LEMMA TeamAfter ==
    ASSUME TeamAssumption, TInv, NEW r \in Req, NEW q \in TeamRequests \cup {None},
           \A s \in Req : s # r => teamsReq[s] = None,
           teamsReq' = [teamsReq EXCEPT ![r] = q],
           users' \subseteq Person, team' \in [Team -> SUBSET Person],
           owners' \in [App -> SUBSET Team], git' \in [App -> SUBSET Person],
           Peopled', q # None => StillTrue(q)',
           \A u \in Person, a \in App : <<u, a>> \notin odd' =>
                 IF Between(q, u, a)' THEN Already(q, u, a)'
                 ELSE u \in git'[a] <=> a \in Teams!AllowedApps(u)'
    PROVE  TInv'
<1>1. teamsReq'[r] = q /\ \A s \in Req : s # r => teamsReq'[s] = None
  BY DEF TInv, TeamTypes
<1>2. TeamTypes' /\ Alone'
  BY <1>1 DEF TInv, TeamTypes, Alone
<1>3. ReadsHold'
  BY <1>1 DEF ReadsHold, StillTrue
<1>4. \A u, a : \A s \in Req : s # r => ~Between(teamsReq[s], u, a)'
  BY <1>1 DEF Between
<1>5. \A u, a : (Between(teamsReq[r], u, a)' <=> Between(q, u, a)')
               /\ (Already(teamsReq[r], u, a)' <=> Already(q, u, a)')
  BY <1>1 DEF Between, Already
<1>6. GitMirrors'
  BY <1>4, <1>5 DEF GitMirrors, Mirrors
<1> QED  BY <1>2, <1>3, <1>6 DEF TInv

(* ... when it has not begun with gandalf, or is over. *)
LEMMA TeamRests ==
    ASSUME TeamAssumption, TInv, NEW r \in Req, NEW q \in TeamRequests \cup {None},
           \A s \in Req : s # r => teamsReq[s] = None,
           teamsReq' = [teamsReq EXCEPT ![r] = q],
           users' \subseteq Person, team' \in [Team -> SUBSET Person],
           owners' \in [App -> SUBSET Team], git' \in [App -> SUBSET Person],
           Peopled', q # None => StillTrue(q)',
           q = None \/ q.at \in {"grant", "revoke", "drop", "own"},
           \A u \in Person, a \in App : <<u, a>> \notin odd' =>
                 (u \in git'[a] <=> a \in Teams!AllowedApps(u)')
    PROVE  TInv'
<1>1. \A u, a : ~Between(q, u, a)'
  BY DEF Between
<1> QED  BY <1>1, TeamAfter

LEMMA TeamOnly ==
    ASSUME TeamAssumption, TInv, NEW r \in Req, NEW q \in TeamRequests \cup {None},
           \A s \in Req : s # r => teamsReq[s] = None,
           teamsReq' = [teamsReq EXCEPT ![r] = q],
           UNCHANGED <<users, team, owners, git, odd>>,
           q # None => StillTrue(q),
           q = None \/ q.at \in {"grant", "revoke", "drop", "own"},
           \A u \in Person, a \in App : <<u, a>> \notin odd =>
                 (u \in git[a] <=> a \in Teams!AllowedApps(u))
    PROVE  TInv'
<1>1. Peopled' /\ (q # None => StillTrue(q)')
  BY DEF TInv, Peopled, StillTrue, Teams!OfTeam
<1>2. \A u \in Person, a \in App : <<u, a>> \notin odd' => (u \in git'[a] <=> a \in Teams!AllowedApps(u)')
  BY AccessStays
<1> QED  BY <1>1, <1>2, TeamRests DEF TInv, TeamTypes

LEMMA AddUserStep ==
    ASSUME TeamAssumption, TInv, NEW r \in Req, NEW by \in Person, NEW t \in Team, NEW u \in Person,
           Teams!AddUser(r, by, t, u)
    PROVE  TInv'
<1>1. PICK q : q = [at |-> "grant", by |-> by, t |-> t, u |-> u, doc |-> team[t]]
  OBVIOUS
<1>2. /\ teamsReq' = [teamsReq EXCEPT ![r] = q]
      /\ by \in team[t] /\ u \in users /\ UNCHANGED <<users, team, owners, git, odd>>
  BY <1>1 DEF Teams!AddUser
<1>3. q \in TeamRequests
  BY <1>1 DEF TInv, TeamTypes, TeamRequests
<1>4. StillTrue(q)
  BY <1>1, <1>2 DEF StillTrue
<1> QED  BY <1>1, <1>2, <1>3, <1>4, TeamBegins, TeamOnly DEF Teams!AddUser

LEMMA AddInGandalfStep ==
    ASSUME TeamAssumption, TInv, NEW r \in Req, Teams!AddInGandalf(r) PROVE TInv'
<1>1. PICK q : q = teamsReq[r]
  OBVIOUS
<1>2. /\ q # None /\ q.at = "grant"
      /\ \/ /\ git' = [a \in App |-> IF a \in Teams!AllowedApps(q.by) THEN git[a] \cup {q.u} ELSE git[a]]
            /\ odd' = odd \cup ({q.u} \X (Teams!AllowedApps(q.by) \ Teams!OfTeam(q.t)))
            /\ teamsReq' = [teamsReq EXCEPT ![r].at = "store"]
         \/ teamsReq' = [teamsReq EXCEPT ![r] = None] /\ UNCHANGED <<git, odd>>
      /\ UNCHANGED <<users, team, owners>>
  BY <1>1 DEF Teams!AddInGandalf, Teams!At, Teams!Grants, Teams!Part, Teams!Go, Teams!Ends
<1>3. /\ q \in TeamRequests /\ q.by \in Person /\ q.t \in Team /\ q.u \in Person
      /\ [q EXCEPT !.at = "store"] \in TeamRequests
      /\ \A s \in Req : s # r => teamsReq[s] = None
      /\ StillTrue(q)
      /\ \A v, a : ~Between(q, v, a)
      /\ \A v \in Person, a \in App : <<v, a>> \notin odd => (v \in git[a] <=> a \in Teams!AllowedApps(v))
  <2>1. \A v, a : ~Between(q, v, a)
    BY <1>2 DEF Between
  <2> QED  BY <1>1, <1>2, <2>1, TeamGoesOn, TeamShapes
<1>4. Peopled'
  BY <1>2 DEF TInv, Peopled
<1>5. CASE teamsReq' = [teamsReq EXCEPT ![r] = None] /\ UNCHANGED <<git, odd>>
  BY <1>2, <1>3, <1>5, TeamOnly
<1>6. CASE /\ git' = [a \in App |-> IF a \in Teams!AllowedApps(q.by) THEN git[a] \cup {q.u} ELSE git[a]]
           /\ odd' = odd \cup ({q.u} \X (Teams!AllowedApps(q.by) \ Teams!OfTeam(q.t)))
           /\ teamsReq' = [teamsReq EXCEPT ![r].at = "store"]
  <2>1. PICK p : p = [q EXCEPT !.at = "store"]
    OBVIOUS
  <2>2. p \in TeamRequests /\ p.at = "store" /\ p.by = q.by /\ p.t = q.t /\ p.u = q.u /\ p.doc = q.doc
    BY <1>2, <1>3, <2>1 DEF TeamRequests
  <2>3. teamsReq' = [teamsReq EXCEPT ![r] = p]
    BY <1>1, <1>6, <2>1 DEF TInv, TeamTypes
  <2>4. StillTrue(p)'
    BY <1>2, <1>3, <2>2 DEF StillTrue
  <2>5. Teams!OfTeam(q.t) \subseteq Teams!AllowedApps(q.by) /\ git' \in [App -> SUBSET Person]
    BY <1>2, <1>3, <1>6 DEF StillTrue, Teams!OfTeam, Teams!AllowedApps, TInv, TeamTypes
  <2>6. ASSUME NEW v \in Person, NEW a \in App, <<v, a>> \notin odd'
        PROVE  IF Between(p, v, a)' THEN Already(p, v, a)' ELSE v \in git'[a] <=> a \in Teams!AllowedApps(v)'
    <3>1. <<v, a>> \notin odd /\ ~(v = q.u /\ a \in Teams!AllowedApps(q.by) \ Teams!OfTeam(q.t))
      BY <1>6, <2>6
    <3>2. CASE v = q.u /\ a \in Teams!OfTeam(q.t)
      <4>1. v \in git'[a] /\ Already(p, v, a)'
        BY <1>6, <2>2, <2>5, <3>2 DEF Already
      <4>2. Between(p, v, a)'
        BY <1>2, <1>3, <2>2, <3>2, AccessStays DEF Between, TeamAssumption
      <4> QED  BY <4>1, <4>2
    <3>3. CASE ~(v = q.u /\ a \in Teams!OfTeam(q.t))
      <4>1. ~Between(p, v, a)'
        BY <1>2, <1>3, <2>2, <3>3, AccessStays DEF Between
      <4>2. git'[a] = git[a] \/ (v # q.u /\ git'[a] = git[a] \cup {q.u})
        BY <1>6, <3>1, <3>3
      <4> QED  BY <1>2, <1>3, <3>1, <4>1, <4>2, AccessStays
    <3> QED  BY <3>2, <3>3
  <2> QED  BY <1>2, <1>3, <1>4, <2>2, <2>3, <2>4, <2>5, <2>6, TeamAfter DEF TInv, TeamTypes
<1> QED  BY <1>2, <1>5, <1>6

LEMMA AddInDatabaseStep ==
    ASSUME TeamAssumption, TInv, NEW r \in Req, Teams!AddInDatabase(r) PROVE TInv'
<1>1. PICK q : q = teamsReq[r]
  OBVIOUS
<1>2. /\ q # None /\ q.at = "store"
      /\ \/ /\ q.u \in users
            /\ team' = [team EXCEPT ![q.t] = q.doc \cup {q.u}] /\ teamsReq' = [teamsReq EXCEPT ![r] = None]
         \/ team' = team /\ teamsReq' = [teamsReq EXCEPT ![r].at = "undo"]
      /\ UNCHANGED <<users, owners, git, odd>>
  BY <1>1 DEF Teams!AddInDatabase, Teams!At, Teams!Go, Teams!Ends
<1>3. /\ q \in TeamRequests /\ q.t \in Team /\ q.u \in Person /\ q.doc \subseteq Person
      /\ [q EXCEPT !.at = "undo"] \in TeamRequests
      /\ \A s \in Req : s # r => teamsReq[s] = None
      /\ StillTrue(q)
  BY <1>1, <1>2, TeamGoesOn, TeamShapes
<1>4. \A v \in Person, a \in App : <<v, a>> \notin odd =>
          IF v = q.u /\ a \in Teams!OfTeam(q.t) THEN v \in git[a] ELSE v \in git[a] <=> a \in Teams!AllowedApps(v)
  BY <1>1, <1>2, TeamGoesOn DEF Between, Already
<1>5. CASE team' = team /\ teamsReq' = [teamsReq EXCEPT ![r].at = "undo"]
  <2>1. PICK p : p = [q EXCEPT !.at = "undo"]
    OBVIOUS
  <2>2. p \in TeamRequests /\ p.at = "undo" /\ p.by = q.by /\ p.t = q.t /\ p.u = q.u /\ p.doc = q.doc
    BY <1>2, <1>3, <2>1 DEF TeamRequests
  <2>3. teamsReq' = [teamsReq EXCEPT ![r] = p]
    BY <1>1, <1>5, <2>1 DEF TInv, TeamTypes
  <2>4. StillTrue(p)' /\ Peopled'
    BY <1>2, <1>3, <1>5, <2>2 DEF StillTrue, TInv, Peopled
  <2>5. ASSUME NEW v \in Person, NEW a \in App, <<v, a>> \notin odd'
        PROVE  IF Between(p, v, a)' THEN Already(p, v, a)' ELSE v \in git'[a] <=> a \in Teams!AllowedApps(v)'
    <3>1. Between(p, v, a)' <=> (v = q.u /\ a \in Teams!OfTeam(q.t))
      BY <1>3, <1>5, <1>2, <2>2, AccessStays DEF Between, TeamAssumption
    <3>2. v \in git[a] => Already(p, v, a)'
      BY <1>2, <2>2 DEF Already
    <3> QED  BY <1>2, <1>4, <1>5, <2>5, <3>1, <3>2, AccessStays
  <2> QED  BY <1>2, <1>3, <1>5, <2>2, <2>3, <2>4, <2>5, TeamAfter DEF TInv, TeamTypes
<1>6. CASE /\ q.u \in users
           /\ team' = [team EXCEPT ![q.t] = q.doc \cup {q.u}] /\ teamsReq' = [teamsReq EXCEPT ![r] = None]
  <2>1. q.doc = team[q.t] /\ team' \in [Team -> SUBSET Person]
    BY <1>2, <1>3, <1>6 DEF StillTrue, TInv, TeamTypes
  <2>2. Peopled'
    BY <1>2, <1>3, <1>6, <2>1 DEF TInv, TeamTypes, Peopled
  <2>3. ASSUME NEW v \in Person, NEW a \in App, <<v, a>> \notin odd'
        PROVE  v \in git'[a] <=> a \in Teams!AllowedApps(v)'
    <3>1. a \in Teams!AllowedApps(v)' <=>
            a \in Teams!AllowedApps(v) \/ (v = q.u /\ a \in Teams!OfTeam(q.t))
      BY <1>2, <1>3, <1>6, <2>1 DEF Teams!AllowedApps, Teams!OfTeam, TInv, TeamTypes
    <3> QED  BY <1>2, <1>4, <2>3, <3>1
  <2> QED  BY <1>2, <1>3, <1>6, <2>1, <2>2, <2>3, TeamRests DEF TInv, TeamTypes
<1> QED  BY <1>2, <1>5, <1>6

LEMMA UndoStep ==
    ASSUME TeamAssumption, TInv, NEW r \in Req, Teams!Undo(r) PROVE TInv'
<1>1. PICK q : q = teamsReq[r]
  OBVIOUS
<1>2. /\ q # None /\ q.at = "undo" /\ teamsReq' = [teamsReq EXCEPT ![r] = None]
      /\ \/ git' = [a \in App |-> IF a \in Teams!OfTeam(q.t) THEN git[a] \ {q.u} ELSE git[a]]
         \/ git' = git
      /\ odd' = odd \cup ({q.u} \X Teams!OfTeam(q.t))
      /\ UNCHANGED <<users, team, owners>>
  BY <1>1 DEF Teams!Undo, Teams!At, Teams!Ends, Teams!Revokes, Teams!Part
<1>3. q \in TeamRequests /\ \A s \in Req : s # r => teamsReq[s] = None
  BY <1>1, <1>2, TeamGoesOn
<1>4. \A v \in Person, a \in App : <<v, a>> \notin odd /\ ~(v = q.u /\ a \in Teams!OfTeam(q.t)) =>
          (v \in git[a] <=> a \in Teams!AllowedApps(v))
  BY <1>1, <1>2, TeamGoesOn DEF Between
<1>5. Peopled' /\ git' \in [App -> SUBSET Person]
  BY <1>2 DEF TInv, TeamTypes, Peopled
<1>6. ASSUME NEW v \in Person, NEW a \in App, <<v, a>> \notin odd'
      PROVE  v \in git'[a] <=> a \in Teams!AllowedApps(v)'
  <2>1. <<v, a>> \notin odd /\ ~(v = q.u /\ a \in Teams!OfTeam(q.t))
    BY <1>2, <1>6
  <2> QED  BY <1>2, <1>4, <2>1, AccessStays
<1> QED  BY <1>2, <1>3, <1>5, <1>6, TeamRests DEF TInv, TeamTypes

LEMMA TeamsCount == \A S : Teams!Cardinality(S) = Cardinality(S)
BY DEF Teams!Cardinality, Cardinality

LEMMA NotLast == ASSUME NEW S, NEW x, Cardinality(S) # 1, S # {} PROVE S \ {x} # {}
<1>1. CASE S \ {x} = {}
  <2>1. S = {x}
    BY <1>1
  <2> QED  BY <2>1, FS_Singleton
<1> QED  BY <1>1

LEMMA RemoveUserFromTeamStep ==
    ASSUME TeamAssumption, TInv, NEW r \in Req, NEW by \in Person, NEW t \in Team, NEW u \in Person,
           Teams!RemoveUserFromTeam(r, by, t, u)
    PROVE  TInv'
<1>1. PICK q : q = [at |-> "revoke", t |-> t, u |-> u, doc |-> team[t]]
  OBVIOUS
<1>2. /\ teamsReq' = [teamsReq EXCEPT ![r] = q]
      /\ by \in team[t] /\ ~Teams!LastMember(team[t]) /\ UNCHANGED <<users, team, owners, git, odd>>
  BY <1>1 DEF Teams!RemoveUserFromTeam
<1>3. q \in TeamRequests
  BY <1>1 DEF TInv, TeamTypes, TeamRequests
<1>4. StillTrue(q)
  <2>1. Cardinality(team[t]) # 1 /\ team[t] # {}
    BY <1>2, TeamsCount DEF Teams!LastMember
  <2>2. team[t] \ {u} # {}
    BY <2>1, NotLast
  <2> QED  BY <1>1, <2>2 DEF StillTrue
<1> QED  BY <1>1, <1>2, <1>3, <1>4, TeamBegins, TeamOnly DEF Teams!RemoveUserFromTeam

LEMMA RemoveInGandalfStep ==
    ASSUME TeamAssumption, TInv, NEW r \in Req, Teams!RemoveInGandalf(r) PROVE TInv'
<1>1. PICK q : q = teamsReq[r]
  OBVIOUS
<1>2. /\ q # None /\ q.at = "revoke"
      /\ \/ /\ git' = [a \in App |-> IF a \in Teams!OfTeam(q.t) THEN git[a] \ {q.u} ELSE git[a]]
            /\ odd' = odd \cup ({q.u} \X (Teams!OfTeam(q.t) \cap Teams!Elsewhere(q.u, q.t)))
            /\ teamsReq' = [teamsReq EXCEPT ![r].at = "unstore"]
         \/ teamsReq' = [teamsReq EXCEPT ![r] = None] /\ UNCHANGED <<git, odd>>
      /\ UNCHANGED <<users, team, owners>>
  BY <1>1 DEF Teams!RemoveInGandalf, Teams!At, Teams!Revokes, Teams!Part, Teams!Go, Teams!Ends
<1>3. /\ q \in TeamRequests /\ q.t \in Team /\ q.u \in Person
      /\ [q EXCEPT !.at = "unstore"] \in TeamRequests
      /\ \A s \in Req : s # r => teamsReq[s] = None
      /\ StillTrue(q)
      /\ \A v \in Person, a \in App : <<v, a>> \notin odd => (v \in git[a] <=> a \in Teams!AllowedApps(v))
  <2>1. \A v, a : ~Between(q, v, a)
    BY <1>2 DEF Between
  <2> QED  BY <1>1, <1>2, <2>1, TeamGoesOn, TeamShapes
<1>4. CASE teamsReq' = [teamsReq EXCEPT ![r] = None] /\ UNCHANGED <<git, odd>>
  BY <1>2, <1>3, <1>4, TeamOnly
<1>5. CASE /\ git' = [a \in App |-> IF a \in Teams!OfTeam(q.t) THEN git[a] \ {q.u} ELSE git[a]]
           /\ odd' = odd \cup ({q.u} \X (Teams!OfTeam(q.t) \cap Teams!Elsewhere(q.u, q.t)))
           /\ teamsReq' = [teamsReq EXCEPT ![r].at = "unstore"]
  <2>1. PICK p : p = [q EXCEPT !.at = "unstore"]
    OBVIOUS
  <2>2. p \in TeamRequests /\ p.at = "unstore" /\ p.t = q.t /\ p.u = q.u /\ p.doc = q.doc
    BY <1>2, <1>3, <2>1 DEF TeamRequests
  <2>3. teamsReq' = [teamsReq EXCEPT ![r] = p]
    BY <1>1, <1>5, <2>1 DEF TInv, TeamTypes
  <2>4. StillTrue(p)' /\ Peopled' /\ git' \in [App -> SUBSET Person]
    BY <1>2, <1>3, <1>5, <2>2 DEF StillTrue, TInv, TeamTypes, Peopled
  <2>5. ASSUME NEW v \in Person, NEW a \in App, <<v, a>> \notin odd'
        PROVE  IF Between(p, v, a)' THEN Already(p, v, a)' ELSE v \in git'[a] <=> a \in Teams!AllowedApps(v)'
    <3>1. <<v, a>> \notin odd /\ ~(v = q.u /\ a \in Teams!OfTeam(q.t) /\ a \in Teams!Elsewhere(q.u, q.t))
      BY <1>5, <2>5
    <3>2. Between(p, v, a)' <=> (v = q.u /\ a \in Teams!OfTeam(q.t))
      BY <1>2, <1>3, <2>2, AccessStays DEF Between, TeamAssumption
    <3>3. CASE v = q.u /\ a \in Teams!OfTeam(q.t)
      <4>1. v \notin git'[a] /\ a \notin Teams!Elsewhere(v, q.t)'
        BY <1>2, <1>3, <1>5, <3>1, <3>3, AccessStays
      <4> QED  BY <2>2, <3>2, <3>3, <4>1 DEF Already
    <3>4. CASE ~(v = q.u /\ a \in Teams!OfTeam(q.t))
      <4>1. v \in git'[a] <=> v \in git[a]
        BY <1>5, <3>4
      <4> QED  BY <1>2, <1>3, <3>1, <3>2, <3>4, <4>1, AccessStays
    <3> QED  BY <3>3, <3>4
  <2> QED  BY <1>2, <1>3, <1>5, <2>2, <2>3, <2>4, <2>5, TeamAfter DEF TInv, TeamTypes
<1> QED  BY <1>2, <1>4, <1>5

LEMMA RemoveInDatabaseStep ==
    ASSUME TeamAssumption, TInv, NEW r \in Req, Teams!RemoveInDatabase(r) PROVE TInv'
<1>1. PICK q : q = teamsReq[r]
  OBVIOUS
<1>2. /\ q # None /\ q.at = "unstore" /\ teamsReq' = [teamsReq EXCEPT ![r] = None]
      /\ \/ /\ q.u \in q.doc
            /\ team' = [team EXCEPT ![q.t] = q.doc \ {q.u}] /\ odd' = odd
         \/ /\ team' = team
            /\ odd' = odd \cup ((IF q.u \in q.doc THEN {q.u} ELSE {}) \X Teams!OfTeam(q.t))
      /\ UNCHANGED <<users, owners, git>>
  BY <1>1 DEF Teams!RemoveInDatabase, Teams!At, Teams!Ends, Teams!Part
<1>3. /\ q \in TeamRequests /\ q.t \in Team /\ q.u \in Person
      /\ \A s \in Req : s # r => teamsReq[s] = None
      /\ q.doc = team[q.t] /\ q.doc \ {q.u} # {}
  BY <1>1, <1>2, TeamGoesOn, TeamShapes DEF StillTrue
<1>4. \A v \in Person, a \in App : <<v, a>> \notin odd =>
          IF v = q.u /\ a \in Teams!OfTeam(q.t)
          THEN v \notin git[a] /\ a \notin Teams!Elsewhere(v, q.t)
          ELSE v \in git[a] <=> a \in Teams!AllowedApps(v)
  BY <1>1, <1>2, TeamGoesOn DEF Between, Already
<1>5. CASE q.u \in q.doc /\ team' = [team EXCEPT ![q.t] = q.doc \ {q.u}] /\ odd' = odd
  <2>1. Peopled' /\ team' \in [Team -> SUBSET Person]
    BY <1>2, <1>3, <1>5 DEF TInv, TeamTypes, Peopled
  <2>2. ASSUME NEW v \in Person, NEW a \in App, <<v, a>> \notin odd'
        PROVE  v \in git'[a] <=> a \in Teams!AllowedApps(v)'
    <3>1. a \in Teams!AllowedApps(v)' <=>
            IF v = q.u /\ a \in Teams!OfTeam(q.t) THEN a \in Teams!Elsewhere(v, q.t)
            ELSE a \in Teams!AllowedApps(v)
      BY <1>2, <1>3, <1>5 DEF Teams!AllowedApps, Teams!OfTeam, Teams!Elsewhere, TInv, TeamTypes
    <3> QED  BY <1>2, <1>4, <1>5, <2>2, <3>1
  <2> QED  BY <1>2, <1>3, <1>5, <2>1, <2>2, TeamRests DEF TInv, TeamTypes
<1>6. CASE /\ team' = team
           /\ odd' = odd \cup ((IF q.u \in q.doc THEN {q.u} ELSE {}) \X Teams!OfTeam(q.t))
  <2>1. Peopled'
    BY <1>2, <1>6 DEF TInv, TeamTypes, Peopled
  <2>2. ASSUME NEW v \in Person, NEW a \in App, <<v, a>> \notin odd'
        PROVE  v \in git'[a] <=> a \in Teams!AllowedApps(v)'
    <3>1. <<v, a>> \notin odd /\ ~(q.u \in q.doc /\ v = q.u /\ a \in Teams!OfTeam(q.t))
      BY <1>6, <2>2
    <3>2. q.u \notin q.doc /\ v = q.u => (a \in Teams!AllowedApps(v) => a \in Teams!Elsewhere(v, q.t))
      BY <1>3 DEF Teams!AllowedApps, Teams!Elsewhere
    <3> QED  BY <1>2, <1>4, <1>6, <3>1, <3>2, AccessStays
  <2> QED  BY <1>2, <1>3, <1>6, <2>1, <2>2, TeamRests DEF TInv, TeamTypes
<1> QED  BY <1>2, <1>5, <1>6

LEMMA CreateTeamStep ==
    ASSUME TeamAssumption, TInv, NEW r \in Req, NEW by \in Person, NEW t \in Team,
           Teams!CreateTeam(r, by, t)
    PROVE  TInv'
<1>1. /\ by \in users /\ team[t] = {} /\ team' = [team EXCEPT ![t] = {by}]
      /\ UNCHANGED <<users, owners, git, teamsReq, odd>>
  BY DEF Teams!CreateTeam
<1>2. \A a \in App : t \notin owners[a]
  BY <1>1 DEF TInv, Peopled
<1>3. Peopled' /\ team' \in [Team -> SUBSET Person]
  BY <1>1, <1>2 DEF TInv, TeamTypes, Peopled
<1>4. \A v \in Person : Teams!AllowedApps(v)' = Teams!AllowedApps(v)
  BY <1>1, <1>2 DEF TInv, TeamTypes, Teams!AllowedApps
<1>5. teamsReq' = [teamsReq EXCEPT ![r] = None]
  BY <1>1, TeamBegins DEF Teams!CreateTeam, TInv, TeamTypes
<1>6. \A v \in Person, a \in App : <<v, a>> \notin odd' => (v \in git'[a] <=> a \in Teams!AllowedApps(v)')
  BY <1>1, <1>4, TeamBegins DEF Teams!CreateTeam
<1>7. \A s \in Req : s # r => teamsReq[s] = None
  BY TeamBegins DEF Teams!CreateTeam
<1> QED  BY <1>1, <1>3, <1>5, <1>6, <1>7, TeamRests DEF TInv, TeamTypes

LEMMA RemoveTeamStep ==
    ASSUME TeamAssumption, TInv, NEW r \in Req, NEW by \in Person, NEW t \in Team,
           Teams!RemoveTeam(r, by, t)
    PROVE  TInv'
<1>1. PICK q : q = [at |-> "drop", by |-> by, t |-> t]
  OBVIOUS
<1>2. /\ teamsReq' = [teamsReq EXCEPT ![r] = q]
      /\ Teams!OfTeam(t) = {} /\ UNCHANGED <<users, team, owners, git, odd>>
  BY <1>1 DEF Teams!RemoveTeam, Teams!HasApps
<1>3. q \in TeamRequests
  BY <1>1 DEF TeamRequests
<1>4. StillTrue(q)
  BY <1>1, <1>2 DEF StillTrue
<1> QED  BY <1>1, <1>2, <1>3, <1>4, TeamBegins, TeamOnly DEF Teams!RemoveTeam

LEMMA DropStep ==
    ASSUME TeamAssumption, TInv, NEW r \in Req, Teams!Drop(r) PROVE TInv'
<1>1. PICK q : q = teamsReq[r]
  OBVIOUS
<1>2. /\ q # None /\ q.at = "drop" /\ teamsReq' = [teamsReq EXCEPT ![r] = None]
      /\ team' = team \/ team' = [team EXCEPT ![q.t] = {}]
      /\ UNCHANGED <<users, owners, git, odd>>
  BY <1>1 DEF Teams!Drop, Teams!At, Teams!Ends
<1>3. /\ q.t \in Team /\ \A s \in Req : s # r => teamsReq[s] = None
      /\ \A a \in App : q.t \notin owners[a]
      /\ \A v \in Person, a \in App : <<v, a>> \notin odd => (v \in git[a] <=> a \in Teams!AllowedApps(v))
  <2>1. \A v, a : ~Between(q, v, a)
    BY <1>2 DEF Between
  <2> QED  BY <1>1, <1>2, <2>1, TeamGoesOn, TeamShapes DEF StillTrue, Teams!OfTeam
<1>4. Peopled' /\ team' \in [Team -> SUBSET Person]
  BY <1>2, <1>3 DEF TInv, TeamTypes, Peopled
<1>5. \A v \in Person : Teams!AllowedApps(v)' = Teams!AllowedApps(v)
  BY <1>2, <1>3 DEF TInv, TeamTypes, Teams!AllowedApps
<1>6. \A v \in Person, a \in App : <<v, a>> \notin odd' => (v \in git'[a] <=> a \in Teams!AllowedApps(v)')
  BY <1>2, <1>3, <1>5
<1> QED  BY <1>2, <1>3, <1>4, <1>6, TeamRests DEF TInv, TeamTypes

LEMMA GrantAppAccessStep ==
    ASSUME TeamAssumption, TInv, NEW r \in Req, NEW by \in Person, NEW t \in Team, NEW a \in App,
           Teams!GrantAppAccess(r, by, a, t)
    PROVE  TInv'
<1>1. PICK q : q = [at |-> "own", t |-> t, a |-> a, doc |-> owners[a] \cup {t}, us |-> team[t]]
  OBVIOUS
<1>2. /\ teamsReq' = [teamsReq EXCEPT ![r] = q]
      /\ team[t] # {} /\ t \notin owners[a] /\ UNCHANGED <<users, team, owners, git, odd>>
  BY <1>1 DEF Teams!GrantAppAccess
<1>3. q \in TeamRequests
  BY <1>1 DEF TInv, TeamTypes, TeamRequests
<1>4. StillTrue(q)
  BY <1>1, <1>2 DEF StillTrue
<1> QED  BY <1>1, <1>2, <1>3, <1>4, TeamBegins, TeamOnly DEF Teams!GrantAppAccess

LEMMA RevokeAppAccessStep ==
    ASSUME TeamAssumption, TInv, NEW r \in Req, NEW by \in Person, NEW t \in Team, NEW a \in App,
           Teams!RevokeAppAccess(r, by, a, t)
    PROVE  TInv'
<1>1. PICK q : q = [at |-> "own", t |-> t, a |-> a, doc |-> owners[a] \ {t}, us |-> team[t]]
  OBVIOUS
<1>2. /\ teamsReq' = [teamsReq EXCEPT ![r] = q]
      /\ team[t] # {} /\ t \in owners[a] /\ Teams!Cardinality(owners[a]) # 1
      /\ UNCHANGED <<users, team, owners, git, odd>>
  BY <1>1 DEF Teams!RevokeAppAccess
<1>3. q \in TeamRequests
  BY <1>1 DEF TInv, TeamTypes, TeamRequests
<1>4. owners[a] \ {t} # {}
  BY <1>2, TeamsCount, NotLast
<1>5. StillTrue(q)
  BY <1>1, <1>2, <1>4 DEF StillTrue
<1> QED  BY <1>1, <1>2, <1>3, <1>5, TeamBegins, TeamOnly DEF Teams!RevokeAppAccess

LEMMA SaveAppStep ==
    ASSUME TeamAssumption, TInv, NEW r \in Req, Teams!SaveApp(r) PROVE TInv'
<1>1. PICK q : q = teamsReq[r]
  OBVIOUS
<1>2. /\ q # None /\ q.at = "own"
      /\ \/ /\ owners' = [owners EXCEPT ![q.a] = q.doc]
            /\ teamsReq' = [teamsReq EXCEPT ![r].at = IF q.t \in q.doc THEN "push" ELSE "nopush"]
         \/ teamsReq' = [teamsReq EXCEPT ![r] = None] /\ owners' = owners
      /\ UNCHANGED <<users, team, git, odd>>
  BY <1>1 DEF Teams!SaveApp, Teams!At, Teams!Go, Teams!Ends
<1>3. /\ q \in TeamRequests /\ q.t \in Team /\ q.a \in App /\ q.doc \subseteq Team
      /\ \A at \in {"push", "nopush"} : [q EXCEPT !.at = at] \in TeamRequests
      /\ \A s \in Req : s # r => teamsReq[s] = None
      /\ q.doc # {} /\ q.us = team[q.t] /\ q.us # {}
      /\ q.doc = owners[q.a] \cup {q.t} \/ q.doc = owners[q.a] \ {q.t}
      /\ q.t \in q.doc <=> q.t \notin owners[q.a]
      /\ \A v \in Person, a \in App : <<v, a>> \notin odd => (v \in git[a] <=> a \in Teams!AllowedApps(v))
  <2>1. \A v, a : ~Between(q, v, a)
    BY <1>2 DEF Between
  <2> QED  BY <1>1, <1>2, <2>1, TeamGoesOn, TeamShapes DEF StillTrue
<1>4. CASE teamsReq' = [teamsReq EXCEPT ![r] = None] /\ owners' = owners
  BY <1>2, <1>3, <1>4, TeamOnly
<1>5. CASE /\ owners' = [owners EXCEPT ![q.a] = q.doc]
           /\ teamsReq' = [teamsReq EXCEPT ![r].at = IF q.t \in q.doc THEN "push" ELSE "nopush"]
  <2>1. PICK p : p = [q EXCEPT !.at = IF q.t \in q.doc THEN "push" ELSE "nopush"]
    OBVIOUS
  <2>2. /\ p \in TeamRequests /\ p.at = (IF q.t \in q.doc THEN "push" ELSE "nopush")
        /\ p.t = q.t /\ p.a = q.a /\ p.us = q.us /\ p.doc = q.doc /\ p # None
    BY <1>2, <1>3, <2>1 DEF TeamRequests, TeamAssumption
  <2>3. teamsReq' = [teamsReq EXCEPT ![r] = p]
    BY <1>1, <1>5, <2>1 DEF TInv, TeamTypes
  <2>4. owners' \in [App -> SUBSET Team] /\ owners'[q.a] = q.doc
    BY <1>3, <1>5 DEF TInv, TeamTypes
  <2>5. StillTrue(p)'
    BY <1>2, <1>3, <2>2, <2>4 DEF StillTrue
  <2>6. Peopled'
    BY <1>2, <1>3, <1>5, <2>4 DEF TInv, TeamTypes, Peopled
  <2>7. ASSUME NEW v \in Person, NEW a \in App, <<v, a>> \notin odd'
        PROVE  IF Between(p, v, a)' THEN Already(p, v, a)' ELSE v \in git'[a] <=> a \in Teams!AllowedApps(v)'
    <3>1. Between(p, v, a)' <=> (a = q.a /\ v \in team[q.t])
      BY <1>3, <2>2 DEF Between
    <3>2. CASE a = q.a /\ v \in team[q.t]
      <4>1. p.at = "nopush" => v \in git'[a]
        BY <1>2, <1>3, <2>2, <2>7, <3>2 DEF Teams!AllowedApps
      <4> QED  BY <2>2, <3>1, <3>2, <4>1 DEF Already
    <3>3. CASE ~(a = q.a /\ v \in team[q.t])
      <4>1. a \in Teams!AllowedApps(v)' <=> a \in Teams!AllowedApps(v)
        BY <1>2, <1>3, <1>5, <2>4, <3>3 DEF Teams!AllowedApps, TInv, TeamTypes
      <4> QED  BY <1>2, <1>3, <2>7, <3>1, <3>3, <4>1
    <3> QED  BY <3>2, <3>3
  <2> QED  BY <1>2, <1>3, <2>2, <2>3, <2>4, <2>5, <2>6, <2>7, TeamAfter DEF TInv, TeamTypes
<1> QED  BY <1>2, <1>4, <1>5

LEMMA PushGrantedStep ==
    ASSUME TeamAssumption, TInv, NEW r \in Req, Teams!PushGranted(r) PROVE TInv'
<1>1. PICK q : q = teamsReq[r]
  OBVIOUS
<1>2. /\ q # None /\ q.at = "push" /\ teamsReq' = [teamsReq EXCEPT ![r] = None]
      /\ \/ git' = [a \in App |-> IF a \in {q.a} THEN git[a] \cup q.us ELSE git[a]] /\ odd' = odd
         \/ git' = git /\ odd' = odd \cup (q.us \X {q.a})
      /\ UNCHANGED <<users, team, owners>>
  BY <1>1 DEF Teams!PushGranted, Teams!At, Teams!Ends, Teams!Grants, Teams!Part
<1>3. /\ q \in TeamRequests /\ \A s \in Req : s # r => teamsReq[s] = None
      /\ q.us \subseteq Person /\ q.t \in Team
      /\ q.us = team[q.t] /\ q.doc = owners[q.a] /\ q.t \in q.doc
  BY <1>1, <1>2, TeamGoesOn, TeamShapes DEF StillTrue
<1>4. \A v \in Person, a \in App : <<v, a>> \notin odd /\ ~(a = q.a /\ v \in q.us) =>
          (v \in git[a] <=> a \in Teams!AllowedApps(v))
  BY <1>1, <1>2, TeamGoesOn DEF Between
<1>5. Peopled' /\ git' \in [App -> SUBSET Person]
  BY <1>2, <1>3 DEF TInv, TeamTypes, Peopled
<1>6. ASSUME NEW v \in Person, NEW a \in App, <<v, a>> \notin odd'
      PROVE  v \in git'[a] <=> a \in Teams!AllowedApps(v)'
  <2>1. CASE a = q.a /\ v \in q.us
    <3>1. a \in Teams!AllowedApps(v)
      BY <1>3, <2>1 DEF Teams!AllowedApps
    <3> QED  BY <1>2, <1>6, <2>1, <3>1, AccessStays
  <2>2. CASE ~(a = q.a /\ v \in q.us)
    BY <1>2, <1>4, <1>6, <2>2, AccessStays
  <2> QED  BY <2>1, <2>2
<1> QED  BY <1>2, <1>3, <1>5, <1>6, TeamRests DEF TInv, TeamTypes

LEMMA PushRevokedStep ==
    ASSUME TeamAssumption, TInv, NEW r \in Req, Teams!PushRevoked(r) PROVE TInv'
<1>1. PICK q : q = teamsReq[r]
  OBVIOUS
<1>2. /\ q # None /\ q.at = "nopush" /\ teamsReq' = [teamsReq EXCEPT ![r] = None]
      /\ \/ /\ git' = [a \in App |-> IF a \in {q.a} THEN git[a] \ Teams!EmailsForRevoking(q) ELSE git[a]]
            /\ odd' = odd
         \/ git' = git /\ odd' = odd \cup (q.us \X {q.a})
      /\ UNCHANGED <<users, team, owners>>
  BY <1>1 DEF Teams!PushRevoked, Teams!At, Teams!Ends, Teams!Revokes, Teams!Part
<1>3. /\ q \in TeamRequests /\ \A s \in Req : s # r => teamsReq[s] = None
      /\ q.us \subseteq Person /\ q.us = team[q.t] /\ q.doc = owners[q.a]
  BY <1>1, <1>2, TeamGoesOn, TeamShapes DEF StillTrue
<1>4. \A v \in Person, a \in App : <<v, a>> \notin odd =>
          IF a = q.a /\ v \in q.us THEN v \in git[a] ELSE v \in git[a] <=> a \in Teams!AllowedApps(v)
  BY <1>1, <1>2, TeamGoesOn DEF Between, Already
<1>5. Peopled' /\ git' \in [App -> SUBSET Person]
  BY <1>2, <1>3 DEF TInv, TeamTypes, Peopled
<1>6. ASSUME NEW v \in Person, NEW a \in App, <<v, a>> \notin odd'
      PROVE  v \in git'[a] <=> a \in Teams!AllowedApps(v)'
  <2>1. CASE a = q.a /\ v \in q.us
    <3>1. v \in Teams!EmailsForRevoking(q) <=> a \notin Teams!AllowedApps(v)
      BY <1>3, <2>1 DEF Teams!AllowedApps, Teams!EmailsForRevoking
    <3>2. <<v, a>> \notin odd /\ ~(odd' = odd \cup (q.us \X {q.a}))
      BY <1>2, <1>6, <2>1
    <3> QED  BY <1>2, <1>4, <2>1, <3>1, <3>2, AccessStays
  <2>2. CASE ~(a = q.a /\ v \in q.us)
    <3>1. v \in git'[a] <=> v \in git[a]
      BY <1>2, <2>2 DEF Teams!EmailsForRevoking
    <3> QED  BY <1>2, <1>4, <1>6, <2>2, <3>1, AccessStays
  <2> QED  BY <2>1, <2>2
<1> QED  BY <1>2, <1>3, <1>5, <1>6, TeamRests DEF TInv, TeamTypes

LEMMA RemoveUserStep ==
    ASSUME TeamAssumption, TInv, NEW r \in Req, NEW u \in Person, Teams!RemoveUser(r, u)
    PROVE  TInv'
<1>1. PICK q : q = [at |-> "leave", u |-> u, ts |-> {t \in Team : u \in team[t]}, docs |-> team]
  OBVIOUS
<1>2. /\ \/ /\ git' = [a \in App |-> IF a \in Teams!AllowedApps(u) THEN git[a] \ {u} ELSE git[a]]
            /\ teamsReq' = [teamsReq EXCEPT ![r] = q]
         \/ UNCHANGED <<git, teamsReq>>
      /\ UNCHANGED <<users, team, owners, odd>>
  BY <1>1 DEF Teams!RemoveUser, Teams!Revokes
<1>3. /\ \A s \in Req : teamsReq[s] = None
      /\ \A v \in Person, a \in App : <<v, a>> \notin odd => (v \in git[a] <=> a \in Teams!AllowedApps(v))
  BY TeamBegins DEF Teams!RemoveUser
<1>4. CASE UNCHANGED <<git, teamsReq>>
  <2>1. teamsReq' = [teamsReq EXCEPT ![r] = None]
    BY <1>3, <1>4 DEF TInv, TeamTypes
  <2> QED  BY <1>2, <1>3, <1>4, <2>1, TeamOnly
<1>5. CASE /\ git' = [a \in App |-> IF a \in Teams!AllowedApps(u) THEN git[a] \ {u} ELSE git[a]]
           /\ teamsReq' = [teamsReq EXCEPT ![r] = q]
  <2>1. q \in TeamRequests /\ q # None /\ q.at = "leave" /\ q.u = u
    BY <1>1 DEF TInv, TeamTypes, TeamRequests, TeamAssumption
  <2>2. Peopled' /\ StillTrue(q)' /\ git' \in [App -> SUBSET Person]
    BY <1>1, <1>2, <1>5 DEF TInv, TeamTypes, Peopled, StillTrue
  <2>3. ASSUME NEW v \in Person, NEW a \in App, <<v, a>> \notin odd'
        PROVE  IF Between(q, v, a)' THEN Already(q, v, a)' ELSE v \in git'[a] <=> a \in Teams!AllowedApps(v)'
    <3>1. Between(q, v, a)' <=> v = u
      BY <2>1 DEF Between
    <3>2. CASE v = u
      <4>1. v \notin git'[a]
        BY <1>2, <1>3, <1>5, <2>3, <3>2
      <4> QED  BY <2>1, <3>1, <3>2, <4>1 DEF Already
    <3>3. CASE v # u
      BY <1>2, <1>3, <1>5, <2>3, <3>1, <3>3, AccessStays
    <3> QED  BY <3>2, <3>3
  <2> QED  BY <1>2, <1>3, <1>5, <2>1, <2>2, <2>3, TeamAfter DEF TInv, TeamTypes
<1> QED  BY <1>2, <1>4, <1>5

LEMMA TeamLeaving ==
    ASSUME TeamAssumption, TInv, NEW r \in Req, NEW q, q = teamsReq[r], Teams!At(r, "leave")
    PROVE  /\ q # None /\ q.at = "leave" /\ q \in TeamRequests /\ q.u \in Person /\ q.ts \subseteq Team
           /\ \A s \in Req : s # r => teamsReq[s] = None
           /\ q.ts = {t \in Team : q.u \in team[t]} /\ \A t \in q.ts : q.docs[t] = team[t]
           /\ \A v \in Person, a \in App : <<v, a>> \notin odd =>
                IF v = q.u THEN v \notin git[a] ELSE v \in git[a] <=> a \in Teams!AllowedApps(v)
<1>1. q # None /\ q.at = "leave"
  BY DEF Teams!At
<1> QED  BY <1>1, TeamGoesOn, TeamShapes DEF StillTrue, Between, Already

LEMMA LeaveTeamStep ==
    ASSUME TeamAssumption, TInv, NEW r \in Req, NEW t \in Team, Teams!LeaveTeam(r, t) PROVE TInv'
<1>1. PICK q : q = teamsReq[r]
  OBVIOUS
<1>2. /\ t \in q.ts
      /\ \/ /\ ~(Teams!Cardinality(q.docs[t]) < 2 \/ team[t] = {})
            /\ team' = [team EXCEPT ![t] = q.docs[t] \ {q.u}]
            /\ teamsReq' = [teamsReq EXCEPT ![r].ts = @ \ {t}] /\ odd' = odd
         \/ /\ teamsReq' = [teamsReq EXCEPT ![r] = None]
            /\ odd' = odd \cup ({q.u} \X Teams!AllowedApps(q.u)) /\ team' = team
      /\ UNCHANGED <<users, owners, git>>
  BY <1>1 DEF Teams!LeaveTeam, Teams!Ends, Teams!Part
<1>3. /\ q # None /\ q.at = "leave" /\ q \in TeamRequests /\ q.u \in Person /\ q.ts \subseteq Team
      /\ \A s \in Req : s # r => teamsReq[s] = None
      /\ q.ts = {x1 \in Team : q.u \in team[x1]} /\ \A x1 \in q.ts : q.docs[x1] = team[x1]
      /\ \A v \in Person, a \in App : <<v, a>> \notin odd =>
            IF v = q.u THEN v \notin git[a] ELSE v \in git[a] <=> a \in Teams!AllowedApps(v)
  BY <1>1, TeamLeaving DEF Teams!LeaveTeam
<1>4. CASE /\ teamsReq' = [teamsReq EXCEPT ![r] = None]
           /\ odd' = odd \cup ({q.u} \X Teams!AllowedApps(q.u)) /\ team' = team
  <2>1. Peopled'
    BY <1>2, <1>4 DEF TInv, TeamTypes, Peopled
  <2>2. ASSUME NEW v \in Person, NEW a \in App, <<v, a>> \notin odd'
        PROVE  v \in git'[a] <=> a \in Teams!AllowedApps(v)'
    <3>1. <<v, a>> \notin odd /\ ~(v = q.u /\ a \in Teams!AllowedApps(q.u))
      BY <1>4, <2>2
    <3> QED  BY <1>2, <1>3, <1>4, <3>1, AccessStays
  <2> QED  BY <1>2, <1>3, <1>4, <2>1, <2>2, TeamRests DEF TInv, TeamTypes
<1>5. CASE /\ ~(Teams!Cardinality(q.docs[t]) < 2 \/ team[t] = {})
           /\ team' = [team EXCEPT ![t] = q.docs[t] \ {q.u}]
           /\ teamsReq' = [teamsReq EXCEPT ![r].ts = @ \ {t}] /\ odd' = odd
  <2>1. PICK p : p = [q EXCEPT !.ts = @ \ {t}]
    OBVIOUS
  <2>2. /\ p \in TeamRequests /\ p # None /\ p.at = "leave" /\ p.u = q.u /\ p.docs = q.docs
        /\ p.ts = q.ts \ {t}
    <3>1. p = [q EXCEPT !.ts = q.ts \ {t}]
      BY <2>1
    <3>2. p \in TeamRequests
      BY <1>3, <3>1, TeamShapes
    <3> QED  BY <1>3, <2>1, <3>2 DEF TeamRequests, TeamAssumption
  <2>3. teamsReq' = [teamsReq EXCEPT ![r] = p]
    BY <1>1, <1>5, <2>1 DEF TInv, TeamTypes
  <2>4. team[t] \ {q.u} # {} /\ team' = [team EXCEPT ![t] = team[t] \ {q.u}]
    <3>1. q.docs[t] = team[t]
      BY <1>2, <1>3
    <3>2. Cardinality(team[t]) # 1 /\ team[t] # {}
      BY <1>5, <3>1, TeamsCount
    <3> QED  BY <1>5, <3>1, <3>2, NotLast
  <2>5. Peopled' /\ team' \in [Team -> SUBSET Person]
    BY <1>2, <2>4 DEF TInv, TeamTypes, Peopled
  <2>6. StillTrue(p)'
    BY <1>2, <1>3, <2>2, <2>4 DEF StillTrue, TInv, TeamTypes
  <2>7. ASSUME NEW v \in Person, NEW a \in App, <<v, a>> \notin odd'
        PROVE  IF Between(p, v, a)' THEN Already(p, v, a)' ELSE v \in git'[a] <=> a \in Teams!AllowedApps(v)'
    <3>1. Between(p, v, a)' <=> v = q.u
      BY <2>2 DEF Between
    <3>2. CASE v = q.u
      BY <1>2, <1>3, <1>5, <2>2, <2>7, <3>1, <3>2 DEF Already
    <3>3. CASE v # q.u
      <4>1. a \in Teams!AllowedApps(v)' <=> a \in Teams!AllowedApps(v)
        BY <1>2, <2>4, <3>3 DEF Teams!AllowedApps, TInv, TeamTypes
      <4> QED  BY <1>2, <1>3, <1>5, <2>7, <3>1, <3>3, <4>1
    <3> QED  BY <3>2, <3>3
  <2> QED  BY <1>2, <1>3, <2>2, <2>3, <2>5, <2>6, <2>7, TeamAfter DEF TInv, TeamTypes
<1> QED  BY <1>2, <1>4, <1>5

LEMMA UserGoneStep ==
    ASSUME TeamAssumption, TInv, NEW r \in Req, Teams!UserGone(r) PROVE TInv'
<1>1. PICK q : q = teamsReq[r]
  OBVIOUS
<1>2. /\ q.ts = {} /\ teamsReq' = [teamsReq EXCEPT ![r] = None]
      /\ users' = users \ {q.u} \/ users' = users
      /\ UNCHANGED <<team, owners, git, odd>>
  <2>1. users' \in {users \ {q.u}} \/ users' \in {users}
    BY <1>1 DEF Teams!UserGone
  <2> QED  BY <1>1, <2>1 DEF Teams!UserGone, Teams!Ends
<1>3. /\ q \in TeamRequests /\ q.u \in Person /\ \A s \in Req : s # r => teamsReq[s] = None
      /\ \A t \in Team : q.u \notin team[t]
      /\ \A v \in Person, a \in App : <<v, a>> \notin odd =>
            IF v = q.u THEN v \notin git[a] ELSE v \in git[a] <=> a \in Teams!AllowedApps(v)
  BY <1>1, <1>2, TeamLeaving DEF Teams!UserGone
<1>4. Peopled' /\ users' \subseteq Person
  BY <1>2, <1>3 DEF TInv, TeamTypes, Peopled
<1>5. \A a \in App : a \notin Teams!AllowedApps(q.u)
  BY <1>3 DEF Teams!AllowedApps, TInv, TeamTypes
<1>6. \A v \in Person, a \in App : <<v, a>> \notin odd' => (v \in git'[a] <=> a \in Teams!AllowedApps(v)')
  BY <1>2, <1>3, <1>5, AccessStays
<1> QED  BY <1>2, <1>3, <1>4, <1>6, TeamRests DEF TInv, TeamTypes

LEMMA TeamCreateUserStep ==
    ASSUME TeamAssumption, TInv, NEW r \in Req, NEW u \in Person, Teams!CreateUser(r, u) PROVE TInv'
<1>1. users' = users \cup {u} /\ UNCHANGED <<team, owners, git, teamsReq, odd>>
  BY DEF Teams!CreateUser
<1>2. /\ \A s \in Req : teamsReq[s] = None
      /\ \A v \in Person, a \in App : <<v, a>> \notin odd' => (v \in git'[a] <=> a \in Teams!AllowedApps(v)')
  BY <1>1, TeamBegins, AccessStays DEF Teams!CreateUser
<1>3. teamsReq' = [teamsReq EXCEPT ![r] = None]
  BY <1>1, <1>2 DEF TInv, TeamTypes
<1>4. Peopled' /\ users' \subseteq Person
  BY <1>1 DEF TInv, TeamTypes, Peopled
<1> QED  BY <1>1, <1>2, <1>3, <1>4, TeamRests DEF TInv, TeamTypes

LEMMA TInvStep ==
    ASSUME TeamAssumption, TInv, [Teams!Next]_TeamsVars PROVE TInv'
<1>1. CASE UNCHANGED TeamsVars
  <2>1. /\ \A q, u, a : Between(q, u, a)' = Between(q, u, a) /\ Already(q, u, a)' = Already(q, u, a)
        /\ \A u : Teams!AllowedApps(u)' = Teams!AllowedApps(u)
    BY <1>1 DEF TeamsVars, Between, Already, Teams!AllowedApps, Teams!OfTeam, Teams!Elsewhere
  <2>2. TeamTypes' /\ Alone' /\ Peopled' /\ ReadsHold'
    BY <1>1 DEF TeamsVars, TInv, TeamTypes, Alone, Peopled, ReadsHold, StillTrue, Teams!OfTeam
  <2>3. GitMirrors'
    BY <1>1, <2>1 DEF TeamsVars, TInv, GitMirrors, Mirrors
  <2> QED  BY <2>2, <2>3 DEF TInv
<1>2. CASE Teams!Next
  BY <1>2, AddUserStep, AddInGandalfStep, AddInDatabaseStep, UndoStep, RemoveUserFromTeamStep,
     RemoveInGandalfStep, RemoveInDatabaseStep, CreateTeamStep, RemoveTeamStep, DropStep,
     GrantAppAccessStep, RevokeAppAccessStep, SaveAppStep, PushGrantedStep, PushRevokedStep,
     RemoveUserStep, LeaveTeamStep, UserGoneStep, TeamCreateUserStep DEF Teams!Next
<1> QED  BY <1>1, <1>2

LEMMA TInvBegins == ASSUME TeamAssumption, Teams!Init PROVE TInv
<1>1. TeamTypes /\ Alone /\ Peopled /\ ReadsHold
  BY DEF Teams!Init, TeamAssumption, TeamTypes, Alone, Peopled, ReadsHold
<1>2. GitMirrors
  BY DEF Teams!Init, TeamAssumption, GitMirrors, Mirrors, Between, Teams!AllowedApps
<1> QED  BY <1>1, <1>2 DEF TInv

LEMMA TInvSafe == ASSUME TInv PROVE Teams!AppsReachable /\ Teams!GitFollows
<1>1. Teams!AppsReachable
  BY DEF Teams!AppsReachable, TInv, TeamTypes, Peopled
<1>2. ASSUME \A r \in Req : teamsReq[r] = None
      PROVE  \A u \in Person, a \in App : <<u, a>> \notin odd => (u \in git[a] <=> a \in Teams!AllowedApps(u))
  BY <1>2 DEF TInv, GitMirrors, Mirrors, Between
<1> QED  BY <1>1, <1>2 DEF Teams!GitFollows
-----------------------------------------------------------------------------
CONSTANTS Holder, Key, Limit, AccountOps

VARIABLES
    doc, known, gkeys, accountsTokens, cleaner, resets, accountsReq,
    accountsOdd, accountsDone

Acc == INSTANCE Accounts WITH
    User <- Holder, Faults <- {"git", "db"}, MaxOps <- AccountOps,
    Serial <- TRUE, tokens <- accountsTokens, req <- accountsReq,
    odd <- accountsOdd, done <- accountsDone

Sessions == INSTANCE Accounts WITH
    User <- Holder, Faults <- {}, MaxOps <- AccountOps, Serial <- FALSE,
    tokens <- accountsTokens, req <- accountsReq, odd <- accountsOdd,
    done <- accountsDone

AccVars == <<doc, known, gkeys, accountsTokens, cleaner, resets, accountsReq,
    accountsOdd, accountsDone>>

(* Accounts.  The sessions first, with and without requests that overlap:  *)
(* of a user who has too many of them, some goroutine is yet to count them,*)
(* or is about to take away enough.                                        *)
Serials == 1 .. AccountOps
KeyForms == [n : Nat, key : Key]
Documents == [pw : Nat, keys : Seq(KeyForms)]
AccountRequests ==
    [at : {"insert", "delete"}, u : Holder]
      \cup [at : {"update", "deldb"}, u : Holder, doc : Documents]
      \cup [at : {"use", "update"}, u : Holder, k : Serials, doc : Documents]
      \cup [at : {"addgit", "adddb", "undo"}, u : Holder, doc : Documents, new : KeyForms]
Cleaners ==
    [at : {"count"}, u : Holder] \cup [at : {"find"}, u : Holder, diff : Nat]
      \cup [at : {"remove"}, u : Holder, ids : SUBSET Serials]
Resets == [u : Holder, used : BOOLEAN, times : Nat]

(* None is none of these. *)
AccountAssumption ==
    /\ Limit \in Nat /\ AccountOps \in Nat
    /\ None \notin Documents /\ None \notin AccountRequests
    /\ None \notin Cleaners /\ None \notin Resets

SessionTypes ==
    /\ accountsTokens \in [Holder -> SUBSET Serials]
    /\ cleaner \in [Serials -> Cleaners \cup {None}]
    /\ accountsDone \in 0 .. AccountOps
    /\ \A k \in Serials : cleaner[k] # None => k <= accountsDone
Relieves(c, ts) ==
    \/ c.at = "count"
    \/ c.at = "find" /\ Cardinality(ts) - c.diff <= Limit
    \/ c.at = "remove" /\ Cardinality(ts \ c.ids) <= Limit
Relieved ==
    \A u \in Holder :
        \/ Cardinality(accountsTokens[u]) <= Limit
        \/ \E k \in Serials : cleaner[k] # None /\ cleaner[k].u = u /\ Relieves(cleaner[k], accountsTokens[u])
SInv == SessionTypes /\ Relieved

(* One request at a time: what it, or the goroutine, has read still holds, *)
(* and of the keys of every user that the two places agree, or what the    *)
(* request has done in one of them.                                        *)
AccountTypes ==
    /\ doc \in [Holder -> Documents \cup {None}]
    /\ gkeys \in [Holder -> SUBSET KeyForms]
    /\ resets \in [Serials -> Resets \cup {None}]
    /\ accountsReq \in [Req -> AccountRequests \cup {None}]
OneActs ==
    /\ \A r, s \in Req : accountsReq[r] # None /\ accountsReq[s] # None => r = s
    /\ \A k, l \in Serials : cleaner[k] # None /\ cleaner[l] # None => k = l
    /\ \A r \in Req, k \in Serials : accountsReq[r] = None \/ cleaner[k] = None
CountHolds ==
    \A k \in Serials : cleaner[k] # None =>
        LET ts == accountsTokens[cleaner[k].u]
        IN  /\ cleaner[k].at = "find" => cleaner[k].diff = Cardinality(ts) - Limit /\ cleaner[k].diff >= 1
            /\ cleaner[k].at = "remove" =>
                  Acc!Oldest(cleaner[k].ids, ts) /\ Cardinality(ts \ cleaner[k].ids) = Limit
UsedOnce ==
    /\ \A k \in Serials : resets[k] # None => resets[k].times = IF resets[k].used THEN 1 ELSE 0
    /\ \A r \in Req : accountsReq[r] # None /\ accountsReq[r].at = "use" =>
          LET t == resets[accountsReq[r].k] IN t # None /\ ~t.used
Unique(s) == \A i, j \in DOMAIN s : s[i].n = s[j].n => i = j
DocumentHolds(q) ==
    /\ q.at \in {"update", "use"} => doc[q.u] # None /\ q.doc.keys = doc[q.u].keys
    /\ q.at = "deldb" => doc[q.u] # None
    /\ q.at \in {"addgit", "adddb", "undo"} => q.doc = doc[q.u]
DocumentsHold == \A r \in Req : accountsReq[r] # None => DocumentHolds(accountsReq[r])
Ahead(q, u) == q # None /\ q.u = u /\ q.at \in {"delete", "adddb", "undo", "deldb"}
KeysAhead(q, u) ==
    /\ q.at = "delete" => gkeys[u] = {}
    /\ q.at \in {"adddb", "undo"} =>
          /\ gkeys[u] = Acc!ToSet(doc[u].keys) \cup {q.new} /\ Unique(doc[u].keys)
          /\ \A i \in DOMAIN doc[u].keys : doc[u].keys[i].n # q.new.n
    /\ q.at = "deldb" => gkeys[u] = Acc!ToSet(q.doc.keys) /\ Unique(q.doc.keys)
SameKeys(u) ==
    IF doc[u] = None THEN gkeys[u] = {}
    ELSE gkeys[u] = Acc!ToSet(doc[u].keys) /\ Unique(doc[u].keys)
KeysMirror ==
    \A u \in Holder : u \notin accountsOdd =>
        /\ \A r \in Req : Ahead(accountsReq[r], u) => KeysAhead(accountsReq[r], u)
        /\ (\A r \in Req : ~Ahead(accountsReq[r], u)) => SameKeys(u)

AccInv ==
    /\ SInv /\ AccountTypes /\ OneActs /\ CountHolds /\ UsedOnce /\ DocumentsHold /\ KeysMirror

LEMMA AccountsCount ==
    \A S : Acc!Cardinality(S) = Cardinality(S) /\ Sessions!Cardinality(S) = Cardinality(S)
BY DEF Acc!Cardinality, Sessions!Cardinality, Cardinality

LEMMA CleanerShapes ==
    ASSUME AccountAssumption, NEW c \in Cleaners
    PROVE  /\ c # None /\ c.u \in Holder /\ c.at \in {"count", "find", "remove"}
           /\ c.at = "find" => c.diff \in Nat
           /\ c.at = "remove" => c.ids \subseteq Serials
BY DEF Cleaners, AccountAssumption

LEMMA SomeSessions ==
    ASSUME AccountAssumption, NEW S \in SUBSET Serials
    PROVE  IsFiniteSet(S) /\ Cardinality(S) \in Nat
<1>1. 1 \in Int /\ AccountOps \in Int
  BY DEF AccountAssumption
<1>2. IsFiniteSet(Serials)
  BY <1>1, FS_Interval DEF Serials
<1>3. IsFiniteSet(S)
  BY <1>2, FS_Subset
<1> QED  BY <1>3, FS_CardinalityType

LEMMA FewerSessions ==
    ASSUME AccountAssumption, NEW S \in SUBSET Serials, NEW T \in SUBSET S
    PROVE  Cardinality(T) <= Cardinality(S) /\ Cardinality(S \ T) = Cardinality(S) - Cardinality(T)
<1>1. IsFiniteSet(S) /\ IsFiniteSet(T)
  BY SomeSessions
<1>2. S \cap T = T
  OBVIOUS
<1>3. Cardinality(T) <= Cardinality(S)
  BY <1>1, FS_Subset
<1>4. Cardinality(S \ T) = Cardinality(S) - Cardinality(S \cap T)
  BY <1>1, FS_Difference
<1> QED  BY <1>2, <1>3, <1>4

(* What the steps of a user's sessions are, in both parts. *)
Logs(u) ==
    /\ accountsDone' = accountsDone + 1 /\ accountsDone' \in Serials
    /\ accountsTokens' = [accountsTokens EXCEPT ![u] = @ \cup {accountsDone'}]
    /\ cleaner' = [cleaner EXCEPT ![accountsDone'] = [at |-> "count", u |-> u]]
Leaves(u) ==
    /\ accountsDone' = accountsDone + 1 /\ accountsDone' \in Serials
    /\ \E k \in accountsTokens[u] : accountsTokens' = [accountsTokens EXCEPT ![u] = @ \ {k}]
    /\ cleaner' = cleaner
Counts(k) ==
    LET diff == Cardinality(accountsTokens[cleaner[k].u]) - Limit
    IN  /\ cleaner[k] # None /\ cleaner[k].at = "count"
        /\ cleaner' = [cleaner EXCEPT ![k] =
              IF diff < 1 THEN None ELSE [at |-> "find", u |-> @.u, diff |-> diff]]
        /\ UNCHANGED <<accountsTokens, accountsDone>>
Finds(k) ==
    /\ cleaner[k] # None /\ cleaner[k].at = "find"
    /\ \E ids \in SUBSET accountsTokens[cleaner[k].u] :
          /\ Acc!Oldest(ids, accountsTokens[cleaner[k].u])
          /\ \/ Cardinality(ids) = cleaner[k].diff
             \/ /\ ids = accountsTokens[cleaner[k].u]
                /\ Cardinality(accountsTokens[cleaner[k].u]) < cleaner[k].diff
          /\ cleaner' = [cleaner EXCEPT ![k] = [at |-> "remove", u |-> @.u, ids |-> ids]]
    /\ UNCHANGED <<accountsTokens, accountsDone>>
Removes(k) ==
    /\ cleaner[k] # None /\ cleaner[k].at = "remove"
    /\ accountsTokens' = [accountsTokens EXCEPT ![cleaner[k].u] = @ \ cleaner[k].ids]
    /\ cleaner' = [cleaner EXCEPT ![k] = None] /\ UNCHANGED accountsDone
OtherStep ==
    /\ UNCHANGED <<accountsTokens, cleaner>>
    /\ accountsDone' = accountsDone \/ (accountsDone' = accountsDone + 1 /\ accountsDone' \in Serials)
SessionStep ==
    \/ \E u \in Holder : Logs(u) \/ Leaves(u)
    \/ \E k \in Serials : Counts(k) \/ Finds(k) \/ Removes(k)
    \/ OtherStep

(* Sessions come and go: the others' stay as they are. *)
LEMMA LogsStep == ASSUME AccountAssumption, SInv, NEW u \in Holder, Logs(u) PROVE SInv'
<1>1. PICK k \in Serials : k = accountsDone + 1
  BY DEF Logs
<1>2. PICK c : c = [at |-> "count", u |-> u]
  OBVIOUS
<1>3. /\ accountsDone' = k /\ cleaner[k] = None /\ c \in Cleaners
      /\ accountsTokens' = [accountsTokens EXCEPT ![u] = @ \cup {k}]
      /\ cleaner' = [cleaner EXCEPT ![k] = c]
  BY <1>1, <1>2 DEF Logs, SInv, SessionTypes, Cleaners, Serials, AccountAssumption
<1>4. SessionTypes'
  BY <1>1, <1>3 DEF SInv, SessionTypes, Serials, AccountAssumption
<1>5. ASSUME NEW v \in Holder
      PROVE  \/ Cardinality(accountsTokens'[v]) <= Limit
             \/ \E l \in Serials : cleaner'[l] # None /\ cleaner'[l].u = v /\ Relieves(cleaner'[l], accountsTokens'[v])
  <2>1. CASE v = u
    <3>1. cleaner'[k] = c /\ c # None /\ c.u = v /\ Relieves(c, accountsTokens'[v])
      BY <1>2, <1>3, <2>1, CleanerShapes DEF Relieves, SInv, SessionTypes
    <3> QED  BY <3>1
  <2>2. CASE v # u
    <3>1. accountsTokens'[v] = accountsTokens[v] /\ \A l \in Serials : l # k => cleaner'[l] = cleaner[l]
      BY <1>3, <2>2 DEF SInv, SessionTypes
    <3> QED  BY <1>3, <3>1 DEF SInv, Relieved
  <2> QED  BY <2>1, <2>2
<1> QED  BY <1>4, <1>5 DEF SInv, Relieved

(* With fewer sessions whoever was about to relieve a user still does. *)
LEMMA StillRelieves ==
    ASSUME AccountAssumption, NEW c \in Cleaners, NEW S \in SUBSET Serials, NEW T \in SUBSET S,
           Relieves(c, S)
    PROVE  Relieves(c, T)
<1>1. CASE c.at = "find"
  <2>1. Cardinality(T) <= Cardinality(S) /\ Cardinality(T) \in Nat /\ Cardinality(S) \in Nat
    <3>1. T \in SUBSET Serials
      OBVIOUS
    <3> QED  BY <3>1, FewerSessions, SomeSessions
  <2>2. c.diff \in Nat /\ Limit \in Nat /\ Cardinality(S) - c.diff <= Limit
    BY <1>1, CleanerShapes DEF Relieves, AccountAssumption
  <2> QED  BY <1>1, <2>1, <2>2 DEF Relieves
<1>2. CASE c.at = "remove"
  <2>1. S \ c.ids \in SUBSET Serials /\ T \ c.ids \in SUBSET (S \ c.ids)
    OBVIOUS
  <2>2. Cardinality(T \ c.ids) <= Cardinality(S \ c.ids)
    BY <2>1, FewerSessions
  <2>3. Cardinality(T \ c.ids) \in Nat /\ Cardinality(S \ c.ids) \in Nat
    BY SomeSessions
  <2> QED  BY <1>2, <2>2, <2>3 DEF Relieves, AccountAssumption
<1> QED  BY <1>1, <1>2 DEF Relieves

LEMMA LeavesStep == ASSUME AccountAssumption, SInv, NEW u \in Holder, Leaves(u) PROVE SInv'
<1>1. PICK k : accountsTokens' = [accountsTokens EXCEPT ![u] = @ \ {k}]
  BY DEF Leaves
<1>2. cleaner' = cleaner /\ accountsDone' = accountsDone + 1 /\ accountsDone' \in Serials
  BY DEF Leaves
<1>3. SessionTypes'
  BY <1>1, <1>2 DEF SInv, SessionTypes, Serials, AccountAssumption
<1>4. \A v \in Holder : accountsTokens'[v] \subseteq accountsTokens[v] /\ accountsTokens[v] \subseteq Serials
  BY <1>1 DEF SInv, SessionTypes
<1>5. ASSUME NEW v \in Holder
      PROVE  \/ Cardinality(accountsTokens'[v]) <= Limit
             \/ \E l \in Serials : cleaner'[l] # None /\ cleaner'[l].u = v /\ Relieves(cleaner'[l], accountsTokens'[v])
  <2>1. CASE Cardinality(accountsTokens[v]) <= Limit
    <3>1. accountsTokens[v] \in SUBSET Serials /\ accountsTokens'[v] \in SUBSET accountsTokens[v]
      BY <1>4
    <3>2. accountsTokens'[v] \in SUBSET Serials
      BY <3>1
    <3>3. /\ Cardinality(accountsTokens'[v]) <= Cardinality(accountsTokens[v])
          /\ Cardinality(accountsTokens'[v]) \in Nat /\ Cardinality(accountsTokens[v]) \in Nat
      BY <3>1, <3>2, FewerSessions, SomeSessions
    <3> QED  BY <2>1, <3>3 DEF AccountAssumption
  <2>2. ASSUME NEW l \in Serials, cleaner[l] # None, cleaner[l].u = v, Relieves(cleaner[l], accountsTokens[v])
        PROVE  Relieves(cleaner[l], accountsTokens'[v])
    BY <1>4, <2>2, StillRelieves DEF SInv, SessionTypes
  <2> QED  BY <1>2, <2>1, <2>2 DEF SInv, Relieved
<1> QED  BY <1>3, <1>5 DEF SInv, Relieved

(* A goroutine goes on, and the user it is about is relieved as before. *)
LEMMA CleanerMoves ==
    ASSUME AccountAssumption, SInv, NEW k \in Serials, cleaner[k] # None,
           NEW c \in Cleaners \cup {None}, cleaner' = [cleaner EXCEPT ![k] = c],
           UNCHANGED <<accountsTokens, accountsDone>>,
           c # None => c.u = cleaner[k].u /\
               (Relieves(cleaner[k], accountsTokens[c.u]) => Relieves(c, accountsTokens[c.u])),
           c = None => Cardinality(accountsTokens[cleaner[k].u]) <= Limit
    PROVE  SInv'
<1>1. cleaner'[k] = c /\ \A l \in Serials : l # k => cleaner'[l] = cleaner[l]
  BY DEF SInv, SessionTypes
<1>2. SessionTypes'
  BY <1>1 DEF SInv, SessionTypes
<1>3. ASSUME NEW v \in Holder
      PROVE  \/ Cardinality(accountsTokens'[v]) <= Limit
             \/ \E l \in Serials : cleaner'[l] # None /\ cleaner'[l].u = v /\ Relieves(cleaner'[l], accountsTokens'[v])
  BY <1>1 DEF SInv, Relieved
<1> QED  BY <1>2, <1>3 DEF SInv, Relieved

LEMMA CountsStep == ASSUME AccountAssumption, SInv, NEW k \in Serials, Counts(k) PROVE SInv'
<1>1. PICK u \in Holder : u = cleaner[k].u
  BY CleanerShapes DEF Counts, SInv, SessionTypes
<1>2. PICK n \in Nat : n = Cardinality(accountsTokens[u])
  BY <1>1, SomeSessions DEF SInv, SessionTypes
<1>3. PICK c : c = IF n - Limit < 1 THEN None ELSE [at |-> "find", u |-> u, diff |-> n - Limit]
  OBVIOUS
<1>4. cleaner' = [cleaner EXCEPT ![k] = c]
  BY <1>1, <1>2, <1>3 DEF Counts, SInv, SessionTypes
<1>5. CASE n - Limit < 1
  <2>1. c = None /\ n <= Limit
    BY <1>2, <1>3, <1>5 DEF AccountAssumption
  <2> QED  BY <1>1, <1>2, <1>4, <2>1, CleanerMoves DEF Counts
<1>6. CASE ~(n - Limit < 1)
  <2>1. c = [at |-> "find", u |-> u, diff |-> n - Limit] /\ n - Limit \in Nat /\ n - (n - Limit) <= Limit
    BY <1>2, <1>3, <1>6 DEF AccountAssumption
  <2>2. c \in Cleaners /\ c.u = u /\ Relieves(c, accountsTokens[u])
    BY <1>2, <2>1 DEF Cleaners, Relieves
  <2>3. c # None
    BY <2>2, CleanerShapes
  <2> QED  BY <1>1, <1>4, <2>2, <2>3, CleanerMoves DEF Counts
<1> QED  BY <1>5, <1>6

LEMMA FindsStep == ASSUME AccountAssumption, SInv, NEW k \in Serials, Finds(k) PROVE SInv'
<1>1. PICK b \in Cleaners : b = cleaner[k] /\ b # None /\ b.at = "find"
  BY DEF Finds, SInv, SessionTypes
<1>2. b.u \in Holder /\ b.diff \in Nat
  BY <1>1, CleanerShapes
<1>3. PICK S \in SUBSET Serials : S = accountsTokens[b.u]
  BY <1>2 DEF SInv, SessionTypes
<1>4. PICK ids \in SUBSET S : /\ Cardinality(ids) = b.diff \/ (ids = S /\ Cardinality(S) < b.diff)
                              /\ cleaner' = [cleaner EXCEPT ![k] = [at |-> "remove", u |-> b.u, ids |-> ids]]
  BY <1>1, <1>3 DEF Finds, SInv, SessionTypes
<1>5. PICK c : c = [at |-> "remove", u |-> b.u, ids |-> ids]
  OBVIOUS
<1>6. c \in Cleaners /\ c # None /\ c.u = b.u /\ c.at = "remove" /\ c.ids = ids
  <2>1. c \in Cleaners
    BY <1>2, <1>5 DEF Cleaners
  <2> QED  BY <1>5, <2>1, CleanerShapes
<1>7. ASSUME Relieves(b, S) PROVE Relieves(c, S)
  <2>1. Cardinality(S) - b.diff <= Limit
    BY <1>1, <1>7 DEF Relieves
  <2>2. CASE Cardinality(ids) = b.diff
    <3>1. Cardinality(S \ ids) = Cardinality(S) - Cardinality(ids)
      BY FewerSessions
    <3> QED  BY <1>6, <2>1, <2>2, <3>1 DEF Relieves
  <2>3. CASE ids = S
    <3>1. S \ ids = {}
      BY <2>3
    <3>2. Cardinality(S \ ids) <= Limit
      BY <3>1, FS_EmptySet DEF AccountAssumption
    <3> QED  BY <1>6, <3>2 DEF Relieves
  <2> QED  BY <1>4, <2>2, <2>3
<1>8. cleaner' = [cleaner EXCEPT ![k] = c]
  BY <1>4, <1>5
<1> QED  BY <1>1, <1>3, <1>6, <1>7, <1>8, CleanerMoves DEF Finds

LEMMA RemovesStep == ASSUME AccountAssumption, SInv, NEW k \in Serials, Removes(k) PROVE SInv'
<1>1. PICK b \in Cleaners : b = cleaner[k] /\ b # None /\ b.at = "remove"
  BY DEF Removes, SInv, SessionTypes
<1>2. b.u \in Holder /\ b.ids \subseteq Serials
  BY <1>1, CleanerShapes
<1>3. /\ accountsTokens' = [accountsTokens EXCEPT ![b.u] = @ \ b.ids]
      /\ cleaner' = [cleaner EXCEPT ![k] = None] /\ accountsDone' = accountsDone
  BY <1>1 DEF Removes
<1>4. /\ cleaner'[k] = None /\ \A l \in Serials : l # k => cleaner'[l] = cleaner[l]
      /\ accountsTokens'[b.u] = accountsTokens[b.u] \ b.ids
      /\ \A v \in Holder : v # b.u => accountsTokens'[v] = accountsTokens[v]
      /\ \A v \in Holder : accountsTokens[v] \in SUBSET Serials
  BY <1>2, <1>3 DEF SInv, SessionTypes
<1>5. SessionTypes'
  BY <1>2, <1>3, <1>4 DEF SInv, SessionTypes
<1>6. ASSUME NEW v \in Holder
      PROVE  \/ Cardinality(accountsTokens'[v]) <= Limit
             \/ \E l \in Serials : cleaner'[l] # None /\ cleaner'[l].u = v /\ Relieves(cleaner'[l], accountsTokens'[v])
  <2>0. accountsTokens'[v] \in SUBSET accountsTokens[v] /\ accountsTokens[v] \in SUBSET Serials
    BY <1>4, <1>6
  <2>1. CASE Cardinality(accountsTokens[v]) <= Limit
    <3>1. accountsTokens'[v] \in SUBSET Serials
      BY <2>0
    <3>2. /\ Cardinality(accountsTokens'[v]) <= Cardinality(accountsTokens[v])
          /\ Cardinality(accountsTokens'[v]) \in Nat /\ Cardinality(accountsTokens[v]) \in Nat
      BY <2>0, <3>1, FewerSessions, SomeSessions
    <3> QED  BY <2>1, <3>2 DEF AccountAssumption
  <2>2. ASSUME NEW l \in Serials, cleaner[l] # None, cleaner[l].u = v, Relieves(cleaner[l], accountsTokens[v])
        PROVE  \/ Cardinality(accountsTokens'[v]) <= Limit
               \/ cleaner'[l] = cleaner[l] /\ Relieves(cleaner'[l], accountsTokens'[v])
    <3>1. CASE l = k
      BY <1>1, <1>4, <2>2, <3>1 DEF Relieves
    <3>2. CASE l # k
      <4>1. Relieves(cleaner[l], accountsTokens'[v])
        BY <2>0, <2>2, StillRelieves DEF SInv, SessionTypes
      <4> QED  BY <1>4, <3>2, <4>1
    <3> QED  BY <3>1, <3>2
  <2> QED  BY <2>1, <2>2 DEF SInv, Relieved
<1> QED  BY <1>5, <1>6 DEF SInv, Relieved

LEMMA SInvStep == ASSUME AccountAssumption, SInv, SessionStep PROVE SInv'
<1>1. CASE OtherStep
  BY <1>1 DEF OtherStep, SInv, SessionTypes, Relieved, Serials, AccountAssumption
<1> QED  BY <1>1, LogsStep, LeavesStep, CountsStep, FindsStep, RemovesStep DEF SessionStep

LEMMA SInvBounds == ASSUME SInv PROVE Sessions!SessionsBounded /\ Acc!SessionsBounded
BY AccountsCount DEF SInv, Relieved, Sessions!SessionsBounded, Acc!SessionsBounded,
   Sessions!Serials, Acc!Serials, Serials

(* The actions of both parts are such steps. *)
LEMMA AccBegins ==
    ASSUME AccountAssumption, SInv, NEW r \in Req, Acc!Begins(r) \/ Sessions!Begins(r)
    PROVE  accountsReq[r] = None /\ accountsDone' = accountsDone + 1 /\ accountsDone' \in Serials
BY DEF Acc!Begins, Sessions!Begins, AccountAssumption, SInv, SessionTypes, Serials

LEMMA AccSteps ==
    ASSUME AccountAssumption, SInv, Acc!Next PROVE SessionStep
<1>1. ASSUME NEW r \in Req, NEW u \in Holder, Acc!Login(r, u) \/ Acc!Logout(r, u)
      PROVE  Logs(u) \/ Leaves(u)
  <2>1. accountsDone' = accountsDone + 1 /\ accountsDone' \in Serials
    BY <1>1, AccBegins DEF Acc!Login, Acc!Logout
  <2> QED  BY <1>1, <2>1 DEF Acc!Login, Acc!Logout, Logs, Leaves
<1>2. ASSUME NEW r \in Req, NEW u \in Holder,
             \/ Acc!CreateUser(r, u) \/ Acc!RemoveUser(r, u) \/ Acc!ChangePassword(r, u)
             \/ Acc!StartPasswordReset(r, u) \/ \E k \in Acc!Serials : Acc!ResetPassword(r, u, k)
             \/ \E k \in Key : Acc!AddKey(r, u, k) \/ Acc!RemoveKey(r, u, k)
      PROVE  OtherStep
  <2>1. accountsDone' = accountsDone + 1 /\ accountsDone' \in Serials
    BY <1>2, AccBegins DEF Acc!CreateUser, Acc!RemoveUser, Acc!ChangePassword,
       Acc!StartPasswordReset,
       Acc!ResetPassword, Acc!AddKey, Acc!RemoveKey
  <2>2. UNCHANGED <<accountsTokens, cleaner>>
    BY <1>2 DEF Acc!CreateUser, Acc!RemoveUser, Acc!ChangePassword, Acc!StartPasswordReset,
       Acc!ResetPassword, Acc!AddKey, Acc!RemoveKey
  <2> QED  BY <2>1, <2>2 DEF OtherStep
<1>3. ASSUME NEW r \in Req,
             \/ Acc!Insert(r) \/ Acc!Delete(r) \/ Acc!Updated(r) \/ Acc!Use(r) \/ Acc!AddKeyInGandalf(r)
             \/ Acc!AddKeyInDatabase(r) \/ Acc!Undo(r) \/ Acc!RemoveKeyFromDatabase(r)
      PROVE  OtherStep
  BY <1>3 DEF Acc!Insert, Acc!Delete, Acc!Updated, Acc!Use, Acc!AddKeyInGandalf,
     Acc!AddKeyInDatabase, Acc!Undo, Acc!RemoveKeyFromDatabase, OtherStep
<1>4. ASSUME NEW k \in Serials, Acc!Count(k) PROVE Counts(k)
  BY <1>4, AccountsCount DEF Acc!Count, Acc!Surplus, Counts
<1>5. ASSUME NEW k \in Serials, Acc!Find(k) PROVE Finds(k)
  BY <1>5, AccountsCount DEF Acc!Find, Finds
<1>6. ASSUME NEW k \in Serials, Acc!RemoveOld(k) PROVE Removes(k)
  BY <1>6 DEF Acc!RemoveOld, Removes
<1> QED  BY <1>1, <1>2, <1>3, <1>4, <1>5, <1>6 DEF Acc!Next, SessionStep, Acc!Serials, Serials

LEMMA SessionsStep ==
    ASSUME AccountAssumption, SInv, Sessions!Next PROVE SessionStep
<1>1. ASSUME NEW r \in Req, NEW u \in Holder, Sessions!Login(r, u) \/ Sessions!Logout(r, u)
      PROVE  Logs(u) \/ Leaves(u)
  <2>1. accountsDone' = accountsDone + 1 /\ accountsDone' \in Serials
    BY <1>1, AccBegins DEF Sessions!Login, Sessions!Logout
  <2> QED  BY <1>1, <2>1 DEF Sessions!Login, Sessions!Logout, Logs, Leaves
<1>2. ASSUME NEW r \in Req, NEW u \in Holder,
             \/ Sessions!CreateUser(r, u) \/ Sessions!RemoveUser(r, u) \/ Sessions!ChangePassword(r, u)
             \/ Sessions!StartPasswordReset(r, u) \/ \E k \in Sessions!Serials : Sessions!ResetPassword(r, u, k)
             \/ \E k \in Key : Sessions!AddKey(r, u, k) \/ Sessions!RemoveKey(r, u, k)
      PROVE  OtherStep
  <2>1. accountsDone' = accountsDone + 1 /\ accountsDone' \in Serials
    BY <1>2, AccBegins DEF Sessions!CreateUser, Sessions!RemoveUser,
       Sessions!ChangePassword, Sessions!StartPasswordReset,
       Sessions!ResetPassword, Sessions!AddKey, Sessions!RemoveKey
  <2>2. UNCHANGED <<accountsTokens, cleaner>>
    BY <1>2 DEF Sessions!CreateUser, Sessions!RemoveUser, Sessions!ChangePassword,
       Sessions!StartPasswordReset,
       Sessions!ResetPassword, Sessions!AddKey, Sessions!RemoveKey
  <2> QED  BY <2>1, <2>2 DEF OtherStep
<1>3. ASSUME NEW r \in Req,
             \/ Sessions!Insert(r) \/ Sessions!Delete(r) \/ Sessions!Updated(r) \/ Sessions!Use(r) \/ Sessions!AddKeyInGandalf(r)
             \/ Sessions!AddKeyInDatabase(r) \/ Sessions!Undo(r) \/ Sessions!RemoveKeyFromDatabase(r)
      PROVE  OtherStep
  BY <1>3 DEF Sessions!Insert, Sessions!Delete, Sessions!Updated, Sessions!Use,
     Sessions!AddKeyInGandalf,
     Sessions!AddKeyInDatabase, Sessions!Undo, Sessions!RemoveKeyFromDatabase, OtherStep
<1>4. ASSUME NEW k \in Serials, Sessions!Count(k) PROVE Counts(k)
  BY <1>4, AccountsCount DEF Sessions!Count, Sessions!Surplus, Counts
<1>5. ASSUME NEW k \in Serials, Sessions!Find(k) PROVE Finds(k)
  BY <1>5, AccountsCount DEF Sessions!Find, Sessions!Oldest, Acc!Oldest, Finds
<1>6. ASSUME NEW k \in Serials, Sessions!RemoveOld(k) PROVE Removes(k)
  BY <1>6 DEF Sessions!RemoveOld, Removes
<1> QED  BY <1>1, <1>2, <1>3, <1>4, <1>5, <1>6 DEF Sessions!Next, SessionStep, Sessions!Serials, Serials

LEMMA SessionsSafe ==
    ASSUME AccountAssumption, SInv, [Sessions!Next]_AccVars PROVE SInv'
<1>1. CASE UNCHANGED AccVars
  BY <1>1, SInvStep DEF AccVars, SessionStep, OtherStep
<1> QED  BY <1>1, SessionsStep, SInvStep

LEMMA SInvBegins == ASSUME AccountAssumption, Acc!Init \/ Sessions!Init PROVE SInv
<1>1. /\ accountsTokens = [u \in Holder |-> {}] /\ cleaner = [k \in Serials |-> None]
      /\ accountsDone = 0
  BY DEF Acc!Init, Sessions!Init, Acc!Serials, Sessions!Serials, Serials
<1>2. SessionTypes
  BY <1>1 DEF SessionTypes, AccountAssumption
<1>3. Relieved
  BY <1>1, FS_EmptySet DEF Relieved, AccountAssumption
<1> QED  BY <1>2, <1>3 DEF SInv

(* Accounts, one request at a time. *)
LEMMA AccQuiet ==
    ASSUME AccountAssumption, AccInv, NEW r \in Req, Acc!Begins(r)
    PROVE  /\ \A s \in Req : accountsReq[s] = None
           /\ \A k \in Serials : cleaner[k] = None
           /\ \A u \in Holder : u \notin accountsOdd => SameKeys(u)
           /\ accountsDone' = accountsDone + 1 /\ accountsDone' \in Serials
<1>1. /\ \A s \in Req : accountsReq[s] = None
      /\ \A k \in Serials : cleaner[k] = None
  BY DEF Acc!Begins, Acc!Quiet, Acc!Serials, Serials
<1>2. \A u \in Holder : u \notin accountsOdd => SameKeys(u)
  BY <1>1 DEF AccInv, KeysMirror, Ahead
<1> QED  BY <1>1, <1>2, AccBegins DEF AccInv

LEMMA AccGoesOn ==
    ASSUME AccountAssumption, AccInv, NEW r \in Req, accountsReq[r] # None
    PROVE  /\ accountsReq[r] \in AccountRequests /\ DocumentHolds(accountsReq[r])
           /\ \A s \in Req : s # r => accountsReq[s] = None
           /\ \A k \in Serials : cleaner[k] = None
           /\ \A u \in Holder : u \notin accountsOdd =>
                IF Ahead(accountsReq[r], u) THEN KeysAhead(accountsReq[r], u) ELSE SameKeys(u)
<1>1. /\ accountsReq[r] \in AccountRequests /\ DocumentHolds(accountsReq[r])
      /\ \A s \in Req : s # r => accountsReq[s] = None
      /\ \A k \in Serials : cleaner[k] = None
  BY DEF AccInv, AccountTypes, OneActs, DocumentsHold
<1>2. \A u : \A s \in Req : s # r => ~Ahead(accountsReq[s], u)
  BY <1>1 DEF Ahead
<1> QED  BY <1>1, <1>2 DEF AccInv, KeysMirror

LEMMA AccShapes ==
    ASSUME NEW q \in AccountRequests
    PROVE  /\ q.u \in Holder
           /\ q.at \in {"insert", "delete", "update", "deldb", "use", "addgit", "adddb", "undo"}
           /\ q.at \in {"update", "deldb", "use", "addgit", "adddb", "undo"} => q.doc \in Documents
           /\ q.at = "use" => q.k \in Serials /\ [q EXCEPT !.at = "update"] \in AccountRequests
           /\ q.at \in {"addgit", "adddb", "undo"} =>
                /\ q.new \in KeyForms
                /\ \A at \in {"adddb", "undo"} : [q EXCEPT !.at = at] \in AccountRequests
BY DEF AccountRequests

(* The state after a step of the request r, or of the goroutine k. *)
LEMMA AccAfter ==
    ASSUME AccountAssumption, AccInv, NEW r \in Req, NEW q \in AccountRequests \cup {None}, SInv',
           \A s \in Req : s # r => accountsReq[s] = None,
           \A k \in Serials : cleaner[k] = None,
           UNCHANGED <<accountsTokens, cleaner>>,
           accountsReq' = [accountsReq EXCEPT ![r] = q],
           doc' \in [Holder -> Documents \cup {None}], gkeys' \in [Holder -> SUBSET KeyForms],
           resets' \in [Serials -> Resets \cup {None}],
           \A k \in Serials : resets'[k] # None => resets'[k].times = IF resets'[k].used THEN 1 ELSE 0,
           q # None /\ q.at = "use" => resets'[q.k] # None /\ ~resets'[q.k].used,
           q # None => DocumentHolds(q)',
           \A u \in Holder : u \notin accountsOdd' => IF Ahead(q, u) THEN KeysAhead(q, u)' ELSE SameKeys(u)'
    PROVE  AccInv'
<1>1. accountsReq'[r] = q /\ \A s \in Req : s # r => accountsReq'[s] = None
  BY DEF AccInv, AccountTypes
<1>2. AccountTypes'
  BY DEF AccInv, AccountTypes
<1>3. OneActs' /\ CountHolds'
  BY <1>1 DEF OneActs, CountHolds
<1>4. UsedOnce' /\ DocumentsHold'
  BY <1>1 DEF UsedOnce, DocumentsHold, DocumentHolds
<1>5. \A u : \A s \in Req : IF s = r THEN Ahead(accountsReq[s], u)' <=> Ahead(q, u) ELSE ~Ahead(accountsReq[s], u)'
  BY <1>1 DEF Ahead
<1>6. \A u : KeysAhead(accountsReq[r], u)' <=> KeysAhead(q, u)'
  BY <1>1 DEF KeysAhead
<1>7. KeysMirror'
  BY <1>5, <1>6 DEF KeysMirror
<1> QED  BY <1>2, <1>3, <1>4, <1>7 DEF AccInv

(* ... which has written nothing but what it goes on with. *)
LEMMA AccOnly ==
    ASSUME AccountAssumption, AccInv, NEW r \in Req, NEW q \in AccountRequests \cup {None}, SInv',
           \A s \in Req : s # r => accountsReq[s] = None,
           \A k \in Serials : cleaner[k] = None,
           UNCHANGED <<accountsTokens, cleaner, doc, gkeys, resets, accountsOdd>>,
           accountsReq' = [accountsReq EXCEPT ![r] = q],
           q # None /\ q.at = "use" => resets[q.k] # None /\ ~resets[q.k].used,
           q # None => DocumentHolds(q),
           \A u \in Holder : u \notin accountsOdd => IF Ahead(q, u) THEN KeysAhead(q, u) ELSE SameKeys(u)
    PROVE  AccInv'
<1>1. \A u : (KeysAhead(q, u)' <=> KeysAhead(q, u)) /\ (SameKeys(u)' <=> SameKeys(u))
  BY DEF KeysAhead, SameKeys
<1>2. q # None => DocumentHolds(q)'
  BY DEF DocumentHolds
<1>3. /\ doc' \in [Holder -> Documents \cup {None}] /\ gkeys' \in [Holder -> SUBSET KeyForms]
      /\ resets' \in [Serials -> Resets \cup {None}]
      /\ \A k \in Serials : resets'[k] # None => resets'[k].times = IF resets'[k].used THEN 1 ELSE 0
  BY DEF AccInv, AccountTypes, UsedOnce
<1> QED  BY <1>1, <1>2, <1>3, AccAfter

LEMMA AccCleans ==
    ASSUME AccountAssumption, AccInv, NEW k \in Serials, NEW c, SInv',
           cleaner' = [cleaner EXCEPT ![k] = c],
           \A l \in Serials : l # k => cleaner[l] = None,
           \A r \in Req : accountsReq[r] = None,
           UNCHANGED <<doc, gkeys, resets, accountsReq, accountsOdd>>,
           c # None =>
              /\ c.at = "find" => /\ c.diff = Cardinality(accountsTokens'[c.u]) - Limit
                                  /\ c.diff >= 1
              /\ c.at = "remove" => /\ Acc!Oldest(c.ids, accountsTokens'[c.u])
                                    /\ Cardinality(accountsTokens'[c.u] \ c.ids) = Limit
    PROVE  AccInv'
<1>1. cleaner'[k] = c /\ \A l \in Serials : l # k => cleaner'[l] = None
  BY DEF AccInv, SInv, SessionTypes
<1>2. OneActs'
  BY <1>1 DEF OneActs
<1>3. CountHolds'
  BY <1>1 DEF CountHolds
<1>4. AccountTypes' /\ UsedOnce' /\ DocumentsHold'
  BY DEF AccInv, AccountTypes, UsedOnce, DocumentsHold, DocumentHolds
<1>5. \A u : SameKeys(u)' <=> SameKeys(u)
  BY DEF SameKeys
<1>6. KeysMirror'
  BY <1>5 DEF AccInv, KeysMirror, Ahead
<1> QED  BY <1>2, <1>3, <1>4, <1>6 DEF AccInv

(* Each action keeps the invariant.  The sessions: *)
LEMMA LoginStep ==
    ASSUME AccountAssumption, AccInv, SInv', NEW r \in Req, NEW u \in Holder, Acc!Login(r, u)
    PROVE  AccInv'
<1>1. PICK k \in Serials : k = accountsDone'
  BY AccQuiet DEF Acc!Login
<1>2. PICK c : c = [at |-> "count", u |-> u]
  OBVIOUS
<1>3. /\ cleaner' = [cleaner EXCEPT ![k] = c]
      /\ UNCHANGED <<doc, gkeys, resets, accountsReq, accountsOdd>>
  BY <1>1, <1>2 DEF Acc!Login
<1>4. \A l \in Serials : cleaner[l] = None
  BY AccQuiet DEF Acc!Login
<1>5. \A s \in Req : accountsReq[s] = None
  BY AccQuiet DEF Acc!Login
<1> QED  BY <1>2, <1>3, <1>4, <1>5, AccCleans

LEMMA LogoutStep ==
    ASSUME AccountAssumption, AccInv, SInv', NEW r \in Req, NEW u \in Holder, Acc!Logout(r, u)
    PROVE  AccInv'
<1>1. PICK k \in Serials : k = accountsDone'
  BY AccQuiet DEF Acc!Logout
<1>2. (\A l \in Serials : cleaner[l] = None) /\ \A s \in Req : accountsReq[s] = None
  BY AccQuiet DEF Acc!Logout
<1>3. /\ cleaner' = [cleaner EXCEPT ![k] = None]
      /\ UNCHANGED <<doc, gkeys, resets, accountsReq, accountsOdd>>
  BY <1>2 DEF Acc!Logout, AccInv, SInv, SessionTypes
<1> QED  BY <1>2, <1>3, AccCleans

LEMMA CleanerAlone ==
    ASSUME AccInv, NEW k \in Serials, cleaner[k] # None
    PROVE  (\A l \in Serials : l # k => cleaner[l] = None) /\ \A r \in Req : accountsReq[r] = None
BY DEF AccInv, OneActs

LEMMA CountStep ==
    ASSUME AccountAssumption, AccInv, SInv', NEW k \in Serials, Acc!Count(k) PROVE AccInv'
<1>1. PICK u \in Holder : u = cleaner[k].u
  BY CleanerShapes DEF Acc!Count, AccInv, SInv, SessionTypes
<1>2. PICK n \in Nat : n = Cardinality(accountsTokens[u])
  BY <1>1, SomeSessions DEF AccInv, SInv, SessionTypes
<1>3. PICK c : c = IF n - Limit < 1 THEN None ELSE [at |-> "find", u |-> u, diff |-> n - Limit]
  OBVIOUS
<1>4. /\ cleaner' = [cleaner EXCEPT ![k] = c]
      /\ UNCHANGED <<accountsTokens, doc, gkeys, resets, accountsReq, accountsOdd>>
  BY <1>1, <1>2, <1>3, AccountsCount DEF Acc!Count, Acc!Surplus, AccInv, SInv, SessionTypes
<1>5. c # None => c.at = "find" /\ c.diff = Cardinality(accountsTokens'[c.u]) - Limit /\ c.diff >= 1
  BY <1>2, <1>3, <1>4 DEF AccountAssumption
<1> QED  BY <1>4, <1>5, CleanerAlone, AccCleans DEF Acc!Count

LEMMA FindStep ==
    ASSUME AccountAssumption, AccInv, SInv', NEW k \in Serials, Acc!Find(k) PROVE AccInv'
<1>1. PICK b \in Cleaners : b = cleaner[k] /\ b # None /\ b.at = "find"
  BY DEF Acc!Find, AccInv, SInv, SessionTypes
<1>2. b.u \in Holder /\ b.diff \in Nat
  BY <1>1, CleanerShapes
<1>3. PICK S \in SUBSET Serials : S = accountsTokens[b.u]
  BY <1>2 DEF AccInv, SInv, SessionTypes
<1>4. PICK ids \in SUBSET S : /\ Cardinality(ids) = b.diff \/ (ids = S /\ Cardinality(S) < b.diff)
                              /\ Acc!Oldest(ids, S)
                              /\ cleaner' = [cleaner EXCEPT ![k] = [at |-> "remove", u |-> b.u, ids |-> ids]]
  BY <1>1, <1>3, AccountsCount DEF Acc!Find, AccInv, SInv, SessionTypes
<1>5. PICK c : c = [at |-> "remove", u |-> b.u, ids |-> ids]
  OBVIOUS
<1>6. UNCHANGED <<accountsTokens, doc, gkeys, resets, accountsReq, accountsOdd>>
  BY DEF Acc!Find
<1>7. b.diff = Cardinality(S) - Limit
  BY <1>1, <1>3 DEF AccInv, CountHolds
<1>8. Cardinality(S \ ids) = Limit
  <2>1. Cardinality(S) \in Nat /\ Cardinality(ids) \in Nat
    <3>1. ids \in SUBSET Serials
      OBVIOUS
    <3> QED  BY <3>1, SomeSessions
  <2>2. Cardinality(S \ ids) = Cardinality(S) - Cardinality(ids)
    BY FewerSessions
  <2> QED  BY <1>4, <1>7, <2>1, <2>2 DEF AccountAssumption
<1>9. accountsTokens'[b.u] = S /\ cleaner' = [cleaner EXCEPT ![k] = c]
  BY <1>3, <1>4, <1>5, <1>6
<1>10. c.at = "remove" /\ Acc!Oldest(c.ids, accountsTokens'[c.u]) /\ Cardinality(accountsTokens'[c.u] \ c.ids) = Limit
  BY <1>4, <1>5, <1>8, <1>9
<1> QED  BY <1>1, <1>6, <1>9, <1>10, CleanerAlone, AccCleans

LEMMA RemoveOldStep ==
    ASSUME AccountAssumption, AccInv, SInv', NEW k \in Serials, Acc!RemoveOld(k) PROVE AccInv'
<1>1. /\ cleaner[k] # None /\ cleaner' = [cleaner EXCEPT ![k] = None]
      /\ UNCHANGED <<doc, gkeys, resets, accountsReq, accountsOdd>>
  BY DEF Acc!RemoveOld
<1> QED  BY <1>1, CleanerAlone, AccCleans

(* ... the users: *)
LEMMA AccCreateUserStep ==
    ASSUME AccountAssumption, AccInv, SInv', NEW r \in Req, NEW u \in Holder, Acc!CreateUser(r, u)
    PROVE  AccInv'
<1>1. PICK q : q = [at |-> "insert", u |-> u]
  OBVIOUS
<1>2. q \in AccountRequests
  BY <1>1 DEF AccountRequests
<1>3. /\ accountsReq' = [accountsReq EXCEPT ![r] = q]
      /\ UNCHANGED <<accountsTokens, cleaner, doc, gkeys, resets, accountsOdd>>
  BY <1>1 DEF Acc!CreateUser
<1>4. /\ \A s \in Req : accountsReq[s] = None
      /\ \A k \in Serials : cleaner[k] = None
      /\ \A v \in Holder : v \notin accountsOdd => SameKeys(v)
  BY AccQuiet DEF Acc!CreateUser
<1>5. DocumentHolds(q) /\ (\A v : ~Ahead(q, v)) /\ q.at # "use"
  BY <1>1 DEF DocumentHolds, Ahead
<1> QED  BY <1>2, <1>3, <1>4, <1>5, AccOnly

LEMMA InsertStep ==
    ASSUME AccountAssumption, AccInv, SInv', NEW r \in Req, Acc!Insert(r) PROVE AccInv'
<1>1. PICK q : q = accountsReq[r]
  OBVIOUS
<1>2. /\ q # None /\ q.at = "insert" /\ accountsReq' = [accountsReq EXCEPT ![r] = None]
      /\ \/ doc[q.u] = None /\ doc' = [doc EXCEPT ![q.u] = [pw |-> 0, keys |-> <<>>]]
         \/ doc' = doc
      /\ UNCHANGED <<gkeys, accountsTokens, cleaner, resets, accountsOdd>>
  BY <1>1 DEF Acc!Insert, Acc!At, Acc!Ends
<1>3. /\ q.u \in Holder /\ \A s \in Req : s # r => accountsReq[s] = None
      /\ \A k \in Serials : cleaner[k] = None
      /\ \A v : ~Ahead(q, v)
  <2>1. \A v : ~Ahead(q, v)
    BY <1>2 DEF Ahead
  <2> QED  BY <1>1, <1>2, <2>1, AccGoesOn, AccShapes
<1>4. \A v \in Holder : v \notin accountsOdd => SameKeys(v)
  BY <1>1, <1>2, <1>3, AccGoesOn
<1>5. CASE doc' = doc
  BY <1>2, <1>3, <1>4, <1>5, AccOnly DEF Ahead
<1>6. CASE doc[q.u] = None /\ doc' = [doc EXCEPT ![q.u] = [pw |-> 0, keys |-> <<>>]]
  <2>1. PICK d : d = [pw |-> 0, keys |-> <<>>]
    OBVIOUS
  <2>2. d \in Documents /\ d # None /\ d.keys = <<>>
    <3>1. d \in Documents
      BY <2>1 DEF Documents
    <3> QED  BY <2>1, <3>1 DEF AccountAssumption
  <2>3. doc' = [doc EXCEPT ![q.u] = d]
    BY <1>6, <2>1
  <2>4. /\ doc' \in [Holder -> Documents \cup {None}] /\ gkeys' \in [Holder -> SUBSET KeyForms]
        /\ resets' \in [Serials -> Resets \cup {None}]
        /\ \A k \in Serials : resets'[k] # None => resets'[k].times = IF resets'[k].used THEN 1 ELSE 0
    BY <1>2, <2>2, <2>3 DEF AccInv, AccountTypes, UsedOnce
  <2>5. ASSUME NEW v \in Holder, v \notin accountsOdd' PROVE SameKeys(v)'
    <3>1. CASE v = q.u
      <4>1. gkeys'[v] = {} /\ doc'[v] = d
        BY <1>2, <1>4, <1>6, <2>3, <2>5, <3>1 DEF SameKeys, AccInv, AccountTypes
      <4>2. Acc!ToSet(d.keys) = {} /\ Unique(d.keys)
        BY <2>2 DEF Acc!ToSet, Unique
      <4> QED  BY <2>2, <4>1, <4>2 DEF SameKeys
    <3>2. CASE v # q.u
      <4>1. doc'[v] = doc[v] /\ gkeys'[v] = gkeys[v]
        BY <1>2, <2>3, <3>2 DEF AccInv, AccountTypes
      <4> QED  BY <1>2, <1>4, <2>5, <4>1 DEF SameKeys
    <3> QED  BY <3>1, <3>2
  <2> QED  BY <1>2, <1>3, <2>4, <2>5, AccAfter DEF Ahead
<1> QED  BY <1>2, <1>5, <1>6

LEMMA AccRemoveUserStep ==
    ASSUME AccountAssumption, AccInv, SInv', NEW r \in Req, NEW u \in Holder, Acc!RemoveUser(r, u)
    PROVE  AccInv'
<1>1. PICK q : q = [at |-> "delete", u |-> u]
  OBVIOUS
<1>2. q \in AccountRequests
  BY <1>1 DEF AccountRequests
<1>3. /\ accountsReq' = [accountsReq EXCEPT ![r] = q] /\ gkeys' = [gkeys EXCEPT ![u] = {}]
      /\ UNCHANGED <<accountsTokens, cleaner, doc, resets, accountsOdd>>
  BY <1>1 DEF Acc!RemoveUser
<1>4. /\ \A s \in Req : accountsReq[s] = None
      /\ \A k \in Serials : cleaner[k] = None
      /\ \A v \in Holder : v \notin accountsOdd => SameKeys(v)
  BY AccQuiet DEF Acc!RemoveUser
<1>5. /\ doc' \in [Holder -> Documents \cup {None}] /\ gkeys' \in [Holder -> SUBSET KeyForms]
      /\ resets' \in [Serials -> Resets \cup {None}]
      /\ \A k \in Serials : resets'[k] # None => resets'[k].times = IF resets'[k].used THEN 1 ELSE 0
  BY <1>3 DEF AccInv, AccountTypes, UsedOnce
<1>6. DocumentHolds(q)' /\ q.at # "use"
  BY <1>1 DEF DocumentHolds
<1>7. ASSUME NEW v \in Holder, v \notin accountsOdd'
      PROVE  IF Ahead(q, v) THEN KeysAhead(q, v)' ELSE SameKeys(v)'
  <2>1. CASE v = u
    <3>1. gkeys'[v] = {}
      BY <1>3, <2>1 DEF AccInv, AccountTypes
    <3>2. Ahead(q, v) /\ KeysAhead(q, v)'
      BY <1>1, <1>2, <2>1, <3>1 DEF Ahead, KeysAhead, AccountAssumption
    <3> QED  BY <3>2
  <2>2. CASE v # u
    <3>1. gkeys'[v] = gkeys[v] /\ doc'[v] = doc[v] /\ ~Ahead(q, v)
      BY <1>1, <1>3, <2>2 DEF AccInv, AccountTypes, Ahead
    <3> QED  BY <1>3, <1>4, <1>7, <3>1 DEF SameKeys
  <2> QED  BY <2>1, <2>2
<1> QED  BY <1>2, <1>3, <1>4, <1>5, <1>6, <1>7, AccAfter

(* The end of a request that writes the document of q.u, or not. *)
LEMMA AccEnds ==
    ASSUME AccountAssumption, AccInv, NEW r \in Req, NEW q, q = accountsReq[r], q # None, SInv',
           NEW d \in Documents \cup {None}, doc' = [doc EXCEPT ![q.u] = d],
           accountsReq' = [accountsReq EXCEPT ![r] = None],
           accountsOdd \subseteq accountsOdd',
           UNCHANGED <<gkeys, accountsTokens, cleaner, resets>>,
           q.u \notin accountsOdd' =>
              IF d = None THEN gkeys[q.u] = {} ELSE gkeys[q.u] = Acc!ToSet(d.keys) /\ Unique(d.keys)
    PROVE  AccInv'
<1>1. /\ q.u \in Holder /\ \A s \in Req : s # r => accountsReq[s] = None
      /\ \A k \in Serials : cleaner[k] = None
      /\ \A v \in Holder : v \notin accountsOdd => IF Ahead(q, v) THEN KeysAhead(q, v) ELSE SameKeys(v)
  BY AccGoesOn, AccShapes
<1>2. /\ doc' \in [Holder -> Documents \cup {None}] /\ gkeys' \in [Holder -> SUBSET KeyForms]
      /\ resets' \in [Serials -> Resets \cup {None}]
      /\ \A k \in Serials : resets'[k] # None => resets'[k].times = IF resets'[k].used THEN 1 ELSE 0
  BY DEF AccInv, AccountTypes, UsedOnce
<1>3. ASSUME NEW v \in Holder, v \notin accountsOdd' PROVE SameKeys(v)'
  <2>1. CASE v = q.u
    <3>1. doc'[v] = d /\ gkeys'[v] = gkeys[v]
      BY <2>1 DEF AccInv, AccountTypes
    <3> QED  BY <1>3, <2>1, <3>1 DEF SameKeys
  <2>2. CASE v # q.u
    <3>1. doc'[v] = doc[v] /\ gkeys'[v] = gkeys[v] /\ ~Ahead(q, v)
      BY <2>2 DEF AccInv, AccountTypes, Ahead
    <3>2. SameKeys(v)
      BY <1>1, <1>3, <3>1
    <3> QED  BY <3>1, <3>2 DEF SameKeys
  <2> QED  BY <2>1, <2>2
<1> QED  BY <1>1, <1>2, <1>3, AccAfter DEF Ahead

LEMMA SameDoc ==
    ASSUME AccInv, NEW u \in Holder PROVE [doc EXCEPT ![u] = doc[u]] = doc
BY DEF AccInv, AccountTypes

LEMMA DeleteStep ==
    ASSUME AccountAssumption, AccInv, SInv', NEW r \in Req, Acc!Delete(r) PROVE AccInv'
<1>1. PICK q : q = accountsReq[r]
  OBVIOUS
<1>2. /\ q # None /\ q.at = "delete" /\ accountsReq' = [accountsReq EXCEPT ![r] = None]
      /\ \/ doc' = [doc EXCEPT ![q.u] = None] /\ accountsOdd' = accountsOdd
         \/ doc' = doc /\ accountsOdd' = accountsOdd \cup {q.u}
      /\ UNCHANGED <<gkeys, accountsTokens, cleaner, resets>>
  BY <1>1 DEF Acc!Delete, Acc!At, Acc!Ends
<1>3. q.u \in Holder /\ (q.u \notin accountsOdd => gkeys[q.u] = {})
  BY <1>1, <1>2, AccGoesOn, AccShapes DEF Ahead, KeysAhead
<1>4. CASE doc' = [doc EXCEPT ![q.u] = None] /\ accountsOdd' = accountsOdd
  BY <1>1, <1>2, <1>3, <1>4, AccEnds
<1>5. CASE doc' = doc /\ accountsOdd' = accountsOdd \cup {q.u}
  <2>1. doc' = [doc EXCEPT ![q.u] = doc[q.u]] /\ doc[q.u] \in Documents \cup {None}
    BY <1>3, <1>5, SameDoc DEF AccInv, AccountTypes
  <2> QED  BY <1>1, <1>2, <1>5, <2>1, AccEnds
<1> QED  BY <1>2, <1>4, <1>5

(* ... the passwords: *)
LEMMA ChangePasswordStep ==
    ASSUME AccountAssumption, AccInv, SInv', NEW r \in Req, NEW u \in Holder, Acc!ChangePassword(r, u)
    PROVE  AccInv'
<1>1. PICK d : d = [doc[u] EXCEPT !.pw = accountsDone']
  OBVIOUS
<1>2. PICK q : q = [at |-> "update", u |-> u, doc |-> d]
  OBVIOUS
<1>3. /\ doc[u] # None /\ accountsReq' = [accountsReq EXCEPT ![r] = q]
      /\ UNCHANGED <<accountsTokens, cleaner, doc, gkeys, resets, accountsOdd>>
  BY <1>1, <1>2 DEF Acc!ChangePassword
<1>4. /\ \A s \in Req : accountsReq[s] = None
      /\ \A k \in Serials : cleaner[k] = None
      /\ \A v \in Holder : v \notin accountsOdd => SameKeys(v)
      /\ accountsDone' \in Serials
  BY AccQuiet DEF Acc!ChangePassword
<1>5. d \in Documents /\ d.keys = doc[u].keys
  BY <1>1, <1>3, <1>4 DEF AccInv, AccountTypes, Documents, Serials
<1>6. q \in AccountRequests
  BY <1>2, <1>5 DEF AccountRequests
<1>7. DocumentHolds(q) /\ (\A v : ~Ahead(q, v)) /\ q.at # "use"
  BY <1>2, <1>3, <1>5 DEF DocumentHolds, Ahead
<1> QED  BY <1>3, <1>4, <1>6, <1>7, AccOnly

LEMMA UpdatedStep ==
    ASSUME AccountAssumption, AccInv, SInv', NEW r \in Req, Acc!Updated(r) PROVE AccInv'
<1>1. PICK q : q = accountsReq[r]
  OBVIOUS
<1>2. /\ q # None /\ q.at = "update" /\ accountsReq' = [accountsReq EXCEPT ![r] = None]
      /\ doc[q.u] # None => doc' = [doc EXCEPT ![q.u] = q.doc]
      /\ UNCHANGED <<gkeys, accountsTokens, cleaner, resets, accountsOdd>>
  BY <1>1 DEF Acc!Updated, Acc!At, Acc!Ends, Acc!Update
<1>3. q.u \in Holder /\ q.doc \in Documents /\ doc[q.u] # None /\ q.doc.keys = doc[q.u].keys
  BY <1>1, <1>2, AccGoesOn, AccShapes DEF DocumentHolds
<1>4. q.u \notin accountsOdd => SameKeys(q.u)
  BY <1>1, <1>2, <1>3, AccGoesOn DEF Ahead
<1>5. q.doc # None
  BY <1>3 DEF AccountAssumption
<1>6. q.u \notin accountsOdd' =>
         IF q.doc = None THEN gkeys[q.u] = {} ELSE gkeys[q.u] = Acc!ToSet(q.doc.keys) /\ Unique(q.doc.keys)
  BY <1>2, <1>3, <1>4, <1>5 DEF SameKeys
<1> QED  BY <1>1, <1>2, <1>3, <1>6, AccEnds

LEMMA StartPasswordResetStep ==
    ASSUME AccountAssumption, AccInv, SInv', NEW r \in Req, NEW u \in Holder, Acc!StartPasswordReset(r, u)
    PROVE  AccInv'
<1>1. PICK t : t = [u |-> u, used |-> FALSE, times |-> 0]
  OBVIOUS
<1>2. PICK k \in Serials : k = accountsDone'
  BY AccQuiet DEF Acc!StartPasswordReset
<1>3. /\ resets' = [resets EXCEPT ![k] = t]
      /\ UNCHANGED <<accountsTokens, cleaner, doc, gkeys, accountsReq, accountsOdd>>
  BY <1>1, <1>2 DEF Acc!StartPasswordReset
<1>4. /\ \A s \in Req : accountsReq[s] = None
      /\ \A l \in Serials : cleaner[l] = None
      /\ \A v \in Holder : v \notin accountsOdd => SameKeys(v)
  BY AccQuiet DEF Acc!StartPasswordReset
<1>5. t \in Resets
  BY <1>1 DEF Resets
<1>6. /\ doc' \in [Holder -> Documents \cup {None}] /\ gkeys' \in [Holder -> SUBSET KeyForms]
      /\ resets' \in [Serials -> Resets \cup {None}]
      /\ \A l \in Serials : resets'[l] # None => resets'[l].times = IF resets'[l].used THEN 1 ELSE 0
  BY <1>1, <1>3, <1>5 DEF AccInv, AccountTypes, UsedOnce
<1>7. accountsReq' = [accountsReq EXCEPT ![r] = None]
  BY <1>3, <1>4 DEF AccInv, AccountTypes
<1>8. \A v \in Holder : v \notin accountsOdd' => SameKeys(v)'
  BY <1>3, <1>4 DEF SameKeys
<1> QED  BY <1>3, <1>4, <1>6, <1>7, <1>8, AccAfter DEF Ahead

LEMMA ResetPasswordStep ==
    ASSUME AccountAssumption, AccInv, SInv', NEW r \in Req, NEW u \in Holder, NEW k \in Serials,
           Acc!ResetPassword(r, u, k)
    PROVE  AccInv'
<1>1. PICK d : d = [doc[u] EXCEPT !.pw = accountsDone']
  OBVIOUS
<1>2. PICK q : q = [at |-> "use", u |-> u, k |-> k, doc |-> d]
  OBVIOUS
<1>3. /\ doc[u] # None /\ accountsReq' = [accountsReq EXCEPT ![r] = q]
      /\ resets[k] # None /\ ~resets[k].used
      /\ UNCHANGED <<accountsTokens, cleaner, doc, gkeys, resets, accountsOdd>>
  BY <1>1, <1>2 DEF Acc!ResetPassword, Acc!Usable
<1>4. /\ \A s \in Req : accountsReq[s] = None
      /\ \A l \in Serials : cleaner[l] = None
      /\ \A v \in Holder : v \notin accountsOdd => SameKeys(v)
      /\ accountsDone' \in Serials
  BY AccQuiet DEF Acc!ResetPassword
<1>5. d \in Documents /\ d.keys = doc[u].keys
  BY <1>1, <1>3, <1>4 DEF AccInv, AccountTypes, Documents, Serials
<1>6. q \in AccountRequests
  BY <1>2, <1>5 DEF AccountRequests
<1>7. DocumentHolds(q) /\ (\A v : ~Ahead(q, v)) /\ q.k = k
  BY <1>2, <1>3, <1>5 DEF DocumentHolds, Ahead
<1> QED  BY <1>3, <1>4, <1>6, <1>7, AccOnly

LEMMA UseStep ==
    ASSUME AccountAssumption, AccInv, SInv', NEW r \in Req, Acc!Use(r) PROVE AccInv'
<1>1. PICK q : q = accountsReq[r]
  OBVIOUS
<1>2. PICK p : p = [q EXCEPT !.at = "update"]
  OBVIOUS
<1>3. /\ q # None /\ q.at = "use"
      /\ resets' = [resets EXCEPT ![q.k].used = TRUE, ![q.k].times = @ + 1]
      /\ UNCHANGED <<gkeys, accountsTokens, cleaner, doc, accountsOdd>>
  BY <1>1 DEF Acc!Use, Acc!At
<1>4. /\ q \in AccountRequests /\ DocumentHolds(q) /\ q.k \in Serials /\ p \in AccountRequests
      /\ \A s \in Req : s # r => accountsReq[s] = None
      /\ \A l \in Serials : cleaner[l] = None
      /\ \A v \in Holder : v \notin accountsOdd => SameKeys(v)
  <2>1. \A v : ~Ahead(q, v)
    BY <1>3 DEF Ahead
  <2> QED  BY <1>1, <1>2, <1>3, <2>1, AccGoesOn, AccShapes
<1>5. p.at = "update" /\ p.u = q.u /\ p.doc = q.doc
  BY <1>2, <1>3, <1>4 DEF AccountRequests
<1>6. accountsReq' = [accountsReq EXCEPT ![r] = p]
  BY <1>1, <1>2 DEF Acc!Use, Acc!Go, AccInv, AccountTypes
<1>7. PICK t \in Resets : t = resets[q.k] /\ ~t.used /\ t.times = 0
  BY <1>1, <1>3, <1>4 DEF AccInv, AccountTypes, UsedOnce
<1>8. PICK t1 : t1 = [[t EXCEPT !.used = TRUE] EXCEPT !.times = @ + 1]
  OBVIOUS
<1>9. t1 \in Resets /\ t1.used /\ t1.times = 1 /\ resets' = [resets EXCEPT ![q.k] = t1]
  <2>1. PICK t2 : t2 = [t EXCEPT !.used = TRUE]
    OBVIOUS
  <2>2. t2 \in Resets
    BY <1>7, <2>1 DEF Resets
  <2>3. t2.used
    BY <1>7, <2>1 DEF Resets
  <2>4. t2.times = 0
    BY <1>7, <2>1 DEF Resets
  <2>5. t1 = [t2 EXCEPT !.times = @ + 1]
    BY <1>8, <2>1
  <2>6. t1 \in Resets
    BY <2>2, <2>4, <2>5 DEF Resets
  <2>7. t1.used
    BY <2>2, <2>3, <2>5 DEF Resets
  <2>8. t1.times = 1
    BY <2>2, <2>4, <2>5 DEF Resets
  <2>9. resets' = [resets EXCEPT ![q.k] = t1]
    BY <1>3, <1>4, <1>7, <1>8 DEF AccInv, AccountTypes
  <2> QED  BY <2>6, <2>7, <2>8, <2>9
<1>10. /\ doc' \in [Holder -> Documents \cup {None}] /\ gkeys' \in [Holder -> SUBSET KeyForms]
       /\ resets' \in [Serials -> Resets \cup {None}]
       /\ \A l \in Serials : resets'[l] # None => resets'[l].times = IF resets'[l].used THEN 1 ELSE 0
  <2>1. resets \in [Serials -> Resets \cup {None}]
    BY DEF AccInv, AccountTypes
  <2>2. /\ resets'[q.k] = t1 /\ \A l \in Serials \ {q.k} : resets'[l] = resets[l]
        /\ resets' \in [Serials -> Resets \cup {None}]
    BY <1>4, <1>9, <2>1
  <2>3. doc' \in [Holder -> Documents \cup {None}] /\ gkeys' \in [Holder -> SUBSET KeyForms]
    BY <1>3 DEF AccInv, AccountTypes
  <2>4. ASSUME NEW l \in Serials, resets'[l] # None
        PROVE  resets'[l].times = IF resets'[l].used THEN 1 ELSE 0
    <3>1. CASE l = q.k
      BY <1>9, <2>2, <3>1
    <3>2. CASE l # q.k
      BY <2>2, <2>4, <3>2 DEF AccInv, UsedOnce
    <3> QED
      BY <3>1, <3>2
  <2> QED
    BY <2>2, <2>3, <2>4
<1>11. DocumentHolds(p)'
  BY <1>3, <1>4, <1>5 DEF DocumentHolds
<1>12. \A v \in Holder : v \notin accountsOdd' => SameKeys(v)'
  BY <1>3, <1>4 DEF SameKeys
<1> QED  BY <1>3, <1>4, <1>5, <1>6, <1>10, <1>11, <1>12, AccAfter DEF Ahead

(* ... and the keys, in a list without two of one name: what adding and    *)
(* taking out make of it.                                                  *)
LEMMA KeyAdded ==
    ASSUME NEW s \in Seq(KeyForms), NEW e \in KeyForms, Unique(s),
           \A i \in DOMAIN s : s[i].n # e.n
    PROVE  /\ Append(s, e) \in Seq(KeyForms) /\ Unique(Append(s, e))
           /\ Acc!ToSet(Append(s, e)) = Acc!ToSet(s) \cup {e}
<1>1. PICK t : t = Append(s, e)
  OBVIOUS
<1>2. /\ t \in Seq(KeyForms) /\ DOMAIN t = 1 .. Len(s) + 1 /\ DOMAIN s = 1 .. Len(s) /\ Len(s) \in Nat
      /\ t[Len(s) + 1] = e /\ \A i \in 1 .. Len(s) : t[i] = s[i]
  BY <1>1
<1>3. Unique(t)
  <2>1. ASSUME NEW i \in DOMAIN t, NEW j \in DOMAIN t, t[i].n = t[j].n PROVE i = j
    BY <1>2, <2>1 DEF Unique
  <2> QED  BY <2>1 DEF Unique
<1>4. Acc!ToSet(t) = Acc!ToSet(s) \cup {e}
  BY <1>2 DEF Acc!ToSet
<1> QED  BY <1>1, <1>2, <1>3, <1>4

LEMMA KeysWithout ==
    ASSUME NEW s \in Seq(KeyForms), NEW n \in DOMAIN s
    PROVE  /\ Acc!Without(s, n) \in Seq(KeyForms) /\ DOMAIN Acc!Without(s, n) = 1 .. Len(s) - 1
           /\ \A j \in 1 .. Len(s) - 1 : Acc!Without(s, n)[j] = IF j < n THEN s[j] ELSE s[j + 1]
<1>1. PICK t : t = Acc!Without(s, n)
  OBVIOUS
<1>2. /\ Len(s) \in Nat /\ DOMAIN s = 1 .. Len(s) /\ n \in 1 .. Len(s)
      /\ \A i \in 1 .. Len(s) : s[i] \in KeyForms
  OBVIOUS
<1>3. t = [j \in 1 .. Len(s) - 1 |-> s[IF j < n THEN j ELSE j + 1]]
  BY <1>1 DEF Acc!Without
<1>4. \A j \in 1 .. Len(s) - 1 : t[j] \in KeyForms
  BY <1>2, <1>3
<1>5. t \in Seq(KeyForms)
  BY <1>2, <1>3, <1>4
<1> QED  BY <1>1, <1>3, <1>5

LEMMA KeyTakenOut ==
    ASSUME NEW s \in Seq(KeyForms), NEW n \in DOMAIN s, Unique(s)
    PROVE  /\ Acc!Without(s, n) \in Seq(KeyForms) /\ Unique(Acc!Without(s, n))
           /\ Acc!ToSet(Acc!Without(s, n)) = {e \in Acc!ToSet(s) : e.n # s[n].n}
<1>1. PICK t : t = Acc!Without(s, n)
  OBVIOUS
<1>2. /\ Len(s) \in Nat /\ DOMAIN s = 1 .. Len(s) /\ n \in 1 .. Len(s)
      /\ \A i \in 1 .. Len(s) : s[i] \in KeyForms
  OBVIOUS
<1>3. t \in Seq(KeyForms) /\ DOMAIN t = 1 .. Len(s) - 1
  BY <1>1, KeysWithout
<1>4. /\ DOMAIN t = 1 .. Len(s) - 1
      /\ \A j \in DOMAIN t : t[j] = IF j < n THEN s[j] ELSE s[j + 1]
  BY <1>1, <1>3, KeysWithout
<1>5. Unique(t)
  <2>1. ASSUME NEW i \in DOMAIN t, NEW j \in DOMAIN t, t[i].n = t[j].n PROVE i = j
    <3>1. \A a, b \in 1 .. Len(s) : s[a].n = s[b].n => a = b
      BY <1>2 DEF Unique
    <3> QED  BY <1>2, <1>4, <2>1, <3>1
  <2> QED  BY <2>1 DEF Unique
<1>6. ASSUME NEW e \in Acc!ToSet(t) PROVE e \in Acc!ToSet(s) /\ e.n # s[n].n
  <2>1. PICK j \in DOMAIN t : e = t[j]
    BY <1>6 DEF Acc!ToSet
  <2>2. PICK i \in 1 .. Len(s) : e = s[i] /\ i # n
    BY <1>2, <1>4, <2>1
  <2> QED  BY <1>2, <2>2 DEF Acc!ToSet, Unique
<1>7. ASSUME NEW e \in Acc!ToSet(s), e.n # s[n].n PROVE e \in Acc!ToSet(t)
  <2>1. PICK i \in 1 .. Len(s) : e = s[i] /\ i # n
    BY <1>2, <1>7 DEF Acc!ToSet
  <2>2. PICK j \in DOMAIN t : t[j] = e
    <3>1. CASE i < n
      BY <1>2, <1>4, <2>1, <3>1
    <3>2. CASE i > n
      <4>1. i - 1 \in DOMAIN t /\ t[i - 1] = s[(i - 1) + 1] /\ (i - 1) + 1 = i
        BY <1>2, <1>4, <2>1, <3>2
      <4> QED  BY <2>1, <4>1
    <3> QED  BY <1>2, <2>1, <3>1, <3>2
  <2> QED  BY <2>2 DEF Acc!ToSet
<1>8. Acc!ToSet(t) = {e \in Acc!ToSet(s) : e.n # s[n].n}
  BY <1>6, <1>7
<1> QED  BY <1>1, <1>3, <1>5, <1>8

LEMMA AddKeyStep ==
    ASSUME AccountAssumption, AccInv, SInv', NEW r \in Req, NEW u \in Holder, NEW k \in Key,
           Acc!AddKey(r, u, k)
    PROVE  AccInv'
<1>1. PICK d \in Documents : d = doc[u]
  BY DEF Acc!AddKey, AccInv, AccountTypes
<1>2. PICK new : new = [n |-> Len(d.keys) + 1, key |-> k]
  OBVIOUS
<1>3. PICK q : q = [at |-> "addgit", u |-> u, doc |-> d, new |-> new]
  OBVIOUS
<1>4. /\ accountsReq' = [accountsReq EXCEPT ![r] = q]
      /\ UNCHANGED <<accountsTokens, cleaner, doc, gkeys, resets, accountsOdd>>
  BY <1>1, <1>2, <1>3 DEF Acc!AddKey, Acc!Named
<1>5. /\ \A s \in Req : accountsReq[s] = None
      /\ \A l \in Serials : cleaner[l] = None
      /\ \A v \in Holder : v \notin accountsOdd => SameKeys(v)
  BY AccQuiet DEF Acc!AddKey
<1>6. q \in AccountRequests
  <2>1. d.keys \in Seq(KeyForms)
    BY DEF Documents
  <2>2. Len(d.keys) + 1 \in Nat
    BY <2>1
  <2>3. new \in KeyForms
    BY <1>2, <2>2 DEF KeyForms
  <2> QED  BY <1>3, <2>3 DEF AccountRequests
<1>7. DocumentHolds(q) /\ (\A v : ~Ahead(q, v)) /\ q.at # "use"
  BY <1>1, <1>3 DEF DocumentHolds, Ahead
<1> QED  BY <1>4, <1>5, <1>6, <1>7, AccOnly

(* What a request to add a key has read. *)
LEMMA Adding ==
    ASSUME AccountAssumption, AccInv, NEW r \in Req, NEW q, q = accountsReq[r], q # None,
           q.at \in {"addgit", "adddb", "undo"}
    PROVE  /\ q \in AccountRequests /\ q.u \in Holder /\ q.new \in KeyForms
           /\ q.doc = doc[q.u] /\ q.doc \in Documents /\ doc[q.u] # None
           /\ q.doc.keys \in Seq(KeyForms)
           /\ \A s \in Req : s # r => accountsReq[s] = None
           /\ \A l \in Serials : cleaner[l] = None
<1>1. /\ q \in AccountRequests /\ q.u \in Holder /\ q.new \in KeyForms
      /\ q.doc = doc[q.u] /\ q.doc \in Documents
      /\ \A s \in Req : s # r => accountsReq[s] = None
      /\ \A l \in Serials : cleaner[l] = None
  BY AccGoesOn, AccShapes DEF DocumentHolds
<1> QED  BY <1>1 DEF AccountAssumption, Documents

LEMMA AddKeyInGandalfStep ==
    ASSUME AccountAssumption, AccInv, SInv', NEW r \in Req, Acc!AddKeyInGandalf(r) PROVE AccInv'
<1>1. PICK q : q = accountsReq[r]
  OBVIOUS
<1>2. /\ q # None /\ q.at = "addgit"
      /\ \/ /\ \A g \in gkeys[q.u] : g.n # q.new.n
            /\ gkeys' = [gkeys EXCEPT ![q.u] = @ \cup {q.new}]
            /\ accountsReq' = [accountsReq EXCEPT ![r].at = "adddb"]
         \/ accountsReq' = [accountsReq EXCEPT ![r] = None] /\ gkeys' = gkeys
      /\ UNCHANGED <<doc, accountsTokens, cleaner, resets, accountsOdd>>
  BY <1>1 DEF Acc!AddKeyInGandalf, Acc!At, Acc!Ends, Acc!Go, Acc!Same
<1>3. /\ q \in AccountRequests /\ q.u \in Holder /\ q.new \in KeyForms
      /\ q.doc = doc[q.u] /\ doc[q.u] # None
      /\ \A s \in Req : s # r => accountsReq[s] = None
      /\ \A l \in Serials : cleaner[l] = None
  BY <1>1, <1>2, Adding
<1>4. \A v \in Holder : v \notin accountsOdd => SameKeys(v)
  <2>1. \A v : ~Ahead(q, v)
    BY <1>2 DEF Ahead
  <2> QED  BY <1>1, <1>2, <2>1, AccGoesOn
<1>5. CASE accountsReq' = [accountsReq EXCEPT ![r] = None] /\ gkeys' = gkeys
  BY <1>2, <1>3, <1>4, <1>5, AccOnly DEF Ahead
<1>6. CASE /\ \A g \in gkeys[q.u] : g.n # q.new.n
           /\ gkeys' = [gkeys EXCEPT ![q.u] = @ \cup {q.new}]
           /\ accountsReq' = [accountsReq EXCEPT ![r].at = "adddb"]
  <2>1. PICK p : p = [q EXCEPT !.at = "adddb"]
    OBVIOUS
  <2>2. p \in AccountRequests
    BY <1>2, <1>3, <2>1, AccShapes
  <2>3. p.at = "adddb" /\ p.u = q.u /\ p.doc = q.doc /\ p.new = q.new /\ p # None
    BY <1>2, <1>3, <2>1, <2>2 DEF AccountRequests, AccountAssumption
  <2>4. accountsReq' = [accountsReq EXCEPT ![r] = p]
    BY <1>1, <1>6, <2>1 DEF AccInv, AccountTypes
  <2>5. /\ doc' \in [Holder -> Documents \cup {None}] /\ gkeys' \in [Holder -> SUBSET KeyForms]
        /\ resets' \in [Serials -> Resets \cup {None}]
        /\ \A k \in Serials : resets'[k] # None => resets'[k].times = IF resets'[k].used THEN 1 ELSE 0
    BY <1>2, <1>3, <1>6 DEF AccInv, AccountTypes, UsedOnce
  <2>6. DocumentHolds(p)'
    BY <1>2, <1>3, <2>3 DEF DocumentHolds
  <2>7. ASSUME NEW v \in Holder, v \notin accountsOdd'
        PROVE  IF Ahead(p, v) THEN KeysAhead(p, v)' ELSE SameKeys(v)'
    <3>1. CASE v = q.u
      <4>1. gkeys'[v] = gkeys[v] \cup {q.new} /\ doc'[v] = doc[v]
        BY <1>2, <1>6, <3>1 DEF AccInv, AccountTypes
      <4>2. gkeys[v] = Acc!ToSet(doc[v].keys) /\ Unique(doc[v].keys)
        BY <1>2, <1>3, <1>4, <2>7, <3>1 DEF SameKeys
      <4>3. \A i \in DOMAIN doc[v].keys : doc[v].keys[i].n # q.new.n
        BY <1>6, <3>1, <4>2 DEF Acc!ToSet
      <4> QED  BY <2>3, <3>1, <4>1, <4>2, <4>3 DEF Ahead, KeysAhead
    <3>2. CASE v # q.u
      <4>1. gkeys'[v] = gkeys[v] /\ doc'[v] = doc[v] /\ ~Ahead(p, v)
        BY <1>2, <1>6, <2>3, <3>2 DEF AccInv, AccountTypes, Ahead
      <4> QED  BY <1>2, <1>4, <2>7, <4>1 DEF SameKeys
    <3> QED  BY <3>1, <3>2
  <2> QED  BY <1>2, <1>3, <2>2, <2>3, <2>4, <2>5, <2>6, <2>7, AccAfter
<1> QED  BY <1>2, <1>5, <1>6

LEMMA AddKeyInDatabaseStep ==
    ASSUME AccountAssumption, AccInv, SInv', NEW r \in Req, Acc!AddKeyInDatabase(r) PROVE AccInv'
<1>1. PICK q : q = accountsReq[r]
  OBVIOUS
<1>2. q # None /\ q.at = "adddb"
  BY <1>1 DEF Acc!AddKeyInDatabase, Acc!At
<1>3. /\ q \in AccountRequests /\ q.u \in Holder /\ q.new \in KeyForms
      /\ q.doc = doc[q.u] /\ q.doc \in Documents /\ doc[q.u] # None
      /\ q.doc.keys \in Seq(KeyForms)
      /\ \A s \in Req : s # r => accountsReq[s] = None
      /\ \A l \in Serials : cleaner[l] = None
  BY <1>1, <1>2, Adding
<1>4. PICK d : d = [q.doc EXCEPT !.keys = Append(@, q.new)]
  OBVIOUS
<1>5. /\ UNCHANGED <<gkeys, accountsTokens, cleaner, resets, accountsOdd>>
      /\ \/ doc' = [doc EXCEPT ![q.u] = d] /\ accountsReq' = [accountsReq EXCEPT ![r] = None]
         \/ doc' = doc /\ accountsReq' = [accountsReq EXCEPT ![r].at = "undo"]
  BY <1>1, <1>3, <1>4 DEF Acc!AddKeyInDatabase, Acc!Update, Acc!Ends, Acc!Go
<1>6. q.u \notin accountsOdd => KeysAhead(q, q.u)
  <2>1. Ahead(q, q.u)
    BY <1>2 DEF Ahead
  <2> QED  BY <1>1, <1>2, <1>3, <2>1, AccGoesOn
<1>7. CASE doc' = [doc EXCEPT ![q.u] = d] /\ accountsReq' = [accountsReq EXCEPT ![r] = None]
  <2>1. d \in Documents /\ d.keys = Append(q.doc.keys, q.new)
    <3>1. Append(q.doc.keys, q.new) \in Seq(KeyForms)
      BY <1>3
    <3> QED  BY <1>3, <1>4, <3>1 DEF Documents
  <2>2. d # None
    BY <2>1 DEF AccountAssumption
  <2>3. q.u \notin accountsOdd' => gkeys[q.u] = Acc!ToSet(d.keys) /\ Unique(d.keys)
    <3>1. ASSUME q.u \notin accountsOdd'
          PROVE  /\ gkeys[q.u] = Acc!ToSet(q.doc.keys) \cup {q.new} /\ Unique(q.doc.keys)
                 /\ \A i \in DOMAIN q.doc.keys : q.doc.keys[i].n # q.new.n
      BY <1>2, <1>3, <1>5, <1>6, <3>1 DEF KeysAhead
    <3> QED  BY <1>3, <2>1, <3>1, KeyAdded
  <2> QED  BY <1>1, <1>2, <1>5, <1>7, <2>1, <2>2, <2>3, AccEnds
<1>8. CASE doc' = doc /\ accountsReq' = [accountsReq EXCEPT ![r].at = "undo"]
  <2>1. PICK p : p = [q EXCEPT !.at = "undo"]
    OBVIOUS
  <2>2. p \in AccountRequests
    BY <1>2, <1>3, <2>1, AccShapes
  <2>3. p.at = "undo" /\ p.u = q.u /\ p.doc = q.doc /\ p.new = q.new /\ p # None
    BY <1>2, <1>3, <2>1, <2>2 DEF AccountRequests, AccountAssumption
  <2>4. accountsReq' = [accountsReq EXCEPT ![r] = p]
    BY <1>1, <1>8, <2>1 DEF AccInv, AccountTypes
  <2>5. DocumentHolds(p)
    BY <1>3, <2>3 DEF DocumentHolds
  <2>6. ASSUME NEW v \in Holder, v \notin accountsOdd
        PROVE  IF Ahead(p, v) THEN KeysAhead(p, v) ELSE SameKeys(v)
    <3>1. IF Ahead(q, v) THEN KeysAhead(q, v) ELSE SameKeys(v)
      BY <1>1, <1>2, <2>6, AccGoesOn
    <3>2. (Ahead(q, v) <=> Ahead(p, v)) /\ (KeysAhead(q, v) <=> KeysAhead(p, v))
      BY <1>2, <2>3 DEF Ahead, KeysAhead
    <3> QED  BY <3>1, <3>2
  <2> QED  BY <1>3, <1>5, <1>8, <2>2, <2>3, <2>4, <2>5, <2>6, AccOnly
<1> QED  BY <1>5, <1>7, <1>8

LEMMA UndoKeyStep ==
    ASSUME AccountAssumption, AccInv, SInv', NEW r \in Req, Acc!Undo(r) PROVE AccInv'
<1>1. PICK q : q = accountsReq[r]
  OBVIOUS
<1>2. /\ q # None /\ q.at = "undo" /\ accountsReq' = [accountsReq EXCEPT ![r] = None]
      /\ \/ gkeys' = [gkeys EXCEPT ![q.u] = {g \in @ : g.n # q.new.n}] /\ accountsOdd' = accountsOdd
         \/ gkeys' = gkeys /\ accountsOdd' = accountsOdd \cup {q.u}
      /\ UNCHANGED <<doc, accountsTokens, cleaner, resets>>
  BY <1>1 DEF Acc!Undo, Acc!At, Acc!Ends
<1>3. /\ q.u \in Holder /\ doc[q.u] # None
      /\ \A s \in Req : s # r => accountsReq[s] = None
      /\ \A l \in Serials : cleaner[l] = None
  BY <1>1, <1>2, Adding
<1>4. \A v \in Holder : v \notin accountsOdd => IF v = q.u THEN KeysAhead(q, v) ELSE SameKeys(v)
  <2>1. \A v : Ahead(q, v) <=> v = q.u
    BY <1>2 DEF Ahead
  <2> QED  BY <1>1, <1>2, <2>1, AccGoesOn
<1>5. /\ doc' \in [Holder -> Documents \cup {None}] /\ gkeys' \in [Holder -> SUBSET KeyForms]
      /\ resets' \in [Serials -> Resets \cup {None}]
      /\ \A k \in Serials : resets'[k] # None => resets'[k].times = IF resets'[k].used THEN 1 ELSE 0
  BY <1>2, <1>3 DEF AccInv, AccountTypes, UsedOnce
<1>6. ASSUME NEW v \in Holder, v \notin accountsOdd' PROVE SameKeys(v)'
  <2>1. v \notin accountsOdd /\ (v = q.u => gkeys' = [gkeys EXCEPT ![q.u] = {g \in @ : g.n # q.new.n}])
    BY <1>2, <1>6
  <2>2. CASE v = q.u
    <3>1. gkeys'[v] = {g \in gkeys[v] : g.n # q.new.n} /\ doc'[v] = doc[v]
      BY <1>2, <2>1, <2>2 DEF AccInv, AccountTypes
    <3>2. /\ gkeys[v] = Acc!ToSet(doc[v].keys) \cup {q.new} /\ Unique(doc[v].keys)
          /\ \A i \in DOMAIN doc[v].keys : doc[v].keys[i].n # q.new.n
      BY <1>2, <1>4, <2>1, <2>2 DEF KeysAhead
    <3>3. gkeys'[v] = Acc!ToSet(doc[v].keys)
      BY <3>1, <3>2 DEF Acc!ToSet
    <3> QED  BY <1>3, <2>2, <3>1, <3>2, <3>3 DEF SameKeys
  <2>3. CASE v # q.u
    <3>1. gkeys'[v] = gkeys[v] /\ doc'[v] = doc[v]
      BY <1>2, <2>3 DEF AccInv, AccountTypes
    <3> QED  BY <1>4, <2>1, <2>3, <3>1 DEF SameKeys
  <2> QED  BY <2>2, <2>3
<1> QED  BY <1>2, <1>3, <1>5, <1>6, AccAfter DEF Ahead

LEMMA RemoveKeyStep ==
    ASSUME AccountAssumption, AccInv, SInv', NEW r \in Req, NEW u \in Holder, NEW k \in Key,
           Acc!RemoveKey(r, u, k)
    PROVE  AccInv'
<1>1. PICK d \in Documents : d = doc[u] /\ d # None
  BY DEF Acc!RemoveKey, AccInv, AccountTypes
<1>2. PICK n \in DOMAIN d.keys :
         \/ /\ gkeys' = [gkeys EXCEPT ![u] = {g \in @ : g.n # d.keys[n].n}]
            /\ accountsReq' = [accountsReq EXCEPT ![r] = [at |-> "deldb", u |-> u, doc |->
                  [d EXCEPT !.keys = Acc!Without(@, n)]]]
         \/ UNCHANGED <<gkeys, accountsReq>>
  BY <1>1 DEF Acc!RemoveKey
<1>3. /\ UNCHANGED <<doc, accountsTokens, cleaner, resets, accountsOdd>>
  BY DEF Acc!RemoveKey
<1>4. /\ \A s \in Req : accountsReq[s] = None
      /\ \A l \in Serials : cleaner[l] = None
      /\ \A v \in Holder : v \notin accountsOdd => SameKeys(v)
  BY AccQuiet DEF Acc!RemoveKey
<1>5. CASE UNCHANGED <<gkeys, accountsReq>>
  <2>1. accountsReq' = [accountsReq EXCEPT ![r] = None]
    BY <1>4, <1>5 DEF AccInv, AccountTypes
  <2> QED  BY <1>3, <1>4, <1>5, <2>1, AccOnly DEF Ahead
<1>6. CASE /\ gkeys' = [gkeys EXCEPT ![u] = {g \in @ : g.n # d.keys[n].n}]
           /\ accountsReq' = [accountsReq EXCEPT ![r] = [at |-> "deldb", u |-> u, doc |->
                 [d EXCEPT !.keys = Acc!Without(@, n)]]]
  <2>1. PICK e : e = [d EXCEPT !.keys = Acc!Without(@, n)]
    OBVIOUS
  <2>2. PICK q : q = [at |-> "deldb", u |-> u, doc |-> e]
    OBVIOUS
  <2>3. d.keys \in Seq(KeyForms)
    BY DEF Documents
  <2>4. e \in Documents /\ e.keys = Acc!Without(d.keys, n)
    <3>1. Acc!Without(d.keys, n) \in Seq(KeyForms)
      BY <2>3, KeysWithout
    <3> QED  BY <2>1, <3>1 DEF Documents
  <2>5. q \in AccountRequests
    BY <2>2, <2>4 DEF AccountRequests
  <2>6. accountsReq' = [accountsReq EXCEPT ![r] = q]
    BY <1>6, <2>1, <2>2
  <2>7. /\ doc' \in [Holder -> Documents \cup {None}] /\ gkeys' \in [Holder -> SUBSET KeyForms]
        /\ resets' \in [Serials -> Resets \cup {None}]
        /\ \A l \in Serials : resets'[l] # None => resets'[l].times = IF resets'[l].used THEN 1 ELSE 0
    BY <1>3, <1>6 DEF AccInv, AccountTypes, UsedOnce
  <2>8. DocumentHolds(q)' /\ q.at # "use" /\ q # None
    BY <1>1, <1>3, <2>2, <2>5 DEF DocumentHolds, AccountAssumption
  <2>9. ASSUME NEW v \in Holder, v \notin accountsOdd'
        PROVE  IF Ahead(q, v) THEN KeysAhead(q, v)' ELSE SameKeys(v)'
    <3>1. CASE v = u
      <4>1. gkeys'[v] = {g \in gkeys[v] : g.n # d.keys[n].n}
        BY <1>6, <3>1 DEF AccInv, AccountTypes
      <4>2. gkeys[v] = Acc!ToSet(d.keys) /\ Unique(d.keys)
        BY <1>1, <1>3, <1>4, <2>9, <3>1 DEF SameKeys
      <4>3. gkeys'[v] = Acc!ToSet(e.keys) /\ Unique(e.keys)
        BY <2>3, <2>4, <4>1, <4>2, KeyTakenOut
      <4> QED  BY <2>2, <2>8, <3>1, <4>3 DEF Ahead, KeysAhead
    <3>2. CASE v # u
      <4>1. gkeys'[v] = gkeys[v] /\ doc'[v] = doc[v] /\ ~Ahead(q, v)
        BY <1>3, <1>6, <2>2, <3>2 DEF AccInv, AccountTypes, Ahead
      <4> QED  BY <1>3, <1>4, <2>9, <4>1 DEF SameKeys
    <3> QED  BY <3>1, <3>2
  <2> QED  BY <1>3, <1>4, <2>5, <2>6, <2>7, <2>8, <2>9, AccAfter
<1> QED  BY <1>2, <1>5, <1>6

LEMMA RemoveKeyFromDatabaseStep ==
    ASSUME AccountAssumption, AccInv, SInv', NEW r \in Req, Acc!RemoveKeyFromDatabase(r) PROVE AccInv'
<1>1. PICK q : q = accountsReq[r]
  OBVIOUS
<1>2. q # None /\ q.at = "deldb" /\ accountsReq' = [accountsReq EXCEPT ![r] = None]
  BY <1>1 DEF Acc!RemoveKeyFromDatabase, Acc!At, Acc!Ends
<1>3. q.u \in Holder /\ q.doc \in Documents /\ doc[q.u] # None
  BY <1>1, <1>2, AccGoesOn, AccShapes DEF DocumentHolds
<1>4. /\ UNCHANGED <<gkeys, accountsTokens, cleaner, resets>>
      /\ \/ doc' = [doc EXCEPT ![q.u] = q.doc] /\ accountsOdd' = accountsOdd
         \/ doc' = doc /\ accountsOdd' = accountsOdd \cup {q.u}
  BY <1>1, <1>3 DEF Acc!RemoveKeyFromDatabase, Acc!Update
<1>5. q.u \notin accountsOdd => gkeys[q.u] = Acc!ToSet(q.doc.keys) /\ Unique(q.doc.keys)
  <2>1. Ahead(q, q.u)
    BY <1>2 DEF Ahead
  <2> QED  BY <1>1, <1>2, <1>3, <2>1, AccGoesOn DEF KeysAhead
<1>6. q.doc # None
  BY <1>3 DEF AccountAssumption
<1>7. CASE doc' = [doc EXCEPT ![q.u] = q.doc] /\ accountsOdd' = accountsOdd
  BY <1>1, <1>2, <1>3, <1>4, <1>5, <1>6, <1>7, AccEnds
<1>8. CASE doc' = doc /\ accountsOdd' = accountsOdd \cup {q.u}
  <2>1. doc' = [doc EXCEPT ![q.u] = doc[q.u]] /\ doc[q.u] \in Documents \cup {None}
    BY <1>3, <1>8, SameDoc DEF AccInv, AccountTypes
  <2> QED  BY <1>1, <1>2, <1>4, <1>8, <2>1, AccEnds
<1> QED  BY <1>4, <1>7, <1>8

LEMMA AccInvStep ==
    ASSUME AccountAssumption, AccInv, [Acc!Next]_AccVars PROVE AccInv'
<1>1. CASE UNCHANGED AccVars
  <2>1. SInv'
    BY <1>1, SInvStep DEF AccInv, AccVars, SessionStep, OtherStep
  <2>2. AccountTypes' /\ OneActs' /\ CountHolds' /\ UsedOnce' /\ DocumentsHold'
    BY <1>1 DEF AccVars, AccInv, AccountTypes, OneActs, CountHolds, UsedOnce,
       DocumentsHold, DocumentHolds
  <2>3. \A u, q : (KeysAhead(q, u)' <=> KeysAhead(q, u)) /\ (SameKeys(u)' <=> SameKeys(u))
    BY <1>1 DEF AccVars, KeysAhead, SameKeys
  <2>4. KeysMirror'
    BY <1>1, <2>3 DEF AccVars, AccInv, KeysMirror
  <2> QED  BY <2>1, <2>2, <2>4 DEF AccInv
<1>2. CASE Acc!Next
  <2>1. SInv'
    BY <1>2, AccSteps, SInvStep DEF AccInv
  <2> QED
    BY <1>2, <2>1, LoginStep, LogoutStep, CountStep, FindStep, RemoveOldStep, AccCreateUserStep,
       InsertStep, AccRemoveUserStep, DeleteStep, ChangePasswordStep, UpdatedStep,
       StartPasswordResetStep, ResetPasswordStep, UseStep, AddKeyStep, AddKeyInGandalfStep,
       AddKeyInDatabaseStep, UndoKeyStep, RemoveKeyStep, RemoveKeyFromDatabaseStep
    DEF Acc!Next, Acc!Serials, Serials
<1> QED  BY <1>1, <1>2

LEMMA AccInvBegins == ASSUME AccountAssumption, Acc!Init PROVE AccInv
<1>1. AccountTypes /\ OneActs /\ CountHolds /\ UsedOnce /\ DocumentsHold
  BY DEF Acc!Init, Acc!Serials, Serials, AccountTypes, OneActs, CountHolds, UsedOnce, DocumentsHold
<1>2. KeysMirror
  BY DEF Acc!Init, KeysMirror, Ahead, SameKeys
<1> QED  BY <1>1, <1>2, SInvBegins DEF AccInv

(* As many names as keys. *)
LEMMA NamesCount ==
    ASSUME NEW s \in Seq(KeyForms), Unique(s)
    PROVE  Cardinality({g.n : g \in Acc!ToSet(s)}) = Len(s)
<1>1. PICK m \in Nat : m = Len(s) /\ DOMAIN s = 1 .. m
  OBVIOUS
<1>2. PICK names : names = {g.n : g \in Acc!ToSet(s)}
  OBVIOUS
<1>3. PICK f : f = [i \in 1 .. m |-> s[i].n]
  OBVIOUS
<1>4. f \in Surjection(1 .. m, names)
  BY <1>1, <1>2, <1>3 DEF Surjection, Acc!ToSet
<1>5. f \in Injection(1 .. m, names)
  BY <1>1, <1>3, <1>4 DEF Surjection, Injection, IsInjective, Unique
<1>6. f \in Bijection(1 .. m, names)
  BY <1>4, <1>5 DEF Bijection
<1>7. IsFiniteSet(1 .. m) /\ Cardinality(1 .. m) = m
  BY FS_Interval
<1>8. Cardinality(names) = Cardinality(1 .. m)
  BY <1>6, <1>7, FS_Bijection DEF ExistsBijection
<1> QED  BY <1>1, <1>2, <1>7, <1>8

LEMMA AccInvSafe == ASSUME AccountAssumption, AccInv PROVE Acc!AccountsSafe
<1>1. Acc!SessionsBounded
  BY SInvBounds DEF AccInv
<1>2. Acc!NewestStay
  BY AccountsCount DEF Acc!NewestStay, AccInv, CountHolds, Acc!Serials, Serials
<1>3. Acc!ResetOnce
  BY DEF Acc!ResetOnce, AccInv, UsedOnce, Acc!Serials, Serials
<1>4. Acc!KeysAgree
  <2>1. SUFFICES ASSUME Acc!Quiet, NEW u \in Holder, u \notin accountsOdd, doc[u] # None
                 PROVE  /\ gkeys[u] = Acc!ToSet(doc[u].keys)
                        /\ Acc!Cardinality({g.n : g \in gkeys[u]}) = Len(doc[u].keys)
    BY DEF Acc!KeysAgree
  <2>2. SameKeys(u)
    BY <2>1 DEF Acc!Quiet, AccInv, KeysMirror, Ahead
  <2>3. doc[u].keys \in Seq(KeyForms)
    BY <2>1 DEF AccInv, AccountTypes, Documents
  <2> QED  BY <2>1, <2>2, <2>3, NamesCount, AccountsCount DEF SameKeys
<1> QED  BY <1>1, <1>2, <1>3, <1>4 DEF Acc!AccountsSafe
-----------------------------------------------------------------------------
(* The requests to AppLifecycle and TeamAccess that may overlap.  What the *)
(* two instances of AppLifecycle differ in leaves the quotas alone.        *)
Races == INSTANCE AppLifecycle WITH
    Name <- AppName, User <- AppUser, Unit <- FewSlots, AppLimit <- UserLimit,
    MaxOps <- RaceOps, Serial <- FALSE, Fresh <- FALSE

TeamRaces == INSTANCE TeamAccess WITH
    User <- Person, Faults <- {}, MaxOps <- TeamOps, Serial <- FALSE,
    req <- teamsReq, done <- teamsDone

LEMMA SameSteps ==
    ASSUME NEW r \in Req, Races!Step(r)
    PROVE  Apps!Step(r) \/ Races!ProvisionAddUnits(r)
<1>1. Races!Reserve(r) => Apps!Reserve(r)
  BY ZenonT(60) DEF Races!Reserve, Apps!Reserve, Races!Cardinality, Apps!Cardinality, Races!Last,
     Apps!Last, Races!Reserving, Apps!Reserving, Races!Free, Apps!Free, Races!Owner,
     Apps!Owner, Races!HasQuota, Apps!HasQuota, Races!ItemsOf, Apps!ItemsOf, Races!LimitOf,
     Apps!LimitOf, Races!Available, Apps!Available, Races!NextItem, Apps!NextItem,
     Races!NextItems, Apps!NextItems, Races!PipelineOf, Apps!PipelineOf,
     Races!CreatePipeline, Apps!CreatePipeline, Races!AddPipeline, Apps!AddPipeline
<1>2. Races!UpdateQuota(r) => Apps!UpdateQuota(r)
  BY ZenonT(60) DEF Races!UpdateQuota, Apps!UpdateQuota, Races!Cardinality, Apps!Cardinality,
     Races!Owner, Apps!Owner, Races!HasQuota, Apps!HasQuota, Races!Reserved, Apps!Reserved,
     Races!PipelineOf, Apps!PipelineOf, Races!CreatePipeline, Apps!CreatePipeline,
     Races!AddPipeline, Apps!AddPipeline, Races!Fails, Apps!Fails, Races!Idle, Apps!Idle
<1>3. Races!Unlimited(r) => Apps!Unlimited(r)
  BY DEF Races!Unlimited, Apps!Unlimited, Races!Last, Apps!Last, Races!Reserving,
     Apps!Reserving, Races!Owner, Apps!Owner, Races!HasQuota, Apps!HasQuota, Races!Reserved,
     Apps!Reserved, Races!NextItem, Apps!NextItem, Races!NextItems, Apps!NextItems,
     Races!PipelineOf, Apps!PipelineOf, Races!CreatePipeline, Apps!CreatePipeline,
     Races!AddPipeline, Apps!AddPipeline, Races!Fails, Apps!Fails, Races!Completes,
     Apps!Completes, Races!Idle, Apps!Idle
<1>4. Races!CreateAppQuota(r) => Apps!CreateAppQuota(r)
  BY DEF Races!CreateAppQuota, Apps!CreateAppQuota, Races!Cardinality, Apps!Cardinality,
     Races!Runs, Apps!Runs, Races!Free, Apps!Free, Races!PipelineOf, Apps!PipelineOf,
     Races!CreatePipeline, Apps!CreatePipeline, Races!AddPipeline, Apps!AddPipeline,
     Races!Fails, Apps!Fails, Races!Completes, Apps!Completes, Races!Idle, Apps!Idle
<1>5. Races!InsertApp(r) => Apps!InsertApp(r)
  BY DEF Races!InsertApp, Apps!InsertApp, Races!Runs, Apps!Runs, Races!Placeholder,
     Apps!Placeholder, Races!PipelineOf, Apps!PipelineOf, Races!CreatePipeline,
     Apps!CreatePipeline, Races!AddPipeline, Apps!AddPipeline, Races!Fails, Apps!Fails,
     Races!Completes, Apps!Completes, Races!Idle, Apps!Idle
<1>6. Races!ExportEnvironments(r) => Apps!ExportEnvironments(r)
  BY DEF Races!ExportEnvironments, Apps!ExportEnvironments, Races!Runs, Apps!Runs,
     Races!PipelineOf, Apps!PipelineOf, Races!CreatePipeline, Apps!CreatePipeline,
     Races!AddPipeline, Apps!AddPipeline, Races!Fails, Apps!Fails, Races!Idle, Apps!Idle
<1>7. Races!CreateRepository(r) => Apps!CreateRepository(r)
  BY DEF Races!CreateRepository, Apps!CreateRepository, Races!Runs, Apps!Runs,
     Races!PipelineOf, Apps!PipelineOf, Races!CreatePipeline, Apps!CreatePipeline,
     Races!AddPipeline, Apps!AddPipeline, Races!Fails, Apps!Fails, Races!Completes,
     Apps!Completes, Races!Idle, Apps!Idle
<1>8. Races!ProvisionApp(r) => Apps!ProvisionApp(r)
  BY ZenonT(60) DEF Races!ProvisionApp, Apps!ProvisionApp, Races!Runs, Apps!Runs, Races!PipelineOf,
     Apps!PipelineOf, Races!CreatePipeline, Apps!CreatePipeline, Races!AddPipeline,
     Apps!AddPipeline, Races!Fails, Apps!Fails, Races!Completes, Apps!Completes, Races!Idle,
     Apps!Idle
<1>9. Races!SaveNewUnits(r) => Apps!SaveNewUnits(r)
  BY ZenonT(60) DEF Races!SaveNewUnits, Apps!SaveNewUnits, Races!SetToSortSeq, Apps!SetToSortSeq,
     Races!SetToSeq, Apps!SetToSeq, Races!Cardinality, Apps!Cardinality, Races!IsInjective,
     Apps!IsInjective, Races!Runs, Apps!Runs, Races!NewUnits, Apps!NewUnits,
     Races!PipelineOf, Apps!PipelineOf, Races!CreatePipeline, Apps!CreatePipeline,
     Races!AddPipeline, Apps!AddPipeline, Races!Fails, Apps!Fails, Races!Completes,
     Apps!Completes, Races!Idle, Apps!Idle
<1>10. Races!Rollback(r) => Apps!Rollback(r)
  BY ZenonT(60) DEF Races!Rollback, Apps!Rollback, Races!Undo, Apps!Undo, Races!ResultOf, Apps!ResultOf,
     Races!BackEnds, Apps!BackEnds, Races!PipelineOf, Apps!PipelineOf, Races!CreatePipeline,
     Apps!CreatePipeline, Races!AddPipeline, Apps!AddPipeline, Races!Idle, Apps!Idle
<1>11. Races!ForceDestroy(r) => Apps!ForceDestroy(r)
  BY ZenonT(60) DEF Races!ForceDestroy, Apps!ForceDestroy, Races!DestroyOrder, Apps!DestroyOrder,
     Races!Destroyed, Apps!Destroyed, Races!Idle, Apps!Idle
<1>12. Races!TakeUnits(r) => Apps!TakeUnits(r)
  BY ZenonT(60) DEF Races!TakeUnits, Apps!TakeUnits, Races!SetToSortSeq, Apps!SetToSortSeq,
     Races!SetToSeq, Apps!SetToSeq, Races!Cardinality, Apps!Cardinality, Races!IsInjective,
     Apps!IsInjective, Races!Sorted, Apps!Sorted, Races!Known, Apps!Known, Races!Idle,
     Apps!Idle
<1>13. Races!WriteUnits(r) => Apps!WriteUnits(r)
  BY DEF Races!WriteUnits, Apps!WriteUnits
<1>14. Races!ReleaseUnits(r) => Apps!ReleaseUnits(r)
  BY DEF Races!ReleaseUnits, Apps!ReleaseUnits, Races!Idle, Apps!Idle
<1> QED
  BY <1>1, <1>2, <1>3, <1>4, <1>5, <1>6, <1>7, <1>8, <1>9, <1>10, <1>11, <1>12, <1>13, <1>14
     DEF Races!Step, Apps!Step

LEMMA RacesStep ==
    ASSUME QuotaAssumption, QuotaInv, [Races!Next]_AppsVars PROVE QuotaInv'
<1>1. ASSUME NEW r \in Req, NEW n \in AppName, NEW u \in AppUser, Races!Begin(r, "create", n, u, 0)
      PROVE  QuotaInv'
  <2>1. Starts(r, "create", n, u, 0) /\ UNCHANGED <<reserved, items, locked>>
    BY <1>1 DEF Races!Begin, Starts, Races!Idle, Apps!Idle
  <2> QED
    BY <2>1, BeginStep
<1>2. ASSUME NEW r \in Req, NEW n \in AppName, Races!Begin(r, "destroy", n, None, 0)
      PROVE  QuotaInv'
  <2>1. Starts(r, "destroy", n, None, 0) /\ UNCHANGED <<reserved, items, locked>>
    BY <1>2 DEF Races!Begin, Starts, Races!Idle, Apps!Idle
  <2> QED
    BY <2>1, BeginStep
<1>3. ASSUME NEW r \in Req, NEW n \in AppName, NEW k \in 1 .. 2,
             Races!Begin(r, "addUnits", n, None, k) \/ Races!Begin(r, "removeUnits", n, None, k)
      PROVE  QuotaInv'
  <2>1. k \in Nat
    OBVIOUS
  <2>2. CASE Races!Begin(r, "addUnits", n, None, k)
    <3>1. Starts(r, "addUnits", n, None, k) /\ UNCHANGED <<reserved, items, locked>>
      BY <2>2 DEF Races!Begin, Starts, Races!Idle, Apps!Idle
    <3> QED
      BY <2>1, <3>1, BeginStep
  <2>3. CASE Races!Begin(r, "removeUnits", n, None, k)
    <3>1. Starts(r, "removeUnits", n, None, k) /\ UNCHANGED <<reserved, items, locked>>
      BY <2>3 DEF Races!Begin, Starts, Races!Idle, Apps!Idle
    <3> QED
      BY <2>1, <3>1, BeginStep
  <2> QED
    BY <1>3, <2>2, <2>3
<1>4. ASSUME \/ \E n \in AppName, x \in FewSlots : Races!Deployed(n, x)
             \/ Races!CollectRead \/ \E n \in AppName : Races!CollectWrite(n)
             \/ UNCHANGED AppsVars
      PROVE  QuotaInv'
  BY <1>4, StillStep DEF Races!Deployed, Races!CollectRead, Races!CollectWrite, AppsVars
<1>5. ASSUME NEW r \in Req, Races!ProvisionAddUnits(r) PROVE QuotaInv'
  <2>1. UNCHANGED <<reserved, items, locked>> /\ req[r].phase = "forward"
    BY <1>5 DEF Races!ProvisionAddUnits, Races!Runs
  <2>2. (\E res : Races!Completes(r, res)) \/ (\E res : Races!Fails(r, res))
    BY <1>5, Zenon DEF Races!ProvisionAddUnits
  <2>3. (\E res : Apps!Completes(r, res)) \/ (\E res : Apps!Fails(r, res))
    BY <2>2, ZenonT(30) DEF Races!Fails, Apps!Fails, Races!Completes, Apps!Completes, Races!Idle, Apps!Idle,
       Races!PipelineOf, Apps!PipelineOf, Races!CreatePipeline, Apps!CreatePipeline,
       Races!AddPipeline, Apps!AddPipeline
  <2> QED
    BY <2>1, <2>3, ActionStep
<1>6. ASSUME NEW r \in Req, Races!Step(r) PROVE QuotaInv'
  BY <1>5, <1>6, SameSteps, RequestStep
<1> QED
  BY <1>1, <1>2, <1>3, <1>4, <1>6 DEF Races!Next

LEMMA RacesHold == ASSUME QuotaAssumption, QuotaInv PROVE Races!QuotaKept
<1>1. \A S : Races!Cardinality(S) = Cardinality(S)
  BY DEF Races!Cardinality, Cardinality
<1>2. ASSUME NEW n \in AppName, items[n] # None PROVE Cardinality(items[n]) <= UnitLimit
  BY <1>2 DEF QuotaInv, InLimit, QuotaAssumption
<1> QED
  BY <1>1, <1>2 DEF QuotaInv, InLimit, Races!QuotaKept
=============================================================================
