------------------------------ MODULE WorkQueue ------------------------------
(* tsuru's queue of work on applications: beanstalkd's tube with its         *)
(* reservations that run out, the executor whose loop starts one goroutine   *)
(* for each message, the handler of the app package, and Preempt.            *)
EXTENDS Integers, FiniteSets

CONSTANTS
    Msg,
    Kind,         \* of each message: "env", "envstart", "start"
    MaxEnqueues, MaxStops, MaxExpiries, MaxChanges,   \* bounds
    None

Loops == {1, 2}

VARIABLES
    state,        \* executor.state
    adding,       \* Starts that have not called r.add yet
    listed,       \* the executor is in the registry
    loops,        \* goroutines of executor.loop: where each is
    tube,         \* state of each message in beanstalkd
    work,         \* goroutines of the handler
    preempt,      \* progress of a Preempt
    unit,         \* what the app's document says of the message's unit
    wrote, ran,   \* messages whose apprc was written, whose app was started
    excused,      \* messages dropped because the unit is gone or in error
    enqueues, stops, expiries, changes

vars == <<state, adding, listed, loops, tube, work, preempt, unit, wrote, ran, excused,
          enqueues, stops, expiries, changes>>
exec == <<state, adding, listed, loops>>
app == <<unit, wrote, ran, excused>>
counts == <<enqueues, stops, expiries, changes>>

Init ==
    /\ state = "stopped" /\ adding = 0 /\ listed = FALSE
    /\ loops = [l \in Loops |-> None]
    /\ tube = [m \in Msg |-> None]
    /\ work = {} /\ preempt = None
    /\ unit = [m \in Msg |-> "pending"]
    /\ wrote = {} /\ ran = {} /\ excused = {}
    /\ enqueues = 0 /\ stops = 0 /\ expiries = 0 /\ changes = 0

(* executor.Start: compare and swap, then the registry, then the goroutine.  *)
MayStartMutant == state # "running"
MayStart == state = "stopped"
Enqueue(m) ==
    /\ tube[m] = None /\ enqueues < MaxEnqueues
    /\ enqueues' = enqueues + 1
    /\ tube' = [tube EXCEPT ![m] = "ready"]
    /\ IF MayStart THEN state' = "running" /\ adding' = adding + 1
                   ELSE UNCHANGED <<state, adding>>
    /\ UNCHANGED <<listed, loops, work, preempt, app, stops, expiries, changes>>
Added ==
    /\ adding > 0 /\ adding' = adding - 1 /\ listed' = TRUE
    /\ \E l \in Loops :
        /\ loops[l] = None /\ \A k \in Loops : k < l => loops[k] # None
        /\ loops' = [loops EXCEPT ![l] = "test"]
    /\ UNCHANGED <<state, tube, work, preempt, app, counts>>

(* executor.loop: the state is read before each call of the inner function.  *)
Test(l) ==
    /\ loops[l] = "test"
    /\ IF state = "running"
       THEN loops' = [loops EXCEPT ![l] = "get"] /\ UNCHANGED state
       ELSE loops' = [loops EXCEPT ![l] = None] /\ state' = "stopped"
    /\ UNCHANGED <<adding, listed, tube, work, preempt, app, counts>>
Job(m) == [m |-> m, at |-> "first", delete |-> FALSE]
Get(l, m) ==
    /\ loops[l] = "get" /\ tube[m] = "ready"
    /\ tube' = [tube EXCEPT ![m] = "reserved"]
    /\ \A j \in work : j.m # m \/ j # Job(m)
    /\ work' = work \cup {Job(m)}
    /\ loops' = [loops EXCEPT ![l] = "test"]
    /\ UNCHANGED <<state, adding, listed, preempt, app, counts>>
TimesOut(l) ==
    /\ loops[l] = "get" /\ \A m \in Msg : tube[m] # "ready"
    /\ loops' = [loops EXCEPT ![l] = "test"]
    /\ UNCHANGED <<state, adding, listed, tube, work, preempt, app, counts>>

(* Stop and Preempt; Preempt copies the registry and waits for what stops.   *)
Stopped ==
    IF state = "running" THEN state' = "stopping" /\ listed' = FALSE
                         ELSE UNCHANGED <<state, listed>>
Preempt ==
    /\ preempt = None /\ stops < MaxStops /\ stops' = stops + 1
    /\ preempt' = IF listed THEN "stop" ELSE None
    /\ UNCHANGED <<exec, tube, work, app, enqueues, expiries, changes>>
Stop ==
    /\ preempt = "stop" /\ Stopped
    /\ preempt' = IF state = "running" THEN "wait" ELSE None
    /\ UNCHANGED <<adding, loops, tube, work, app, counts>>
AwaitedMutant == state # "running"
Awaited == state = "stopped"
Wait ==
    /\ preempt = "wait" /\ Awaited /\ preempt' = "done"
    /\ UNCHANGED <<exec, tube, work, app, counts>>
Leave ==
    /\ preempt = "done" /\ preempt' = None
    /\ UNCHANGED <<exec, tube, work, app, counts>>

(* ensureAppIsStarted: a unit that is gone or in error drops the message,    *)
(* one that is not started yet keeps it.                                     *)
DropsMutant(m) == unit[m] # "started"
Drops(m) == unit[m] \in {"gone", "error"}
Move(j, k) == work' = (work \ {j}) \cup {k}
Ended(j, del) == [j EXCEPT !.at = "end", !.delete = del]
NotReady(j) ==
    /\ Move(j, Ended(j, j.delete \/ Drops(j.m)))
    /\ excused' = IF unit[j.m] \in {"gone", "error"} THEN excused \cup {j.m} ELSE excused
    /\ UNCHANGED <<wrote, ran>>
Ready(m) == unit[m] = "started" /\ ~Drops(m)
First(j) ==
    /\ j \in work /\ j.at = "first" /\ Kind[j.m] # "start"
    /\ IF ~Ready(j.m) THEN NotReady(j)
       ELSE /\ wrote' = wrote \cup {j.m} /\ UNCHANGED <<ran, excused>>
            /\ Move(j, [j EXCEPT !.at = IF Kind[j.m] = "env" THEN "end" ELSE "start",
                                 !.delete = TRUE])
    /\ UNCHANGED <<exec, tube, preempt, unit, counts>>
(* The second case, entered by fallthrough as well: a restart that fails is  *)
(* only logged.                                                              *)
Second(j) ==
    /\ j \in work /\ j.at = IF Kind[j.m] = "start" THEN "first" ELSE "start"
    /\ IF ~Ready(j.m) THEN NotReady(j)
       ELSE /\ UNCHANGED <<wrote, excused>>
            /\ \/ Move(j, Ended(j, TRUE)) /\ ran' = ran \cup {j.m}
               \/ Move(j, Ended(j, j.delete)) /\ UNCHANGED ran
    /\ UNCHANGED <<exec, tube, preempt, unit, counts>>
ReturnsMutant(j) == tube[j.m]
Returns(j) == IF tube[j.m] = "reserved" THEN "ready" ELSE tube[j.m]
Finish(j) ==
    /\ j \in work /\ j.at = "end" /\ work' = work \ {j}
    /\ tube' = [tube EXCEPT ![j.m] = IF j.delete THEN "gone" ELSE Returns(j)]
    /\ UNCHANGED <<exec, preempt, app, counts>>

(* beanstalkd gives a message to another worker after ttr; the collector     *)
(* writes what it sees of the units.                                         *)
Expires(m) ==
    /\ tube[m] = "reserved" /\ expiries < MaxExpiries
    /\ expiries' = expiries + 1
    /\ tube' = [tube EXCEPT ![m] = "ready"]
    /\ UNCHANGED <<exec, work, preempt, app, enqueues, stops, changes>>
Collect(m, s) ==
    /\ unit[m] # "gone" /\ s # unit[m]
    /\ unit[m] = "pending" \/ (changes < MaxChanges /\ s # "pending")
    /\ changes' = IF unit[m] = "pending" THEN changes ELSE changes + 1
    /\ unit' = [unit EXCEPT ![m] = s]
    /\ UNCHANGED <<exec, tube, work, preempt, wrote, ran, excused, enqueues, stops, expiries>>
Collected(m) == unit[m] = "pending" /\ \E s \in {"started", "error", "gone"} : Collect(m, s)

Next ==
    \/ \E m \in Msg : Enqueue(m) \/ Expires(m)
    \/ \E m \in Msg, s \in {"started", "error", "gone"} : Collect(m, s)
    \/ Added \/ Preempt \/ Stop \/ Wait \/ Leave
    \/ \E l \in Loops : Test(l) \/ TimesOut(l) \/ \E m \in Msg : Get(l, m)
    \/ \E j \in work : First(j) \/ Second(j) \/ Finish(j)

(* The Go scheduler, beanstalkd's first come first served, the collector.    *)
Jobs == [m : Msg, at : {"first", "start", "end"}, delete : BOOLEAN]
Fairness ==
    /\ WF_vars(Added) /\ WF_vars(Stop) /\ WF_vars(Wait) /\ WF_vars(Leave)
    /\ \A l \in Loops : WF_vars(Test(l)) /\ \A m \in Msg : SF_vars(Get(l, m))
    /\ \A j \in Jobs : WF_vars(First(j)) /\ WF_vars(Second(j)) /\ WF_vars(Finish(j))
    /\ \A m \in Msg : WF_vars(tube[m] # None /\ Collected(m))

Spec == Init /\ [][Next]_vars
FairSpec == Spec /\ Fairness
-----------------------------------------------------------------------------
TypeOK ==
    /\ state \in {"stopped", "running", "stopping"} /\ adding \in 0..2
    /\ loops \in [Loops -> {None, "test", "get"}]
    /\ tube \in [Msg -> {None, "ready", "reserved", "gone"}]
    /\ work \subseteq Jobs /\ preempt \in {None, "stop", "wait", "done"}

(* Start and loop share a word: there is never a second loop, through Starts *)
(* while the executor stops.                                                 *)
OneLoop == Cardinality({l \in Loops : loops[l] # None}) + adding <= 1

(* Preempt returns after the loop it stopped has ended: the loop that it     *)
(* waited for takes no message after that.                                   *)
PreemptWaits == [][\A l \in Loops :
    (preempt = "wait" /\ preempt' = "done") => loops[l] = None]_vars

(* handle, Release, ttr: a message leaves the queue only when its apprc was  *)
(* written, or its app was started, or nothing could be done for its unit.   *)
LeavesWithReason ==
    \A m \in Msg : tube[m] = "gone" => m \in excused \/ m \in (IF Kind[m] = "start" THEN ran ELSE wrote)

(* Unless the executor is stopped, every message is dealt with at last.      *)
MessagesEnd == \A m \in Msg : tube[m] = "ready" ~> tube[m] = "gone" \/ stops > 0 \/ Kind[m] = "start"

(* One loop at a time, and no message lost on the way.                     *)
QueueSafe == OneLoop /\ LeavesWithReason
=============================================================================
