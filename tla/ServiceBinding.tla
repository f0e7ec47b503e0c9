--------------------------- MODULE ServiceBinding ---------------------------
(* tsuru's service instances: the document that says which applications are  *)
(* bound, the service's own endpoint that knows the units, the environment   *)
(* variables of the applications, and the queue that binds new units. One    *)
(* request of the API runs at a time; its goroutines and the queue's tasks   *)
(* answer in any order.                                                      *)
EXTENDS Integers, FiniteSets, Sequences

CONSTANTS
    Instance, App, Unit,
    Var,          \* names of environment variables
    Vars,         \* the variables that the endpoint answers for an instance
    MaxOps,       \* bound on the requests and changes of units
    MaxUnits,     \* bound on the units of an app
    Patient,      \* no request comes while the endpoint has calls to answer
    Prompt,       \* the collector sees a new unit before the queue binds it
    Blank,        \* the nameless unit that a new app starts with
    None

VARIABLES
    inst,         \* collection of instances: the apps of each, or None
    held,         \* the endpoint: the units bound to each resource, or None
    units,        \* units of each app's document in order, or None without one
    fresh,        \* (app, unit): started, the collector has not seen it yet
    env,          \* the instance that each variable of an app comes from
    req,          \* the request under way
    calls,        \* calls to the endpoint that have not been answered
    tasks,        \* bind-service messages in the queue
    wrong,        \* (instance, unit): the last call failed
    skipped,      \* (instance, unit): GetUnits has left the unit out
    done

vars == <<inst, held, units, fresh, env, req, calls, tasks, wrong, skipped, done>>

NoEnv == [v \in Var |-> None]

Init ==
    /\ inst = [i \in Instance |-> None]
    /\ held = [i \in Instance |-> None]
    /\ units = [a \in App |-> None] /\ fresh = {}
    /\ env = [a \in App |-> NoEnv]
    /\ req = None /\ calls = {} /\ tasks = {} /\ wrong = {} /\ skipped = {} /\ done = 0

Quiet == req = None /\ calls = {} /\ tasks = {} /\ fresh = {}
Begins == req = None /\ done < MaxOps /\ done' = done + 1 /\ (Patient => Quiet)
Call(op, i, u, first) == [op |-> op, i |-> i, u |-> u, first |-> first]
SeqOf(a) == IF units[a] = None THEN <<>> ELSE units[a]
UnitsIn(a) == {SeqOf(a)[n] : n \in 1..Len(SeqOf(a))}
Busy(u) == \E o \in App : u \in UnitsIn(o) \/ <<o, u>> \in fresh
(* App.GetUnits takes the address of its loop's variable: as many times the  *)
(* last unit as the app has units.                                           *)
GetUnits(a) == {SeqOf(a)[n] : n \in {Len(SeqOf(a))} \ {0}}
BoundTo(a) == {i \in Instance : inst[i] # None /\ a \in inst[i]}

LeftOut(i, a) == {<<i, u>> : u \in UnitsIn(a) \ GetUnits(a)}

(* CreateServiceInstance: the endpoint first, then the document; when that   *)
(* fails the resource is destroyed again, which may fail in turn.            *)
CreateInstance(i) ==
    /\ Begins /\ inst[i] = None /\ held[i] = None
    /\ \/ inst' = [inst EXCEPT ![i] = {}] /\ held' = [held EXCEPT ![i] = {}]
       \/ UNCHANGED inst /\ held' \in {held, [held EXCEPT ![i] = {}]}
    /\ UNCHANGED <<units, fresh, env, req, calls, tasks, wrong, skipped>>

Deletable(i) == inst[i] = {}
(* DeleteInstance ignores an endpoint that fails to destroy the resource.    *)
DeleteInstance(i) ==
    /\ Begins /\ Deletable(i)
    /\ inst' = [inst EXCEPT ![i] = None]
    /\ held' \in {held, [held EXCEPT ![i] = None]}
    /\ wrong' = {p \in wrong : p[1] # i}
    /\ UNCHANGED <<units, fresh, env, req, calls, tasks, skipped>>

(* BindApp saves the app in the instance, then calls the endpoint for every  *)
(* unit at once and takes the first answer, whatever the others say.         *)
BindApp(i, a) ==
    /\ Begins /\ inst[i] # None /\ units[a] # None /\ a \notin inst[i]
    /\ inst' = [inst EXCEPT ![i] = @ \cup {a}]
    /\ calls' = calls \cup {Call("bind", i, u, TRUE) : u \in GetUnits(a)}
    /\ req' = IF units[a] = <<>> THEN None ELSE [op |-> "bind", i |-> i, a |-> a]
    /\ skipped' = skipped \cup LeftOut(i, a)
    /\ UNCHANGED <<held, units, fresh, env, tasks, wrong>>
SetEnvs(a, i) == [v \in Var |-> IF v \in Vars[i] THEN i ELSE env[a][v]]
Answered(ok) ==
    /\ req' = None
    /\ env' = IF ok THEN [env EXCEPT ![req.a] = SetEnvs(req.a, req.i)] ELSE env

UnsetEnvsMutant(a, i) == env[a]
UnsetEnvs(a, i) == [v \in Var |-> IF env[a][v] = i THEN None ELSE env[a][v]]
UnbindApp(i, a) ==
    /\ Begins /\ units[a] # None /\ i \in BoundTo(a)
    /\ inst' = [inst EXCEPT ![i] = @ \ {a}]
    /\ calls' = calls \cup {Call("unbind", i, u, FALSE) : u \in GetUnits(a)}
    /\ env' = [env EXCEPT ![a] = UnsetEnvs(a, i)]
    /\ skipped' = skipped \cup LeftOut(i, a)
    /\ UNCHANGED <<held, units, fresh, req, tasks, wrong>>

(* The endpoint's side of a call, its failure, and an answer that is lost or *)
(* cannot be read after the endpoint has done its work.                      *)
Effect(c) ==
    LET i == c.i
    IN  IF c.op = "bind" THEN [held EXCEPT ![i] = @ \cup {c.u}]
                         ELSE [held EXCEPT ![i] = @ \ {c.u}]
Answer(c, done_, ok) ==
    /\ c \in calls /\ calls' = calls \ {c}
    /\ ok => done_
    /\ done_ => held[c.i] # None
    /\ held' = IF done_ THEN Effect(c) ELSE held
    /\ wrong' = IF done_ THEN wrong \ {<<c.i, c.u>>} ELSE wrong \cup {<<c.i, c.u>>}
    /\ IF c.first /\ req # None THEN Answered(ok) ELSE UNCHANGED <<req, env>>
    /\ skipped' = skipped \ {<<c.i, c.u>>}
    /\ UNCHANGED <<inst, units, fresh, tasks, done>>

CreateApp(a) ==
    /\ Begins /\ units[a] = None
    /\ units' = [units EXCEPT ![a] = <<Blank>>]
    /\ UNCHANGED <<inst, held, fresh, env, req, calls, tasks, wrong, skipped>>
EnqueuedMutant(a, u) == {}
Enqueued(a, u) == {<<a, u>>}
(* AddUnits of the app saves the unit before it enqueues the message.        *)
AddUnit(a, u) ==
    /\ Begins /\ units[a] # None /\ Blank \notin UnitsIn(a)
    /\ Len(units[a]) \in 1..(MaxUnits - 1) /\ ~Busy(u)
    /\ units' = [units EXCEPT ![a] = Append(@, u)]
    /\ tasks' = tasks \cup Enqueued(a, u)
    /\ UNCHANGED <<inst, held, fresh, env, req, calls, wrong, skipped>>
(* The first unit of a deployment is started and announced in the queue; the *)
(* collector puts it in the document, in the place of the nameless one.      *)
Deploy(a, u) ==
    /\ Begins /\ units[a] \in {<<>>, <<Blank>>} /\ ~Busy(u)
    /\ \A p \in fresh : p[1] # a
    /\ fresh' = fresh \cup {<<a, u>>}
    /\ tasks' = tasks \cup Enqueued(a, u)
    /\ UNCHANGED <<inst, held, units, env, req, calls, wrong, skipped>>
Collect(a, u) ==
    /\ <<a, u>> \in fresh /\ fresh' = fresh \ {<<a, u>>}
    /\ units' = IF units[a] = None THEN units ELSE [units EXCEPT ![a] = <<u>>]
    /\ UNCHANGED <<inst, held, env, req, calls, tasks, wrong, skipped, done>>
(* bindUnit of the queue: an unknown app or unit drops the message, errors   *)
(* of the endpoint are logged.                                               *)
BindUnit(a, u) ==
    /\ <<a, u>> \in tasks /\ (Prompt => <<a, u>> \notin fresh)
    /\ tasks' = tasks \ {<<a, u>>}
    /\ calls' = IF u \in UnitsIn(a)
                THEN calls \cup {Call("bind", i, u, FALSE) : i \in BoundTo(a)} ELSE calls
    /\ UNCHANGED <<inst, held, units, fresh, env, req, wrong, skipped, done>>
(* removeUnits moves the units behind the removed one to the front.          *)
Without(s, n) == [k \in 1..(Len(s) - 1) |-> IF k < n THEN s[k] ELSE s[k + 1]]
UnbindCalls(a, u) == {Call("unbind", i, u, FALSE) : i \in BoundTo(a)}
RemoveUnit(a, n) ==
    /\ Begins /\ units[a][n] # Blank
    /\ units' = [units EXCEPT ![a] = Without(@, n)]
    /\ calls' = calls \cup UnbindCalls(a, units[a][n])
    /\ UNCHANGED <<inst, held, fresh, env, req, tasks, wrong, skipped>>

(* ForceDestroy unbinds only if the document has units.                      *)
ForceDestroy(a) ==
    /\ Begins /\ units[a] # None
    /\ units' = [units EXCEPT ![a] = None]
    /\ env' = [env EXCEPT ![a] = NoEnv]
    /\ inst' = IF units[a] = <<>> THEN inst
               ELSE [i \in Instance |-> IF inst[i] = None THEN None ELSE inst[i] \ {a}]
    /\ calls' = calls \cup UNION {UnbindCalls(a, u) : u \in GetUnits(a)}
    /\ skipped' = skipped \cup UNION {LeftOut(i, a) : i \in BoundTo(a)}
    /\ UNCHANGED <<held, fresh, req, tasks, wrong>>

Next ==
    \/ \E i \in Instance : CreateInstance(i) \/ DeleteInstance(i)
    \/ \E i \in Instance, a \in App : BindApp(i, a) \/ UnbindApp(i, a)
    \/ \E c \in calls, d, ok \in BOOLEAN : Answer(c, d, ok)
    \/ \E a \in App : CreateApp(a) \/ ForceDestroy(a)
    \/ \E a \in App, u \in Unit : AddUnit(a, u) \/ Deploy(a, u) \/ Collect(a, u)
    \/ \E a \in App, u \in Unit : BindUnit(a, u)
    \/ \E a \in App : \E n \in 1..Len(SeqOf(a)) : RemoveUnit(a, n)

Spec == Init /\ [][Next]_vars
-----------------------------------------------------------------------------
TypeOK ==
    /\ \A i \in Instance :
        /\ inst[i] = None \/ inst[i] \subseteq App
        /\ held[i] = None \/ held[i] \subseteq Unit \cup {Blank}
    /\ \A a \in App : UnitsIn(a) \subseteq Unit \cup {Blank}
    /\ env \in [App -> [Var -> Instance \cup {None}]]
    /\ tasks \subseteq App \X Unit /\ wrong \subseteq Instance \X (Unit \cup {Blank})

(* BindApp, UnbindApp, DeleteInstance: a variable that came from an instance *)
(* means the app is bound to it.                                             *)
EnvMeansBound ==
    \A a \in App, v \in Var : env[a][v] # None => a \in inst[env[a][v]]

(* The endpoint has exactly the units of the apps that the document names,   *)
(* but for calls that failed: through binds that take the first answer, new  *)
(* units that the queue binds, removed units and destroyed applications; and *)
(* but for the units that GetUnits leaves out of a bind or an unbind.        *)
UnitsOf(i) == UNION {UnitsIn(a) : a \in inst[i]}
FollowsBut(except) ==
    Quiet => \A i \in Instance : inst[i] # None =>
        /\ held[i] # None
        /\ \A u \in Unit : <<i, u>> \in except \/ (u \in held[i] <=> u \in UnitsOf(i))
UnitsFollow == FollowsBut(wrong \cup skipped)
(* What the comment of GetUnits says: it returns the app's units, so a bind  *)
(* leaves none out.                                                          *)
AllUnitsFollow == FollowsBut(wrong)

(* The app's environment and the endpoint agree with what is bound.        *)
BindingsSafe == EnvMeansBound /\ UnitsFollow

(* The comment of ForceDestroy: it unbinds all service instances.            *)
BoundAppsExist == \A i \in Instance : inst[i] # None => \A a \in inst[i] : units[a] # None
=============================================================================
