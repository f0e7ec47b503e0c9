---------------------------- MODULE AppLifecycle ----------------------------
(* tsuru's applications: creation and the adding of units as pipelines of    *)
(* actions with a rollback (action.Pipeline), quotas under their lock,       *)
(* destruction, the removal of units and the collector's pass, over the      *)
(* database, the git server, the router and the provisioner's units.         *)
(*                                                                           *)
(* An Action is a package variable and keeps the result of its last Forward: *)
(* all executions of a pipeline share it (result), and a rollback reads it.  *)
EXTENDS Integers, FiniteSets, Sequences, SequencesExt

CONSTANTS
    Req,          \* goroutines of the API server
    Name,         \* application names
    User,
    Unit,         \* units the provisioner can start
    AppLimit,     \* AppLimit[u]: how many apps user u may have, or None
    UnitLimit,    \* quota:units-per-app, or None
    MaxOps,       \* bound on the requests
    Serial,       \* one request or one pass of the collector at a time
    Fresh,        \* nobody creates an application that exists
    None

LimitAssumption ==
    /\ \A u \in User : AppLimit[u] \in Nat \cup {None}
    /\ UnitLimit \in Nat \cup {None}

VARIABLES
    apps,         \* the collection of apps: a document or None for each name
    reserved,     \* the items of the users' quotas
    items,        \* the items of the apps' quotas, or None without a quota
    tokens,       \* the application tokens, each named for its app and request
    repos,        \* git repositories
    routes,       \* backends of the router
    running,      \* the provisioner's units of each app
    result,       \* result[a]: Action.result
    locked,       \* multiLocker: who holds the lock of an owner
    req,          \* what each goroutine is doing
    pass,         \* the collector's apps between its reads and its writes
    ops

vars == <<apps, reserved, items, tokens, repos, routes, running, result, locked,
          req, pass, ops>>

CreatePipeline == <<"reserveUserApp", "createAppQuota", "insertApp",
                    "exportEnvironments", "createRepository", "provisionApp">>
AddPipeline == <<"reserveUnitsToAdd", "provisionAddUnits", "saveNewUnits">>
PipelineOf(op) == IF op = "create" THEN CreatePipeline ELSE AddPipeline
Actions == Range(CreatePipeline) \cup Range(AddPipeline)

Idle == [op |-> None, name |-> None, user |-> None, n |-> 0, at |-> 0,
         phase |-> None, app |-> None, token |-> None, prev |-> None, look |-> 0]

Init ==
    /\ apps = [n \in Name |-> None]
    /\ reserved = [u \in User |-> {}]
    /\ items = [n \in Name |-> None]
    /\ tokens = {} /\ repos = {} /\ routes = {}
    /\ running = [n \in Name |-> {}]
    /\ result = [a \in Actions |-> None]
    /\ locked = [o \in User \cup Name |-> None]
    /\ req = [r \in Req |-> Idle]
    /\ pass = None
    /\ ops = 0

Quiet == pass = None /\ \A r \in Req : req[r].op = None

(* RemoveUnits refuses to remove all units of an application.                *)
TooManyMutant(n, us) == n > Len(us)
TooMany(n, us) == n >= Len(us)

(* getApp: a request starts with a copy of the document.    *)
Begin(r, op, name, user, n) ==
    /\ req[r].op = None /\ ops < MaxOps
    /\ Serial => Quiet
    /\ (op = "create" /\ Fresh) =>
        (apps[name] = None /\ \A q \in Req : req[q].name # name)
    /\ (op # "create") => (apps[name] # None)
    /\ (op = "removeUnits") => ~TooMany(n, apps[name].units)
    /\ req' = [req EXCEPT ![r] = [Idle EXCEPT !.op = op, !.name = name, !.user = user,
            !.n = n, !.at = 1, !.app = apps[name],
            !.phase = IF op \in {"create", "addUnits"} THEN "forward" ELSE op]]
    /\ ops' = ops + 1
    /\ UNCHANGED <<apps, reserved, items, tokens, repos, routes, running, result,
                   locked, pass>>

(* The end of an Action's Forward in Pipeline.Execute: the result is stored  *)
(* in the shared Action, then comes the next action or the rollback.         *)
Completes(r, res) ==
    LET p == PipelineOf(req[r].op)
    IN  /\ result' = [result EXCEPT ![p[req[r].at]] = res]
        /\ req' = [req EXCEPT ![r] =
                IF req[r].at = Len(p) THEN Idle
                ELSE [@ EXCEPT !.at = req[r].at + 1, !.prev = res]]
FailsMutant(r, res) ==
    LET i == req[r].at
    IN  /\ result' = [result EXCEPT ![PipelineOf(req[r].op)[i]] = res]
        /\ req' = [req EXCEPT ![r] =
                IF i <= 2 THEN Idle ELSE [@ EXCEPT !.at = i - 2, !.phase = "back"]]
Fails(r, res) ==
    LET i == req[r].at
    IN  /\ result' = [result EXCEPT ![PipelineOf(req[r].op)[i]] = res]
        /\ req' = [req EXCEPT ![r] =
                IF i = 1 THEN Idle ELSE [@ EXCEPT !.at = i - 1, !.phase = "back"]]
Runs(r, a) ==
    /\ req[r].phase = "forward" /\ PipelineOf(req[r].op)[req[r].at] = a

(* quota.Reserve looks at the quota under the owner's lock and then updates  *)
(* it; Wanted is what the caller reserves.                                   *)
LimitOf(o) == IF o \in User THEN AppLimit[o] ELSE UnitLimit
ItemsOf(o) == IF o \in User THEN reserved[o] ELSE items[o]
HasQuota(o) == IF o \in User THEN AppLimit[o] # None ELSE items[o] # None
Available(o) ==
    IF LimitOf(o) < Cardinality(ItemsOf(o)) THEN 0
    ELSE LimitOf(o) - Cardinality(ItemsOf(o))

NextItem(us) == IF us = <<>> THEN 0 ELSE Last(us).item + 1
NextItems(us, n) == {NextItem(us) + i : i \in 0 .. n - 1}

FreeMutant(o) == TRUE
Free(o) == locked[o] = None
Owner(r) == IF req[r].op = "create" /\ req[r].at = 1 THEN req[r].user ELSE req[r].name
Reserving(r) ==
    /\ req[r].phase = "forward"
    /\ PipelineOf(req[r].op)[req[r].at] \in {"reserveUserApp", "reserveUnitsToAdd"}
Reserve(r) ==
    /\ Reserving(r) /\ Free(Owner(r))
    /\ (req[r].op = "addUnits") => (apps[req[r].name] # None)
    /\ HasQuota(Owner(r))
    /\ locked' = [locked EXCEPT ![Owner(r)] = r]
    /\ req' = [req EXCEPT ![r].phase = "reserving", ![r].look = Available(Owner(r)),
            ![r].prev = IF req[r].op = "create" THEN {req[r].name}
                        ELSE NextItems(apps[req[r].name].units, req[r].n)]
    /\ UNCHANGED <<apps, reserved, items, tokens, repos, routes, running, result,
                   pass, ops>>

Reserved(r) == IF req[r].op = "create" THEN [user |-> req[r].user, app |-> req[r].name]
               ELSE req[r].prev
UpdateQuota(r) ==
    /\ req[r].phase = "reserving"
    /\ locked' = [locked EXCEPT ![Owner(r)] = None]
    /\ LET o == Owner(r) IN
       \/ /\ req[r].look >= Cardinality(req[r].prev) /\ HasQuota(o)
          /\ IF o \in User
             THEN reserved' = [reserved EXCEPT ![o] = @ \cup req[r].prev] /\ UNCHANGED items
             ELSE items' = [items EXCEPT ![o] = @ \cup req[r].prev] /\ UNCHANGED reserved
          /\ result' = [result EXCEPT ![PipelineOf(req[r].op)[1]] = Reserved(r)]
          /\ req' = [req EXCEPT ![r].phase = "forward", ![r].at = 2, ![r].look = 0]
       \/ /\ req[r].look < Cardinality(req[r].prev) \/ ~HasQuota(o)
          /\ Fails(r, None) /\ UNCHANGED <<reserved, items>>
    /\ UNCHANGED <<apps, tokens, repos, routes, running, pass, ops>>

(* Without a quota the owner is unlimited; without the app there is an error. *)
Unlimited(r) ==
    /\ Reserving(r)
    /\ IF req[r].op = "addUnits" /\ apps[req[r].name] = None THEN Fails(r, None)
       ELSE /\ ~HasQuota(Owner(r))
            /\ Completes(r, IF req[r].op = "create" THEN Reserved(r)
                            ELSE NextItems(apps[req[r].name].units, req[r].n))
    /\ UNCHANGED <<apps, reserved, items, tokens, repos, routes, running, locked, pass, ops>>

(* createAppQuota ignores the errors of Create and of Reserve.               *)
CreateAppQuota(r) ==
    /\ Runs(r, "createAppQuota") /\ Free(req[r].name)
    /\ IF UnitLimit = 0 THEN Fails(r, None) /\ UNCHANGED items
       ELSE /\ Completes(r, req[r].name)
            /\ LET old == items[req[r].name] IN
               items' = [items EXCEPT ![req[r].name] =
                    IF UnitLimit = None THEN @ ELSE IF old = None THEN {0}
                    ELSE IF Cardinality(old) < UnitLimit THEN @ \cup {0} ELSE @]
    /\ UNCHANGED <<apps, reserved, tokens, repos, routes, running, locked, pass, ops>>

Placeholder == [name |-> None, item |-> 0, weight |-> 0]
InsertApp(r) ==
    /\ Runs(r, "insertApp")
    /\ LET n == req[r].name IN
       IF apps[n] # None THEN Fails(r, None) /\ UNCHANGED apps
       ELSE /\ apps' = [apps EXCEPT ![n] =
                    [owner |-> req[r].user, token |-> None, units |-> <<Placeholder>>]]
            /\ Completes(r, n)
    /\ UNCHANGED <<reserved, items, tokens, repos, routes, running, locked, pass, ops>>

ExportEnvironments(r) ==
    /\ Runs(r, "exportEnvironments")
    /\ LET n == req[r].name
           t == <<n, ops, r>>
       IN  IF apps[n] = None THEN Fails(r, None) /\ UNCHANGED <<apps, tokens>>
           ELSE /\ tokens' = tokens \cup {t}
                /\ apps' = [apps EXCEPT ![n].token = t]
                /\ result' = [result EXCEPT !["exportEnvironments"] = n]
                /\ req' = [req EXCEPT ![r].at = 5, ![r].prev = n, ![r].token = t]
    /\ UNCHANGED <<reserved, items, repos, routes, running, locked, pass, ops>>

(* The git server and the provisioner can refuse.                            *)
CreateRepository(r) ==
    /\ Runs(r, "createRepository")
    /\ \/ repos' = repos \cup {req[r].name} /\ Completes(r, req[r].name)
       \/ Fails(r, req[r].name) /\ UNCHANGED repos
    /\ UNCHANGED <<apps, reserved, items, tokens, routes, running, locked, pass, ops>>
ProvisionApp(r) ==
    /\ Runs(r, "provisionApp")
    /\ \/ routes' = routes \cup {req[r].name} /\ Completes(r, req[r].name)
       \/ Fails(r, None) /\ UNCHANGED routes
    /\ UNCHANGED <<apps, reserved, items, tokens, repos, running, locked, pass, ops>>

(* Provisioner.AddUnits: an error after the first units leaves them running. *)
Fits(n, us) == us \subseteq Unit \ UNION {running[m] : m \in Name}
ProvisionAddUnits(r) ==
    /\ Runs(r, "provisionAddUnits")
    /\ LET n == req[r].name IN
       \E us \in SUBSET Unit :
        /\ Fits(n, us) /\ Cardinality(us) <= req[r].n
        /\ \/ /\ running[n] # {} /\ Cardinality(us) = req[r].n
              /\ Completes(r, [units |-> us, ids |-> req[r].prev])
           \/ /\ running[n] # {} /\ Cardinality(us) < req[r].n /\ Fails(r, None)
           \/ /\ running[n] = {} /\ us = {} /\ Fails(r, None)
        /\ running' = [running EXCEPT ![n] = @ \cup us]
    /\ UNCHANGED <<apps, reserved, items, tokens, repos, routes, locked, pass, ops>>

NewUnits(us, ids) ==
    LET s == SetToSeq(us) d == SetToSortSeq(ids, <)
    IN  [i \in 1..Len(s) |-> [name |-> s[i], item |-> d[i], weight |-> 2]]
SaveNewUnits(r) ==
    /\ Runs(r, "saveNewUnits")
    /\ LET n == req[r].name IN
       IF apps[n] = None THEN Fails(r, None) /\ UNCHANGED apps
       ELSE /\ apps' = [apps EXCEPT ![n].units =
                            @ \o NewUnits(req[r].prev.units, req[r].prev.ids)]
            /\ Completes(r, None)
    /\ UNCHANGED <<reserved, items, tokens, repos, routes, running, locked, pass, ops>>

(* Pipeline.rollback: the Backward of one completed action, with the result  *)
(* that is stored in the Action now. A result of another kind is a panic,    *)
(* which ends the request where it is.                                       *)
ResultOf(r, a) == result[a]
BackEnds(r) ==
    req' = [req EXCEPT ![r] = IF req[r].at = 1 THEN Idle ELSE [@ EXCEPT !.at = req[r].at - 1]]
Undo(r, a, x) ==
    \/ /\ a = "reserveUserApp"
       /\ reserved' = [reserved EXCEPT ![x.user] = @ \ {x.app}]
       /\ UNCHANGED <<apps, items, tokens, repos, running>>
    \/ /\ a = "createAppQuota" /\ items' = [items EXCEPT ![x] = None]
       /\ UNCHANGED <<apps, reserved, tokens, repos, running>>
    \/ /\ a = "insertApp" /\ apps' = [apps EXCEPT ![x] = None]
       /\ UNCHANGED <<reserved, items, tokens, repos, running>>
    \/ /\ a = "exportEnvironments" /\ tokens' = tokens \ {req[r].token}
       /\ apps' = [apps EXCEPT ![req[r].name] = IF @ = None THEN None
                                                ELSE [@ EXCEPT !.token = None]]
       /\ UNCHANGED <<reserved, items, repos, running>>
    \/ /\ a = "createRepository" /\ repos' = repos \ {x}
       /\ UNCHANGED <<apps, reserved, items, tokens, running>>
    \/ /\ a = "reserveUnitsToAdd"
       /\ items' = [items EXCEPT ![req[r].name] = IF @ = None THEN None ELSE @ \ x]
       /\ UNCHANGED <<apps, reserved, tokens, repos, running>>
    \/ /\ a = "provisionAddUnits"
       /\ running' = [running EXCEPT ![req[r].name] = @ \ x.units]
       /\ UNCHANGED <<apps, reserved, items, tokens, repos>>
Rollback(r) ==
    /\ req[r].phase = "back"
    /\ LET a == PipelineOf(req[r].op)[req[r].at] IN
       IF ResultOf(r, a) = None /\ a # "exportEnvironments"
       THEN /\ req' = [req EXCEPT ![r] = Idle]
            /\ UNCHANGED <<apps, reserved, items, tokens, repos, running>>
       ELSE Undo(r, a, ResultOf(r, a)) /\ BackEnds(r)
    /\ UNCHANGED <<routes, result, locked, pass, ops>>

(* ForceDestroy, with the document as it was read; it ignores every error.   *)
DestroyOrder == <<"repository", "provisioner", "token", "release", "quota", "document">>
Destroyed(r, what) ==
    LET n == req[r].name d == req[r].app IN
    /\ repos' = IF what = "repository" THEN repos \ {n} ELSE repos
    /\ IF what = "provisioner" /\ d.units # <<>>
       THEN running' = [running EXCEPT ![n] = {}] /\ routes' = routes \ {n}
       ELSE UNCHANGED <<running, routes>>
    /\ tokens' = IF what = "token" THEN tokens \ {d.token} ELSE tokens
    /\ reserved' = IF what = "release" THEN [reserved EXCEPT ![d.owner] = @ \ {n}]
                   ELSE reserved
    /\ items' = IF what = "quota" THEN [items EXCEPT ![n] = None] ELSE items
    /\ apps' = IF what = "document" THEN [apps EXCEPT ![n] = None] ELSE apps
ForceDestroy(r) ==
    /\ req[r].phase = "destroy"
    /\ Destroyed(r, DestroyOrder[req[r].at])
    /\ req' = [req EXCEPT ![r] = IF req[r].at = Len(DestroyOrder) THEN Idle
                                 ELSE [@ EXCEPT !.at = req[r].at + 1]]
    /\ UNCHANGED <<result, locked, pass, ops>>

(* RemoveUnits takes the first n units in the order of UnitSlice; the ones   *)
(* the provisioner does not know stay in the document, but every item is     *)
(* released. The document was read when the request began.                   *)
Sorted(us) == SortSeq(us, LAMBDA x, y : x.weight < y.weight)
Known(r, x) == x.name \in running[req[r].name]
TakeUnits(r) ==
    /\ req[r].phase = "removeUnits"
    /\ LET us == Sorted(req[r].app.units)
           gone == {i \in 1..req[r].n : Known(r, us[i])}
           rest == 1..Len(req[r].app.units) \ gone
           kept == [j \in 1..Cardinality(rest) |-> us[SetToSortSeq(rest, <)[j]]]
       IN  /\ running' = [running EXCEPT ![req[r].name] = @ \ {us[i].name : i \in gone}]
           /\ req' = [req EXCEPT ![r] = IF gone = {} THEN Idle
                ELSE [@ EXCEPT !.phase = "writeUnits", !.app.units = kept,
                               !.prev = {us[i].item : i \in 1..req[r].n}]]
    /\ UNCHANGED <<apps, reserved, items, tokens, repos, routes, result, locked, pass, ops>>
WriteUnits(r) ==
    /\ req[r].phase = "writeUnits"
    /\ LET n == req[r].name IN
       apps' = [apps EXCEPT ![n] = IF @ = None THEN None
                                   ELSE [@ EXCEPT !.units = req[r].app.units]]
    /\ req' = [req EXCEPT ![r].phase = "releaseUnits"]
    /\ UNCHANGED <<reserved, items, tokens, repos, routes, running, result, locked, pass, ops>>
ReleaseUnits(r) ==
    /\ req[r].phase = "releaseUnits"
    /\ items' = [items EXCEPT ![req[r].name] = IF @ = None THEN None ELSE @ \ req[r].prev]
    /\ req' = [req EXCEPT ![r] = Idle]
    /\ UNCHANGED <<apps, reserved, tokens, repos, routes, running, result, locked, pass, ops>>

(* The first deployment starts a unit; only the collector writes it down.    *)
Deployed(n, x) ==
    /\ Serial => Quiet
    /\ apps[n] # None /\ n \in routes /\ running[n] = {} /\ Fits(n, {x})
    /\ running' = [running EXCEPT ![n] = {x}]
    /\ UNCHANGED <<apps, reserved, items, tokens, repos, routes, result, locked, req,
                   pass, ops>>

(* collector.update: the units of each app are put into its document, which  *)
(* is written back as a whole after all have been read (App.AddUnit).        *)
AddUnit(us, x, w) ==
    LET at == {i \in 1..Len(us) : us[i].name \in {x, None}}
        u(k) == [name |-> x, item |-> k, weight |-> w]
    IN  IF at # {} THEN LET i == CHOOSE i \in at : \A j \in at : i <= j
                        IN  [us EXCEPT ![i] = u(us[i].item)]
        ELSE Append(us, u(NextItem(us)))
Collected(n, w) ==
    LET s == SetToSeq(running[n])
        us[k \in 0 .. Len(s)] ==
            IF k = 0 THEN apps[n].units ELSE AddUnit(us[k - 1], s[k], w)
    IN  us[Len(s)]
CollectRead ==
    /\ pass = None /\ ops < MaxOps
    /\ Serial => Quiet
    /\ LET seen == {n \in Name : apps[n] # None /\ running[n] # {}} IN
       /\ seen # {}
       /\ \E w \in {4, 5} :
          pass' = [n \in seen |-> [apps[n] EXCEPT !.units = Collected(n, w)]]
    /\ ops' = ops + 1
    /\ UNCHANGED <<apps, reserved, items, tokens, repos, routes, running, result, locked, req>>
CollectWrite(n) ==
    /\ pass # None /\ n \in DOMAIN pass
    /\ apps' = [apps EXCEPT ![n] = IF @ = None THEN None ELSE pass[n]]
    /\ pass' = IF DOMAIN pass = {n} THEN None
               ELSE [m \in DOMAIN pass \ {n} |-> pass[m]]
    /\ UNCHANGED <<reserved, items, tokens, repos, routes, running, result, locked, req, ops>>

Step(r) ==
    \/ Reserve(r) \/ UpdateQuota(r) \/ Unlimited(r) \/ CreateAppQuota(r) \/ InsertApp(r)
    \/ ExportEnvironments(r) \/ CreateRepository(r) \/ ProvisionApp(r)
    \/ ProvisionAddUnits(r) \/ SaveNewUnits(r) \/ Rollback(r) \/ ForceDestroy(r)
    \/ TakeUnits(r) \/ WriteUnits(r) \/ ReleaseUnits(r)

Next ==
    \/ \E r \in Req : Step(r)
    \/ \E r \in Req, n \in Name, u \in User : Begin(r, "create", n, u, 0)
    \/ \E r \in Req, n \in Name : Begin(r, "destroy", n, None, 0)
    \/ \E r \in Req, n \in Name, k \in 1..2 :
        Begin(r, "addUnits", n, None, k) \/ Begin(r, "removeUnits", n, None, k)
    \/ \E n \in Name, x \in Unit : Deployed(n, x)
    \/ CollectRead
    \/ \E n \in Name : CollectWrite(n)

Spec == Init /\ [][Next]_vars
-----------------------------------------------------------------------------
(* Documents, quotas and requests have the shapes the code gives them.       *)
TypeOK ==
    /\ \A n \in Name :
        /\ (apps[n] # None) =>
            /\ apps[n].owner \in User
            /\ \A i \in 1..Len(apps[n].units) : apps[n].units[i].name \in Unit \cup {None}
        /\ (items[n] # None) => (items[n] \subseteq Nat)
        /\ running[n] \subseteq Unit
    /\ \A u \in User : reserved[u] \subseteq Name
    /\ repos \subseteq Name /\ routes \subseteq Name
    /\ \A o \in User \cup Name : locked[o] \in Req \cup {None}

(* quota.Reserve: however requests interleave, no owner ever has more items  *)
(* than the limit that Reserve checked.                                      *)
QuotaKept ==
    /\ \A u \in User : (AppLimit[u] # None) => (Cardinality(reserved[u]) <= AppLimit[u])
    /\ \A n \in Name : (items[n] # None) => (Cardinality(items[n]) <= UnitLimit)

(* Pipeline: either all actions of a creation have taken effect or none.     *)
(* Whenever no request is running, an application that exists is reserved    *)
(* for its owner, has its quota, its token, its repository and its backend,  *)
(* and of one that does not exist nothing is left.                           *)
Whole(n) ==
    IF apps[n] # None
    THEN /\ (AppLimit[apps[n].owner] # None) => (n \in reserved[apps[n].owner])
         /\ (UnitLimit # None) => (items[n] # None)
         /\ apps[n].token \in tokens /\ n \in repos /\ n \in routes
    ELSE /\ \A u \in User : n \notin reserved[u]
         /\ items[n] = None /\ n \notin repos /\ n \notin routes /\ running[n] = {}
         /\ \A t \in tokens : t[1] # n
AllOrNothing == Quiet => \A n \in Name : Whole(n)

(* RemoveUnits: removing units never takes the last one that runs.           *)
AUnitStays ==
    [][\A n \in Name :
        (running[n] # {} /\ running'[n] = {}) =>
            \E r \in Req : req[r].op = "destroy" /\ req[r].name = n]_vars
=============================================================================
