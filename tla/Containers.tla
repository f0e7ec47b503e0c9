----------------------------- MODULE Containers -----------------------------
(***************************************************************************)
(* The daemon's registry of containers (runtime.go, utils.TruncIndex) and  *)
(* `docker ps`: how a container is created and destroyed in steps that a   *)
(* crash may part, what of it restore() finds again, how it is found by a  *)
(* prefix of its id, and which containers a listing shows while others     *)
(* come and go. Ids are sequences of characters of one length.             *)
(***************************************************************************)
EXTENDS Naturals, Integers, Sequences, FiniteSets
LOCAL INSTANCE SequencesExt

CONSTANTS
    Ids,        \* what GenerateID may return, in the order of a directory
    ShortLen,   \* how much of an id TruncateID keeps
    Commands,   \* the flags of the `docker ps` commands that are given
    Crashes,    \* bounds: how often the daemon dies, and how many steps
    Moves,      \* of others fall into one listing
    None

Known == Range(Ids)
Space == " "

VARIABLES
    dir,     \* the containers' directories: None, "empty" or with a "json"
    born,    \* the ids in the order of their Created
    run,     \* the containers whose State.Running is set, in memory
    list,    \* runtime.containers
    bytes,   \* runtime.idIndex: the bytes that the suffix array is over
    at,      \* how far the request that creates or destroys it is
    told,    \* the containers whose creation or destruction was answered
    ps,      \* a listing: its arguments, how far it is and what it shows
    crashes, moves
vars == <<dir, born, run, list, bytes, at, told, ps, crashes, moves>>
reg == <<dir, born, list, bytes, at, told, crashes>>

-----------------------------------------------------------------------------
(* TruncIndex: every id in one text, each between two spaces; what begins  *)
(* with s is found where the text has a space and s, if at one place only. *)
ShortID(i) == SubSeq(i, 1, ShortLen)
LookupMutant(text, s) ==  \* s anywhere in an id
    {k \in 0 .. Len(text) - Len(s) : SubSeq(text, k + 1, k + Len(s)) = s}
Lookup(text, s) ==
    {k \in 1 .. Len(text) - Len(s) : SubSeq(text, k, k + Len(s)) = <<Space>> \o s}
End(text, k) == CHOOSE e \in k + 1 .. Len(text) :
    text[e] = Space /\ \A f \in k + 1 .. e - 1 : text[f] # Space
Get(s) == LET found == Lookup(bytes, s) IN
    IF Cardinality(found) # 1 THEN None
    ELSE LET k == CHOOSE f \in found : TRUE IN SubSeq(bytes, k + 1, End(bytes, k) - 1)
Add(text, i) == text \o i \o <<Space>>
DeleteMutant(text, i) == LET k == CHOOSE f \in Lookup(text, i) : TRUE IN
    SubSeq(text, 1, k - 1) \o SubSeq(text, End(text, k) + 1, Len(text))
Delete(text, i) == LET k == CHOOSE f \in Lookup(text, i) : TRUE IN
    SubSeq(text, 1, k) \o SubSeq(text, End(text, k), Len(text))

(* The container of that name, prefix or id that is registered.            *)
Container(s) == IF Get(s) \in Range(list) THEN Get(s) ELSE None

-----------------------------------------------------------------------------
NoListing == [args |-> None, left |-> <<>>, found |-> FALSE, shown |-> <<>>,
              from |-> {}, ever |-> {}, always |-> {}, done |-> FALSE]
Meanwhile == IF ps = NoListing THEN UNCHANGED moves
             ELSE moves < Moves /\ moves' = moves + 1

(* runtime.Create: the object with its time of creation and its directory; *)
(* the json; the registration, after which the client is told the ShortID. *)
Create(i) ==
    /\ at[i] = "free" /\ dir[i] = None
    /\ born' = Append(born, i)
    /\ dir' = [dir EXCEPT ![i] = "empty"] /\ at' = [at EXCEPT ![i] = "made"]
    /\ UNCHANGED <<run, list, bytes, told, ps, crashes>> /\ Meanwhile
ToDisk(i) ==
    /\ at[i] = "made"
    /\ dir' = [dir EXCEPT ![i] = "json"] /\ at' = [at EXCEPT ![i] = "saved"]
    /\ UNCHANGED <<born, run, list, bytes, told, ps, crashes>> /\ Meanwhile
RegisterMutant(i) ==  \* before it is saved
    /\ at[i] = "made" /\ Container(i) = None
    /\ list' = Append(list, i) /\ bytes' = Add(bytes, i)
    /\ at' = [at EXCEPT ![i] = "up"] /\ told' = told \cup {<<"created", i>>}
    /\ UNCHANGED <<dir, born, run, ps, crashes>> /\ Meanwhile
Register(i) ==
    /\ at[i] = "saved" /\ Container(i) = None
    /\ list' = Append(list, i) /\ bytes' = Add(bytes, i)
    /\ at' = [at EXCEPT ![i] = "up"] /\ told' = told \cup {<<"created", i>>}
    /\ UNCHANGED <<dir, born, run, ps, crashes>> /\ Meanwhile

(* A registered container starts, or its process ends.                     *)
Ran(p) == [ps EXCEPT !.ever = @ \cup p, !.always = @ \cap p]
Toggle(i) ==
    /\ at[i] = "up"
    /\ run' = IF i \in run THEN run \ {i} ELSE run \cup {i}
    /\ ps' = Ran(run') /\ UNCHANGED reg /\ Meanwhile

(* ContainerDestroy of one that is not running: out of the registry first, *)
(* then away with its directory, file after file.                          *)
Destroy(i) ==
    /\ Container(i) = i /\ at[i] = "up" /\ i \notin run
    /\ list' = SelectSeq(list, LAMBDA j : j # i) /\ bytes' = Delete(bytes, i)
    /\ at' = [at EXCEPT ![i] = "leaving"]
    /\ UNCHANGED <<dir, born, run, told, ps, crashes>> /\ Meanwhile
RemoveAll(i) ==
    /\ at[i] = "leaving"
    /\ \/ /\ dir[i] = "json" /\ dir' = [dir EXCEPT ![i] = "empty"]
          /\ UNCHANGED <<at, told>>
       \/ /\ dir[i] = "empty" /\ dir' = [dir EXCEPT ![i] = None]
          /\ at' = [at EXCEPT ![i] = "gone"] /\ told' = told \cup {<<"destroyed", i>>}
    /\ UNCHANGED <<born, run, list, bytes, ps, crashes>> /\ Meanwhile

(* The daemon dies and is started again: restore() loads the directories   *)
(* that have a json, in their order; of what ran, some still does.         *)
Loaded == SelectSeq(Ids, LAMBDA i : dir[i] = "json")
RestartMutant == \E alive \in SUBSET run :  \* every directory is a container
    /\ crashes < Crashes /\ crashes' = crashes + 1
    /\ list' = SelectSeq(Ids, LAMBDA i : dir[i] # None)
    /\ bytes' = FoldLeft(Add, <<Space>>, list')
    /\ run' = alive /\ ps' = NoListing
    /\ at' = [i \in Known |-> CASE dir[i] # None -> "up"
                             [] OTHER -> IF at[i] = "free" THEN "free" ELSE "gone"]
    /\ UNCHANGED <<dir, born, told>> /\ moves' = 0
Restart == \E alive \in SUBSET run :
    /\ crashes < Crashes /\ crashes' = crashes + 1
    /\ list' = Loaded /\ bytes' = FoldLeft(Add, <<Space>>, Loaded)
    /\ run' = alive /\ ps' = NoListing
    /\ at' = [i \in Known |-> CASE dir[i] = "json" -> "up"
                             [] dir[i] = "empty" -> "stray"
                             [] OTHER -> IF at[i] = "free" THEN "free" ELSE "gone"]
    /\ UNCHANGED <<dir, born, told>> /\ moves' = 0

-----------------------------------------------------------------------------
(* docker ps: the arguments the client makes of its flags.                 *)
Asked(f) == [all |-> f.all, since |-> f.since, before |-> f.before,
             n |-> IF f.n = -1 /\ f.last THEN 1 ELSE f.n]
Age(i) == CHOOSE k \in DOMAIN born : born[k] = i
ListMutant(l) == l  \* as registered
List(l) == SortSeq(l, LAMBDA i, j : Age(i) > Age(j))  \* the newest first

Ps == \E f \in Commands :
    /\ ps = NoListing
    /\ ps' = [NoListing EXCEPT !.args = Asked(f), !.left = List(list),
                  !.from = Range(list), !.ever = run, !.always = run]
    /\ UNCHANGED <<run, moves, reg>>

(* Server.Containers looks at one container after the other.               *)
Plain(a) == ~a.all /\ a.n = -1 /\ a.since = None /\ a.before = None
Skips(a, i) == \/ i \notin run /\ Plain(a)
               \/ a.before # None /\ (ShortID(i) = a.before \/ ~ps.found)
StopsMutant(a, i) == (Len(ps.shown) > a.n /\ a.n # -1) \/ ShortID(i) = a.since
Stops(a, i) == Len(ps.shown) = a.n \/ ShortID(i) = a.since
Containers == LET a == ps.args  i == Head(ps.left)  rest == [ps EXCEPT !.left = Tail(@)] IN
    /\ a # None /\ ps.left # <<>>
    /\ ps' = CASE Skips(a, i) -> [rest EXCEPT !.found = @ \/ ShortID(i) = a.before]
               [] ~Skips(a, i) /\ Stops(a, i) -> [ps EXCEPT !.left = <<>>]
               [] OTHER -> [rest EXCEPT !.shown = Append(@, i)]
    /\ UNCHANGED <<run, moves, reg>>
Answer == /\ ps.args # None /\ ps.left = <<>> /\ ~ps.done
          /\ ps' = [ps EXCEPT !.done = TRUE] /\ UNCHANGED <<run, moves, reg>>
Printed == ps.done /\ ps' = NoListing /\ moves' = 0 /\ UNCHANGED <<run, reg>>

Init ==
    /\ dir = [i \in Known |-> None] /\ born = <<>> /\ run = {} /\ list = <<>>
    /\ bytes = <<Space>> /\ at = [i \in Known |-> "free"] /\ told = {}
    /\ ps = NoListing /\ crashes = 0 /\ moves = 0
Next ==
    \/ \E i \in Known : \/ Create(i) \/ ToDisk(i) \/ Register(i) \/ Toggle(i)
                     \/ Destroy(i) \/ RemoveAll(i)
    \/ Restart \/ Ps \/ Containers \/ Answer \/ Printed
Spec == Init /\ [][Next]_vars

-----------------------------------------------------------------------------
TypeOK ==
    /\ dir \in [Known -> {None, "empty", "json"}] /\ run \subseteq Known
    /\ Range(born) \subseteq Known /\ Range(list) \subseteq Known
    /\ at \in [Known -> {"free", "made", "saved", "up", "leaving", "gone", "stray"}]
    /\ told \subseteq {"created", "destroyed"} \X Known

(* What TruncIndex makes of its one text is what its comment promises: a   *)
(* prefix finds the one id that begins with it, and nothing else is found, *)
(* whatever was added and deleted before (utils.go:329-385).               *)
Names == {SubSeq(i, 1, n) : i \in Known, n \in 1 .. Len(Ids[1])}
UniquePrefixFinds == ps = NoListing => \A s \in Names : LET fit == {i \in Range(list) : IsPrefix(s, i)} IN
    Container(s) = IF Cardinality(fit) = 1 THEN CHOOSE i \in fit : TRUE ELSE None

(* Whoever was told of a container finds it, once, through restarts too,   *)
(* until its destruction is under way; whoever was told of a destruction   *)
(* never finds it again (runtime.go:196-246, 277-402).                     *)
Promised(i) == <<"created", i>> \in told /\ at[i] = "up"
ToldIsTrue == \A i \in Known :
    /\ <<"created", i>> \in told => at[i] \in {"up", "leaving", "gone", "stray"}
    /\ Promised(i) => /\ dir[i] = "json"
                      /\ Cardinality({k \in DOMAIN list : list[k] = i}) = 1
    /\ at[i] = "stray" /\ <<"created", i>> \in told => <<"destroyed", i>> \notin told
    /\ <<"destroyed", i>> \in told => dir[i] = None /\ i \notin Range(list)

(* A finished listing shows containers that were there when it began, each *)
(* once, the newest first: a plain one all that ran the whole time and     *)
(* none that never did, the others those that were asked for               *)
(* (server.go:357-397). Where since is newer than before the code goes on  *)
(* to the oldest, so there only before counts.                             *)
Newer(i, s) == \A j \in ps.from : ShortID(j) = s => Age(i) > Age(j)
Older(i, s) == \E j \in ps.from : ShortID(j) = s /\ Age(i) < Age(j)
Within(a) == {i \in ps.from :
    /\ a.before # None => Older(i, a.before) /\ ShortID(i) # a.before
    /\ a.since # None /\ (a.before # None => \E j \in ps.from : ShortID(j) = a.since /\ Older(j, a.before))
          => Newer(i, a.since)}
ListingIsTrue == ps.done => LET a == ps.args  shown == Range(ps.shown) IN
    /\ \A k, m \in DOMAIN ps.shown : k < m => Age(ps.shown[k]) > Age(ps.shown[m])
    /\ shown \subseteq ps.from
    /\ Plain(a) => ps.always \cap ps.from \subseteq shown /\ shown \subseteq ps.ever
    /\ ~Plain(a) => /\ shown \subseteq Within(a)
                    /\ \A i \in shown, j \in Within(a) \ shown : Age(j) < Age(i)
                    /\ Cardinality(shown) = IF a.n >= 0 /\ a.n < Cardinality(Within(a))
                                            THEN a.n ELSE Cardinality(Within(a))

RegistrySafe == UniquePrefixFinds /\ ToldIsTrue /\ ListingIsTrue
=============================================================================
