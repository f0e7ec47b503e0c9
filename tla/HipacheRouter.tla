---------------------------- MODULE HipacheRouter ----------------------------
(* tsuru's hipache router: lists of addresses in redis under the name of a   *)
(* frontend, the collection that maps an application to its backend, and the *)
(* CNAMEs. A frontend list starts with the backend's own name.               *)
EXTENDS Integers, FiniteSets, Sequences, SequencesExt

CONSTANTS
    App,          \* applications; the backend of each starts with its name
    Address,
    CName,
    MaxOps,       \* bound on the operations
    Odd,          \* also the calls after a swap that name the wrong backend
    None

VARIABLES
    frontend,     \* redis: frontend:<backend>.<domain>
    alias,        \* redis: frontend:<cname>
    cname,        \* redis: cname:<backend>
    router,       \* the collection of routers: the backend of each app
    serves,       \* addresses each app was given and has not given back
    swap,         \* a Swap under way: the apps and the elements still to move
    hops,
    asked         \* the CNAME each app's document has

vars == <<frontend, alias, cname, router, serves, swap, hops, asked>>

Init ==
    /\ frontend = [b \in App |-> <<>>]
    /\ alias = [c \in CName |-> <<>>]
    /\ cname = [b \in App |-> None]
    /\ router = [a \in App |-> None]
    /\ serves = [a \in App |-> {}]
    /\ swap = None
    /\ hops = 0
    /\ asked = [a \in App |-> None]

Retrieved(a) == router[a] # None
Counts == hops < MaxOps /\ hops' = hops + 1 /\ swap = None
Straight == \A a \in App : router[a] \in {a, None}

AddBackend(a) ==
    /\ Counts /\ ~Retrieved(a) /\ frontend[a] = <<>>
    /\ frontend' = [frontend EXCEPT ![a] = Append(@, a)]
    /\ router' = [router EXCEPT ![a] = a]
    /\ UNCHANGED <<alias, cname, serves, swap, asked>>

(* router.Remove is given the backend's name where it expects the app's.     *)
RemoveBackend(a) ==
    LET b == router[a]
        c == cname[b]
    IN  /\ Counts /\ Retrieved(a) /\ (Odd \/ Straight)
        /\ frontend' = [frontend EXCEPT ![b] = <<>>]
        /\ router' = [router EXCEPT ![b] = None]
        /\ cname' = [cname EXCEPT ![b] = None]
        /\ alias' = IF c = None THEN alias ELSE [alias EXCEPT ![c] = <<>>]
        /\ serves' = [serves EXCEPT ![a] = {}]
        /\ asked' = [asked EXCEPT ![a] = None]
        /\ UNCHANGED swap

(* The list of the backend and, if it has a CNAME, the CNAME's list.         *)
Pushed(f, al, b, x) ==
    [f |-> [f EXCEPT ![b] = Append(@, x)],
     al |-> IF cname[b] = None THEN al ELSE [al EXCEPT ![cname[b]] = Append(@, x)]]
WithoutMutant(s, x) == s
Without(s, x) == SelectSeq(s, LAMBDA y : y # x)
PulledMutant(f, al, b, x) ==
    [f |-> [f EXCEPT ![b] = Without(@, x)], al |-> al]
Pulled(f, al, b, x) ==
    [f |-> [f EXCEPT ![b] = Without(@, x)],
     al |-> IF cname[b] = None THEN al ELSE [al EXCEPT ![cname[b]] = Without(@, x)]]

AddRoute(a, x) ==
    LET p == Pushed(frontend, alias, router[a], x)
    IN  /\ Counts /\ Retrieved(a) /\ \A o \in App : x \notin serves[o]
        /\ frontend' = p.f /\ alias' = p.al
        /\ serves' = [serves EXCEPT ![a] = @ \cup {x}]
        /\ UNCHANGED <<cname, router, swap, asked>>
RemoveRoute(a, x) ==
    LET p == Pulled(frontend, alias, router[a], x)
    IN  /\ Counts /\ Retrieved(a) /\ x \in serves[a]
        /\ frontend' = p.f /\ alias' = p.al
        /\ serves' = [serves EXCEPT ![a] = @ \ {x}]
        /\ UNCHANGED <<cname, router, swap, asked>>

(* UnsetCName deletes the alias it is given, whoever has it.                 *)
Unset(a, c) ==
    [cn |-> [cname EXCEPT ![router[a]] = None], al |-> [alias EXCEPT ![c] = <<>>]]
SetCName(a, c) ==
    LET b == router[a]
        old == IF cname[b] = None THEN [cn |-> cname, al |-> alias] ELSE Unset(a, cname[b])
    IN  /\ Counts /\ Retrieved(a) /\ (Odd \/ Straight)
        /\ Odd \/ \A o \in App : asked[o] # c
        /\ cname' = [old.cn EXCEPT ![b] = c]
        /\ alias' = [old.al EXCEPT ![c] = @ \o frontend[b]]
        /\ asked' = [asked EXCEPT ![a] = c]
        /\ UNCHANGED <<frontend, router, serves, swap>>
UnsetCName(a) ==
    LET u == Unset(a, asked[a])
    IN  /\ Counts /\ Retrieved(a) /\ asked[a] # None /\ (Odd \/ Straight)
        /\ cname' = u.cn /\ alias' = u.al
        /\ asked' = [asked EXCEPT ![a] = None]
        /\ UNCHANGED <<frontend, router, serves, swap>>

(* router.Swap moves every element of both lists, one AddRoute and one       *)
(* RemoveRoute at a time, and then exchanges the names in the collection.    *)
SwapBegins(a, b) ==
    /\ Counts /\ a # b /\ Retrieved(a) /\ Retrieved(b)
    /\ swap' = [one |-> a, two |-> b, mine |-> frontend[router[a]],
                theirs |-> frontend[router[b]]]
    /\ UNCHANGED <<frontend, alias, cname, router, serves, asked>>
Moves(from, to, x) ==
    LET p == Pushed(frontend, alias, router[to], x)
        q == Pulled(p.f, p.al, router[from], x)
    IN  frontend' = q.f /\ alias' = q.al
SwapMoves ==
    /\ swap # None
    /\ \/ /\ swap.mine # <<>> /\ Moves(swap.one, swap.two, Head(swap.mine))
          /\ swap' = [swap EXCEPT !.mine = Tail(@)]
       \/ /\ swap.mine = <<>> /\ swap.theirs # <<>>
          /\ Moves(swap.two, swap.one, Head(swap.theirs))
          /\ swap' = [swap EXCEPT !.theirs = Tail(@)]
    /\ UNCHANGED <<cname, router, serves, hops, asked>>
SwapNamesMutant(r, a, b) == r
SwapNames(r, a, b) == [r EXCEPT ![a] = r[b], ![b] = r[a]]
SwapEnds ==
    /\ swap # None /\ swap.mine = <<>> /\ swap.theirs = <<>>
    /\ router' = SwapNames(router, swap.one, swap.two)
    /\ swap' = None
    /\ UNCHANGED <<frontend, alias, cname, serves, hops, asked>>

Next ==
    \/ \E a \in App : AddBackend(a) \/ RemoveBackend(a) \/ UnsetCName(a)
    \/ \E a \in App, x \in Address : AddRoute(a, x) \/ RemoveRoute(a, x)
    \/ \E a \in App, c \in CName : SetCName(a, c)
    \/ \E a, b \in App : SwapBegins(a, b)
    \/ SwapMoves \/ SwapEnds

Spec == Init /\ [][Next]_vars
-----------------------------------------------------------------------------
TypeOK ==
    /\ \A b \in App : Range(frontend[b]) \subseteq App \cup Address
    /\ \A c \in CName : Range(alias[c]) \subseteq App \cup Address
    /\ \A a \in App : router[a] \in App \cup {None} /\ cname[a] \in CName \cup {None}

(* Swap, AddRoute and RemoveRoute: whenever no swap is under way, the name   *)
(* that an application resolves to leads to its own units and to no others.  *)
LeadsHome ==
    (swap = None) => \A a \in App : Retrieved(a) =>
        Range(frontend[router[a]]) \cap Address = serves[a]

(* No element is ever lost or doubled on its way, in the middle of a swap    *)
(* too: an address is in exactly one frontend, once.                         *)
NothingStrays ==
    \A a \in App : Retrieved(a) => \A x \in serves[a] :
        \E b \in App : /\ Len(SelectSeq(frontend[b], LAMBDA y : y = x)) = 1
                       /\ \A o \in App \ {b} : x \notin Range(frontend[o])

(* A backend's CNAME leads to the same addresses as its own name.            *)
AliasFollows ==
    \A b \in App : (cname[b] # None) =>
        Range(alias[cname[b]]) = Range(frontend[b])

(* Whom a name leads to, and what else redis holds.                        *)
RoutesSafe == LeadsHome /\ NothingStrays /\ AliasFollows
=============================================================================
