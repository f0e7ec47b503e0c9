------------------------------- MODULE Accounts -------------------------------
(* tsuru's users: the document of each with password and keys, which every    *)
(* handler reads as a whole and writes as a whole, the user and the keys as   *)
(* gandalf has them, the sessions, which a goroutine of each login keeps      *)
(* below a limit, and the tokens that reset a password.                       *)
EXTENDS Integers, FiniteSets, SequencesExt

CONSTANTS
    User, Key,
    Limit,      \* auth:max-simultaneous-sessions
    Req,        \* the requests that the API serves at the same time
    Serial,     \* one of them at a time, with the goroutine it has started
    Faults,     \* what can fail: "git", "db"
    MaxOps,     \* bound: requests begun
    None

VARIABLES
    doc,        \* doc[u]: password and keys of a user in the database
    known,      \* users that gandalf has
    gkeys,      \* gkeys[u]: the keys that gandalf has of a user
    tokens,     \* tokens[u]: sessions, numbered as they begin
    cleaner,    \* cleaner[k]: the goroutine of session k that removes old tokens
    resets,     \* tokens to reset a password: [u, used, times]
    req, odd, done

vars == <<doc, known, gkeys, tokens, cleaner, resets, req, odd, done>>

Serials == 1 .. MaxOps
Init ==
    /\ doc = [u \in User |-> None] /\ known = {} /\ gkeys = [u \in User |-> {}]
    /\ tokens = [u \in User |-> {}] /\ cleaner = [k \in Serials |-> None]
    /\ resets = [k \in Serials |-> None]
    /\ req = [r \in Req |-> None] /\ odd = {} /\ done = 0

Quiet == (\A r \in Req : req[r] = None) /\ \A k \in Serials : cleaner[k] = None
Begins(r) == req[r] = None /\ done < MaxOps /\ done' = done + 1 /\ (Serial => Quiet)
At(r, step) == req[r] # None /\ req[r].at = step
Ends(r) == req' = [req EXCEPT ![r] = None]
Go(r, step) == req' = [req EXCEPT ![r].at = step]
Fails(fault) == fault \in Faults

(* createUser: a user that gandalf has already, as after a creation that      *)
(* failed in the database, cannot be created.                                 *)
CreateUser(r, u) ==
    /\ Begins(r) /\ u \notin known /\ known' = known \cup {u}
    /\ req' = [req EXCEPT ![r] = [at |-> "insert", u |-> u]]
    /\ UNCHANGED <<doc, gkeys, tokens, cleaner, resets, odd>>
Insert(r) ==
    /\ At(r, "insert") /\ Ends(r)
    /\ \/ doc[req[r].u] = None /\ doc' = [doc EXCEPT ![req[r].u] = [pw |-> 0, keys |-> <<>>]]
       \/ (doc[req[r].u] # None \/ Fails("db")) /\ UNCHANGED doc
    /\ UNCHANGED <<known, gkeys, tokens, cleaner, resets, odd, done>>
(* The end of removeUser.                                                     *)
RemoveUser(r, u) ==
    /\ Begins(r) /\ doc[u] # None /\ u \in known
    /\ known' = known \ {u} /\ gkeys' = [gkeys EXCEPT ![u] = {}]
    /\ req' = [req EXCEPT ![r] = [at |-> "delete", u |-> u]]
    /\ UNCHANGED <<doc, tokens, cleaner, resets, odd>>
Delete(r) ==
    /\ At(r, "delete") /\ Ends(r)
    /\ \/ doc' = [doc EXCEPT ![req[r].u] = None] /\ UNCHANGED odd
       \/ Fails("db") /\ odd' = odd \cup {req[r].u} /\ UNCHANGED doc
    /\ UNCHANGED <<known, gkeys, tokens, cleaner, resets, done>>

(* CreateToken: the token, and a goroutine that counts the user's tokens, ... *)
Login(r, u) ==
    /\ Begins(r) /\ doc[u] # None
    /\ tokens' = [tokens EXCEPT ![u] = @ \cup {done'}]
    /\ cleaner' = [cleaner EXCEPT ![done'] = [at |-> "count", u |-> u]]
    /\ UNCHANGED <<doc, known, gkeys, resets, req, odd>>
Logout(r, u) ==
    /\ Begins(r)
    /\ \E k \in tokens[u] : tokens' = [tokens EXCEPT ![u] = @ \ {k}]
    /\ UNCHANGED <<doc, known, gkeys, cleaner, resets, req, odd>>
SurplusMutant(n) == n - Limit - 1
Surplus(n) == n - Limit
Count(k) ==
    LET diff == Surplus(Cardinality(tokens[cleaner[k].u]))
    IN  /\ cleaner[k] # None /\ cleaner[k].at = "count"
        /\ cleaner' = [cleaner EXCEPT ![k] =
              IF diff < 1 THEN None ELSE [at |-> "find", u |-> @.u, diff |-> diff]]
        /\ UNCHANGED <<doc, known, gkeys, tokens, resets, req, odd, done>>
(* ... finds as many of the oldest as there are too many, and removes them.   *)
Oldest(ids, ts) == ids \subseteq ts /\ \A i \in ids, j \in ts \ ids : i < j
Find(k) ==
    LET ts == tokens[cleaner[k].u]
        n == cleaner[k].diff
    IN  /\ cleaner[k] # None /\ cleaner[k].at = "find"
        /\ \E ids \in SUBSET ts :
              /\ Oldest(ids, ts) /\ (Cardinality(ids) = n \/ (ids = ts /\ Cardinality(ts) < n))
              /\ cleaner' = [cleaner EXCEPT ![k] = [at |-> "remove", u |-> @.u, ids |-> ids]]
        /\ UNCHANGED <<doc, known, gkeys, tokens, resets, req, odd, done>>
RemoveOld(k) ==
    /\ cleaner[k] # None /\ cleaner[k].at = "remove"
    /\ tokens' = [tokens EXCEPT ![cleaner[k].u] = @ \ cleaner[k].ids]
    /\ cleaner' = [cleaner EXCEPT ![k] = None]
    /\ UNCHANGED <<doc, known, gkeys, resets, req, odd, done>>

(* changePassword and the end of ResetPassword: the whole document.           *)
Update(r, d) == doc' = IF doc[req[r].u] = None THEN doc ELSE [doc EXCEPT ![req[r].u] = d]
ChangePassword(r, u) ==
    /\ Begins(r) /\ doc[u] # None
    /\ req' = [req EXCEPT ![r] = [at |-> "update", u |-> u, doc |-> [doc[u] EXCEPT !.pw = done']]]
    /\ UNCHANGED <<doc, known, gkeys, tokens, cleaner, resets, odd>>
Updated(r) ==
    /\ At(r, "update") /\ Ends(r) /\ Update(r, req[r].doc)
    /\ UNCHANGED <<known, gkeys, tokens, cleaner, resets, odd, done>>
StartPasswordReset(r, u) ==
    /\ Begins(r) /\ doc[u] # None
    /\ resets' = [resets EXCEPT ![done'] = [u |-> u, used |-> FALSE, times |-> 0]]
    /\ UNCHANGED <<doc, known, gkeys, tokens, cleaner, req, odd>>
UsableMutant(t, u) == t # None /\ t.u = u
Usable(t, u) == t # None /\ t.u = u /\ ~ t.used
ResetPassword(r, u, k) ==
    /\ Begins(r) /\ doc[u] # None /\ Usable(resets[k], u)
    /\ req' = [req EXCEPT ![r] =
                 [at |-> "use", u |-> u, k |-> k, doc |-> [doc[u] EXCEPT !.pw = done']]]
    /\ UNCHANGED <<doc, known, gkeys, tokens, cleaner, resets, odd>>
Use(r) ==
    /\ At(r, "use") /\ Go(r, "update")
    /\ resets' = [resets EXCEPT ![req[r].k].used = TRUE, ![req[r].k].times = @ + 1]
    /\ UNCHANGED <<doc, known, gkeys, tokens, cleaner, odd, done>>

(* addKeyToUser: named after the number of keys, in gandalf, which refuses a  *)
(* name it has; then in the document, with the key taken back when that fails.*)
Named(u, d, k) == [n |-> Len(d.keys) + 1, key |-> k]
Same(x) == {g \in gkeys[x.u] : g.n = x.new.n \/ g.key = x.new.key}
AddKey(r, u, k) ==
    /\ Begins(r) /\ doc[u] # None /\ k \notin {e.key : e \in ToSet(doc[u].keys)}
    /\ req' = [req EXCEPT ![r] =
                 [at |-> "addgit", u |-> u, doc |-> doc[u], new |-> Named(u, doc[u], k)]]
    /\ UNCHANGED <<doc, known, gkeys, tokens, cleaner, resets, odd>>
AddKeyInGandalf(r) ==
    LET q == req[r]
    IN  /\ At(r, "addgit")
        /\ \/ /\ q.u \in known /\ Same(q) = {}
              /\ gkeys' = [gkeys EXCEPT ![q.u] = @ \cup {q.new}] /\ Go(r, "adddb")
           \/ (q.u \notin known \/ Same(q) # {} \/ Fails("git")) /\ Ends(r) /\ UNCHANGED gkeys
        /\ UNCHANGED <<doc, known, tokens, cleaner, resets, odd, done>>
AddKeyInDatabase(r) ==
    LET q == req[r]
    IN  /\ At(r, "adddb")
        /\ \/ Update(r, [q.doc EXCEPT !.keys = Append(@, q.new)]) /\ Ends(r)
           \/ Fails("db") /\ Go(r, "undo") /\ UNCHANGED doc
        /\ UNCHANGED <<known, gkeys, tokens, cleaner, resets, odd, done>>
UndoMutant(r) ==
    At(r, "undo") /\ Ends(r) /\ UNCHANGED <<doc, known, gkeys, tokens, cleaner, resets, odd, done>>
Undo(r) ==
    /\ At(r, "undo") /\ Ends(r)
    /\ \/ gkeys' = [gkeys EXCEPT ![req[r].u] = {g \in @ : g.n # req[r].new.n}] /\ UNCHANGED odd
       \/ Fails("git") /\ odd' = odd \cup {req[r].u} /\ UNCHANGED gkeys
    /\ UNCHANGED <<doc, known, tokens, cleaner, resets, done>>
(* removeKeyFromUser: gandalf, by the name, then the document.                *)
Without(s, n) == [j \in 1 .. Len(s) - 1 |-> s[IF j < n THEN j ELSE j + 1]]
FindKey(u, k, n) == doc[u].keys[n].key = k /\ \A j \in 1 .. n - 1 : doc[u].keys[j].key # k
RemoveKey(r, u, k) ==
    /\ Begins(r) /\ doc[u] # None
    /\ \E n \in DOMAIN doc[u].keys :
          LET name == doc[u].keys[n].n
          IN  /\ FindKey(u, k, n)
              /\ IF \E g \in gkeys[u] : g.n = name
                 THEN /\ gkeys' = [gkeys EXCEPT ![u] = {g \in @ : g.n # name}]
                      /\ req' = [req EXCEPT ![r] = [at |-> "deldb", u |-> u, doc |->
                            [doc[u] EXCEPT !.keys = Without(@, n)]]]
                 ELSE UNCHANGED <<gkeys, req>>
    /\ UNCHANGED <<doc, known, tokens, cleaner, resets, odd>>
RemoveKeyFromDatabase(r) ==
    /\ At(r, "deldb") /\ Ends(r)
    /\ \/ Update(r, req[r].doc) /\ UNCHANGED odd
       \/ Fails("db") /\ odd' = odd \cup {req[r].u} /\ UNCHANGED doc
    /\ UNCHANGED <<known, gkeys, tokens, cleaner, resets, done>>

Next ==
    \/ \E r \in Req : \E u \in User :
          \/ CreateUser(r, u) \/ RemoveUser(r, u) \/ Login(r, u) \/ Logout(r, u)
          \/ ChangePassword(r, u) \/ StartPasswordReset(r, u)
          \/ \E k \in Serials : ResetPassword(r, u, k)
          \/ \E k \in Key : AddKey(r, u, k) \/ RemoveKey(r, u, k)
    \/ \E r \in Req : Insert(r) \/ Delete(r) \/ Updated(r) \/ Use(r) \/ AddKeyInGandalf(r)
          \/ AddKeyInDatabase(r) \/ Undo(r) \/ RemoveKeyFromDatabase(r)
    \/ \E k \in Serials : Count(k) \/ Find(k) \/ RemoveOld(k)
Spec == Init /\ [][Next]_vars

-----------------------------------------------------------------------------
TypeOK ==
    /\ \A u \in User : doc[u] # None => doc[u].pw \in 0..MaxOps
    /\ known \subseteq User /\ odd \subseteq User /\ done \in 0..MaxOps
    /\ \A u \in User : gkeys[u] \subseteq [n : 1..MaxOps, key : Key]
    /\ tokens \in [User -> SUBSET Serials]

(* removeOldTokens: whatever logins and goroutines overlap, when they are     *)
(* done a user has no more sessions than the limit.                           *)
SessionsBounded ==
    (\A k \in Serials : cleaner[k] = None) => \A u \in User : Cardinality(tokens[u]) <= Limit
(* ... and while one goroutine runs at a time, the newest sessions stay: the  *)
(* number that is read first is still right when the tokens are found.        *)
NewestStay ==
    Serial => \A k \in Serials : (cleaner[k] # None /\ cleaner[k].at = "remove") =>
        LET ts == tokens[cleaner[k].u]
        IN  Oldest(cleaner[k].ids, ts) /\ Cardinality(ts \ cleaner[k].ids) = Limit
(* A token resets the password once, one request at a time.                   *)
ResetOnce == Serial => \A k \in Serials : resets[k] # None => resets[k].times <= 1
(* The keys of a user are the same in both places, each with a name of its    *)
(* own, but after the failures that nothing undoes (odd).                     *)
KeysAgree ==
    (Serial /\ Quiet) => \A u \in User \ odd : doc[u] # None =>
        /\ gkeys[u] = ToSet(doc[u].keys)
        /\ Cardinality({g.n : g \in gkeys[u]}) = Len(doc[u].keys)
AccountsSafe == SessionsBounded /\ NewestStay /\ ResetOnce /\ KeysAgree
=============================================================================
