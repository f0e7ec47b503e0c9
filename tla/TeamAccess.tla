------------------------------ MODULE TeamAccess ------------------------------
(* tsuru's teams: who is in a team and which teams have access to an app is   *)
(* in the database, who can push to an app's repository in gandalf, the git   *)
(* server. A handler reads a whole document, calls gandalf and writes the     *)
(* document back, each a step that may fail; handlers run at the same time    *)
(* unless Serial. Refused requests change nothing and are left out.           *)
EXTENDS Naturals, FiniteSets

CONSTANTS
    User, Team, App,
    Members,    \* the users of each team at first, {} without the team
    Owners,     \* the teams of each app at first
    Req,        \* the requests that the API serves at the same time
    Serial,     \* only one of them at a time
    Faults,     \* what can fail: "git", "db"
    MaxOps,     \* bound: requests begun
    None

VARIABLES
    users,      \* collection of users
    team,       \* team[t]: the users in its document, {} without one
    owners,     \* owners[a]: the teams in the app's document
    git,        \* git[a]: the users who can push to its repository
    req,        \* req[r]: a request's parameters, what it has read, its next step
    odd,        \* (user, app): a handler has left gandalf apart from the database
    done

vars == <<users, team, owners, git, req, odd, done>>

OfTeam(t) == {a \in App : t \in owners[a]}
AllowedApps(u) == {a \in App : \E t \in owners[a] : u \in team[t]}
(* Apps that u reaches without t.                                             *)
Elsewhere(u, t) == {a \in App : \E s \in owners[a] \ {t} : u \in team[s]}

Init ==
    /\ users = User /\ team = Members /\ owners = Owners
    /\ git = [a \in App |-> {u \in User : \E t \in Owners[a] : u \in Members[t]}]
    /\ req = [r \in Req |-> None] /\ odd = {} /\ done = 0

Begins(r) ==
    /\ req[r] = None /\ done < MaxOps /\ done' = done + 1
    /\ Serial => \A q \in Req : req[q] = None
At(r, step) == req[r] # None /\ req[r].at = step
Go(r, step) == req' = [req EXCEPT ![r].at = step]
Ends(r) == req' = [req EXCEPT ![r] = None]
Fails(fault) == fault \in Faults
Grants(as, us) == git' = [a \in App |-> IF a \in as THEN git[a] \cup us ELSE git[a]]
Revokes(as, us) == git' = [a \in App |-> IF a \in as THEN git[a] \ us ELSE git[a]]
Part(us, as) == odd' = odd \cup (us \X as)

(* addUserToTeam: gandalf first, with the apps of the user who adds ...       *)
AddUser(r, by, t, u) ==
    /\ Begins(r) /\ {by, u} \subseteq users /\ by \in team[t]
    /\ req' = [req EXCEPT ![r] =
                 [at |-> "grant", by |-> by, t |-> t, u |-> u, doc |-> team[t]]]
    /\ UNCHANGED <<users, team, owners, git, odd>>
AddInGandalf(r) ==
    LET q == req[r]
        as == AllowedApps(q.by)
    IN  /\ At(r, "grant")
        /\ \/ Grants(as, {q.u}) /\ Part({q.u}, as \ OfTeam(q.t)) /\ Go(r, "store")
           \/ Fails("git") /\ Ends(r) /\ UNCHANGED <<git, odd>>
        /\ UNCHANGED <<users, team, owners, done>>
(* ... then the document; when that fails, because the user is in the team    *)
(* already, too, the pipeline takes away the user's access to the team's apps.*)
AddInDatabase(r) ==
    LET q == req[r]
    IN  /\ At(r, "store")
        /\ \/ /\ q.u \notin q.doc /\ q.u \in users /\ team[q.t] # {}
              /\ team' = [team EXCEPT ![q.t] = q.doc \cup {q.u}] /\ Ends(r)
           \/ /\ q.u \in q.doc \/ q.u \notin users \/ team[q.t] = {} \/ Fails("db")
              /\ Go(r, "undo") /\ UNCHANGED team
        /\ UNCHANGED <<users, owners, git, odd, done>>
Undo(r) ==
    LET q == req[r]
    IN  /\ At(r, "undo") /\ Ends(r)
        /\ \/ q.u \in users /\ Revokes(OfTeam(q.t), {q.u})
           \/ (q.u \notin users \/ Fails("git")) /\ UNCHANGED git
        /\ Part({q.u}, OfTeam(q.t))
        /\ UNCHANGED <<users, team, owners, done>>

LastMemberMutant(us) == us = {}
LastMember(us) == Cardinality(us) = 1
(* removeUserFromTeam: gandalf first, for all apps of the team, whether the   *)
(* user is in it and whichever of them other teams of the user have; when     *)
(* gandalf fails, the handler answers that all is well.                       *)
RemoveUserFromTeam(r, by, t, u) ==
    /\ Begins(r) /\ {by, u} \subseteq users /\ by \in team[t] /\ ~ LastMember(team[t])
    /\ req' = [req EXCEPT ![r] = [at |-> "revoke", t |-> t, u |-> u, doc |-> team[t]]]
    /\ UNCHANGED <<users, team, owners, git, odd>>
RemoveInGandalf(r) ==
    LET q == req[r]
    IN  /\ At(r, "revoke")
        /\ \/ /\ Revokes(OfTeam(q.t), {q.u}) /\ Go(r, "unstore")
              /\ Part({q.u}, OfTeam(q.t) \cap Elsewhere(q.u, q.t))
           \/ Fails("git") /\ Ends(r) /\ UNCHANGED <<git, odd>>
        /\ UNCHANGED <<users, team, owners, done>>
RemoveInDatabase(r) ==
    LET q == req[r]
    IN  /\ At(r, "unstore") /\ Ends(r)
        /\ \/ /\ q.u \in q.doc /\ team[q.t] # {}
              /\ team' = [team EXCEPT ![q.t] = q.doc \ {q.u}] /\ UNCHANGED odd
           \/ /\ q.u \notin q.doc \/ team[q.t] = {} \/ Fails("db")
              /\ UNCHANGED team
              /\ Part(IF q.u \in q.doc THEN {q.u} ELSE {}, OfTeam(q.t))
        /\ UNCHANGED <<users, owners, git, done>>

CreateTeam(r, by, t) ==
    /\ Begins(r) /\ by \in users /\ team[t] = {}
    /\ team' = [team EXCEPT ![t] = {by}]
    /\ UNCHANGED <<users, owners, git, req, odd>>
HasAppsMutant(t) == {a \in App : owners[a] = {t}} # {}
HasApps(t) == OfTeam(t) # {}
RemoveTeam(r, by, t) ==
    /\ Begins(r) /\ by \in users /\ ~ HasApps(t)
    /\ req' = [req EXCEPT ![r] = [at |-> "drop", by |-> by, t |-> t]]
    /\ UNCHANGED <<users, team, owners, git, odd>>
Drop(r) ==
    /\ At(r, "drop") /\ Ends(r)
    /\ team' = IF req[r].by \in team[req[r].t] THEN [team EXCEPT ![req[r].t] = {}] ELSE team
    /\ UNCHANGED <<users, owners, git, odd, done>>

(* grantAppAccess and revokeAppAccess: the app's document first.              *)
GrantAppAccess(r, by, a, t) ==
    /\ Begins(r) /\ by \in users /\ a \in AllowedApps(by)
    /\ team[t] # {} /\ t \notin owners[a]
    /\ req' = [req EXCEPT ![r] =
                 [at |-> "own", t |-> t, a |-> a, doc |-> owners[a] \cup {t}, us |-> team[t]]]
    /\ UNCHANGED <<users, team, owners, git, odd>>
RevokeAppAccess(r, by, a, t) ==
    /\ Begins(r) /\ by \in users /\ a \in AllowedApps(by)
    /\ team[t] # {} /\ t \in owners[a] /\ Cardinality(owners[a]) # 1
    /\ req' = [req EXCEPT ![r] =
                 [at |-> "own", t |-> t, a |-> a, doc |-> owners[a] \ {t}, us |-> team[t]]]
    /\ UNCHANGED <<users, team, owners, git, odd>>
SaveApp(r) ==
    /\ At(r, "own")
    /\ \/ /\ owners' = [owners EXCEPT ![req[r].a] = req[r].doc]
          /\ Go(r, IF req[r].t \in req[r].doc THEN "push" ELSE "nopush")
       \/ Fails("db") /\ Ends(r) /\ UNCHANGED owners
    /\ UNCHANGED <<users, team, git, odd, done>>
PushGranted(r) ==
    /\ At(r, "push") /\ Ends(r)
    /\ \/ Grants({req[r].a}, req[r].us) /\ UNCHANGED odd
       \/ Fails("git") /\ Part(req[r].us, {req[r].a}) /\ UNCHANGED git
    /\ UNCHANGED <<users, team, owners, done>>
EmailsForRevokingMutant(q) == q.us
EmailsForRevoking(q) == {u \in q.us : \A s \in q.doc : u \notin team[s]}
PushRevoked(r) ==
    /\ At(r, "nopush") /\ Ends(r)
    /\ \/ Revokes({req[r].a}, EmailsForRevoking(req[r])) /\ UNCHANGED odd
       \/ Fails("git") /\ Part(req[r].us, {req[r].a}) /\ UNCHANGED git
    /\ UNCHANGED <<users, team, owners, done>>

(* removeUser: all access in gandalf first, then one team after the other,    *)
(* until a team would be left empty, and at last the user.                    *)
RemoveUser(r, u) ==
    /\ Begins(r) /\ u \in users
    /\ \/ /\ Revokes(AllowedApps(u), {u})
          /\ req' = [req EXCEPT ![r] =
                [at |-> "leave", u |-> u, ts |-> {t \in Team : u \in team[t]}, docs |-> team]]
       \/ Fails("git") /\ UNCHANGED <<git, req>>
    /\ UNCHANGED <<users, team, owners, odd>>
LeaveTeam(r, t) ==
    LET q == req[r]
        stays == Cardinality(q.docs[t]) < 2 \/ team[t] = {}
    IN  /\ At(r, "leave") /\ t \in q.ts
        /\ \/ /\ ~ stays
              /\ team' = [team EXCEPT ![t] = q.docs[t] \ {q.u}]
              /\ req' = [req EXCEPT ![r].ts = @ \ {t}] /\ UNCHANGED odd
           \/ /\ stays \/ Fails("db")
              /\ Ends(r) /\ Part({q.u}, AllowedApps(q.u)) /\ UNCHANGED team
        /\ UNCHANGED <<users, owners, git, done>>
UserGone(r) ==
    /\ At(r, "leave") /\ req[r].ts = {} /\ Ends(r)
    /\ users' \in {users \ {req[r].u}} \cup (IF Faults = {} THEN {} ELSE {users})
    /\ UNCHANGED <<team, owners, git, odd, done>>
CreateUser(r, u) ==
    /\ Begins(r) /\ u \notin users /\ users' = users \cup {u}
    /\ UNCHANGED <<team, owners, git, req, odd>>

Next == \E r \in Req :
    \/ \E by, u \in User, t \in Team : AddUser(r, by, t, u) \/ RemoveUserFromTeam(r, by, t, u)
    \/ \E by \in User, t \in Team : CreateTeam(r, by, t) \/ RemoveTeam(r, by, t)
    \/ \E by \in User, t \in Team, a \in App :
          GrantAppAccess(r, by, a, t) \/ RevokeAppAccess(r, by, a, t)
    \/ \E u \in User : RemoveUser(r, u) \/ CreateUser(r, u)
    \/ \E t \in Team : LeaveTeam(r, t)
    \/ AddInGandalf(r) \/ AddInDatabase(r) \/ Undo(r) \/ RemoveInGandalf(r)
    \/ RemoveInDatabase(r) \/ Drop(r) \/ SaveApp(r) \/ PushGranted(r) \/ PushRevoked(r)
    \/ UserGone(r)
Spec == Init /\ [][Next]_vars

-----------------------------------------------------------------------------
TypeOK ==
    /\ users \subseteq User /\ team \in [Team -> SUBSET User]
    /\ owners \in [App -> SUBSET Team] /\ git \in [App -> SUBSET User]
    /\ odd \subseteq User \X App /\ done \in 0..MaxOps
    /\ \A r \in Req : req[r] # None => req[r].at \in
          {"grant", "store", "undo", "revoke", "unstore", "drop", "own", "push", "nopush", "leave"}

(* "a team can not be orphaned", "an app can not be orphaned": whatever two   *)
(* handlers read before they write, no app is left without teams, and no      *)
(* team becomes empty but by its removal.                                     *)
NoOrphans == [][
    /\ \A a \in App : owners'[a] # {}
    /\ \A t \in Team : team[t] # {} /\ team'[t] = {} => \E r \in Req : At(r, "drop")]_vars
(* One request at a time, every app can be reached by a user who exists: no   *)
(* order of removals of members, teams, users and grants strands it.          *)
AppsReachable == Serial => \A a \in App : \E t \in owners[a] : team[t] \cap users # {}
(* The repository follows the database, but where a handler is known to leave *)
(* them apart (odd: a member added twice, a grant of the adder's other apps,  *)
(* an app of two teams, a step that fails).                                   *)
GitFollows ==
    (Serial /\ \A r \in Req : req[r] = None) =>
        \A u \in User, a \in App : <<u, a>> \notin odd => (u \in git[a] <=> a \in AllowedApps(u))
=============================================================================
