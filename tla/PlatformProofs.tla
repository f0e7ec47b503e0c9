---------------------------- MODULE PlatformProofs ---------------------------
(***************************************************************************)
(* Theorems about MCPlatform: a part's invariant, by TsuruProofs, is one   *)
(* of the composite, where every behaviour is that of one part (PartStep). *)
(***************************************************************************)
EXTENDS MCPlatform

LEMMA PartStep ==
    ASSUME [UNext]_UVars
    PROVE  /\ part' = part
           /\ part = "bind" => [Bind!Next]_BindVars
           /\ part = "teams" => [Teams!Next]_TeamsVars
           /\ part = "accounts" => [Acc!Next]_AccVars
           /\ part = "sessions" => [Sessions!Next]_AccVars
           /\ part = "apps" => [Apps!Next]_AppsVars
           /\ part = "races" => [Races!Next]_AppsVars
BY DEF UNext, UVars

(* ServiceBinding: a variable of an app comes from an instance that the    *)
(* app is bound to, and when all is quiet the endpoint holds the units of  *)
(* the bound apps, but those whose last call failed and those that         *)
(* GetUnits left out (service_instance.go, app.go); for any number of      *)
(* instances, apps, units and variables.                                   *)
THEOREM BindingsStaySafe ==
    ASSUME BindAssumption PROVE USpec => []BindingsSafe
<1> DEFINE Inv == part = "bind" => BInv
<1>1. UInit => Inv
  BY BInvBegins DEF UInit
<1>2. Inv /\ [UNext]_UVars => Inv'
  BY PartStep, BInvStep
<1>3. Inv => BindingsSafe
  BY BInvSafe DEF BindingsSafe
<1> QED  BY <1>1, <1>2, <1>3, PTL DEF USpec

(* TeamAccess and Accounts: when no request is under way, who can push to  *)
(* an app in gandalf is who is in a team of it, and a user's keys are the  *)
(* same in gandalf and in the database, but after failures that nothing    *)
(* undoes; an app keeps a team with members; a token resets one password   *)
(* once; and when the goroutines of the logins are done, however they      *)
(* overlapped, no user has more sessions than the limit (api/auth.go,      *)
(* auth/token.go); for any users, teams, apps, keys and requests.          *)
THEOREM PeopleStaySafe ==
    ASSUME TeamAssumption, AccountAssumption PROVE USpec => []PeopleSafe
<1> DEFINE Inv == /\ part = "teams" => TInv
                  /\ part = "accounts" => AccInv
                  /\ part = "sessions" => SInv
<1>1. UInit => Inv
  BY TInvBegins, AccInvBegins, SInvBegins DEF UInit
<1>2. Inv /\ [UNext]_UVars => Inv'
  BY PartStep, TInvStep, AccInvStep, SessionsSafe
<1>3. Inv => PeopleSafe
  BY TInvSafe, AccInvSafe, SInvBounds DEF PeopleSafe
<1> QED  BY <1>1, <1>2, <1>3, PTL DEF USpec

(* AppLifecycle: whatever requests overlap, no user has more applications  *)
(* and no application more units reserved than its quota, since what       *)
(* quota.Reserve has looked at under the owner's lock stays true until it  *)
(* has updated it; and with one request at a time, when none is under way, *)
(* an application has its reservation, quota, token, repository and route, *)
(* and what does not exist has none of them, wherever its pipeline failed  *)
(* and was rolled back (quota.go, action.go, actions.go, app.go); for any  *)
(* names, users, units and limits.                                         *)
THEOREM AppsStaySafe == ASSUME AppAssumption PROVE USpec => []AppsSafe
<1> DEFINE Inv == /\ part = "apps" => AppInv
                  /\ part = "races" => QuotaInv
<1>1. UInit => Inv
  BY AppInvBegins, QuotaBegins DEF UInit, AppAssumption
<1>2. Inv /\ [UNext]_UVars => Inv'
  BY PartStep, AppInvStep, RacesStep DEF AppAssumption
<1>3. Inv => AppsSafe
  BY AppInvSafe, QuotaHolds, RacesHold DEF AppsSafe, AppAssumption
<1> QED  BY <1>1, <1>2, <1>3, PTL DEF USpec
=============================================================================
