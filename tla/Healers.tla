------------------------------ MODULE Healers ------------------------------
(* tsuru's healers (provision/juju/healer.go) and what calls them           *)
(* (heal/caller.go): on every tick all registered healers run, each in a    *)
(* goroutine of its own, and the next tick waits for them. What a healer    *)
(* may do depends on what others did before: juju status needs the          *)
(* bootstrap machine's id in S3 and its zookeeper; the database learns of   *)
(* the bootstrap machine and of the units' states only from juju status;    *)
(* and an agent can only be helped once the database knows.                 *)
EXTENDS Naturals, FiniteSets

CONSTANTS Unit,
          MaxBoots,   \* instances the bootstrap machine may have in turn
          MaxBreaks,  \* things that break
          Faults,     \* "ssh": an ssh command may fail; "sick": units fall sick
          Calm        \* one thing breaks at a time, when all is well

Agents == [kind : {"machine", "unit"}, of : Unit]
Boot(k) == [kind |-> k, of |-> 0]
BootDaemons == {Boot(k) : k \in {"machine", "zookeeper", "provision"}}
Daemons == Agents \cup BootDaemons

Healer == {"bootstrap", "bootstrap-provision", "instance-machine", "instance-agents-config",
           "instance-unit", "zookeeper", "elb-instance", "bootstrap-instanceid"}

VARIABLES boot,       \* the bootstrap machine's EC2 instance
          bucket,     \* provider-state in S3
          saved,      \* the bootstrap machine in the database
          status,     \* the units' states in the database
          up,         \* the daemons that run
          conf, knows,\* the bootstrap instance in an agent's config, and the
                      \* one it read when it started
          sick, size, \* the units out of service, and how many the app has
          started,    \* tsr healer runs
          healers,    \* heal/caller.go's healerUrls
          run,        \* the healers' goroutines
          breaks

env == <<boot, bucket, up, conf, knows, sick, size>>
vars == <<env, saved, status, started, healers, run, breaks>>

Idle == [at |-> "idle", todo |-> {}, cur |-> {}, id |-> 0]

Init ==
    /\ boot = 1 /\ bucket = 1
    /\ saved = [id |-> 1, agent |-> "started"]
    /\ status = [u \in Unit |-> "started"]
    /\ up = Daemons
    /\ conf = [a \in Agents |-> 1] /\ knows = [a \in Agents |-> 1]
    /\ sick = {} /\ size = Cardinality(Unit)
    /\ started = FALSE /\ healers = {}
    /\ run = [h \in Healer |-> Idle] /\ breaks = 0

(***************************************************************************)
(* juju, EC2 and ELB                                                       *)
(***************************************************************************)
Connected(a) == a \in up /\ knows[a] = boot
StatusWorks == bucket = boot /\ Boot("zookeeper") \in up
State(u) == IF Connected([kind |-> "unit", of |-> u]) THEN "started" ELSE "down"

Quiet == \A h \in Healer : run[h] = Idle

Healthy ==
    /\ bucket = boot /\ saved = [id |-> boot, agent |-> "started"]
    /\ up = Daemons /\ sick = {}
    /\ \A a \in Agents : conf[a] = boot /\ knows[a] = boot
    /\ \A u \in Unit : status[u] = "started"

Breaks == /\ breaks < MaxBreaks /\ breaks' = breaks + 1
          /\ Calm => Healthy /\ Quiet
          /\ UNCHANGED <<bucket, saved, status, conf, knows, size, started, healers, run>>

(* The bootstrap machine comes back as another instance, with its daemons. *)
Moves == /\ boot < MaxBoots /\ boot' = boot + 1 /\ up' = up \cup BootDaemons
         /\ Breaks /\ UNCHANGED sick
Dies(d) == d \in up /\ up' = up \ {d} /\ Breaks /\ UNCHANGED <<boot, sick>>

(* A unit fails its load balancer's health checks, its agent being down.   *)
FallsSick(u) == /\ "sick" \in Faults
                /\ sick' = sick \cup {u} /\ up' = up \ {[kind |-> "unit", of |-> u]}
                /\ Breaks /\ UNCHANGED boot

(* collectStatus, saveBootstrapMachine and the collector *)
Collect ==
    /\ StatusWorks
    /\ saved' = [id |-> boot, agent |-> IF Boot("machine") \in up THEN "started" ELSE "not-started"]
    /\ status' = [u \in Unit |-> State(u)]
    /\ UNCHANGED <<env, started, healers, run, breaks>>

(***************************************************************************)
(* heal/caller.go                                                          *)
(***************************************************************************)
(* tsr healer registers the healers that the server lists and starts both  *)
(* tickers; with an error there are none at first.                         *)
RunTickers ==
    /\ ~started /\ started' = TRUE
    /\ healers' \in {{}, Healer}
    /\ UNCHANGED <<env, saved, status, run, breaks>>

(* registerHealer: what the server lists; an error keeps the old ones. *)
RegisterHealers ==
    /\ started /\ healers' = Healer
    /\ UNCHANGED <<env, saved, status, started, run, breaks>>

(* HealTicker: all of them, and wg.Wait before the next tick. *)
Tick ==
    /\ started /\ Quiet /\ healers # {}
    /\ run' = [h \in Healer |-> IF h \in healers THEN [Idle EXCEPT !.at = "begin"] ELSE Idle]
    /\ UNCHANGED <<env, saved, status, started, healers, breaks>>

(***************************************************************************)
(* The healers                                                             *)
(***************************************************************************)
Fails == IF "ssh" \in Faults THEN BOOLEAN ELSE {FALSE}

(* ssh reaches a unit's machine, and the bootstrap machine if the database *)
(* has its address.                                                        *)
Reaches(d) == d \in BootDaemons => saved.id = boot

(* getBootstrapMachine reads what was saved. zookeeper's healer also finds *)
(* something to do when it cannot connect.                                 *)
ToRestart(h) ==
    CASE h = "bootstrap" /\ saved.agent = "not-started" -> {Boot("machine")}
      [] h = "zookeeper" /\ (saved.id # boot \/ Boot("zookeeper") \notin up) -> {Boot("zookeeper")}
      [] h = "instance-machine" /\ StatusWorks -> {a \in Agents : a.kind = "machine" /\ ~Connected(a)}
      [] h = "instance-unit" -> {a \in Agents : a.kind = "unit" /\ status[a.of] = "down"}
      [] OTHER -> {}

ToConfigureMutant == {a \in Agents : a.kind = "machine" /\ conf[a] # saved.id}

(* instanceAgentsConfigHealer greps every agent's config for the address   *)
(* of the saved bootstrap machine, which EC2 must know.                    *)
ToConfigure == IF saved.id = boot THEN {a \in Agents : conf[a] # saved.id} ELSE {}

Goes(h, r) == run' = [run EXCEPT ![h] = r]

Begin(h) ==
    /\ run[h].at = "begin"
    /\ LET todo == CASE h = "bootstrap-provision" -> {Boot("provision")}
                     [] h = "instance-agents-config" -> ToConfigure
                     [] h = "elb-instance" -> IF \E u \in Unit : status[u] = "down" THEN sick ELSE {}
                     [] OTHER -> ToRestart(h)
           at == CASE h = "bootstrap-provision" -> "start"
                   [] h = "instance-agents-config" -> "sed"
                   [] h = "elb-instance" -> "remove"
                   [] h = "bootstrap-instanceid" -> "put"
                   [] OTHER -> "stop"
       IN  IF h = "bootstrap-instanceid" /\ bucket # boot
           THEN Goes(h, [Idle EXCEPT !.at = at])
           ELSE Goes(h, IF todo = {} THEN Idle ELSE [at |-> at, todo |-> todo, cur |-> IF at = "start" THEN todo ELSE {}, id |-> saved.id])
    /\ UNCHANGED <<env, saved, status, started, healers, breaks>>

Next1(h, d, at) == Goes(h, IF run[h].todo = {d} THEN Idle ELSE [run[h] EXCEPT !.at = at, !.todo = @ \ {d}])

StopMutant(h) ==
    /\ run[h].at = "stop"
    /\ \E d \in run[h].todo : up' = (IF Reaches(d) THEN up \ {d} ELSE up) /\ Next1(h, d, "stop")
    /\ UNCHANGED <<boot, bucket, conf, knows, sick, size, saved, status, started, healers, breaks>>

(* upStartCmd("stop"), then upStartCmd("start"); what start says is at     *)
(* most passed on.                                                         *)
Stop(h) ==
    /\ run[h].at = "stop"
    /\ \E d \in run[h].todo, failed \in Fails :
         /\ up' = IF failed \/ ~Reaches(d) THEN up ELSE up \ {d}
         /\ Goes(h, [run[h] EXCEPT !.at = "start", !.cur = {d}])
    /\ UNCHANGED <<boot, bucket, conf, knows, sick, size, saved, status, started, healers, breaks>>

StartMutant(h) ==
    /\ run[h].at = "start"
    /\ \E d \in run[h].cur : Next1(h, d, "stop") /\ up' = IF Reaches(d) THEN up \cup {d} ELSE up
    /\ UNCHANGED <<knows, boot, bucket, conf, sick, size, saved, status, started, healers, breaks>>

(* The daemon reads its config; one that runs already is left alone. *)
Start(h) ==
    /\ run[h].at = "start"
    /\ \E d \in run[h].cur, failed \in Fails :
         /\ Next1(h, d, "stop")
         /\ IF failed \/ ~Reaches(d) THEN UNCHANGED <<up, knows>>
            ELSE /\ up' = up \cup {d}
                 /\ knows' = IF d \in Agents \ up THEN [knows EXCEPT ![d] = conf[d]] ELSE knows
    /\ UNCHANGED <<boot, bucket, conf, sick, size, saved, status, started, healers, breaks>>

Sed(h) ==
    /\ run[h].at = "sed"
    /\ \E a \in run[h].todo, failed \in Fails :
         /\ Next1(h, a, "sed")
         /\ conf' = IF failed THEN conf ELSE [conf EXCEPT ![a] = run[h].id]
    /\ UNCHANGED <<boot, bucket, up, knows, sick, size, saved, status, started, healers, breaks>>

(* bootstrapInstanceIDHealer asks EC2 once more before it writes. *)
Put(h) ==
    /\ run[h].at = "put"
    /\ bucket' = boot /\ Goes(h, Idle)
    /\ UNCHANGED <<boot, up, conf, knows, sick, size, saved, status, started, healers, breaks>>

(* elbInstanceHealer: RemoveUnit, then AddUnits(1); an error ends it. *)
Remove(h) ==
    /\ run[h].at = "remove"
    /\ \E u \in run[h].todo : size' = size - 1 /\ Goes(h, [run[h] EXCEPT !.at = "add", !.cur = {u}])
    /\ UNCHANGED <<boot, bucket, up, conf, knows, sick, saved, status, started, healers, breaks>>

Add(h) ==
    /\ run[h].at = "add"
    /\ \E u \in run[h].cur :
         LET new == [kind |-> "unit", of |-> u]
         IN  /\ size' = size + 1 /\ sick' = sick \ {u}
             /\ up' = up \cup {new}
             /\ conf' = [conf EXCEPT ![new] = boot] /\ knows' = [knows EXCEPT ![new] = boot]
             /\ Next1(h, u, "remove")
    /\ UNCHANGED <<boot, bucket, saved, status, started, healers, breaks>>

Steps(h) == Begin(h) \/ Stop(h) \/ Start(h) \/ Sed(h) \/ Put(h) \/ Remove(h) \/ Add(h)

Next ==
    \/ \E h \in Healer : Steps(h)
    \/ RunTickers \/ Tick \/ RegisterHealers \/ Collect
    \/ Moves \/ \E d \in Daemons : Dies(d)
    \/ \E u \in Unit : FallsSick(u)

Spec == Init /\ [][Next]_vars

(* Both tickers go on, and the collector, too, whose own ticker does not   *)
(* always fall into the moments in which a healer has stopped an agent.    *)
Fairness ==
    /\ WF_vars(Tick) /\ WF_vars(RegisterHealers)
    /\ SF_vars(Quiet /\ Collect)
    /\ \A h \in Healer : WF_vars(Steps(h))
FairSpec == Spec /\ Fairness

(***************************************************************************)
(* Properties                                                              *)
(***************************************************************************)
(* TypeOK: every variable keeps its type. *)
TypeOK ==
    /\ boot \in 1 .. MaxBoots /\ bucket \in 1 .. MaxBoots /\ saved.id \in 1 .. MaxBoots
    /\ status \in [Unit -> {"started", "down"}]
    /\ up \subseteq Daemons /\ sick \subseteq Unit /\ size \in 0 .. Cardinality(Unit)
    /\ conf \in [Agents -> 1 .. MaxBoots] /\ knows \in [Agents -> 1 .. MaxBoots]
    /\ started \in BOOLEAN /\ healers \subseteq Healer /\ breaks \in 0 .. MaxBreaks

(* Between two ticks nothing is left half done, although healers overlap   *)
(* with each other and with what breaks: no daemon is down but those that  *)
(* broke, and the app has as many units as before.                         *)
NothingHalfDone ==
    Quiet /\ "ssh" \notin Faults =>
        Cardinality(Daemons \ up) <= breaks /\ size = Cardinality(Unit)

(* The healers and the collector heal whatever breaks, one at a time,      *)
(* although each of them knows only its own part.                          *)
AllHeals == []<>(Healthy \/ ~started)
=============================================================================
