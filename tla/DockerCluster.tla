--------------------------- MODULE DockerCluster ---------------------------
(* docker-cluster (cluster/cluster.go, container.go, image.go,              *)
(* scheduler.go, storage/redis.go) with tsuru's scheduler                   *)
(* (provision/docker/scheduler.go): containers and images on several        *)
(* docker hosts. A call that concerns one container goes to the node that   *)
(* the storage names; without a storage, and for images, it goes to every   *)
(* node at once, each in a goroutine of its own, and is answered by the     *)
(* first of them that has something to say (runOnNodes). Nodes are added    *)
(* and removed at any time, and any answer of a host may be an error.       *)
EXTENDS Naturals, Sequences, FiniteSets

CONSTANTS Node, Cont, Image, App, Call,
          Ring,          \* the nodes registered at first, in their order
          NodeTeam,      \* the team a node is registered for, or Anyone
          TeamsOf,       \* the teams of an app, {} when there is no such app
          Storing,       \* a storage has been set (SetStorage)
          Segregated,    \* tsuru's scheduler, else the package's round robin
          Faults,        \* "storage": writes to redis fail; "error": hosts do
          Ops,           \* the calls that are made
          Patient,       \* pulls and removals of images do not overlap
          Anyone, None

VARIABLES nodes,         \* the scheduler's nodes, in their order
          lastUsed,      \* roundRobin.lastUsed
          conts, running, imgs, \* what is on the docker hosts
          host, imageHost, \* the storage
          call,          \* the calls of the package's user
          owner          \* the app a container was made for

hosts == <<conts, running, imgs>>
storage == <<host, imageHost>>
vars == <<nodes, lastUsed, hosts, storage, call, owner>>

Registered == {nodes[k] : k \in DOMAIN nodes}
Idle == [op |-> "none", arg |-> None, at |-> "idle", node |-> None, wait |-> FALSE,
         img |-> None, to |-> {}, todo |-> {}, did |-> {}, failed |-> {}, ans |-> None]

(***************************************************************************)
(* The docker hosts                                                        *)
(***************************************************************************)
OnContainer == Ops \cap {"start", "stop", "inspect", "commit", "remove"}
OnImage == Ops \cap {"pull", "import", "removeImage", "push"}

(* How a host that can be reached answers: whether the container or the    *)
(* image is there, and whether its state allows the operation.             *)
Verdict(n, op, what) ==
    CASE op \in {"pull", "import"} -> "ok"
      [] op \in {"removeImage", "push"} -> IF what \in imgs[n] THEN "ok" ELSE "missing"
      [] what \notin conts[n] -> "missing"
      [] op \in {"start", "remove"} /\ what \in running -> "error"
      [] OTHER -> "ok"

Answers(n, op, what) == {Verdict(n, op, what)} \cup (Faults \cap {"error"})

(* What it does when it answers "ok"; a commit makes an image of any name. *)
Effect(n, op, what, i) ==
    /\ conts' = IF op = "remove" THEN [conts EXCEPT ![n] = @ \ {what}] ELSE conts
    /\ running' = CASE op = "start" -> running \cup {what}
                    [] op = "stop" -> running \ {what}
                    [] OTHER -> running
    /\ imgs' = CASE op \in {"pull", "import", "commit"} -> [imgs EXCEPT ![n] = @ \cup {i}]
                 [] op = "removeImage" -> [imgs EXCEPT ![n] = @ \ {i}]
                 [] OTHER -> imgs
(***************************************************************************)
(* Choosing a node                                                         *)
(***************************************************************************)
OfTeam(t) == {n \in Registered : NodeTeam[n] = t}

(* segregatedScheduler.fallback: the nodes of no team. *)
Fallback == OfTeam(Anyone)

CandidatesMutant(a) == LET own == UNION {OfTeam(t) : t \in TeamsOf[a]} 
                       IN  IF own # {} THEN own ELSE Fallback

(* segregatedScheduler.Schedule: the nodes of the app's only team, if it   *)
(* has one team and that has nodes.                                        *)
Candidates(a) ==
    IF Cardinality(TeamsOf[a]) = 1 /\ \E t \in TeamsOf[a] : OfTeam(t) # {}
    THEN UNION {OfTeam(t) : t \in TeamsOf[a]}
    ELSE Fallback

(* Earlier calls have left a container of some app on a node that it may   *)
(* be on, stopped, and the image on any nodes.                             *)
Init ==
    /\ nodes = Ring
    /\ lastUsed = Len(Ring) - 1
    /\ running = {}
    /\ imgs \in [Node -> SUBSET Image]
    /\ \E a \in App, n \in Node :
       LET c == CHOOSE d \in Cont : TRUE
       IN
         /\ n \in IF Segregated THEN Candidates(a) ELSE Registered
         /\ owner = [d \in Cont |-> IF d = c THEN a ELSE None]
         /\ conts = [m \in Node |-> IF m = n THEN {c} ELSE {}]
         /\ host = [d \in Cont |-> IF d = c /\ Storing THEN n ELSE None]
    /\ imageHost = [i \in Image |-> None]
    /\ call = [q \in Call |-> Idle]

(* roundRobin.next: one atomic add, then the index into the nodes of now. *)
NextIndex == (lastUsed + 1) % Len(nodes)

Schedule(q, a) ==
    /\ Idle = call[q]
    /\ IF Segregated
       THEN /\ IF Candidates(a) = {}
               THEN call' = [call EXCEPT ![q] = [@ EXCEPT !.op = "create", !.at = "end", !.ans = "error"]]
               ELSE \E n \in Candidates(a) :
                        call' = [call EXCEPT ![q] = [@ EXCEPT !.op = "create", !.arg = a, !.at = "node", !.node = n]]
            /\ UNCHANGED lastUsed
       ELSE LET n == nodes[NextIndex + 1]
            IN  /\ lastUsed' = lastUsed + 1
                /\ call' = [call EXCEPT ![q] = [@ EXCEPT !.op = "create", !.arg = a, !.at = "node", !.node = n]]
    /\ UNCHANGED <<nodes, hosts, storage, owner>>

(* The node is asked to create the container, by then perhaps no longer   *)
(* one of the cluster's.                                                   *)
CreateContainer(q) ==
    /\ call[q].op = "create" /\ call[q].at = "node"
    /\ LET n == call[q].node IN
       \/ /\ "error" \in Faults
          /\ call' = [call EXCEPT ![q] = [@ EXCEPT !.at = "end", !.ans = "error"]]
          /\ UNCHANGED <<conts, owner>>
       \/ \E c \in Cont :
            /\ owner[c] = None
            /\ owner' = [owner EXCEPT ![c] = call[q].arg]
            /\ conts' = [conts EXCEPT ![n] = @ \cup {c}]
            /\ call' = [call EXCEPT ![q] = [@ EXCEPT !.arg = c, !.at = IF Storing THEN "store" ELSE "end",
                                                     !.ans = IF Storing THEN None ELSE "ok"]]
    /\ UNCHANGED <<nodes, lastUsed, running, imgs, storage>>

(***************************************************************************)
(* The storage                                                             *)
(***************************************************************************)
(* A write whose error nobody looks at. *)
Written(f, what, n) == \E lost \in IF "storage" \in Faults THEN BOOLEAN ELSE {FALSE} :
                        IF lost THEN UNCHANGED f ELSE f' = [f EXCEPT ![what] = n]

StoreContainer(q) ==
    /\ call[q].op = "create" /\ call[q].at = "store"
    /\ Written(host, call[q].arg, call[q].node)
    /\ call' = [call EXCEPT ![q] = [@ EXCEPT !.at = "end", !.ans = "ok"]]
    /\ UNCHANGED <<nodes, lastUsed, hosts, imageHost, owner>>

(* getNode: what the storage names must be one of the scheduler's nodes. *)
GetNode(n) == IF n \in Registered THEN n ELSE None

(* A call on a container (or the push of an image) that the storage knows. *)
ToItsNode(q, op, what, n) ==
    /\ Storing /\ Idle = call[q]
    /\ call' = [call EXCEPT ![q] =
         IF GetNode(n) = None THEN [@ EXCEPT !.op = op, !.arg = what, !.at = "end", !.ans = "error"]
         ELSE [@ EXCEPT !.op = op, !.arg = what, !.at = "node", !.node = GetNode(n)]]
    /\ UNCHANGED <<nodes, lastUsed, hosts, storage, owner>>

OnContainerAt(q, op, c) == owner[c] # None /\ ToItsNode(q, op, c, host[c])
PushFrom(q, i) == "push" \in Ops /\ ToItsNode(q, "push", i, imageHost[i])

(* The node answers; removal and commit go on to the storage. *)
AtItsNode(q) ==
    /\ call[q].op # "create" /\ call[q].at = "node"
    /\ LET n == call[q].node  op == call[q].op  what == call[q].arg
       IN  \E a \in Answers(n, op, what) :
           IF a # "ok"
           THEN /\ call' = [call EXCEPT ![q] = [@ EXCEPT !.at = "end", !.ans = a]]
                /\ UNCHANGED hosts
           ELSE \E i \in IF op = "commit" THEN Image ELSE {what} :
                /\ Effect(n, op, what, i)
                /\ call' = [call EXCEPT ![q] =
                     IF op \in {"remove", "commit"} THEN [@ EXCEPT !.at = "store", !.img = i]
                     ELSE [@ EXCEPT !.at = "end", !.ans = "ok"]]
    /\ UNCHANGED <<nodes, lastUsed, storage, owner>>

ForgetContainerMutant(q) ==
    /\ call[q].op = "remove" /\ call[q].at = "store"
    /\ call' = [call EXCEPT ![q] = [@ EXCEPT !.at = "end", !.ans = "ok"]]
    /\ UNCHANGED <<nodes, lastUsed, hosts, storage, owner>>

ForgetContainer(q) ==
    /\ call[q].op = "remove" /\ call[q].at = "store"
    /\ Written(host, call[q].arg, None)
    /\ call' = [call EXCEPT ![q] = [@ EXCEPT !.at = "end", !.ans = "ok"]]
    /\ UNCHANGED <<nodes, lastUsed, hosts, imageHost, owner>>

StoreImage(q) ==
    /\ call[q].op = "commit" /\ call[q].at = "store"
    /\ Written(imageHost, call[q].img, call[q].node)
    /\ call' = [call EXCEPT ![q] = [@ EXCEPT !.at = "end", !.ans = "ok"]]
    /\ UNCHANGED <<nodes, lastUsed, hosts, host, owner>>

(***************************************************************************)
(* runOnNodes                                                              *)
(***************************************************************************)
(* Patient: pulls and removals of images do not overlap, the goroutines    *)
(* that a removal leaves behind included.                                  *)
Overlaps(op) ==
    \E r \in Call : (call[r].todo # {} \/ call[r].at = "nodes") /\ {op, call[r].op} = {"pull", "removeImage"}

WaitsMutant(op) == FALSE

Waits(op) == op = "pull"

RunOnNodes(q, op, what) ==
    /\ Idle = call[q]
    /\ op \in OnContainer => ~Storing /\ owner[what] # None
    /\ op = "push" => ~Storing
    /\ Patient => ~Overlaps(op)
    /\ call' = [call EXCEPT ![q] = [@ EXCEPT !.op = op, !.arg = what, !.at = "nodes",
                                    !.wait = Waits(op), !.to = Registered, !.todo = Registered]]
    /\ UNCHANGED <<nodes, lastUsed, hosts, storage, owner>>

(* The goroutine of one node, perhaps long after the call was answered. *)
AtNode(q, n) ==
    /\ n \in call[q].todo
    /\ LET op == call[q].op  what == call[q].arg
       IN  \E a \in Answers(n, op, what) :
           /\ IF a = "ok"
              THEN \E i \in IF op = "commit" THEN Image ELSE {what} : Effect(n, op, what, i)
              ELSE UNCHANGED hosts
           /\ call' = [call EXCEPT ![q] =
                [@ EXCEPT !.todo = @ \ {n},
                          !.did = IF a = "ok" THEN @ \cup {n} ELSE @,
                          !.failed = IF a = "error" THEN @ \cup {n} ELSE @]]
    /\ UNCHANGED <<nodes, lastUsed, storage, owner>>

(* What may be read from the channels: with wait, once every goroutine has *)
(* ended; else as soon as there is a result or an error, and when finish   *)
(* is closed, a result goes before "not found", but an error does not.     *)
ReplyMutant(q) ==
    LET c == call[q] IN
    {r \in {"ok", "error", "missing"} :
        CASE r = "ok" -> c.did # {} /\ (c.wait => c.todo = {})
          [] r = "error" -> c.failed # {} /\ (c.wait => c.todo = {})
          [] r = "missing" -> c.todo = {} /\ (c.wait => c.did \cup c.failed = {})}

Reply(q) ==
    LET c == call[q] IN
    {r \in {"ok", "error", "missing"} :
        CASE r = "ok" -> c.did # {} /\ (c.wait => c.todo = {})
          [] r = "error" -> c.failed # {} /\ (c.wait => c.todo = {})
          [] r = "missing" -> c.todo = {} /\ c.did = {} /\ (c.wait => c.failed = {})}

Returns(q) ==
    /\ call[q].at = "nodes" /\ call[q].ans = None
    /\ \E r \in Reply(q) : call' = [call EXCEPT ![q] = [@ EXCEPT !.at = "end", !.ans = r]]
    /\ UNCHANGED <<nodes, lastUsed, hosts, storage, owner>>

(***************************************************************************)
(* The cluster's nodes                                                     *)
(***************************************************************************)
(* addNodeToScheduler, roundRobin.Register *)
Register(n) ==
    /\ n \notin Registered
    /\ nodes' = Append(nodes, n)
    /\ UNCHANGED <<lastUsed, hosts, storage, call, owner>>

RemoveNode(n) ==
    /\ Segregated /\ n \in Registered
    /\ nodes' = SelectSeq(nodes, LAMBDA m : m # n)
    /\ UNCHANGED <<lastUsed, hosts, storage, call, owner>>

Terminated == (\A q \in Call : call[q].at = "end" /\ call[q].todo = {}) /\ UNCHANGED vars

Next ==
    \/ \E q \in Call :
         \/ \E a \in App : Schedule(q, a)
         \/ CreateContainer(q) \/ StoreContainer(q)
         \/ \E op \in OnContainer, c \in Cont : OnContainerAt(q, op, c) \/ RunOnNodes(q, op, c)
         \/ \E i \in Image : PushFrom(q, i) \/ \E op \in OnImage : RunOnNodes(q, op, i)
         \/ AtItsNode(q) \/ ForgetContainer(q) \/ StoreImage(q)
         \/ \E n \in Node : AtNode(q, n)
         \/ Returns(q)
    \/ \E n \in Node : Register(n) \/ RemoveNode(n)
    \/ Terminated

Spec == Init /\ [][Next]_vars

(***************************************************************************)
(* Properties                                                              *)
(***************************************************************************)
(* TypeOK: every variable keeps its type. *)
TypeOK ==
    /\ Registered \subseteq Node /\ Cardinality(Registered) = Len(nodes)
    /\ lastUsed \in Nat
    /\ conts \in [Node -> SUBSET Cont] /\ imgs \in [Node -> SUBSET Image]
    /\ running \subseteq Cont
    /\ host \in [Cont -> Node \cup {None}] /\ imageHost \in [Image -> Node \cup {None}]
    /\ \A q \in Call : call[q].todo \subseteq Node /\ call[q].ans \in {"ok", "error", "missing", None}
    /\ owner \in [Cont -> App \cup {None}]

(* The storage finds every container on the node that has it, and has no   *)
(* entry for one that is gone, except for what a call under way is about   *)
(* to write (StoreContainer and RemoveContainer come after the node's      *)
(* answer).                                                                *)
Pending(c) == {q \in Call : call[q].arg = c /\ call[q].op \in {"create", "remove"} /\ call[q].at = "store"}

StorageKnows ==
    Storing /\ "storage" \notin Faults => \A c \in Cont : Pending(c) = {} => \A n \in Node : c \in conts[n] <=> host[c] = n

(* runOnNodes answers with what its goroutines did: a result only if a     *)
(* node did it, an error only if a node failed, "not found" only if none   *)
(* that could be asked had it, whatever the order they answer in.          *)
AnswersTrue ==
    \A q \in Call : call[q].to # {} /\ call[q].at = "end" =>
        CASE call[q].ans = "ok" -> call[q].did # {}
          [] call[q].ans = "error" -> call[q].failed # {}
          [] OTHER -> call[q].did = {} /\ call[q].todo = {}

(* When PullImage returns, every node of the cluster that did not fail has *)
(* the image, although a removal is answered before all nodes did it       *)
(* (checked with Patient: what such a removal leaves behind is waited for).*)
PulledEverywhere ==
    [][Patient =>
       \A q \in Call : call[q].op = "pull" /\ call[q].at = "nodes" /\ call'[q].at = "end" =>
         \A n \in call[q].to \ call[q].failed : call[q].arg \in imgs[n]]_vars

(* tsuru's scheduler: what runs on a team's node belongs to an app of that *)
(* team alone.                                                             *)
TeamsApart ==
    Segregated => \A n \in Node, c \in Cont :
        c \in conts[n] /\ NodeTeam[n] # Anyone => TeamsOf[owner[c]] = {NodeTeam[n]}

ClusterSafe == StorageKnows /\ AnswersTrue /\ TeamsApart
=============================================================================
