-------------------------------- MODULE Pipe --------------------------------
(***************************************************************************)
(* libchan in memory (inmem.go, copy.go, handler.go, utils/queue.go).      *)
(* Clients send messages into one pipe and wait on the return pipes that   *)
(* come with them; a Copy, or a Queue's two goroutines, relays them into a *)
(* second pipe, from which servers receive, reply and close.               *)
(*                                                                         *)
(* A pipe has a slot for one message, a lock each for those who send and   *)
(* those who receive, who hold it while they wait, and conditions: Wait    *)
(* leaves only when there is a Signal after it has begun.                  *)
(***************************************************************************)
EXTENDS Naturals, Sequences, SequencesExt, FiniteSets

CONSTANTS
    Client, Server,  \* goroutines
    Msg,             \* messages to be sent, each is also its return pipe
    Owner,           \* Owner[m]: the client that sends m
    Relay,           \* who moves the messages: "copy" or "queue"
    Size,            \* capacity of the queue's channel
    None

Pipes == {"front", "back"} \cup Msg
Gor == Client \cup Server \cup {"relay", "drain"}

VARIABLES
    slot,    \* slot[p]: pipe.msg
    rerr,    \* pipe.rerr: the receiver is closed
    werr,    \* pipe.werr: the sender is closed
    rlock,   \* pipe.rl, wlock: pipe.wl; held by a goroutine
    wlock,
    op,      \* op[g]: the goroutine's call of psend or preceive
    asks,    \* asks[m]: "no" unless sent, then whether with a RetPipe
    told,    \* told[m]: what Send said to the client
    queue,   \* Queue.ch
    shut,    \* the channel has been closed
    got      \* got[p]: the messages received from p so far

vars == <<slot, rerr, werr, rlock, wlock, op, asks, told, queue, shut, got>>

Pc == {"idle", "end", "psend", "wwait", "check", "preceive", "rwait", "look", "done"}
Res == {"ok", "rerr", "werr", "eof"}

TypeOK ==
    /\ slot \in [Pipes -> Msg \cup {None}]
    /\ rerr \in [Pipes -> BOOLEAN] /\ werr \in [Pipes -> BOOLEAN]
    /\ rlock \in [Pipes -> Gor \cup {None}] /\ wlock \in [Pipes -> Gor \cup {None}]
    /\ op \in [Gor -> [pc : Pc, pipe : Pipes, msg : Msg \cup {None}, res : Res]]
    /\ asks \in [Msg -> {"no", "plain", "ret"}]
    /\ told \in [Msg -> {"nothing"} \cup Res]
    /\ queue \in Seq(Msg) /\ Len(queue) <= Size /\ shut \in BOOLEAN
    /\ got \in [Pipes -> Seq(Msg)]

Idle == [pc |-> "idle", pipe |-> "front", msg |-> None, res |-> "ok"]
Ended == [Idle EXCEPT !.pc = "end"]
Psend(p, m) == [pc |-> "psend", pipe |-> p, msg |-> m, res |-> "ok"]
Preceive(p) == [pc |-> "preceive", pipe |-> p, msg |-> None, res |-> "ok"]

Init ==
    /\ slot = [p \in Pipes |-> None] /\ got = [p \in Pipes |-> <<>>]
    /\ rerr = [p \in Pipes |-> FALSE] /\ werr = [p \in Pipes |-> FALSE]
    /\ rlock = [p \in Pipes |-> None] /\ wlock = [p \in Pipes |-> None]
    /\ op = [g \in Gor |-> Idle]
    /\ asks = [m \in Msg |-> "no"] /\ told = [m \in Msg |-> "nothing"]
    /\ queue = <<>> /\ shut = FALSE
-----------------------------------------------------------------------------
(* The pipe. *)

Returned(o, r) == [o EXCEPT !.pc = "done", !.res = r]

(* Signal: who waits there, and there is at most one, goes around its loop *)
(* again.                                                                  *)
Signal(ops, p, from, to) ==
    [g \in Gor |-> IF ops[g].pc = from /\ ops[g].pipe = p
                   THEN [ops[g] EXCEPT !.pc = to] ELSE ops[g]]
SignalReader(ops, p) == Signal(ops, p, "rwait", "look")
SignalWriter(ops, p) == Signal(ops, p, "wwait", "check")
SignalBoth(ops, p) == SignalReader(SignalWriter(ops, p), p)

(* Mutant: a closed receiver is not told to who sends. *)
RCloseMutant(p, ops) == rerr' = [rerr EXCEPT ![p] = TRUE] /\ op' = SignalReader(ops, p)
RClose(p, ops) == rerr' = [rerr EXCEPT ![p] = TRUE] /\ op' = SignalBoth(ops, p)
WClose(p, ops) == werr' = [werr EXCEPT ![p] = TRUE] /\ op' = SignalBoth(ops, p)

(* Mutant: a receiver closed after it took the message counts as an error. *)
AroundMutant(g, s, ops, locked) ==
    LET p == op[g].pipe IN
    IF s = None \/ rerr[p]
    THEN /\ slot' = [slot EXCEPT ![p] = None]
         /\ wlock' = [locked EXCEPT ![p] = None]
         /\ op' = [ops EXCEPT ![g] = Returned(@, IF rerr[p] THEN "rerr" ELSE @.res)]
    ELSE /\ slot' = [slot EXCEPT ![p] = s]
         /\ op' = [ops EXCEPT ![g].pc = "wwait"]
         /\ wlock' = locked

(* psend's loop, with s in the slot: it is left when the message is gone   *)
(* or the receiver closed, not when the sender is.                         *)
Around(g, s, ops, locked) ==
    LET p == op[g].pipe IN
    IF s = None \/ rerr[p]
    THEN /\ slot' = [slot EXCEPT ![p] = None]
         /\ wlock' = [locked EXCEPT ![p] = None]
         /\ op' = [ops EXCEPT ![g] = Returned(@, IF s = None THEN @.res ELSE "rerr")]
    ELSE /\ slot' = [slot EXCEPT ![p] = s]
         /\ op' = [ops EXCEPT ![g].pc = "wwait",
                              ![g].res = IF werr[p] THEN "werr" ELSE @]
         /\ wlock' = locked

(* To take the one lock and then the other is a step: nobody can tell.     *)
Put(g) ==
    LET p == op[g].pipe IN
    /\ op[g].pc = "psend" /\ wlock[p] = None
    /\ Around(g, op[g].msg, SignalReader(op, p), [wlock EXCEPT ![p] = g])
    /\ UNCHANGED <<rerr, werr, rlock, asks, told, queue, shut, got>>
Check(g) ==
    /\ op[g].pc = "check"
    /\ Around(g, slot[op[g].pipe], op, wlock)
    /\ UNCHANGED <<rerr, werr, rlock, asks, told, queue, shut, got>>

(* preceive's loop. *)
Blocks(p) == ~rerr[p] /\ slot[p] = None /\ ~werr[p]
Look(g) ==
    LET p == op[g].pipe
        m == slot[p] IN
    /\ op[g].pc = "look" \/ (op[g].pc = "preceive" /\ rlock[p] = None)
    /\ \/ /\ Blocks(p)
          /\ op' = [op EXCEPT ![g].pc = "rwait"]
          /\ rlock' = [rlock EXCEPT ![p] = g]
          /\ UNCHANGED <<slot, got>>
       \/ /\ ~Blocks(p) /\ (rerr[p] \/ m = None)
          /\ op' = [op EXCEPT ![g] = Returned(@, IF rerr[p] THEN "rerr" ELSE "eof")]
          /\ rlock' = [rlock EXCEPT ![p] = None]
          /\ UNCHANGED <<slot, got>>
       \/ /\ ~rerr[p] /\ m # None
          /\ op' = [SignalWriter(op, p) EXCEPT ![g] = [Returned(@, "ok") EXCEPT !.msg = m]]
          /\ slot' = [slot EXCEPT ![p] = None]
          /\ rlock' = [rlock EXCEPT ![p] = None]
          /\ got' = [got EXCEPT ![p] = Append(@, m)]
    /\ UNCHANGED <<rerr, werr, wlock, asks, told, queue, shut>>
-----------------------------------------------------------------------------
(* Clients. *)

Done(g, p) == op[g].pc = "done" /\ op[g].pipe = p
Failed(g) == op[g].res # "ok"
Other == UNCHANGED <<slot, rlock, wlock, got>>

Send(c, m) ==
    /\ op["relay"] # Idle
    /\ op[c].pc = "idle" /\ Owner[m] = c /\ asks[m] = "no"
    /\ \E a \in {"plain", "ret"} : asks' = [asks EXCEPT ![m] = a]
    /\ op' = [op EXCEPT ![c] = Psend("front", m)]
    /\ UNCHANGED <<rerr, werr, told, queue, shut>> /\ Other

(* Who asked for a return pipe, and was told of no error, receives from it *)
(* once, as libswarm's Objects do.                                         *)
Sent(c) ==
    LET m == op[c].msg IN
    /\ Done(c, "front")
    /\ told' = [told EXCEPT ![m] = op[c].res]
    /\ op' = [op EXCEPT ![c] = IF asks[m] = "ret" /\ ~Failed(c) THEN Preceive(m) ELSE Idle]
    /\ UNCHANGED <<rerr, werr, asks, queue, shut>> /\ Other

Answered(c) ==
    /\ \E m \in Msg : Done(c, m)
    /\ op' = [op EXCEPT ![c] = Idle]
    /\ UNCHANGED <<rerr, werr, asks, told, queue, shut>> /\ Other

(* PipeSender.Close, also while another client is sending. *)
Close(c) ==
    /\ op["relay"] # Idle /\ op[c].pc = "idle" /\ ~werr["front"]
    /\ WClose("front", op)
    /\ UNCHANGED <<rerr, asks, told, queue, shut>> /\ Other
-----------------------------------------------------------------------------
(* The relay: SendTo, or the first of the Queue's goroutines. *)

(* Pipe and NewQueue, or Copy, when servers receive already. *)
Begin ==
    /\ op["relay"] = Idle
    /\ op' = [g \in Gor |->
                 CASE g = "relay" -> Preceive("front")
                   [] g \in Server -> Preceive("back")
                   [] g = "drain" /\ Relay = "copy" -> Ended
                   [] OTHER -> Idle]
    /\ UNCHANGED <<rerr, werr, asks, told, queue, shut>> /\ Other

Pass ==
    LET m == op["relay"].msg IN
    /\ Done("relay", "front") /\ ~Failed("relay")
    /\ \/ /\ Relay = "copy"
          /\ op' = [op EXCEPT !["relay"] = Psend("back", m)]
          /\ UNCHANGED queue
       \/ /\ Relay = "queue" /\ Len(queue) < Size
          /\ queue' = Append(queue, m)
          /\ op' = [op EXCEPT !["relay"] = Preceive("front")]
    /\ UNCHANGED <<rerr, werr, asks, told, shut>> /\ Other

(* Mutant: the Queue forgets its end of the pipe. *)
StopMutant ==
    /\ Done("relay", "front") /\ Failed("relay")
    /\ op' = [op EXCEPT !["relay"] = Ended] /\ shut' = (Relay = "queue")
    /\ UNCHANGED <<rerr, werr, asks, told, queue>> /\ Other

(* At an error or the end Copy just returns; the Queue closes its end of   *)
(* the pipe and its channel.                                               *)
Stop ==
    /\ Done("relay", "front") /\ Failed("relay")
    /\ IF Relay = "queue"
       THEN RClose("front", [op EXCEPT !["relay"] = Ended]) /\ shut' = TRUE
       ELSE op' = [op EXCEPT !["relay"] = Ended] /\ UNCHANGED <<rerr, shut>>
    /\ UNCHANGED <<werr, asks, told, queue>> /\ Other

Copied ==
    /\ Done("relay", "back")
    /\ op' = [op EXCEPT !["relay"] = IF Failed("relay") THEN Ended ELSE Preceive("front")]
    /\ UNCHANGED <<rerr, werr, asks, told, queue, shut>> /\ Other

(* The Queue's second goroutine. *)
Drain ==
    /\ op["drain"].pc = "idle" /\ (queue # <<>> \/ shut)
    /\ IF queue = <<>>
       THEN op' = [op EXCEPT !["drain"] = Ended] /\ UNCHANGED queue
       ELSE /\ op' = [op EXCEPT !["drain"] = Psend("back", Head(queue))]
            /\ queue' = Tail(queue)
    /\ UNCHANGED <<rerr, werr, asks, told, shut>> /\ Other

Drained ==
    /\ Done("drain", "back")
    /\ IF Failed("drain")
       THEN RClose("front", [op EXCEPT !["drain"] = Ended])
       ELSE op' = [op EXCEPT !["drain"] = Idle] /\ UNCHANGED rerr
    /\ UNCHANGED <<werr, asks, told, queue, shut>> /\ Other
-----------------------------------------------------------------------------
(* Servers. *)

(* A handler may answer before the return pipe is closed. *)
Reply(s) ==
    /\ Done(s, "back") /\ ~Failed(s) /\ asks[op[s].msg] = "ret"
    /\ op' = [op EXCEPT ![s] = Psend(op[s].msg, op[s].msg)]
    /\ UNCHANGED <<rerr, werr, asks, told, queue, shut>> /\ Other

(* Received without Ret, or handled: msg.Ret.Close(). A NopSender has      *)
(* nothing to close.                                                       *)
CloseRet(s) ==
    LET m == op[s].msg IN
    /\ \/ Done(s, "back") /\ ~Failed(s)
       \/ m # None /\ Done(s, m)
    /\ IF asks[m] = "ret"
       THEN WClose(m, [op EXCEPT ![s] = Preceive("back")])
       ELSE op' = [op EXCEPT ![s] = Preceive("back")] /\ UNCHANGED werr
    /\ UNCHANGED <<rerr, asks, told, queue, shut>> /\ Other

(* A server that is done, or has got an error, closes its receiver. *)
Leave(s) ==
    /\ op[s].pc = "preceive" \/ (Done(s, "back") /\ Failed(s))
    /\ RClose("back", [op EXCEPT ![s] = Ended])
    /\ UNCHANGED <<werr, asks, told, queue, shut>> /\ Other
-----------------------------------------------------------------------------
Step(g) == Put(g) \/ Check(g) \/ Look(g)
ClientStep(c) == Step(c) \/ Sent(c) \/ Answered(c)
RelayStep == Step("relay") \/ Pass \/ Stop \/ Copied
DrainStep == Step("drain") \/ Drain \/ Drained
ServerStep(s) == Step(s) \/ Reply(s) \/ CloseRet(s)

Next ==
    \/ Begin
    \/ \E c \in Client : ClientStep(c) \/ Close(c) \/ \E m \in Msg : Send(c, m)
    \/ RelayStep \/ DrainStep
    \/ \E s \in Server : ServerStep(s) \/ Leave(s)

(* Every goroutine goes on; nobody need send, close or leave. *)
Fairness ==
    /\ \A c \in Client : WF_vars(ClientStep(c))
    /\ WF_vars(RelayStep) /\ WF_vars(DrainStep)
    /\ \A s \in Server : WF_vars(ServerStep(s))

Spec == Init /\ [][Next]_vars /\ Fairness
-----------------------------------------------------------------------------
(* What Send says is true: without an error the message was taken, and     *)
(* with the receiver's it was not. Only who sends while the pipe is being  *)
(* closed is told of an error although the message may arrive.             *)
ToldRight ==
    \A m \in Msg :
        /\ told[m] = "ok" => m \in Range(got["front"])
        /\ told[m] = "rerr" => m \notin Range(got["front"])
        /\ told[m] = "werr" => werr["front"]

(* No Signal is lost: nobody waits for what is there already.              *)
NobodyOversleeps ==
    \A g \in Gor :
        /\ op[g].pc = "rwait" => Blocks(op[g].pipe)
        /\ op[g].pc = "wwait" => slot[op[g].pipe] = op[g].msg /\ ~rerr[op[g].pipe]

(* What is relayed comes once, in the order of its arrival, with no gap;   *)
(* a reply comes only to what a server has received.                       *)
Relayed ==
    /\ IsPrefix(got["back"], got["front"])
    /\ IsInjective(got["front"])
    /\ \A m \in Msg : got[m] # <<>> => got[m] = <<m>> /\ m \in Range(got["back"])

(* The pipe and its relays keep what they promise. *)
PipeSafe == ToldRight /\ NobodyOversleeps /\ Relayed

(* m was on its way when the relay gave up: nobody closes its return pipe. *)
LostMsg(m) ==
    /\ m \in Range(got["front"]) /\ m \notin Range(got["back"])
    /\ op["relay"].pc = "end" \/ op["drain"].pc = "end"

(* A Queue in between keeps nobody waiting for ever: every Send returns,   *)
(* and who waits for a reply gets it or the end of the pipe, unless the    *)
(* message is lost.                                                        *)
SendsEnd ==
    Relay = "queue" =>
        \A c \in Client :
            (op[c].pc # "idle")
                ~> \/ op[c].pc = "idle"
                   \/ op[c].pipe \in Msg /\ LostMsg(op[c].pipe)
=============================================================================
