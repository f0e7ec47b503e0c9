------------------------------- MODULE Events -------------------------------
(***************************************************************************)
(* docker events (api.go getEvents, server.go LogEvent): the daemon's      *)
(* goroutines log events, and listeners get those since some time and then *)
(* the new ones.  The list is appended to and the listeners are ranged     *)
(* over without the lock getEvents takes; an event is offered to a         *)
(* listener, which misses it unless it is waiting for one just then.       *)
(***************************************************************************)
EXTENDS Naturals, FiniteSets, Sequences, SequencesExt

CONSTANTS
    Logger,     \* goroutines that log events
    Listener,   \* GET /events requests
    MaxEvents,  \* bound: events logged
    Serial,     \* only one LogEvent runs at a time
    None

VARIABLES
    events,     \* srv.events: events are numbered as LogEvent begins
    begun,      \* events begun so far
    logger,     \* logger[g]: where a LogEvent is
    listeners,  \* srv.listeners
    get,        \* get[l]: where a request is
    seen        \* seen[l]: what its client has got

vars == <<events, begun, logger, listeners, get, seen>>

Out == [pc |-> "out"]

TypeOK ==
    /\ events \in Seq(1 .. MaxEvents) /\ begun \in 0 .. MaxEvents
    /\ listeners \subseteq Listener
    /\ \A g \in Logger : logger[g] # Out =>
          logger[g].pc \in {"append", "offer"} /\ logger[g].todo \subseteq Listener
    /\ \A l \in Listener :
          /\ get[l].pc \in {"none", "since", "replay", "live", "send", "gone"}
          /\ seen[l] \in Seq(1 .. MaxEvents)

Init ==
    /\ events = <<>> /\ begun = 0 /\ listeners = {}
    /\ logger = [g \in Logger |-> Out]
    /\ get = [l \in Listener |-> [pc |-> "none"]] /\ seen = [l \in Listener |-> <<>>]
-----------------------------------------------------------------------------
(* LogEvent reads the list, ... *)
LogEvent(g) ==
    /\ logger[g] = Out /\ begun < MaxEvents
    /\ Serial => \A h \in Logger : logger[h] = Out
    /\ begun' = begun + 1
    /\ logger' = [logger EXCEPT ![g] = [pc |-> "append", event |-> begun + 1,
                                        old |-> events, todo |-> {}]]
    /\ UNCHANGED <<events, listeners, get, seen>>

(* ... writes it back with the event at its end, and has the listeners     *)
(* there are now before it.                                                *)
Append1(g) ==
    /\ logger[g].pc = "append"
    /\ events' = Append(logger[g].old, logger[g].event)
    /\ logger' = [logger EXCEPT ![g] = [pc |-> "offer", event |-> @.event, todo |-> listeners]]
    /\ UNCHANGED <<begun, listeners, get, seen>>

(* A listener that waits takes the event, any other one misses it.         *)
Offer(g, l) ==
    /\ logger[g].pc = "offer" /\ l \in logger[g].todo
    /\ logger' = [logger EXCEPT ![g].todo = @ \ {l}]
    /\ get' = IF get[l].pc = "live"
              THEN [get EXCEPT ![l] = [pc |-> "send", event |-> logger[g].event]] ELSE get
    /\ UNCHANGED <<events, begun, listeners, seen>>

LogDone(g) ==
    /\ logger[g].pc = "offer" /\ logger[g].todo = {}
    /\ logger' = [logger EXCEPT ![g] = Out]
    /\ UNCHANGED <<events, begun, listeners, get, seen>>
-----------------------------------------------------------------------------
(* getEvents registers its listener; with a since, it then sends the events*)
(* that are in the list when it begins to, from that time on.              *)
GetEvents(l) ==
    /\ get[l].pc = "none"
    /\ listeners' = listeners \cup {l}
    /\ \E pc \in {"since", "live"} : get' = [get EXCEPT ![l] = [pc |-> pc]]
    /\ UNCHANGED <<events, begun, logger, seen>>

Replay(l) ==
    /\ get[l].pc = "since"
    /\ \E t \in 0 .. Len(events) :
          get' = [get EXCEPT ![l] = [pc |-> "replay", rest |-> SubSeq(events, t + 1, Len(events))]]
    /\ UNCHANGED <<events, begun, logger, listeners, seen>>

(* sendEvent: when the client is gone, its listener is evicted.            *)
EvictMutant(l) == listeners
Evict(l) == listeners \ {l}
Send(l, event, next) ==
    \/ /\ seen' = [seen EXCEPT ![l] = Append(@, event)]
       /\ get' = [get EXCEPT ![l] = next] /\ UNCHANGED listeners
    \/ /\ get' = [get EXCEPT ![l] = [pc |-> "gone"]]
       /\ listeners' = Evict(l) /\ UNCHANGED seen

Replayed(l) ==
    /\ get[l].pc = "replay"
    /\ IF get[l].rest = <<>>
       THEN get' = [get EXCEPT ![l] = [pc |-> "live"]] /\ UNCHANGED <<listeners, seen>>
       ELSE Send(l, Head(get[l].rest), [pc |-> "replay", rest |-> Tail(get[l].rest)])
    /\ UNCHANGED <<events, begun, logger>>

LiveMutant(l) == [pc |-> "since"]
Live(l) == [pc |-> "live"]
SendLive(l) ==
    /\ get[l].pc = "send"
    /\ Send(l, get[l].event, Live(l))
    /\ UNCHANGED <<events, begun, logger>>

Next ==
    \/ \E g \in Logger : LogEvent(g) \/ Append1(g) \/ LogDone(g) \/ \E l \in Listener : Offer(g, l)
    \/ \E l \in Listener : GetEvents(l) \/ Replay(l) \/ Replayed(l) \/ SendLive(l)

Spec == Init /\ [][Next]_vars
-----------------------------------------------------------------------------
(* While one event is logged at a time, the list has them all and a client *)
(* gets events in their order, none twice - except the last one of the     *)
(* list, which can be offered again after it was sent from the list.       *)
InOrder ==
    Serial =>
        /\ \A k \in DOMAIN events : events[k] = k
        /\ \A l \in Listener :
              /\ \A j, k \in DOMAIN seen[l] : j < k => seen[l][j] <= seen[l][k]
              /\ Cardinality(ToSet(seen[l])) >= Len(seen[l]) - 1

(* Who is in the list of listeners is still served, and nobody is left out:*)
(* a client that is gone does not stay, whoever else comes and goes.       *)
ListenersServed ==
    listeners = {l \in Listener : get[l].pc \notin {"none", "gone"}}

(* What the listeners get of the events.                                   *)
EventsSafe == InOrder /\ ListenersServed
=============================================================================
