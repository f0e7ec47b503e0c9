------------------------------ MODULE TCPProxy ------------------------------
(***************************************************************************)
(* network_proxy.go, TCPProxy: Run accepts connections until the listener  *)
(* is closed; the clientLoop of each dials the backend and starts two      *)
(* brokers, which copy one way each, shut the reading side of the socket   *)
(* they wrote to, and report on a channel; after both, or when Run has     *)
(* closed quit, clientLoop closes the two sockets.                         *)
(* A socket end is what it has sent, whether it has sent FIN, and whether  *)
(* it is gone.                                                             *)
(***************************************************************************)
EXTENDS Naturals, FiniteSets

CONSTANTS Conn,     \* connections of clients
          MaxBytes  \* bound: bytes an end sends

VARIABLES
    accepting,  \* the listener is open
    quit,       \* Run has returned
    st,         \* st[k]: clientLoop: "none", "dial", "copy", "join", "done"
    events,     \* events[k]: how many brokers have reported
    upward, downward,   \* the brokers: "none", "copy", "send", "gone"
    client,     \* client[k]: the client's end
    backend,    \* backend[k]: the backend's end
    shut        \* shut[k]: sockets of the proxy whose reading side is shut

vars == <<accepting, quit, st, events, upward, downward, client, backend, shut>>

End == [sent : 0 .. MaxBytes, got : 0 .. MaxBytes, fin : BOOLEAN, gone : BOOLEAN]
NewEnd == [sent |-> 0, got |-> 0, fin |-> FALSE, gone |-> FALSE]
Broker == {"none", "copy", "send", "gone"}

TypeOK ==
    /\ accepting \in BOOLEAN /\ quit \in BOOLEAN
    /\ st \in [Conn -> {"none", "dial", "copy", "join", "done"}]
    /\ events \in [Conn -> 0 .. 2]
    /\ upward \in [Conn -> Broker] /\ downward \in [Conn -> Broker]
    /\ client \in [Conn -> End] /\ backend \in [Conn -> End]
    /\ shut \in [Conn -> SUBSET {"client", "backend"}]

Init ==
    /\ accepting = TRUE /\ quit = FALSE
    /\ st = [k \in Conn |-> "none"] /\ events = [k \in Conn |-> 0]
    /\ upward = [k \in Conn |-> "none"] /\ downward = [k \in Conn |-> "none"]
    /\ client = [k \in Conn |-> NewEnd] /\ backend = [k \in Conn |-> NewEnd]
    /\ shut = [k \in Conn |-> {}]

Ends == <<client, backend>>
-----------------------------------------------------------------------------
(* The two ends, as they like: they send, half-close, or go altogether.    *)
(* What they see of the other end does not matter here.                    *)
Alive(k) == st[k] \in {"dial", "copy"}
Send(e) == [e EXCEPT !.sent = @ + 1]
ClientActs(k) ==
    /\ Alive(k) /\ ~client[k].gone
    /\ \/ ~client[k].fin /\ client[k].sent < MaxBytes
          /\ client' = [client EXCEPT ![k] = Send(@)]
       \/ ~client[k].fin /\ client' = [client EXCEPT ![k].fin = TRUE]
       \/ client' = [client EXCEPT ![k].gone = TRUE, ![k].fin = TRUE]
    /\ UNCHANGED <<accepting, quit, st, events, upward, downward, backend, shut>>
BackendActs(k) ==
    /\ st[k] = "copy" /\ ~backend[k].gone
    /\ \/ ~backend[k].fin /\ backend[k].sent < MaxBytes
          /\ backend' = [backend EXCEPT ![k] = Send(@)]
       \/ ~backend[k].fin /\ backend' = [backend EXCEPT ![k].fin = TRUE]
       \/ backend' = [backend EXCEPT ![k].gone = TRUE, ![k].fin = TRUE]
    /\ UNCHANGED <<accepting, quit, st, events, upward, downward, client, shut>>
-----------------------------------------------------------------------------
(* Run and clientLoop. *)
Accept(k) ==
    /\ accepting /\ ~quit /\ st[k] = "none"
    /\ st' = [st EXCEPT ![k] = "dial"]
    /\ UNCHANGED <<accepting, quit, events, upward, downward, Ends, shut>>

Close ==
    /\ accepting' = FALSE /\ accepting
    /\ UNCHANGED <<quit, st, events, upward, downward, Ends, shut>>

RunReturns ==
    /\ ~accepting /\ ~quit /\ quit' = TRUE
    /\ UNCHANGED <<accepting, st, events, upward, downward, Ends, shut>>

Dial(k) ==
    /\ st[k] = "dial"
    /\ \/ /\ st' = [st EXCEPT ![k] = "copy"]
          /\ upward' = [upward EXCEPT ![k] = "copy"] /\ downward' = [downward EXCEPT ![k] = "copy"]
       \/ st' = [st EXCEPT ![k] = "done"] /\ UNCHANGED <<upward, downward>>
    /\ UNCHANGED <<accepting, quit, events, Ends, shut>>

(* The loop over two events, or quit, which closes both sockets and then   *)
(* still waits for the events that are missing.                            *)
Closed(k) == st[k] \in {"join", "done"}
JoinMutant(k) == [st EXCEPT ![k] = "done"]
Join(k) == [st EXCEPT ![k] = "join"]
Quit(k) ==
    /\ st[k] = "copy" /\ quit
    /\ st' = Join(k)
    /\ UNCHANGED <<accepting, quit, events, upward, downward, Ends, shut>>

Event(k) ==
    /\ st[k] \in {"copy", "join"}
    /\ \/ upward[k] = "send" /\ upward' = [upward EXCEPT ![k] = "gone"] /\ UNCHANGED downward
       \/ downward[k] = "send" /\ downward' = [downward EXCEPT ![k] = "gone"] /\ UNCHANGED upward
    /\ events' = [events EXCEPT ![k] = @ + 1]
    /\ st' = IF events[k] = 1 THEN [st EXCEPT ![k] = "done"] ELSE st
    /\ UNCHANGED <<accepting, quit, Ends, shut>>
-----------------------------------------------------------------------------
(* The broker from the client to the backend, and the one back: a byte is  *)
(* copied; at the end of the input, or if a socket is closed or the other  *)
(* end gone, the copying ends, and the socket written to is read no more.  *)
Over(k, from, name) == (from.sent = from.got /\ (from.fin \/ name \in shut[k])) \/ Closed(k)

CopyUp(k) ==
    /\ upward[k] = "copy" /\ ~Closed(k) /\ ~backend[k].gone /\ client[k].got < client[k].sent
    /\ client' = [client EXCEPT ![k].got = @ + 1]
    /\ UNCHANGED <<accepting, quit, st, events, upward, downward, backend, shut>>
EndUp(k) ==
    /\ upward[k] = "copy" /\ (Over(k, client[k], "client") \/ backend[k].gone)
    /\ upward' = [upward EXCEPT ![k] = "send"]
    /\ shut' = [shut EXCEPT ![k] = @ \cup {"backend"}]
    /\ UNCHANGED <<accepting, quit, st, events, downward, Ends>>

CopyDown(k) ==
    /\ downward[k] = "copy" /\ ~Closed(k) /\ ~client[k].gone /\ backend[k].got < backend[k].sent
    /\ backend' = [backend EXCEPT ![k].got = @ + 1]
    /\ UNCHANGED <<accepting, quit, st, events, upward, downward, client, shut>>
OverDownMutant(k) == backend[k].fin \/ Over(k, backend[k], "backend") \/ client[k].gone
OverDown(k) == Over(k, backend[k], "backend") \/ client[k].gone
EndDown(k) ==
    /\ downward[k] = "copy" /\ OverDown(k)
    /\ downward' = [downward EXCEPT ![k] = "send"]
    /\ shut' = [shut EXCEPT ![k] = @ \cup {"client"}]
    /\ UNCHANGED <<accepting, quit, st, events, upward, Ends>>

Proxy(k) == Dial(k) \/ Quit(k) \/ Event(k) \/ CopyUp(k) \/ EndUp(k) \/ CopyDown(k) \/ EndDown(k)

Next ==
    \/ Close \/ RunReturns
    \/ \E k \in Conn : Accept(k) \/ ClientActs(k) \/ BackendActs(k) \/ Proxy(k)

Spec == Init /\ [][Next]_vars
Fairness ==
    /\ WF_vars(RunReturns)
    /\ \A k \in Conn : /\ WF_vars(Dial(k) \/ Quit(k)) /\ WF_vars(Event(k))
                       /\ WF_vars(CopyUp(k) \/ EndUp(k))
                       /\ WF_vars(CopyDown(k) \/ EndDown(k))
-----------------------------------------------------------------------------
(* All the backend sent before it closed has reached the client when the   *)
(* connection is over, unless the client stopped sending first, or the     *)
(* proxy was closed: then the reply may be cut off.                        *)
ReplyWhole ==
    \A k \in Conn :
        st[k] = "done" /\ events[k] = 2 /\ ~quit /\ ~client[k].fin =>
            backend[k].got = backend[k].sent

(* After Close no goroutine stays behind: every clientLoop that had begun  *)
(* returns, and so do its brokers, of which each must find a receiver.     *)
NobodyStays ==
    ~accepting ~> \A k \in Conn :
        st[k] \in {"none", "done"} /\ upward[k] \in {"none", "gone"} /\ downward[k] \in {"none", "gone"}
=============================================================================
