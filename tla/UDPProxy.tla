------------------------------ MODULE UDPProxy ------------------------------
(***************************************************************************)
(* network_proxy.go, UDPProxy: Run forwards the datagrams of each client   *)
(* over a connection of the client's own to the backend, and a replyLoop   *)
(* per connection forwards the answers until nothing has come for          *)
(* UDPConnTrackTimeout.  connTrackTable and its lock are shared by Run,    *)
(* the replyLoops and Close.                                               *)
(***************************************************************************)

CONSTANTS
    Addr,  \* the clients
    Conn,  \* connections to the backend, as many as there are at a time: a bound
    None

VARIABLES
    listening,  \* the listener is open
    lock,       \* who holds connTrackLock, or None
    table,      \* connTrackTable
    open,       \* the connections that are open
    addr,       \* addr[k]: the client connection k is for
    run,        \* Run: where it is, and the datagram it handles
    loop,       \* loop[k]: the replyLoop of connection k
    close,      \* Close: "no", "lock", "done"
    failed      \* DialUDP has failed

vars == <<listening, lock, table, open, addr, run, loop, close, failed>>

TypeOK ==
    /\ listening \in BOOLEAN /\ failed \in BOOLEAN
    /\ lock \in {None, "run", "close"} \cup Conn
    /\ table \in [Addr -> Conn \cup {None}]
    /\ open \subseteq Conn
    /\ addr \in [Conn -> Addr \cup {None}]
    /\ run \in [pc : {"read", "lock", "look", "write", "ended"}, from : Addr \cup {None},
                conn : Conn \cup {None}]
    /\ loop \in [Conn -> {"none", "read", "lock", "delete", "close"}]
    /\ close \in {"no", "lock", "done"}

Init ==
    /\ listening = TRUE /\ lock = None /\ failed = FALSE
    /\ table = [a \in Addr |-> None]
    /\ open = {} /\ addr = [k \in Conn |-> None]
    /\ run = [pc |-> "read", from |-> None, conn |-> None]
    /\ loop = [k \in Conn |-> "none"]
    /\ close = "no"
-----------------------------------------------------------------------------
(* Run. *)
Receive ==
    /\ run.pc = "read"
    /\ IF listening
       THEN /\ \E k \in Conn : loop[k] = "none"
            /\ \E a \in Addr : run' = [run EXCEPT !.pc = "lock", !.from = a]
       ELSE run' = [run EXCEPT !.pc = "ended"]
    /\ UNCHANGED <<listening, lock, table, open, addr, loop, close, failed>>

RunLock ==
    /\ run.pc = "lock" /\ lock = None
    /\ lock' = "run" /\ run' = [run EXCEPT !.pc = "look"]
    /\ UNCHANGED <<listening, table, open, addr, loop, close, failed>>

(* The client's connection, or a new one with its replyLoop.               *)
HitMutant(a) == FALSE
Hit(a) == table[a] # None
Found ==
    /\ run.pc = "look" /\ Hit(run.from)
    /\ run' = [run EXCEPT !.pc = "write", !.conn = table[run.from]]
    /\ lock' = None
    /\ UNCHANGED <<listening, table, open, addr, loop, close, failed>>

Dialled ==
    /\ run.pc = "look" /\ ~Hit(run.from)
    /\ LET k == CHOOSE j \in Conn : loop[j] = "none"
       IN
          /\ table' = [table EXCEPT ![run.from] = k]
          /\ open' = open \cup {k}
          /\ addr' = [addr EXCEPT ![k] = run.from]
          /\ loop' = [loop EXCEPT ![k] = "read"]
          /\ run' = [run EXCEPT !.pc = "write", !.conn = k]
    /\ lock' = None
    /\ UNCHANGED <<listening, close, failed>>

(* The error path goes back to the next datagram, and keeps the lock.      *)
DialFails ==
    /\ run.pc = "look" /\ ~Hit(run.from)
    /\ run' = [run EXCEPT !.pc = "read", !.from = None]
    /\ failed' = TRUE
    /\ UNCHANGED <<listening, lock, table, open, addr, loop, close>>

(* The write, which fails if the connection has been closed meanwhile.     *)
Forward ==
    /\ run.pc = "write"
    /\ run' = [pc |-> "read", from |-> None, conn |-> None]
    /\ UNCHANGED <<listening, lock, table, open, addr, loop, close, failed>>
-----------------------------------------------------------------------------
(* replyLoop k: it forwards answers as long as they come, returns when the *)
(* timeout is over, its connection has been closed, or the listener has,   *)
(* and then deletes its entry under the lock and closes the connection.    *)
ExpireMutant(k) == open' = open \ {k}
Expire(k) == UNCHANGED open
Expired(k) ==
    /\ loop[k] = "read"
    /\ loop' = [loop EXCEPT ![k] = "lock"] /\ Expire(k)
    /\ UNCHANGED <<listening, lock, table, addr, run, close, failed>>

LoopLock(k) ==
    /\ loop[k] = "lock" /\ lock = None
    /\ lock' = k /\ loop' = [loop EXCEPT ![k] = "delete"]
    /\ UNCHANGED <<listening, table, open, addr, run, close, failed>>

UnlockMutant(k) == UNCHANGED lock
Unlock(k) == lock' = None
Delete(k) ==
    /\ loop[k] = "delete"
    /\ table' = [table EXCEPT ![addr[k]] = None]
    /\ Unlock(k) /\ loop' = [loop EXCEPT ![k] = "close"]
    /\ UNCHANGED <<listening, open, addr, run, close, failed>>

CloseConn(k) ==
    /\ loop[k] = "close"
    /\ open' = open \ {k} /\ loop' = [loop EXCEPT ![k] = "none"]
    /\ addr' = [addr EXCEPT ![k] = None]
    /\ UNCHANGED <<listening, lock, table, run, close, failed>>

ReplyLoop(k) == Expired(k) \/ LoopLock(k) \/ Delete(k) \/ CloseConn(k)
-----------------------------------------------------------------------------
(* Close. *)
CloseListener ==
    /\ close = "no"
    /\ listening' = FALSE /\ close' = "lock"
    /\ UNCHANGED <<lock, table, open, addr, run, loop, failed>>

CloseConns ==
    /\ close = "lock" /\ lock = None
    /\ open' = open \ {table[a] : a \in Addr}
    /\ close' = "done"
    /\ UNCHANGED <<listening, lock, table, addr, run, loop, failed>>

Run == Receive \/ RunLock \/ Found \/ Dialled \/ DialFails \/ Forward
Next == Run \/ CloseListener \/ CloseConns \/ \E k \in Conn : ReplyLoop(k)

Spec == Init /\ [][Next]_vars
Fairness ==
    /\ WF_vars(~listening /\ Receive) /\ SF_vars(RunLock)
    /\ WF_vars((Found \/ Dialled)) /\ WF_vars(Forward)
    /\ SF_vars(CloseConns)
    /\ \A k \in Conn : /\ WF_vars(Expired(k)) /\ SF_vars(LoopLock(k))
                       /\ WF_vars(Delete(k)) /\ WF_vars(CloseConn(k))
-----------------------------------------------------------------------------
(* The entry of a client is the connection whose replyLoop still forwards  *)
(* its answers: no replyLoop deletes, or loses, the entry of another.      *)
TableExact ==
    \A k \in Conn :
        /\ loop[k] \in {"read", "lock", "delete"} => table[addr[k]] = k
        /\ \A a \in Addr : table[a] = k => addr[k] = a /\ loop[k] # "none"

(* Until Close, a datagram is never handed to a connection of the table    *)
(* that has been closed.                                                   *)
EntriesOpen == close # "done" => \A a \in Addr : table[a] \in open \cup {None}

(* The lock is held by who is about to release it, unless a dial failed.   *)
LockHeld ==
    \/ failed
    \/ lock = None
    \/ lock = "run" /\ run.pc = "look"
    \/ lock \in Conn /\ loop[lock] = "delete"

(* What Run, the reply loops and Close may rely on in the shared table.    *)
UDPSafe == TableExact /\ EntriesOpen /\ LockHeld

(* Close returns, and then every replyLoop ends, also the one of a client  *)
(* whose datagram came too late for Close to see it, unless a dial failed. *)
CloseEnds ==
    close = "lock" ~>
        failed \/ (close = "done" /\ open = {} /\ \A k \in Conn : loop[k] = "none")
=============================================================================
