------------------------------ MODULE UnixConn ------------------------------
(***************************************************************************)
(* libchan over unix sockets (unix/unix.go, conn.go, beam.go): a client    *)
(* sends messages to a relay, which copies them to a server, which answers *)
(* over the socket that came with a message. A stream is one direction of  *)
(* a socket; header and data of a message are written and read in pieces,  *)
(* and a descriptor travels with the first byte of the header. Conn has no *)
(* lock: one goroutine sends on it at a time.                              *)
(***************************************************************************)
EXTENDS Naturals, Sequences, SequencesExt, FiniteSets

CONSTANTS
    Msg,      \* messages; each is also the stream of its answer
    Length,   \* Length[m]: bytes of data in m
    Header,   \* bytes of a header
    Room,     \* bytes that a socket buffers
    None

Streams == {"main", "next"} \cup Msg
Process == {"client", "relay", "server"}

VARIABLES
    wire,    \* wire[s]: the bytes under way: [msg, pos, fd]
    snd,     \* snd[s]: the message being written, and how far
    buf,     \* buf[s]: what Receive has read of a message
    fds,     \* fds[s]: UnixConn.fds of the receiver
    ended,   \* ended[s]: s is shut down for writing, or nobody has that end
    holder,  \* holder[m]: where the server's end of m's stream is
    out,     \* out[s]: the messages received, [msg, fd], in order
    kind,    \* kind[m]: "unsent", or what its Ret is
    at,      \* at[m]: how far the client is with m
    relay,   \* the message that the relay has received
    server,  \* the message that the server is to answer
    alive    \* processes that have not exited

vars == <<wire, snd, buf, fds, ended, holder, out, kind, at, relay, server, alive>>
conn == <<wire, buf, fds, out>>

Writer(s) == IF s = "main" THEN "client" ELSE IF s = "next" THEN "relay" ELSE "server"
Reader(s) == IF s = "main" THEN "relay" ELSE IF s = "next" THEN "server" ELSE "client"
Cut(s) == Reader(s) \notin alive
NoSend == [msg |-> None, pos |-> 0]
Bytes == [msg : Msg, pos : Nat, fd : Msg \cup {None}]

TypeOK ==
    /\ \A s \in Streams :
          /\ wire[s] \in Seq(Bytes) /\ Len(wire[s]) <= Room
          /\ snd[s] \in [msg : Msg \cup {None}, pos : Nat]
          /\ buf[s] \in Seq(Bytes) /\ fds[s] \in Seq(Msg)
          /\ out[s] \in Seq([msg : Msg, fd : Msg \cup {None}])
    /\ ended \in [Streams -> BOOLEAN]
    /\ holder \in [Msg -> {"client", "main", "next"}]
    /\ kind \in [Msg -> {"unsent", "plain", "pipe", "other"}]
    /\ at \in [Msg -> {"out", "sending", "await", "answered", "eof", "done"}]
    /\ relay \in Msg \cup {None} /\ server \in Msg \cup {None}
    /\ alive \subseteq Process

Init ==
    /\ wire = [s \in Streams |-> <<>>] /\ snd = [s \in Streams |-> NoSend]
    /\ buf = [s \in Streams |-> <<>>] /\ fds = [s \in Streams |-> <<>>]
    /\ ended = [s \in Streams |-> FALSE] /\ holder = [m \in Msg |-> "client"]
    /\ out = [s \in Streams |-> <<>>]
    /\ kind = [m \in Msg |-> "unsent"] /\ at = [m \in Msg |-> "out"]
    /\ relay = None /\ server = None /\ alive = Process
-----------------------------------------------------------------------------
(* UnixConn. *)

(* An answer has no descriptor, any other message the end of its return    *)
(* stream, if it has one.                                                  *)
Attachment(s, m) == IF s \in Msg \/ kind[m] = "plain" THEN None ELSE m
Size(m) == Header + Length[m]

(* sendUnix: a descriptor goes with the first byte alone, then there is a  *)
(* Write for the header and one for the data, of which the kernel takes    *)
(* some bytes at a time.                                                   *)
Takes(s) ==
    LET m == snd[s].msg
        p == snd[s].pos IN
    IF p = 0 /\ Attachment(s, m) # None THEN {1}
    ELSE 1 .. (IF p < Header THEN Header ELSE Size(m)) - p
Written(s, n) ==
    [i \in 1 .. n |->
        [msg |-> snd[s].msg, pos |-> snd[s].pos + i,
         fd |-> IF snd[s].pos + i = 1 THEN Attachment(s, snd[s].msg) ELSE None]]
Sending(s) == snd[s].msg # None /\ Writer(s) \in alive
Sent(s) == Sending(s) /\ snd[s].pos = Size(snd[s].msg)
SendFails(s) == Sending(s) /\ ~Sent(s) /\ (Cut(s) \/ ended[s])
Write(s) ==
    /\ Sending(s) /\ ~Sent(s) /\ ~SendFails(s)
    /\ \E n \in Takes(s) :
        /\ Len(wire[s]) + n <= Room
        /\ wire' = [wire EXCEPT ![s] = @ \o Written(s, n)]
        /\ snd' = [snd EXCEPT ![s].pos = @ + n]
    /\ holder' = IF snd[s].pos = 0 /\ Attachment(s, snd[s].msg) # None
                 THEN [holder EXCEPT ![snd[s].msg] = s] ELSE holder
    /\ UNCHANGED <<buf, fds, ended, out, kind, at, relay, server, alive>>

(* Receive reads a header and then as many bytes as it says; ReadMsgUnix   *)
(* returns some of them, those with a descriptor alone. It may return the  *)
(* end of the stream when it has read only some.                           *)
Received(s) == Len(buf[s]) >= Header /\ Len(buf[s]) = Size(buf[s][1].msg)
Wanted(s) ==
    (IF Len(buf[s]) < Header THEN Header ELSE Size(buf[s][1].msg)) - Len(buf[s])
Readable(s) ==
    {n \in 1 .. Wanted(s) :
        n <= Len(wire[s]) /\ (n = 1 \/ \A i \in 1 .. n : wire[s][i].fd = None)}
Arrived(b) == IF b.fd = None THEN <<>> ELSE <<b.fd>>
Read(s) ==
    /\ ~Cut(s) /\ ~Received(s)
    /\ \E n \in Readable(s) :
        /\ buf' = [buf EXCEPT ![s] = @ \o SubSeq(wire[s], 1, n)]
        /\ fds' = [fds EXCEPT ![s] = @ \o Arrived(wire[s][1])]
        /\ wire' = [wire EXCEPT ![s] = SubSeq(@, n + 1, Len(@))]
    /\ UNCHANGED <<snd, ended, holder, out, kind, at, relay, server, alive>>

(* The header says whether there is a descriptor, which is then the first  *)
(* of those that have come.                                                *)
Marked(s) == Attachment(s, buf[s][1].msg) # None
Faulty(s) == Received(s) /\ Marked(s) /\ fds[s] = <<>>
Message(s) ==
    [msg |-> buf[s][1].msg, fd |-> IF Marked(s) THEN Head(fds[s]) ELSE None]
(* Mutant: the descriptor stays in the list. *)
ReturnMutant(s) ==
    /\ Received(s) /\ ~Cut(s) /\ ~Faulty(s)
    /\ out' = [out EXCEPT ![s] = Append(@, Message(s))]
    /\ buf' = [buf EXCEPT ![s] = <<>>]
    /\ UNCHANGED <<wire, fds, kind, alive>>
Return(s) ==
    /\ Received(s) /\ ~Cut(s) /\ ~Faulty(s)
    /\ out' = [out EXCEPT ![s] = Append(@, Message(s))]
    /\ fds' = [fds EXCEPT ![s] = IF Marked(s) THEN Tail(@) ELSE @]
    /\ buf' = [buf EXCEPT ![s] = <<>>]
    /\ UNCHANGED <<wire, kind, alive>>
Eof(s) == ~Cut(s) /\ ~Received(s) /\ wire[s] = <<>> /\ ended[s]
-----------------------------------------------------------------------------
(* The client. *)

(* Conn.Send: a return pipe is a new pair of sockets; for a Ret that is    *)
(* no socket there is one, too, and a goroutine that copies.               *)
Send(m) ==
    /\ at[m] = "out" /\ snd["main"] = NoSend
    /\ \E k \in {"plain", "pipe", "other"} : kind' = [kind EXCEPT ![m] = k]
    /\ at' = [at EXCEPT ![m] = "sending"]
    /\ snd' = [snd EXCEPT !["main"].msg = m]
    /\ UNCHANGED <<conn, ended, holder, relay, server, alive>>

(* The end that was not sent is closed when it is collected. *)
SendReturns ==
    LET m == snd["main"].msg IN
    /\ Sent("main") \/ SendFails("main")
    /\ at' = [at EXCEPT ![m] = IF Sent("main") /\ kind[m] # "plain" THEN "await" ELSE "done"]
    /\ snd' = [snd EXCEPT !["main"] = NoSend]
    /\ ended' = IF SendFails("main") THEN [ended EXCEPT ![m] = TRUE] ELSE ended
    /\ UNCHANGED <<conn, holder, kind, relay, server, alive>>

(* One Receive, by the client itself or by the goroutine, which hands it   *)
(* on and at the end of the stream closes Ret.                             *)
Answered(m) ==
    /\ at[m] \in {"await", "done"} /\ Return(m)
    /\ at' = [at EXCEPT ![m] = IF @ = "await" THEN "answered" ELSE @]
    /\ UNCHANGED <<snd, ended, holder, relay, server>>
NoAnswer(m) ==
    /\ at[m] = "await" /\ Eof(m)
    /\ at' = [at EXCEPT ![m] = "eof"]
    /\ UNCHANGED <<conn, snd, ended, holder, kind, relay, server, alive>>

(* Conn.Close, when nothing is being sent. *)
Close ==
    /\ snd["main"] = NoSend /\ ~ended["main"]
    /\ ended' = [ended EXCEPT !["main"] = TRUE]
    /\ UNCHANGED <<conn, snd, holder, kind, at, relay, server, alive>>
-----------------------------------------------------------------------------
(* The relay: Copy from one Conn to another. *)

(* The Ret it receives is a Conn: its socket itself is sent on.            *)
RelayReceives ==
    /\ relay = None /\ snd["next"] = NoSend /\ Return("main")
    /\ relay' = Message("main").msg
    /\ UNCHANGED <<snd, ended, holder, at, server>>
RelaySends ==
    /\ relay # None /\ snd["next"] = NoSend /\ "relay" \in alive
    /\ snd' = [snd EXCEPT !["next"].msg = relay]
    /\ UNCHANGED <<conn, ended, holder, kind, at, relay, server, alive>>
RelaySent ==
    /\ Sent("next")
    /\ snd' = [snd EXCEPT !["next"] = NoSend] /\ relay' = None
    /\ UNCHANGED <<conn, ended, holder, kind, at, server, alive>>

(* Whatever ends have been sent to a process that exits are closed.        *)
Exit(p, s) ==
    /\ p \in alive /\ alive' = alive \ {p}
    /\ ended' = [t \in Streams |->
                    \/ ended[t] \/ (p = "relay" /\ t = "next")
                    \/ t \in Msg /\ holder[t] = s]
    /\ UNCHANGED <<conn, snd, holder, kind, at, relay, server>>

(* When Copy has failed or come to the end, or at any time. *)
RelayExits == Exit("relay", "main")
RelayEnds == Eof("main") \/ SendFails("next")
-----------------------------------------------------------------------------
(* The server. *)

(* Mutant: the socket that came along is left open. *)
ServerReceivesMutant ==
    /\ server = None /\ Return("next")
    /\ \E ret \in BOOLEAN : server' = IF ret THEN Message("next").fd ELSE None
    /\ UNCHANGED <<snd, ended, holder, at, relay>>
(* Without Ret the socket that came along is shut down for writing. *)
ServerReceives ==
    /\ server = None /\ Return("next")
    /\ \E ret \in BOOLEAN :
        LET m == Message("next").fd IN
        /\ server' = IF ret THEN m ELSE None
        /\ ended' = IF ~ret /\ m # None THEN [ended EXCEPT ![m] = TRUE] ELSE ended
    /\ UNCHANGED <<snd, holder, at, relay>>
Answers ==
    /\ server # None /\ "server" \in alive /\ snd[server] = NoSend /\ ~ended[server]
    /\ snd' = [snd EXCEPT ![server].msg = server]
    /\ UNCHANGED <<conn, ended, holder, kind, at, relay, server, alive>>
CloseRet ==
    /\ server # None /\ "server" \in alive
    /\ snd[server] = NoSend \/ Sent(server)
    /\ ended' = [ended EXCEPT ![server] = TRUE] /\ server' = None
    /\ UNCHANGED <<conn, snd, holder, kind, at, relay, alive>>
ServerExits == Exit("server", "next")
ServerEnds == Eof("next")
-----------------------------------------------------------------------------
ClientStep ==
    \/ SendReturns \/ Write("main")
    \/ \E m \in Msg : Read(m) \/ Answered(m) \/ NoAnswer(m)
RelayStep ==
    \/ Read("main") \/ Write("next") \/ RelayReceives \/ RelaySends \/ RelaySent
    \/ RelayEnds /\ RelayExits
ServerStep ==
    \/ Read("next") \/ ServerReceives \/ CloseRet \/ \E m \in Msg : Write(m)
    \/ ServerEnds /\ ServerExits
Next ==
    \/ \E m \in Msg : Send(m)
    \/ ClientStep \/ Close
    \/ RelayStep \/ RelayExits
    \/ ServerStep \/ Answers \/ ServerExits

Fairness == WF_vars(ClientStep) /\ WF_vars(RelayStep) /\ WF_vars(ServerStep)
Spec == Init /\ [][Next]_vars /\ Fairness
-----------------------------------------------------------------------------
(* Messages do not run into each other, and descriptors stay with the      *)
(* message they were sent with: a descriptor that waits is that of the     *)
(* message being read.                                                     *)
Framed ==
    \A s \in Streams :
        /\ ~Faulty(s)
        /\ \A i \in DOMAIN buf[s] : buf[s][i].msg = buf[s][1].msg /\ buf[s][i].pos = i
        /\ \A i \in DOMAIN fds[s] : buf[s] # <<>> /\ fds[s][i] = buf[s][1].msg
        /\ \A i \in DOMAIN out[s] : out[s][i].fd = Attachment(s, out[s][i].msg)

(* The relay changes neither the messages nor their order. *)
PassedOn == IsPrefix(out["next"], out["main"])

(* An answer that was sent whole is not lost, whoever exits: its client is *)
(* never told that there is none.                                          *)
AnswerArrives ==
    \A m \in Msg : at[m] = "eof" =>
        /\ snd[m].pos < Size(m) \/ snd[m].msg = None
        /\ out[m] = <<>>

(* Conn keeps what it promises on the way there and back. *)
ConnSafe == Framed /\ PassedOn /\ AnswerArrives

(* Whoever waits for an answer gets it or is told that there is none, even *)
(* when a process exits that had the other end, or the message with it.    *)
WaitsEnd == \A m \in Msg : (at[m] = "await") ~> (at[m] \in {"answered", "eof"})
=============================================================================
