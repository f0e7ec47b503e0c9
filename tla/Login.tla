------------------------------- MODULE Login -------------------------------
(***************************************************************************)
(* docker login, and the push or pull that asks for it (commands.go): the  *)
(* credentials of each registry server are in one file, which every        *)
(* command reads at its beginning and a login writes as a whole at its end *)
(* (auth.go LoadConfig, SaveConfig).  The daemon tries them on the server  *)
(* (api.go postAuth, auth.go Login).  Several commands of a user may run   *)
(* at the same time, and accounts change on the servers.                   *)
(***************************************************************************)
EXTENDS Naturals, FiniteSets

CONSTANTS
    Cmd,        \* commands that run
    Server,     \* registry servers
    Index,      \* the server whose entry CmdLogin takes the user name from
    Password,   \* what is typed; one user name
    Colon,      \* the passwords with a colon in them
    MaxCmds,    \* bound: commands begun
    Blank,      \* the credentials of an entry that could not be decoded
    None

VARIABLES
    cfgfile,    \* cfgfile[s]: the file's password for s, or None
    account,    \* account[s]: the user's password on s, or None
    inactive,   \* servers whose account waits for its confirmation
    taken,      \* taken[s]: all the passwords s has ever accepted
    cmd,        \* cmd[p]: where a command is
    cmds,       \* commands begun so far
    spoilt      \* a password with a colon has been saved

vars == <<cfgfile, account, inactive, taken, cmd, cmds, spoilt>>

Idle == [pc |-> "idle"]
Saved == Password \cup {Blank, None}

TypeOK ==
    /\ cfgfile \in [Server -> Saved] /\ account \in [Server -> Password \cup {None}]
    /\ inactive \subseteq Server /\ taken \in [Server -> SUBSET Password]
    /\ cmds \in 0 .. MaxCmds /\ spoilt \in BOOLEAN
    /\ \A p \in Cmd : cmd[p] # Idle =>
          /\ cmd[p].pc \in {"type", "auth", "save", "refused", "push"}
          /\ cmd[p].server \in Server /\ cmd[p].configs \in [Server -> Saved]

Init ==
    /\ cfgfile = [s \in Server |-> None] /\ account \in [Server -> Password \cup {None}]
    /\ taken = [s \in Server |-> {account[s]} \ {None}]
    /\ inactive = {} /\ cmds = 0 /\ spoilt = FALSE
    /\ cmd = [p \in Cmd |-> Idle]

Goto(p, pc) == cmd' = [cmd EXCEPT ![p].pc = pc]
Done(p) == cmd' = [cmd EXCEPT ![p] = Idle]
Servers == <<account, inactive, taken>>
-----------------------------------------------------------------------------
(* LoadConfig decodes entry after entry, in any order.  One that has a     *)
(* colon too many ends it: that one and those not reached yet stay blank.  *)
Bad == {s \in Server : cfgfile[s] \in Colon}
Reached(S) == IF Bad = {} THEN S = Server ELSE S \cap Bad = {}
LoadConfig(c) ==
    \E S \in SUBSET Server :
        /\ Reached(S)
        /\ c = [s \in Server |-> IF s \in S \/ cfgfile[s] = None THEN cfgfile[s] ELSE Blank]

(* A command: docker login for a server, or docker push and docker pull.   *)
(* CmdLogin loads the file again when one of them calls it.                *)
Begin(p) ==
    /\ cmd[p] = Idle /\ cmds < MaxCmds /\ cmds' = cmds + 1
    /\ \E s \in Server, pc \in {"type", "push"}, c \in [Server -> Saved] :
          /\ LoadConfig(c)
          /\ cmd' = [cmd EXCEPT ![p] = [pc |-> pc, server |-> s, configs |-> c, pushes |-> pc = "push",
                                        old |-> cfgfile]]
    /\ UNCHANGED <<cfgfile, Servers, spoilt>>

(* When the index has an entry of the user, its password is taken for      *)
(* every server, whatever was typed.  The password goes into the configs   *)
(* before anybody has tried it.                                            *)
Type(p) ==
    /\ cmd[p].pc = "type"
    /\ \E w \in Password :
          /\ cmd[p].configs[Index] \in Password => w = cmd[p].configs[Index]
          /\ cmd' = [cmd EXCEPT ![p].configs[cmd[p].server] = w, ![p].pc = "auth"]
    /\ UNCHANGED <<cfgfile, Servers, cmds, spoilt>>

(* POST /auth: a user the server does not know is registered; one it knows *)
(* has to have that password.                                              *)
Typed(p) == cmd[p].configs[cmd[p].server]
AfterAuthMutant(ok) == "save"
AfterAuth(ok) == IF ok THEN "save" ELSE "refused"
PostAuth(p) ==
    /\ cmd[p].pc = "auth"
    /\ LET s == cmd[p].server
       IN  IF s \in inactive THEN Done(p) /\ UNCHANGED Servers
           ELSE IF account[s] = None
           THEN /\ account' = [account EXCEPT ![s] = Typed(p)]
                /\ taken' = [taken EXCEPT ![s] = @ \cup {Typed(p)}]
                /\ inactive' \in {inactive, inactive \cup {s}} /\ Goto(p, "save")
           ELSE Goto(p, AfterAuth(account[s] = Typed(p))) /\ UNCHANGED Servers
    /\ UNCHANGED <<cfgfile, cmds, spoilt>>

(* No answer, or one the client does not know: nothing is saved. *)
AuthFails(p) ==
    /\ cmd[p].pc = "auth"
    /\ Done(p)
    /\ UNCHANGED <<cfgfile, Servers, cmds, spoilt>>

(* SaveConfig, after a 401 without the server's entry. *)
WithoutMutant(c, s) == [x \in Server |-> None]
Without(c, s) == [c EXCEPT ![s] = None]
SaveConfig(p) ==
    /\ cmd[p].pc \in {"save", "refused"}
    /\ LET s == cmd[p].server
       IN  IF cmd[p].pc = "save"
           THEN /\ cfgfile' = cmd[p].configs /\ spoilt' = (spoilt \/ Typed(p) \in Colon)
                /\ IF cmd[p].pushes
                   THEN cmd' = [cmd EXCEPT ![p].pc = "push", ![p].pushes = FALSE] ELSE Done(p)
           ELSE /\ cfgfile' = Without(cmd[p].configs, s) /\ Done(p) /\ UNCHANGED spoilt
    /\ UNCHANGED <<Servers, cmds>>

(* The push or pull: what it has for the server is refused, then it asks   *)
(* for a login, once; or it ends, for better or for worse.                 *)
Push(p) ==
    /\ cmd[p].pc = "push"
    /\ \/ Done(p)
       \/ /\ cmd[p].pushes /\ (Typed(p) # account[cmd[p].server] \/ Typed(p) = None)
          /\ \E c \in [Server -> Saved] :
                LoadConfig(c) /\ cmd' = [cmd EXCEPT ![p].pc = "type", ![p].configs = c, ![p].old = cfgfile]
    /\ UNCHANGED <<cfgfile, Servers, cmds, spoilt>>

(* The account is activated, or its password changed, at the server. *)
ServerSide(s) ==
    /\ account[s] # None
    /\ \/ inactive' = inactive \ {s} /\ UNCHANGED <<account, taken>>
       \/ \E w \in Password : /\ account' = [account EXCEPT ![s] = w]
                              /\ taken' = [taken EXCEPT ![s] = @ \cup {w}] /\ UNCHANGED inactive
    /\ UNCHANGED <<cfgfile, cmd, cmds, spoilt>>

Next ==
    \/ \E p \in Cmd : Begin(p) \/ Type(p) \/ PostAuth(p) \/ AuthFails(p) \/ SaveConfig(p) \/ Push(p)
    \/ \E s \in Server : ServerSide(s)

Spec == Init /\ [][Next]_vars
-----------------------------------------------------------------------------
(* The file has no password that its server never took, however logins of  *)
(* several commands overlap, fail, or are refused - until a password with  *)
(* a colon has been saved: then the next save can blank all the others.    *)
FileVerified ==
    \A s \in Server : ~spoilt => cfgfile[s] \in taken[s] \cup {None}

(* A login leaves the entries of other servers as it found them, when it   *)
(* was the only one meanwhile.                                             *)
OthersKept ==
    [][\A p \in Cmd, s \in Server :
          /\ cmd[p].pc \in {"save", "refused"} /\ cmd'[p].pc \notin {"save", "refused"}
          /\ cmd[p].server # s /\ cmd[p].old = cfgfile /\ ~spoilt
          => cfgfile'[s] = cfgfile[s]]_vars
=============================================================================
