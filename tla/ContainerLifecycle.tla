-------------------------- MODULE ContainerLifecycle --------------------------
(***************************************************************************)
(* The life of one container of the docker daemon: container.go, state.go  *)
(* and runtime.go, called by the handlers of server.go.                    *)
(*                                                                         *)
(* Several goroutines work on a Container: one for each API request        *)
(* (start, stop, kill, restart, wait, rm), restore() when the daemon       *)
(* starts, and the monitor that each successful Start leaves behind to     *)
(* wait for the process.  State.Lock keeps the Starts, Stops and Kills     *)
(* apart; the monitor, Wait and Destroy take no lock.  waitLock is a       *)
(* channel, made by Start, that nobody sends on: the monitor closes it,    *)
(* and the goroutines in Wait wake up.                                     *)
(*                                                                         *)
(* A channel is known by who still waits on it: those in pc "blocked" wait *)
(* on the container's current waitLock, those "stranded" on one that Start *)
(* has replaced while it was open, which nobody can close any more.        *)
(*                                                                         *)
(* Most of what can go wrong here is a Start, or a crash, that falls into  *)
(* a short stretch of another goroutine.  Windows names the stretches that *)
(* may be hit, so that a run says which ones a property depends on.        *)
(***************************************************************************)
EXTENDS Integers

CONSTANTS
    Client,         \* the API requests in progress at a time
    Run,            \* names for the processes the container is started as
    Codes,          \* the exit statuses of its program
    AutoRestart,    \* the daemon's -r flag
    Faults,         \* "start": a Start fails; "info": lxc-info fails;
                    \* "save": config.json cannot be written; "umount":
                    \* umount fails; "torn": a crash leaves config.json
                    \* half written
    Windows,        \* see Undisturbed, Unread, Watched, Undivided and
                    \* Registered
    NoRun,          \* no process
    Free            \* nobody holds the State lock

ASSUME RunAssumption == NoRun \notin Run
ASSUME FreeAssumption == Free \notin Client \cup {"restore"}
ASSUME ClientAssumption == "restore" \notin Client
ASSUME CodesAssumption == Codes \subseteq Nat
ASSUME AutoRestartAssumption == AutoRestart \in BOOLEAN
ASSUME FaultsAssumption ==
    Faults \subseteq {"start", "info", "save", "umount", "torn"}
ASSUME WindowsAssumption ==
    Windows \subseteq {"exit", "save", "wake", "remove", "relock", "launch",
                 "register"}

VARIABLES
    (* The daemon. *)
    daemon,     \* "down", in restore(), or serving the API
    listed,     \* is the container in runtime.containers?
    call,       \* call[c]: the request c, and where it is
    lock,       \* who holds State.Lock
    (* The Container. *)
    state,      \* State.Running and State.ExitCode
    cmd,        \* the process container.cmd started, if any
    waitLock,   \* is the current waitLock closed?
    mon,        \* mon[r]: where the monitor that waits for r is
    snap,       \* snap[r]: what it is about to write
    (* The host. *)
    proc,       \* the process that lxc runs under the container's name
    mounted,    \* is the root filesystem mounted?
    file,       \* config.json: "good", "bad" when it cannot be read, and
                \* "gone" with the container's directory
    saved,      \* the State in it
    (* History. *)
    seen        \* seen[c]: the exit codes with which the container has been
                \* stopped at some time during the Wait of c

procVars == <<proc, mounted>>
diskVars == <<file, saved>>
contVars == <<state, cmd, waitLock>>
monVars == <<mon, snap>>
vars == <<daemon, listed, call, lock, state, cmd, waitLock, mon, snap, proc,
          mounted, file, saved, seen>>

restore == "restore"    \* the goroutine of restore()
Caller == Client \cup {restore}
Exit == Codes \cup {0, -1, -127}
State == [running : {"yes", "no"}, exit : Exit]

Idle == [op |-> "none", pc |-> "idle"]
Ops == {"start", "stop", "kill", "restart", "wait", "destroy"}
Pcs ==
    { "start",      \* Start, before the lock ...
      "mount",      \* ... past its check of Running, about to mount
      "launch",     \* ... about to run lxc-start
      "running",    \* ... it runs: about to call setRunning
      "relock",     \* ... about to make the new waitLock
      "save",       \* ... about to save, and to leave a monitor behind
      "register",   \* Register, past its Start
      "stop",       \* Stop or Kill, before the lock ...
      "term",       \* ... SIGTERM sent, in WaitTimeout(seconds)
      "kill",       \* ... in kill()
      "killed",     \* ... SIGKILL sent, in WaitTimeout(10s)
      "final",      \* ... lxc-start killed, in Wait
      "unmount",    \* Destroy, past its Stop
      "deregister", \* ... about to forget the container
      "remove",     \* ... and to remove its directory
      "blocked",    \* Wait, on the container's waitLock
      "stranded",   \* Wait, on an open channel that has been replaced
      "woken" }     \* Wait, about to read the exit code
Calls == {Idle} \cup [op : Ops, pc : Pcs]

MonitorPcs ==
    { "none",
      "wait",       \* waits for the process
      "stop",       \* it has exited and is cleaned up: about to setStopped
      "close",      \* about to close waitLock
      "save",       \* about to save: ToDisk's Marshal ...
      "write" }     \* ... and its WriteFile

TypeOK ==
    /\ daemon \in {"down", "restoring", "serving"}
    /\ listed \in {"yes", "no"}
    /\ call \in [Caller -> Calls]
    /\ lock \in Caller \cup {Free}
    /\ state \in State
    /\ cmd \in Run \cup {NoRun}
    /\ waitLock \in {"open", "closed"}
    /\ mon \in [Run -> MonitorPcs]
    /\ snap \in [Run -> State]
    /\ proc \in Run \cup {NoRun}
    /\ mounted \in {"yes", "no"}
    /\ file \in {"good", "bad", "gone"}
    /\ saved \in State
    /\ seen \in [Caller -> SUBSET Exit]

-----------------------------------------------------------------------------
(* A container that docker create has just made and registered. *)
Created == [running |-> "no", exit |-> 0]
NoSnap == [r \in Run |-> Created]

Init ==
    /\ daemon = "serving"
    /\ listed = "yes"
    /\ call = [c \in Caller |-> Idle]
    /\ lock = Free
    /\ state = Created
    /\ cmd = NoRun
    /\ waitLock = "closed"
    /\ mon = [r \in Run |-> "none"]
    /\ snap = NoSnap
    /\ proc = NoRun
    /\ mounted = "no"
    /\ file = "good"
    /\ saved = Created
    /\ seen = [c \in Caller |-> {}]

At(c, pc) == call[c].pc = pc
Becomes(c, pc) == call' = [call EXCEPT ![c].pc = pc]
Return(c) == call' = [call EXCEPT ![c] = Idle]
Unlock == lock' = Free

(* No goroutine is in a stretch that a Start must not fall into, unless    *)
(* Windows has it:                                                         *)
(*   "exit"    from setStopped to close(waitLock) in monitor               *)
(*   "save"    from close(waitLock) to the end of ToDisk in monitor        *)
(*   "remove"  from Stop to RemoveAll in Destroy                           *)
Undisturbed ==
    /\ "exit" \in Windows \/ \A r \in Run : mon[r] # "close"
    /\ "save" \in Windows \/ \A r \in Run : mon[r] \notin {"save", "write"}
    /\ \/ "remove" \in Windows
       \/ \A c \in Caller : call[c].pc \notin {"unmount", "deregister", "remove"}

(* Nor does the setRunning of a Start fall between the wake-up and the     *)
(* read of ExitCode in Wait, unless Windows has "wake".                    *)
Unread == "wake" \in Windows \/ \A c \in Caller : ~ At(c, "woken")

(* A Wait must not fall between setRunning and the new waitLock in Start   *)
(* unless Windows has "relock".                                            *)
Watched == "relock" \in Windows \/ \A c \in Caller : ~ At(c, "relock")

(* The daemon must not die between lxc-start and ToDisk in Start unless    *)
(* Windows has "launch".                                                   *)
Launching(c) == call[c].pc \in {"running", "relock", "save"}
Undivided == "launch" \in Windows \/ \A c \in Caller : ~ Launching(c)

(* A process that restore() has started again is not over before Register  *)
(* has read Running, unless Windows has "register".                        *)
Registered == "register" \in Windows \/ ~ At(restore, "register")

-----------------------------------------------------------------------------
(* ToDisk, and its WriteFile.  Without the directory it fails. *)

Writes(s) ==
    \/ /\ file # "gone"
       /\ file' = "good" /\ saved' = s
    \/ /\ file = "gone" \/ "save" \in Faults
       /\ UNCHANGED diskVars

-----------------------------------------------------------------------------
(* Start, which Restart and restore() call as well. *)

(* The mutant does not look. *)
MayStartMutant == TRUE
MayStart == state.running = "no"

(* The State lock is free, and Running says what to do. *)
StartLocked(c) ==
    /\ At(c, "start") /\ lock = Free
    /\ Undisturbed
    /\ \/ /\ state.running = "yes"      \* "already running"
          /\ Return(c)
          /\ UNCHANGED lock
       \/ /\ MayStart
          /\ Becomes(c, "mount")
          /\ lock' = c
    /\ UNCHANGED <<daemon, listed, contVars, monVars, procVars, diskVars>>

(* EnsureMounted. *)
Mount(c) ==
    /\ At(c, "mount")
    /\ mounted = "yes" \/ file # "gone"
    /\ mounted' = "yes"
    /\ Becomes(c, "launch")
    /\ UNCHANGED <<daemon, listed, lock, contVars, monVars, proc, diskVars>>

(* Any of the early returns before lxc-start runs: the filesystem, the     *)
(* network, the lxc configuration, the logs.  What is mounted stays so.    *)
(* Two of them return nil, and Register takes that for a success.          *)
StartReturns(c) == IF c = restore THEN Becomes(c, "register") ELSE Return(c)

StartFails(c) ==
    /\ call[c].pc \in {"mount", "launch"}
    /\ "start" \in Faults \/ file = "gone"
    /\ Return(c) \/ (At(c, "launch") /\ StartReturns(c))
    /\ Unlock
    /\ UNCHANGED <<daemon, listed, contVars, monVars, procVars, diskVars>>

(* lxc-start runs.  It gives up at once when lxc still runs a container of *)
(* that name.                                                              *)
Launch(c) ==
    /\ At(c, "launch") /\ file # "gone"
    /\ \E r \in Run :
          /\ mon[r] = "none" /\ r # proc
          /\ cmd' = r
          /\ proc' = IF proc = NoRun THEN r ELSE proc
    /\ Becomes(c, "running")
    /\ UNCHANGED <<daemon, listed, lock, state, waitLock, monVars, mounted, diskVars>>

SetRunning(c) ==
    /\ At(c, "running")
    /\ Unread
    /\ state' = [running |-> "yes", exit |-> 0]
    /\ Becomes(c, "relock")
    /\ UNCHANGED <<daemon, listed, lock, cmd, waitLock, monVars, procVars, diskVars>>

(* The new waitLock: whoever is blocked on the one before stays there. *)
Stranded(calls) ==
    [d \in Caller |-> IF calls[d].pc = "blocked"
                      THEN [calls[d] EXCEPT !.pc = "stranded"] ELSE calls[d]]

(* The mutant keeps the old one. *)
MakeMutant == waitLock' = waitLock
Make == waitLock' = "open"

NewWaitLock(c) ==
    /\ At(c, "relock")
    /\ Make
    /\ call' = Stranded([call EXCEPT ![c].pc = "save"])
    /\ UNCHANGED <<daemon, listed, lock, state, cmd, monVars, procVars, diskVars>>

(* The mutant saves what docker create saved. *)
SaveMutant == Writes(Created)
Save == Writes(state)

SaveAndMonitor(c) ==
    /\ At(c, "save")
    /\ Save
    /\ mon' = [mon EXCEPT ![cmd] = "wait"]
    /\ StartReturns(c)
    /\ Unlock
    /\ UNCHANGED <<daemon, listed, contVars, snap, procVars>>

Start(c) ==
    \/ StartLocked(c) \/ Mount(c) \/ StartFails(c) \/ Launch(c)
    \/ SetRunning(c) \/ NewWaitLock(c) \/ SaveAndMonitor(c)

-----------------------------------------------------------------------------
(* Stop and Kill; Restart and Destroy begin with a Stop. *)

(* The State lock is released, and the call goes on after its Stop. *)
AfterStop(c) ==
    CASE call[c].op = "restart" -> Becomes(c, "start")
      [] call[c].op = "destroy" -> Becomes(c, "unmount")
      [] OTHER -> Return(c)

(* SIGTERM, by lxc-kill, which may fail; Kill goes for SIGKILL at once. *)
StopLocked(c) ==
    /\ At(c, "stop") /\ lock = Free
    /\ \/ /\ state.running = "no"
          /\ AfterStop(c)
          /\ UNCHANGED lock
       \/ /\ state.running = "yes"
          /\ \/ call[c].op # "kill" /\ Becomes(c, "term")
             \/ Becomes(c, "kill")
          /\ lock' = c
    /\ UNCHANGED <<daemon, listed, contVars, monVars, procVars, diskVars>>

(* WaitTimeout or Wait returns because the waitLock is closed. *)
Released(c) ==
    /\ call[c].pc \in {"term", "killed", "final"}
    /\ waitLock = "closed"
    /\ AfterStop(c)
    /\ Unlock
    /\ UNCHANGED <<daemon, listed, contVars, monVars, procVars, diskVars>>

(* The mutant leaves it at that. *)
TermTimeoutMutant(c) ==
    /\ At(c, "term")
    /\ AfterStop(c)
    /\ Unlock
    /\ UNCHANGED <<daemon, listed, contVars, monVars, procVars, diskVars>>

TermTimeout(c) ==
    /\ At(c, "term")
    /\ Becomes(c, "kill")
    /\ UNCHANGED <<daemon, listed, lock, contVars, monVars, procVars, diskVars>>

(* kill(): lxc-kill 9 may fail, or the process may take its time. *)
SendKill(c) ==
    /\ At(c, "kill")
    /\ \/ /\ state.running = "no"
          /\ AfterStop(c)
          /\ Unlock
          /\ UNCHANGED proc
       \/ /\ state.running = "yes"
          /\ proc' \in {proc, NoRun}
          /\ Becomes(c, "killed")
          /\ UNCHANGED lock
    /\ UNCHANGED <<daemon, listed, contVars, monVars, mounted, diskVars>>

(* The mutant does not ask whether there is a cmd. *)
HasCmdMutant == TRUE
HasCmd == cmd # NoRun

(* Ten seconds later lxc-start itself is killed.  That is an error for a   *)
(* ghost, which has no cmd, and for a process that is over already.        *)
KillTimeout(c) ==
    /\ At(c, "killed")
    /\ \/ /\ HasCmd
          /\ proc' = IF proc = cmd THEN NoRun ELSE proc
          /\ Becomes(c, "final")
          /\ UNCHANGED lock
       \/ /\ ~ HasCmd \/ proc # cmd
          /\ Return(c)
          /\ Unlock
          /\ UNCHANGED proc
    /\ UNCHANGED <<daemon, listed, contVars, monVars, mounted, diskVars>>

Stop(c) ==
    StopLocked(c) \/ Released(c) \/ TermTimeout(c) \/ SendKill(c) \/ KillTimeout(c)

-----------------------------------------------------------------------------
(* The rest of Destroy, without a lock. *)

Unmount(c) ==
    /\ At(c, "unmount")
    /\ \/ /\ mounted' = "no"
          /\ Becomes(c, "deregister")
       \/ /\ "umount" \in Faults /\ mounted = "yes"
          /\ mounted' = mounted
          /\ Return(c)
    /\ UNCHANGED <<daemon, listed, lock, contVars, monVars, proc, diskVars>>

Deregister(c) ==
    /\ At(c, "deregister")
    /\ listed' = "no"
    /\ Becomes(c, "remove")
    /\ UNCHANGED <<daemon, lock, contVars, monVars, procVars, diskVars>>

(* RemoveAll empties the directory, and fails to remove a mount point. *)
Remove(c) ==
    /\ At(c, "remove")
    /\ file' = IF mounted = "yes" THEN "bad" ELSE "gone"
    /\ Return(c)
    /\ UNCHANGED <<daemon, listed, lock, contVars, monVars, procVars, saved>>

Destroy(c) == Unmount(c) \/ Deregister(c) \/ Remove(c)

(* Wait has been woken up and returns the exit code it reads now. *)
WaitReturns(c) ==
    /\ At(c, "woken")
    /\ Return(c)
    /\ UNCHANGED <<daemon, listed, lock, contVars, monVars, procVars, diskVars>>

-----------------------------------------------------------------------------
(* A request finds the container: server.go's handlers, up to the first    *)
(* lock or wait.                                                           *)

(* The mutant destroys without a Stop. *)
FirstPcMutant(op) ==
    CASE op = "start" -> "start"
      [] op = "wait" -> IF waitLock = "closed" THEN "woken" ELSE "blocked"
      [] op = "destroy" -> "unmount"
      [] OTHER -> "stop"

FirstPc(op) ==
    CASE op = "start" -> "start"
      [] op = "wait" -> IF waitLock = "closed" THEN "woken" ELSE "blocked"
      [] OTHER -> "stop"

Request(c, op) ==
    /\ daemon = "serving" /\ listed = "yes"
    /\ At(c, "idle")
    /\ op = "destroy" => state.running = "no"   \* else "Impossible to remove"
    /\ op = "wait" => Watched
    /\ call' = [call EXCEPT ![c] = [op |-> op, pc |-> FirstPc(op)]]
    /\ UNCHANGED <<daemon, listed, lock, contVars, monVars, procVars, diskVars>>

-----------------------------------------------------------------------------
(* The daemon dies, and with it its memory.  A write that was under way    *)
(* may have truncated config.json.                                         *)

Dies ==
    /\ daemon' = "down"
    /\ listed' = "no"
    /\ call' = [c \in Caller |-> Idle]
    /\ lock' = Free
    /\ state' = Created
    /\ cmd' = NoRun
    /\ waitLock' = "open"
    /\ mon' = [r \in Run |-> "none"]
    /\ snap' = NoSnap
    /\ saved' = saved
    /\ \/ file' = file
       \/ /\ "torn" \in Faults /\ file = "good"
          /\ \/ \E r \in Run : mon[r] = "write"
             \/ \E c \in Caller : At(c, "save")
          /\ file' = "bad"

Crash ==
    /\ daemon # "down"
    /\ Undivided
    /\ Dies
    /\ UNCHANGED procVars

(* The host goes down: no process and no mount is left. *)
Reboot ==
    /\ daemon # "down"
    /\ Undivided
    /\ Dies
    /\ proc' = NoRun /\ mounted' = "no"

-----------------------------------------------------------------------------
(* The monitor of the process r. *)

(* The order of its last steps.  The mutant closes waitLock first.         *)
ThenMutant(pc) ==
    CASE pc = "wait" -> "close" [] pc = "close" -> "stop" [] pc = "stop" -> "save"

Then(pc) ==
    CASE pc = "wait" -> "stop" [] pc = "stop" -> "close" [] pc = "close" -> "save"

Proceeds(r) == mon' = [mon EXCEPT ![r] = Then(mon[r])]

(* cmd.Wait or, for a ghost, waitLxc returns: r is over, or lxc-info has   *)
(* failed.  The network is released and the filesystem unmounted, or a     *)
(* failure to do so logged.                                                *)
ProcessOver(r) ==
    /\ mon[r] = "wait"
    /\ proc # r \/ (cmd = NoRun /\ "info" \in Faults)
    /\ Proceeds(r)
    /\ mounted' = "no" \/ ("umount" \in Faults /\ mounted' = mounted)
    /\ UNCHANGED <<daemon, listed, call, lock, contVars, snap, proc, diskVars>>

(* The exit code of a ghost is not known. *)
SetStopped(r) ==
    /\ mon[r] = "stop"
    /\ Registered
    /\ \E code \in IF cmd = NoRun THEN {-1} ELSE Codes :
          state' = [running |-> "no", exit |-> code]
    /\ Proceeds(r)
    /\ UNCHANGED <<daemon, listed, call, lock, cmd, waitLock, snap, procVars, diskVars>>

(* close(waitLock) wakes up everybody who is blocked on it; the mutant     *)
(* sends on it, which wakes up one.  Closing a closed channel panics.      *)
WokenMutant(calls) ==
    IF \E d \in Caller : calls[d].pc = "blocked"
    THEN LET d == CHOOSE d \in Caller : calls[d].pc = "blocked"
         IN  [calls EXCEPT ![d].pc = "woken"]
    ELSE calls
Woken(calls) ==
    [d \in Caller |-> IF calls[d].pc = "blocked"
                      THEN [calls[d] EXCEPT !.pc = "woken"] ELSE calls[d]]

CloseWaitLock(r) ==
    /\ mon[r] = "close" /\ waitLock = "open"
    /\ waitLock' = "closed"
    /\ call' = Woken(call)
    /\ Proceeds(r)
    /\ UNCHANGED <<daemon, listed, lock, state, cmd, snap, procVars, diskVars>>

ClosePanics(r) ==
    /\ mon[r] = "close" /\ waitLock = "closed"
    /\ Dies
    /\ UNCHANGED procVars

Marshal(r) ==
    /\ mon[r] = "save"
    /\ snap' = [snap EXCEPT ![r] = state]
    /\ mon' = [mon EXCEPT ![r] = "write"]
    /\ UNCHANGED <<daemon, listed, call, lock, contVars, procVars, diskVars>>

WriteFile(r) ==
    /\ mon[r] = "write"
    /\ Writes(snap[r])
    /\ snap' = [snap EXCEPT ![r] = Created]
    /\ mon' = [mon EXCEPT ![r] = "none"]
    /\ UNCHANGED <<daemon, listed, call, lock, contVars, procVars>>

Monitor(r) ==
    \/ ProcessOver(r) \/ SetStopped(r) \/ CloseWaitLock(r) \/ ClosePanics(r)
    \/ Marshal(r) \/ WriteFile(r)

(* The process exits by itself, or because it has got a SIGTERM. *)
ProcessExits ==
    /\ proc # NoRun
    /\ proc' = NoRun
    /\ UNCHANGED <<daemon, listed, call, lock, contVars, monVars, mounted, diskVars>>

-----------------------------------------------------------------------------
(* The daemon starts: restore() loads the container and registers it.      *)

Load ==
    /\ daemon = "down"
    /\ file = "good"
    /\ listed' = "yes"
    /\ UNCHANGED <<cmd, snap, procVars>>

Settled == daemon' = "serving" /\ UNCHANGED <<call, lock>>

(* The last lines of Register; the mutants leave every channel open, and   *)
(* no ghost a monitor.                                                     *)
WaitLockOfMutant(s) == "open"
WaitLockOf(s) == IF s.running = "no" THEN "closed" ELSE "open"
ReattachMutant == mon' = mon
Reattach == mon' = [mon EXCEPT ![proc] = "wait"]

(* It was not running: its waitLock is closed at once. *)
LoadStopped ==
    /\ Load /\ Settled
    /\ saved.running = "no"
    /\ state' = saved
    /\ waitLock' = WaitLockOf(saved)
    /\ UNCHANGED <<mon, diskVars>>

(* It is a ghost, whose process still runs, and gets a monitor. *)
LoadGhost ==
    /\ Load /\ Settled
    /\ saved.running = "yes" /\ proc # NoRun
    /\ state' = saved
    /\ waitLock' = WaitLockOf(saved)
    /\ Reattach
    /\ UNCHANGED diskVars

(* lxc-info fails and Register returns: registered, but without a monitor. *)
LoadUnknown ==
    /\ Load /\ Settled
    /\ "info" \in Faults
    /\ saved.running = "yes"
    /\ state' = saved
    /\ waitLock' = "open"
    /\ UNCHANGED <<mon, diskVars>>

(* The mutant of the exit code loses its sign. *)
LostExitMutant == 127
LostExit == -127

(* Its process is over.  When ToDisk fails, Register returns early. *)
LoadDead ==
    /\ Load /\ Settled
    /\ saved.running = "yes" /\ proc = NoRun /\ ~ AutoRestart
    /\ state' = [running |-> "no", exit |-> LostExit]
    /\ \/ /\ saved' = state' /\ waitLock' = WaitLockOf(state')
       \/ /\ "save" \in Faults
          /\ saved' = saved /\ waitLock' = "open"
    /\ UNCHANGED <<mon, file>>

(* ... or, with -r, Register starts it again, before the API is served.    *)
(* When that Start fails, Register returns early.                          *)
LoadRestart ==
    /\ Load
    /\ saved.running = "yes" /\ proc = NoRun /\ AutoRestart
    /\ daemon' = "restoring"
    /\ state' = [running |-> "no", exit |-> 0]
    /\ waitLock' = "open"
    /\ lock' = restore
    /\ call' = [call EXCEPT ![restore] = [op |-> "start", pc |-> "mount"]]
    /\ UNCHANGED <<mon, diskVars>>

(* ... and, after the Start, closes the waitLock of a container that is    *)
(* not running, as if it had no monitor.                                   *)
RegisterEnds ==
    /\ At(restore, "register")
    /\ Return(restore)
    /\ waitLock' = IF state.running = "no" THEN "closed" ELSE waitLock
    /\ state.running = "no" => waitLock = "open"
    /\ UNCHANGED <<daemon, listed, lock, state, cmd, monVars, procVars, diskVars>>

RegisterPanics ==
    /\ At(restore, "register")
    /\ state.running = "no" /\ waitLock = "closed"
    /\ Dies
    /\ UNCHANGED procVars

(* There is no config.json that can be read: restore() goes on without. *)
LoadFails ==
    /\ daemon = "down"
    /\ file # "good"
    /\ daemon' = "serving"
    /\ UNCHANGED <<listed, call, lock, contVars, monVars, procVars, diskVars>>

Serve ==
    /\ daemon = "restoring"
    /\ At(restore, "idle")
    /\ daemon' = "serving"
    /\ UNCHANGED <<listed, call, lock, contVars, monVars, procVars, diskVars>>

Restore ==
    \/ LoadStopped \/ LoadGhost \/ LoadUnknown \/ LoadDead \/ LoadRestart
    \/ RegisterEnds \/ RegisterPanics \/ LoadFails \/ Serve

-----------------------------------------------------------------------------
(* Each step shows the container to the Waits in progress. *)
Waiting(c) == call[c].op = "wait"

Observe ==
    seen' = [c \in Caller |->
               IF Waiting(c)' THEN (IF Waiting(c) THEN seen[c] ELSE {})
                                   \cup {s.exit : s \in {t \in {state, state'} : t.running = "no"}}
                              ELSE {}]

CallerStep(c) == (Start(c) \/ Stop(c) \/ Destroy(c) \/ WaitReturns(c)) /\ Observe
MonitorStep(r) == Monitor(r) /\ Observe
RestoreStep == Restore /\ Observe
RequestStep == (\E c \in Client, op \in Ops : Request(c, op)) /\ Observe
HostStep == (ProcessExits \/ Crash \/ Reboot) /\ Observe

Next ==
    \/ RequestStep
    \/ \E c \in Caller : CallerStep(c)
    \/ \E r \in Run : MonitorStep(r)
    \/ RestoreStep
    \/ HostStep

Spec == Init /\ [][Next]_vars

(* Every goroutine runs on: its system calls end, and so do the timeouts.  *)
(* A process need not exit, and no request need come.                      *)
Fairness ==
    /\ \A c \in Caller : WF_vars(CallerStep(c))
    /\ \A r \in Run : WF_vars(MonitorStep(r))
    /\ WF_vars(RestoreStep)

FairSpec == Spec /\ Fairness

-----------------------------------------------------------------------------
(* Properties.  Each says which Windows and Faults break it; the README    *)
(* has the table.                                                          *)

(* A container that counts as running is watched by one monitor, from      *)
(* which alone it will learn that its process is over; a stopped one is    *)
(* watched by none.  (Start checks Running under the lock; setStopped is   *)
(* the last thing a monitor does before it lets another Start in.)         *)
(* Depends on: no fault "info".                                            *)
Watchers == {r \in Run : mon[r] \in {"wait", "stop"}}
Starting == \E c \in Caller : Launching(c)
OneMonitor ==
    /\ \A q, r \in Watchers : q = r
    /\ Watchers # {} => state.running = "yes" /\ ~ Starting
    /\ daemon # "down" /\ state.running = "yes" /\ ~ Starting => Watchers # {}

(* The daemon knows the process that lxc runs for it: the container counts *)
(* as running and the monitor waits for that very process, across crashes  *)
(* and restarts (Start, Register, monitor).                                *)
(* Depends on: no faults "info" and "save"; windows "exit", "save",        *)
(* "launch" and "remove".                                                  *)
AliveIsWatched ==
    daemon # "down" /\ proc # NoRun /\ ~ Starting =>
        state.running = "yes" /\ mon[proc] = "wait"

(* config.json never says of a running container that it is stopped, or    *)
(* nothing at all, so that a restart of the daemon finds it again (Start's *)
(* ToDisk, the monitor's ToDisk after the next Start).                     *)
(* Depends on: as AliveIsWatched.                                          *)
AliveIsOnDisk ==
    proc # NoRun /\ ~ Starting => file = "good" /\ saved.running = "yes"

(* A container whose process runs is in the list, mounted, and has its     *)
(* directory: docker rm never takes a running container away (the check of *)
(* ContainerDestroy, the Stop in Destroy, and the order of its steps).     *)
(* Depends on: as AliveIsWatched, for all but "remove" make the daemon     *)
(* take a running container for a stopped one.                             *)
NeverRemovedRunning ==
    daemon # "down" /\ proc # NoRun =>
        listed = "yes" /\ mounted = "yes" /\ file # "gone"

(* Nothing runs that the daemon, or the next one, knows nothing of, or     *)
(* that has lost what it runs on.                                          *)
AliveIsKnown == AliveIsWatched /\ AliveIsOnDisk /\ NeverRemovedRunning

(* When no goroutine is about to change it, the waitLock of a stopped      *)
(* container is closed, so that a Wait returns at once, and that of a      *)
(* running one is open, so that it blocks: what Register says of it, and   *)
(* Start.  Depends on: window "exit"; no faults "start", "save" with -r.   *)
WaitLockFollows ==
    listed = "yes" /\ ~ Starting /\ At(restore, "idle")
    /\ (\A r \in Run : mon[r] # "close") =>
        (waitLock = "closed" <=> state.running = "no")

(* Nobody closes a channel that is closed already, which would bring the   *)
(* daemon down (the close of a monitor against Start's new waitLock, or    *)
(* against the close in Register, when Start has left a monitor already).  *)
(* Depends on: window "exit"; with -r, window "register".                  *)
NoPanic ==
    /\ \A r \in Run : mon[r] = "close" => waitLock = "open"
    /\ At(restore, "register") /\ state.running = "no" => waitLock = "open"

(* waitLock is open exactly while the container runs, and closed once. *)
WaitLockSound == WaitLockFollows /\ NoPanic

(* A Wait that returns has seen the container stopped, and returns an exit *)
(* code it has stopped with: "Wait blocks until the container stops        *)
(* running, then returns its exit code."                                   *)
(* Depends on: windows "exit", "wake" and "relock".                        *)
WaitReturnsItsExitCode ==
    [][\A c \in Client : WaitReturns(c) => state.exit \in seen[c]]_vars

(* A Stop or Kill that succeeds leaves a stopped container, with no        *)
(* process behind; Destroy and Restart go on from there (Stop waits with   *)
(* the lock held, for a channel that only a monitor closes).               *)
(* Depends on: window "exit"; no fault "info"; "launch" and "save" lose    *)
(* track of the process, and so does the fault "save".                     *)
StopSucceeds(c) ==
    /\ call[c].pc \in {"stop", "term", "kill", "killed", "final"}
    /\ AfterStop(c)
    /\ ~ (At(c, "killed") /\ waitLock = "open")     \* kill's error
StopMeansStopped ==
    [][\A c \in Client : daemon' # "down" /\ StopSucceeds(c) =>
          state'.running = "no" /\ proc' = NoRun]_vars

(* Whoever holds the State lock gives it back, though Stop and Kill hold   *)
(* it while they wait for the monitor, and a ghost has no cmd to kill.     *)
LockReleased == \A c \in Caller : lock = c ~> lock # c

(* A Wait on a container that has stopped returns, even if it is started   *)
(* again at once (close(waitLock) against Start's new waitLock).           *)
(* Depends on: window "exit"; no faults "start", "save" with -r.           *)
WaitersWoken ==
    \A c \in Client : (Waiting(c) /\ state.running = "no") ~> ~ Waiting(c)

(* A container does not stay running when its process is over.             *)
(* Depends on: no fault "info".                                            *)
ExitNoticed ==
    (state.running = "yes" /\ ~ Starting /\ proc = NoRun) ~>
        (state.running = "no" \/ daemon = "down")

(* No request keeps the lock, no exit goes unnoticed.                      *)
RequestsAnswered == LockReleased /\ ExitNoticed
=============================================================================
