----------------------- MODULE ContainerLifecycleProofs -----------------------
(***************************************************************************)
(* Proofs about ContainerLifecycle, for all sets of requests and           *)
(* processes: its type invariant; OneMonitor, from IInv; WaitLockSound,    *)
(* from WInv on top of it; what a process may rely on, AliveIsKnown,       *)
(* NeverRemovedRunning and StopMeansStopped, from AInv on top of both; and *)
(* WaitReturnsItsExitCode, from CInv on top of IInv.                       *)
(***************************************************************************)
EXTENDS ContainerLifecycle, TLAPS

-----------------------------------------------------------------------------
(* How a call moves. *)

LEMMA CallMoves ==
    ASSUME call \in [Caller -> Calls], NEW c \in Caller, ~ At(c, "idle"),
           NEW p \in Pcs, Becomes(c, p)
    PROVE  /\ call' \in [Caller -> Calls]
           /\ call'[c].pc = p /\ call'[c].op = call[c].op
           /\ \A d \in Caller \ {c} : call'[d] = call[d]
<1>1. call[c] \in [op : Ops, pc : Pcs]
  BY DEF Calls, At, Idle
<1>2. [call[c] EXCEPT !.pc = p] \in [op : Ops, pc : Pcs]
  BY <1>1
<1>3. call' = [call EXCEPT ![c] = [call[c] EXCEPT !.pc = p]]
  BY DEF Becomes
<1> QED
  BY <1>1, <1>2, <1>3 DEF Calls

LEMMA CallReturns ==
    ASSUME call \in [Caller -> Calls], NEW c \in Caller, Return(c)
    PROVE  /\ call' \in [Caller -> Calls]
           /\ call'[c] = Idle
           /\ \A d \in Caller \ {c} : call'[d] = call[d]
BY DEF Return, Calls

(* After a Stop a request has returned, or goes on without the lock. *)
LEMMA CallAfterStop ==
    ASSUME call \in [Caller -> Calls], NEW c \in Caller, ~ At(c, "idle"),
           AfterStop(c)
    PROVE  /\ call' \in [Caller -> Calls]
           /\ call'[c].pc \in {"idle", "start", "unmount"}
           /\ \A d \in Caller \ {c} : call'[d] = call[d]
<1>1. Becomes(c, "start") \/ Becomes(c, "unmount") \/ Return(c)
  BY DEF AfterStop
<1>2. {"start", "unmount"} \subseteq Pcs
  BY DEF Pcs
<1> QED
  BY <1>1, <1>2, CallMoves, CallReturns DEF Idle

LEMMA CallAfterStart ==
    ASSUME call \in [Caller -> Calls], NEW c \in Caller, ~ At(c, "idle"),
           StartReturns(c)
    PROVE  /\ call' \in [Caller -> Calls]
           /\ call'[c].pc \in {"idle", "register"}
           /\ \A d \in Caller \ {c} : call'[d] = call[d]
<1>1. Becomes(c, "register") \/ Return(c)
  BY DEF StartReturns
<1>2. "register" \in Pcs
  BY DEF Pcs
<1> QED
  BY <1>1, <1>2, CallMoves, CallReturns DEF Idle

(* Waits are stranded or woken, and nobody else moves. *)
LEMMA CallsStranded ==
    ASSUME NEW f \in [Caller -> Calls]
    PROVE  /\ Stranded(f) \in [Caller -> Calls]
           /\ Woken(f) \in [Caller -> Calls]
           /\ \A d \in Caller :
                /\ f[d].pc # "blocked" => Stranded(f)[d] = f[d] /\ Woken(f)[d] = f[d]
                /\ f[d].pc = "blocked" =>
                     Stranded(f)[d].pc = "stranded" /\ Woken(f)[d].pc = "woken"
<1> SUFFICES ASSUME NEW d \in Caller
             PROVE  /\ Stranded(f)[d] \in Calls /\ Woken(f)[d] \in Calls
                    /\ f[d].pc # "blocked" => Stranded(f)[d] = f[d] /\ Woken(f)[d] = f[d]
                    /\ f[d].pc = "blocked" =>
                         Stranded(f)[d].pc = "stranded" /\ Woken(f)[d].pc = "woken"
  BY DEF Stranded, Woken
<1>1. CASE f[d].pc = "blocked"
  <2>1. f[d] \in [op : Ops, pc : Pcs]
    BY <1>1 DEF Calls, Idle
  <2>2. /\ [f[d] EXCEPT !.pc = "stranded"] \in [op : Ops, pc : Pcs]
        /\ [f[d] EXCEPT !.pc = "woken"] \in [op : Ops, pc : Pcs]
    BY <2>1 DEF Pcs
  <2> QED
    BY <1>1, <2>1, <2>2 DEF Stranded, Woken, Calls
<1>2. CASE f[d].pc # "blocked"
  BY <1>2 DEF Stranded, Woken
<1> QED
  BY <1>1, <1>2

(* They are still the same calls. *)
LEMMA StrandedOps ==
    ASSUME NEW f \in [Caller -> Calls], NEW d \in Caller
    PROVE  Stranded(f)[d].op = f[d].op /\ Woken(f)[d].op = f[d].op
<1>1. f[d] \in {Idle} \cup [op : Ops, pc : Pcs]
  BY DEF Calls
<1>2. /\ [f[d] EXCEPT !.pc = "stranded"].op = f[d].op
      /\ [f[d] EXCEPT !.pc = "woken"].op = f[d].op
  BY <1>1 DEF Idle
<1> QED
  BY <1>2 DEF Stranded, Woken

-----------------------------------------------------------------------------
(* Types.  Memory is all of TypeOK but the history variable. *)

Memory ==
    /\ daemon \in {"down", "restoring", "serving"}
    /\ listed \in {"yes", "no"}
    /\ call \in [Caller -> Calls]
    /\ lock \in Caller \cup {Free}
    /\ state \in State
    /\ cmd \in Run \cup {NoRun}
    /\ waitLock \in {"open", "closed"}
    /\ mon \in [Run -> MonitorPcs]
    /\ snap \in [Run -> State]
    /\ proc \in Run \cup {NoRun}
    /\ mounted \in {"yes", "no"}
    /\ file \in {"good", "bad", "gone"}
    /\ saved \in State

LEMMA MemoryOfType == TypeOK <=> Memory /\ seen \in [Caller -> SUBSET Exit]
BY DEF TypeOK, Memory

LEMMA Exits == Created \in State /\ NoSnap \in [Run -> State] /\ Idle \in Calls
BY DEF Created, State, Exit, NoSnap, Calls

LEMMA InitType == Init => TypeOK
BY Exits DEF Init, TypeOK, MonitorPcs, Caller

LEMMA ObserveType ==
    ASSUME state \in State, state' \in State,
           seen \in [Caller -> SUBSET Exit], Observe
    PROVE  seen' \in [Caller -> SUBSET Exit]
<1>1. {s.exit : s \in {t \in {state, state'} : t.running = "no"}} \subseteq Exit
  BY DEF State
<1> QED
  BY <1>1 DEF Observe

LEMMA WritesType ==
    ASSUME Memory, NEW s \in State, Writes(s)
    PROVE  file' \in {"good", "bad", "gone"} /\ saved' \in State
BY DEF Memory, Writes, diskVars

LEMMA StartType ==
    ASSUME Memory, NEW c \in Caller, Start(c)
    PROVE  Memory'
<1> USE DEF contVars, monVars, procVars, diskVars
<1>0. ~ At(c, "idle")
  BY DEF Start, StartLocked, Mount, StartFails, Launch, SetRunning,
         NewWaitLock, SaveAndMonitor, At
<1>1. CASE StartLocked(c)
  <2>1. call' \in [Caller -> Calls]
    BY <1>0, <1>1, CallMoves, CallReturns DEF StartLocked, Memory, Pcs
  <2> QED
    BY <1>1, <2>1 DEF StartLocked, Memory
<1>2. CASE Mount(c)
  <2>1. call' \in [Caller -> Calls]
    BY <1>0, <1>2, CallMoves DEF Mount, Memory, Pcs
  <2> QED
    BY <1>2, <2>1 DEF Mount, Memory
<1>3. CASE StartFails(c)
  <2>1. call' \in [Caller -> Calls]
    BY <1>0, <1>3, CallReturns, CallAfterStart DEF StartFails, Memory
  <2> QED
    BY <1>3, <2>1 DEF StartFails, Memory, Unlock
<1>4. CASE Launch(c)
  <2>1. call' \in [Caller -> Calls]
    BY <1>0, <1>4, CallMoves DEF Launch, Memory, Pcs
  <2> QED
    BY <1>4, <2>1 DEF Launch, Memory
<1>5. CASE SetRunning(c)
  <2>1. call' \in [Caller -> Calls]
    BY <1>0, <1>5, CallMoves DEF SetRunning, Memory, Pcs
  <2> QED
    BY <1>5, <2>1 DEF SetRunning, Memory, State, Exit
<1>6. CASE NewWaitLock(c)
  <2>1. [call EXCEPT ![c].pc = "save"] \in [Caller -> Calls]
    <3>1. call[c] \in [op : Ops, pc : Pcs]
      BY <1>0 DEF Memory, Calls, At, Idle
    <3>2. [call[c] EXCEPT !.pc = "save"] \in Calls
      BY <3>1 DEF Calls, Pcs
    <3> QED
      BY <3>2 DEF Memory
  <2>2. call' \in [Caller -> Calls]
    BY <1>6, <2>1, CallsStranded DEF NewWaitLock
  <2> QED
    BY <1>6, <2>2 DEF NewWaitLock, Memory, Make
<1>7. CASE SaveAndMonitor(c)
  <2>1. call' \in [Caller -> Calls]
    BY <1>0, <1>7, CallAfterStart DEF SaveAndMonitor, Memory
  <2>2. file' \in {"good", "bad", "gone"} /\ saved' \in State
    BY <1>7, WritesType DEF SaveAndMonitor, Save, Memory
  <2>3. mon' \in [Run -> MonitorPcs]
    BY <1>7 DEF SaveAndMonitor, Memory, MonitorPcs
  <2> QED
    BY <1>7, <2>1, <2>2, <2>3 DEF SaveAndMonitor, Memory, Unlock
<1> QED
  BY <1>1, <1>2, <1>3, <1>4, <1>5, <1>6, <1>7 DEF Start

LEMMA StopType ==
    ASSUME Memory, NEW c \in Caller, Stop(c)
    PROVE  Memory'
<1> USE DEF contVars, monVars, procVars, diskVars
<1>0. ~ At(c, "idle")
  BY DEF Stop, StopLocked, Released, TermTimeout, SendKill, KillTimeout, At
<1>1. call' \in [Caller -> Calls]
  <2>1. \/ AfterStop(c) \/ Return(c)
        \/ Becomes(c, "term") \/ Becomes(c, "kill") \/ Becomes(c, "killed")
        \/ Becomes(c, "final")
    BY DEF Stop, StopLocked, Released, TermTimeout, SendKill, KillTimeout
  <2> QED
    BY <1>0, <2>1, CallAfterStop, CallReturns, CallMoves DEF Memory, Pcs
<1> QED
  BY <1>1 DEF Stop, StopLocked, Released, TermTimeout, SendKill, KillTimeout,
              Memory, Unlock

LEMMA DestroyType ==
    ASSUME Memory, NEW c \in Caller, Destroy(c) \/ WaitReturns(c)
    PROVE  Memory'
<1> USE DEF contVars, monVars, procVars, diskVars
<1>0. ~ At(c, "idle")
  BY DEF Destroy, Unmount, Deregister, Remove, WaitReturns, At
<1>1. call' \in [Caller -> Calls]
  <2>1. Return(c) \/ Becomes(c, "deregister") \/ Becomes(c, "remove")
    BY DEF Destroy, Unmount, Deregister, Remove, WaitReturns
  <2> QED
    BY <1>0, <2>1, CallReturns, CallMoves DEF Memory, Pcs
<1> QED
  BY <1>1 DEF Destroy, Unmount, Deregister, Remove, WaitReturns, Memory

LEMMA DiesType ==
    ASSUME Memory, Dies,
           proc' \in Run \cup {NoRun}, mounted' \in {"yes", "no"}
    PROVE  Memory'
BY Exits DEF Dies, Memory, MonitorPcs

LEMMA MonitorType ==
    ASSUME Memory, NEW r \in Run, Monitor(r)
    PROVE  Memory'
<1> USE DEF contVars, monVars, procVars, diskVars
<1>1. mon[r] \in {"wait", "stop", "close"} => Then(mon[r]) \in MonitorPcs
  BY DEF Then, MonitorPcs
<1>2. CASE ProcessOver(r)
  BY <1>1, <1>2 DEF ProcessOver, Proceeds, Memory
<1>3. CASE SetStopped(r)
  <2>1. state' \in State
    BY <1>3, CodesAssumption DEF SetStopped, State, Exit
  <2> QED
    BY <1>1, <1>3, <2>1 DEF SetStopped, Proceeds, Memory
<1>4. CASE CloseWaitLock(r)
  <2>1. call' \in [Caller -> Calls]
    BY <1>4, CallsStranded DEF CloseWaitLock, Memory
  <2> QED
    BY <1>1, <1>4, <2>1 DEF CloseWaitLock, Proceeds, Memory
<1>5. CASE ClosePanics(r)
  BY <1>5, DiesType DEF ClosePanics, Memory
<1>6. CASE Marshal(r)
  BY <1>6 DEF Marshal, Memory, MonitorPcs
<1>7. CASE WriteFile(r)
  <2>1. file' \in {"good", "bad", "gone"} /\ saved' \in State
    BY <1>7, WritesType DEF WriteFile, Memory
  <2> QED
    BY <1>7, <2>1, Exits DEF WriteFile, Memory, MonitorPcs
<1> QED
  BY <1>2, <1>3, <1>4, <1>5, <1>6, <1>7 DEF Monitor

LEMMA RestoreType ==
    ASSUME Memory, Restore
    PROVE  Memory'
<1> USE DEF contVars, monVars, procVars, diskVars, Memory
<1>1. restore \in Caller /\ "wait" \in MonitorPcs
  BY DEF Caller, restore, MonitorPcs
<1>2. CASE LoadStopped
  BY <1>2 DEF LoadStopped, Load, Settled, WaitLockOf
<1>3. CASE LoadGhost
  BY <1>1, <1>3 DEF LoadGhost, Load, Settled, WaitLockOf, Reattach
<1>4. CASE LoadUnknown
  BY <1>4 DEF LoadUnknown, Load, Settled
<1>5. CASE LoadDead
  <2>1. state' \in State
    BY <1>5 DEF LoadDead, LostExit, State, Exit
  <2> QED
    BY <1>5, <2>1 DEF LoadDead, Load, Settled, WaitLockOf
<1>6. CASE LoadRestart
  <2>1. state' \in State
    BY <1>6 DEF LoadRestart, State, Exit
  <2>2. [op |-> "start", pc |-> "mount"] \in Calls
    BY DEF Calls, Ops, Pcs
  <2> QED
    BY <1>1, <1>6, <2>1, <2>2 DEF LoadRestart, Load
<1>7. CASE RegisterEnds
  BY <1>1, <1>7, CallReturns DEF RegisterEnds
<1>8. CASE RegisterPanics
  BY <1>8, DiesType DEF RegisterPanics
<1>9. CASE LoadFails \/ Serve
  BY <1>9 DEF LoadFails, Serve
<1> QED
  BY <1>2, <1>3, <1>4, <1>5, <1>6, <1>7, <1>8, <1>9 DEF Restore

LEMMA RequestType ==
    ASSUME Memory, NEW c \in Client, NEW op \in Ops, Request(c, op)
    PROVE  Memory'
<1>1. FirstPc(op) \in Pcs
  BY DEF FirstPc, Pcs
<1>2. [op |-> op, pc |-> FirstPc(op)] \in Calls
  BY <1>1 DEF Calls
<1> QED
  BY <1>2 DEF Request, Memory, Caller, contVars, monVars, procVars, diskVars

LEMMA HostType ==
    ASSUME Memory, ProcessExits \/ Crash \/ Reboot
    PROVE  Memory'
<1>1. CASE ProcessExits
  BY <1>1 DEF ProcessExits, Memory, contVars, monVars, diskVars
<1>2. CASE Crash \/ Reboot
  BY <1>2, DiesType DEF Crash, Reboot, Memory, procVars
<1> QED
  BY <1>1, <1>2

LEMMA NextType == TypeOK /\ [Next]_vars => TypeOK'
<1> SUFFICES ASSUME TypeOK, [Next]_vars
             PROVE  TypeOK'
  OBVIOUS
<1>1. Memory /\ seen \in [Caller -> SUBSET Exit]
  BY MemoryOfType
<1>2. CASE Next
  <2>1. Observe
    BY <1>2 DEF Next, RequestStep, CallerStep, MonitorStep, RestoreStep, HostStep
  <2>2. Memory'
    BY <1>1, <1>2, RequestType, StartType, StopType, DestroyType, MonitorType,
       RestoreType, HostType
       DEF Next, RequestStep, CallerStep, MonitorStep, RestoreStep, HostStep
  <2>3. seen' \in [Caller -> SUBSET Exit]
    BY <1>1, <2>1, <2>2, ObserveType DEF Memory
  <2> QED
    BY <2>2, <2>3 DEF TypeOK, Memory
<1>3. CASE UNCHANGED vars
  BY <1>3 DEF vars, TypeOK
<1> QED
  BY <1>2, <1>3

(* Every variable keeps its type: the pcs of requests and monitors stay    *)
(* among those of their operation, and exit codes are the program's or one *)
(* of the daemon's own, whatever fails or crashes in whatever window.      *)
THEOREM TypeCorrect == Spec => []TypeOK
<1> QED
  BY InitType, NextType, PTL DEF Spec

-----------------------------------------------------------------------------
(* OneMonitor.  A Start that has passed its check of Running holds the     *)
(* lock until it has left a monitor behind; Running says whether it has    *)
(* called setRunning; and there is no monitor to be seen meanwhile.        *)

Holders == {"mount", "launch", "running", "relock", "save",
            "term", "kill", "killed", "final"}

LockHeld == \A c \in Caller : call[c].pc \in Holders => lock = c

NotYet ==
    \A c \in Caller :
        call[c].pc \in {"mount", "launch", "running"} => state.running = "no"

Already ==
    \A c \in Caller :
        call[c].pc \in {"relock", "save"} =>
            state.running = "yes" /\ Watchers = {}

WatcherRuns == Watchers # {} => state.running = "yes"

AtMostOne == \A q, r \in Watchers : q = r

AtLeastOne ==
    "info" \notin Faults /\ daemon # "down" /\ state.running = "yes"
      /\ (\A c \in Caller : call[c].pc \notin {"relock", "save"})
        => Watchers # {}

(* The process that lxc-start was run as has no monitor yet. *)
Unwatched ==
    \A c \in Caller : Launching(c) => cmd \in Run /\ mon[cmd] = "none"

Nobody ==
    daemon = "down" =>
        /\ \A r \in Run : mon[r] = "none"
        /\ \A c \in Caller : call[c] = Idle
        /\ state.running = "no"

IInv ==
    /\ LockHeld /\ NotYet /\ Already /\ WatcherRuns
    /\ AtMostOne /\ AtLeastOne /\ Unwatched /\ Nobody

LEMMA InitIInv == Init => IInv
BY DEF Init, IInv, LockHeld, NotYet, Already, WatcherRuns, AtMostOne,
       AtLeastOne, Unwatched, Nobody, Launching, Holders, Watchers, Idle, Created

(* Who has not begun to call cannot be a caller of a daemon that is down.  *)
LEMMA CallerLives ==
    ASSUME IInv, NEW c \in Caller, ~ At(c, "idle")
    PROVE  daemon # "down"
BY DEF IInv, Nobody, At, Idle

(* A step of one caller that touches neither Running nor the monitors, nor *)
(* enters or leaves the part of Start after setRunning.                    *)
LEMMA CallerMoves ==
    ASSUME TypeOK, IInv, NEW c \in Caller,
           UNCHANGED <<daemon, state, cmd, mon>>, daemon # "down",
           \A d \in Caller \ {c} :
               \/ call'[d].pc = call[d].pc
               \/ call[d].pc \notin Holders /\ call'[d].pc \notin Holders,
           lock' = lock \/ (lock \in {c, Free} /\ lock' \in {c, Free}),
           call'[c].pc \in Holders => lock' = c,
           call'[c].pc \in {"mount", "launch"} => state.running = "no",
           call'[c].pc # "running",
           call[c].pc \in {"relock", "save"} <=> call'[c].pc \in {"relock", "save"}
    PROVE  IInv'
<1>1. Watchers' = Watchers
  BY DEF Watchers
<1>2. \A d \in Caller \ {c} : \A p \in Holders : call'[d].pc = p <=> call[d].pc = p
  OBVIOUS
<1>3. \A d \in Caller : \A p \in {"relock", "save"} :
        call'[d].pc = p => call[d].pc \in {"relock", "save"}
  BY <1>2 DEF Holders
<1>4. \A d \in Caller : Launching(d)' => Launching(d)
  BY <1>2, <1>3 DEF Launching, Holders
<1>5. LockHeld'
  BY <1>2, FreeAssumption DEF IInv, LockHeld, Caller, restore
<1>6. NotYet'
  BY <1>2 DEF IInv, NotYet, Holders
<1>7. Already'
  BY <1>1, <1>3 DEF IInv, Already
<1>8. WatcherRuns' /\ AtMostOne'
  BY <1>1 DEF IInv, WatcherRuns, AtMostOne
<1>9. AtLeastOne'
  BY <1>1, <1>2 DEF IInv, AtLeastOne, Holders
<1>10. Unwatched'
  BY <1>4 DEF IInv, Unwatched
<1>11. Nobody'
  BY DEF Nobody
<1> QED
  BY <1>5, <1>6, <1>7, <1>8, <1>9, <1>10, <1>11 DEF IInv

LEMMA StartIInv ==
    ASSUME TypeOK, IInv, NEW c \in Caller, Start(c)
    PROVE  IInv'
<1> USE DEF contVars, monVars, procVars, diskVars
<1>0. call \in [Caller -> Calls] /\ lock \in Caller \cup {Free}
  BY DEF TypeOK
<1>1. ~ At(c, "idle")
  BY DEF Start, StartLocked, Mount, StartFails, Launch, SetRunning,
         NewWaitLock, SaveAndMonitor, At
<1>2. daemon # "down"
  BY <1>1, CallerLives
<1>3. CASE StartLocked(c)
  <2>1. /\ \/ call'[c].pc = "idle" /\ lock' = lock
           \/ call'[c].pc = "mount" /\ lock = Free /\ lock' = c /\ state.running = "no"
        /\ \A d \in Caller \ {c} : call'[d] = call[d]
    <3>1. Return(c) => call'[c].pc = "idle" /\ \A d \in Caller \ {c} : call'[d] = call[d]
      BY <1>0, CallReturns DEF Idle
    <3>2. Becomes(c, "mount") =>
            call'[c].pc = "mount" /\ \A d \in Caller \ {c} : call'[d] = call[d]
      BY <1>0, <1>1, CallMoves DEF Pcs
    <3> QED
      BY <1>3, <3>1, <3>2 DEF StartLocked, MayStart
  <2> QED
    BY <1>2, <1>3, <2>1, CallerMoves DEF StartLocked, At, Holders
<1>4. CASE Mount(c)
  <2>1. call'[c].pc = "launch" /\ \A d \in Caller \ {c} : call'[d] = call[d]
    BY <1>0, <1>1, <1>4, CallMoves DEF Mount, Pcs
  <2>2. lock = c /\ state.running = "no"
    BY <1>4 DEF Mount, At, IInv, LockHeld, NotYet, Holders
  <2> QED
    BY <1>2, <1>4, <2>1, <2>2, CallerMoves DEF Mount, At, Holders
<1>5. CASE StartFails(c)
  <2>1. /\ call'[c].pc \in {"idle", "register"}
        /\ \A d \in Caller \ {c} : call'[d] = call[d]
    BY <1>0, <1>1, <1>5, CallReturns, CallAfterStart DEF StartFails, Idle
  <2>2. lock = c
    BY <1>5 DEF StartFails, IInv, LockHeld, Holders
  <2> QED
    BY <1>2, <1>5, <2>1, <2>2, CallerMoves DEF StartFails, Unlock, Holders
<1>6. CASE Launch(c)
  <2>1. call'[c].pc = "running" /\ \A d \in Caller \ {c} : call'[d] = call[d]
    BY <1>0, <1>1, <1>6, CallMoves DEF Launch, Pcs
  <2>2. /\ cmd' \in Run /\ mon[cmd'] = "none" /\ At(c, "launch")
        /\ UNCHANGED <<daemon, lock, state, mon>>
    BY <1>6 DEF Launch
  <2>3. lock = c /\ state.running = "no"
    BY <2>2 DEF At, IInv, LockHeld, NotYet, Holders
  <2>4. Watchers' = Watchers
    BY <2>2 DEF Watchers
  <2>5. \A d \in Caller \ {c} : ~ Launching(d) /\ ~ Launching(d)'
    BY <2>1, <2>3 DEF IInv, LockHeld, Holders, Launching
  <2>6. LockHeld' /\ NotYet'
    BY <2>1, <2>2, <2>3 DEF IInv, LockHeld, NotYet
  <2>7. Already' /\ WatcherRuns' /\ AtMostOne'
    BY <2>1, <2>2, <2>4 DEF IInv, Already, WatcherRuns, AtMostOne
  <2>8. AtLeastOne' /\ Nobody'
    BY <1>2, <2>2, <2>3 DEF AtLeastOne, Nobody
  <2>9. Unwatched'
    BY <2>2, <2>5 DEF Unwatched
  <2> QED
    BY <2>6, <2>7, <2>8, <2>9 DEF IInv
<1>7. CASE SetRunning(c)
  <2>1. call'[c].pc = "relock" /\ \A d \in Caller \ {c} : call'[d] = call[d]
    BY <1>0, <1>1, <1>7, CallMoves DEF SetRunning, Pcs
  <2>2. /\ state'.running = "yes" /\ At(c, "running")
        /\ UNCHANGED <<daemon, lock, cmd, mon>>
    BY <1>7 DEF SetRunning
  <2>3. lock = c /\ state.running = "no" /\ cmd \in Run /\ mon[cmd] = "none"
    BY <2>2 DEF At, IInv, LockHeld, NotYet, Unwatched, Launching, Holders
  <2>4. Watchers = {} /\ Watchers' = {}
    <3>1. Watchers = {}
      BY <2>3 DEF IInv, WatcherRuns
    <3> QED
      BY <2>2, <3>1 DEF Watchers
  <2>5. \A d \in Caller \ {c} : call'[d].pc \notin Holders
    BY <2>1, <2>3 DEF IInv, LockHeld
  <2>6. LockHeld' /\ NotYet'
    BY <2>1, <2>2, <2>3, <2>5 DEF LockHeld, NotYet, Holders
  <2>7. Already' /\ WatcherRuns' /\ AtMostOne'
    BY <2>2, <2>4 DEF Already, WatcherRuns, AtMostOne
  <2>8. AtLeastOne' /\ Nobody'
    BY <1>2, <2>1, <2>2 DEF AtLeastOne, Nobody
  <2>9. Unwatched'
    BY <2>2, <2>3 DEF Unwatched
  <2> QED
    BY <2>6, <2>7, <2>8, <2>9 DEF IInv
<1>8. CASE NewWaitLock(c)
  <2> DEFINE f == [call EXCEPT ![c].pc = "save"]
  <2>1. f \in [Caller -> Calls] /\ f[c].pc = "save"
    <3>1. call[c] \in [op : Ops, pc : Pcs]
      BY <1>0, <1>1 DEF Calls, At, Idle
    <3>2. [call[c] EXCEPT !.pc = "save"] \in Calls
      BY <3>1 DEF Calls, Pcs
    <3> QED
      BY <1>0, <3>1, <3>2
  <2>2. \A d \in Caller \ {c} : f[d] = call[d]
    BY <1>0
  <2>3. call' = Stranded(f)
    BY <1>8 DEF NewWaitLock
  <2> HIDE DEF f
  <2>4. /\ call'[c].pc = "save"
        /\ \A d \in Caller \ {c} :
              \/ call'[d].pc = call[d].pc
              \/ call[d].pc \notin Holders /\ call'[d].pc \notin Holders
    BY <2>1, <2>2, <2>3, CallsStranded DEF Holders
  <2>5. lock = c
    BY <1>8 DEF NewWaitLock, At, IInv, LockHeld, Holders
  <2> QED
    BY <1>2, <1>8, <2>4, <2>5, CallerMoves DEF NewWaitLock, At
<1>9. CASE SaveAndMonitor(c)
  <2>1. /\ call'[c].pc \in {"idle", "register"}
        /\ \A d \in Caller \ {c} : call'[d] = call[d]
    BY <1>0, <1>1, <1>9, CallAfterStart DEF SaveAndMonitor
  <2>2. /\ mon' = [mon EXCEPT ![cmd] = "wait"] /\ lock' = Free /\ At(c, "save")
        /\ UNCHANGED <<daemon, state, cmd>>
    BY <1>9 DEF SaveAndMonitor, Unlock
  <2>3. lock = c /\ state.running = "yes" /\ Watchers = {} /\ cmd \in Run
    BY <2>2 DEF At, IInv, LockHeld, Already, Unwatched, Launching, Holders
  <2>4. Watchers' = {cmd}
    BY <2>2, <2>3 DEF TypeOK, Watchers
  <2>5. \A d \in Caller : call'[d].pc \notin Holders
    BY <2>1, <2>3 DEF IInv, LockHeld, Holders
  <2>6. LockHeld' /\ NotYet' /\ Already' /\ Unwatched'
    BY <2>5 DEF LockHeld, NotYet, Already, Unwatched, Launching, Holders
  <2>7. WatcherRuns' /\ AtMostOne' /\ AtLeastOne' /\ Nobody'
    BY <1>2, <2>2, <2>3, <2>4 DEF WatcherRuns, AtMostOne, AtLeastOne, Nobody
  <2> QED
    BY <2>6, <2>7 DEF IInv
<1> QED
  BY <1>3, <1>4, <1>5, <1>6, <1>7, <1>8, <1>9 DEF Start

LEMMA StopIInv ==
    ASSUME TypeOK, IInv, NEW c \in Caller, Stop(c)
    PROVE  IInv'
<1> USE DEF contVars, monVars, procVars, diskVars
<1>0. call \in [Caller -> Calls]
  BY DEF TypeOK
<1>1. /\ ~ At(c, "idle")
      /\ UNCHANGED <<daemon, state, cmd, mon>>
      /\ call[c].pc \in {"stop", "term", "kill", "killed", "final"}
  BY DEF Stop, StopLocked, Released, TermTimeout, SendKill, KillTimeout, At
<1>2. daemon # "down"
  BY <1>1, CallerLives
<1>3. call[c].pc # "stop" => lock = c
  BY <1>1 DEF IInv, LockHeld, Holders
<1>4. \/ /\ AfterStop(c) \/ Return(c)
         /\ lock' = lock \/ (lock' = Free /\ lock = c)
      \/ /\ \E p \in {"term", "kill", "killed", "final"} : Becomes(c, p)
         /\ lock' = c /\ lock \in {c, Free}
  BY <1>1, <1>3
     DEF Stop, StopLocked, Released, TermTimeout, SendKill, KillTimeout, Unlock, At
<1>5. CASE /\ AfterStop(c) \/ Return(c)
           /\ lock' = lock \/ (lock' = Free /\ lock = c)
  <2>1. /\ call'[c].pc \in {"idle", "start", "unmount"}
        /\ \A d \in Caller \ {c} : call'[d] = call[d]
    BY <1>0, <1>1, <1>5, CallAfterStop, CallReturns DEF Idle
  <2> QED
    BY <1>1, <1>2, <1>5, <2>1, CallerMoves DEF Holders
<1>6. CASE /\ \E p \in {"term", "kill", "killed", "final"} : Becomes(c, p)
           /\ lock' = c /\ lock \in {c, Free}
  <2>1. PICK p \in {"term", "kill", "killed", "final"} : Becomes(c, p)
    BY <1>6
  <2>2. call'[c].pc = p /\ \A d \in Caller \ {c} : call'[d] = call[d]
    BY <1>0, <1>1, <2>1, CallMoves DEF Pcs
  <2> QED
    BY <1>1, <1>2, <1>6, <2>2, CallerMoves
<1> QED
  BY <1>4, <1>5, <1>6

LEMMA DestroyIInv ==
    ASSUME TypeOK, IInv, NEW c \in Caller, Destroy(c) \/ WaitReturns(c)
    PROVE  IInv'
<1> USE DEF contVars, monVars, procVars, diskVars
<1>0. call \in [Caller -> Calls]
  BY DEF TypeOK
<1>1. /\ ~ At(c, "idle") /\ call[c].pc \notin {"relock", "save"}
      /\ UNCHANGED <<daemon, lock, state, cmd, mon>>
      /\ Return(c) \/ Becomes(c, "deregister") \/ Becomes(c, "remove")
  BY DEF Destroy, Unmount, Deregister, Remove, WaitReturns, At
<1>2. daemon # "down"
  BY <1>1, CallerLives
<1>3. /\ call'[c].pc \in {"idle", "deregister", "remove"}
      /\ \A d \in Caller \ {c} : call'[d] = call[d]
  BY <1>0, <1>1, CallReturns, CallMoves DEF Idle, Pcs
<1> QED
  BY <1>1, <1>2, <1>3, CallerMoves DEF Holders

LEMMA RequestIInv ==
    ASSUME TypeOK, IInv, NEW c \in Client, NEW op \in Ops, Request(c, op)
    PROVE  IInv'
<1> USE DEF contVars, monVars
<1>1. c \in Caller
  BY DEF Caller
<1>2. /\ call'[c].pc \in {"start", "woken", "blocked", "stop"}
      /\ \A d \in Caller \ {c} : call'[d] = call[d]
  BY <1>1 DEF Request, FirstPc, TypeOK
<1>3. /\ daemon # "down" /\ At(c, "idle")
      /\ UNCHANGED <<daemon, lock, state, cmd, mon>>
  BY DEF Request
<1> QED
  BY <1>1, <1>2, <1>3, CallerMoves DEF Holders, At

(* Nothing is left in the memory of a daemon that is down. *)
LEMMA DiesIInv ==
    ASSUME Dies
    PROVE  IInv'
BY DEF Dies, IInv, LockHeld, NotYet, Already, WatcherRuns, AtMostOne,
       AtLeastOne, Unwatched, Nobody, Launching, Holders, Watchers, Idle, Created

LEMMA HostIInv ==
    ASSUME TypeOK, IInv, ProcessExits \/ Crash \/ Reboot
    PROVE  IInv'
<1>1. CASE ProcessExits
  BY <1>1 DEF ProcessExits, contVars, monVars, IInv, LockHeld, NotYet, Already,
      WatcherRuns, AtMostOne, AtLeastOne, Unwatched, Nobody, Launching, Watchers
<1>2. CASE Crash \/ Reboot
  BY <1>2, DiesIInv DEF Crash, Reboot
<1> QED
  BY <1>1, <1>2

LEMMA MonitorIInv ==
    ASSUME TypeOK, IInv, NEW r \in Run, Monitor(r)
    PROVE  IInv'
<1> USE DEF contVars, monVars, procVars, diskVars
<1>0. mon \in [Run -> MonitorPcs] /\ call \in [Caller -> Calls]
  BY DEF TypeOK
<1>1. mon[r] # "none" => daemon # "down"
  BY DEF IInv, Nobody
<1>2. CASE ProcessOver(r)
  <2>1. /\ mon[r] = "wait" /\ mon' = [mon EXCEPT ![r] = "stop"]
        /\ UNCHANGED <<daemon, call, lock, state, cmd>>
    BY <1>2 DEF ProcessOver, Proceeds, Then
  <2>2. Watchers' = Watchers
    BY <1>0, <2>1 DEF Watchers
  <2>3. Unwatched'
    BY <1>0, <2>1 DEF IInv, Unwatched, Launching
  <2> QED
    BY <1>1, <2>1, <2>2, <2>3 DEF IInv, LockHeld, NotYet, Already, WatcherRuns,
       AtMostOne, AtLeastOne, Nobody
<1>3. CASE SetStopped(r)
  <2>1. /\ mon[r] = "stop" /\ mon' = [mon EXCEPT ![r] = "close"]
        /\ state'.running = "no"
        /\ UNCHANGED <<daemon, call, lock, cmd>>
    BY <1>3 DEF SetStopped, Proceeds, Then
  <2>2. r \in Watchers /\ Watchers' = {}
    BY <1>0, <2>1 DEF Watchers, IInv, AtMostOne
  <2>3. Already' /\ Unwatched'
    BY <1>0, <2>1, <2>2 DEF IInv, Already, Unwatched, Launching
  <2> QED
    BY <1>1, <2>1, <2>2, <2>3 DEF IInv, LockHeld, NotYet, WatcherRuns,
       AtMostOne, AtLeastOne, Nobody
<1>4. CASE CloseWaitLock(r) \/ Marshal(r) \/ WriteFile(r)
  <2>1. /\ mon[r] \in {"close", "save", "write"}
        /\ \E pc \in {"save", "write", "none"} : mon' = [mon EXCEPT ![r] = pc]
        /\ UNCHANGED <<daemon, lock, state, cmd>>
        /\ call' = call \/ call' = Woken(call)
    BY <1>4 DEF CloseWaitLock, Marshal, WriteFile, Proceeds, Then
  <2>2. Watchers' = Watchers
    BY <1>0, <2>1 DEF Watchers
  <2>3. \A c \in Caller : call'[c].pc = call[c].pc
            \/ (call[c].pc = "blocked" /\ call'[c].pc = "woken")
    BY <1>0, <2>1, CallsStranded
  <2>4. \A c \in Caller : Launching(c)' => Launching(c)
    BY <2>3 DEF Launching
  <2>5. Unwatched'
    BY <1>0, <2>1, <2>4 DEF IInv, Unwatched
  <2>6. LockHeld' /\ NotYet' /\ Already'
    BY <2>1, <2>2, <2>3 DEF IInv, LockHeld, NotYet, Already, Holders
  <2>7. AtLeastOne'
    BY <2>1, <2>2, <2>3 DEF IInv, AtLeastOne
  <2> QED
    BY <1>1, <2>1, <2>2, <2>5, <2>6, <2>7 DEF IInv, WatcherRuns, AtMostOne, Nobody
<1>5. CASE ClosePanics(r)
  BY <1>5, DiesIInv DEF ClosePanics
<1> QED
  BY <1>2, <1>3, <1>4, <1>5 DEF Monitor

(* A daemon that was down has no caller and no monitor.  Of a ghost it     *)
(* finds the process, whose monitor is then the only one; unless lxc-info  *)
(* fails, and the ghost stays without.                                     *)
LEMMA LoadIInv ==
    ASSUME TypeOK, IInv, Load, Settled,
           LoadStopped \/ LoadGhost \/ LoadUnknown \/ LoadDead
    PROVE  IInv'
<1>1. /\ \A r \in Run : mon[r] = "none"
      /\ \A c \in Caller : call[c] = Idle
      /\ UNCHANGED <<call, lock>> /\ daemon' = "serving"
  BY DEF Load, Settled, IInv, Nobody
<1>2. LockHeld' /\ NotYet' /\ Unwatched' /\ Nobody'
  BY <1>1 DEF LockHeld, NotYet, Unwatched, Nobody, Launching, Holders, Idle
<1>3. Already'
  BY <1>1 DEF Already, Idle
<1>4. \/ mon' = mon /\ (state'.running = "no" \/ "info" \in Faults)
      \/ \E r \in Run : mon' = [mon EXCEPT ![r] = "wait"] /\ state'.running = "yes"
  <2>1. CASE LoadStopped
    BY <2>1 DEF LoadStopped
  <2>2. CASE LoadGhost
    <3>1. proc \in Run
      BY <2>2 DEF LoadGhost, TypeOK
    <3> QED
      BY <2>2, <3>1 DEF LoadGhost, Reattach
  <2>3. CASE LoadUnknown
    BY <2>3 DEF LoadUnknown
  <2>4. CASE LoadDead
    BY <2>4 DEF LoadDead
  <2> QED
    BY <2>1, <2>2, <2>3, <2>4
<1>5. CASE mon' = mon /\ (state'.running = "no" \/ "info" \in Faults)
  <2>1. Watchers' = {}
    BY <1>1, <1>5 DEF Watchers
  <2> QED
    BY <1>2, <1>3, <1>5, <2>1 DEF IInv, WatcherRuns, AtMostOne, AtLeastOne
<1>6. CASE \E r \in Run : mon' = [mon EXCEPT ![r] = "wait"] /\ state'.running = "yes"
  <2>1. \E r \in Run : Watchers' = {r}
    BY <1>1, <1>6 DEF Watchers, TypeOK
  <2> QED
    BY <1>2, <1>3, <1>6, <2>1 DEF IInv, WatcherRuns, AtMostOne, AtLeastOne
<1> QED
  BY <1>4, <1>5, <1>6

LEMMA RestoreIInv ==
    ASSUME TypeOK, IInv, Restore
    PROVE  IInv'
<1> USE DEF contVars, monVars, procVars, diskVars
<1>0. restore \in Caller /\ call \in [Caller -> Calls]
  BY DEF Caller, TypeOK
<1>1. CASE LoadStopped \/ LoadGhost \/ LoadUnknown \/ LoadDead
  BY <1>1, LoadIInv DEF LoadStopped, LoadGhost, LoadUnknown, LoadDead
<1>2. CASE LoadRestart
  <2>1. /\ \A r \in Run : mon[r] = "none"
        /\ \A c \in Caller : call[c] = Idle
    BY <1>2 DEF LoadRestart, Load, IInv, Nobody
  <2>2. /\ call'[restore].pc = "mount"
        /\ \A c \in Caller \ {restore} : call'[c] = Idle
        /\ lock' = restore /\ mon' = mon /\ state'.running = "no"
        /\ daemon' = "restoring"
    BY <1>0, <1>2, <2>1 DEF LoadRestart
  <2>3. Watchers' = {}
    BY <2>1, <2>2 DEF Watchers
  <2>4. LockHeld' /\ NotYet' /\ Already' /\ Unwatched'
    BY <2>2, <2>3
       DEF LockHeld, NotYet, Already, Unwatched, Launching, Holders, Idle
  <2> QED
    BY <2>2, <2>3, <2>4 DEF IInv, WatcherRuns, AtMostOne, AtLeastOne, Nobody
<1>3. CASE RegisterEnds
  <2>1. /\ At(restore, "register") /\ Return(restore)
        /\ UNCHANGED <<daemon, lock, state, cmd, mon>>
    BY <1>3 DEF RegisterEnds
  <2>2. ~ At(restore, "idle") /\ daemon # "down"
    BY <1>0, <2>1, CallerLives DEF At
  <2>3. call'[restore] = Idle /\ \A d \in Caller \ {restore} : call'[d] = call[d]
    BY <1>0, <2>1, CallReturns
  <2> QED
    BY <1>0, <2>1, <2>2, <2>3, CallerMoves DEF At, Holders, Idle
<1>4. CASE RegisterPanics
  BY <1>4, DiesIInv DEF RegisterPanics
<1>5. CASE LoadFails \/ Serve
  <2>1. /\ daemon' = "serving"
        /\ UNCHANGED <<call, lock, state, cmd, mon>>
    BY <1>5 DEF LoadFails, Serve
  <2>2. Watchers' = Watchers
    BY <2>1 DEF Watchers
  <2>3. AtLeastOne'
    BY <1>5, <2>1, <2>2 DEF LoadFails, Serve, IInv, AtLeastOne, Nobody
  <2> QED
    BY <1>5, <2>1, <2>2, <2>3 DEF LoadFails, Serve, IInv, LockHeld, NotYet, Already,
       WatcherRuns, AtMostOne, Unwatched, Nobody, Launching
<1> QED
  BY <1>1, <1>2, <1>3, <1>4, <1>5 DEF Restore

LEMMA NextIInv ==
    TypeOK /\ IInv /\ [Next]_vars => IInv'
<1> SUFFICES ASSUME TypeOK, IInv, [Next]_vars
             PROVE  IInv'
  OBVIOUS
<1>1. CASE Next
  BY <1>1, RequestIInv, StartIInv, StopIInv, DestroyIInv, MonitorIInv,
     RestoreIInv, HostIInv
     DEF Next, RequestStep, CallerStep, MonitorStep, RestoreStep, HostStep
<1>2. CASE UNCHANGED vars
  BY <1>2 DEF vars, IInv, LockHeld, NotYet, Already, WatcherRuns, AtMostOne,
      AtLeastOne, Unwatched, Nobody, Launching, Watchers
<1> QED
  BY <1>1, <1>2

(* Proved without conditions: what holds only as long as lxc-info works    *)
(* says so itself.                                                         *)
LEMMA Invariance == Spec => [](TypeOK /\ IInv)
BY InitType, NextType, InitIInv, NextIInv, PTL DEF Spec

LEMMA IInvOneMonitor ==
    ASSUME "info" \notin Faults PROVE IInv => OneMonitor
<1> SUFFICES ASSUME IInv
             PROVE  OneMonitor
  OBVIOUS
<1>1. Watchers # {} => ~ Starting
  BY DEF IInv, WatcherRuns, NotYet, Already, Starting, Launching
<1>2. ~ Starting => \A c \in Caller : call[c].pc \notin {"relock", "save"}
  BY DEF Starting, Launching
<1> QED
  BY <1>1, <1>2 DEF IInv, AtMostOne, WatcherRuns, AtLeastOne, OneMonitor

(* As long as lxc-info works, a container that counts as running has       *)
(* exactly one monitor, and a stopped one has none, whatever requests come *)
(* at once, whenever the daemon or the host dies, and in every window: the *)
(* check of Running in Start is enough, made under the lock, because the   *)
(* monitor clears Running last.                                            *)
THEOREM OneMonitorAlways ==
    ASSUME "info" \notin Faults
    PROVE  Spec => []OneMonitor
<1> QED
  BY Invariance, IInvOneMonitor, PTL
-----------------------------------------------------------------------------
(* WaitLockSound: no Start falls into what a monitor does between          *)
(* setStopped and close, so that the waitLock in place is the one that     *)
(* monitor closes.                                                         *)

(* The stretches that no Start, and no setStopped, falls into.             *)
Orderly == "exit" \notin Windows /\ (AutoRestart => "register" \notin Windows)

(* And no early return of Register leaves the waitLock open.               *)
Complete == "save" \notin Faults /\ (AutoRestart => "start" \notin Faults)

StartPcs == {"mount", "launch", "running", "relock", "save"}
Quiet == \A r \in Run : mon[r] # "close"

StartsAlone == \A c \in Caller : call[c].pc \in StartPcs => Quiet

Closing ==
    \A r \in Run : mon[r] = "close" =>
        /\ state.running = "no" /\ waitLock = "open"
        /\ \A q \in Run : mon[q] = "close" => q = r

OpenRuns ==
    state.running = "yes" /\ (\A c \in Caller : call[c].pc # "relock")
        => waitLock = "open"

ClosedStops ==
    Complete /\ listed = "yes" /\ call[restore].pc = "idle" /\ Quiet
      /\ state.running = "no"
        => waitLock = "closed"

(* restore() works alone, and its Start finds the waitLock open.           *)
Restoring ==
    /\ daemon # "restoring" => call[restore] = Idle
    /\ daemon = "restoring" =>
          AutoRestart /\ file # "gone" /\ \A c \in Client : call[c] = Idle
    /\ call[restore].pc \in {"idle", "register"} \cup StartPcs
    /\ call[restore].pc \in {"mount", "launch", "running"} => waitLock = "open"
    /\ call[restore].pc = "register" =>
          Quiet /\ (state.running = "no" => waitLock = "open")

WInv == StartsAlone /\ Closing /\ OpenRuns /\ ClosedStops /\ Restoring
-----------------------------------------------------------------------------
LEMMA InitWInv == Init => WInv
BY DEF Init, WInv, StartsAlone, Closing, OpenRuns, ClosedStops, Restoring, Quiet,
       StartPcs, Created, Idle, Caller

(* Who is in a Start, or holds the lock in a Stop, is alone with it.       *)
LEMMA HoldsAlone ==
    ASSUME IInv, NEW c \in Caller, call[c].pc \in Holders
    PROVE  lock = c /\ \A d \in Caller \ {c} : call[d].pc \notin Holders
BY DEF IInv, LockHeld

(* While restore() works, nobody else does.                                *)
LEMMA ClientServed ==
    ASSUME Restoring, NEW c \in Client, ~ At(c, "idle")
    PROVE  daemon # "restoring" /\ call[restore] = Idle
BY DEF Restoring, At, Idle

LEMMA RestoringClient ==
    ASSUME Restoring, daemon # "restoring", daemon' # "restoring", call'[restore] = Idle
    PROVE  Restoring'
BY DEF Restoring, Idle, StartPcs

(* A step that leaves Running, the waitLock and the monitors alone.        *)
LEMMA WMoves ==
    ASSUME WInv, Restoring', UNCHANGED <<state, waitLock, mon>>,
           listed' = "yes" => listed = "yes",
           \A c \in Caller : call'[c].pc \in StartPcs => Quiet,
           \A c \in Caller : call[c].pc = "relock" => call'[c].pc = "relock",
           Complete /\ call'[restore].pc = "idle" => call[restore].pc = "idle"
    PROVE  WInv'
<1>1. Quiet' <=> Quiet
  BY DEF Quiet
<1>2. StartsAlone'
  BY <1>1 DEF StartsAlone
<1>3. Closing' /\ OpenRuns'
  BY DEF WInv, Closing, OpenRuns
<1>4. ClosedStops'
  BY <1>1 DEF WInv, ClosedStops, Complete
<1> QED
  BY <1>2, <1>3, <1>4 DEF WInv

(* The same, of one client.                                                *)
LEMMA WClient ==
    ASSUME WInv, NEW c \in Client, ~ At(c, "idle"),
           UNCHANGED <<daemon, state, waitLock, mon>>,
           listed' = "yes" => listed = "yes",
           \A d \in Caller \ {c} : call'[d] = call[d],
           call[c].pc # "relock",
           call'[c].pc \in StartPcs => Quiet
    PROVE  WInv'
<1>1. c # restore /\ c \in Caller
  BY ClientAssumption DEF Caller, restore
<1>2. restore \in Caller
  BY DEF Caller
<1>3. Restoring'
  BY <1>1, <1>2, ClientServed, RestoringClient DEF WInv
<1>4. \A d \in Caller : call'[d].pc \in StartPcs => Quiet
  BY DEF WInv, StartsAlone
<1> QED
  BY <1>1, <1>2, <1>3, <1>4, WMoves

LEMMA WStart ==
    ASSUME Orderly, TypeOK, IInv, WInv, NEW c \in Caller, Start(c)
    PROVE  WInv'
<1> USE DEF contVars, monVars, procVars, diskVars
<1>0. call \in [Caller -> Calls] /\ mon \in [Run -> MonitorPcs]
  BY DEF TypeOK
<1>1. ~ At(c, "idle")
  BY DEF Start, StartLocked, Mount, StartFails, Launch, SetRunning,
         NewWaitLock, SaveAndMonitor, At
<1>2. c \in Client \/ c = restore
  BY DEF Caller
<1>3. restore \in Caller
  BY DEF Caller
<1>r. c = restore => daemon = "restoring" /\ AutoRestart /\ file # "gone"
  BY <1>1 DEF WInv, Restoring, At, Idle
<1>4. CASE StartLocked(c)
  <2>1. c \in Client /\ Quiet /\ At(c, "start")
    BY <1>2, <1>4 DEF StartLocked, Undisturbed, Orderly, Quiet, WInv, Restoring, At, StartPcs
  <2>2. \A d \in Caller \ {c} : call'[d] = call[d]
    BY <1>0, <1>1, <1>4, CallReturns, CallMoves DEF StartLocked, Pcs
  <2> QED
    BY <1>1, <1>4, <2>1, <2>2, WClient DEF StartLocked, At
<1>5. CASE Mount(c) \/ StartFails(c) \/ Launch(c)
  <2>1. /\ call[c].pc \in {"mount", "launch"}
        /\ UNCHANGED <<daemon, listed, state, waitLock, mon, file>>
    BY <1>5 DEF Mount, StartFails, Launch, At
  <2>2. Quiet /\ state.running = "no"
    BY <2>1 DEF WInv, StartsAlone, StartPcs, IInv, NotYet
  <2>3. /\ call'[c].pc \in {"launch", "running", "idle", "register"}
        /\ \A d \in Caller \ {c} : call'[d] = call[d]
    BY <1>0, <1>1, <1>5, CallMoves, CallReturns, CallAfterStart
       DEF Mount, StartFails, Launch, Pcs, Idle
  <2>4. CASE c \in Client
    BY <1>1, <2>1, <2>2, <2>3, <2>4, WClient
  <2>5. CASE c = restore
    <3>1. Complete => call'[c].pc # "idle"
      <4>1. Complete => ~ StartFails(c)
        BY <1>r, <2>5 DEF StartFails, Complete
      <4>2. CASE Mount(c)
        BY <1>0, <1>1, <4>2, CallMoves DEF Mount, Pcs
      <4>3. CASE Launch(c)
        BY <1>0, <1>1, <4>3, CallMoves DEF Launch, Pcs
      <4> QED
        BY <1>5, <4>1, <4>2, <4>3
    <3>2. \A d \in Client : call'[d] = call[d]
      BY <2>3, <2>5, ClientAssumption DEF Caller, restore
    <3>3. Quiet'
      BY <2>1, <2>2 DEF Quiet
    <3>4. Restoring'
      BY <1>r, <2>1, <2>2, <2>3, <2>5, <3>2, <3>3 DEF WInv, Restoring, StartPcs
    <3> QED
      BY <1>3, <2>1, <2>2, <2>3, <2>5, <3>1, <3>4, WMoves DEF WInv, StartsAlone
  <2> QED
    BY <1>2, <2>4, <2>5
<1>6. CASE SetRunning(c)
  <2>1. /\ At(c, "running") /\ state'.running = "yes"
        /\ UNCHANGED <<daemon, listed, waitLock, mon, file>>
    BY <1>6 DEF SetRunning
  <2>2. Quiet /\ Quiet'
    BY <2>1 DEF WInv, StartsAlone, StartPcs, At, Quiet
  <2>3. call'[c].pc = "relock" /\ \A d \in Caller \ {c} : call'[d] = call[d]
    BY <1>0, <1>1, <1>6, CallMoves DEF SetRunning, Pcs
  <2>4. Restoring'
    <3>1. CASE c \in Client
      BY <1>1, <1>3, <2>1, <2>3, <3>1, ClientServed, RestoringClient, ClientAssumption
         DEF WInv, restore
    <3>2. CASE c = restore
      <4>1. \A d \in Client : call'[d] = call[d]
        BY <2>3, <3>2, ClientAssumption DEF Caller, restore
      <4> QED
        BY <1>r, <2>1, <2>2, <2>3, <3>2, <4>1 DEF WInv, Restoring, StartPcs
    <3> QED
      BY <1>2, <3>1, <3>2
  <2>5. StartsAlone' /\ Closing' /\ ClosedStops'
    BY <2>1, <2>2 DEF StartsAlone, Closing, ClosedStops, Quiet
  <2>6. OpenRuns'
    BY <2>3 DEF OpenRuns
  <2> QED
    BY <2>4, <2>5, <2>6 DEF WInv
<1>7. CASE NewWaitLock(c)
  <2> DEFINE f == [call EXCEPT ![c].pc = "save"]
  <2>1. f \in [Caller -> Calls] /\ f[c].pc = "save"
    <3>1. call[c] \in [op : Ops, pc : Pcs]
      BY <1>0, <1>1 DEF Calls, At, Idle
    <3>2. [call[c] EXCEPT !.pc = "save"] \in Calls
      BY <3>1 DEF Calls, Pcs
    <3> QED
      BY <1>0, <3>1, <3>2
  <2>2. \A d \in Caller \ {c} : f[d] = call[d]
    BY <1>0
  <2>3. /\ call' = Stranded(f) /\ waitLock' = "open" /\ At(c, "relock")
        /\ UNCHANGED <<daemon, listed, state, mon, file>>
    BY <1>7 DEF NewWaitLock, Make
  <2> HIDE DEF f
  <2>4. /\ call'[c].pc = "save"
        /\ \A d \in Caller \ {c} :
              call[d].pc # "blocked" => call'[d] = call[d]
    BY <2>1, <2>2, <2>3, CallsStranded
  <2>5. Quiet /\ Quiet' /\ state'.running = "yes"
    BY <2>3 DEF WInv, StartsAlone, StartPcs, At, Quiet, IInv, Already
  <2>6. Restoring'
    <3>1. CASE c \in Client
      <4>1. daemon # "restoring" /\ call[restore] = Idle
        BY <1>1, <3>1, ClientServed DEF WInv
      <4>2. call'[restore] = Idle
        BY <1>3, <2>4, <3>1, <4>1, ClientAssumption DEF restore, Idle
      <4> QED
        BY <2>3, <4>1, <4>2, RestoringClient DEF WInv
    <3>2. CASE c = restore
      <4>1. \A d \in Client : call[d] = Idle /\ call'[d] = Idle
        BY <1>r, <2>4, <3>2, ClientAssumption DEF Caller, restore, WInv, Restoring, Idle
      <4> QED
        BY <1>r, <2>3, <2>4, <2>5, <3>2, <4>1 DEF WInv, Restoring, StartPcs
    <3> QED
      BY <1>2, <3>1, <3>2
  <2>7. StartsAlone' /\ Closing' /\ ClosedStops' /\ OpenRuns'
    BY <2>3, <2>5 DEF StartsAlone, Closing, ClosedStops, OpenRuns, Quiet
  <2> QED
    BY <2>6, <2>7 DEF WInv
<1>8. CASE SaveAndMonitor(c)
  <2>1. /\ mon' = [mon EXCEPT ![cmd] = "wait"] /\ At(c, "save")
        /\ UNCHANGED <<daemon, listed, state, waitLock>>
        /\ file # "gone" => file' # "gone"
    BY <1>8 DEF SaveAndMonitor, Save, Writes
  <2>2. cmd \in Run /\ state.running = "yes"
    BY <2>1 DEF At, IInv, Already, Unwatched, Launching
  <2>3. Quiet /\ Quiet'
    BY <1>0, <2>1, <2>2 DEF WInv, StartsAlone, StartPcs, At, Quiet
  <2>4. /\ call'[c].pc \in {"idle", "register"}
        /\ c = restore => call'[c].pc = "register"
        /\ \A d \in Caller \ {c} : call'[d] = call[d]
    BY <1>0, <1>1, <1>8, CallAfterStart, CallMoves DEF SaveAndMonitor, StartReturns, Pcs
  <2>5. waitLock = "open"
    <3>1. \A d \in Caller : call[d].pc # "relock"
      BY <2>1, HoldsAlone DEF At, Holders
    <3> QED
      BY <2>2, <3>1 DEF WInv, OpenRuns
  <2>6. Restoring'
    <3>1. CASE c \in Client
      BY <1>1, <1>3, <2>1, <2>4, <3>1, ClientServed, RestoringClient, ClientAssumption
         DEF WInv, restore
    <3>2. CASE c = restore
      <4>1. \A d \in Client : call'[d] = call[d]
        BY <2>4, <3>2, ClientAssumption DEF Caller, restore
      <4> QED
        BY <1>r, <2>1, <2>2, <2>3, <2>4, <3>2, <4>1 DEF WInv, Restoring, StartPcs
    <3> QED
      BY <1>2, <3>1, <3>2
  <2>7. StartsAlone' /\ Closing' /\ ClosedStops' /\ OpenRuns'
    BY <2>1, <2>2, <2>3, <2>5 DEF StartsAlone, Closing, ClosedStops, OpenRuns, Quiet
  <2> QED
    BY <2>6, <2>7 DEF WInv
<1> QED
  BY <1>4, <1>5, <1>6, <1>7, <1>8 DEF Start

LEMMA WOthers ==
    ASSUME TypeOK, IInv, WInv, NEW c \in Caller,
           Stop(c) \/ Destroy(c) \/ WaitReturns(c)
    PROVE  WInv'
<1> USE DEF contVars, monVars, procVars, diskVars
<1>0. call \in [Caller -> Calls]
  BY DEF TypeOK
<1>1. /\ call[c].pc \in {"stop", "term", "kill", "killed", "final"} \cup
            {"unmount", "deregister", "remove", "woken"}
      /\ UNCHANGED <<daemon, state, waitLock, mon>>
      /\ listed' = listed \/ listed' = "no"
  BY DEF Stop, StopLocked, Released, TermTimeout, SendKill, KillTimeout,
         Destroy, Unmount, Deregister, Remove, WaitReturns, At
<1>2. c \in Client /\ ~ At(c, "idle")
  BY <1>1 DEF Caller, WInv, Restoring, StartPcs, At
<1>3. \/ AfterStop(c) \/ Return(c)
      \/ \E p \in {"term", "kill", "killed", "final", "deregister", "remove"} : Becomes(c, p)
  BY DEF Stop, StopLocked, Released, TermTimeout, SendKill, KillTimeout,
         Destroy, Unmount, Deregister, Remove, WaitReturns
<1>4. call'[c].pc \notin StartPcs /\ \A d \in Caller \ {c} : call'[d] = call[d]
  <2>1. CASE AfterStop(c) \/ Return(c)
    BY <1>0, <1>2, <2>1, CallAfterStop, CallReturns DEF StartPcs, Idle
  <2>2. CASE \E p \in {"term", "kill", "killed", "final", "deregister", "remove"} : Becomes(c, p)
    BY <1>0, <1>2, <2>2, CallMoves DEF StartPcs, Pcs
  <2> QED
    BY <1>3, <2>1, <2>2
<1> QED
  BY <1>1, <1>2, <1>4, WClient

LEMMA WRequest ==
    ASSUME TypeOK, WInv, NEW c \in Client, NEW op \in Ops, Request(c, op)
    PROVE  WInv'
<1>1. c \in Caller /\ c # restore /\ restore \in Caller
  BY ClientAssumption DEF Caller, restore
<1>2. /\ call'[c].pc \in {"start", "woken", "blocked", "stop"}
      /\ \A d \in Caller \ {c} : call'[d] = call[d]
  BY <1>1 DEF Request, FirstPc, TypeOK
<1>3. daemon = "serving" /\ UNCHANGED <<daemon, listed, state, waitLock, mon>>
  BY DEF Request, contVars, monVars
<1>4. call[restore] = Idle /\ call'[restore] = Idle
  BY <1>1, <1>2, <1>3 DEF WInv, Restoring
<1>5. Restoring'
  BY <1>3, <1>4, RestoringClient DEF WInv
<1>6. At(c, "idle")
  BY DEF Request
<1> QED
  BY <1>2, <1>3, <1>4, <1>5, <1>6, WMoves DEF WInv, StartsAlone, StartPcs, At

LEMMA DiesWInv ==
    ASSUME Dies PROVE WInv'
BY DEF Dies, WInv, StartsAlone, Closing, OpenRuns, ClosedStops, Restoring, Quiet,
       StartPcs, Created, Idle, Caller

LEMMA WHost ==
    ASSUME WInv, ProcessExits \/ Crash \/ Reboot
    PROVE  WInv'
<1>1. CASE ProcessExits
  BY <1>1 DEF ProcessExits, contVars, monVars, diskVars, WInv, StartsAlone, Closing, OpenRuns,
              ClosedStops, Restoring, Quiet
<1> QED
  BY <1>1, DiesWInv DEF Crash, Reboot

(* Only a monitor between setStopped and close closes the waitLock, and it *)
(* is open then.                                                           *)
LEMMA WMonitor ==
    ASSUME Orderly, TypeOK, IInv, WInv, NEW r \in Run, Monitor(r)
    PROVE  WInv'
<1> USE DEF contVars, monVars, procVars, diskVars
<1>0. mon \in [Run -> MonitorPcs] /\ call \in [Caller -> Calls] /\ restore \in Caller
  BY DEF TypeOK, Caller
<1>1. CASE ProcessOver(r)
  <2>1. /\ mon[r] = "wait" /\ mon' = [mon EXCEPT ![r] = "stop"]
        /\ UNCHANGED <<daemon, listed, call, state, waitLock, file>>
    BY <1>1 DEF ProcessOver, Proceeds, Then
  <2>2. \A q \in Run : mon'[q] = "close" <=> mon[q] = "close"
    BY <1>0, <2>1
  <2> QED
    BY <2>1, <2>2 DEF WInv, StartsAlone, Closing, OpenRuns, ClosedStops, Restoring, Quiet
<1>2. CASE SetStopped(r)
  <2>1. /\ mon[r] = "stop" /\ mon' = [mon EXCEPT ![r] = "close"] /\ Registered
        /\ state'.running = "no"
        /\ UNCHANGED <<daemon, listed, call, waitLock, file>>
    BY <1>2 DEF SetStopped, Proceeds, Then
  <2>2. Watchers # {}
    BY <2>1 DEF Watchers
  <2>3. /\ state.running = "yes"
        /\ \A c \in Caller : call[c].pc \notin StartPcs
    BY <2>2 DEF IInv, WatcherRuns, NotYet, Already, StartPcs
  <2>4. waitLock = "open" /\ Quiet
    BY <2>3 DEF WInv, OpenRuns, Closing, Quiet, StartPcs
  <2>5. \A q \in Run : mon'[q] = "close" => q = r
    BY <1>0, <2>1, <2>4 DEF Quiet
  <2>6. mon'[r] = "close"
    BY <1>0, <2>1
  <2>7. call[restore].pc # "register"
    BY <2>1 DEF Orderly, WInv, Restoring, Registered, At, Idle
  <2> QED
    BY <1>0, <2>1, <2>3, <2>4, <2>5, <2>6, <2>7
       DEF WInv, StartsAlone, Closing, OpenRuns, ClosedStops, Restoring, Quiet
<1>3. CASE CloseWaitLock(r)
  <2>1. /\ mon[r] = "close" /\ mon' = [mon EXCEPT ![r] = "save"]
        /\ waitLock' = "closed" /\ call' = Woken(call)
        /\ UNCHANGED <<daemon, listed, state, file>>
    BY <1>3 DEF CloseWaitLock, Proceeds, Then
  <2>2. state.running = "no" /\ \A q \in Run : mon[q] = "close" => q = r
    BY <2>1 DEF WInv, Closing
  <2>3. Quiet'
    BY <1>0, <2>1, <2>2 DEF Quiet
  <2>4. \A c \in Caller : call[c].pc \notin StartPcs /\ call[restore].pc # "register"
    BY <2>1 DEF WInv, StartsAlone, Restoring, Quiet
  <2>5. call[restore] = Idle /\ daemon # "restoring" => call'[restore] = Idle
    BY <1>0, <2>1, CallsStranded DEF Idle
  <2>6. \A c \in Caller : call[c] = Idle => call'[c] = Idle
    BY <1>0, <2>1, CallsStranded DEF Idle
  <2>7. call[restore] = Idle
    <3>1. call[restore].pc = "idle"
      BY <1>0, <2>4 DEF WInv, Restoring
    <3>2. \A k \in Calls : k.pc = "idle" => k = Idle
      BY DEF Calls, Pcs, Idle
    <3> QED
      BY <1>0, <3>1, <3>2
  <2>8. Restoring'
    BY <1>0, <2>1, <2>6, <2>7 DEF WInv, Restoring, StartPcs, Idle, Caller
  <2> QED
    BY <2>1, <2>2, <2>3, <2>8 DEF WInv, StartsAlone, Closing, OpenRuns, ClosedStops, Quiet
<1>4. CASE Marshal(r) \/ WriteFile(r)
  <2>1. /\ mon[r] \in {"save", "write"}
        /\ \E pc \in {"write", "none"} : mon' = [mon EXCEPT ![r] = pc]
        /\ UNCHANGED <<daemon, listed, call, state, waitLock>>
        /\ file # "gone" => file' # "gone"
    BY <1>4 DEF Marshal, WriteFile, Writes
  <2>2. \A q \in Run : mon'[q] = "close" <=> mon[q] = "close"
    BY <1>0, <2>1
  <2> QED
    BY <2>1, <2>2 DEF WInv, StartsAlone, Closing, OpenRuns, ClosedStops, Restoring, Quiet
<1>5. CASE ClosePanics(r)
  BY <1>5, DiesWInv DEF ClosePanics
<1> QED
  BY <1>1, <1>2, <1>3, <1>4, <1>5 DEF Monitor

LEMMA WRestore ==
    ASSUME TypeOK, IInv, WInv, Restore
    PROVE  WInv'
<1> USE DEF contVars, monVars, procVars, diskVars
<1>0. mon \in [Run -> MonitorPcs] /\ call \in [Caller -> Calls] /\ restore \in Caller
  BY DEF TypeOK, Caller
<1>1. CASE LoadStopped \/ LoadGhost \/ LoadUnknown \/ LoadDead
  <2>1. /\ \A r \in Run : mon[r] = "none"
        /\ \A c \in Caller : call[c] = Idle
        /\ call' = call /\ daemon' = "serving"
    BY <1>1 DEF LoadStopped, LoadGhost, LoadUnknown, LoadDead, Load, Settled, IInv, Nobody
  <2>2. mon' = mon \/ mon' = [mon EXCEPT ![proc] = "wait"]
    BY <1>1 DEF LoadStopped, LoadGhost, LoadUnknown, LoadDead, Reattach
  <2>3. Quiet'
    BY <1>0, <2>1, <2>2 DEF Quiet
  <2>4. /\ state'.running = "yes" => waitLock' = "open"
        /\ Complete /\ state'.running = "no" => waitLock' = "closed"
    <3>1. CASE LoadStopped
      BY <3>1 DEF LoadStopped, WaitLockOf
    <3>2. CASE LoadGhost
      BY <3>2 DEF LoadGhost, WaitLockOf
    <3>3. CASE LoadUnknown
      BY <3>3 DEF LoadUnknown
    <3>4. CASE LoadDead
      BY <3>4 DEF LoadDead, WaitLockOf, Complete
    <3> QED
      BY <1>1, <3>1, <3>2, <3>3, <3>4
  <2>5. Restoring'
    BY <1>0, <2>1 DEF Restoring, Idle, StartPcs
  <2> QED
    BY <2>3, <2>4, <2>5 DEF WInv, StartsAlone, Closing, OpenRuns, ClosedStops, Quiet
<1>2. CASE LoadRestart
  <2>1. /\ \A r \in Run : mon[r] = "none"
        /\ \A c \in Caller : call[c] = Idle
    BY <1>2 DEF LoadRestart, Load, IInv, Nobody
  <2>2. /\ call' = [call EXCEPT ![restore] = [op |-> "start", pc |-> "mount"]]
        /\ mon' = mon /\ state'.running = "no" /\ waitLock' = "open"
        /\ daemon' = "restoring" /\ AutoRestart /\ file' # "gone"
    BY <1>2 DEF LoadRestart, Load
  <2>3. /\ call'[restore].pc = "mount"
        /\ \A c \in Client : call'[c] = Idle
    BY <1>0, <2>1, <2>2, ClientAssumption DEF Caller, restore
  <2>4. Quiet'
    BY <2>1, <2>2 DEF Quiet
  <2>5. Restoring'
    BY <2>2, <2>3 DEF Restoring, StartPcs
  <2> QED
    BY <2>2, <2>3, <2>4, <2>5 DEF WInv, StartsAlone, Closing, OpenRuns, ClosedStops, Quiet
<1>3. CASE RegisterEnds
  <2>1. /\ At(restore, "register") /\ Return(restore)
        /\ waitLock' = (IF state.running = "no" THEN "closed" ELSE waitLock)
        /\ UNCHANGED <<daemon, listed, state, mon, file>>
    BY <1>3 DEF RegisterEnds
  <2>2. call'[restore] = Idle /\ \A d \in Caller \ {restore} : call'[d] = call[d]
    BY <1>0, <2>1, CallReturns
  <2>3. Quiet /\ Quiet' /\ daemon = "restoring" /\ \A c \in Client : call[c] = Idle
    BY <2>1 DEF WInv, Restoring, At, Idle, Quiet
  <2>4. \A c \in Client : call'[c] = Idle
    BY <2>2, <2>3, ClientAssumption DEF Caller, restore
  <2>5. Restoring'
    BY <2>1, <2>2, <2>3, <2>4 DEF WInv, Restoring, Idle, StartPcs
  <2>6. OpenRuns'
    <3>1. \A c \in Caller : call[c].pc # "relock"
      BY <2>1, <2>3 DEF Caller, At, Idle
    <3> QED
      BY <2>1, <3>1 DEF WInv, OpenRuns
  <2>7. StartsAlone' /\ Closing' /\ ClosedStops'
    BY <2>1, <2>3 DEF StartsAlone, Closing, ClosedStops, Quiet
  <2> QED
    BY <2>5, <2>6, <2>7 DEF WInv
<1>4. CASE RegisterPanics
  BY <1>4, DiesWInv DEF RegisterPanics
<1>5. CASE LoadFails \/ Serve
  <2>1. /\ daemon' = "serving"
        /\ UNCHANGED <<call, listed, state, waitLock, mon>>
    BY <1>5 DEF LoadFails, Serve
  <2>2. call[restore] = Idle
    <3>1. \A k \in Calls : k.pc = "idle" => k = Idle
      BY DEF Calls, Pcs, Idle
    <3> QED
      BY <1>0, <1>5, <3>1 DEF LoadFails, Serve, IInv, Nobody, At
  <2>3. Restoring'
    BY <2>1, <2>2 DEF Restoring, Idle, StartPcs
  <2> QED
    BY <2>1, <2>3, WMoves DEF WInv, StartsAlone
<1> QED
  BY <1>1, <1>2, <1>3, <1>4, <1>5 DEF Restore

LEMMA NextWInv ==
    ASSUME Orderly
    PROVE  TypeOK /\ IInv /\ WInv /\ [Next]_vars => WInv'
<1> SUFFICES ASSUME TypeOK, IInv, WInv, [Next]_vars
             PROVE  WInv'
  OBVIOUS
<1>1. CASE Next
  BY <1>1, WRequest, WStart, WOthers, WMonitor, WRestore, WHost
     DEF Next, RequestStep, CallerStep, MonitorStep, RestoreStep, HostStep
<1>2. CASE UNCHANGED vars
  BY <1>2 DEF vars, WInv, StartsAlone, Closing, OpenRuns, ClosedStops, Restoring, Quiet
<1> QED
  BY <1>1, <1>2

LEMMA WInvariance ==
    ASSUME Orderly PROVE Spec => []WInv
<1>1. TypeOK /\ IInv /\ WInv /\ [Next]_vars => WInv'
  BY NextWInv
<1> QED
  BY <1>1, InitWInv, Invariance, PTL DEF Spec

(* As long as no Start falls between setStopped and close in monitor: a    *)
(* stopped container's waitLock is closed and a running one's open, and    *)
(* nobody closes a closed channel (container.go Start and monitor,         *)
(* runtime.go Register), for any number of requests, with crashes, a full  *)
(* disk excepted, and whatever else goes wrong.                            *)
THEOREM WaitLockIsSound ==
    ASSUME Orderly, Complete
    PROVE  Spec => []WaitLockSound
<1>1. TypeOK /\ WInv => WaitLockSound
  <2> SUFFICES ASSUME TypeOK, WInv PROVE WaitLockFollows /\ NoPanic
    BY DEF WaitLockSound
  <2>1. ~ Starting => \A c \in Caller : call[c].pc # "relock"
    BY DEF Starting, Launching
  <2>2. state.running \in {"yes", "no"}
    BY DEF TypeOK, State
  <2>3. WaitLockFollows
    BY <2>1, <2>2 DEF WInv, OpenRuns, ClosedStops, Quiet, WaitLockFollows, At
  <2>4. NoPanic
    BY DEF WInv, Closing, Restoring, NoPanic, At
  <2> QED
    BY <2>3, <2>4
<1> QED
  BY <1>1, Invariance, WInvariance, PTL
-----------------------------------------------------------------------------
(* A process that lxc runs is the one the daemon waits for, and config.json*)
(* knows of it; and from its Start on nobody is still writing, unmounting  *)
(* or removing what belonged to the process before.                        *)

(* The stretches that must be left alone, and the calls that must succeed, *)
(* for a daemon not to lose track of a process.                            *)
Sheltered ==
    /\ {"exit", "save", "launch", "remove"} \cap Windows = {}
    /\ AutoRestart => "register" \notin Windows
Reliable == {"info", "save"} \cap Faults = {}

Removing == {"unmount", "deregister", "remove"}

CmdAlive == \A c \in Caller : Launching(c) => proc \in {NoRun, cmd}

Present ==
    proc # NoRun =>
        mounted = "yes" /\ file # "gone" /\ (daemon # "down" => listed = "yes")

(* Nothing is left to do for the process before. *)
Finished ==
    /\ \A r \in Run : mon[r] \notin {"save", "write"}
    /\ \A c \in Caller : call[c].pc \notin Removing

Undisturbing ==
    /\ \A c \in Caller : call[c].pc \in StartPcs => Finished
    /\ state.running = "yes" => Finished

Prepared ==
    \A c \in Caller :
        /\ call[c].pc = "launch" \/ Launching(c) => mounted = "yes"
        /\ Launching(c) => file # "gone" /\ listed = "yes"

Unmounted ==
    \A c \in Caller : call[c].pc \in {"deregister", "remove"} => mounted = "no"

Unlisted ==
    daemon # "down" /\ listed = "no" =>
        \/ file = "gone"
        \/ \E c \in Caller : call[c].pc = "remove"
        \/ \A c \in Caller : call[c] = Idle

AInv ==
    /\ AliveIsWatched /\ AliveIsOnDisk /\ CmdAlive /\ Present
    /\ Undisturbing /\ Prepared /\ Unmounted /\ Unlisted

LEMMA InitAInv == Init => AInv
BY DEF Init, AInv, AliveIsWatched, AliveIsOnDisk, CmdAlive, Present, Finished,
       Undisturbing, Prepared, Unmounted, Unlisted, Starting, Launching,
       StartPcs, Removing, Created, Idle

(* A stopped container that nobody is about to start has no process.       *)
LEMMA StoppedIsOver ==
    ASSUME TypeOK, AInv, daemon # "down", state.running = "no",
           \A c \in Caller : ~ Launching(c)
    PROVE  proc = NoRun
BY DEF AInv, AliveIsWatched, Starting

(* A process whose monitor is not at "wait" any more is over, and nobody   *)
(* has started another.                                                    *)
LEMMA WatchedIsOver ==
    ASSUME TypeOK, IInv, AInv, NEW r \in Watchers, proc # r \/ mon[r] = "stop"
    PROVE  /\ proc = NoRun /\ daemon # "down" /\ state.running = "yes"
           /\ \A c \in Caller : call[c].pc \notin StartPcs
<1>1. r \in Run /\ mon[r] # "none"
  BY DEF Watchers
<1>2. daemon # "down" /\ state.running = "yes"
  BY <1>1 DEF IInv, Nobody, WatcherRuns
<1>3. \A c \in Caller : call[c].pc \notin StartPcs
  BY <1>2 DEF IInv, NotYet, Already, StartPcs
<1>4. ~ Starting
  BY <1>3 DEF Starting, Launching, StartPcs
<1>5. proc # NoRun => proc \in Watchers /\ mon[proc] = "wait"
  BY <1>2, <1>4 DEF TypeOK, AInv, AliveIsWatched, Watchers
<1> QED
  BY <1>2, <1>3, <1>5 DEF IInv, AtMostOne

(* A step of one caller outside of Launch to SaveAndMonitor that leaves    *)
(* the container, its monitors and its files alone.                        *)
LEMMA AMoves ==
    ASSUME AInv, NEW c \in Caller, ~ At(c, "idle"), ~ At(c, "remove"), ~ Launching(c),
           UNCHANGED <<daemon, listed, state, cmd, mon, mounted, file, saved>>,
           proc' \in {proc, NoRun},
           \A d \in Caller \ {c} : call'[d] = call[d],
           ~ Launching(c)',
           call'[c].pc \in StartPcs => Finished /\ call'[c].pc \notin Removing,
           call'[c].pc = "launch" => mounted = "yes",
           call'[c].pc \in Removing =>
               state.running = "no" /\ \A d \in Caller \ {c} : call[d].pc \notin StartPcs,
           call'[c].pc \in {"deregister", "remove"} => mounted = "no"
    PROVE  AInv'
<1>1. \A d \in Caller : Launching(d)' <=> Launching(d)
  BY DEF Launching
<1>2. AliveIsWatched' /\ AliveIsOnDisk' /\ CmdAlive' /\ Present'
  BY <1>1 DEF AInv, AliveIsWatched, AliveIsOnDisk, CmdAlive, Present, Starting
<1>3. Undisturbing'
  BY DEF AInv, Undisturbing, Finished, StartPcs, Removing
<1>4. Prepared' /\ Unmounted'
  BY <1>1 DEF AInv, Prepared, Unmounted
<1>5. Unlisted'
  BY DEF AInv, Unlisted, At, Idle
<1> QED
  BY <1>2, <1>3, <1>4, <1>5 DEF AInv

LEMMA AStart ==
    ASSUME Sheltered, Reliable, TypeOK, IInv, AInv, NEW c \in Caller, Start(c)
    PROVE  AInv'
<1> USE DEF contVars, monVars, procVars, diskVars
<1>0. call \in [Caller -> Calls] /\ mon \in [Run -> MonitorPcs]
  BY DEF TypeOK
<1>1. ~ At(c, "idle") /\ daemon # "down"
  BY CallerLives DEF Start, StartLocked, Mount, StartFails, Launch, SetRunning,
         NewWaitLock, SaveAndMonitor, At
<1>2. CASE StartLocked(c)
  <2>1. Finished
    BY <1>2 DEF StartLocked, Undisturbed, Sheltered, Finished, Removing
  <2>2. /\ call'[c].pc \in {"idle", "mount"}
        /\ \A d \in Caller \ {c} : call'[d] = call[d]
    BY <1>0, <1>1, <1>2, CallReturns, CallMoves DEF StartLocked, Pcs, Idle
  <2> QED
    BY <1>1, <1>2, <2>1, <2>2, AMoves DEF StartLocked, At, Launching, Removing, StartPcs
<1>3. CASE Mount(c)
  <2>1. At(c, "mount") /\ Finished
    BY <1>3 DEF Mount, At, AInv, Undisturbing, StartPcs
  <2>2. call'[c].pc = "launch" /\ \A d \in Caller \ {c} : call'[d] = call[d]
    BY <1>0, <1>1, <1>3, CallMoves DEF Mount, Pcs
  <2>3. \A d \in Caller : Launching(d)' <=> Launching(d)
    BY <2>1, <2>2 DEF Launching, At
  <2>4. AliveIsWatched' /\ AliveIsOnDisk' /\ CmdAlive' /\ Present'
    BY <1>3, <2>3 DEF Mount, AInv, AliveIsWatched, AliveIsOnDisk, CmdAlive, Present, Starting
  <2>5. Undisturbing'
    BY <1>3, <2>1, <2>2 DEF Mount, Undisturbing, Finished, Removing
  <2>6. Prepared' /\ Unmounted'
    BY <1>3, <2>1, <2>2, <2>3 DEF Mount, AInv, Prepared, Unmounted, Finished, Removing
  <2>7. Unlisted'
    BY <1>1, <1>3, <2>1, <2>2 DEF Mount, AInv, Unlisted, At, Idle
  <2> QED
    BY <2>4, <2>5, <2>6, <2>7 DEF AInv
<1>4. CASE StartFails(c)
  <2>1. call[c].pc \in {"mount", "launch"} /\ Finished
    BY <1>4 DEF StartFails, AInv, Undisturbing, StartPcs
  <2>2. /\ call'[c].pc \in {"idle", "register"}
        /\ \A d \in Caller \ {c} : call'[d] = call[d]
    BY <1>0, <1>1, <1>4, CallReturns, CallAfterStart DEF StartFails, Idle
  <2> QED
    BY <1>1, <1>4, <2>1, <2>2, AMoves DEF StartFails, At, Launching, Removing
<1>5. CASE Launch(c)
  <2>1. At(c, "launch") /\ file # "gone" /\ Finished /\ mounted = "yes"
    BY <1>5 DEF Launch, At, AInv, Undisturbing, StartPcs, Prepared
  <2>2. call'[c].pc = "running" /\ \A d \in Caller \ {c} : call'[d] = call[d]
    BY <1>0, <1>1, <1>5, CallMoves DEF Launch, Pcs
  <2>3. state.running = "no" /\ \A d \in Caller : ~ Launching(d)
    BY <2>1, HoldsAlone DEF At, IInv, NotYet, Launching, Holders
  <2>4. proc = NoRun
    BY <1>1, <2>3, StoppedIsOver
  <2>5. /\ proc' = cmd'
        /\ UNCHANGED <<daemon, listed, state, mon, mounted, file, saved>>
    BY <1>5, <2>4 DEF Launch
  <2>6. listed = "yes"
    BY <1>1, <2>1 DEF AInv, Unlisted, Finished, Removing, At, Idle, TypeOK
  <2>7. Launching(c)' /\ Starting'
    BY <2>2 DEF Launching, Starting
  <2>8. AliveIsWatched' /\ AliveIsOnDisk' /\ CmdAlive' /\ Present'
    BY <2>1, <2>5, <2>6, <2>7 DEF AliveIsWatched, AliveIsOnDisk, CmdAlive, Present
  <2>9. Undisturbing' /\ Unmounted'
    BY <2>1, <2>2, <2>5 DEF AInv, Undisturbing, Finished, Removing, Unmounted
  <2>10. Prepared' /\ Unlisted'
    BY <2>1, <2>5, <2>6 DEF Prepared, Unlisted
  <2> QED
    BY <2>8, <2>9, <2>10 DEF AInv
<1>6. CASE SetRunning(c) \/ NewWaitLock(c)
  <2>1. /\ call[c].pc \in {"running", "relock"} /\ Finished
        /\ UNCHANGED <<daemon, listed, cmd, mon, proc, mounted, file, saved>>
    BY <1>6 DEF SetRunning, NewWaitLock, At, AInv, Undisturbing, StartPcs
  <2>2. /\ call'[c].pc \in {"relock", "save"}
        /\ \A d \in Caller \ {c} :
              \/ call'[d] = call[d]
              \/ call[d].pc = "blocked" /\ call'[d].pc = "stranded"
    <3>1. CASE SetRunning(c)
      BY <1>0, <1>1, <3>1, CallMoves DEF SetRunning, Pcs
    <3>2. CASE NewWaitLock(c)
      <4> DEFINE f == [call EXCEPT ![c].pc = "save"]
      <4>1. f \in [Caller -> Calls] /\ f[c].pc = "save"
        <5>1. call[c] \in [op : Ops, pc : Pcs]
          BY <1>0, <1>1 DEF Calls, At, Idle
        <5>2. [call[c] EXCEPT !.pc = "save"] \in Calls
          BY <5>1 DEF Calls, Pcs
        <5> QED
          BY <1>0, <5>1, <5>2
      <4>2. \A d \in Caller \ {c} : f[d] = call[d]
        BY <1>0
      <4>3. call' = Stranded(f)
        BY <3>2 DEF NewWaitLock
      <4> HIDE DEF f
      <4> QED
        BY <4>1, <4>2, <4>3, CallsStranded
    <3> QED
      BY <1>6, <3>1, <3>2
  <2>3. \A d \in Caller : Launching(d)' <=> Launching(d)
    BY <2>1, <2>2 DEF Launching
  <2>4. Starting'
    BY <2>2 DEF Starting, Launching
  <2>5. AliveIsWatched' /\ AliveIsOnDisk' /\ CmdAlive' /\ Present'
    BY <2>1, <2>3, <2>4 DEF AliveIsWatched, AliveIsOnDisk, AInv, CmdAlive, Present
  <2>6. Undisturbing'
    BY <2>1, <2>2 DEF Undisturbing, Finished, Removing
  <2>7. Prepared' /\ Unmounted'
    BY <2>1, <2>2, <2>3 DEF AInv, Prepared, Unmounted, Launching
  <2>8. Unlisted'
    BY <2>1, <2>2, <2>3 DEF AInv, Unlisted, Prepared, Launching
  <2> QED
    BY <2>5, <2>6, <2>7, <2>8 DEF AInv
<1>7. CASE SaveAndMonitor(c)
  <2>1. /\ At(c, "save") /\ Finished /\ state.running = "yes"
        /\ proc \in {NoRun, cmd} /\ cmd \in Run
        /\ mounted = "yes" /\ file # "gone" /\ listed = "yes"
    BY <1>7 DEF SaveAndMonitor, At, AInv, Undisturbing, StartPcs, IInv, Already,
                Unwatched, CmdAlive, Prepared, Launching
  <2>2. /\ mon' = [mon EXCEPT ![cmd] = "wait"]
        /\ file' = "good" /\ saved' = state
        /\ UNCHANGED <<daemon, listed, state, cmd, proc, mounted>>
    BY <1>7, <2>1 DEF SaveAndMonitor, Save, Writes, Reliable
  <2>3. /\ call'[c].pc \in {"idle", "register"}
        /\ \A d \in Caller \ {c} : call'[d] = call[d]
    BY <1>0, <1>1, <1>7, CallAfterStart DEF SaveAndMonitor
  <2>4. \A d \in Caller \ {c} : call[d].pc \notin StartPcs
    BY <2>1, HoldsAlone DEF At, StartPcs, Holders
  <2>5. mon'[cmd] = "wait" /\ \A q \in Run \ {cmd} : mon'[q] = mon[q]
    BY <1>0, <2>1, <2>2
  <2>6. AliveIsWatched' /\ AliveIsOnDisk'
    BY <2>1, <2>2, <2>5 DEF AliveIsWatched, AliveIsOnDisk
  <2>7. CmdAlive' /\ Present'
    BY <2>1, <2>2, <2>3, <2>4 DEF CmdAlive, Present, Launching, StartPcs
  <2>8. Undisturbing'
    BY <2>1, <2>2, <2>3, <2>5 DEF Undisturbing, Finished, Removing
  <2>9. Prepared' /\ Unmounted' /\ Unlisted'
    BY <2>1, <2>2, <2>3 DEF AInv, Prepared, Unmounted, Unlisted, Finished, Removing
  <2> QED
    BY <2>6, <2>7, <2>8, <2>9 DEF AInv
<1> QED
  BY <1>2, <1>3, <1>4, <1>5, <1>6, <1>7 DEF Start

(* A Stop that lets its request go on has found the container stopped, and *)
(* keeps every Start out until then.                                       *)
LEMMA StopEnds ==
    ASSUME TypeOK, IInv, WInv, NEW c \in Caller, Stop(c), AfterStop(c),
           ~ (At(c, "killed") /\ waitLock = "open")
    PROVE  /\ state.running = "no" /\ UNCHANGED <<daemon, state>>
           /\ proc' \in {proc, NoRun} /\ ~ At(c, "idle")
           /\ \A d \in Caller : call[d].pc \notin StartPcs
<1>1. /\ ~ At(c, "idle") /\ call[c].pc \in {"stop", "term", "kill", "killed", "final"}
      /\ UNCHANGED <<daemon, state>> /\ proc' \in {proc, NoRun}
  BY DEF Stop, StopLocked, Released, TermTimeout, SendKill, KillTimeout, At,
         contVars, procVars
<1>2. call \in [Caller -> Calls] /\ waitLock \in {"open", "closed"}
  BY DEF TypeOK
<1>3. call'[c].pc \in {"idle", "start", "unmount"}
  BY <1>1, <1>2, CallAfterStop
<1>4. \A d \in Caller : call[d].pc \notin StartPcs
  <2>1. CASE StopLocked(c)
    BY <2>1, FreeAssumption DEF StopLocked, IInv, LockHeld, Holders, StartPcs, Caller, restore
  <2>2. CASE ~ StopLocked(c)
    <3>1. call[c].pc \in Holders \ StartPcs
      BY <2>2 DEF Stop, Released, TermTimeout, SendKill, KillTimeout, At, Holders, StartPcs
    <3> QED
      BY <3>1, HoldsAlone DEF Holders, StartPcs
  <2> QED
    BY <2>1, <2>2
<1>5. waitLock = "closed" => state.running # "yes"
  BY <1>4 DEF WInv, OpenRuns, StartPcs
<1>6. state.running \in {"yes", "no"}
  BY DEF TypeOK, State
<1>7. state.running = "no"
  <2>1. \A p \in Pcs : Becomes(c, p) => call'[c].pc = p
    BY <1>1, <1>2, CallMoves
  <2>2. {"term", "kill", "killed", "final"} \subseteq Pcs
    BY DEF Pcs
  <2>3. \A p \in {"term", "kill", "killed", "final"} : ~ Becomes(c, p)
    BY <1>3, <2>1, <2>2
  <2>4. CASE StopLocked(c) \/ TermTimeout(c) \/ SendKill(c)
    BY <1>6, <2>3, <2>4 DEF StopLocked, TermTimeout, SendKill
  <2>5. CASE Released(c)
    BY <1>5, <1>6, <2>5 DEF Released
  <2>6. CASE KillTimeout(c)
    BY <1>2, <1>5, <1>6, <2>6 DEF KillTimeout, At
  <2> QED
    BY <2>4, <2>5, <2>6 DEF Stop
<1> QED
  BY <1>1, <1>4, <1>7

LEMMA AStop ==
    ASSUME TypeOK, IInv, WInv, AInv, NEW c \in Caller, Stop(c)
    PROVE  AInv'
<1> USE DEF contVars, monVars, procVars, diskVars
<1>0. call \in [Caller -> Calls]
  BY DEF TypeOK
<1>1. /\ ~ At(c, "idle") /\ ~ At(c, "remove") /\ ~ Launching(c)
      /\ UNCHANGED <<daemon, listed, state, cmd, mon, mounted, file, saved>>
      /\ proc' \in {proc, NoRun}
  BY DEF Stop, StopLocked, Released, TermTimeout, SendKill, KillTimeout, At, Launching
<1>2. CASE AfterStop(c) /\ ~ (At(c, "killed") /\ waitLock = "open")
  <2>1. state.running = "no" /\ \A d \in Caller : call[d].pc \notin StartPcs
    BY <1>2, StopEnds
  <2>2. /\ call'[c].pc \in {"idle", "start", "unmount"}
        /\ \A d \in Caller \ {c} : call'[d] = call[d]
    BY <1>0, <1>1, <1>2, CallAfterStop
  <2> QED
    BY <1>1, <2>1, <2>2, AMoves DEF Launching, Removing, StartPcs
<1>3. CASE Return(c) \/ \E p \in {"term", "kill", "killed", "final"} : Becomes(c, p)
  <2>1. /\ call'[c].pc \in {"idle", "term", "kill", "killed", "final"}
        /\ \A d \in Caller \ {c} : call'[d] = call[d]
    BY <1>0, <1>1, <1>3, CallMoves, CallReturns DEF Pcs, Idle
  <2> QED
    BY <1>1, <2>1, AMoves DEF Launching, Removing, StartPcs
<1>4. \/ AfterStop(c) /\ ~ At(c, "killed")
      \/ Return(c)
      \/ \E p \in {"term", "kill", "killed", "final"} : Becomes(c, p)
      \/ AfterStop(c) /\ waitLock = "closed"
  BY DEF Stop, StopLocked, Released, TermTimeout, SendKill, KillTimeout, At
<1> QED
  BY <1>2, <1>3, <1>4

(* docker rm goes on only as long as the container is stopped.             *)
LEMMA ADestroy ==
    ASSUME TypeOK, IInv, AInv, NEW c \in Caller, Destroy(c) \/ WaitReturns(c)
    PROVE  AInv'
<1> USE DEF contVars, monVars, procVars, diskVars
<1>0. call \in [Caller -> Calls] /\ state.running \in {"yes", "no"}
  BY DEF TypeOK, State
<1>1. CASE WaitReturns(c)
  <2>1. call'[c].pc = "idle" /\ \A d \in Caller \ {c} : call'[d] = call[d]
    BY <1>0, <1>1, CallReturns DEF WaitReturns, Idle
  <2> QED
    BY <1>1, <2>1, AMoves DEF WaitReturns, At, Launching, Removing, StartPcs
<1>2. CASE Destroy(c)
  <2>1. call[c].pc \in Removing /\ ~ At(c, "idle")
    BY <1>2 DEF Destroy, Unmount, Deregister, Remove, At, Removing
  <2>2. state.running = "no" /\ \A d \in Caller : call[d].pc \notin StartPcs
    BY <1>0, <2>1 DEF AInv, Undisturbing, Finished
  <2>3. \A d \in Caller : ~ Launching(d)
    BY <2>2 DEF Launching, StartPcs
  <2>4. proc = NoRun /\ daemon # "down"
    BY <2>1, <2>2, <2>3, CallerLives, StoppedIsOver
  <2>5. /\ call'[c].pc \in {"idle", "deregister", "remove"}
        /\ \A d \in Caller \ {c} : call'[d] = call[d]
    BY <1>0, <1>2, <2>1, CallMoves, CallReturns
       DEF Destroy, Unmount, Deregister, Remove, Pcs, Idle
  <2>6. UNCHANGED <<daemon, state, proc, mon>>
    BY <1>2 DEF Destroy, Unmount, Deregister, Remove
  <2>7. \A d \in Caller : call'[d].pc \notin StartPcs /\ ~ Launching(d)'
    BY <2>2, <2>5 DEF StartPcs, Launching
  <2>8. AliveIsWatched' /\ AliveIsOnDisk' /\ CmdAlive' /\ Present'
    BY <2>4, <2>6 DEF AliveIsWatched, AliveIsOnDisk, CmdAlive, Present
  <2>9. Undisturbing' /\ Prepared'
    BY <2>2, <2>6, <2>7 DEF Undisturbing, Prepared, StartPcs
  <2>10. Unmounted' /\ Unlisted'
    <3>1. CASE Unmount(c)
      <4>1. /\ call[c].pc = "unmount" /\ mounted' \in {mounted, "no"}
            /\ call'[c].pc \in {"idle", "deregister"}
            /\ mounted' = "no" \/ call'[c].pc = "idle"
            /\ UNCHANGED <<daemon, listed, file>>
        BY <1>0, <2>1, <3>1, CallMoves, CallReturns DEF Unmount, At, Pcs, Idle
      <4>2. Unmounted'
        BY <2>5, <4>1 DEF AInv, Unmounted
      <4>3. Unlisted'
        BY <2>5, <4>1 DEF AInv, Unlisted, Idle
      <4> QED
        BY <4>2, <4>3
    <3>2. CASE Deregister(c)
      <4>1. call'[c].pc = "remove"
        BY <1>0, <2>1, <3>2, CallMoves DEF Deregister, Pcs
      <4> QED
        BY <2>5, <3>2, <4>1 DEF Deregister, AInv, Unmounted, Unlisted, At
    <3>3. CASE Remove(c)
      BY <2>5, <3>3 DEF Remove, AInv, Unmounted, Unlisted, At
    <3> QED
      BY <1>2, <3>1, <3>2, <3>3 DEF Destroy
  <2> QED
    BY <2>8, <2>9, <2>10 DEF AInv
<1> QED
  BY <1>1, <1>2

LEMMA ARequest ==
    ASSUME TypeOK, AInv, NEW c \in Client, NEW op \in Ops, Request(c, op)
    PROVE  AInv'
<1>1. c \in Caller
  BY DEF Caller
<1>2. /\ call'[c].pc \in {"start", "woken", "blocked", "stop"} /\ At(c, "idle")
      /\ \A d \in Caller \ {c} : call'[d] = call[d]
  BY <1>1 DEF Request, FirstPc, TypeOK
<1>3. /\ listed = "yes"
      /\ UNCHANGED <<daemon, listed, state, cmd, mon, proc, mounted, file, saved>>
  BY DEF Request, contVars, monVars, procVars, diskVars
<1>4. \A d \in Caller : Launching(d)' <=> Launching(d)
  BY <1>1, <1>2 DEF Launching, At
<1>5. AliveIsWatched' /\ AliveIsOnDisk' /\ CmdAlive' /\ Present'
  BY <1>3, <1>4 DEF AInv, AliveIsWatched, AliveIsOnDisk, CmdAlive, Present, Starting
<1>6. Undisturbing'
  BY <1>1, <1>2, <1>3 DEF AInv, Undisturbing, Finished, StartPcs, Removing
<1>7. Prepared' /\ Unmounted' /\ Unlisted'
  BY <1>2, <1>3, <1>4 DEF AInv, Prepared, Unmounted, Unlisted
<1> QED
  BY <1>5, <1>6, <1>7 DEF AInv

(* A monitor lets go of a process only when it is over, and saves what the *)
(* next Start has not changed yet.                                         *)
LEMMA AMonitor ==
    ASSUME Sheltered, Reliable, TypeOK, IInv, WInv, AInv, NEW r \in Run, Monitor(r)
    PROVE  AInv'
<1> USE DEF contVars, monVars, procVars, diskVars
<1>0. mon \in [Run -> MonitorPcs] /\ call \in [Caller -> Calls] /\ restore \in Caller
  BY DEF TypeOK, Caller
<1>1. CASE ProcessOver(r) \/ SetStopped(r)
  <2>1. /\ r \in Watchers
        /\ proc # r \/ mon[r] = "stop"
        /\ UNCHANGED <<daemon, listed, call, cmd, proc, file, saved>>
        /\ mounted' \in {mounted, "no"}
        /\ state' = state \/ state'.running = "no"
    BY <1>1 DEF ProcessOver, SetStopped, Watchers, Reliable
  <2>2. /\ proc = NoRun /\ state.running = "yes"
        /\ \A c \in Caller : call[c].pc \notin StartPcs
    BY <2>1, WatchedIsOver
  <2>3. \A q \in Run : mon'[q] \in {"save", "write"} => mon[q] = mon'[q]
    BY <1>0, <1>1 DEF ProcessOver, SetStopped, Proceeds, Then
  <2>4. \A c \in Caller : ~ Launching(c) /\ ~ Launching(c)'
    BY <2>1, <2>2 DEF Launching, StartPcs
  <2>5. AliveIsWatched' /\ AliveIsOnDisk' /\ CmdAlive' /\ Present'
    BY <2>1, <2>2 DEF AliveIsWatched, AliveIsOnDisk, CmdAlive, Present
  <2>6. Undisturbing'
    BY <2>1, <2>2, <2>3 DEF AInv, Undisturbing, Finished
  <2>7. Prepared' /\ Unmounted' /\ Unlisted'
    BY <2>1, <2>2, <2>4 DEF AInv, Prepared, Unmounted, Unlisted, StartPcs
  <2> QED
    BY <2>5, <2>6, <2>7 DEF AInv
<1>2. CASE CloseWaitLock(r) \/ Marshal(r) \/ WriteFile(r)
  <2>1. /\ mon[r] \in {"close", "save", "write"}
        /\ \E p \in {"save", "write", "none"} : mon' = [mon EXCEPT ![r] = p]
        /\ UNCHANGED <<daemon, listed, state, cmd, proc, mounted>>
        /\ file' = file \/ (file # "gone" /\ file' # "gone")
    BY <1>2 DEF CloseWaitLock, Marshal, WriteFile, Writes, Proceeds, Then
  <2>2. /\ state.running = "no" /\ daemon # "down"
        /\ \A c \in Caller : call[c].pc \notin StartPcs
    <3>1. daemon # "down"
      BY <2>1 DEF IInv, Nobody
    <3>2. CASE mon[r] = "close"
      BY <3>1, <3>2 DEF WInv, Closing, StartsAlone, Quiet
    <3>3. CASE mon[r] \in {"save", "write"}
      BY <3>1, <3>3 DEF TypeOK, State, AInv, Undisturbing, Finished
    <3> QED
      BY <2>1, <3>1, <3>2, <3>3
  <2>3. /\ \A c \in Caller :
              \/ call'[c] = call[c]
              \/ call[c].pc = "blocked" /\ call'[c].pc = "woken"
    BY <1>0, <1>2, CallsStranded DEF CloseWaitLock, Marshal, WriteFile
  <2>4. \A c \in Caller : ~ Launching(c) /\ call'[c].pc \notin StartPcs /\ ~ Launching(c)'
    BY <2>2, <2>3 DEF Launching, StartPcs
  <2>5. proc = NoRun
    BY <2>2, <2>4, StoppedIsOver
  <2>6. AliveIsWatched' /\ AliveIsOnDisk' /\ CmdAlive' /\ Present'
    BY <2>1, <2>5 DEF AliveIsWatched, AliveIsOnDisk, CmdAlive, Present
  <2>7. Undisturbing' /\ Prepared'
    BY <2>1, <2>2, <2>4 DEF Undisturbing, Prepared, StartPcs
  <2>8. Unmounted'
    BY <2>1, <2>3 DEF AInv, Unmounted
  <2>9. Unlisted'
    BY <2>1, <2>3 DEF AInv, Unlisted, Idle
  <2> QED
    BY <2>6, <2>7, <2>8, <2>9 DEF AInv
<1>3. ~ ClosePanics(r)
  BY DEF ClosePanics, WInv, Closing
<1> QED
  BY <1>1, <1>2, <1>3 DEF Monitor

(* What a daemon that dies leaves behind.                                  *)
LEMMA DiesAInv ==
    ASSUME Dies, AliveIsOnDisk', Present'
    PROVE  AInv'
BY DEF Dies, AInv, AliveIsWatched, CmdAlive, Finished, Undisturbing, Prepared,
       Unmounted, Unlisted, Launching, StartPcs, Removing, Created, Idle

LEMMA AHost ==
    ASSUME Sheltered, TypeOK, IInv, AInv, ProcessExits \/ Crash \/ Reboot
    PROVE  AInv'
<1> USE DEF contVars, monVars, procVars, diskVars
<1>1. CASE ProcessExits
  BY <1>1 DEF ProcessExits, AInv, AliveIsWatched, AliveIsOnDisk, CmdAlive, Present,
      Finished, Undisturbing, Prepared, Unmounted, Unlisted, Starting, Launching
<1>2. CASE Reboot
  BY <1>2, DiesAInv DEF Reboot, AliveIsOnDisk, Present
<1>3. CASE Crash
  <2>1. /\ daemon # "down" /\ \A c \in Caller : ~ Launching(c)
        /\ Dies /\ daemon' = "down"
        /\ UNCHANGED <<proc, mounted, saved>>
    BY <1>3 DEF Crash, Dies, Undivided, Sheltered
  <2>2. CASE proc = NoRun
    BY <2>1, <2>2, DiesAInv DEF AliveIsOnDisk, Present
  <2>3. CASE proc # NoRun
    <3>1. state.running = "yes" /\ file = "good" /\ saved.running = "yes"
      BY <2>1, <2>3 DEF AInv, AliveIsWatched, AliveIsOnDisk, Starting
    <3>2. Finished /\ \A c \in Caller : ~ At(c, "save")
      BY <2>1, <3>1 DEF AInv, Undisturbing, Launching, At
    <3>3. file' = file
      BY <2>1, <3>2 DEF Dies, Finished
    <3>4. AliveIsOnDisk' /\ Present'
      BY <2>1, <2>3, <3>1, <3>3 DEF AliveIsOnDisk, Present, AInv
    <3> QED
      BY <2>1, <3>4, DiesAInv
  <2> QED
    BY <2>2, <2>3
<1> QED
  BY <1>1, <1>2, <1>3

(* restore() finds every process that still runs, or starts one where none *)
(* does.                                                                   *)
LEMMA ARestore ==
    ASSUME Sheltered, Reliable, TypeOK, IInv, WInv, AInv, Restore
    PROVE  AInv'
<1> USE DEF contVars, monVars, procVars, diskVars
<1>0. mon \in [Run -> MonitorPcs] /\ call \in [Caller -> Calls] /\ restore \in Caller
  BY DEF TypeOK, Caller
<1>1. daemon = "down" =>
        /\ \A r \in Run : mon[r] = "none"
        /\ \A c \in Caller : call[c] = Idle /\ ~ Launching(c)
        /\ ~ Starting
  BY DEF IInv, Nobody, Idle, Launching, Starting
<1>2. daemon = "down" /\ (file # "good" \/ saved.running = "no") => proc = NoRun
  BY <1>1 DEF AInv, AliveIsOnDisk
<1>3. CASE LoadStopped \/ LoadDead
  <2>1. /\ daemon = "down" /\ proc = NoRun /\ file = "good"
        /\ listed' = "yes" /\ state'.running = "no"
        /\ UNCHANGED <<call, mon, cmd, proc, mounted, file>>
    BY <1>2, <1>3 DEF LoadStopped, LoadDead, Load, Settled
  <2> QED
    BY <1>1, <2>1 DEF AInv, AliveIsWatched, AliveIsOnDisk, CmdAlive, Present, Finished,
        Undisturbing, Prepared, Unmounted, Unlisted, Starting, Launching, StartPcs,
        Removing, Idle
<1>4. CASE LoadGhost
  <2>1. /\ daemon = "down" /\ proc \in Run /\ file = "good"
        /\ listed' = "yes" /\ state' = saved /\ saved.running = "yes"
        /\ mon' = [mon EXCEPT ![proc] = "wait"]
        /\ UNCHANGED <<call, cmd, proc, mounted, file, saved>>
    BY <1>4 DEF LoadGhost, Load, Settled, Reattach, TypeOK
  <2>2. /\ mon'[proc] = "wait"
        /\ \A r \in Run : mon'[r] \in {"none", "wait"}
    BY <1>0, <1>1, <2>1
  <2>3. \A c \in Caller : call'[c] = Idle /\ ~ Launching(c)'
    BY <1>1, <2>1 DEF Idle, Launching
  <2>4. AliveIsWatched' /\ AliveIsOnDisk' /\ CmdAlive' /\ Present'
    BY <2>1, <2>2, <2>3 DEF AInv, AliveIsWatched, AliveIsOnDisk, CmdAlive, Present
  <2>5. Undisturbing' /\ Prepared' /\ Unmounted' /\ Unlisted'
    BY <2>1, <2>2, <2>3 DEF Undisturbing, Prepared, Unmounted, Unlisted, Finished,
       StartPcs, Removing, Idle
  <2> QED
    BY <2>4, <2>5 DEF AInv
<1>5. ~ LoadUnknown
  BY DEF LoadUnknown, Reliable
<1>6. CASE LoadRestart
  <2>1. /\ daemon = "down" /\ proc = NoRun /\ file = "good"
        /\ listed' = "yes" /\ state'.running = "no"
        /\ call' = [call EXCEPT ![restore] = [op |-> "start", pc |-> "mount"]]
        /\ UNCHANGED <<mon, cmd, proc, mounted, file>>
    BY <1>6 DEF LoadRestart, Load
  <2>2. \A c \in Caller : call'[c].pc \in {"idle", "mount"} /\ ~ Launching(c)'
    BY <1>0, <1>1, <2>1 DEF Idle, Launching
  <2> QED
    BY <1>1, <2>1, <2>2 DEF AInv, AliveIsWatched, AliveIsOnDisk, CmdAlive, Present, Finished,
        Undisturbing, Prepared, Unmounted, Unlisted, StartPcs, Removing
<1>7. CASE RegisterEnds
  <2>1. call'[restore].pc = "idle" /\ \A d \in Caller \ {restore} : call'[d] = call[d]
    BY <1>0, <1>7, CallReturns DEF RegisterEnds, Idle
  <2> QED
    BY <1>0, <1>7, <2>1, AMoves DEF RegisterEnds, At, Launching, Removing, StartPcs
<1>8. ~ RegisterPanics
  BY DEF RegisterPanics, WInv, Restoring, At
<1>9. CASE LoadFails
  <2>1. /\ daemon = "down" /\ proc = NoRun
        /\ UNCHANGED <<listed, call, state, mon, cmd, proc, mounted, file, saved>>
    BY <1>2, <1>9 DEF LoadFails
  <2> QED
    BY <1>1, <2>1 DEF AInv, AliveIsWatched, AliveIsOnDisk, CmdAlive, Present, Finished,
        Undisturbing, Prepared, Unmounted, Unlisted, Starting, Launching, StartPcs,
        Removing, Idle
<1>10. CASE Serve
  BY <1>10 DEF Serve, AInv, AliveIsWatched, AliveIsOnDisk, CmdAlive, Present, Finished,
        Undisturbing, Prepared, Unmounted, Unlisted, Starting, Launching
<1> QED
  BY <1>3, <1>4, <1>5, <1>6, <1>7, <1>8, <1>9, <1>10 DEF Restore

LEMMA NextAInv ==
    ASSUME Sheltered, Reliable
    PROVE  TypeOK /\ IInv /\ WInv /\ AInv /\ [Next]_vars => AInv'
<1> SUFFICES ASSUME TypeOK, IInv, WInv, AInv, [Next]_vars
             PROVE  AInv'
  OBVIOUS
<1>1. CASE Next
  BY <1>1, ARequest, AStart, AStop, ADestroy, AMonitor, ARestore, AHost
     DEF Next, RequestStep, CallerStep, MonitorStep, RestoreStep, HostStep
<1>2. CASE UNCHANGED vars
  BY <1>2 DEF vars, AInv, AliveIsWatched, AliveIsOnDisk, CmdAlive, Present, Finished,
      Undisturbing, Prepared, Unmounted, Unlisted, Starting, Launching
<1> QED
  BY <1>1, <1>2

LEMMA AInvariance ==
    ASSUME Sheltered, Reliable PROVE Spec => [](TypeOK /\ IInv /\ WInv /\ AInv)
<1>1. TypeOK /\ IInv /\ WInv /\ AInv /\ [Next]_vars => AInv'
  BY NextAInv
<1>2. Orderly
  BY DEF Sheltered, Orderly
<1>3. Spec => []WInv
  BY <1>2, WInvariance
<1> QED
  BY <1>1, <1>3, InitAInv, Invariance, PTL DEF Spec

(* docker rm never takes a running container away: it stays in the list,   *)
(* mounted, and with its directory (ContainerDestroy, Destroy), as long as *)
(* the stretches of Sheltered are left alone, lxc-info works and           *)
(* config.json can be written.                                             *)
THEOREM RunningIsKept ==
    ASSUME Sheltered, Reliable
    PROVE  Spec => []NeverRemovedRunning
<1>1. AInv => NeverRemovedRunning
  BY DEF AInv, Present, NeverRemovedRunning
<1> QED
  BY <1>1, AInvariance, PTL

LEMMA AInvKnown == AInv => AliveIsKnown
BY DEF AInv, Present, NeverRemovedRunning, AliveIsKnown

(* Nothing runs that the daemon, or the next one, knows nothing of: while  *)
(* lxc runs a process the monitor waits for that very process, and         *)
(* config.json says that the container runs (Start, Register, monitor),    *)
(* which is still listed, mounted and has its directory.                   *)
(* For any number of requests, failing starts and unmounts, torn writes    *)
(* and crashes, under the same conditions.                                 *)
THEOREM AliveAlwaysKnown ==
    ASSUME Sheltered, Reliable
    PROVE  Spec => []AliveIsKnown
BY AInvKnown, AInvariance, PTL

(* Only the Stop of c itself makes StopSucceeds(c) come true.              *)
LEMMA OnlyItsStop ==
    ASSUME TypeOK, IInv, NEW c \in Client, Next, daemon' # "down", StopSucceeds(c)
    PROVE  Stop(c)
<1> USE DEF contVars, monVars, procVars, diskVars
<1>0. c \in Caller /\ c # restore /\ call \in [Caller -> Calls]
  BY ClientAssumption DEF Caller, restore, TypeOK
<1>1. /\ call[c].pc \in {"stop", "term", "kill", "killed", "final"}
      /\ ~ At(c, "idle")
  BY DEF StopSucceeds, At
<1>2. call'[c].pc \in {"idle", "start", "unmount"}
  BY <1>0, <1>1, CallAfterStop DEF StopSucceeds
<1>3. call'[c] # call[c]
  BY <1>1, <1>2
<1>4. daemon # "down"
  BY <1>0, <1>1, CallerLives
<1>5. ASSUME NEW d \in Caller, Start(d)
      PROVE  FALSE
  <2>1. d # c /\ ~ At(d, "idle")
    BY <1>1, <1>5 DEF Start, StartLocked, Mount, StartFails, Launch, SetRunning,
          NewWaitLock, SaveAndMonitor, At
  <2>2. CASE ~ NewWaitLock(d)
    <3>1. \/ Return(d) \/ StartReturns(d)
          \/ \E p \in {"mount", "launch", "running", "relock"} : Becomes(d, p)
      BY <1>5, <2>2 DEF Start, StartLocked, Mount, StartFails, Launch, SetRunning,
          SaveAndMonitor
    <3>2. call'[c] = call[c]
      BY <1>0, <2>1, <3>1, CallMoves, CallReturns, CallAfterStart DEF Pcs
    <3> QED
      BY <1>3, <3>2
  <2>3. CASE NewWaitLock(d)
    <3> DEFINE f == [call EXCEPT ![d].pc = "save"]
    <3>1. f \in [Caller -> Calls]
      <4>1. call[d] \in [op : Ops, pc : Pcs]
        BY <1>0, <2>1 DEF Calls, At, Idle
      <4>2. [call[d] EXCEPT !.pc = "save"] \in Calls
        BY <4>1 DEF Calls, Pcs
      <4> QED
        BY <1>0, <4>1, <4>2
    <3>2. f[c] = call[c] /\ call' = Stranded(f)
      BY <1>0, <2>1, <2>3 DEF NewWaitLock
    <3> HIDE DEF f
    <3> QED
      BY <1>0, <1>1, <1>3, <3>1, <3>2, CallsStranded
  <2> QED
    BY <2>2, <2>3
<1>6. ASSUME NEW d \in Caller, Stop(d) \/ Destroy(d) \/ WaitReturns(d), d # c
      PROVE  FALSE
  <2>1. \/ AfterStop(d) \/ Return(d)
        \/ \E p \in {"term", "kill", "killed", "final", "deregister", "remove"} : Becomes(d, p)
    BY <1>6 DEF Stop, StopLocked, Released, TermTimeout, SendKill, KillTimeout,
         Destroy, Unmount, Deregister, Remove, WaitReturns
  <2>2. ~ At(d, "idle")
    BY <1>6 DEF Stop, StopLocked, Released, TermTimeout, SendKill, KillTimeout,
         Destroy, Unmount, Deregister, Remove, WaitReturns, At
  <2> QED
    BY <1>0, <1>3, <1>6, <2>1, <2>2, CallMoves, CallReturns, CallAfterStop DEF Pcs
<1>7. ~ Destroy(c) /\ ~ WaitReturns(c)
  BY <1>1 DEF Destroy, Unmount, Deregister, Remove, WaitReturns, At
<1>8. ASSUME NEW r \in Run, Monitor(r)
      PROVE  FALSE
  BY <1>0, <1>1, <1>3, <1>8, CallsStranded
     DEF Monitor, ProcessOver, SetStopped, CloseWaitLock, ClosePanics, Marshal, WriteFile, Dies
<1>9. ~ Restore
  <2>1. ~ LoadStopped /\ ~ LoadGhost /\ ~ LoadUnknown /\ ~ LoadDead /\ ~ LoadRestart /\ ~ LoadFails
    BY <1>4 DEF LoadStopped, LoadGhost, LoadUnknown, LoadDead, LoadRestart, LoadFails, Load
  <2>2. ~ RegisterEnds
    BY <1>0, <1>3, CallReturns DEF RegisterEnds, Caller
  <2>3. ~ RegisterPanics /\ ~ Serve
    BY <1>3 DEF RegisterPanics, Serve, Dies
  <2> QED
    BY <2>1, <2>2, <2>3 DEF Restore
<1>10. ASSUME NEW d \in Client, NEW op \in Ops, Request(d, op)
       PROVE  FALSE
  BY <1>0, <1>1, <1>3, <1>10 DEF Request, At
<1>11. ~ ProcessExits /\ ~ Crash /\ ~ Reboot
  BY <1>3 DEF ProcessExits, Crash, Reboot, Dies
<1>12. ASSUME NEW d \in Caller, CallerStep(d)
       PROVE  Stop(c)
  BY <1>5, <1>6, <1>7, <1>12 DEF CallerStep
<1> QED
  BY <1>8, <1>9, <1>10, <1>11, <1>12
     DEF Next, RequestStep, MonitorStep, RestoreStep, HostStep

(* A Stop or Kill that succeeds leaves a stopped container, with no        *)
(* process behind, under the same conditions: a closed waitLock says so,   *)
(* and whoever holds the State lock keeps the next Start out               *)
(* (container.go Stop, kill and WaitTimeout).                              *)
THEOREM StopAlwaysMeansStopped ==
    ASSUME Sheltered, Reliable
    PROVE  Spec => StopMeansStopped
<1> DEFINE Stopped ==
        \A c \in Client : daemon' # "down" /\ StopSucceeds(c) =>
            state'.running = "no" /\ proc' = NoRun
<1>1. TypeOK /\ IInv /\ WInv /\ AInv /\ [Next]_vars => [Stopped]_vars
  <2> SUFFICES ASSUME TypeOK, IInv, WInv, AInv, Next,
                      NEW c \in Client, daemon' # "down", StopSucceeds(c)
               PROVE  state'.running = "no" /\ proc' = NoRun
    OBVIOUS
  <2>1. c \in Caller /\ Stop(c)
    BY OnlyItsStop DEF Caller
  <2>2. /\ state.running = "no" /\ UNCHANGED <<daemon, state>>
        /\ proc' \in {proc, NoRun}
        /\ \A d \in Caller : call[d].pc \notin StartPcs
    BY <2>1, StopEnds DEF StopSucceeds
  <2>3. proc = NoRun
    BY <2>2, StoppedIsOver DEF Launching, StartPcs
  <2> QED
    BY <2>2, <2>3
<1> QED
  BY <1>1, AInvariance, PTL DEF Spec, StopMeansStopped
-----------------------------------------------------------------------------
(* What Wait returns: who has been woken up finds the container stopped,   *)
(* with an exit code that it has had during this Wait, until it has read   *)
(* it.                                                                     *)

(* No Start falls between setStopped and close or between the wake-up and  *)
(* the read of the exit code, and no Wait between setRunning and the new   *)
(* waitLock.                                                               *)
Attentive == {"exit", "wake", "relock"} \cap Windows = {}

WaitPcs == {"blocked", "stranded", "woken"}

CloseStopped == ~ Quiet => state.running = "no"

(* The waitLock is closed while the container runs only until the Start    *)
(* that has called setRunning makes the new one.                           *)
ClosedStopped ==
    waitLock = "closed" =>
        state.running = "no" \/ \E c \in Caller : At(c, "relock")

OnlyWaits == \A c \in Caller : call[c].pc \in WaitPcs => Waiting(c)
WokenStopped == \A c \in Caller : At(c, "woken") => state.running = "no"

CInv ==
    StartsAlone /\ CloseStopped /\ ClosedStopped /\ OnlyWaits /\ WokenStopped

(* The history variable follows from these.                                *)
WokenSaw == \A c \in Caller : At(c, "woken") => state.exit \in seen[c]

LEMMA InitCInv == Init => CInv /\ WokenSaw
BY DEF Init, CInv, StartsAlone, Quiet, StartPcs, CloseStopped, ClosedStopped,
       OnlyWaits, WokenStopped, WokenSaw, WaitPcs, Created, Idle, At

LEMMA CSees ==
    ASSUME CInv', Observe
    PROVE  WokenSaw'
<1> SUFFICES ASSUME NEW c \in Caller, At(c, "woken")'
             PROVE  state'.exit \in seen'[c]
  BY DEF WokenSaw
<1>1. Waiting(c)' /\ state'.running = "no"
  BY DEF CInv, OnlyWaits, WokenStopped, WaitPcs, At
<1>2. state'.exit \in {s.exit : s \in {t \in {state, state'} : t.running = "no"}}
  BY <1>1
<1> QED
  BY <1>1, <1>2 DEF Observe

(* A step of one caller that is not a Wait, and leaves Running, the        *)
(* waitLock and the monitors alone.                                        *)
LEMMA CMoves ==
    ASSUME CInv, NEW c \in Caller, UNCHANGED <<state, waitLock, mon>>,
           \A d \in Caller \ {c} : call'[d] = call[d],
           ~ At(c, "relock"), call'[c].pc \notin WaitPcs,
           call'[c].pc \in StartPcs => Quiet
    PROVE  CInv'
<1>1. Quiet' <=> Quiet
  BY DEF Quiet
<1>2. StartsAlone' /\ CloseStopped'
  BY <1>1 DEF CInv, StartsAlone, CloseStopped
<1>3. ClosedStopped'
  BY DEF CInv, ClosedStopped, At
<1>4. OnlyWaits'
  BY DEF CInv, OnlyWaits, Waiting
<1>5. WokenStopped'
  BY DEF CInv, WokenStopped, At, WaitPcs
<1> QED
  BY <1>2, <1>3, <1>4, <1>5 DEF CInv

LEMMA CStart ==
    ASSUME Attentive, TypeOK, IInv, CInv, NEW c \in Caller, Start(c)
    PROVE  CInv'
<1> USE DEF contVars, monVars, procVars, diskVars
<1>0. call \in [Caller -> Calls] /\ mon \in [Run -> MonitorPcs]
  BY DEF TypeOK
<1>1. ~ At(c, "idle")
  BY DEF Start, StartLocked, Mount, StartFails, Launch, SetRunning,
         NewWaitLock, SaveAndMonitor, At
<1>2. CASE StartLocked(c)
  <2>1. Quiet /\ At(c, "start") /\ UNCHANGED <<state, waitLock, mon>>
    BY <1>2 DEF StartLocked, Undisturbed, Attentive, Quiet
  <2>2. /\ call'[c].pc \in {"idle", "mount"}
        /\ \A d \in Caller \ {c} : call'[d] = call[d]
    BY <1>0, <1>1, <1>2, CallReturns, CallMoves DEF StartLocked, Pcs, Idle
  <2> QED
    BY <2>1, <2>2, CMoves DEF At, WaitPcs
<1>3. CASE Mount(c) \/ StartFails(c) \/ Launch(c)
  <2>1. call[c].pc \in {"mount", "launch"} /\ UNCHANGED <<state, waitLock, mon>>
    BY <1>3 DEF Mount, StartFails, Launch, At
  <2>2. /\ call'[c].pc \in {"launch", "running", "idle", "register"}
        /\ \A d \in Caller \ {c} : call'[d] = call[d]
    BY <1>0, <1>1, <1>3, CallMoves, CallReturns, CallAfterStart
       DEF Mount, StartFails, Launch, Pcs, Idle
  <2>3. Quiet
    BY <2>1 DEF CInv, StartsAlone, StartPcs
  <2> QED
    BY <2>1, <2>2, <2>3, CMoves DEF At, WaitPcs
<1>4. CASE SetRunning(c)
  <2>1. /\ At(c, "running") /\ \A d \in Caller : ~ At(d, "woken")
        /\ UNCHANGED <<waitLock, mon>>
    BY <1>4 DEF SetRunning, Unread, Attentive
  <2>2. call'[c].pc = "relock" /\ \A d \in Caller \ {c} : call'[d] = call[d]
    BY <1>0, <1>1, <1>4, CallMoves DEF SetRunning, Pcs
  <2>3. Quiet /\ Quiet'
    BY <2>1 DEF CInv, StartsAlone, StartPcs, At, Quiet
  <2>4. StartsAlone' /\ CloseStopped' /\ ClosedStopped'
    BY <2>2, <2>3 DEF StartsAlone, CloseStopped, ClosedStopped, At
  <2>5. OnlyWaits'
    BY <2>2 DEF CInv, OnlyWaits, WaitPcs, Waiting
  <2>6. WokenStopped'
    BY <2>1, <2>2 DEF WokenStopped, At
  <2> QED
    BY <2>4, <2>5, <2>6 DEF CInv
<1>5. CASE NewWaitLock(c)
  <2> DEFINE f == [call EXCEPT ![c].pc = "save"]
  <2>1. f \in [Caller -> Calls] /\ f[c].pc = "save"
    <3>1. call[c] \in [op : Ops, pc : Pcs]
      BY <1>0, <1>1 DEF Calls, At, Idle
    <3>2. [call[c] EXCEPT !.pc = "save"] \in Calls
      BY <3>1 DEF Calls, Pcs
    <3> QED
      BY <1>0, <3>1, <3>2
  <2>2. \A d \in Caller \ {c} : f[d] = call[d]
    BY <1>0
  <2>3. /\ call' = Stranded(f) /\ waitLock' = "open" /\ At(c, "relock")
        /\ UNCHANGED <<state, mon>>
    BY <1>5 DEF NewWaitLock, Make
  <2> HIDE DEF f
  <2>4. \A d \in Caller : call'[d].op = f[d].op
    BY <2>1, <2>3, StrandedOps
  <2>5. /\ call'[c].pc = "save"
        /\ \A d \in Caller \ {c} :
             /\ call[d].pc # "blocked" => call'[d] = call[d]
             /\ call[d].pc = "blocked" => call'[d].pc = "stranded"
    BY <2>1, <2>2, <2>3, CallsStranded
  <2>6. Quiet /\ Quiet'
    BY <2>3 DEF CInv, StartsAlone, StartPcs, At, Quiet
  <2>7. StartsAlone' /\ CloseStopped' /\ ClosedStopped'
    BY <2>3, <2>6 DEF StartsAlone, CloseStopped, ClosedStopped
  <2>8. OnlyWaits'
    <3> SUFFICES ASSUME NEW d \in Caller, call'[d].pc \in WaitPcs
                 PROVE  call'[d].op = "wait"
      BY DEF OnlyWaits, Waiting
    <3>1. d # c /\ call[d].pc \in WaitPcs
      BY <2>5 DEF WaitPcs
    <3> QED
      BY <2>2, <2>4, <3>1 DEF CInv, OnlyWaits, Waiting
  <2>9. WokenStopped'
    BY <2>3, <2>5 DEF CInv, WokenStopped, At
  <2> QED
    BY <2>7, <2>8, <2>9 DEF CInv
<1>6. CASE SaveAndMonitor(c)
  <2>1. /\ mon' = [mon EXCEPT ![cmd] = "wait"] /\ At(c, "save")
        /\ UNCHANGED <<state, waitLock>>
    BY <1>6 DEF SaveAndMonitor
  <2>2. Quiet /\ Quiet'
    BY <1>0, <2>1 DEF CInv, StartsAlone, StartPcs, At, Quiet
  <2>3. /\ call'[c].pc \in {"idle", "register"}
        /\ \A d \in Caller \ {c} : call'[d] = call[d]
    BY <1>0, <1>1, <1>6, CallAfterStart DEF SaveAndMonitor
  <2>4. StartsAlone' /\ CloseStopped'
    BY <2>2 DEF StartsAlone, CloseStopped
  <2>5. ClosedStopped'
    BY <2>1, <2>3 DEF CInv, ClosedStopped, At
  <2>6. OnlyWaits' /\ WokenStopped'
    BY <2>1, <2>3 DEF CInv, OnlyWaits, WokenStopped, At, WaitPcs, Waiting
  <2> QED
    BY <2>4, <2>5, <2>6 DEF CInv
<1> QED
  BY <1>2, <1>3, <1>4, <1>5, <1>6 DEF Start

LEMMA COthers ==
    ASSUME TypeOK, CInv, NEW c \in Caller,
           Stop(c) \/ Destroy(c) \/ WaitReturns(c)
    PROVE  CInv'
<1>0. call \in [Caller -> Calls]
  BY DEF TypeOK
<1>1. /\ ~ At(c, "idle") /\ ~ At(c, "relock")
      /\ UNCHANGED <<state, waitLock, mon>>
  BY DEF Stop, StopLocked, Released, TermTimeout, SendKill, KillTimeout, Destroy,
         Unmount, Deregister, Remove, WaitReturns, At, contVars, monVars
<1>2. \/ AfterStop(c) \/ Return(c)
      \/ \E p \in {"term", "kill", "killed", "final", "deregister", "remove"} : Becomes(c, p)
  BY DEF Stop, StopLocked, Released, TermTimeout, SendKill, KillTimeout,
         Destroy, Unmount, Deregister, Remove, WaitReturns
<1>3. /\ call'[c].pc \notin StartPcs \cup WaitPcs
      /\ \A d \in Caller \ {c} : call'[d] = call[d]
  <2>1. CASE AfterStop(c) \/ Return(c)
    BY <1>0, <1>1, <2>1, CallAfterStop, CallReturns DEF StartPcs, WaitPcs, Idle
  <2>2. CASE \E p \in {"term", "kill", "killed", "final", "deregister", "remove"} : Becomes(c, p)
    BY <1>0, <1>1, <2>2, CallMoves DEF StartPcs, WaitPcs, Pcs
  <2> QED
    BY <1>2, <2>1, <2>2
<1> QED
  BY <1>1, <1>3, CMoves

(* A Wait that begins on a closed waitLock begins on a stopped container.  *)
LEMMA CRequest ==
    ASSUME Attentive, TypeOK, CInv, NEW c \in Client, NEW op \in Ops, Request(c, op)
    PROVE  CInv'
<1>1. c \in Caller /\ At(c, "idle") /\ UNCHANGED <<state, waitLock, mon>>
  BY DEF Caller, Request, contVars, monVars
<1>2. /\ call'[c] = [op |-> op, pc |-> FirstPc(op)]
      /\ \A d \in Caller \ {c} : call'[d] = call[d]
  BY <1>1 DEF Request, TypeOK
<1>3. CASE op # "wait"
  <2>1. call'[c].pc \in {"start", "stop"}
    BY <1>2, <1>3 DEF FirstPc
  <2> QED
    BY <1>1, <1>2, <2>1, CMoves DEF At, StartPcs, WaitPcs
<1>4. CASE op = "wait"
  <2>1. /\ call'[c].op = "wait"
        /\ call'[c].pc = IF waitLock = "closed" THEN "woken" ELSE "blocked"
    BY <1>2, <1>4 DEF FirstPc
  <2>2. \A d \in Caller : ~ At(d, "relock")
    BY <1>4 DEF Request, Watched, Attentive
  <2>3. waitLock = "closed" => state.running = "no"
    BY <2>2 DEF CInv, ClosedStopped
  <2>4. StartsAlone' /\ CloseStopped'
    BY <1>1, <1>2, <2>1 DEF CInv, StartsAlone, CloseStopped, Quiet, StartPcs
  <2>5. ClosedStopped'
    BY <1>1, <2>3 DEF ClosedStopped
  <2>6. OnlyWaits' /\ WokenStopped'
    BY <1>1, <1>2, <2>1, <2>3 DEF CInv, OnlyWaits, WokenStopped, At, WaitPcs, Waiting
  <2> QED
    BY <2>4, <2>5, <2>6 DEF CInv
<1> QED
  BY <1>3, <1>4

LEMMA CDies == ASSUME Dies PROVE CInv'
BY DEF Dies, CInv, StartsAlone, Quiet, StartPcs, CloseStopped, ClosedStopped,
       OnlyWaits, WokenStopped, WaitPcs, Idle, At

LEMMA CHost ==
    ASSUME CInv, ProcessExits \/ Crash \/ Reboot
    PROVE  CInv'
<1>1. CASE ProcessExits
  BY <1>1 DEF ProcessExits, contVars, monVars, CInv, StartsAlone, Quiet,
       CloseStopped, ClosedStopped, OnlyWaits, WokenStopped, At, Waiting
<1> QED
  BY <1>1, CDies DEF Crash, Reboot

(* Whom close(waitLock) wakes up finds the container stopped; and nobody   *)
(* is woken up and has yet to read when a monitor calls setStopped.        *)
LEMMA CMonitor ==
    ASSUME TypeOK, IInv, CInv, NEW r \in Run, Monitor(r)
    PROVE  CInv'
<1> USE DEF contVars, monVars, procVars, diskVars
<1>0. mon \in [Run -> MonitorPcs] /\ call \in [Caller -> Calls]
  BY DEF TypeOK
<1>1. CASE ProcessOver(r) \/ Marshal(r) \/ WriteFile(r)
  <2>1. /\ mon[r] # "close"
        /\ \E pc \in {"stop", "write", "none"} : mon' = [mon EXCEPT ![r] = pc]
        /\ UNCHANGED <<call, state, waitLock>>
    BY <1>1 DEF ProcessOver, Proceeds, Then, Marshal, WriteFile
  <2>2. Quiet' <=> Quiet
    BY <1>0, <2>1 DEF Quiet
  <2> QED
    BY <2>1, <2>2 DEF CInv, StartsAlone, CloseStopped, ClosedStopped, OnlyWaits,
         WokenStopped, At, Waiting
<1>2. CASE SetStopped(r)
  <2>1. mon[r] = "stop" /\ state'.running = "no" /\ UNCHANGED <<call, waitLock>>
    BY <1>2 DEF SetStopped
  <2>2. Watchers # {}
    BY <2>1 DEF Watchers
  <2>3. \A c \in Caller : call[c].pc \notin StartPcs
    BY <2>2 DEF IInv, WatcherRuns, NotYet, Already, StartPcs
  <2> QED
    BY <2>1, <2>3 DEF CInv, StartsAlone, CloseStopped, ClosedStopped, OnlyWaits,
         WokenStopped, At, Waiting
<1>3. CASE CloseWaitLock(r)
  <2>1. /\ mon[r] = "close" /\ mon' = [mon EXCEPT ![r] = "save"]
        /\ call' = Woken(call) /\ UNCHANGED state
    BY <1>3 DEF CloseWaitLock, Proceeds, Then
  <2>2. ~ Quiet
    BY <2>1 DEF Quiet
  <2>3. state.running = "no" /\ \A c \in Caller : call[c].pc \notin StartPcs
    BY <2>2 DEF CInv, CloseStopped, StartsAlone
  <2>4. \A c \in Caller :
          /\ call[c].pc # "blocked" => call'[c] = call[c]
          /\ call[c].pc = "blocked" => call'[c].pc = "woken"
          /\ call'[c].op = call[c].op
    BY <1>0, <2>1, CallsStranded, StrandedOps
  <2>5. StartsAlone'
    BY <2>3, <2>4 DEF StartsAlone, StartPcs
  <2>6. CloseStopped' /\ ClosedStopped' /\ WokenStopped'
    BY <2>1, <2>3 DEF CloseStopped, ClosedStopped, WokenStopped
  <2>7. OnlyWaits'
    BY <2>4 DEF CInv, OnlyWaits, WaitPcs, Waiting
  <2> QED
    BY <2>5, <2>6, <2>7 DEF CInv
<1>4. CASE ClosePanics(r)
  BY <1>4, CDies DEF ClosePanics
<1> QED
  BY <1>1, <1>2, <1>3, <1>4 DEF Monitor

LEMMA CRestore ==
    ASSUME TypeOK, IInv, CInv, Restore
    PROVE  CInv'
<1> USE DEF contVars, monVars, procVars, diskVars
<1>0. mon \in [Run -> MonitorPcs] /\ call \in [Caller -> Calls] /\ restore \in Caller
  BY DEF TypeOK, Caller
<1>1. CASE LoadStopped \/ LoadGhost \/ LoadUnknown \/ LoadDead \/ LoadRestart
  <2>1. (\A r \in Run : mon[r] = "none") /\ \A c \in Caller : call[c] = Idle
    BY <1>1 DEF LoadStopped, LoadGhost, LoadUnknown, LoadDead, LoadRestart, Load,
         IInv, Nobody
  <2>2. mon' = mon \/ mon' = [mon EXCEPT ![proc] = "wait"]
    BY <1>1 DEF LoadStopped, LoadGhost, LoadUnknown, LoadDead, LoadRestart, Reattach
  <2>3. call' = call \/ call' = [call EXCEPT ![restore] = [op |-> "start", pc |-> "mount"]]
    BY <1>1 DEF LoadStopped, LoadGhost, LoadUnknown, LoadDead, LoadRestart, Settled
  <2>4. Quiet'
    BY <1>0, <2>1, <2>2 DEF Quiet
  <2>5. \A c \in Caller : call'[c].pc \in {"idle", "mount"}
    BY <1>0, <2>1, <2>3 DEF Idle
  <2>6. waitLock' = "closed" => state'.running = "no"
    BY <1>1 DEF LoadStopped, LoadGhost, LoadUnknown, LoadDead, LoadRestart, WaitLockOf
  <2> QED
    BY <2>4, <2>5, <2>6 DEF CInv, StartsAlone, CloseStopped, ClosedStopped, OnlyWaits,
         WokenStopped, At, WaitPcs
<1>2. CASE RegisterEnds
  <2>1. /\ At(restore, "register") /\ Return(restore) /\ UNCHANGED <<state, mon>>
        /\ waitLock' = "closed" => waitLock = "closed" \/ state.running = "no"
    BY <1>2 DEF RegisterEnds
  <2>2. call'[restore] = Idle /\ \A d \in Caller \ {restore} : call'[d] = call[d]
    BY <1>0, <2>1, CallReturns
  <2>3. StartsAlone' /\ CloseStopped'
    BY <2>1, <2>2 DEF CInv, StartsAlone, CloseStopped, Quiet, StartPcs, Idle
  <2>4. ClosedStopped'
    BY <2>1, <2>2 DEF CInv, ClosedStopped, At
  <2>5. OnlyWaits' /\ WokenStopped'
    BY <2>1, <2>2 DEF CInv, OnlyWaits, WokenStopped, At, WaitPcs, Waiting, Idle
  <2> QED
    BY <2>3, <2>4, <2>5 DEF CInv
<1>3. CASE RegisterPanics
  BY <1>3, CDies DEF RegisterPanics
<1>4. CASE LoadFails \/ Serve
  BY <1>4 DEF LoadFails, Serve, CInv, StartsAlone, Quiet, CloseStopped, ClosedStopped,
       OnlyWaits, WokenStopped, At, Waiting
<1> QED
  BY <1>1, <1>2, <1>3, <1>4 DEF Restore

LEMMA NextCInv ==
    ASSUME Attentive
    PROVE  TypeOK /\ IInv /\ CInv /\ WokenSaw /\ [Next]_vars => (CInv /\ WokenSaw)'
<1> SUFFICES ASSUME TypeOK, IInv, CInv, WokenSaw, [Next]_vars
             PROVE  CInv' /\ WokenSaw'
  OBVIOUS
<1>1. CASE Next
  <2>1. CInv'
    BY <1>1, CRequest, CStart, COthers, CMonitor, CRestore, CHost
       DEF Next, RequestStep, CallerStep, MonitorStep, RestoreStep, HostStep
  <2>2. Observe
    BY <1>1 DEF Next, RequestStep, CallerStep, MonitorStep, RestoreStep, HostStep
  <2> QED
    BY <2>1, <2>2, CSees
<1>2. CASE UNCHANGED vars
  BY <1>2 DEF vars, CInv, StartsAlone, Quiet, CloseStopped, ClosedStopped, OnlyWaits,
       WokenStopped, WokenSaw, At, Waiting
<1> QED
  BY <1>1, <1>2

(* A Wait that returns has seen the container stopped and returns an exit  *)
(* code that it has stopped with during the Wait, as long as the goroutine *)
(* that is woken up reads it before the next setRunning, no Wait comes     *)
(* between setRunning and the new waitLock, and no Start between           *)
(* setStopped and close (container.go Wait, Start and monitor): for any    *)
(* number of Waits at once, whatever fails, and with a daemon that crashes *)
(* or starts the container again by itself.                                *)
THEOREM WaitTellsTheExitCode ==
    ASSUME Attentive
    PROVE  Spec => WaitReturnsItsExitCode
<1> DEFINE Tells == \A c \in Client : WaitReturns(c) => state.exit \in seen[c]
<1>1. TypeOK /\ IInv /\ CInv /\ WokenSaw /\ [Next]_vars => (CInv /\ WokenSaw)'
  BY NextCInv
<1>2. WokenSaw => Tells
  BY DEF WokenSaw, WaitReturns, Caller
<1> QED
  BY <1>1, <1>2, InitCInv, Invariance, PTL DEF Spec, WaitReturnsItsExitCode
===============================================================================
