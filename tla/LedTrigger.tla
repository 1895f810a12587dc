----------------------------- MODULE LedTrigger -----------------------------
(***************************************************************************)
(* Ownership of the ACT LED by dsFPD.c: dsFPInit takes the LED away from   *)
(* the kernel trigger that drives it, dsFPTerm and the atexit handler give *)
(* it back, and a backup file in /run/lock lets a later process give it    *)
(* back when this one crashed in between.                                  *)
(*                                                                         *)
(* A process has two threads that matter here: the one that calls the API  *)
(* (api: where it stands inside dsFPInit or dsFPTerm) and the one that     *)
(* calls exit() and runs dsFPExitCleanup (exit); with ExitRaces the first  *)
(* one goes on and may begin more calls meanwhile.  Every access to sysfs, *)
(* to the backup file or to the process lock is a step of its own, so that *)
(* a crash, the other thread or another process may come between any two.  *)
(* The API is documented as not thread safe: two calls at once are not     *)
(* modelled.                                                               *)
(*                                                                         *)
(* ledPatternThreadRunning is not modelled: it is set and cleared together *)
(* with isFPDInitialized, so shouldJoin is always true.  What the worker   *)
(* does between its start and its end is in module LedWorker.              *)
(***************************************************************************)
EXTENDS FiniteSets

CONSTANTS
  Procs,         \* the processes that load the library
  Kernel,        \* the trigger tokens other than "none" (mmc0, heartbeat, ...)
  Off,           \* the trigger token "none": no kernel trigger drives the LED
  BootTriggers,  \* the tokens the sysfs file may hold after a boot
  Empty,         \* the empty previousTrigger / exitTrigger string
  Absent,        \* there is no backup file
  NoProc,        \* nobody holds the process lock
  Guard,         \* DSFPD_ENABLE_MULTI_PROCESS_GUARD is defined
  FaultOps,      \* the operations that may fail in this build's environment
  ExitRaces      \* another thread may be in the API when exit() is called,
                 \* and may call it from then on

Trigger == Kernel \cup {Off}

\* dsFPInit goes on when "load", "reread" or "update" fails; the others end
\* the call or leave the LED as it was.
Ops == {"lock", "load", "reread", "update", "cache", "save", "setTrigger",
        "clear", "spawn", "wait"}

ASSUME TokensAssumption ==
  /\ Off \notin Kernel
  /\ Empty \notin Trigger
  /\ Absent \notin Trigger
  /\ BootTriggers \subseteq Trigger
  /\ NoProc \notin Procs
ASSUME BuildAssumption ==
  /\ Guard \in BOOLEAN
  /\ ExitRaces \in BOOLEAN
  /\ FaultOps \subseteq Ops

VARIABLES
  sysfs,        \* the active token of the LED's trigger file
  backup,       \* content of rpi_act_led_trigger.backup
  owner,        \* holder of the fcntl lock on rpi_act_led_control.lock
  orig,         \* history: the trigger the system last chose for the LED
  late,         \* history: processes in which dsFPInit has begun while their
                \* exit handler was giving the LED back
  alive,        \* the process runs
  api,          \* where the API thread stands in dsFPInit or dsFPTerm
  exit,         \* where the exiting thread stands in dsFPExitCleanup
  initialized,  \* isFPDInitialized
  prev,         \* previousTrigger
  stop,         \* ledPatternThreadStop
  worker,       \* the LED pattern thread, ledPatternThread
  retired,      \* threadToJoin: the worker that the exit handler waits for
  exitTrigger   \* exitTrigger, or restoreTrigger when read from the backup

history == <<orig, late>>
workers == <<worker, retired>>
durable == <<sysfs, backup, owner, history>>
process == <<alive, api, exit, initialized, prev, stop, workers, exitTrigger>>
vars == <<durable, process>>

InitPcs == {"lock", "load", "compare", "update", "cache", "save", "setNone",
            "spawn", "undo", "undoClear"}
TermPcs == {"join", "restore", "clear", "reset"}
ApiPcs  == {"idle"} \cup InitPcs \cup TermPcs
ExitPcs == {"no", "load", "blindRestore", "join", "restore", "release", "done"}

\* The handler has taken the module down and let go of the mutex, but has
\* not given everything back yet.
HandlerPcs == {"join", "restore", "release"}

\* dsFPInit holds ledStateMutex from its first to its last line, dsFPTerm
\* in its two sections: only the join runs without it.
MutexPcs == (InitPcs \cup TermPcs) \ {"join"}

TypeOK ==
  /\ sysfs \in Trigger
  /\ orig \in Trigger
  /\ backup \in Trigger \cup {Absent}
  /\ owner \in Procs \cup {NoProc}
  /\ late \subseteq Procs
  /\ alive \in [Procs -> BOOLEAN]
  /\ api \in [Procs -> ApiPcs]
  /\ exit \in [Procs -> ExitPcs]
  /\ initialized \in [Procs -> BOOLEAN]
  /\ prev \in [Procs -> Trigger \cup {Empty}]
  /\ stop \in [Procs -> BOOLEAN]
  /\ worker \in [Procs -> {"none", "running", "exited"}]
  /\ retired \in [Procs -> {"none", "running", "exited"}]
  /\ exitTrigger \in [Procs -> Trigger \cup {Empty}]

Init ==
  /\ sysfs \in BootTriggers
  /\ orig = sysfs
  /\ backup = Absent
  /\ owner = NoProc
  /\ late = {}
  /\ alive = [p \in Procs |-> FALSE]
  /\ api = [p \in Procs |-> "idle"]
  /\ exit = [p \in Procs |-> "no"]
  /\ initialized = [p \in Procs |-> FALSE]
  /\ prev = [p \in Procs |-> Empty]
  /\ stop = [p \in Procs |-> FALSE]
  /\ worker = [p \in Procs |-> "none"]
  /\ retired = [p \in Procs |-> "none"]
  /\ exitTrigger = [p \in Procs |-> Empty]

Fails(op) == op \in FaultOps

\* releaseProcessLock, and what the kernel does when the process ends.
Released(p) == IF owner = p THEN NoProc ELSE owner

\* The API thread of p goes on to step pc of its call.
Goto(p, pc) == api' = [api EXCEPT ![p] = pc]

(***************************************************************************)
(* dsFPInit                                                                *)
(***************************************************************************)

\* A thread that does not exit may call, before and while another one does.
MayCall(p) == alive[p] /\ api[p] = "idle" /\ (exit[p] = "no" \/ ExitRaces)

\* The checks that end the call at once (already initialized, no condition
\* variable, no LED path) change nothing.  Nothing stops a call that comes
\* after the handler has let go of the mutex: it goes on to share the lock
\* that the handler is going to release, and to reset the stop flag that the
\* worker may not have seen.
InitBegin(p) ==
  /\ MayCall(p) /\ ~initialized[p]
  /\ Goto(p, IF Guard THEN "lock" ELSE "load")
  /\ late' = IF exit[p] \in HandlerPcs THEN late \cup {p} ELSE late
  /\ UNCHANGED <<sysfs, backup, owner, orig, alive, exit, initialized, prev,
                 stop, workers, exitTrigger>>

\* Mutant: the result of fcntl is not looked at.
MayLockAlways(p) == TRUE
MayLock(p) == owner \in {NoProc, p}

\* acquireProcessLock: at once when this process still holds the lock.
InitLock(p) ==
  /\ api[p] = "lock"
  /\ \/ /\ MayLock(p)
        /\ owner' = p
        /\ Goto(p, "load")
     \/ /\ owner # p
        /\ owner # NoProc \/ Fails("lock")
        /\ Goto(p, "idle")
        /\ UNCHANGED owner
  /\ UNCHANGED <<sysfs, backup, history, alive, exit, initialized, prev, stop,
                 workers, exitTrigger>>

HasBackup == backup # Absent

InitLoad(p) ==
  /\ api[p] = "load"
  /\ \/ /\ HasBackup
        /\ prev' = [prev EXCEPT ![p] = backup]
        /\ Goto(p, "compare")
     \/ /\ ~HasBackup \/ Fails("load")
        /\ Goto(p, "cache")
        /\ UNCHANGED prev
  /\ UNCHANGED <<durable, alive, exit, initialized, stop, workers, exitTrigger>>

\* Mutant: the backup is believed whatever the trigger is.
StaleNever == FALSE
Stale == sysfs # Off

\* The backup is stale unless the trigger is still "none"; when the trigger
\* cannot be read the backup is believed.
InitCompare(p) ==
  /\ api[p] = "compare"
  /\ \/ /\ Stale
        /\ prev' = [prev EXCEPT ![p] = sysfs]
        /\ Goto(p, "update")
     \/ /\ ~Stale \/ Fails("reread")
        /\ Goto(p, "setNone")
        /\ UNCHANGED prev
  /\ UNCHANGED <<durable, alive, exit, initialized, stop, workers, exitTrigger>>

\* A failure to replace the stale backup is logged and ignored.
InitUpdate(p) ==
  /\ api[p] = "update"
  /\ \/ backup' = prev[p]
     \/ Fails("update") /\ UNCHANGED backup
  /\ Goto(p, "setNone")
  /\ UNCHANGED <<sysfs, owner, history, alive, exit, initialized, prev, stop,
                 workers, exitTrigger>>

InitCache(p) ==
  /\ api[p] = "cache"
  /\ \/ /\ prev' = [prev EXCEPT ![p] = sysfs]
        /\ Goto(p, "save")
        /\ UNCHANGED owner
     \/ /\ Fails("cache")
        /\ prev' = [prev EXCEPT ![p] = Empty]
        /\ Goto(p, "idle")
        /\ owner' = Released(p)
  /\ UNCHANGED <<sysfs, backup, history, alive, exit, initialized, stop,
                 workers, exitTrigger>>

\* Mutant: a failure to save is ignored.
InitSaveIgnored(p) ==
  /\ api[p] = "save"
  /\ backup' = prev[p] \/ (Fails("save") /\ UNCHANGED backup)
  /\ Goto(p, "setNone")
  /\ UNCHANGED <<sysfs, owner, history, alive, exit, initialized, prev, stop,
                 workers, exitTrigger>>

\* saveTriggerBackup renames a synced temporary file: all or nothing.
InitSave(p) ==
  /\ api[p] = "save"
  /\ \/ /\ backup' = prev[p]
        /\ Goto(p, "setNone")
        /\ UNCHANGED owner
     \/ /\ Fails("save")
        /\ Goto(p, "idle")
        /\ owner' = Released(p)
        /\ UNCHANGED backup
  /\ UNCHANGED <<sysfs, history, alive, exit, initialized, prev, stop, workers,
                 exitTrigger>>

InitSetNone(p) ==
  /\ api[p] = "setNone"
  /\ \/ /\ sysfs' = Off
        /\ Goto(p, "spawn")
        /\ UNCHANGED owner
     \/ /\ Fails("setTrigger")
        /\ Goto(p, "idle")
        /\ owner' = Released(p)
        /\ UNCHANGED sysfs
  /\ UNCHANGED <<backup, history, alive, exit, initialized, prev, stop, workers,
                 exitTrigger>>

InitSpawn(p) ==
  /\ api[p] = "spawn"
  /\ stop' = [stop EXCEPT ![p] = FALSE]
  /\ \/ /\ worker' = [worker EXCEPT ![p] = "running"]
        /\ initialized' = [initialized EXCEPT ![p] = TRUE]
        /\ Goto(p, "idle")
     \/ /\ Fails("spawn")
        /\ Goto(p, "undo")
        /\ UNCHANGED <<worker, initialized>>
  /\ UNCHANGED <<durable, alive, exit, prev, retired, exitTrigger>>

\* The end of the failed call: the path and previousTrigger are forgotten.
UndoDone(p) ==
  /\ prev' = [prev EXCEPT ![p] = Empty]
  /\ owner' = Released(p)
  /\ Goto(p, "idle")

InitUndo(p) ==
  /\ api[p] = "undo"
  /\ \/ /\ prev[p] # Empty
        /\ sysfs' = prev[p]
        /\ Goto(p, "undoClear")
        /\ UNCHANGED <<prev, owner>>
     \/ /\ prev[p] = Empty \/ Fails("setTrigger")
        /\ UndoDone(p)
        /\ UNCHANGED sysfs
  /\ UNCHANGED <<backup, history, alive, exit, initialized, stop, workers,
                 exitTrigger>>

InitUndoClear(p) ==
  /\ api[p] = "undoClear"
  /\ \/ backup' = Absent
     \/ Fails("clear") /\ UNCHANGED backup
  /\ UndoDone(p)
  /\ UNCHANGED <<sysfs, history, alive, exit, initialized, stop, workers,
                 exitTrigger>>

(***************************************************************************)
(* dsFPTerm                                                                *)
(***************************************************************************)

TermBegin(p) ==
  /\ MayCall(p) /\ initialized[p]
  /\ stop' = [stop EXCEPT ![p] = TRUE]
  /\ initialized' = [initialized EXCEPT ![p] = FALSE]
  /\ Goto(p, "join")
  /\ UNCHANGED <<durable, alive, exit, prev, workers, exitTrigger>>

\* Mutant: the worker is told to stop and not waited for.
TermJoinSkipped(p) ==
  /\ api[p] = "join"
  /\ Goto(p, "restore")
  /\ UNCHANGED <<durable, alive, exit, initialized, prev, stop, workers,
                 exitTrigger>>

TermJoin(p) ==
  /\ api[p] = "join"
  /\ worker[p] = "exited"
  /\ worker' = [worker EXCEPT ![p] = "none"]
  /\ Goto(p, "restore")
  /\ UNCHANGED <<durable, alive, exit, initialized, prev, stop, retired,
                 exitTrigger>>

\* An empty previousTrigger is first loaded from the backup.
TermTrigger(p) ==
  IF prev[p] = Empty /\ HasBackup THEN backup ELSE prev[p]

\* Mutant: the backup is removed although the trigger was not restored.
TermRestoreUnchecked(p) ==
  /\ api[p] = "restore"
  /\ prev' = [prev EXCEPT ![p] = TermTrigger(p)]
  /\ sysfs' = TermTrigger(p) \/ (Fails("setTrigger") /\ UNCHANGED sysfs)
  /\ Goto(p, "clear")
  /\ UNCHANGED <<backup, owner, history, alive, exit, initialized, stop,
                 workers, exitTrigger>>

TermRestore(p) ==
  /\ api[p] = "restore"
  /\ prev' = [prev EXCEPT ![p] = TermTrigger(p)]
  /\ \/ /\ TermTrigger(p) # Empty
        /\ sysfs' = TermTrigger(p)
        /\ Goto(p, "clear")
     \/ /\ TermTrigger(p) = Empty \/ Fails("setTrigger")
        /\ Goto(p, "reset")
        /\ UNCHANGED sysfs
  /\ UNCHANGED <<backup, owner, history, alive, exit, initialized, stop,
                 workers, exitTrigger>>

TermClear(p) ==
  /\ api[p] = "clear"
  /\ \/ backup' = Absent
     \/ Fails("clear") /\ UNCHANGED backup
  /\ Goto(p, "reset")
  /\ UNCHANGED <<sysfs, owner, history, alive, exit, initialized, prev, stop,
                 workers, exitTrigger>>

TermReset(p) ==
  /\ api[p] = "reset"
  /\ prev' = [prev EXCEPT ![p] = Empty]
  /\ stop' = [stop EXCEPT ![p] = FALSE]
  /\ owner' = Released(p)
  /\ Goto(p, "idle")
  /\ UNCHANGED <<sysfs, backup, history, alive, exit, initialized, workers,
                 exitTrigger>>

(***************************************************************************)
(* The worker, as far as its start and end matter                          *)
(***************************************************************************)

\* Mutant: the wait for isFPDInitialized does not look at the stop flag.
SeesStopInitialized(p) == stop[p] /\ initialized[p]
SeesStop(p) == stop[p]

WorkerExit(p) ==
  /\ SeesStop(p)
  /\ \/ /\ worker[p] = "running"
        /\ worker' = [worker EXCEPT ![p] = "exited"]
        /\ UNCHANGED retired
     \/ /\ retired[p] = "running"
        /\ retired' = [retired EXCEPT ![p] = "exited"]
        /\ UNCHANGED worker
  /\ UNCHANGED <<durable, alive, api, exit, initialized, prev, stop,
                 exitTrigger>>

\* A failing condition wait stops the workers for good.
WorkerFail(p) ==
  /\ "running" \in {worker[p], retired[p]} /\ ~stop[p]
  /\ Fails("wait")
  /\ stop' = [stop EXCEPT ![p] = TRUE]
  /\ UNCHANGED <<durable, alive, api, exit, initialized, prev, workers,
                 exitTrigger>>

(***************************************************************************)
(* dsFPExitCleanup and dsFPBestEffortRestoreOnExit                         *)
(***************************************************************************)

\* Somebody may hold ledStateMutex: the API thread inside a call (dsFPInit
\* and dsFPTerm, or a shorter one when calls may overlap exit()), or the
\* worker between two of its waits.
MutexBusy(p) == api[p] \in MutexPcs \/ worker[p] = "running" \/ ExitRaces

ExitBusy(p) ==
  /\ MutexBusy(p)
  /\ exit' = [exit EXCEPT ![p] = "load"]
  /\ UNCHANGED <<initialized, stop, workers, exitTrigger>>

\* Mutant: previousTrigger is not copied.
CapturedNever(p) == exitTrigger[p]
Captured(p) == prev[p]

\* The worker to be joined is copied: ledPatternThread is free for another.
ExitOwner(p) ==
  /\ api[p] \notin MutexPcs
  /\ initialized[p]
  /\ exitTrigger' = [exitTrigger EXCEPT ![p] = Captured(p)]
  /\ stop' = [stop EXCEPT ![p] = TRUE]
  /\ initialized' = [initialized EXCEPT ![p] = FALSE]
  /\ retired' = [retired EXCEPT ![p] = worker[p]]
  /\ worker' = [worker EXCEPT ![p] = "none"]
  /\ exit' = [exit EXCEPT ![p] = "join"]

ExitStranger(p) ==
  /\ api[p] \notin MutexPcs
  /\ ~initialized[p]
  /\ exit' = [exit EXCEPT ![p] = "done"]
  /\ UNCHANGED <<initialized, stop, workers, exitTrigger>>

\* exit() runs the handler: the trylock fails, or it succeeds and the module
\* is initialized or not.
ExitCall(p) ==
  /\ alive[p] /\ exit[p] = "no"
  /\ api[p] = "idle" \/ ExitRaces
  /\ ExitBusy(p) \/ ExitOwner(p) \/ ExitStranger(p)
  /\ UNCHANGED <<durable, alive, api, prev>>

\* The blind restore trusts the backup file, whoever wrote it.
ExitLoad(p) ==
  /\ exit[p] = "load"
  /\ \/ /\ HasBackup
        /\ exitTrigger' = [exitTrigger EXCEPT ![p] = backup]
        /\ exit' = [exit EXCEPT ![p] = "blindRestore"]
     \/ /\ ~HasBackup \/ Fails("load")
        /\ exit' = [exit EXCEPT ![p] = "done"]
        /\ UNCHANGED exitTrigger
  /\ UNCHANGED <<durable, alive, api, initialized, prev, stop, workers>>

ExitJoin(p) ==
  /\ exit[p] = "join"
  /\ retired[p] = "exited"
  /\ retired' = [retired EXCEPT ![p] = "none"]
  /\ exit' = [exit EXCEPT ![p] = "restore"]
  /\ UNCHANGED <<durable, alive, api, initialized, prev, stop, worker,
                 exitTrigger>>

\* The blind restore writes whether the worker has ended or not.  Neither path
\* removes the backup.  exitTrigger is never empty here (Filled
\* in LedTriggerProofs): the code's fall back to the backup is not reached.
ExitRestore(p) ==
  /\ exit[p] \in {"blindRestore", "restore"}
  /\ \/ sysfs' = exitTrigger[p]
     \/ Fails("setTrigger") /\ UNCHANGED sysfs
  /\ exit' = [exit EXCEPT ![p] = IF exit[p] = "restore" THEN "release"
                                                        ELSE "done"]
  /\ UNCHANGED <<backup, owner, history, alive, api, initialized, prev, stop,
                 workers, exitTrigger>>

ExitRelease(p) ==
  /\ exit[p] = "release"
  /\ owner' = Released(p)
  /\ exit' = [exit EXCEPT ![p] = "done"]
  /\ UNCHANGED <<sysfs, backup, history, alive, api, initialized, prev, stop,
                 workers, exitTrigger>>

(***************************************************************************)
(* Processes and the system around them                                    *)
(***************************************************************************)

\* A process counts from its first dsFPInit, which registers the handler,
\* even when that call then ends at one of its first checks.  The name of a
\* late process is not used for another one before the next boot: a bound.
Start(p) ==
  /\ ~alive[p] /\ p \notin late
  /\ alive' = [alive EXCEPT ![p] = TRUE]
  /\ UNCHANGED <<durable, api, exit, initialized, prev, stop, workers,
                 exitTrigger>>

\* The processes of S lose all they hold in memory, and their lock.
Die(S) ==
  /\ alive' = [p \in Procs |-> p \notin S /\ alive[p]]
  /\ api' = [p \in Procs |-> IF p \in S THEN "idle" ELSE api[p]]
  /\ exit' = [p \in Procs |-> IF p \in S THEN "no" ELSE exit[p]]
  /\ initialized' = [p \in Procs |-> p \notin S /\ initialized[p]]
  /\ prev' = [p \in Procs |-> IF p \in S THEN Empty ELSE prev[p]]
  /\ stop' = [p \in Procs |-> p \notin S /\ stop[p]]
  /\ worker' = [p \in Procs |-> IF p \in S THEN "none" ELSE worker[p]]
  /\ retired' = [p \in Procs |-> IF p \in S THEN "none" ELSE retired[p]]
  /\ exitTrigger' = [p \in Procs |-> IF p \in S THEN Empty
                                                ELSE exitTrigger[p]]
  /\ owner' = IF owner \in S THEN NoProc ELSE owner

ProcessEnd(p) ==
  /\ exit[p] = "done"
  /\ Die({p})
  /\ UNCHANGED <<sysfs, backup, history>>

\* A kill, an abort or a fault: no handler runs.
Crash(p) ==
  /\ alive[p]
  /\ Die({p})
  /\ UNCHANGED <<sysfs, backup, history>>

\* /run/lock is a tmpfs: a reboot loses the backup with everything else.
Reboot ==
  /\ Die(Procs)
  /\ sysfs' \in BootTriggers
  /\ orig' = sysfs'
  /\ backup' = Absent
  /\ late' = {}

\* The process is using the LED, or is about to.
Using(p) == api[p] \notin {"idle", "lock"} \/ initialized[p]

\* Somebody else picks another kernel trigger while the library does not
\* use the LED.
SystemSetsTrigger ==
  /\ \A p \in Procs : ~Using(p) /\ exit[p] = "no"
  /\ sysfs' \in Kernel
  /\ orig' = sysfs'
  /\ UNCHANGED <<backup, owner, late, process>>

InitStep(p) ==
  InitLock(p) \/ InitLoad(p) \/ InitCompare(p) \/ InitUpdate(p) \/ InitCache(p)
  \/ InitSave(p) \/ InitSetNone(p) \/ InitSpawn(p) \/ InitUndo(p)
  \/ InitUndoClear(p)
TermStep(p) == TermJoin(p) \/ TermRestore(p) \/ TermClear(p) \/ TermReset(p)
ExitStep(p) ==
  ExitLoad(p) \/ ExitJoin(p) \/ ExitRestore(p) \/ ExitRelease(p)
  \/ ProcessEnd(p)

Next ==
  \/ \E p \in Procs :
       \/ InitBegin(p) \/ InitStep(p) \/ TermBegin(p) \/ TermStep(p)
       \/ WorkerExit(p) \/ WorkerFail(p)
       \/ ExitCall(p) \/ ExitStep(p)
       \/ Start(p) \/ Crash(p)
  \/ Reboot
  \/ SystemSetsTrigger

Spec == Init /\ [][Next]_vars

\* A thread that is inside a call, the worker and the exiting thread keep
\* running; nothing makes the caller issue a call or the system intervene.
Fairness ==
  \A p \in Procs : /\ WF_vars(InitStep(p) \/ TermStep(p))
                   /\ WF_vars(WorkerExit(p))
                   /\ WF_vars(ExitStep(p))

FairSpec == Spec /\ Fairness

(***************************************************************************)
(* Properties                                                              *)
(***************************************************************************)

\* Crash-safe restore (saveTriggerBackup, dsFPInit): at any moment the LED
\* carries the trigger the system chose for it, or the backup file names
\* that trigger.  A crash between any two steps leaves a state of this kind,
\* and the next dsFPInit and dsFPTerm give the trigger back.
Recoverable == sysfs = orig \/ backup = orig

\* The properties below that except late are false of late processes: see
\* InitBegin.  Their exit handler and their dsFPInit share one lock, one stop
\* flag and one LED.

\* The weaker promise that also survives ignored failures and exit() during
\* any call: an LED that no kernel trigger drives has a backup that names one,
\* unless a dsFPInit has begun beside an exit handler that was giving the LED
\* back, since the last boot.
NeverStranded == late = {} => (sysfs = Off => backup \in Kernel)

\* acquireProcessLock: with the guard, one process at a time is between
\* taking the LED in dsFPInit and giving it back in dsFPTerm.  A late process
\* may go on using the LED after its own exit handler has released the lock.
OneOwner ==
  Guard => \A p, q \in Procs \ late : Using(p) /\ Using(q) => p = q

\* Where dsFPTerm, or the exit handler that got the mutex, hands the LED back.
HandsBack(p) ==
  api[p] \in {"restore", "clear", "reset"} \/ exit[p] \in {"restore", "release"}

\* dsFPTerm, and the exit handler when it got the mutex, hand the LED back to
\* the kernel only when every worker of the process has ended: no later
\* brightness write.  The handler that found the mutex busy does not wait for
\* the worker (exit = "blindRestore", dsFPD.c:975) and is not meant here.
WorkerEndsFirst ==
  \A p \in Procs \ late :
    HandsBack(p) => worker[p] # "running" /\ retired[p] # "running"

\* clearTriggerBackup: the backup goes only once the LED carries the
\* trigger the system chose, or with the whole of /run/lock at a reboot.
BackupOutlivesUse ==
  [][backup # Absent /\ backup' = Absent => sysfs' = orig']_vars

\* The exit handler writes nothing but the trigger the system chose, whether
\* it took it from the context or, when the mutex was busy, from the backup.
ExitHandsBack ==
  \A p \in Procs :
    exit[p] \in {"blindRestore", "join", "restore"} => exitTrigger[p] = orig

\* A thread of p is in exit() or in the join of dsFPTerm.
Ending(p) == exit[p] # "no" \/ api[p] = "join"

\* dsFPExitCleanup does not block on the mutex, so that exit() ends the
\* process (exit is "no" again) whatever call another thread is in, was in or
\* begins; and dsFPTerm returns, as the worker it joins always ends.  There is
\* one exception: a dsFPInit that begins after the handler has let go of the
\* mutex may reset the stop flag before the worker has seen it, and then the
\* worker that the handler joins does not end.
CallsEnd == \A p \in Procs : Ending(p) ~> ~Ending(p) \/ p \in late
=============================================================================
