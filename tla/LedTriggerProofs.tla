-------------------------- MODULE LedTriggerProofs --------------------------
(***************************************************************************)
(* Proofs about LedTrigger, for any number of processes and triggers.      *)
(***************************************************************************)
EXTENDS LedTrigger, TLAPS

(***************************************************************************)
(* Types.  TypeOK alone is not inductive: the LED is given the trigger in  *)
(* previousTrigger or exitTrigger, which must not be empty by then.        *)
(***************************************************************************)

\* The steps of dsFPInit that need a previousTrigger, and what comes after.
Filled(p) ==
  /\ api[p] \in {"compare", "update", "save", "setNone", "spawn"} \/ initialized[p]
       => prev[p] # Empty
  /\ exit[p] \in {"blindRestore", "join", "restore"} => exitTrigger[p] # Empty

\* A module that is initialized is not inside dsFPInit or dsFPTerm; its worker
\* outlives it only until the join of dsFPTerm, or is retired and outlives it
\* until the join of the exit handler.  A module that the handler has taken
\* down stays so unless dsFPInit comes late.
Quiet(p) ==
  /\ initialized[p] => api[p] = "idle"
  /\ worker[p] # "none" => initialized[p] \/ api[p] = "join"
  /\ retired[p] # "none" => exit[p] = "join"
  /\ exit[p] \in HandlerPcs /\ p \notin late => api[p] = "idle" /\ ~initialized[p]

TInv ==
  /\ TypeOK
  /\ ExitRaces \/ late = {}
  /\ \A p \in Procs : Filled(p) /\ Quiet(p)

LEMMA TInvInit == Init => TInv
BY TokensAssumption DEF Init, TInv, TypeOK, Filled, Quiet, HandlerPcs, ApiPcs,
   ExitPcs, Trigger

\* A worker is made together with isFPDInitialized, or not at all.
LEMMA SpawnTyped ==
  ASSUME TypeOK, NEW p \in Procs, InitSpawn(p)
  PROVE  /\ worker' \in [Procs -> {"none", "running", "exited"}]
         /\ initialized' \in [Procs -> BOOLEAN]
<1>1. /\ worker \in [Procs -> {"none", "running", "exited"}]
      /\ initialized \in [Procs -> BOOLEAN]
  BY DEF TypeOK
<1>2. \/ worker' = worker /\ initialized' = initialized
      \/ /\ worker' = [worker EXCEPT ![p] = "running"]
         /\ initialized' = [initialized EXCEPT ![p] = TRUE]
  BY DEF InitSpawn
<1>. QED BY <1>1, <1>2

LEMMA TInvInitStep ==
  ASSUME TInv, NEW p \in Procs, InitBegin(p) \/ InitStep(p)
  PROVE  TInv'
<1>. USE TokensAssumption DEF TInv, TypeOK, Filled, Quiet, HandlerPcs, ApiPcs,
     ExitPcs, InitPcs, TermPcs, Trigger, durable, process, history, workers, Goto, Released
<1>1. CASE InitBegin(p)  BY <1>1 DEF InitBegin, MayCall
<1>2. CASE InitLock(p)  BY <1>2 DEF InitLock
<1>3. CASE InitLoad(p)  BY <1>3 DEF InitLoad, HasBackup
<1>4. CASE InitCompare(p)  BY <1>4 DEF InitCompare, Stale
<1>5. CASE InitUpdate(p)  BY <1>5 DEF InitUpdate
<1>6. CASE InitCache(p)  BY <1>6 DEF InitCache
<1>7. CASE InitSave(p)  BY <1>7 DEF InitSave
<1>8. CASE InitSetNone(p)  BY <1>8 DEF InitSetNone
<1>9. CASE InitSpawn(p)
  <2>1. TypeOK'
    <3>1. UNCHANGED <<sysfs, backup, owner, orig, late, alive, exit, prev,
                      retired, exitTrigger>>
      BY <1>9 DEF InitSpawn
    <3>2. api' \in [Procs -> ApiPcs] /\ stop' \in [Procs -> BOOLEAN]
      BY <1>9 DEF InitSpawn
    <3>3. /\ worker' \in [Procs -> {"none", "running", "exited"}]
          /\ initialized' \in [Procs -> BOOLEAN]
      BY <1>9, SpawnTyped
    <3>. QED BY <3>1, <3>2, <3>3
  <2>2. ASSUME NEW q \in Procs PROVE Filled(q)' /\ Quiet(q)'
    <3>1. CASE q = p  BY <1>9, <3>1 DEF InitSpawn
    <3>2. CASE q # p  BY <1>9, <3>2 DEF InitSpawn
    <3>. QED BY <3>1, <3>2
  <2>3. ExitRaces \/ late' = {}  BY <1>9 DEF InitSpawn
  <2>. QED BY <2>1, <2>2, <2>3
<1>10. CASE InitUndo(p)  BY <1>10 DEF InitUndo, UndoDone
<1>11. CASE InitUndoClear(p)  BY <1>11 DEF InitUndoClear, UndoDone
<1>. QED BY <1>1, <1>2, <1>3, <1>4, <1>5, <1>6, <1>7, <1>8, <1>9, <1>10, <1>11
     DEF InitStep

LEMMA TInvTermStep ==
  ASSUME TInv, NEW p \in Procs, TermBegin(p) \/ TermStep(p)
  PROVE  TInv'
<1>. USE TokensAssumption DEF TInv, TypeOK, Filled, Quiet, HandlerPcs, ApiPcs,
     ExitPcs, InitPcs, TermPcs, Trigger, durable, process, history, workers, Goto, Released
<1>1. CASE TermBegin(p)  BY <1>1 DEF TermBegin, MayCall
<1>2. CASE TermJoin(p)  BY <1>2 DEF TermJoin
<1>3. CASE TermRestore(p)  BY <1>3 DEF TermRestore, TermTrigger, HasBackup
<1>4. CASE TermClear(p)  BY <1>4 DEF TermClear
<1>5. CASE TermReset(p)  BY <1>5 DEF TermReset
<1>. QED BY <1>1, <1>2, <1>3, <1>4, <1>5 DEF TermStep

LEMMA TInvWorker ==
  ASSUME TInv, NEW p \in Procs, WorkerExit(p) \/ WorkerFail(p)
  PROVE  TInv'
<1>. USE DEF TInv, TypeOK, Filled, Quiet, HandlerPcs, durable, process,
     history, workers
<1>1. CASE WorkerExit(p)  BY <1>1 DEF WorkerExit
<1>2. CASE WorkerFail(p)  BY <1>2 DEF WorkerFail
<1>. QED BY <1>1, <1>2

LEMMA TInvExitStep ==
  ASSUME TInv, NEW p \in Procs, ExitCall(p) \/ ExitStep(p)
  PROVE  TInv'
<1>. USE TokensAssumption DEF TInv, TypeOK, Filled, Quiet, HandlerPcs, ApiPcs,
     ExitPcs, InitPcs, TermPcs, Trigger, durable, process, history, workers, Released
<1>1. CASE ExitCall(p) /\ ExitBusy(p)  BY <1>1 DEF ExitCall, ExitBusy
<1>2. CASE ExitCall(p) /\ ExitOwner(p)  BY <1>2 DEF ExitCall, ExitOwner,
     Captured
<1>3. CASE ExitCall(p) /\ ExitStranger(p)  BY <1>3 DEF ExitCall, ExitStranger
<1>4. CASE ExitLoad(p)  BY <1>4 DEF ExitLoad, HasBackup
<1>5. CASE ExitJoin(p)  BY <1>5 DEF ExitJoin
<1>6. CASE ExitRestore(p)  BY <1>6 DEF ExitRestore
<1>7. CASE ExitRelease(p)  BY <1>7 DEF ExitRelease
<1>8. CASE ProcessEnd(p)  BY <1>8 DEF ProcessEnd, Die
<1>. QED BY <1>1, <1>2, <1>3, <1>4, <1>5, <1>6, <1>7, <1>8 DEF ExitCall,
     ExitStep

LEMMA TInvSystem ==
  ASSUME TInv,
         (\E p \in Procs : Start(p) \/ Crash(p)) \/ Reboot \/ SystemSetsTrigger
  PROVE  TInv'
<1>. USE TokensAssumption DEF TInv, TypeOK, Filled, Quiet, HandlerPcs, ApiPcs,
     ExitPcs,
     Trigger, durable, process, history, workers
<1>1. ASSUME NEW p \in Procs, Start(p) PROVE TInv'  BY <1>1 DEF Start
<1>2. ASSUME NEW p \in Procs, Crash(p) PROVE TInv'  BY <1>2 DEF Crash, Die
<1>3. CASE Reboot  BY <1>3 DEF Reboot, Die
<1>4. CASE SystemSetsTrigger  BY <1>4 DEF SystemSetsTrigger
<1>. QED BY <1>1, <1>2, <1>3, <1>4

LEMMA TInvNext == TInv /\ [Next]_vars => TInv'
<1>. SUFFICES ASSUME TInv, [Next]_vars PROVE TInv'
  OBVIOUS
<1>1. CASE UNCHANGED vars
  BY <1>1 DEF TInv, TypeOK, Filled, Quiet, HandlerPcs, vars, durable, process,
     history, workers
<1>2. CASE Next
  BY <1>2, TInvInitStep, TInvTermStep, TInvWorker, TInvExitStep, TInvSystem
     DEF Next
<1>. QED BY <1>1, <1>2

LEMMA TInvAlways == Spec => []TInv
BY TInvInit, TInvNext, PTL DEF Spec

\* Every variable keeps its type; in particular nothing but a trigger token
\* is ever written to the LED's trigger file or to the backup, in any build
\* and whatever fails.
THEOREM TypeCorrect == Spec => []TypeOK
<1>1. TInv => TypeOK  BY DEF TInv
<1>. QED BY TInvAlways, <1>1, PTL

\* dsFPTerm gives the LED back only after it has joined the worker, and so does
\* the exit handler that has got the mutex, even when exit() overtakes another
\* call, unless a dsFPInit began beside the handler.  The blind restore of a
\* handler that has not got the mutex joins nobody; this says nothing of it.
THEOREM WorkerJoined == Spec => []WorkerEndsFirst
<1>1. TInv => WorkerEndsFirst
  BY DEF TInv, TypeOK, Quiet, HandlerPcs, HandsBack, WorkerEndsFirst
<1>. QED BY TInvAlways, <1>1, PTL

(***************************************************************************)
(* One owner.  The lock covers more than OneOwner speaks of: the exit      *)
(* handler keeps it until it has restored the trigger.  A late process may *)
(* use the LED after its own handler has released the lock.                *)
(***************************************************************************)

Holds(p) == Using(p) \/ exit[p] \in HandlerPcs

Owned == Guard => \A p \in Procs \ late : Holds(p) => owner = p

\* One lemma per part of Next, as for TInv.
LEMMA OwnedInit == Init => Owned
BY DEF Init, Owned, Holds, Using, HandlerPcs

LEMMA OwnedInitStep ==
  ASSUME TInv, Owned, NEW p \in Procs, InitBegin(p) \/ InitStep(p)
  PROVE  Owned'
<1>. USE TokensAssumption DEF TInv, TypeOK, Quiet, HandlerPcs, Owned, Holds,
     Using, ApiPcs,
     InitPcs, TermPcs, durable, process, history, workers, Goto, Released
<1>1. CASE InitBegin(p)  BY <1>1 DEF InitBegin, MayCall
<1>2. CASE InitLock(p)  BY <1>2 DEF InitLock, MayLock
<1>3. CASE InitLoad(p)  BY <1>3 DEF InitLoad
<1>4. CASE InitCompare(p)  BY <1>4 DEF InitCompare
<1>5. CASE InitUpdate(p)  BY <1>5 DEF InitUpdate
<1>6. CASE InitCache(p)  BY <1>6 DEF InitCache
<1>7. CASE InitSave(p)  BY <1>7 DEF InitSave
<1>8. CASE InitSetNone(p)  BY <1>8 DEF InitSetNone
<1>9. CASE InitSpawn(p)  BY <1>9 DEF InitSpawn
<1>10. CASE InitUndo(p)  BY <1>10 DEF InitUndo, UndoDone
<1>11. CASE InitUndoClear(p)  BY <1>11 DEF InitUndoClear, UndoDone
<1>. QED BY <1>1, <1>2, <1>3, <1>4, <1>5, <1>6, <1>7, <1>8, <1>9, <1>10, <1>11
     DEF InitStep

LEMMA OwnedTermStep ==
  ASSUME TInv, Owned, NEW p \in Procs, TermBegin(p) \/ TermStep(p)
  PROVE  Owned'
<1>. USE TokensAssumption DEF TInv, TypeOK, Quiet, HandlerPcs, Owned, Holds,
     Using, ApiPcs,
     InitPcs, TermPcs, durable, process, history, workers, Goto, Released
<1>1. CASE TermBegin(p)  BY <1>1 DEF TermBegin, MayCall
<1>2. CASE TermJoin(p)  BY <1>2 DEF TermJoin
<1>3. CASE TermRestore(p)  BY <1>3 DEF TermRestore
<1>4. CASE TermClear(p)  BY <1>4 DEF TermClear
<1>5. CASE TermReset(p)  BY <1>5 DEF TermReset
<1>. QED BY <1>1, <1>2, <1>3, <1>4, <1>5 DEF TermStep

LEMMA OwnedExitStep ==
  ASSUME TInv, Owned, NEW p \in Procs, ExitCall(p) \/ ExitStep(p)
  PROVE  Owned'
<1>. USE TokensAssumption DEF TInv, TypeOK, Quiet, HandlerPcs, Owned, Holds,
     Using, ExitPcs,
     durable, process, history, workers, Released
<1>1. CASE ExitCall(p)
  BY <1>1 DEF ExitCall, ExitBusy, ExitOwner, ExitStranger
<1>2. CASE ExitLoad(p)  BY <1>2 DEF ExitLoad
<1>3. CASE ExitJoin(p)  BY <1>3 DEF ExitJoin
<1>4. CASE ExitRestore(p)  BY <1>4 DEF ExitRestore
<1>5. CASE ExitRelease(p)  BY <1>5 DEF ExitRelease
<1>6. CASE ProcessEnd(p)  BY <1>6 DEF ProcessEnd, Die
<1>. QED BY <1>1, <1>2, <1>3, <1>4, <1>5, <1>6 DEF ExitStep

LEMMA OwnedOthers ==
  ASSUME TInv, Owned,
         \/ \E p \in Procs : WorkerExit(p) \/ WorkerFail(p) \/ Start(p) \/ Crash(p)
         \/ Reboot \/ SystemSetsTrigger
  PROVE  Owned'
<1>. USE DEF TInv, TypeOK, Owned, Holds, Using, HandlerPcs, durable, process,
     history, workers
<1>1. ASSUME NEW p \in Procs, WorkerExit(p) \/ WorkerFail(p) \/ Start(p)
      PROVE  Owned'
  BY <1>1 DEF WorkerExit, WorkerFail, Start
<1>2. ASSUME NEW p \in Procs, Crash(p) PROVE Owned'  BY <1>2 DEF Crash, Die
<1>3. CASE Reboot  BY <1>3 DEF Reboot, Die
<1>4. CASE SystemSetsTrigger  BY <1>4 DEF SystemSetsTrigger
<1>. QED BY <1>1, <1>2, <1>3, <1>4

LEMMA OwnedNext == TInv /\ Owned /\ [Next]_vars => Owned'
<1>. SUFFICES ASSUME TInv, Owned, [Next]_vars PROVE Owned'
  OBVIOUS
<1>1. CASE UNCHANGED vars
  BY <1>1 DEF Owned, Holds, Using, HandlerPcs, vars, durable, process, history,
     workers
<1>2. CASE Next
  BY <1>2, OwnedInitStep, OwnedTermStep, OwnedExitStep, OwnedOthers DEF Next
<1>. QED BY <1>1, <1>2

LEMMA OwnedAlways == Spec => []Owned
BY OwnedInit, OwnedNext, TInvAlways, PTL DEF Spec

\* With the multi-process guard compiled in, no two processes are between
\* taking the LED and giving it back, whatever fails and whoever exits, except
\* for processes in which a dsFPInit began beside the exit handler: it goes on
\* with the lock that the handler then releases.
THEOREM MutualExclusion == Spec => []OneOwner
<1>1. Owned => OneOwner  BY DEF Owned, OneOwner, Holds
<1>. QED BY OwnedAlways, <1>1, PTL

(***************************************************************************)
(* An LED without a kernel trigger always has a backup.                    *)
(***************************************************************************)

\* Where a step relies on what an earlier step of the same call has found.
SInv ==
  /\ sysfs = Off => backup # Absent
  /\ backup # Off
  /\ \A p \in Procs :
       /\ prev[p] # Off /\ exitTrigger[p] # Off
       /\ api[p] \in {"compare", "update", "setNone"} => backup # Absent
       /\ api[p] \in {"cache", "clear", "undoClear"} => sysfs # Off

\* Nobody else is where the trigger or the backup must not change.
LEMMA Alone ==
  ASSUME Guard, Owned, late = {}, NEW p \in Procs, Holds(p),
         NEW q \in Procs, q # p
  PROVE  ~Holds(q)
BY DEF Owned

LEMMA SInvInitStep ==
  ASSUME Guard, "load" \notin FaultOps, TInv, Owned, late = {}, SInv,
         NEW p \in Procs, InitBegin(p) \/ InitStep(p)
  PROVE  SInv'
<1>. USE TokensAssumption DEF TInv, TypeOK, Filled, SInv, ApiPcs, InitPcs,
     TermPcs, Trigger, durable, process, history, workers, Goto
<1>1. CASE InitBegin(p)  BY <1>1 DEF InitBegin, MayCall
<1>2. CASE InitLock(p)  BY <1>2 DEF InitLock
<1>3. CASE InitLoad(p)  BY <1>3 DEF InitLoad, HasBackup, Fails
<1>4. CASE InitCompare(p)  BY <1>4 DEF InitCompare, Stale
<1>5. CASE InitUpdate(p)  BY <1>5 DEF InitUpdate
<1>6. CASE InitCache(p)  BY <1>6 DEF InitCache
<1>7. CASE InitSave(p)  BY <1>7 DEF InitSave
<1>8. CASE InitSetNone(p)
  BY <1>8, Alone DEF InitSetNone, Holds, Using
<1>9. CASE InitSpawn(p)  BY <1>9 DEF InitSpawn
<1>10. CASE InitUndo(p)  BY <1>10 DEF InitUndo, UndoDone
<1>11. CASE InitUndoClear(p)
  BY <1>11, Alone DEF InitUndoClear, UndoDone, Holds, Using
<1>. QED BY <1>1, <1>2, <1>3, <1>4, <1>5, <1>6, <1>7, <1>8, <1>9, <1>10, <1>11
     DEF InitStep

LEMMA SInvTermStep ==
  ASSUME Guard, TInv, Owned, late = {}, SInv,
         NEW p \in Procs, TermBegin(p) \/ TermStep(p)
  PROVE  SInv'
<1>. USE TokensAssumption DEF TInv, TypeOK, SInv, ApiPcs, InitPcs, TermPcs,
     Trigger, durable, process, history, workers, Goto
<1>1. CASE TermBegin(p)  BY <1>1 DEF TermBegin, MayCall
<1>2. CASE TermJoin(p)  BY <1>2 DEF TermJoin
<1>3. CASE TermRestore(p)  BY <1>3 DEF TermRestore, TermTrigger, HasBackup
<1>4. CASE TermClear(p)  BY <1>4, Alone DEF TermClear, Holds, Using
<1>5. CASE TermReset(p)  BY <1>5 DEF TermReset
<1>. QED BY <1>1, <1>2, <1>3, <1>4, <1>5 DEF TermStep

LEMMA SInvExitStep ==
  ASSUME TInv, SInv, NEW p \in Procs, ExitCall(p) \/ ExitStep(p)
  PROVE  SInv'
<1>. USE TokensAssumption DEF TInv, TypeOK, Filled, SInv, Trigger, durable,
     process, history, workers
<1>1. CASE ExitCall(p)
  BY <1>1 DEF ExitCall, ExitBusy, ExitOwner, ExitStranger, Captured
<1>2. CASE ExitLoad(p)  BY <1>2 DEF ExitLoad, HasBackup
<1>3. CASE ExitJoin(p)  BY <1>3 DEF ExitJoin
<1>4. CASE ExitRestore(p)  BY <1>4 DEF ExitRestore
<1>5. CASE ExitRelease(p)  BY <1>5 DEF ExitRelease
<1>6. CASE ProcessEnd(p)  BY <1>6 DEF ProcessEnd, Die
<1>. QED BY <1>1, <1>2, <1>3, <1>4, <1>5, <1>6 DEF ExitStep

LEMMA SInvOthers ==
  ASSUME TInv, SInv,
         \/ \E p \in Procs : WorkerExit(p) \/ WorkerFail(p) \/ Start(p) \/ Crash(p)
         \/ SystemSetsTrigger
  PROVE  SInv'
<1>. USE TokensAssumption DEF TInv, TypeOK, SInv, Trigger, durable, process,
     history, workers
<1>1. ASSUME NEW p \in Procs, WorkerExit(p) \/ WorkerFail(p) \/ Start(p)
      PROVE  SInv'
  BY <1>1 DEF WorkerExit, WorkerFail, Start
<1>2. ASSUME NEW p \in Procs, Crash(p) PROVE SInv'  BY <1>2 DEF Crash, Die
<1>3. CASE SystemSetsTrigger  BY <1>3 DEF SystemSetsTrigger
<1>. QED BY <1>1, <1>2, <1>3

LEMMA SInvReboot ==
  ASSUME BootTriggers \subseteq Kernel, Reboot
  PROVE  SInv'
BY TokensAssumption DEF Reboot, Die, SInv, Trigger

\* Only a reboot makes late smaller.
LEMMA LateGrows ==
  ASSUME TInv, Next, late' = {}
  PROVE  Reboot \/ late = {}
<1>. USE DEF durable, history
<1>1. ASSUME NEW p \in Procs, InitBegin(p) \/ InitStep(p) PROVE late \subseteq late'
  BY <1>1 DEF InitBegin, InitStep, InitLock, InitLoad, InitCompare, InitUpdate,
     InitCache, InitSave, InitSetNone, InitSpawn, InitUndo, InitUndoClear
<1>2. ASSUME NEW p \in Procs, TermBegin(p) \/ TermStep(p) PROVE late \subseteq late'
  BY <1>2 DEF TermBegin, TermStep, TermJoin, TermRestore, TermClear, TermReset
<1>3. ASSUME NEW p \in Procs, ExitCall(p) \/ ExitStep(p) PROVE late \subseteq late'
  BY <1>3 DEF ExitCall, ExitStep, ExitLoad, ExitJoin, ExitRestore, ExitRelease,
     ProcessEnd
<1>4. ASSUME NEW p \in Procs, WorkerExit(p) \/ WorkerFail(p) \/ Start(p) \/ Crash(p)
      PROVE  late \subseteq late'
  BY <1>4 DEF WorkerExit, WorkerFail, Start, Crash
<1>5. CASE SystemSetsTrigger  BY <1>5 DEF SystemSetsTrigger
<1>. QED BY <1>1, <1>2, <1>3, <1>4, <1>5 DEF Next

\* With the guard, a backup file that can be read when it is there, and an LED
\* that starts out with a kernel trigger, an LED that no trigger drives can
\* be given back: whatever else fails, wherever a process crashes, and also
\* when exit() runs during a call of another thread or the other thread begins
\* one meanwhile, as long as no dsFPInit begins beside the exit handler.
THEOREM Strandless ==
  ASSUME Guard, "load" \notin FaultOps, BootTriggers \subseteq Kernel
  PROVE  Spec => []NeverStranded
<1>. DEFINE Safe == late = {} => SInv
<1>1. Init => Safe
  BY TokensAssumption DEF Init, SInv, Trigger
<1>2. TInv /\ Owned /\ Safe /\ [Next]_vars => Safe'
  <2>. SUFFICES ASSUME TInv, Owned, Safe, [Next]_vars, late' = {} PROVE SInv'
    OBVIOUS
  <2>1. CASE UNCHANGED vars
    BY <2>1 DEF SInv, vars, durable, process, history, workers
  <2>2. CASE Reboot
    BY <2>2, SInvReboot
  <2>3. CASE Next /\ ~Reboot
    <3>1. late = {} /\ SInv  BY <2>3, LateGrows
    <3>. QED
      BY <2>3, <3>1, SInvInitStep, SInvTermStep, SInvExitStep,
         SInvOthers DEF Next
  <2>. QED BY <2>1, <2>2, <2>3
<1>3. TInv /\ Safe => NeverStranded
  BY DEF TInv, TypeOK, SInv, NeverStranded, Trigger
<1>. HIDE DEF Safe
<1>. QED BY <1>1, <1>2, <1>3, TInvAlways, OwnedAlways, PTL DEF Spec

(***************************************************************************)
(* Crash-safe restore.                                                     *)
(***************************************************************************)

\* What dsFPInit must not ignore for the promise to hold, and when exit() may
\* be called.
Careful ==
  /\ Guard /\ ~ExitRaces
  /\ FaultOps \cap {"load", "reread", "update"} = {}

\* The LED and the backup between two steps of any call.
RState ==
  /\ sysfs \in {Off, orig}
  /\ Recoverable
  /\ orig = Off => backup \in {Absent, Off}

\* What the API thread has learnt and made sure of where it stands.
RApi(p) ==
  /\ api[p] = "compare" => prev[p] = backup /\ backup # Absent
  /\ api[p] \in {"cache", "update", "save", "clear", "undoClear"} => sysfs = orig
  /\ api[p] \in {"update", "save"} => prev[p] = orig
  /\ api[p] \in {"setNone", "spawn", "undo", "join", "restore"} \/ initialized[p]
       => prev[p] = orig /\ backup = orig

\* The exit handler finds the mutex busy only when the worker of an
\* initialized module holds it.
RExit(p) ==
  /\ exit[p] \in {"load", "blindRestore"} => initialized[p]
  /\ exit[p] \in {"blindRestore", "join", "restore"} => exitTrigger[p] = orig

RInv == RState /\ \A p \in Procs : RApi(p) /\ RExit(p)

LEMMA RInvInitStep ==
  ASSUME Careful, TInv, Owned, RInv, NEW p \in Procs, InitBegin(p) \/ InitStep(p)
  PROVE  RInv'
<1>. USE TokensAssumption, Alone DEF Careful, TInv, TypeOK, Quiet, Holds, Using,
     RInv, RState, RApi, RExit, Recoverable, ApiPcs, InitPcs, TermPcs, Trigger,
     durable, process, history, workers, Goto, Fails
<1>1. CASE InitBegin(p)  BY <1>1 DEF InitBegin, MayCall
<1>2. CASE InitLock(p)  BY <1>2 DEF InitLock
<1>3. CASE InitLoad(p)  BY <1>3 DEF InitLoad, HasBackup
<1>4. CASE InitCompare(p)  BY <1>4 DEF InitCompare, Stale
<1>5. CASE InitUpdate(p)  BY <1>5 DEF InitUpdate
<1>6. CASE InitCache(p)  BY <1>6 DEF InitCache
<1>7. CASE InitSave(p)  BY <1>7 DEF InitSave
<1>8. CASE InitSetNone(p)  BY <1>8 DEF InitSetNone
<1>9. CASE InitSpawn(p)  BY <1>9 DEF InitSpawn
<1>10. CASE InitUndo(p)  BY <1>10 DEF InitUndo, UndoDone
<1>11. CASE InitUndoClear(p)  BY <1>11 DEF InitUndoClear, UndoDone
<1>. QED BY <1>1, <1>2, <1>3, <1>4, <1>5, <1>6, <1>7, <1>8, <1>9, <1>10, <1>11
     DEF InitStep

LEMMA RInvTermStep ==
  ASSUME Careful, TInv, Owned, RInv, NEW p \in Procs, TermBegin(p) \/ TermStep(p)
  PROVE  RInv'
<1>. USE TokensAssumption, Alone DEF Careful, TInv, TypeOK, Quiet, Holds, Using,
     RInv, RState, RApi, RExit, Recoverable, ApiPcs, InitPcs, TermPcs, Trigger,
     durable, process, history, workers, Goto
<1>1. CASE TermBegin(p)  BY <1>1 DEF TermBegin, MayCall
<1>2. CASE TermJoin(p)  BY <1>2 DEF TermJoin
<1>3. CASE TermRestore(p)  BY <1>3 DEF TermRestore, TermTrigger
<1>4. CASE TermClear(p)  BY <1>4 DEF TermClear
<1>5. CASE TermReset(p)  BY <1>5 DEF TermReset
<1>. QED BY <1>1, <1>2, <1>3, <1>4, <1>5 DEF TermStep

LEMMA RInvExitStep ==
  ASSUME Careful, TInv, RInv, NEW p \in Procs, ExitCall(p) \/ ExitStep(p)
  PROVE  RInv'
<1>. USE TokensAssumption DEF Careful, TInv, TypeOK, Quiet, RInv, RState, RApi,
     RExit, Recoverable, ExitPcs, Trigger, durable, process, history, workers
<1>1. CASE ExitCall(p) /\ ExitBusy(p)
  BY <1>1 DEF ExitCall, ExitBusy, MutexBusy, MutexPcs, InitPcs, TermPcs
<1>2. CASE ExitCall(p) /\ ExitOwner(p)  BY <1>2 DEF ExitCall, ExitOwner,
     Captured
<1>3. CASE ExitCall(p) /\ ExitStranger(p)  BY <1>3 DEF ExitCall, ExitStranger
<1>4. CASE ExitLoad(p)  BY <1>4 DEF ExitLoad
<1>5. CASE ExitJoin(p)  BY <1>5 DEF ExitJoin
<1>6. CASE ExitRestore(p)  BY <1>6 DEF ExitRestore
<1>7. CASE ExitRelease(p)  BY <1>7 DEF ExitRelease
<1>8. CASE ProcessEnd(p)  BY <1>8 DEF ProcessEnd, Die
<1>. QED BY <1>1, <1>2, <1>3, <1>4, <1>5, <1>6, <1>7, <1>8 DEF ExitCall,
     ExitStep

LEMMA RInvOthers ==
  ASSUME TInv, RInv,
         \/ \E p \in Procs : WorkerExit(p) \/ WorkerFail(p) \/ Start(p) \/ Crash(p)
         \/ Reboot \/ SystemSetsTrigger
  PROVE  RInv'
<1>. USE TokensAssumption DEF TInv, TypeOK, RInv, RState, RApi, RExit,
     Recoverable,
     Trigger, durable, process, history, workers
<1>1. ASSUME NEW p \in Procs, WorkerExit(p) \/ WorkerFail(p) \/ Start(p)
      PROVE  RInv'
  BY <1>1 DEF WorkerExit, WorkerFail, Start
<1>2. ASSUME NEW p \in Procs, Crash(p) PROVE RInv'  BY <1>2 DEF Crash, Die
<1>3. CASE Reboot  BY <1>3 DEF Reboot, Die
<1>4. CASE SystemSetsTrigger  BY <1>4 DEF SystemSetsTrigger, Using
<1>. QED BY <1>1, <1>2, <1>3, <1>4

LEMMA RInvAlways ==
  ASSUME Careful
  PROVE  Spec => []RInv
<1>1. Init => RInv
  BY TokensAssumption DEF Init, RInv, RState, RApi, RExit, Recoverable, Trigger
<1>2. TInv /\ Owned /\ RInv /\ [Next]_vars => RInv'
  <2>. SUFFICES ASSUME TInv, Owned, RInv, [Next]_vars PROVE RInv'
    OBVIOUS
  <2>1. CASE UNCHANGED vars
    BY <2>1 DEF RInv, RState, RApi, RExit, Recoverable, vars, durable, process,
       history, workers
  <2>2. CASE Next
    BY <2>2, RInvInitStep, RInvTermStep, RInvExitStep, RInvOthers DEF Next
  <2>. QED BY <2>1, <2>2
<1>. QED BY <1>1, <1>2, TInvAlways, OwnedAlways, PTL DEF Spec

\* Wherever a process is stopped, the LED carries the trigger that the system
\* chose for it, or the backup file names that trigger.
THEOREM CrashSafeRestore ==
  ASSUME Careful
  PROVE  Spec => []Recoverable
<1>1. RInv => Recoverable  BY DEF RInv, RState
<1>. QED BY RInvAlways, <1>1, PTL

\* The exit handler writes the trigger that the system chose, both when it
\* owns the module and when it restores from the backup.
THEOREM ExitRestoresChoice ==
  ASSUME Careful
  PROVE  Spec => []ExitHandsBack
<1>1. RInv => ExitHandsBack  BY DEF RInv, RExit, ExitHandsBack
<1>. QED BY RInvAlways, <1>1, PTL

\* The backup is removed only when the LED carries the trigger the system
\* chose, or together with the processes at a reboot.
THEOREM BackupKept ==
  ASSUME Careful
  PROVE  Spec => BackupOutlivesUse
<1>. DEFINE Kept == backup # Absent /\ backup' = Absent => sysfs' = orig'
<1>1. TInv /\ RInv /\ [Next]_vars => [Kept]_vars
  <2>. SUFFICES ASSUME TInv, RInv, Next, backup # Absent, backup' = Absent
                PROVE  sysfs' = orig'
    OBVIOUS
  <2>. USE TokensAssumption DEF TInv, TypeOK, RInv, RState, RApi, Filled,
       Trigger,
       durable, process, history, workers
  <2>1. ASSUME NEW p \in Procs, InitStep(p) PROVE sysfs' = orig'
    BY <2>1 DEF InitStep, InitLock, InitLoad, InitCompare, InitUpdate,
       InitCache,
       InitSave, InitSetNone, InitSpawn, InitUndo, InitUndoClear
  <2>2. ASSUME NEW p \in Procs, TermStep(p) PROVE sysfs' = orig'
    BY <2>2 DEF TermStep, TermJoin, TermRestore, TermClear, TermReset
  <2>3. ASSUME NEW p \in Procs, ExitStep(p) PROVE sysfs' = orig'
    BY <2>3 DEF ExitStep, ExitLoad, ExitJoin, ExitRestore, ExitRelease,
       ProcessEnd
  <2>4. ASSUME NEW p \in Procs,
               InitBegin(p) \/ TermBegin(p) \/ WorkerExit(p) \/ WorkerFail(p)
               \/ ExitCall(p) \/ Start(p) \/ Crash(p)
        PROVE  sysfs' = orig'
    BY <2>4 DEF InitBegin, MayCall, TermBegin, WorkerExit, WorkerFail,
       ExitCall, Start, Crash
  <2>5. CASE Reboot \/ SystemSetsTrigger  BY <2>5 DEF Reboot, SystemSetsTrigger
  <2>. QED BY <2>1, <2>2, <2>3, <2>4, <2>5 DEF Next
<1>. QED BY <1>1, TInvAlways, RInvAlways, PTL DEF Spec, BackupOutlivesUse

=============================================================================
