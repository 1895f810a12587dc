--------------------------- MODULE SingletonGuard ---------------------------
(***************************************************************************)
(* The library guard of dsSingletonGuard.c: the constructor that opens     *)
(* /run/lock/dshal_singleton.lock, tries to lock it and writes the pid of  *)
(* the process into it, and the destructor that gives the lock back.       *)
(*                                                                         *)
(* Each system call is a step.  Any of them may fail; a process may end at *)
(* any step, and the kernel then drops its record lock.  A process that is *)
(* refused the lock goes on without it ("Phase 1").                        *)
(***************************************************************************)
EXTENDS Naturals, Sequences

CONSTANTS
  Loaders,      \* the processes that load the library
  NULL,       \* no process
  PidLength,  \* the length of each process's "<pid>\n"
  FaultOps    \* operations that may fail: "open", "stat", "lock",
              \* "truncate", "write"

ASSUME ProcAssumption == NULL \notin Loaders /\ PidLength \in [Loaders -> Nat \ {0}]
ASSUME FaultAssumption ==
  FaultOps \subseteq {"open", "stat", "lock", "truncate", "write"}

VARIABLES
  regular,                \* the path is a regular file
  file,                   \* its bytes, each known by the process it is of
  locked,                 \* the process that has the kernel's record lock
  pc,                     \* where each process stands: "none", "opened",
                          \* "locked", "truncated", "loaded"
  gDSHALSingletonLockFd,  \* the processes whose variable is set
  faulty                  \* history: the text in the file may be incomplete

guardVars == <<regular, file, locked, pc, gDSHALSingletonLockFd, faulty>>

Text(p) == [i \in 1 .. PidLength[p] |-> p]
Fails(op) == op \in FaultOps

GuardInit ==
  /\ regular \in BOOLEAN
  /\ file = <<>> /\ locked = NULL /\ faulty = FALSE
  /\ pc = [p \in Loaders |-> "none"]
  /\ gDSHALSingletonLockFd = {}

Goto(p, to) == pc' = [pc EXCEPT ![p] = to]

\* When the file cannot be opened the process ends; when it is not a regular
\* file the library is loaded without a guard.
Open(p) ==
  /\ pc[p] = "none"
  /\ \/ Fails("open") /\ UNCHANGED pc
     \/ (~regular \/ Fails("stat")) /\ Goto(p, "loaded")
     \/ regular /\ Goto(p, "opened")
  /\ UNCHANGED <<regular, file, locked, gDSHALSingletonLockFd, faulty>>

Available == locked = NULL

Lock(p) ==
  /\ pc[p] = "opened" /\ Available
  /\ locked' = p
  /\ Goto(p, "locked")
  /\ UNCHANGED <<regular, file, gDSHALSingletonLockFd, faulty>>

\* "Allow multi-instance; continue without holding lock".
Refused(p) ==
  /\ pc[p] = "opened"
  /\ locked # NULL \/ Fails("lock")
  /\ Goto(p, "loaded")
  /\ UNCHANGED <<regular, file, locked, gDSHALSingletonLockFd, faulty>>

\* Mutant: the file is opened with O_TRUNC or emptied before the lock is taken.
MayTruncateFirst(p) == pc[p] \in {"opened", "locked"}
MayTruncate(p) == pc[p] = "locked"

Truncate(p) ==
  /\ MayTruncate(p)
  /\ \/ file' = <<>> /\ faulty' = FALSE
     \/ Fails("truncate") /\ faulty' = TRUE /\ UNCHANGED file
  /\ IF pc[p] = "locked" THEN Goto(p, "truncated") ELSE UNCHANGED pc
  /\ UNCHANGED <<regular, locked, gDSHALSingletonLockFd>>

\* A write at the start of the file: longer text that was there keeps its tail.
After(text) == text \o SubSeq(file, Len(text) + 1, Len(file))

\* A short write is only reported.
WritePid(p) ==
  /\ pc[p] = "truncated"
  /\ \/ file' = After(Text(p)) /\ UNCHANGED faulty
     \/ /\ Fails("write")
        /\ \E n \in 0 .. PidLength[p] - 1 : file' = After(SubSeq(Text(p), 1, n))
        /\ faulty' = TRUE
  /\ gDSHALSingletonLockFd' = gDSHALSingletonLockFd \cup {p}
  /\ Goto(p, "loaded")
  /\ UNCHANGED <<regular, locked>>

Leave(p) ==
  /\ Goto(p, "none")
  /\ locked' = IF locked = p THEN NULL ELSE locked
  /\ gDSHALSingletonLockFd' = gDSHALSingletonLockFd \ {p}
  /\ UNCHANGED <<regular, file, faulty>>

\* The destructor; the text stays in the file.
releaseSingletonLock(p) == pc[p] = "loaded" /\ Leave(p)

Killed(p) == pc[p] # "none" /\ Leave(p)

GuardNext ==
  \E p \in Loaders :
    \/ Open(p) \/ Lock(p) \/ Refused(p) \/ Truncate(p) \/ WritePid(p)
    \/ releaseSingletonLock(p) \/ Killed(p)

GuardSpec == GuardInit /\ [][GuardNext]_guardVars

(***************************************************************************)
(* Properties                                                              *)
(***************************************************************************)

\* While a process has the guard the file says its pid and nothing else: a
\* process that is refused, or that ended before, leaves no byte in it.
NamesHolder ==
  \A p \in gDSHALSingletonLockFd : ~faulty => file = Text(p)

\* Whatever the order in which processes load and end, no two of them have the
\* guard, one that has it has the lock, and the file names it.
OneGuard ==
  /\ \A p \in gDSHALSingletonLockFd :
       locked = p /\ \A q \in gDSHALSingletonLockFd : q = p
  /\ NamesHolder
=============================================================================
