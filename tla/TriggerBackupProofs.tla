------------------------ MODULE TriggerBackupProofs ------------------------
(***************************************************************************)
(* Proofs about the two files of the library under /run/lock.              *)
(*                                                                         *)
(* TriggerBackup, for any number of processes, texts and inodes: with the  *)
(* guard, the backup is never partially written, and the three functions   *)
(* implement an atomic register.                                           *)
(* SingletonGuard, for any number of processes, whatever their pids and    *)
(* whichever system calls fail: one of them at most is the guard.          *)
(***************************************************************************)
EXTENDS TriggerBackup, SingletonGuard, TLAPS

(***************************************************************************)
(* Texts and their prefixes                                                *)
(***************************************************************************)

\* What TextsAssumption says of one text.
LEMMA TextFacts ==
  ASSUME NEW t \in Texts
  PROVE  /\ t \in Seq(Chars) /\ t # None
         /\ Len(t) \in Nat \ {0}
BY TextsAssumption, NoneAssumption

LEMMA PrefixFacts ==
  ASSUME NEW t \in Seq(Chars), NEW n \in 0 .. Len(t)
  PROVE  Prefix(t, n) \in Seq(Chars) /\ Len(Prefix(t, n)) = n
BY DEF Prefix

LEMMA PrefixWhole == \A t \in Seq(Chars) : Prefix(t, Len(t)) = t
BY DEF Prefix

\* open with O_TRUNC leaves the first no characters of any text.
LEMMA PrefixNothing == \A t \in Texts : Prefix(t, 0) = << >>
BY DEF Prefix

\* A write behind a prefix makes a longer one.
LEMMA GrownPrefix ==
  ASSUME NEW t \in Seq(Chars), NEW k \in Nat, NEW n \in Nat \ {0}, k + n <= Len(t)
  PROVE  Grown(Prefix(t, k), t, k, n) = Prefix(t, k + n)
<1>1. Len(Prefix(t, k)) = k  BY DEF Prefix
<1>2. \A i \in 1 .. k : Prefix(t, k)[i] = t[i]  BY DEF Prefix
<1>. QED BY <1>1, <1>2 DEF Grown, Prefix

(***************************************************************************)
(* The inductive invariant.  Whoever is saving holds the lock, so that the *)
(* temporary file is its own and holds what it has written so far; the     *)
(* backup and the files that are being loaded are others, and whole.       *)
(***************************************************************************)

Saver(p) ==
  at[p] \in {"write", "sync", "rename"} =>
    /\ lock = p
    /\ tmp \in Inodes /\ fd[p] = tmp
    /\ text[p] \in Texts /\ total[p] \in 0 .. Len(text[p])
    /\ data[tmp] = Prefix(text[p], total[p])
    /\ at[p] # "write" => total[p] = Len(text[p])

Reader(p) ==
  at[p] = "read" =>
    /\ fd[p] \in Inodes /\ fd[p] # tmp
    /\ data[fd[p]] \in Texts
    /\ text[p] = None
    /\ total[p] <= Len(data[fd[p]])

Idle(p) == at[p] = "idle" => text[p] = None

Whole == backup # None => backup # tmp /\ data[backup] \in Texts

IInv ==
  /\ TypeOK
  /\ Whole
  /\ \A p \in Procs : Saver(p) /\ Reader(p) /\ Idle(p)

LEMMA IInvInit == Init => IInv
BY DEF Init, IInv, TypeOK, Whole, Saver, Reader, Idle

\* Everything but writing: the files keep what they hold.
LEMMA IInvQuietStep ==
  ASSUME IInv, Guard, NEW p \in Procs,
         \/ acquireProcessLock(p) \/ releaseProcessLock(p) \/ Sync(p)
         \/ SaveFails(p) \/ clearTriggerBackup(p) \/ LoadFails(p) \/ Crash(p)
  PROVE  IInv'
<1>. USE NoneAssumption DEF IInv, TypeOK, Whole, Saver, Reader, Idle, files, process, Return
<1>1. CASE acquireProcessLock(p)  BY <1>1 DEF acquireProcessLock
<1>2. CASE releaseProcessLock(p)  BY <1>2 DEF releaseProcessLock
<1>3. CASE Sync(p)  BY <1>3 DEF Sync
<1>4. CASE SaveFails(p)  BY <1>4 DEF SaveFails
<1>5. CASE clearTriggerBackup(p)  BY <1>5 DEF clearTriggerBackup
<1>6. CASE LoadFails(p)  BY <1>6 DEF LoadFails
<1>7. CASE Crash(p)  BY <1>7 DEF Crash
<1>. QED BY <1>1, <1>2, <1>3, <1>4, <1>5, <1>6, <1>7

\* The temporary file is emptied: nobody else is saving, no reader has it open
\* and it is not the backup.
LEMMA IInvSaveOpen ==
  ASSUME IInv, Guard, NEW p \in Procs, SaveOpen(p)
  PROVE  IInv'
<1>1. PICK i \in Inodes, t \in Texts :
        /\ Target(i)
        /\ text' = [text EXCEPT ![p] = t]
        /\ tmp' = i
        /\ data' = [data EXCEPT ![i] = << >>]
        /\ Opened(p, "write", i)
  BY DEF SaveOpen
<1>2. /\ at[p] = "idle" /\ lock = p
      /\ UNCHANGED <<lock, backup, loaded>>
  BY DEF SaveOpen, May
<1>3. /\ backup # i
      /\ \A q \in Procs : at[q] = "read" => fd[q] # i
  BY <1>1, NoneAssumption DEF IInv, Whole, Reader, Target, Free, TypeOK
<1>4. TypeOK'
  BY <1>1, <1>2 DEF IInv, TypeOK, Opened
<1>5. Whole'
  BY <1>1, <1>2, <1>3, NoneAssumption DEF IInv, TypeOK, Whole
<1>6. Saver(p)' /\ Reader(p)' /\ Idle(p)'
  <2>1. data'[i] = Prefix(t, 0)  BY <1>1, PrefixNothing DEF IInv, TypeOK
  <2>2. Len(t) \in Nat  BY TextFacts
  <2>. QED BY <1>1, <1>2, <2>1, <2>2 DEF IInv, TypeOK, Opened, Saver, Reader, Idle
<1>7. ASSUME NEW q \in Procs, q # p PROVE Saver(q)' /\ Reader(q)' /\ Idle(q)'
  BY <1>1, <1>2, <1>3, <1>7 DEF IInv, TypeOK, Opened, Saver, Reader, Idle
<1>. QED BY <1>4, <1>5, <1>6, <1>7 DEF IInv

\* A write makes the prefix longer, and touches no other file.
LEMMA IInvWrite ==
  ASSUME IInv, Guard, NEW p \in Procs, Write(p)
  PROVE  IInv'
<1>1. PICK n \in 1 .. Len(text[p]) - total[p] :
        /\ data' = [data EXCEPT ![fd[p]] = Grown(@, text[p], total[p], n)]
        /\ total' = [total EXCEPT ![p] = @ + n]
        /\ at' = [at EXCEPT ![p] = IF Written(p, n) THEN "sync" ELSE "write"]
  BY DEF Write
<1>2. /\ at[p] = "write"
      /\ UNCHANGED <<lock, tmp, backup, text, fd, loaded>>
  BY DEF Write
<1>3. /\ lock = p /\ tmp \in Inodes /\ fd[p] = tmp
      /\ text[p] \in Texts /\ total[p] \in 0 .. Len(text[p])
      /\ data[tmp] = Prefix(text[p], total[p])
  BY <1>2 DEF IInv, Saver
<1>4. text[p] \in Seq(Chars) /\ Len(text[p]) \in Nat  BY <1>3, TextFacts
<1>5. n \in Nat \ {0} /\ total[p] + n \in 0 .. Len(text[p])  BY <1>3, <1>4
<1>6. data' = [data EXCEPT ![tmp] = Prefix(text[p], total[p] + n)]
  <2>1. total[p] \in Nat /\ total[p] + n <= Len(text[p])  BY <1>3, <1>5
  <2>2. Grown(Prefix(text[p], total[p]), text[p], total[p], n) = Prefix(text[p], total[p] + n)
    BY <1>4, <1>5, <2>1, GrownPrefix
  <2>. QED BY <1>1, <1>3, <2>2
<1>7. Prefix(text[p], total[p] + n) \in Seq(Chars)
  BY <1>4, <1>5, PrefixFacts
<1>8. TypeOK'
  <2>1. data' \in [Inodes -> Seq(Chars)]  BY <1>3, <1>6, <1>7 DEF IInv, TypeOK
  <2>2. at' \in [Procs -> {"idle", "write", "sync", "rename", "read"}]
    BY <1>1 DEF IInv, TypeOK
  <2>3. total' \in [Procs -> Nat]  BY <1>1, <1>5 DEF IInv, TypeOK
  <2>. QED BY <1>2, <2>1, <2>2, <2>3 DEF IInv, TypeOK
<1>9. Whole'
  BY <1>2, <1>6, NoneAssumption DEF IInv, TypeOK, Whole
<1>10. Saver(p)' /\ Reader(p)' /\ Idle(p)'
  BY <1>1, <1>2, <1>3, <1>5, <1>6 DEF IInv, TypeOK, Saver, Reader, Idle, Written
<1>11. ASSUME NEW q \in Procs, q # p PROVE Saver(q)' /\ Reader(q)' /\ Idle(q)'
  BY <1>1, <1>2, <1>3, <1>6, <1>11 DEF IInv, TypeOK, Saver, Reader, Idle
<1>. QED BY <1>8, <1>9, <1>10, <1>11 DEF IInv

\* What is renamed into place is the whole text.
LEMMA IInvRename ==
  ASSUME IInv, Guard, NEW p \in Procs, Rename(p)
  PROVE  IInv' /\ data[tmp] = text[p] /\ text[p] \in Texts
<1>1. /\ lock = p /\ tmp \in Inodes /\ text[p] \in Texts
      /\ data[tmp] = Prefix(text[p], Len(text[p]))
  BY DEF IInv, Saver, Rename
<1>2. data[tmp] = text[p]  BY <1>1, TextFacts, PrefixWhole
<1>3. TypeOK'
  BY <1>1 DEF IInv, TypeOK, Rename, Return
<1>4. Whole'
  BY <1>1, <1>2, NoneAssumption DEF Whole, Rename
<1>5. ASSUME NEW q \in Procs PROVE Saver(q)' /\ Reader(q)' /\ Idle(q)'
  BY <1>1, NoneAssumption DEF IInv, TypeOK, Rename, Return, Saver, Reader, Idle
<1>. QED BY <1>1, <1>2, <1>3, <1>4, <1>5 DEF IInv

\* What is loaded was the whole backup when it was opened, and still is.
LEMMA IInvLoad ==
  ASSUME IInv, Guard, NEW p \in Procs, LoadOpen(p) \/ Read(p) \/ LoadEnd(p)
  PROVE  IInv'
<1>. USE NoneAssumption DEF IInv, TypeOK, Whole, Saver, Reader, Idle, files, Return, Opened
<1>1. CASE LoadOpen(p)
  <2>1. backup \in Inodes /\ data[backup] \in Texts /\ Len(data[backup]) \in Nat
    BY <1>1, TextFacts DEF LoadOpen
  <2>. QED BY <1>1, <2>1 DEF LoadOpen
<1>2. CASE Read(p)
  <2>1. Len(data[fd[p]]) \in Nat  BY <1>2, TextFacts DEF Read
  <2>. QED BY <1>2, <2>1 DEF Read
<1>3. CASE LoadEnd(p)
  <2>1. total[p] \in 0 .. Len(data[fd[p]]) /\ data[fd[p]] \in Seq(Chars)
    BY <1>3, TextFacts DEF LoadEnd
  <2>2. Prefix(data[fd[p]], total[p]) \in Seq(Chars)  BY <2>1, PrefixFacts
  <2>. QED BY <1>3, <2>2 DEF LoadEnd
<1>. QED BY <1>1, <1>2, <1>3

LEMMA IInvNext == Guard /\ IInv /\ [Next]_vars => IInv'
<1>. SUFFICES ASSUME Guard, IInv, [Next]_vars PROVE IInv'
  OBVIOUS
<1>1. CASE UNCHANGED vars
  BY <1>1 DEF IInv, TypeOK, Whole, Saver, Reader, Idle, vars, files, process
<1>2. CASE Next
  BY <1>2, IInvQuietStep, IInvSaveOpen, IInvWrite, IInvRename, IInvLoad DEF Next
<1>. QED BY <1>1, <1>2

LEMMA Inductive ==
  ASSUME Guard
  PROVE  Spec => []IInv
<1>1. IInv /\ [Next]_vars => IInv'  BY IInvNext
<1>. QED BY <1>1, IInvInit, PTL DEF Spec

(***************************************************************************)
(* Theorems                                                                *)
(***************************************************************************)

\* With the guard every reachable state is well typed.
THEOREM TypeCorrect ==
  ASSUME Guard
  PROVE  Spec => []TypeOK
<1>1. IInv => TypeOK  BY DEF IInv
<1>. QED BY <1>1, Inductive, PTL

\* saveTriggerBackup keeps what its comment says, as long as the guard lets
\* one process save at a time: the backup is one of the texts that were saved,
\* after short writes, failures and crashes.
THEOREM NeverTorn ==
  ASSUME Guard
  PROVE  Spec => []NeverPartial
<1>1. IInv => NeverPartial  BY DEF IInv, Whole, NeverPartial
<1>. QED BY <1>1, Inductive, PTL

(***************************************************************************)
(* The refinement                                                          *)
(***************************************************************************)

LEMMA AtomicInit == Init => Register!Init
BY DEF Init, Register!Init, Saved, View

\* Taking and releasing the lock, writing and reading piece by piece.
LEMMA AtomicStutter ==
  ASSUME IInv, Guard, NEW p \in Procs,
         acquireProcessLock(p) \/ releaseProcessLock(p) \/ Write(p) \/ Sync(p) \/ Read(p)
  PROVE  UNCHANGED Register!vars
<1>. USE DEF Register!vars, Saved, View, files, process
<1>1. CASE acquireProcessLock(p)  BY <1>1 DEF acquireProcessLock
<1>2. CASE releaseProcessLock(p)  BY <1>2 DEF releaseProcessLock
<1>3. CASE Write(p)
  <2>1. fd[p] = tmp /\ tmp \in Inodes  BY <1>3 DEF Write, IInv, Saver
  <2>2. Saved' = Saved  BY <1>3, <2>1, NoneAssumption DEF Write, IInv, Whole, TypeOK
  <2>3. View' = View  BY <1>3, <2>1 DEF Write, IInv, Reader, TypeOK
  <2>. QED BY <1>3, <2>2, <2>3 DEF Write
<1>4. CASE Sync(p)  BY <1>4 DEF Sync, IInv, TypeOK
<1>5. CASE Read(p)  BY <1>5 DEF Read
<1>. QED BY <1>1, <1>2, <1>3, <1>4, <1>5

\* What fails, or ends a process, gives up what it was saving or loading.
LEMMA AtomicAbandon ==
  ASSUME IInv, NEW p \in Procs, SaveFails(p) \/ LoadFails(p) \/ Crash(p)
  PROVE  Register!Abandon(p)
BY DEF SaveFails, LoadFails, Crash, Return, files, Register!Abandon, Saved, View, IInv, TypeOK

LEMMA AtomicSave ==
  ASSUME IInv, Guard, NEW p \in Procs
  PROVE  /\ SaveOpen(p) => Register!BeginSave(p)
         /\ Rename(p) => Register!Commit(p)
         /\ clearTriggerBackup(p) => Register!Clear
<1>. USE DEF Saved, View
<1>1. ASSUME SaveOpen(p) PROVE Register!BeginSave(p)
  <2>1. PICK i \in Inodes, t \in Texts :
          /\ Target(i)
          /\ text' = [text EXCEPT ![p] = t]
          /\ data' = [data EXCEPT ![i] = << >>]
          /\ Opened(p, "write", i)
    BY <1>1 DEF SaveOpen
  <2>2. /\ backup # i
        /\ \A q \in Procs : at[q] = "read" => fd[q] # i
    BY <2>1, NoneAssumption DEF IInv, Whole, Reader, Target, Free, TypeOK
  <2>3. UNCHANGED <<backup, loaded>> /\ at[p] = "idle"  BY <1>1 DEF SaveOpen
  <2>4. Saved' = Saved  BY <2>1, <2>2, <2>3 DEF IInv, TypeOK
  <2>5. View' = View  BY <2>1, <2>2, <2>3 DEF Opened, IInv, TypeOK
  <2>. QED BY <2>1, <2>3, <2>4, <2>5 DEF Register!BeginSave
<1>2. ASSUME Rename(p) PROVE Register!Commit(p)
  <2>1. data[tmp] = text[p] /\ text[p] \in Texts  BY <1>2, IInvRename
  <2>2. text[p] # None  BY <2>1, TextFacts
  <2>3. Saved' = text[p]  BY <1>2, <2>1 DEF Rename
  <2>4. View' = View  BY <1>2 DEF Rename, Return, IInv, TypeOK
  <2>. QED BY <1>2, <2>2, <2>3, <2>4 DEF Rename, Return, Register!Commit
<1>3. ASSUME clearTriggerBackup(p) PROVE Register!Clear
  BY <1>3 DEF clearTriggerBackup, process, Register!Clear
<1>. QED BY <1>1, <1>2, <1>3

\* The end of the file is reached when all of it was read; a file that is read
\* is a text, so something was.
LEMMA AtomicLoad ==
  ASSUME IInv, NEW p \in Procs
  PROVE  /\ LoadOpen(p) => Register!BeginLoad(p)
         /\ LoadEnd(p) => Register!EndLoad(p)
<1>. USE DEF Saved, View
<1>1. ASSUME LoadOpen(p) PROVE Register!BeginLoad(p)
  <2>1. backup # None /\ data[backup] \in Texts  BY <1>1 DEF LoadOpen, IInv, Whole
  <2>2. Saved # None  BY <2>1, TextFacts
  <2>3. View' = [View EXCEPT ![p] = Saved]
    BY <1>1, <2>1 DEF LoadOpen, Opened, files, IInv, TypeOK
  <2>. QED BY <1>1, <2>2, <2>3 DEF LoadOpen, files, Register!BeginLoad
<1>2. ASSUME LoadEnd(p) PROVE Register!EndLoad(p)
  <2>1. /\ at[p] = "read" /\ data[fd[p]] \in Texts /\ text[p] = None
        /\ total[p] = Len(data[fd[p]])
    <3>1. at[p] = "read" /\ total[p] >= Len(data[fd[p]])  BY <1>2 DEF LoadEnd
    <3>2. data[fd[p]] \in Texts /\ text[p] = None /\ total[p] <= Len(data[fd[p]])
      BY <3>1 DEF IInv, Reader
    <3>. QED BY <3>1, <3>2, TextFacts DEF IInv, TypeOK
  <2>2. /\ data[fd[p]] \in Seq(Chars) /\ data[fd[p]] # None
        /\ total[p] # 0
    BY <2>1, TextFacts
  <2>3. loaded' = [loaded EXCEPT ![p] = View[p]]
    BY <1>2, <2>1, <2>2, PrefixWhole DEF LoadEnd
  <2>4. View' = [View EXCEPT ![p] = None]
    BY <1>2 DEF LoadEnd, Return, files, IInv, TypeOK
  <2>5. text' = text  BY <1>2, <2>1 DEF LoadEnd, Return, IInv, TypeOK
  <2>6. View[p] # None  BY <2>1, <2>2
  <2>. QED BY <1>2, <2>3, <2>4, <2>5, <2>6 DEF LoadEnd, files, Register!EndLoad
<1>. QED BY <1>1, <1>2

LEMMA AtomicNext ==
  ASSUME Guard, IInv, [Next]_vars
  PROVE  [Register!Next]_(Register!vars)
<1>1. CASE UNCHANGED vars
  BY <1>1 DEF vars, files, process, Register!vars, Saved, View
<1>2. CASE Next
  BY <1>2, AtomicStutter, AtomicAbandon, AtomicSave, AtomicLoad DEF Next, Register!Next
<1>. QED BY <1>1, <1>2

\* With the guard the three functions, which write, rename and read in many
\* steps of many processes, implement a register that is saved, loaded and
\* cleared at once: what a load returns was the backup when it began.
THEOREM Refines ==
  ASSUME Guard
  PROVE  Spec => Atomic
<1>1. IInv /\ [Next]_vars => [Register!Next]_(Register!vars)  BY AtomicNext
<1>. QED BY <1>1, AtomicInit, Inductive, PTL DEF Spec, Atomic, Register!Spec

(***************************************************************************)
(* The singleton guard                                                     *)
(***************************************************************************)

GuardPcs == {"none", "opened", "locked", "truncated", "loaded"}

\* What is needed of the types, and that a process beyond the lock has it, has
\* emptied the file before it writes, and has written before it is the guard.
GuardInv ==
  /\ pc \in [Loaders -> GuardPcs]
  /\ gDSHALSingletonLockFd \subseteq Loaders
  /\ \A p \in Loaders : pc[p] \in {"locked", "truncated"} => locked = p
  /\ \A p \in gDSHALSingletonLockFd : locked = p /\ pc[p] = "loaded"
  /\ \A p \in Loaders : pc[p] = "truncated" /\ ~faulty => file = <<>>
  /\ NamesHolder

\* Writing into an empty file leaves the text alone.
LEMMA WriteEmpty ==
  ASSUME NEW p \in Loaders, file = <<>>
  PROVE  After(Text(p)) = Text(p)
<1>1. PidLength[p] \in Nat
  BY ProcAssumption
<1>2. Text(p) \in Seq(Loaders) /\ Len(Text(p)) = PidLength[p]
  BY <1>1 DEF Text
<1>3. SubSeq(file, Len(Text(p)) + 1, Len(file)) = <<>>
  BY <1>1, <1>2
<1> QED
  BY <1>2, <1>3 DEF After

LEMMA GuardStep == GuardInv /\ [GuardNext]_guardVars => GuardInv'
<1> SUFFICES ASSUME GuardInv, [GuardNext]_guardVars PROVE GuardInv'
  OBVIOUS
<1> USE DEF GuardInv, NamesHolder
<1>1. CASE UNCHANGED guardVars
  BY <1>1 DEF guardVars
<1>2. CASE GuardNext
  <2> PICK p \in Loaders :
        \/ Open(p) \/ Lock(p) \/ Refused(p) \/ Truncate(p) \/ WritePid(p)
        \/ releaseSingletonLock(p) \/ Killed(p)
    BY <1>2 DEF GuardNext
  <2>1. CASE Open(p)
    BY <2>1 DEF Open, Goto, GuardPcs
  <2>2. CASE Lock(p)
    BY <2>2, ProcAssumption DEF Lock, Available, Goto, GuardPcs
  <2>3. CASE Refused(p)
    BY <2>3 DEF Refused, Goto, GuardPcs
  <2>4. CASE Truncate(p)
    <3>1. pc[p] = "locked" /\ locked = p /\ locked' = p
      BY <2>4 DEF Truncate, MayTruncate
    <3>2. gDSHALSingletonLockFd' = {}
      BY <2>4, <3>1 DEF Truncate
    <3> QED
      BY <2>4, <3>1, <3>2 DEF Truncate, Goto, GuardPcs
  <2>5. CASE WritePid(p)
    <3>1. pc[p] = "truncated" /\ locked = p /\ locked' = p /\ pc' = [pc EXCEPT ![p] = "loaded"]
      BY <2>5 DEF WritePid, Goto
    <3>2. gDSHALSingletonLockFd' = {p}
      BY <2>5, <3>1 DEF WritePid
    <3>3. \A q \in Loaders : pc'[q] \notin {"locked", "truncated"}
      BY <3>1 DEF GuardPcs
    <3>4. ~faulty' => file' = Text(p)
      BY <2>5, <3>1, WriteEmpty DEF WritePid
    <3> QED
      <4>1. pc' \in [Loaders -> GuardPcs] /\ pc'[p] = "loaded"
        BY <3>1 DEF GuardPcs
      <4>2. NamesHolder'
        BY <3>2, <3>4
      <4> QED
        BY <3>1, <3>2, <3>3, <4>1, <4>2
  <2>6. CASE Leave(p)
    <3>1. \A q \in Loaders : q # p /\ locked = q => locked' = q
      BY <2>6 DEF Leave
    <3> QED
      BY <2>6, <3>1 DEF Leave, Goto, GuardPcs
  <2> QED
    BY <2>1, <2>2, <2>3, <2>4, <2>5, <2>6 DEF releaseSingletonLock, Killed
<1> QED
  BY <1>1, <1>2

LEMMA GuardInvariant == GuardSpec => []GuardInv
<1>1. GuardInit => GuardInv
  BY DEF GuardInit, GuardInv, GuardPcs, NamesHolder
<1> QED
  BY <1>1, GuardStep, PTL DEF GuardSpec

\* However many processes load and unload the library or end at any moment, at
\* most one has the guard, it has the kernel's lock, and the file says its pid
\* and nothing else, whatever the processes before it have left there.
THEOREM GuardIsOne == GuardSpec => []OneGuard
<1>1. GuardInv => OneGuard
  BY DEF GuardInv, OneGuard
<1> QED
  BY <1>1, GuardInvariant, PTL
=============================================================================
