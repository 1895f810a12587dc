---------------------------- MODULE TriggerBackup ---------------------------
(***************************************************************************)
(* saveTriggerBackup, loadTriggerBackup and clearTriggerBackup (dsFPD.c) on *)
(* a file system: the text is written piece by piece to a temporary file   *)
(* of a fixed name, which is then renamed to the backup.  LedTrigger takes *)
(* each of these calls to be one step; this module is why it may.          *)
(*                                                                         *)
(* Names lead to inodes, and a process keeps the inode it opened, whatever *)
(* becomes of the name.  The files are on a tmpfs: fsync has no effect, and *)
(* nothing survives a reboot, so a crash is the end of one process.        *)
(***************************************************************************)
EXTENDS Naturals, Sequences

CONSTANTS
  Procs,   \* processes that use the library
  Texts,   \* the triggers that can be saved, as sequences of characters
  Inodes,  \* bound: inodes the file system can give out
  Guard,   \* DSFPD_ENABLE_MULTI_PROCESS_GUARD
  Hole,    \* the character a file has where nothing was written
  None     \* no inode, no text, no process

VARIABLES
  lock,    \* the process that holds the fcntl lock
  tmp,     \* the inode of the temporary file, or None
  backup,  \* the inode of the backup, or None
  data,    \* what each inode holds
  at,      \* where each process stands
  text,    \* the text it is saving
  fd,      \* the inode it has open
  total,   \* the characters it has written or read
  loaded   \* what it loaded last

files == <<tmp, backup, data>>
process == <<at, text, fd, total, loaded>>
vars == <<lock, files, process>>

Chars == UNION {{t[i] : i \in 1 .. Len(t)} : t \in Texts} \cup {Hole}

ASSUME GuardAssumption == Guard \in BOOLEAN
ASSUME TextsAssumption == Texts \subseteq Seq(Chars) \ {<< >>}
ASSUME NoneAssumption ==
  None \notin Procs /\ None \notin Inodes /\ None \notin Seq(Chars)

Prefix(t, n) == [i \in 1 .. n |-> t[i]]

TypeOK ==
  /\ lock \in Procs \cup {None}
  /\ tmp \in Inodes \cup {None} /\ backup \in Inodes \cup {None}
  /\ data \in [Inodes -> Seq(Chars)]
  /\ at \in [Procs -> {"idle", "write", "sync", "rename", "read"}]
  /\ text \in [Procs -> Texts \cup {None}]
  /\ fd \in [Procs -> Inodes \cup {None}]
  /\ total \in [Procs -> Nat]
  /\ loaded \in [Procs -> Seq(Chars) \cup {None}]

Init ==
  /\ lock = None
  /\ tmp = None /\ backup = None
  /\ data = [i \in Inodes |-> << >>]
  /\ at = [p \in Procs |-> "idle"]
  /\ text = [p \in Procs |-> None]
  /\ fd = [p \in Procs |-> None]
  /\ total = [p \in Procs |-> 0]
  /\ loaded = [p \in Procs |-> None]

\* The call is over: the file is closed and the locals are gone.
Return(p) ==
  /\ at' = [at EXCEPT ![p] = "idle"]
  /\ text' = [text EXCEPT ![p] = None]
  /\ fd' = [fd EXCEPT ![p] = None]
  /\ total' = [total EXCEPT ![p] = 0]

Opened(p, place, i) ==
  /\ at' = [at EXCEPT ![p] = place]
  /\ fd' = [fd EXCEPT ![p] = i]
  /\ total' = [total EXCEPT ![p] = 0]

\* acquireProcessLock and releaseProcessLock.
acquireProcessLock(p) ==
  /\ Guard /\ at[p] = "idle" /\ lock = None
  /\ lock' = p
  /\ UNCHANGED <<files, process>>

releaseProcessLock(p) ==
  /\ at[p] = "idle" /\ lock = p
  /\ lock' = None
  /\ UNCHANGED <<files, process>>

\* Only the process that controls the LED changes the backup.
May(p) == Guard => lock = p

Free(i) == tmp # i /\ backup # i /\ \A p \in Procs : fd[p] # i

\* open(O_CREAT | O_TRUNC): a temporary file that is there is emptied,
\* whoever has it open.
\* Mutant: the backup itself is opened.
TargetInPlace(i) == backup = i \/ (backup = None /\ Free(i))
Target(i) == tmp = i \/ (tmp = None /\ Free(i))
SaveOpen(p) ==
  /\ at[p] = "idle" /\ May(p)
  /\ \E t \in Texts : text' = [text EXCEPT ![p] = t]
  /\ \E i \in Inodes :
       /\ Target(i)
       /\ tmp' = i
       /\ data' = [data EXCEPT ![i] = << >>]
       /\ Opened(p, "write", i)
  /\ UNCHANGED <<lock, backup, loaded>>

\* n more characters of t, behind the first k; a gap is filled.
Grown(s, t, k, n) ==
  [i \in 1 .. IF Len(s) > k + n THEN Len(s) ELSE k + n |->
     IF k < i /\ i <= k + n THEN t[i] ELSE IF i <= Len(s) THEN s[i] ELSE Hole]

\* write takes at least one character, but maybe not all.
Written(p, n) == total[p] + n = Len(text[p])
Write(p) ==
  /\ at[p] = "write"
  /\ \E n \in 1 .. Len(text[p]) - total[p] :
       /\ data' = [data EXCEPT ![fd[p]] = Grown(@, text[p], total[p], n)]
       /\ total' = [total EXCEPT ![p] = @ + n]
       /\ at' = [at EXCEPT ![p] = IF Written(p, n) THEN "sync" ELSE "write"]
  /\ UNCHANGED <<lock, tmp, backup, text, fd, loaded>>

\* fsync and close.
Sync(p) ==
  /\ at[p] = "sync"
  /\ at' = [at EXCEPT ![p] = "rename"]
  /\ UNCHANGED <<lock, files, text, fd, total, loaded>>

\* The name is renamed, whatever inode it leads to by now; fails without one.
Rename(p) ==
  /\ at[p] = "rename" /\ tmp # None
  /\ backup' = tmp /\ tmp' = None
  /\ Return(p)
  /\ UNCHANGED <<lock, data, loaded>>

\* fstat, write, fsync, close or rename fails: the name is unlinked.
SaveFails(p) ==
  /\ at[p] \in {"write", "sync", "rename"}
  /\ tmp' = None
  /\ Return(p)
  /\ UNCHANGED <<lock, backup, data, loaded>>

clearTriggerBackup(p) ==
  /\ at[p] = "idle" /\ May(p)
  /\ backup' = None
  /\ UNCHANGED <<lock, tmp, data, process>>

\* The exit handler may load without the lock.
LoadOpen(p) ==
  /\ at[p] = "idle" /\ backup # None
  /\ Opened(p, "read", backup)
  /\ UNCHANGED <<lock, files, text, loaded>>

\* read returns at least one character, until there are none.
Read(p) ==
  /\ at[p] = "read"
  /\ \E n \in total[p] + 1 .. Len(data[fd[p]]) : total' = [total EXCEPT ![p] = n]
  /\ UNCHANGED <<lock, files, at, text, fd, loaded>>

\* The end of the file: what was read is the trigger, unless it is empty.
\* The characters read stay what they were, as no writer has this inode.
LoadEnd(p) ==
  /\ at[p] = "read" /\ total[p] >= Len(data[fd[p]])
  /\ loaded' = IF total[p] = 0 THEN loaded
               ELSE [loaded EXCEPT ![p] = Prefix(data[fd[p]], total[p])]
  /\ Return(p)
  /\ UNCHANGED <<lock, files>>

LoadFails(p) ==
  /\ at[p] = "read"
  /\ Return(p)
  /\ UNCHANGED <<lock, files, loaded>>

\* The process ends anywhere; the temporary file stays.
Crash(p) ==
  /\ Return(p)
  /\ lock' = IF lock = p THEN None ELSE lock
  /\ UNCHANGED <<files, loaded>>

Next ==
  \E p \in Procs :
    \/ acquireProcessLock(p) \/ releaseProcessLock(p)
    \/ SaveOpen(p) \/ Write(p) \/ Sync(p) \/ Rename(p) \/ SaveFails(p)
    \/ clearTriggerBackup(p)
    \/ LoadOpen(p) \/ Read(p) \/ LoadEnd(p) \/ LoadFails(p)
    \/ Crash(p)

Spec == Init /\ [][Next]_vars

(***************************************************************************)
(* Properties                                                              *)
(***************************************************************************)

\* "the backup is always either the old or new value, never partially
\* written": what a reader would find is a text that was saved.
NeverPartial == backup # None => data[backup] \in Texts

\* With the guard, saving, loading and clearing are as good as atomic, in
\* spite of short writes, failures, processes that end and temporary files
\* that they leave.
Saved == IF backup = None THEN None ELSE data[backup]
View == [p \in Procs |-> IF at[p] = "read" THEN data[fd[p]] ELSE None]
Register == INSTANCE AtomicFile WITH file <- Saved, saving <- text, view <- View
Atomic == Register!Spec
=============================================================================
