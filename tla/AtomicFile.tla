----------------------------- MODULE AtomicFile -----------------------------
(***************************************************************************)
(* What dsFPD.c promises of the backup of the LED's trigger ("always       *)
(* either the old or new value, never partially written"): a register      *)
(* that is written, read and cleared in one step each, by processes that   *)
(* may stop at any moment.                                                  *)
(***************************************************************************)
CONSTANTS Procs, Texts, None

VARIABLES
  file,    \* the text, or None
  saving,  \* the text each process is saving, or None
  view,    \* what the file held when the process began to load it
  loaded   \* what the process loaded last

vars == <<file, saving, view, loaded>>

Init ==
  /\ file = None
  /\ saving = [p \in Procs |-> None]
  /\ view = [p \in Procs |-> None]
  /\ loaded = [p \in Procs |-> None]

BeginSave(p) ==
  /\ \E t \in Texts : saving' = [saving EXCEPT ![p] = t]
  /\ UNCHANGED <<file, view, loaded>>

Commit(p) ==
  /\ saving[p] # None
  /\ file' = saving[p]
  /\ saving' = [saving EXCEPT ![p] = None]
  /\ UNCHANGED <<view, loaded>>

Clear ==
  /\ file' = None
  /\ UNCHANGED <<saving, view, loaded>>

BeginLoad(p) ==
  /\ file # None
  /\ view' = [view EXCEPT ![p] = file]
  /\ UNCHANGED <<file, saving, loaded>>

EndLoad(p) ==
  /\ view[p] # None
  /\ loaded' = [loaded EXCEPT ![p] = view[p]]
  /\ view' = [view EXCEPT ![p] = None]
  /\ UNCHANGED <<file, saving>>

\* An operation that fails, or a process that ends, leaves the file alone.
Abandon(p) ==
  /\ saving' = [saving EXCEPT ![p] = None]
  /\ view' = [view EXCEPT ![p] = None]
  /\ UNCHANGED <<file, loaded>>

Next ==
  \/ Clear
  \/ \E p \in Procs :
       BeginSave(p) \/ Commit(p) \/ BeginLoad(p) \/ EndLoad(p) \/ Abandon(p)

Spec == Init /\ [][Next]_vars
=============================================================================
