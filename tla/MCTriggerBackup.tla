--------------------------- MODULE MCTriggerBackup --------------------------
(***************************************************************************)
(* The two files of the library under /run/lock for TLC: the backup of the *)
(* trigger and the singleton guard.  They share no variable, so that one   *)
(* moves while the other stands still, and nothing is lost by it.          *)
(***************************************************************************)
EXTENDS TriggerBackup, SingletonGuard

CONSTANTS q1, q2, q3
VARIABLE part

\* Two texts that differ in length and characters.
MCTexts == {<<"a", "b">>, <<"c">>}

\* Two pids of the same length and a longer one.
Lengths == [p \in Loaders |-> IF p = q3 THEN 2 ELSE 1]

MCInit == Init /\ GuardInit /\ part \in {"backup", "guard"}
MCNext ==
  \/ part = "backup" /\ Next /\ UNCHANGED <<guardVars, part>>
  \/ part = "guard" /\ GuardNext /\ UNCHANGED <<vars, part>>
MCSpec == MCInit /\ [][MCNext]_<<vars, guardVars, part>>
=============================================================================
