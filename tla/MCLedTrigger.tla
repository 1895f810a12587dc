---------------------------- MODULE MCLedTrigger ----------------------------
(***************************************************************************)
(* Instances of LedTrigger for TLC.                                        *)
(***************************************************************************)
EXTENDS LedTrigger, TLC

\* The failures after which the call ends or the LED keeps its owner.
HarmlessFaults == {"lock", "cache", "save", "setTrigger", "clear", "spawn",
                   "wait"}

AllButLoad == Ops \ {"load"}

\* Processes are interchangeable: no action or property tells them apart.
ProcSymmetry == Permutations(Procs)
=============================================================================
