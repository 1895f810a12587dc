------------------------------ MODULE MCConsole -----------------------------
(***************************************************************************)
(* Console for TLC: commands around the limits of a frame, and streams in  *)
(* each of the forms the receiver tells apart.                             *)
(***************************************************************************)
EXTENDS Console

MCCommands ==
  {[len |-> 1, bare |-> TRUE], [len |-> 2, bare |-> TRUE],
   [len |-> 0, bare |-> TRUE], [len |-> 1, bare |-> FALSE]}

a == 97
MCReplies ==
  { <<D, S, 2, a, NUL>>,              \* one frame
    <<D, S, 2, a, a>>,                \* without a NUL
    <<D, S, 4, a, a, a, NUL, D, S>>,  \* longer than the buffer, more behind it
    <<D, S, 0, a>>,                   \* an empty frame, more behind it
    <<D, S, 3, a>>,                   \* cut off
    <<a, S, 1, NUL>>,                 \* not a frame
    <<D>> }
=============================================================================
