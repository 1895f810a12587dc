------------------------------ MODULE Exchange ------------------------------
(***************************************************************************)
(* What a caller of westerosGLConsoleRWWrapper (dshalUtils.h) may rely on:  *)
(* an exchange of one command for one answer with the display server.      *)
(* A call that fails says nothing about its command, which may still be    *)
(* carried out later, even after the command of a later call.              *)
(***************************************************************************)
CONSTANTS
  Calls,     \* the calls, in the order in which they are made
  Commands,  \* what can be asked
  Replies,   \* what the display server can send back
  Answers,   \* the replies that are answers
  Text(_),   \* the text a reply carries
  None       \* no command, no reply, no text

VARIABLES
  asked,     \* the command of each call
  reply,     \* what the display server answers, None until it took the command
  result,    \* where each call stands
  resp       \* the text each call hands to its caller

vars == <<asked, reply, result, resp>>

Init ==
  /\ asked = [c \in Calls |-> None]
  /\ reply = [c \in Calls |-> None]
  /\ result = [c \in Calls |-> "new"]
  /\ resp = [c \in Calls |-> None]

\* One call at a time.
Ask(c, m) ==
  /\ result[c] = "new"
  /\ \A d \in Calls : result[d] # "open"
  /\ asked' = [asked EXCEPT ![c] = m]
  /\ result' = [result EXCEPT ![c] = "open"]
  /\ UNCHANGED <<reply, resp>>

\* The display server carries a command out once, and may do so late.
Take(c, r) ==
  /\ result[c] \in {"open", "failed"}
  /\ reply[c] = None
  /\ reply' = [reply EXCEPT ![c] = r]
  /\ UNCHANGED <<asked, result, resp>>

\* Only what the display server has sent for this command is an answer.
Answer(c) ==
  /\ result[c] = "open"
  /\ reply[c] \in Answers
  /\ resp' = [resp EXCEPT ![c] = Text(reply[c])]
  /\ result' = [result EXCEPT ![c] = "answered"]
  /\ UNCHANGED <<asked, reply>>

Fail(c) ==
  /\ result[c] = "open"
  /\ result' = [result EXCEPT ![c] = "failed"]
  /\ UNCHANGED <<asked, reply, resp>>

Next ==
  \E c \in Calls :
    \/ \E m \in Commands : Ask(c, m)
    \/ \E r \in Replies : Take(c, r)
    \/ Answer(c)
    \/ Fail(c)

Spec == Init /\ [][Next]_vars
=============================================================================
