------------------------------- MODULE Console ------------------------------
(***************************************************************************)
(* westerosGLConsoleRWWrapper (dshalUtils.c): one command, one answer, over *)
(* a stream socket to the display server.  Every call opens a connection   *)
(* of its own, sends a frame 'D' 'S' length payload and reads one back.     *)
(* The kernel takes and delivers the bytes in pieces of any size.          *)
(*                                                                         *)
(* A frame is sent as a count of bytes, as only its being complete matters *)
(* to the server; an answer is read byte by byte, as the code looks at it. *)
(* The texts of commands are abstracted to what the code checks of them.   *)
(***************************************************************************)
EXTENDS Integers, Sequences

CONSTANTS
  MaxCalls,    \* bound: calls over the whole behaviour
  Commands,    \* records: len, the length after leading blanks; bare
  Replies,     \* the streams of bytes the display server can send
  RespSize,    \* the caller's buffer
  MaxPayload,  \* maxProtocolPayloadLen
  Dirs,        \* directories a display socket can be in
  EnvDir,      \* XDG_RUNTIME_DIR of the process, or None
  None,
  FaultOps     \* operations that may fail: "socket", "connect", "send", "recv"

Byte == 0 .. 255

ASSUME ConsoleAssumption ==
  /\ MaxCalls \in Nat /\ RespSize \in Nat \ {0} /\ MaxPayload \in 1 .. 255
  /\ Commands \subseteq [len : Nat, bare : BOOLEAN]
  /\ Replies \subseteq Seq(Byte)
  /\ EnvDir \in Dirs \cup {None}
  /\ FaultOps \subseteq {"socket", "connect", "send", "recv"}
ASSUME NoneAssumption ==
  /\ None \notin Commands /\ None \notin Dirs /\ None \notin Seq(Byte)

Calls == 1 .. MaxCalls
D == 68
S == 83
NUL == 0

VARIABLES
  at,        \* where each call stands
  asked,     \* its command
  sent,      \* sentTotal
  rx,        \* what it has received
  result,    \* "new", "open", then "answered" for true and "failed" for false
  resp,      \* the caller's buffer
  envFile,   \* the directory in the westeros environment file
  cached,    \* cachedValue, None unless isCached
  reply,     \* the display server: what it sends on the connection
  ended,     \*   and whether it has closed it
  faulted    \* history: calls in which an operation failed

caller == <<at, asked, sent, rx, result, resp, faulted>>
server == <<reply, ended>>
dirs == <<envFile, cached>>
vars == <<caller, server, dirs>>

TypeOK ==
  /\ at \in [Calls -> {"none", "socket", "frame", "send", "recv", "parse",
                       "done"}]
  /\ asked \in [Calls -> Commands \cup {None}]
  /\ sent \in [Calls -> 0 .. MaxPayload + 3]
  /\ rx \in [Calls -> Seq(Byte)]
  /\ result \in [Calls -> {"new", "open", "answered", "failed"}]
  /\ resp \in [Calls -> Seq(Byte) \cup {None}]
  /\ envFile \in Dirs \cup {None} /\ cached \in Dirs \cup {None}
  /\ reply \in [Calls -> Replies \cup {None}]
  /\ ended \in [Calls -> BOOLEAN]
  /\ faulted \subseteq Calls

Init ==
  /\ at = [c \in Calls |-> "none"]
  /\ asked = [c \in Calls |-> None]
  /\ sent = [c \in Calls |-> 0]
  /\ rx = [c \in Calls |-> << >>]
  /\ result = [c \in Calls |-> "new"]
  /\ resp = [c \in Calls |-> None]
  /\ envFile \in Dirs \cup {None}
  /\ cached = None
  /\ reply = [c \in Calls |-> None]
  /\ ended = [c \in Calls |-> FALSE]
  /\ faulted = {}

Goto(c, place) == at' = [at EXCEPT ![c] = place]
Fails(op) == op \in FaultOps

\* return false; the socket, if there is one, is closed.
GiveUp(c) ==
  /\ Goto(c, "done")
  /\ result' = [result EXCEPT ![c] = "failed"]

Fault(c, op) ==
  /\ Fails(op)
  /\ GiveUp(c)
  /\ faulted' = faulted \cup {c}

\* A caller enters with a command; the buffer is emptied when it returns
\* false.  Of blank commands and of those with a ';' nothing is sent.
Enter(c, m) ==
  /\ result[c] = "new"
  /\ \A d \in Calls : result[d] # "open" /\ (d < c => result[d] # "new")
  /\ asked' = [asked EXCEPT ![c] = m]
  /\ result' = [result EXCEPT ![c] = "open"]
  /\ Goto(c, "socket")
  /\ UNCHANGED <<sent, rx, resp, faulted, server, dirs>>

Accepted(m) == m.bare /\ m.len > 0

\* getXDGRuntimeDir, then the environment of the process; the value from the
\* file is kept for good.
Dir ==
  IF cached # None THEN cached ELSE IF envFile # None THEN envFile ELSE EnvDir
Remember == cached' = IF cached # None THEN cached ELSE envFile

Connect(c) ==
  /\ at[c] = "socket"
  /\ IF Accepted(asked[c]) THEN Remember ELSE UNCHANGED cached
  /\ \/ /\ Accepted(asked[c]) /\ Dir # None
        /\ Goto(c, "frame")
        /\ UNCHANGED <<result, faulted>>
     \/ /\ ~Accepted(asked[c]) \/ Dir = None
        /\ GiveUp(c)
        /\ UNCHANGED faulted
     \/ Accepted(asked[c]) /\ (Fault(c, "socket") \/ Fault(c, "connect"))
  /\ UNCHANGED <<asked, sent, rx, resp, server, envFile>>

\* The payload counts its terminating NUL.
PayloadLen(m) == m.len + 1
FrameLen(m) == PayloadLen(m) + 3

\* Mutant: the length byte wraps around for a long command.
FitsAlways(m) == TRUE
Fits(m) == PayloadLen(m) <= MaxPayload

Frame(c) ==
  /\ at[c] = "frame"
  /\ IF Fits(asked[c]) THEN Goto(c, "send") /\ UNCHANGED result ELSE GiveUp(c)
  /\ UNCHANGED <<asked, sent, rx, resp, faulted, server, dirs>>

\* sendmsg takes some of what is left, at least one byte.  A server that has
\* closed the connection makes it fail.
Send(c) ==
  /\ at[c] = "send"
  /\ \/ \E n \in 1 .. FrameLen(asked[c]) - sent[c] :
          /\ sent' = [sent EXCEPT ![c] = @ + n]
          /\ IF sent[c] + n = FrameLen(asked[c])
             THEN Goto(c, "recv") ELSE UNCHANGED at
          /\ UNCHANGED <<result, faulted>>
     \/ Fault(c, "send") /\ UNCHANGED sent
  /\ UNCHANGED <<asked, rx, resp, server, dirs>>

\* The length a frame announces, its own three bytes included.
Announced(b) == b[3] + 3
Magic(b) == b[1] = D /\ b[2] = S

\* Mutants: the loop ends with the first piece, or the length byte is taken
\* to count itself.
EnoughAlways(b) == TRUE
EnoughOneMore(b) == Len(b) >= 3 /\ (Magic(b) => Len(b) > Announced(b))
\* The loop ends with a complete frame, or with what cannot become one.  A
\* frame never fills the buffer of PATH_MAX bytes.
Enough(b) == Len(b) >= 3 /\ (Magic(b) => Len(b) >= Announced(b))

Waiting(c) == reply[c] # None /\ Len(rx[c]) < Len(reply[c])

\* recv delivers some of what has come, at least one byte; nothing once the
\* server has closed.  It has no timeout.
Recv(c) ==
  /\ at[c] = "recv"
  /\ \/ /\ Waiting(c)
        /\ \E n \in Len(rx[c]) + 1 .. Len(reply[c]) :
             /\ rx' = [rx EXCEPT ![c] = SubSeq(reply[c], 1, n)]
             /\ IF Enough(SubSeq(reply[c], 1, n))
                THEN Goto(c, "parse") ELSE UNCHANGED at
        /\ UNCHANGED <<result, faulted>>
     \/ /\ ~Waiting(c) /\ ended[c]
        /\ Goto(c, "parse")
        /\ UNCHANGED <<rx, result, faulted>>
     \/ Fault(c, "recv") /\ UNCHANGED rx
  /\ UNCHANGED <<asked, sent, resp, server, dirs>>

WellFormed(b) == Len(b) >= 4 /\ Magic(b) /\ Len(b) >= Announced(b)

\* Up to the first NUL, or to the announced length when there is none.
TextEnd(b, last) ==
  CHOOSE e \in 3 .. last :
    /\ \A i \in 4 .. e : b[i] # NUL
    /\ e < last => b[e + 1] = NUL

\* Mutant: the text runs to the end of what was received.
PayloadAll(b) == SubSeq(b, 4, TextEnd(b, Len(b)))
Payload(b) == SubSeq(b, 4, TextEnd(b, Announced(b)))

Cut(text) ==
  SubSeq(text, 1, IF Len(text) >= RespSize THEN RespSize - 1 ELSE Len(text))

Parse(c) ==
  /\ at[c] = "parse"
  /\ IF WellFormed(rx[c])
     THEN /\ resp' = [resp EXCEPT ![c] = Cut(Payload(rx[c]))]
          /\ result' = [result EXCEPT ![c] = "answered"]
          /\ Goto(c, "done")
     ELSE GiveUp(c) /\ UNCHANGED resp
  /\ UNCHANGED <<asked, sent, rx, faulted, server, dirs>>

(***************************************************************************)
(* The display server, which is not part of the repository                 *)
(***************************************************************************)

\* It carries a command out when all of the frame is there, whether or not
\* the caller is still waiting.
ServerTakes(c) ==
  /\ asked[c] # None /\ reply[c] = None /\ ~ended[c]
  /\ sent[c] = FrameLen(asked[c])
  /\ reply' \in {[reply EXCEPT ![c] = r] : r \in Replies}
  /\ UNCHANGED <<caller, ended, dirs>>

\* It closes the connection, at any time.
ServerCloses(c) ==
  /\ at[c] \in {"send", "recv"} /\ ~ended[c]
  /\ ended' = [ended EXCEPT ![c] = TRUE]
  /\ UNCHANGED <<caller, reply, dirs>>

\* The environment file is written when the display server starts.
EnvFileWritten ==
  /\ envFile = None
  /\ envFile' \in Dirs
  /\ UNCHANGED <<caller, server, cached>>

CallStep(c) == Connect(c) \/ Frame(c) \/ Send(c) \/ Recv(c) \/ Parse(c)

Next ==
  \/ \E c \in Calls : (\E m \in Commands : Enter(c, m)) \/ CallStep(c)
  \/ \E c \in Calls : ServerTakes(c) \/ ServerCloses(c)
  \/ EnvFileWritten

Spec == Init /\ [][Next]_vars

\* The caller's thread runs, and need not fail.  Nothing is assumed of the
\* display server.
Proceed(c) == CallStep(c) /\ UNCHANGED faulted
FairSpec == Spec /\ \A c \in Calls : WF_vars(Proceed(c))

(***************************************************************************)
(* Properties                                                              *)
(***************************************************************************)

\* The text of a reply: what its first frame carries, if it is complete, as
\* far as the caller has room for it.  Stated on the whole stream, not on what
\* recv made of it.
Carries(r) == Len(r) >= 3 /\ r[1] = D /\ r[2] = S /\ Len(r) >= r[3] + 3
Kept(text) ==
  SubSeq(text, 1, IF Len(text) < RespSize THEN Len(text) ELSE RespSize - 1)
TextOf(r) ==
  Kept(CHOOSE t \in {SubSeq(r, 4, n) : n \in 3 .. r[3] + 3} :
         /\ \A i \in 1 .. Len(t) : t[i] # 0
         /\ Len(t) < r[3] => r[Len(t) + 4] = 0)

\* A call that returns true hands over the text of the answer the server sent
\* for its own command, whatever the pieces it came in; a command is carried
\* out once at most, and one that was refused or cut off never.
Answers == {r \in Replies : Carries(r)}
Exchanges == INSTANCE Exchange WITH Text <- TextOf
Implements == Exchanges!Spec

\* A complete answer with a text is never taken for a failure, however it was
\* cut into pieces, even if the server closes the connection behind it: only
\* an operation that failed loses one.
NothingLost ==
  \A c \in Calls :
    at[c] = "done" /\ result[c] = "failed" /\ c \notin faulted /\ reply[c] # None
      => ~Carries(reply[c]) \/ reply[c][3] = 0

\* A command that does not fit in a frame is never carried out, and neither
\* is one that the call has refused.
OnlyWholeCommands ==
  \A c \in Calls :
    reply[c] # None => Accepted(asked[c]) /\ PayloadLen(asked[c]) <= MaxPayload

\* The text and its terminating NUL fit in the caller's buffer.
FitsBuffer ==
  \A c \in Calls : result[c] = "answered" => Len(resp[c]) + 1 <= RespSize

\* A call returns as soon as the server has sent a complete frame, without
\* waiting for it to close the connection, or when the server closes it.
ServedReturns ==
  \A c \in Calls :
    at[c] = "recv" /\ (ended[c] \/ (reply[c] # None /\ Carries(reply[c])))
      ~> at[c] = "done"
=============================================================================
