---------------------------- MODULE MCVideoPort -----------------------------
(***************************************************************************)
(* VideoPort, and PortQueries beside it, for TLC.                          *)
(***************************************************************************)
EXTENDS VideoPort, PortQueries

Text(w, h, scan, rate) == [w |-> w, h |-> h, scan |-> scan, rate |-> rate]

\* One name of each kind the table has, and one of each form the parser takes:
\* 480p60, 1920x1080p60, 1920x1080x60, 1920x1080i, 1080p and 900p.
PlainRequests ==
  {Text(0, 480, "p", 0), Text(0, 576, "i", 50), Text(0, 1080, "i", 0),
   Text(0, 1080, "p", 60), Text(0, 2160, "p", 60), Text(0, 480, "p", 60),
   Text(1920, 1080, "p", 60), Text(1920, 1080, "x", 60),
   Text(1920, 1080, "i", 0), Text(0, 1080, "p", 0), Text(0, 900, "p", 0)}

\* 1080P60, which never matches, and 1920x1080I60, which is sent as 1080p60 and
\* compared as 1080i.
SomeRequests ==
  PlainRequests \cup {Text(0, 1080, "P", 60), Text(1920, 1080, "I", 60)}

\* Two of them are outside the table: 1366x768p60 has no name at all, and
\* 4096x2160p60 shares its name with 3840x2160p60.
SomeModes ==
  {Text(720, 480, "p", 60), Text(720, 576, "i", 50), Text(1920, 1080, "i", 60),
   Text(1920, 1080, "p", 60), Text(3840, 2160, "p", 60),
   Text(4096, 2160, "p", 60), Text(1366, 768, "p", 60)}

(***************************************************************************)
(* PortQueries with two connectors, one display and a mode of 16:9 and one *)
(* of 4:3.  It shares no variable with VideoPort (the mode is external to  *)
(* both), so that one moves while the other stands still.                  *)
(***************************************************************************)
CONSTANT tv1
VARIABLE part

Two == {1, 2}
Wide == [w |-> 1920, h |-> 1080]
Narrow == [w |-> 640, h |-> 480]
WideAndNarrow == {Wide, Narrow}
PrefersWide == [t \in {tv1} |-> Wide]

\* The one that stands still starts in one state.
MCInit ==
  /\ Init /\ QueriesInit
  /\ part \in {"set", "query"}
  /\ part = "set" => plugged = <<NoTv, NoTv>> /\ crtc = <<"none", "none">>
                       /\ shown = Wide
  /\ part = "query" => mode = Text(720, 480, "p", 60)
MCNext ==
  \/ part = "set" /\ Next /\ UNCHANGED <<queryVars, part>>
  \/ part = "query" /\ QueriesNext /\ UNCHANGED <<vars, part>>
MCSpec ==
  /\ MCInit /\ [][MCNext]_<<vars, queryVars, part>>
  /\ WF_vars(part = "set" /\ SetStep /\ UNCHANGED <<queryVars, part>>)
=============================================================================
