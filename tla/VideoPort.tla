----------------------------- MODULE VideoPort ------------------------------
(***************************************************************************)
(* Setting the HDMI resolution: dsSetResolution of dsVideoPort.c, with the *)
(* frame-rate callbacks of dsVideoDevice.c that it calls before and after  *)
(* the change.                                                             *)
(*                                                                         *)
(* The compositor answers the command and switches the mode by itself,     *)
(* later or never; dsSetResolution looks at the active mode a number of    *)
(* times, and compares names, not modes.  A TV or another program may      *)
(* change the mode at any time (Switch).  Every exchange with the          *)
(* compositor and every callback is a step of its own.  One thread sets    *)
(* resolutions, another one registers callbacks and terminates the video   *)
(* device.                                                                 *)
(*                                                                         *)
(* A name is the record of what its text says: w = 0 and rate = 0 stand    *)
(* for parts it leaves out, scan "x" for a text without p or i, "P" and    *)
(* "I" for one with a capital letter, which the code reads and compares in *)
(* two different ways.  A text that says the same in other characters      *)
(* (blanks, signs, leading zeros, more text behind) is not among them.  A  *)
(* call with an invalid argument returns at once; it is not a step here.   *)
(***************************************************************************)
EXTENDS Naturals

CONSTANTS
  Requests,  \* the names the caller asks for
  Modes,     \* the modes of the compositor
  NULL,      \* no mode, no name
  MaxLooks,  \* verifyAttempts, 20 in the code
  FaultOps   \* operations that may fail: "command", "query"

Scans == {"p", "i"}
Capitals == {"P", "I"}
Fields == [w : Nat, h : Nat, scan : Scans \cup Capitals \cup {"x"}, rate : Nat]

\* rdkRes of resolutionMap, the names that dsGetResolution answers with.
RdkName(h, scan, rate) == [w |-> 0, h |-> h, scan |-> scan, rate |-> rate]
RdkNames ==
  {RdkName(480, s, 0) : s \in Scans} \cup {RdkName(576, s, 50) : s \in Scans}
  \cup {RdkName(720, "p", r) : r \in {0, 50}}
  \cup {RdkName(1080, "i", r) : r \in {0, 50}}
  \cup {RdkName(1080, "p", r) : r \in {24, 25, 30, 50, 60}}
  \cup {RdkName(2160, "p", r) : r \in {24, 25, 30, 50, 60}}

ASSUME VideoAssumption ==
  /\ Requests \subseteq Fields
  /\ Modes \subseteq Fields
  /\ \A m \in Modes : m.w > 0 /\ m.h > 0 /\ m.scan \in Scans /\ m.rate > 0
  /\ NULL \notin Fields
  /\ MaxLooks \in Nat \ {0}
  /\ FaultOps \subseteq {"command", "query"}

VARIABLES
  inited,        \* _bIsVideoPortInitialized
  deviceInited,  \* _bVideoDeviceInited
  preCb, postCb, \* _frameratePreCB, _frameratePostCB are set
  mode,          \* the mode that is shown
  queued,        \* the mode the compositor is going to switch to
  pc,            \* where dsSetResolution stands
  request,       \* resolution->name
  cb,            \* the callback it has picked up is not NULL
  looks,         \* attempt
  active,        \* activeRes
  known,         \* history: the rate a post-change call told for a plain name,
                 \* 0 during a change
  moved          \* history: the mode was changed by somebody else since

callbacks == <<deviceInited, preCb, postCb>>
screen == <<mode, queued, moved>>
call == <<pc, request, cb, looks, active>>
vars == <<inited, callbacks, screen, call, known>>

TypeOK ==
  /\ inited \in BOOLEAN /\ deviceInited \in BOOLEAN
  /\ preCb \in BOOLEAN /\ postCb \in BOOLEAN /\ cb \in BOOLEAN
  /\ moved \in BOOLEAN
  /\ mode \in Modes /\ queued \in Modes \cup {NULL}
  /\ pc \in {"idle", "pre", "preCall", "command", "look", "post", "postCall"}
  /\ request \in Requests \cup {NULL}
  /\ active \in RdkNames \cup {NULL}
  /\ looks \in 0 .. MaxLooks - 1
  /\ known \in Nat

Fails(op) == op \in FaultOps

(***************************************************************************)
(* Names                                                                   *)
(***************************************************************************)

\* The width that goes with a height; 0 when there is none.
WidthOf(h) ==
  CASE h \in {480, 576} -> 720 [] h = 720 -> 1280 [] h = 1080 -> 1920
    [] h = 1440 -> 2560 [] h = 2160 -> 3840 [] h = 2880 -> 5120
    [] h = 4320 -> 7680 [] OTHER -> 0

\* tolower.
Lower(scan) == CASE scan = "P" -> "p" [] scan = "I" -> "i" [] OTHER -> scan

\* The sscanf cascade of dsSetResolution, whose formats have a small p, i or x
\* before the rate.  A text with a width that fits none of them is read as WxH,
\* whatever follows: its "i" or "P60" is lost; one without a width as a height
\* and a letter of either size, and then "P24" loses its rate.
Parse(n) ==
  [w    |-> IF n.w = 0 THEN WidthOf(n.h) ELSE n.w,
   h    |-> n.h,
   scan |-> IF n.w > 0 /\ (n.rate = 0 \/ n.scan \notin Scans) THEN "p"
                                                             ELSE Lower(n.scan),
   rate |-> IF n.rate = 0 \/ n.scan \in Capitals THEN 60 ELSE n.rate]

Supported(n) ==
  Parse(n).w > 0 /\ Parse(n).h > 0 /\ Parse(n).rate > 0 /\ Parse(n).scan \in Scans

\* WxHpR and WxHiR, and these alone with P and I as well, lose their width and
\* their capital letter.
Normalized(n) ==
  IF n.w > 0 /\ n.rate > 0 /\ Lower(n.scan) \in Scans
    THEN [n EXCEPT !.w = 0, !.scan = Lower(n.scan)] ELSE n

\* A table name without a rate also stands for 60.
Named(n, rdk) ==
  \/ Normalized(n) = rdk
  \/ rdk.rate = 0 /\ Normalized(n) = [rdk EXCEPT !.rate = 60]

\* resolveResolutionToken: a name that is not in the table stays as it is.
Canonical(n) ==
  IF \E rdk \in RdkNames : Named(n, rdk)
    THEN CHOOSE rdk \in RdkNames : Named(n, rdk)
    ELSE Normalized(n)

\* Mutant: two names of one height are the same.
SameHeight(n, m) == n.h = m.h

\* resolutionNamesEquivalent.
Equivalent(n, m) == Canonical(n) = Canonical(m)

\* The table names that pass for the requested one.
Accepted == [n \in Requests |-> {rdk \in RdkNames : Equivalent(n, rdk)}]

\* dsVideoGetResolution, when the compositor answers that it shows m.
NameOf == [m \in Modes |->
             IF \E rdk \in RdkNames : Named(m, rdk)
               THEN CHOOSE rdk \in RdkNames : Named(m, rdk)
               ELSE NULL]

(***************************************************************************)
(* dsSetResolution                                                         *)
(***************************************************************************)

Init ==
  /\ inited = FALSE /\ deviceInited = FALSE
  /\ preCb = FALSE /\ postCb = FALSE /\ cb = FALSE
  /\ mode \in Modes /\ queued = NULL
  /\ pc = "idle" /\ request = NULL /\ looks = 0 /\ active = NULL
  /\ known = 0 /\ moved = FALSE

dsVideoPortInit ==
  /\ pc = "idle" /\ ~inited
  /\ inited' = TRUE
  /\ UNCHANGED <<callbacks, screen, call, known>>

dsVideoPortTerm ==
  /\ pc = "idle" /\ inited
  /\ inited' = FALSE
  /\ UNCHANGED <<callbacks, screen, call, known>>

dsSetResolution(n) ==
  /\ pc = "idle" /\ inited
  /\ Supported(n)
  /\ pc' = "pre" /\ request' = n
  /\ UNCHANGED <<inited, callbacks, screen, cb, looks, active, known>>

\* dsVideoDeviceGetFrameratePreChangeCB.
Pre ==
  /\ pc = "pre"
  /\ cb' = preCb
  /\ pc' = "preCall"
  /\ UNCHANGED <<inited, callbacks, screen, request, looks, active, known>>

\* Mutant: the pre-change callback is not called.
PreToldNever == known
PreTold == IF cb THEN 0 ELSE known

PreCall ==
  /\ pc = "preCall"
  /\ known' = PreTold
  /\ pc' = "command"
  /\ UNCHANGED <<inited, callbacks, screen, request, cb, looks, active>>

\* The call returns; its locals go.
Return ==
  /\ pc' = "idle" /\ request' = NULL /\ cb' = FALSE /\ looks' = 0
  /\ active' = NULL

\* The compositor takes the command or refuses it.  When the answer is lost
\* it may have done either.
Command ==
  /\ pc = "command"
  /\ \/ /\ Parse(request) \in Modes
        /\ queued' = Parse(request)
        /\ pc' = "look"
        /\ UNCHANGED <<request, cb, looks, active>>
     \/ /\ Parse(request) \notin Modes \/ Fails("command")
        /\ Return
        /\ UNCHANGED queued
     \/ /\ Parse(request) \in Modes /\ Fails("command")
        /\ Return
        /\ queued' = Parse(request)
  /\ UNCHANGED <<inited, callbacks, mode, moved, known>>

\* Mutant: one look too many.
MoreLooksLate == looks < MaxLooks
MoreLooks == looks < MaxLooks - 1

\* What dsVideoGetResolution may return at this look.
Seen == {NameOf[mode]} \cup (IF Fails("query") THEN {NULL} ELSE {})

Matched(name) == name \in Accepted[request]

LookMatched ==
  /\ pc = "look" /\ Matched(NameOf[mode])
  /\ active' = NameOf[mode]
  /\ moved' = FALSE
  /\ pc' = "post"
  /\ UNCHANGED <<inited, callbacks, mode, queued, request, cb, looks, known>>

\* Mutant: the attempt is not counted.
LookAgainUncounted(name) ==
  /\ pc = "look" /\ ~Matched(name) /\ MoreLooks
  /\ active' = name
  /\ UNCHANGED <<inited, callbacks, screen, pc, request, cb, looks, known>>

\* Between two looks the caller sleeps.
LookAgain(name) ==
  /\ pc = "look" /\ ~Matched(name) /\ MoreLooks
  /\ active' = name
  /\ looks' = looks + 1
  /\ UNCHANGED <<inited, callbacks, screen, pc, request, cb, known>>

\* The resolution mismatch: the post-change callback is not called.
LookFailed(name) ==
  /\ pc = "look" /\ ~Matched(name) /\ ~MoreLooks
  /\ Return
  /\ UNCHANGED <<inited, callbacks, screen, known>>

\* dsVideoDeviceGetFrameratePostChangeCB.
Post ==
  /\ pc = "post"
  /\ cb' = postCb
  /\ pc' = "postCall"
  /\ UNCHANGED <<inited, callbacks, screen, request, looks, active, known>>

\* A name without a capital letter.
Plain(n) == n.scan \notin Capitals

\* What the call for a name that is not plain tells is not counted as known.
PostCall ==
  /\ pc = "postCall"
  /\ known' = IF ~cb THEN known ELSE IF Plain(request) THEN Parse(request).rate ELSE 0
  /\ Return
  /\ UNCHANGED <<inited, callbacks, screen>>

(***************************************************************************)
(* The video device, the compositor and the TV                             *)
(***************************************************************************)

dsVideoDeviceInit ==
  /\ ~deviceInited
  /\ deviceInited' = TRUE
  /\ UNCHANGED <<inited, preCb, postCb, screen, call, known>>

\* A listener that registers anew knows nothing yet.
dsRegisterFrameratePreChangeCB ==
  /\ deviceInited
  /\ preCb' = TRUE /\ known' = 0
  /\ UNCHANGED <<inited, deviceInited, postCb, screen, call>>

dsRegisterFrameratePostChangeCB ==
  /\ deviceInited
  /\ postCb' = TRUE /\ known' = 0
  /\ UNCHANGED <<inited, deviceInited, preCb, screen, call>>

dsVideoDeviceTerm ==
  /\ deviceInited
  /\ deviceInited' = FALSE /\ preCb' = FALSE /\ postCb' = FALSE
  /\ known' = 0
  /\ UNCHANGED <<inited, screen, call>>

\* The compositor does what it was told.
Apply ==
  /\ queued # NULL
  /\ mode' = queued /\ queued' = NULL
  /\ UNCHANGED <<inited, callbacks, moved, call, known>>

\* The TV was changed, or another program has set the mode; a switch that
\* was under way is forgotten or still comes.
Switch ==
  /\ mode' \in Modes \ {mode}
  /\ queued' \in {queued, NULL}
  /\ moved' = TRUE
  /\ UNCHANGED <<inited, callbacks, call, known>>

SetStep ==
  \/ Pre \/ PreCall \/ Command \/ LookMatched \/ Post \/ PostCall
  \/ pc = "look" /\ \E name \in Seen : LookAgain(name) \/ LookFailed(name)

Next ==
  \/ dsVideoPortInit \/ dsVideoPortTerm
  \/ \E n \in Requests : dsSetResolution(n)
  \/ SetStep
  \/ dsVideoDeviceInit \/ dsVideoDeviceTerm
  \/ dsRegisterFrameratePreChangeCB \/ dsRegisterFrameratePostChangeCB
  \/ Apply \/ Switch

Spec == Init /\ [][Next]_vars

\* A call that has begun goes on; the exchange with the compositor ends,
\* with an answer or without.  Nothing makes the compositor switch.
FairSpec == Spec /\ WF_vars(SetStep)

(***************************************************************************)
(* Properties                                                              *)
(***************************************************************************)

\* The modes a viewer would call the same: names leave the width out.
Alike(m1, m2) == m1.h = m2.h /\ m1.scan = m2.scan /\ m1.rate = m2.rate

\* dsSetResolution goes on to success only when it sees the lines, the scan
\* and the rate that it has told the compositor to show, in whatever form
\* the name was given, capital letters excepted: "1920x1080I50" is sent as
\* 1920x1080p60 and compared as 1080i50.
MatchIsReal ==
  [][LookMatched /\ Plain(request) => Alike(Parse(request), mode)]_vars

\* A name of the table, or one with its scan and rate spelled out in small
\* letters, is not reported as a mismatch while the compositor shows and tells
\* what was asked for.  Other names ("1080p", "1920x1080", "1080P60") are taken
\* and then never match.
MismatchIsReal ==
  [][LookFailed(NameOf[mode]) /\ NameOf[mode] # NULL
       /\ (request \in RdkNames \/ (request.rate > 0 /\ request.scan \in Scans))
       => ~Alike(Parse(request), mode)]_vars

\* The name that dsGetResolution answers with, set again, means the mode it
\* was answered for: a saved resolution can be restored.
RoundTrip ==
  NameOf[mode] # NULL => Alike(Parse(NameOf[mode]), mode)

\* What dsSetResolution makes of a name, of the forms that the three parts
\* say, and what it says of the mode agree with what is shown.
VerdictIsReal == MatchIsReal /\ MismatchIsReal /\ []RoundTrip

\* The frame-rate callbacks: a listener that has both registered and was last
\* told the end of a change knows the rate that is shown, until somebody else
\* changes the mode; failed calls and late switches do not deceive it.  A call
\* for a name with a capital letter may: see MatchIsReal.
RateKnown == preCb /\ postCb /\ known # 0 /\ ~moved => known = mode.rate

\* The verification is bounded: dsSetResolution returns even when the
\* compositor never switches.
SetReturns == pc # "idle" ~> pc = "idle"

\* "Verify the mode actually took effect": what is shown at the look that
\* lets the call succeed is the mode the compositor was told to set.
TookEffect == [][LookMatched => mode = Parse(request)]_vars
=============================================================================
