----------------------------- MODULE PortQueries ----------------------------
(***************************************************************************)
(* What a client learns about the display: the queries of dsVideoPort.c    *)
(* and dsDisplay.c that read the HDMI connectors through DRM, the EDID     *)
(* through sysfs and the mode from the compositor, and dsEnableVideoPort.  *)
(*                                                                         *)
(* One client, one call at a time.  Every access to DRM, sysfs or the      *)
(* compositor is a step of its own, and displays come and go in between.   *)
(* An EDID stands for all that is parsed from it (module Edid), so an      *)
(* answer is the display it was taken from, or the default of the call.    *)
(***************************************************************************)
EXTENDS Integers

CONSTANTS
  Connectors,  \* the HDMI connectors, 1 .. n in the order of DRM: 1 is HDMI-A-1
  TVs,         \* displays with an EDID
  NoTv,        \* nothing is plugged in
  ShownModes,  \* modes of the compositor and the displays: records of w and h
  Preferred    \* the preferred mode of each display

Hdmi0 == 1

\* "untouched": nothing was written; "zero": the empty value of the call;
\* "static": the list of the table; "short": less than a block of an EDID.
PlainValues == {"untouched", "zero", "static", "short", "yes", "no", "known",
                "UNKNOWN", "4x3", "16x9", "DDPLUS", "DD", "NONE"}

ASSUME PortsAssumption ==
  /\ Connectors \subseteq Nat \ {0} /\ Hdmi0 \in Connectors
  /\ NoTv \notin TVs /\ TVs \cap PlainValues = {}
  /\ ShownModes \subseteq [w : Nat, h : Nat]
  /\ Preferred \in [TVs -> ShownModes]

VARIABLES
  plugged,    \* the display on each connector
  crtc,       \* what drives it: no encoder, an encoder, or one with a mode
  shown,      \* the mode of the compositor
  dispInit,   \* _bDisplayInited
  portInit,   \* _bIsVideoPortInitialized
  isEnabled,  \* m_isEnabled
  op, at,     \* the call and where it stands, "idle" when it has returned
  want,       \* the argument of dsEnableVideoPort
  err, val,   \* what the call returned, and what it wrote for the caller
  steady,     \* history: nothing has changed or failed since the call began
  seen,       \* history: what was plugged in at HDMI-A-1 since then
  settled     \* history: the HAL has learned the state, and it has not changed

world == <<plugged, crtc, shown>>
modules == <<dispInit, portInit>>
answer == <<err, val>>
history == <<steady, seen, settled>>
queryVars == <<world, modules, isEnabled, op, at, want, answer, history>>

EdidQueries == {"dsSupportedTvResolutions", "dsGetTVHDRCapabilities",
                "dsIsDisplaySurround"}
OutputQueries == {"dsGetCurrentOutputSettings", "dsGetMatrixCoefficients",
                  "dsGetQuantizationRange", "dsGetColorDepth", "dsGetColorSpace"}
Calls == EdidQueries \cup OutputQueries \cup
  {"dsGetVideoPort", "dsIsVideoPortEnabled", "dsIsDisplayConnected",
   "dsIsVideoPortActive", "dsEnableVideoPort", "dsGetSurroundMode",
   "dsGetVideoEOTF", "dsGetDisplay", "dsGetEDID", "dsGetEDIDBytes",
   "dsGetDisplayAspectRatio"}

Errors == {"NONE", "NOT_INITIALIZED", "INVALID_PARAM", "OPERATION_NOT_SUPPORTED",
           "GENERAL"}
Values == PlainValues \cup TVs

QueriesTypeOK ==
  /\ plugged \in [Connectors -> TVs \cup {NoTv}]
  /\ crtc \in [Connectors -> {"none", "encoder", "mode"}]
  /\ shown \in ShownModes
  /\ dispInit \in BOOLEAN /\ portInit \in BOOLEAN /\ isEnabled \in BOOLEAN
  /\ op \in Calls \cup {"none"}
  /\ at \in {"idle", "port", "display", "bytes", "status", "file", "mode",
             "preferred", "send", "audio"}
  /\ want \in BOOLEAN
  /\ err \in Errors /\ val \in Values
  /\ steady \in BOOLEAN /\ seen \subseteq TVs \cup {NoTv}
  /\ settled \in BOOLEAN

QueriesInit ==
  /\ plugged \in [Connectors -> TVs \cup {NoTv}]
  /\ crtc \in [Connectors -> {"none", "encoder", "mode"}]
  /\ shown \in ShownModes
  /\ dispInit = FALSE /\ portInit = FALSE /\ isEnabled = FALSE
  /\ op = "none" /\ at = "idle" /\ want = FALSE
  /\ err = "NONE" /\ val = "untouched"
  /\ steady = FALSE /\ seen = {} /\ settled = FALSE

(***************************************************************************)
(* dsGetHdmiConnectorState and dsGetPreferredHdmiMode                      *)
(***************************************************************************)

Connected(c) == plugged[c] # NoTv
Enabled(c) == crtc[c] = "mode" \/ (crtc[c] = "encoder" /\ Connected(c))
First(S) == CHOOSE c \in S : \A d \in S : c <= d

Best == {c \in Connectors : Connected(c) /\ Enabled(c)}
Told == IF Best # {} THEN First(Best) ELSE First(Connectors)

\* One reading.  It fails when the card cannot be opened or tells nothing.
Reading == [ok : {TRUE}, connected : {Connected(Told)}, enabled : {Enabled(Told)}]
Failure == [ok : {FALSE}, connected : {FALSE}, enabled : {FALSE}]
Noted(r) == steady' = (steady /\ r.ok)

\* The mode of the first connector that has a display; without any, whatever
\* mode the card still lists for a connector.
PreferredMode ==
  LET with == {c \in Connectors : Connected(c)}
  IN  IF with = {} THEN ShownModes ELSE {Preferred[plugged[First(with)]]}

(***************************************************************************)
(* Calls and returns                                                       *)
(***************************************************************************)

Answer(e, v) ==
  /\ at' = "idle" /\ err' = e /\ val' = v
Goto(place) == at' = place /\ UNCHANGED answer

\* What every call looks at first: its module, then its arguments.
Arguments == {"good", "bad"}
Refusal(ready, arg) ==
  CASE ~ready -> "NOT_INITIALIZED"
    [] ready /\ arg = "bad" -> "INVALID_PARAM"
    [] ready /\ arg = "not HDMI" -> "OPERATION_NOT_SUPPORTED"
    [] OTHER -> "NONE"

\* A call is refused, answered at once, or goes on at a place.
Call(o, ready, arg, place) ==
  /\ at = "idle"
  /\ op' = o
  /\ steady' = TRUE /\ seen' = {plugged[Hdmi0]}
  /\ CASE Refusal(ready, arg) # "NONE" -> Answer(Refusal(ready, arg), "untouched")
       [] Refusal(ready, arg) = "NONE" /\ place = "answer" -> Answer("NONE", "known")
       [] OTHER -> at' = place /\ err' = "NONE" /\ val' = "untouched"
  /\ UNCHANGED <<world, modules, isEnabled, settled>>
Query(o, ready, arg, place) == Call(o, ready, arg, place) /\ UNCHANGED want

\* These two alone take the type of a port.
dsGetVideoPort(arg) == Query("dsGetVideoPort", portInit, arg, "answer")
dsGetDisplay(arg) == Query("dsGetDisplay", dispInit, arg, "answer")

dsGetVideoEOTF(arg) == Query("dsGetVideoEOTF", portInit, arg, "answer")
dsGetColorDepth(arg) == Query("dsGetColorDepth", portInit, arg, "answer")
dsGetColorSpace(arg) == Query("dsGetColorSpace", portInit, arg, "answer")

dsIsVideoPortEnabled(arg) == Query("dsIsVideoPortEnabled", portInit, arg, "port")
dsIsDisplayConnected(arg) == Query("dsIsDisplayConnected", portInit, arg, "port")
dsIsVideoPortActive(arg) == Query("dsIsVideoPortActive", portInit, arg, "port")
dsGetTVHDRCapabilities(arg) == Query("dsGetTVHDRCapabilities", portInit, arg, "port")
dsSupportedTvResolutions(arg) == Query("dsSupportedTvResolutions", portInit, arg, "port")
dsIsDisplaySurround(arg) == Query("dsIsDisplaySurround", portInit, arg, "port")
dsGetSurroundMode(arg) == Query("dsGetSurroundMode", portInit, arg, "port")
dsGetMatrixCoefficients(arg) == Query("dsGetMatrixCoefficients", portInit, arg, "port")
dsGetQuantizationRange(arg) == Query("dsGetQuantizationRange", portInit, arg, "port")
dsGetCurrentOutputSettings(arg) ==
  Query("dsGetCurrentOutputSettings", portInit, arg, "port")

dsGetEDID(arg) == Query("dsGetEDID", dispInit, arg, "display")
dsGetDisplayAspectRatio(arg) == Query("dsGetDisplayAspectRatio", dispInit, arg, "display")
dsGetEDIDBytes(arg) == Query("dsGetEDIDBytes", dispInit, arg, "bytes")

dsEnableVideoPort(arg, enabled) ==
  /\ Call("dsEnableVideoPort", portInit, arg, "send")
  /\ want' = enabled

Enter(arg) ==
  \/ dsGetVideoEOTF(arg) \/ dsGetColorDepth(arg) \/ dsGetColorSpace(arg)
  \/ dsIsVideoPortEnabled(arg) \/ dsIsDisplayConnected(arg) \/ dsIsVideoPortActive(arg)
  \/ dsGetTVHDRCapabilities(arg) \/ dsSupportedTvResolutions(arg)
  \/ dsIsDisplaySurround(arg) \/ dsGetSurroundMode(arg)
  \/ dsGetMatrixCoefficients(arg) \/ dsGetQuantizationRange(arg)
  \/ dsGetCurrentOutputSettings(arg)
  \/ dsGetEDID(arg) \/ dsGetDisplayAspectRatio(arg) \/ dsGetEDIDBytes(arg)
  \/ \E enabled \in BOOLEAN : dsEnableVideoPort(arg, enabled)

(***************************************************************************)
(* dsVideoPort.c                                                           *)
(***************************************************************************)

YesNo(b) == IF b THEN "yes" ELSE "no"

\* m_isEnabled after a reading.
NowEnabled(r) == IF r.ok THEN r.enabled ELSE isEnabled
Learn(r) ==
  /\ isEnabled' = NowEnabled(r)
  /\ settled' = (settled \/ r.ok)

AnswerEnabled(r) ==
  /\ op = "dsIsVideoPortEnabled"
  /\ Learn(r)
  /\ Answer("NONE", YesNo(NowEnabled(r)))

AnswerConnected(r) ==
  /\ op = "dsIsDisplayConnected"
  /\ Learn(r)
  /\ IF r.ok THEN Answer("NONE", YesNo(r.connected)) ELSE Answer("GENERAL", "no")

AnswerActive(r) ==
  /\ op = "dsIsVideoPortActive"
  /\ IF r.ok THEN Answer("NONE", YesNo(r.connected /\ r.enabled))
             ELSE Answer("GENERAL", "no")
  /\ UNCHANGED <<isEnabled, settled>>

\* What getHdmiEdidForConnectedDisplay cannot get is SDR, no resolution, or
\* an error.
EdidMissing ==
  IF op = "dsIsDisplaySurround" THEN Answer("GENERAL", "zero") ELSE Answer("NONE", "zero")

\* dsIsDisplayConnected, and when there is a display, what comes next.
\* Mutant: the connection is not asked for.
MayAskAlways(r) == TRUE
MayAsk(r) == r.ok /\ r.connected
IfConnected(r, NextStep, otherwise) ==
  /\ Learn(r)
  /\ IF MayAsk(r) THEN NextStep ELSE Answer("GENERAL", otherwise)
AskEdid == IF dispInit THEN Goto("bytes") ELSE EdidMissing

AskHdr(r) ==
  op = "dsGetTVHDRCapabilities" /\ IfConnected(r, AskEdid, "untouched")
AskResolutions(r) ==
  op = "dsSupportedTvResolutions" /\ IfConnected(r, AskEdid, "zero")
AskSurround(r) ==
  op = "dsIsDisplaySurround" /\ IfConnected(r, AskEdid, "untouched")
AskAudio(r) ==
  op = "dsGetSurroundMode" /\ IfConnected(r, Goto("audio"), "untouched")

\* dsGetAudioEncoding of the HDMI audio port answers EAC3, AC3, PCM or an error.
ReadEncoding ==
  /\ at = "audio"
  /\ \E surround \in {"DDPLUS", "DD", "NONE"} : Answer("NONE", surround)
  /\ UNCHANGED <<world, modules, isEnabled, op, want, history>>

Output(r) == Answer("NONE", IF r.connected THEN "known" ELSE "UNKNOWN")
AnswerMatrix(r) ==
  /\ op = "dsGetMatrixCoefficients"
  /\ IF r.ok THEN Output(r) ELSE Answer("GENERAL", "untouched")
  /\ UNCHANGED <<isEnabled, settled>>
AnswerQuantization(r) ==
  /\ op = "dsGetQuantizationRange"
  /\ Output(r)
  /\ UNCHANGED <<isEnabled, settled>>
AnswerSettings(r) ==
  /\ op = "dsGetCurrentOutputSettings"
  /\ IF r.ok THEN Output(r) ELSE Answer("GENERAL", "untouched")
  /\ UNCHANGED <<isEnabled, settled>>

ReadPort ==
  /\ at = "port"
  /\ \E r \in Reading \cup Failure :
       /\ Noted(r)
       /\ \/ AnswerEnabled(r) \/ AnswerConnected(r) \/ AnswerActive(r)
          \/ AskHdr(r) \/ AskResolutions(r) \/ AskSurround(r) \/ AskAudio(r)
          \/ AnswerMatrix(r) \/ AnswerQuantization(r) \/ AnswerSettings(r)
  /\ UNCHANGED <<world, modules, op, want, seen>>

\* The compositor is told, and answers that it did, that it did not, or not
\* at all; the code takes any answer for success.
\* Mutant: m_isEnabled is set before the answer.
RememberedFirst(answered) == want
Remembered(answered) == IF answered THEN want ELSE isEnabled
CommandPort(done, answered) ==
  /\ at = "send"
  /\ crtc' = IF done THEN [crtc EXCEPT ![Hdmi0] = IF want THEN "mode" ELSE "none"]
                     ELSE crtc
  /\ steady' = (steady /\ answered)
  /\ isEnabled' = Remembered(answered)
  /\ settled' = ((done /\ answered) \/ (settled /\ ~done /\ ~answered))
  /\ IF answered THEN Answer("NONE", "untouched") ELSE Answer("GENERAL", "untouched")
  /\ UNCHANGED <<plugged, shown, modules, op, want, seen>>

(***************************************************************************)
(* dsDisplay.c                                                             *)
(***************************************************************************)

ReadDisplay ==
  /\ at = "display"
  /\ \E r \in Reading \cup Failure :
       /\ Noted(r)
       /\ CASE r.connected /\ op = "dsGetEDID" -> Goto("bytes")
            [] r.connected /\ op = "dsGetDisplayAspectRatio" -> Goto("mode")
            [] ~r.connected /\ op = "dsGetEDID" -> Answer("NONE", "untouched")
            [] OTHER -> Answer("GENERAL", "untouched")
  /\ UNCHANGED <<world, modules, isEnabled, op, want, seen, settled>>

\* The end of dsGetEDIDBytes, for its caller: an error, no length at all, a
\* length below a block, or the EDID of the display.
BytesFail ==
  CASE op \in EdidQueries -> EdidMissing
    [] op = "dsGetEDID" -> Answer("GENERAL", "zero")
    [] op = "dsGetEDIDBytes" -> Answer("GENERAL", "zero")
BytesNothing ==
  CASE op \in EdidQueries -> EdidMissing
    [] op = "dsGetEDID" -> Answer("NONE", "static")
    [] op = "dsGetEDIDBytes" -> Answer("NONE", "untouched")
BytesShort ==
  CASE op \in EdidQueries -> EdidMissing
    [] op = "dsGetEDID" -> Answer("NONE", "static")
    [] op = "dsGetEDIDBytes" -> Answer("NONE", "short")
BytesOf(tv) == Answer("NONE", tv)

ReadBytes ==
  /\ at = "bytes"
  /\ \E r \in Reading \cup Failure :
       /\ Noted(r)
       /\ IF r.connected THEN Goto("status") ELSE BytesNothing
  /\ UNCHANGED <<world, modules, isEnabled, op, want, seen, settled>>

\* The files of HDMI-A-1, whichever connector DRM has told about.
\* Mutant: those of the connector that DRM has told about.
SysfsTold == Told
Sysfs == Hdmi0

\* The directory cannot be opened, which comes before the length is cleared.
NoDirectory == op = "dsGetEDIDBytes" /\ Answer("GENERAL", "untouched")

ReadStatus ==
  /\ at = "status"
  /\ \/ Connected(Sysfs) /\ Goto("file") /\ UNCHANGED steady
     \/ ~Connected(Sysfs) /\ BytesFail /\ UNCHANGED steady
     \/ BytesFail /\ steady' = FALSE
     \/ NoDirectory /\ steady' = FALSE
  /\ UNCHANGED <<world, modules, isEnabled, op, want, seen, settled>>

\* The length of what was read is looked at.
Readable == Connected(Sysfs)

ReadFile ==
  /\ at = "file"
  /\ \/ Readable /\ BytesOf(plugged[Sysfs]) /\ UNCHANGED steady
     \/ ~Readable /\ BytesFail /\ UNCHANGED steady
     \/ (BytesFail \/ BytesShort) /\ steady' = FALSE
  /\ UNCHANGED <<world, modules, isEnabled, op, want, seen, settled>>

AspectOf(m) == IF m.w * 3 > m.h * 4 THEN "16x9" ELSE "4x3"

\* "get mode" of dsGetDisplayAspectRatio: the mode, no answer, or none that
\* can be read.
AskMode ==
  /\ at = "mode"
  /\ \/ Answer("NONE", AspectOf(shown)) /\ UNCHANGED steady
     \/ Goto("preferred") /\ steady' = FALSE
     \/ Answer("NONE", "16x9") /\ steady' = FALSE
  /\ UNCHANGED <<world, modules, isEnabled, op, want, seen, settled>>

ReadPreferred ==
  /\ at = "preferred"
  /\ \/ \E m \in PreferredMode : Answer("NONE", AspectOf(m))
     \/ Answer("NONE", "16x9")
  /\ UNCHANGED <<world, modules, isEnabled, op, want, history>>

(***************************************************************************)
(* The modules, the cables and the compositor                              *)
(***************************************************************************)

InitVideoPort ==
  /\ at = "idle" /\ ~portInit
  /\ portInit' = TRUE /\ isEnabled' = TRUE
  /\ settled' = FALSE
  /\ UNCHANGED <<world, dispInit, op, at, want, answer, steady, seen>>

TermVideoPort ==
  /\ at = "idle" /\ portInit
  /\ portInit' = FALSE
  /\ steady' = FALSE
  /\ UNCHANGED <<world, dispInit, isEnabled, op, at, want, answer, seen, settled>>

dsDisplayInit ==
  /\ at = "idle" /\ ~dispInit
  /\ dispInit' = TRUE
  /\ steady' = FALSE
  /\ UNCHANGED <<world, portInit, isEnabled, op, at, want, answer, seen, settled>>

dsDisplayTerm ==
  /\ at = "idle" /\ dispInit
  /\ dispInit' = FALSE
  /\ steady' = FALSE
  /\ UNCHANGED <<world, portInit, isEnabled, op, at, want, answer, seen, settled>>

Plug(c, tv) ==
  /\ plugged[c] # tv
  /\ plugged' = [plugged EXCEPT ![c] = tv]
  /\ steady' = FALSE /\ settled' = FALSE
  /\ seen' = IF c = Hdmi0 THEN seen \cup {tv} ELSE seen
  /\ UNCHANGED <<crtc, shown, modules, isEnabled, op, at, want, answer>>

Compositor ==
  /\ \/ \E c \in Connectors, d \in {"none", "encoder", "mode"} :
          crtc[c] # d /\ crtc' = [crtc EXCEPT ![c] = d] /\ UNCHANGED shown
     \/ shown' \in ShownModes \ {shown} /\ UNCHANGED crtc
  /\ steady' = FALSE /\ settled' = FALSE
  /\ UNCHANGED <<plugged, modules, isEnabled, op, at, want, answer, seen>>

CallStep ==
  \/ ReadPort \/ ReadDisplay \/ ReadBytes \/ ReadStatus \/ ReadFile
  \/ AskMode \/ ReadPreferred \/ ReadEncoding
  \/ \E done, answered \in BOOLEAN : CommandPort(done, answered)

QueriesNext ==
  \/ InitVideoPort \/ TermVideoPort \/ dsDisplayInit \/ dsDisplayTerm
  \/ \E arg \in Arguments : Enter(arg)
  \/ \E arg \in Arguments \cup {"not HDMI"} : dsGetVideoPort(arg) \/ dsGetDisplay(arg)
  \/ CallStep
  \/ \E c \in Connectors, tv \in TVs \cup {NoTv} : Plug(c, tv)
  \/ Compositor

QueriesSpec == QueriesInit /\ [][QueriesNext]_queryVars

(***************************************************************************)
(* Properties                                                              *)
(***************************************************************************)

Answered(o) == at = "idle" /\ op = o /\ err = "NONE" /\ steady
Tv == plugged[Hdmi0]

\* Only the first connector is in use.
Alone ==
  \A c \in Connectors \ {Hdmi0} : plugged[c] = NoTv /\ crtc[c] = "none"

\* Every query that goes by the EDID answers with the display that is there, and
\* the three of dsVideoPort.c fail when there is none.
EdidIsReal ==
  \A o \in EdidQueries \cup {"dsGetEDID", "dsGetEDIDBytes"} :
    at = "idle" /\ op = o /\ steady /\ err \in {"NONE", "GENERAL"} /\ dispInit =>
      IF Tv # NoTv THEN err = "NONE" /\ val = Tv
      ELSE err = "GENERAL" \/ (o \notin EdidQueries /\ val = "untouched")

\* Whatever changes in the meantime: a display that is answered with was
\* plugged in during the call, into the connector that the handle is for.
NeverOtherTv == at = "idle" /\ val \in TVs => val \in seen

\* The three ways to ask for the state agree with the connector and with
\* each other.
StateIsReal ==
  /\ Answered("dsIsDisplayConnected") => val = YesNo(Tv # NoTv)
  /\ Answered("dsIsVideoPortActive") =>
       val = YesNo(Tv # NoTv /\ crtc[Hdmi0] # "none")
  /\ Answered("dsIsVideoPortEnabled") =>
       val = YesNo(crtc[Hdmi0] = "mode" \/ (Tv # NoTv /\ crtc[Hdmi0] = "encoder"))

\* The aspect ratio is that of the mode that is shown.
AspectIsReal ==
  Answered("dsGetDisplayAspectRatio") =>
    /\ Tv # NoTv
    /\ val = "16x9" <=> 3 * shown.w > 4 * shown.h

\* With one connector in use, and no change and no failure while a query runs,
\* every answer is true of the display, the port and the mode.
AnswersReal == Alone => EdidIsReal /\ StateIsReal /\ AspectIsReal

\* With one connector in use, what dsIsVideoPortEnabled falls back on when DRM
\* cannot be read is right as long as nothing has changed since a reading that
\* was kept or a command that was carried out and answered; calls that fail do
\* not spoil it.
EnabledRemembered == Alone /\ settled => isEnabled = Enabled(Hdmi0)
=============================================================================
