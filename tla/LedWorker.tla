----------------------------- MODULE LedWorker ------------------------------
(***************************************************************************)
(* The LED pattern worker of dsFPD.c against the API caller: the thread    *)
(* ledPatternWorker turns the state that the API calls leave in gFPDCtx    *)
(* into writes of the LED's brightness, steady, in the pattern of an LED   *)
(* state, or in the blink that dsSetFPBlink asks for.                      *)
(*                                                                         *)
(* ledStateMutex makes each locked section one step; the worker gives it   *)
(* up to write to sysfs and while it waits, and API calls come in between. *)
(* A wait is left in two steps, because the worker that was woken has to   *)
(* get the mutex back first: the condition (wake) decides how it will      *)
(* return, the resumption acts on it, and calls may come between them.     *)
(*                                                                         *)
(* Time is abstract: a timed wait may end at any moment after it began.    *)
(***************************************************************************)
EXTENDS Naturals

CONSTANTS
  Requested,    \* the LED states the caller sets
  Levels,       \* the brightness values the caller sets, in percent
  Iterations,   \* the iteration counts of the blinks the caller asks for
  MaxRaw,       \* max_brightness of the LED
  MaxRequests,  \* bound: blinks per session (a 64-bit counter in the code)
  FaultOps      \* operations that may fail: "write", "wait", "clock"

LedStates == {"NONE", "ACTIVE", "STANDBY", "WPS_CONNECTING", "WPS_CONNECTED",
              "WPS_ERROR", "FACTORY_RESET", "USB_UPGRADE", "DOWNLOAD_ERROR"}

ASSUME CallerAssumption ==
  /\ Requested \subseteq LedStates \ {"NONE"}
  /\ Levels \subseteq 0 .. 100
  /\ Iterations \subseteq Nat \ {0}
ASSUME DeviceAssumption ==
  /\ MaxRaw \in Nat \ {0}
  /\ MaxRequests \in Nat
  /\ FaultOps \subseteq {"write", "wait", "clock"}

VARIABLES
  initialized,  \* isFPDInitialized
  stop,         \* ledPatternThreadStop
  ledState,     \* currentLEDState
  brightness,   \* currentBrightness, in percent
  fpState,      \* fpState
  blinkActive,  \* customBlinkActive
  iterations,   \* customBlinkIterations
  requestId,    \* customBlinkRequestId
  resume,       \* customBlinkResumeState
  term,         \* dsFPTerm is between its two locked sections
  pc,           \* where the worker stands
  wake,         \* how its wait will return
  mode,         \* what it shows: steady, an LED state's pattern, a blink
  timed,        \* clock_gettime gave the wait an end (clockRc)
  raw,          \* the brightness it is about to write
  aState, aBright, aFp,  \* activeState, activeBrightness, activeFPState
  phase,        \* phaseIndex
  aRequest,     \* activeCustomReqId
  phaseOn,      \* customPhaseOn
  remaining,    \* customPhasesRemaining
  led           \* the LED's brightness file

settings == <<ledState, brightness, fpState>>
blink == <<blinkActive, iterations, requestId, resume>>
active == <<aState, aBright, aFp>>
phases == <<aRequest, phaseOn, remaining>>
worker == <<pc, wake, mode, timed, raw, active, phase, phases>>
vars == <<initialized, stop, settings, blink, term, worker, led>>

TypeOK ==
  /\ initialized \in BOOLEAN /\ stop \in BOOLEAN /\ term \in BOOLEAN
  /\ ledState \in LedStates /\ resume \in LedStates /\ aState \in LedStates
  /\ brightness \in 0 .. 100 /\ aBright \in 0 .. 100
  /\ fpState \in {"ON", "OFF"} /\ aFp \in {"ON", "OFF"}
  /\ blinkActive \in BOOLEAN /\ phaseOn \in BOOLEAN /\ timed \in BOOLEAN
  /\ iterations \in Nat /\ remaining \in Nat /\ phase \in Nat
  /\ requestId \in 0 .. MaxRequests /\ aRequest \in 0 .. MaxRequests
  /\ pc \in {"none", "top", "write", "check", "wait", "exited"}
  /\ wake \in {"none", "asleep", "signalled", "timedout", "failed"}
  /\ mode \in {"steady", "pattern", "blink"}
  /\ raw \in 0 .. MaxRaw /\ led \in 0 .. MaxRaw

Fails(op) == op \in FaultOps

\* getPatternForState: the number of phases of a state's pattern, 0 for the
\* states that are shown steadily.
PatternLen(s) ==
  CASE s \in {"WPS_CONNECTING", "WPS_ERROR"} -> 2
    [] s = "WPS_CONNECTED" -> 4
    [] s \in {"FACTORY_RESET", "USB_UPGRADE"} -> 6
    [] s = "DOWNLOAD_ERROR" -> 18
    [] OTHER -> 0

\* Mutant: rounded up beyond the next value, and not limited.
RawOfPlusOne(percent) == (percent * MaxRaw + 100) \div 100

\* percentToRawBrightness: rounded up, so that 1% is never dark.
RawOf(percent) ==
  LET scaled == (percent * MaxRaw + 99) \div 100
  IN  IF percent = 0 THEN 0
      ELSE IF scaled > MaxRaw THEN MaxRaw ELSE scaled

\* Mutant: the indicator's OFF is forgotten.
SteadyRawOfState(state, level, fp) ==
  IF state \in {"STANDBY", "NONE"} THEN 0 ELSE RawOf(level)

\* What the LED shows when neither a pattern nor a blink is running.
SteadyRaw(state, level, fp) ==
  IF fp = "OFF" \/ state \in {"STANDBY", "NONE"} THEN 0 ELSE RawOf(level)

Init ==
  /\ initialized = FALSE /\ stop = FALSE /\ term = FALSE
  /\ ledState = "NONE" /\ brightness = 100 /\ fpState = "OFF"
  /\ blinkActive = FALSE /\ iterations = 0 /\ requestId = 0
  /\ resume = "ACTIVE"
  /\ pc = "none" /\ wake = "none" /\ mode = "steady" /\ timed = TRUE
  /\ raw = 0 /\ led = 0
  /\ aState = "NONE" /\ aBright = 100 /\ aFp = "OFF" /\ phase = 0
  /\ aRequest = 0 /\ phaseOn = TRUE /\ remaining = 0

\* writeLedBrightnessRaw of a value the code never exceeds max_brightness with.
WriteLed(value) == led' = value \/ (Fails("write") /\ UNCHANGED led)

\* pthread_cond_signal: a waiter is woken, nothing is remembered otherwise.
Signal == wake' = IF wake = "asleep" THEN "signalled" ELSE wake

(***************************************************************************)
(* The API                                                                 *)
(***************************************************************************)

\* dsFPInit from line 1357 on; the trigger it takes first is in LedTrigger.
\* The worker starts with its own locals.
dsFPInit ==
  /\ ~initialized /\ ~term
  /\ WriteLed(0)
  /\ brightness' = 100 /\ ledState' = "ACTIVE" /\ fpState' = "ON"
  /\ blinkActive' = FALSE /\ iterations' = 0 /\ requestId' = 0
  /\ resume' = "ACTIVE"
  /\ stop' = FALSE /\ initialized' = TRUE
  /\ pc' = "top" /\ wake' = "none" /\ mode' = "steady" /\ timed' = TRUE
  /\ raw' = 0
  /\ aState' = "NONE" /\ aBright' = 100 /\ aFp' = "OFF" /\ phase' = 0
  /\ aRequest' = 0 /\ phaseOn' = TRUE /\ remaining' = 0
  /\ UNCHANGED term

dsSetFPBlink(n) ==
  /\ initialized /\ fpState = "ON"
  /\ requestId < MaxRequests
  /\ iterations' = n
  /\ resume' = ledState
  /\ requestId' = requestId + 1
  /\ blinkActive' = TRUE
  /\ Signal
  /\ UNCHANGED <<initialized, stop, settings, term, pc, mode, timed, raw,
                 active, phase, phases, led>>

\* A value that is already set is not signalled.
dsSetFPBrightness(level) ==
  /\ initialized /\ fpState = "ON" /\ brightness # level
  /\ brightness' = level
  /\ Signal
  /\ UNCHANGED <<initialized, stop, ledState, fpState, blink, term, pc, mode,
                 timed, raw, active, phase, phases, led>>

dsSetFPState(s) ==
  /\ initialized
  /\ fpState' = s
  /\ blinkActive' = (blinkActive /\ s = "ON")
  /\ Signal
  /\ UNCHANGED <<initialized, stop, ledState, brightness, iterations,
                 requestId, resume, term, pc, mode, timed, raw, active, phase,
                 phases, led>>

\* Mutant: the blink goes on.
dsFPSetLEDStateOnly(s) ==
  /\ initialized
  /\ ledState' = s
  /\ Signal
  /\ UNCHANGED <<initialized, stop, brightness, fpState, blink, term, pc, mode,
                 timed, raw, active, phase, phases, led>>

\* With applyLedStateLocked.
dsFPSetLEDState(s) ==
  /\ initialized
  /\ blinkActive' = FALSE
  /\ ledState' = s
  /\ Signal
  /\ UNCHANGED <<initialized, stop, brightness, fpState, iterations,
                 requestId, resume, term, pc, mode, timed, raw, active, phase,
                 phases, led>>

TermBegin ==
  /\ initialized
  /\ stop' = TRUE /\ initialized' = FALSE /\ term' = TRUE
  /\ Signal
  /\ UNCHANGED <<settings, blink, pc, mode, timed, raw, active, phase, phases,
                 led>>

\* The join has returned; dsFPTerm clears the context.
TermEnd ==
  /\ term /\ pc = "exited"
  /\ WriteLed(0)
  /\ ledState' = "NONE" /\ brightness' = 100 /\ fpState' = "OFF"
  /\ blinkActive' = FALSE /\ iterations' = 0 /\ requestId' = 0
  /\ resume' = "ACTIVE"
  /\ stop' = FALSE /\ term' = FALSE
  /\ pc' = "none"
  /\ UNCHANGED <<initialized, wake, mode, timed, raw, active, phase, phases>>

(***************************************************************************)
(* The worker                                                              *)
(***************************************************************************)

FpOn == fpState = "ON"

\* A request the worker has not seen yet starts over with a lit phase.
Fresh == FpOn /\ blinkActive /\ aRequest # requestId
\* Mutant: the last dark phase is left out.
PhasesLeftShort == IF Fresh THEN 2 * iterations - 1 ELSE remaining
PhasesLeft == IF Fresh THEN 2 * iterations ELSE remaining
PhaseLit == IF Fresh THEN TRUE ELSE phaseOn
Blinking == FpOn /\ blinkActive /\ PhasesLeft > 0
Spent == FpOn /\ blinkActive /\ PhasesLeft = 0

\* The state to show: the one to resume when the blink turns out to be spent.
Shown == IF Spent THEN resume ELSE ledState

\* The settings differ from those the worker last acted on.
Changed == <<ledState, brightness, fpState>> # <<aState, aBright, aFp>>

\* The settings become the active ones; a new one restarts the pattern.
Adopt(state) ==
  /\ aState' = state /\ aBright' = brightness /\ aFp' = fpState
  /\ phase' = IF <<state, brightness, fpState>> # <<aState, aBright, aFp>>
                THEN 0 ELSE phase

TopStop ==
  /\ pc = "top" /\ stop
  /\ pc' = "exited"
  /\ UNCHANGED <<initialized, stop, settings, blink, term, wake, mode, timed,
                 raw, active, phase, phases, led>>

\* The head of the loop: look at the context, choose what to write.  The
\* wait for isFPDInitialized is never entered: the thread is created under
\* the mutex that dsFPInit holds until it has set the flag, and whoever
\* clears it sets the stop flag with it.
Top ==
  /\ pc = "top" /\ ~stop
  /\ aRequest' = IF Spent THEN 0 ELSE IF Fresh THEN requestId ELSE aRequest
  /\ remaining' = PhasesLeft
  /\ phaseOn' = (Spent \/ PhaseLit)
  /\ blinkActive' = (blinkActive /\ ~Spent)
  /\ ledState' = Shown
  /\ Adopt(Shown)
  /\ mode' = IF Blinking THEN "blink"
             ELSE IF FpOn /\ PatternLen(Shown) > 0 THEN "pattern" ELSE "steady"
  /\ raw' = CASE mode' = "blink" -> IF PhaseLit THEN RawOf(brightness) ELSE 0
              [] mode' = "pattern" ->
                   IF phase' % 2 = 0 THEN RawOf(brightness) ELSE 0
              [] OTHER -> SteadyRaw(Shown, brightness, fpState)
  /\ pc' = "write"
  /\ UNCHANGED <<initialized, stop, brightness, fpState, iterations,
                 requestId, resume, term, wake, timed, led>>

\* Without the mutex: the write, and the clock for the end of the wait.
Write ==
  /\ pc = "write"
  /\ WriteLed(raw)
  /\ timed' = TRUE \/ (Fails("clock") /\ timed' = FALSE)
  /\ pc' = "check"
  /\ UNCHANGED <<initialized, stop, settings, blink, term, wake, mode, raw,
                 active, phase, phases>>

\* Mutants: the settings, or the stop flag, are not looked at again.
NothingNewBlink == ~stop /\ (mode = "steady" => ~blinkActive)
NothingNewSettings == ~Changed /\ (mode = "steady" => ~blinkActive)

\* The mutex is taken back.  Settings that changed meanwhile are adopted
\* before any wait; a new blink is looked for only in the steady case.
NothingNew == ~stop /\ ~Changed /\ (mode = "steady" => ~blinkActive)

LookAgain ==
  /\ IF mode # "steady" /\ ~stop THEN Adopt(ledState)
                                 ELSE UNCHANGED <<active, phase>>
  /\ IF NothingNew THEN pc' = "wait" /\ wake' = "asleep"
                   ELSE pc' = "top" /\ wake' = "none"
  /\ UNCHANGED <<initialized, stop, settings, blink, term, mode, timed, raw,
                 phases, led>>

Check == pc = "check" /\ LookAgain

\* The wait times out, fails, or is left for no reason.
WaitReturns(how) ==
  /\ pc = "wait" /\ wake = "asleep"
  /\ wake' = how
  /\ UNCHANGED <<initialized, stop, settings, blink, term, pc, mode, timed,
                 raw, active, phase, phases, led>>

Timeout == mode # "steady" /\ timed /\ WaitReturns("timedout")
WaitFailure == mode # "steady" /\ Fails("wait") /\ WaitReturns("failed")
SpuriousWake == WaitReturns("signalled")

\* Mutant: only a timeout ends a phase.
AfterPhaseTimed ==
  IF remaining > 0 /\ wake = "timedout" THEN remaining - 1 ELSE remaining
AfterPhase == IF remaining > 0 THEN remaining - 1 ELSE 0

\* A blink that has no phase left gives the LED back to the resumed state.
NextPhase ==
  \/ /\ mode = "blink"
     /\ remaining' = AfterPhase
     /\ phaseOn' = IF remaining > 0 THEN ~phaseOn ELSE phaseOn
     /\ blinkActive' = (blinkActive /\ remaining' > 0)
     /\ ledState' = IF remaining' = 0 THEN resume ELSE ledState
     /\ UNCHANGED phase
  \/ /\ mode = "pattern"
     /\ phase' = (phase + 1) % PatternLen(aState)
     /\ UNCHANGED <<remaining, phaseOn, blinkActive, ledState>>

Resumed(how) ==
  /\ pc = "wait" /\ wake = how
  /\ UNCHANGED <<initialized, term, brightness, fpState, iterations,
                 requestId, resume, mode, timed, raw, aRequest, led>>

ToTop == pc' = "top" /\ wake' = "none"

\* After a timeout the context is not looked at again.
ResumeTimeout ==
  /\ Resumed("timedout")
  /\ NextPhase
  /\ ToTop
  /\ UNCHANGED <<stop, active>>

\* A wake without a change counts as the end of the phase.
ResumeSignal ==
  /\ Resumed("signalled") /\ mode # "steady"
  /\ \/ /\ Changed
        /\ Adopt(ledState)
        /\ UNCHANGED <<remaining, phaseOn, blinkActive, ledState>>
     \/ /\ ~Changed
        /\ NextPhase
        /\ UNCHANGED active
  /\ ToTop
  /\ UNCHANGED stop

ResumeSteady == pc = "wait" /\ wake = "signalled" /\ mode = "steady" /\ LookAgain

\* Any other result of the wait stops the worker; isFPDInitialized stays.
ResumeFailure ==
  /\ Resumed("failed")
  /\ stop' = TRUE
  /\ ToTop
  /\ UNCHANGED <<ledState, blinkActive, active, phase, remaining, phaseOn>>

Resume == ResumeTimeout \/ ResumeSignal \/ ResumeSteady \/ ResumeFailure

Next ==
  \/ dsFPInit \/ TermBegin \/ TermEnd
  \/ \E n \in Iterations : dsSetFPBlink(n)
  \/ \E level \in Levels : dsSetFPBrightness(level)
  \/ \E s \in {"ON", "OFF"} : dsSetFPState(s)
  \/ \E s \in Requested : dsFPSetLEDState(s)
  \/ TopStop \/ Top \/ Write \/ Check \/ Resume
  \/ Timeout \/ WaitFailure \/ SpuriousWake

Spec == Init /\ [][Next]_vars

\* The worker runs whenever it can and a timed wait does end; dsFPTerm goes
\* on once the join returns.  Nothing makes the caller issue a call.
Fairness ==
  /\ WF_vars(TopStop \/ Top \/ Write \/ Check \/ Resume)
  /\ WF_vars(Timeout)
  /\ WF_vars(TermEnd)

FairSpec == Spec /\ Fairness

(***************************************************************************)
(* Properties                                                              *)
(***************************************************************************)

Asleep == pc = "wait" /\ wake = "asleep"

\* No lost wakeup (the re-checks of ledPatternWorker before each wait, the
\* signals of the API calls): a worker that sleeps and has not been woken
\* has acted on the current settings, so the LED shows them; it is dark when
\* the indicator is OFF, and a steady display hides no blink.
AsleepAgrees ==
  Asleep =>
    /\ ~stop /\ ~Changed
    /\ mode = "steady" =>
         ~blinkActive /\ raw = SteadyRaw(ledState, brightness, fpState)
    /\ mode # "steady" => fpState = "ON" /\ raw \in {0, RawOf(brightness)}
    /\ Fails("write") \/ led = raw

\* While a blink is active the LED state is the one it will resume: ending
\* it at any moment loses no state that dsFPSetLEDState has set.
BlinkKeepsState == blinkActive => resume = ledState

\* A blink shows at most two phases per iteration, lit and dark in turn, the
\* last one dark, and is inactive as soon as none is left.
BlinkPhases ==
  aRequest = requestId /\ requestId > 0 /\ pc \in {"top", "write", "check", "wait"} =>
    /\ remaining <= 2 * iterations
    /\ phaseOn <=> remaining % 2 = 0
    /\ blinkActive => remaining > 0

\* The worker has tried to show a value and has not written it.
WriteFailed(value) == pc \in {"check", "wait"} /\ raw = value /\ led # value

\* "FP OFF always forces physical LED output off": turning the indicator OFF
\* darkens the LED, whatever else is being shown or requested, unless that
\* very write fails (it is not made again) or the worker is stopped.
OffDarkens ==
  initialized /\ fpState = "OFF" ~>
    led = 0 \/ WriteFailed(0) \/ fpState = "ON" \/ stop

\* A blink ends by itself, unless the caller keeps changing the brightness,
\* which starts the current phase over, or the clock fails, without which a
\* phase has no end, or the worker is stopped.
BlinkEnds ==
  \/ blinkActive ~> ~blinkActive \/ stop \/ ~timed
  \/ []<><<brightness' # brightness>>_brightness

\* The join in dsFPTerm and in the exit handler returns: the worker sees the
\* stop flag from every wait and every write.
StopEnds == stop ~> pc \in {"exited", "none"}

\* "dsFPSetLEDState should stop an in-progress indicator blink": once it has,
\* the worker does not put another LED state in its place.
SetStateWins ==
  [][pc = "wait" /\ pc' = "top" /\ ledState' # ledState => blinkActive]_vars
=============================================================================
