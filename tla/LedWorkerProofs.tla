-------------------------- MODULE LedWorkerProofs ---------------------------
(***************************************************************************)
(* Theorems about LedWorker, for every LED, any values the caller sets,    *)
(* any number of blinks, and with every operation failing or not.          *)
(***************************************************************************)
EXTENDS LedWorker, TLAPS

\* The worker exists from dsFPInit to the end of dsFPTerm; a blink has iterations,
\* and the worker has seen no request that was not made.
Created ==
  /\ pc = "none" => ~initialized /\ ~term
  /\ ~(initialized /\ term)
  /\ blinkActive => iterations > 0
  /\ pc # "none" => aRequest <= requestId

\* What is written was chosen for the settings that the worker has adopted,
\* and once it is written the LED has it.
Showing ==
  /\ pc \in {"write", "check", "wait"} =>
       /\ mode = "steady" => raw = SteadyRaw(aState, aBright, aFp)
       /\ mode # "steady" => aFp = "ON" /\ raw \in {0, RawOf(aBright)}
       /\ mode = "pattern" => PatternLen(aState) > 0
  /\ pc \in {"check", "wait"} => Fails("write") \/ led = raw

IInv ==
  /\ TypeOK /\ Created /\ Showing
  /\ AsleepAgrees /\ BlinkKeepsState /\ BlinkPhases

(***************************************************************************)
(* The values that are written                                             *)
(***************************************************************************)

\* percentToRawBrightness stays within the LED's range, and 0 is kept for 0:
\* no percentage that can be seen becomes dark, however coarse the LED is.
THEOREM RawInRange ==
  ASSUME NEW percent \in 0 .. 100
  PROVE  /\ RawOf(percent) \in 0 .. MaxRaw
         /\ RawOf(percent) = 0 <=> percent = 0
<1> DEFINE product == percent * MaxRaw
           scaled == (product + 99) \div 100
<1>1. MaxRaw \in Nat /\ MaxRaw > 0
  BY DeviceAssumption
<1>2. product \in Nat /\ (percent > 0 => product > 0)
  BY <1>1
<1>3. scaled \in Nat /\ (percent > 0 => scaled > 0)
  <2> HIDE DEF product
  <2> QED
    BY <1>2
<1> HIDE DEF scaled
<1>4. RawOf(percent) = IF percent = 0 THEN 0
                       ELSE IF scaled > MaxRaw THEN MaxRaw ELSE scaled
  BY DEF RawOf, scaled
<1> QED
  BY <1>1, <1>3, <1>4

\* More percent is never less light.
THEOREM RawMonotone ==
  ASSUME NEW p \in 0 .. 100, NEW q \in 0 .. 100, p <= q
  PROVE  RawOf(p) <= RawOf(q)
<1> DEFINE a == p * MaxRaw
           b == q * MaxRaw
<1>1. MaxRaw \in Nat
  BY DeviceAssumption
<1>2. a \in Nat /\ b \in Nat /\ a <= b
  BY <1>1
<1>3. /\ (a + 99) \div 100 \in Nat /\ (b + 99) \div 100 \in Nat
      /\ (a + 99) \div 100 <= (b + 99) \div 100
  <2> HIDE DEF a, b
  <2> QED
    BY <1>2
<1>4. RawOf(q) \in Nat
  BY RawInRange
<1> QED
  BY <1>1, <1>3, <1>4 DEF RawOf

LEMMA SteadyInRange ==
  ASSUME NEW s, NEW level \in 0 .. 100, NEW fp
  PROVE  SteadyRaw(s, level, fp) \in 0 .. MaxRaw
  BY RawInRange, DeviceAssumption DEF SteadyRaw

LEMMA PatternLength == \A s \in LedStates : PatternLen(s) \in Nat
  BY DEF PatternLen, LedStates

(***************************************************************************)
(* Type correctness                                                        *)
(***************************************************************************)

LEMMA InitialStates == {"NONE", "ACTIVE"} \subseteq LedStates
  BY DEF LedStates

LEMMA InitialValues ==
  0 \in 0 .. MaxRaw /\ 0 \in 0 .. MaxRequests /\ 100 \in 0 .. 100
  BY DeviceAssumption

LEMMA TypeInit == Init => TypeOK
<1> SUFFICES ASSUME Init PROVE TypeOK
  OBVIOUS
<1>1. ledState \in LedStates /\ resume \in LedStates /\ aState \in LedStates
  BY InitialStates DEF Init
<1>2. /\ brightness \in 0 .. 100 /\ aBright \in 0 .. 100
      /\ requestId \in 0 .. MaxRequests /\ aRequest \in 0 .. MaxRequests
      /\ raw \in 0 .. MaxRaw /\ led \in 0 .. MaxRaw
  BY InitialValues DEF Init
<1> QED
  BY <1>1, <1>2 DEF Init, TypeOK

LEMMA WrittenTyped ==
  ASSUME led \in 0 .. MaxRaw, NEW value \in 0 .. MaxRaw, WriteLed(value)
  PROVE  led' \in 0 .. MaxRaw
  BY DEF WriteLed

LEMMA CallTyped ==
  ASSUME TypeOK,
         \/ dsFPInit \/ TermBegin \/ TermEnd
         \/ \E n \in Iterations : dsSetFPBlink(n)
         \/ \E level \in Levels : dsSetFPBrightness(level)
         \/ \E s \in {"ON", "OFF"} : dsSetFPState(s)
         \/ \E s \in Requested : dsFPSetLEDState(s)
  PROVE  TypeOK'
<1> USE DEF TypeOK, settings, blink, active, phases
<1>1. CASE dsFPInit
  <2>1. led' \in 0 .. MaxRaw
    BY <1>1, WrittenTyped, InitialValues DEF dsFPInit
  <2> QED
    BY <1>1, <2>1, InitialStates, InitialValues DEF dsFPInit
<1>2. CASE TermBegin
  BY <1>2 DEF TermBegin, Signal
<1>3. CASE TermEnd
  <2>1. led' \in 0 .. MaxRaw
    BY <1>3, WrittenTyped, InitialValues DEF TermEnd
  <2>2. ledState' \in LedStates /\ resume' \in LedStates
    BY <1>3, InitialStates DEF TermEnd
  <2>3. brightness' \in 0 .. 100 /\ requestId' \in 0 .. MaxRequests
    BY <1>3, InitialValues DEF TermEnd
  <2> QED
    BY <1>3, <2>1, <2>2, <2>3 DEF TermEnd
<1>4. CASE \E n \in Iterations : dsSetFPBlink(n)
  BY <1>4, CallerAssumption, DeviceAssumption DEF dsSetFPBlink, Signal
<1>5. CASE \E level \in Levels : dsSetFPBrightness(level)
  BY <1>5, CallerAssumption DEF dsSetFPBrightness, Signal
<1>6. CASE \E s \in {"ON", "OFF"} : dsSetFPState(s)
  BY <1>6 DEF dsSetFPState, Signal
<1>7. CASE \E s \in Requested : dsFPSetLEDState(s)
  <2> PICK s \in Requested : dsFPSetLEDState(s)
    BY <1>7
  <2>1. s \in LedStates
    BY CallerAssumption
  <2> QED
    BY <2>1 DEF dsFPSetLEDState, Signal
<1> QED
  BY <1>1, <1>2, <1>3, <1>4, <1>5, <1>6, <1>7

LEMMA PhasesLeftTyped == TypeOK => PhasesLeft \in Nat
  BY DEF TypeOK, PhasesLeft

LEMMA AdoptTyped ==
  ASSUME TypeOK, NEW state \in LedStates, Adopt(state)
  PROVE  /\ aState' \in LedStates /\ aBright' \in 0 .. 100
         /\ aFp' \in {"ON", "OFF"} /\ phase' \in Nat
  BY DEF TypeOK, Adopt

LEMMA TopTyped == ASSUME TypeOK, Top PROVE TypeOK'
<1>1. Shown \in LedStates
  BY DEF TypeOK, Shown
<1>2. /\ aState' \in LedStates /\ aBright' \in 0 .. 100
      /\ aFp' \in {"ON", "OFF"} /\ phase' \in Nat
  BY <1>1, AdoptTyped DEF Top
<1>3. mode' \in {"steady", "pattern", "blink"}
  BY DEF Top
<1>4. raw' \in 0 .. MaxRaw
  <2>1. /\ RawOf(brightness) \in 0 .. MaxRaw /\ 0 \in 0 .. MaxRaw
        /\ SteadyRaw(Shown, brightness, fpState) \in 0 .. MaxRaw
    BY RawInRange, SteadyInRange, DeviceAssumption DEF TypeOK
  <2>2. raw' \in {0, RawOf(brightness), SteadyRaw(Shown, brightness, fpState)}
    BY <1>3 DEF Top
  <2> QED
    BY <2>1, <2>2
<1>5. remaining' \in Nat /\ phaseOn' \in BOOLEAN
  BY PhasesLeftTyped DEF Top, TypeOK, PhaseLit, Spent
<1>6. aRequest' \in 0 .. MaxRequests
  BY DeviceAssumption DEF Top, TypeOK
<1> QED
  BY <1>1, <1>2, <1>3, <1>4, <1>5, <1>6 DEF Top, TypeOK

LEMMA LookAgainTyped == ASSUME TypeOK, LookAgain PROVE TypeOK'
<1>1. /\ aState' \in LedStates /\ aBright' \in 0 .. 100
      /\ aFp' \in {"ON", "OFF"} /\ phase' \in Nat
  BY AdoptTyped DEF LookAgain, TypeOK, active
<1>2. pc' \in {"wait", "top"} /\ wake' \in {"none", "asleep"}
  BY DEF LookAgain
<1> QED
  BY <1>1, <1>2 DEF LookAgain, TypeOK, settings, blink, phases

LEMMA NextPhaseTyped ==
  ASSUME TypeOK, Showing, pc = "wait", NextPhase
  PROVE  /\ phase' \in Nat /\ remaining' \in Nat /\ phaseOn' \in BOOLEAN
         /\ blinkActive' \in BOOLEAN /\ ledState' \in LedStates
<1>1. AfterPhase \in Nat
  BY DEF TypeOK, AfterPhase
<1>2. mode = "pattern" => (phase + 1) % PatternLen(aState) \in Nat
  <2> SUFFICES ASSUME mode = "pattern"
               PROVE  (phase + 1) % PatternLen(aState) \in Nat
    OBVIOUS
  <2>1. PatternLen(aState) \in Nat /\ PatternLen(aState) > 0
    BY PatternLength DEF Showing, TypeOK
  <2>2. phase + 1 \in Nat
    BY DEF TypeOK
  <2> QED
    BY <2>1, <2>2
<1> QED
  BY <1>1, <1>2 DEF NextPhase, TypeOK

LEMMA ResumeTyped == ASSUME TypeOK, Showing, Resume PROVE TypeOK'
<1>1. CASE ResumeTimeout
  BY <1>1, NextPhaseTyped DEF ResumeTimeout, Resumed, ToTop, TypeOK, active
<1>2. CASE ResumeSignal
  <2>1. CASE Adopt(ledState) /\ UNCHANGED <<remaining, phaseOn, blinkActive, ledState>>
    BY <1>2, <2>1, AdoptTyped DEF ResumeSignal, Resumed, ToTop, TypeOK
  <2>2. CASE NextPhase /\ UNCHANGED active
    BY <1>2, <2>2, NextPhaseTyped DEF ResumeSignal, Resumed, ToTop, TypeOK, active
  <2> QED
    BY <1>2, <2>1, <2>2 DEF ResumeSignal
<1>3. CASE ResumeSteady
  BY <1>3, LookAgainTyped DEF ResumeSteady
<1>4. CASE ResumeFailure
  BY <1>4 DEF ResumeFailure, Resumed, ToTop, TypeOK, active
<1> QED
  BY <1>1, <1>2, <1>3, <1>4 DEF Resume

LEMMA TypeStep == ASSUME TypeOK, Showing, [Next]_vars PROVE TypeOK'
<1> USE DEF settings, blink, active, phases
<1>1. CASE TopStop
  BY <1>1 DEF TopStop, TypeOK
<1>2. CASE Write
  <2>1. led' \in 0 .. MaxRaw
    BY <1>2, WrittenTyped DEF Write, TypeOK
  <2>2. timed' \in BOOLEAN
    BY <1>2 DEF Write
  <2> QED
    BY <1>2, <2>1, <2>2 DEF Write, TypeOK
<1>3. CASE Check
  BY <1>3, LookAgainTyped DEF Check
<1>4. CASE Timeout \/ WaitFailure \/ SpuriousWake
  BY <1>4 DEF Timeout, WaitFailure, SpuriousWake, WaitReturns, TypeOK
<1>5. CASE UNCHANGED vars
  BY <1>5 DEF vars, worker, TypeOK
<1> QED
  BY <1>1, <1>2, <1>3, <1>4, <1>5, CallTyped, TopTyped, ResumeTyped DEF Next

(***************************************************************************)
(* The actions                                                             *)
(***************************************************************************)

\* What a wait leaves alone, however it ends.
LEMMA ResumeEffect ==
  ASSUME Resume
  PROVE  /\ pc = "wait" /\ pc' \in {"wait", "top"}
         /\ UNCHANGED <<initialized, term, brightness, fpState, iterations,
                        requestId, resume, aRequest>>
         /\ NextPhase \/ UNCHANGED <<remaining, phaseOn, blinkActive, ledState>>
  BY DEF Resume, ResumeTimeout, ResumeSignal, ResumeSteady, ResumeFailure, Resumed,
         ToTop, LookAgain, settings, blink, phases

(***************************************************************************)
(* The state that a blink keeps                                            *)
(***************************************************************************)

\* A blink is over as soon as its state is resumed, and a state that is set
\* ends it.
LEMMA KeepsStateStep ==
  ASSUME TypeOK, BlinkKeepsState, [Next]_vars
  PROVE  BlinkKeepsState'
<1> USE DEF BlinkKeepsState, settings, blink
<1>1. CASE \/ dsFPInit \/ TermBegin \/ TermEnd
           \/ \E n \in Iterations : dsSetFPBlink(n)
           \/ \E level \in Levels : dsSetFPBrightness(level)
           \/ \E s \in {"ON", "OFF"} : dsSetFPState(s)
           \/ \E s \in Requested : dsFPSetLEDState(s)
  BY <1>1 DEF dsFPInit, TermBegin, TermEnd, dsSetFPBlink, dsSetFPBrightness,
              dsSetFPState, dsFPSetLEDState
<1>2. CASE Top
  BY <1>2 DEF Top, Shown
<1>3. CASE TopStop \/ Write \/ Check \/ Timeout \/ WaitFailure \/ SpuriousWake
  BY <1>3 DEF TopStop, Write, Check, LookAgain, Timeout, WaitFailure, SpuriousWake,
              WaitReturns
<1>4. CASE Resume
  BY <1>4, ResumeEffect DEF NextPhase
<1>5. CASE UNCHANGED vars
  BY <1>5 DEF vars
<1> QED
  BY <1>1, <1>2, <1>3, <1>4, <1>5 DEF Next

(***************************************************************************)
(* The phases of a blink                                                   *)
(***************************************************************************)

LEMMA CreatedStep ==
  ASSUME TypeOK, Created, [Next]_vars
  PROVE  Created'
<1> USE DEF Created, blink, phases
<1>1. CASE dsFPInit \/ TermBegin \/ TermEnd
  BY <1>1 DEF dsFPInit, TermBegin, TermEnd, TypeOK
<1>2. CASE \E n \in Iterations : dsSetFPBlink(n)
  BY <1>2, CallerAssumption DEF dsSetFPBlink, TypeOK
<1>3. CASE \/ \E level \in Levels : dsSetFPBrightness(level)
           \/ \E s \in {"ON", "OFF"} : dsSetFPState(s)
           \/ \E s \in Requested : dsFPSetLEDState(s)
  BY <1>3 DEF dsSetFPBrightness, dsSetFPState, dsFPSetLEDState, TypeOK
<1>4. CASE Top
  BY <1>4 DEF Top, TypeOK
<1>5. CASE TopStop \/ Write \/ Check \/ Timeout \/ WaitFailure \/ SpuriousWake
  BY <1>5 DEF TopStop, Write, Check, LookAgain, Timeout, WaitFailure, SpuriousWake,
              WaitReturns
<1>6. CASE Resume
  BY <1>6, ResumeEffect DEF NextPhase, TypeOK
<1>7. CASE UNCHANGED vars
  BY <1>7 DEF vars, worker
<1> QED
  BY <1>1, <1>2, <1>3, <1>4, <1>5, <1>6, <1>7 DEF Next

LEMMA Parity ==
  ASSUME NEW k \in Nat
  PROVE  /\ (2 * k) % 2 = 0
         /\ k > 0 => (((k - 1) % 2 = 0) <=> (k % 2 # 0))
  OBVIOUS

\* The phases that are left are even in number before a lit one.
Alternate ==
  /\ remaining <= 2 * iterations
  /\ phaseOn <=> remaining % 2 = 0
  /\ blinkActive => remaining > 0

LEMMA PhaseAlternates ==
  ASSUME TypeOK, Alternate, NextPhase, UNCHANGED iterations
  PROVE  Alternate'
<1>1. CASE mode = "blink"
  <2>1. /\ remaining' = AfterPhase
        /\ phaseOn' = IF remaining > 0 THEN ~phaseOn ELSE phaseOn
        /\ blinkActive' = (blinkActive /\ remaining' > 0)
    BY <1>1 DEF NextPhase
  <2>2. remaining \in Nat /\ iterations \in Nat /\ phaseOn \in BOOLEAN
    BY DEF TypeOK
  <2>3. CASE remaining > 0
    <3>1. remaining' = remaining - 1 /\ phaseOn' = ~phaseOn
      BY <2>1, <2>3 DEF AfterPhase
    <3>2. phaseOn' <=> remaining' % 2 = 0
      BY <2>2, <2>3, <3>1, Parity DEF Alternate
    <3>3. remaining' <= 2 * iterations
      BY <2>2, <3>1 DEF Alternate
    <3> QED
      BY <2>1, <3>2, <3>3 DEF Alternate
  <2>4. CASE ~(remaining > 0)
    <3>1. remaining = 0 /\ remaining' = 0 /\ phaseOn' = phaseOn
      BY <2>1, <2>2, <2>4 DEF AfterPhase
    <3>2. ~blinkActive'
      <4>1. ~(remaining' > 0)
        BY <3>1
      <4> QED
        BY <2>1, <4>1
    <3> QED
      BY <2>2, <3>1, <3>2 DEF Alternate
  <2> QED
    BY <2>3, <2>4
<1>2. CASE mode = "pattern"
  BY <1>2 DEF NextPhase, Alternate
<1> QED
  BY <1>1, <1>2 DEF NextPhase

LEMMA PhasesStep ==
  ASSUME TypeOK, Created, BlinkPhases, [Next]_vars
  PROVE  BlinkPhases'
<1> SUFFICES ASSUME aRequest' = requestId', requestId' > 0,
                    pc' \in {"top", "write", "check", "wait"}
             PROVE  Alternate'
  BY DEF BlinkPhases, Alternate
<1> USE DEF blink, phases
<1>1. CASE dsFPInit
  BY <1>1 DEF dsFPInit
<1>2. CASE TermBegin \/ TermEnd
  BY <1>2 DEF TermBegin, TermEnd, BlinkPhases, Alternate
<1>3. CASE \E n \in Iterations : dsSetFPBlink(n)
  BY <1>3 DEF dsSetFPBlink, Created, TypeOK
<1>4. CASE \/ \E level \in Levels : dsSetFPBrightness(level)
           \/ \E s \in {"ON", "OFF"} : dsSetFPState(s)
           \/ \E s \in Requested : dsFPSetLEDState(s)
  BY <1>4 DEF dsSetFPBrightness, dsSetFPState, dsFPSetLEDState, BlinkPhases,
              Alternate, TypeOK
<1>5. CASE Top
  <2>1. ~Spent
    BY <1>5 DEF Top
  <2>2. CASE Fresh
    <3>1. /\ remaining' = 2 * iterations /\ phaseOn' = TRUE
          /\ iterations' = iterations /\ iterations > 0
      BY <1>5, <2>1, <2>2 DEF Top, PhasesLeft, PhaseLit, Fresh, Created
    <3> QED
      BY <3>1, Parity DEF Alternate, TypeOK
  <2>3. CASE ~Fresh
    <3>1. /\ aRequest' = aRequest /\ remaining' = remaining
          /\ phaseOn' = phaseOn /\ (blinkActive' => blinkActive)
          /\ iterations' = iterations /\ requestId' = requestId /\ pc = "top"
      BY <1>5, <2>1, <2>3 DEF Top, PhasesLeft, PhaseLit, TypeOK
    <3> QED
      BY <3>1 DEF BlinkPhases, Alternate
  <2> QED
    BY <2>2, <2>3
<1>6. CASE TopStop \/ Write \/ Check \/ Timeout \/ WaitFailure \/ SpuriousWake
  BY <1>6 DEF TopStop, Write, Check, LookAgain, Timeout, WaitFailure, SpuriousWake,
              WaitReturns, BlinkPhases, Alternate
<1>7. CASE Resume
  <2>1. /\ UNCHANGED <<aRequest, requestId, iterations>>
        /\ pc = "wait"
        /\ NextPhase \/ UNCHANGED <<remaining, phaseOn, blinkActive>>
    BY <1>7, ResumeEffect
  <2>2. Alternate
    BY <2>1 DEF BlinkPhases, Alternate
  <2> QED
    BY <2>1, <2>2, PhaseAlternates DEF Alternate
<1>8. CASE UNCHANGED vars
  BY <1>8 DEF vars, worker, BlinkPhases, Alternate
<1> QED
  BY <1>1, <1>2, <1>3, <1>4, <1>5, <1>6, <1>7, <1>8 DEF Next

(***************************************************************************)
(* What a sleeping worker shows                                            *)
(***************************************************************************)

\* The head of the loop chooses for the settings that it adopts.
LEMMA TopShows == ASSUME TypeOK, Top PROVE Showing'
<1>1. /\ aState' = Shown /\ aBright' = brightness /\ aFp' = fpState /\ pc' = "write"
  BY DEF Top, Adopt
<1>2. CASE Blinking
  <2>1. mode' = "blink" /\ aFp' = "ON"
    BY <1>1, <1>2 DEF Top, Blinking, FpOn
  <2>2. raw' = IF PhaseLit THEN RawOf(brightness) ELSE 0
    BY <2>1 DEF Top
  <2> QED
    BY <1>1, <2>1, <2>2 DEF Showing, RawOf
<1>3. CASE ~Blinking /\ FpOn /\ PatternLen(Shown) > 0
  <2>1. mode' = "pattern" /\ aFp' = "ON"
    BY <1>1, <1>3 DEF Top, FpOn
  <2>2. raw' = IF phase' % 2 = 0 THEN RawOf(brightness) ELSE 0
    BY <2>1 DEF Top
  <2> QED
    BY <1>1, <1>3, <2>1, <2>2 DEF Showing, RawOf
<1>4. CASE ~Blinking /\ ~(FpOn /\ PatternLen(Shown) > 0)
  <2>1. mode' = "steady" /\ raw' = SteadyRaw(Shown, brightness, fpState)
    BY <1>4 DEF Top
  <2> QED
    BY <1>1, <2>1 DEF Showing, SteadyRaw, RawOf
<1> QED
  BY <1>2, <1>3, <1>4

\* Until the next look at the context nothing of this is touched but by dsFPInit
\* and dsFPTerm, which begin and end a worker.
LEMMA ShowingStep ==
  ASSUME TypeOK, Created, Showing, [Next]_vars
  PROVE  Showing'
<1> USE DEF active
<1>1. CASE dsFPInit \/ TermEnd
  <2>1. pc' \in {"top", "none"}
    BY <1>1 DEF dsFPInit, TermEnd
  <2> QED
    BY <2>1 DEF Showing
<1>2. ASSUME UNCHANGED <<pc, mode, raw, led, aState, aBright, aFp>>
      PROVE  Showing'
  BY <1>2 DEF Showing, SteadyRaw, RawOf, PatternLen
<1>3. CASE \/ TermBegin
           \/ \E n \in Iterations : dsSetFPBlink(n)
           \/ \E level \in Levels : dsSetFPBrightness(level)
           \/ \E s \in {"ON", "OFF"} : dsSetFPState(s)
           \/ \E s \in Requested : dsFPSetLEDState(s)
  BY <1>2, <1>3 DEF TermBegin, dsSetFPBlink, dsSetFPBrightness, dsSetFPState,
                    dsFPSetLEDState
<1>4. CASE Timeout \/ WaitFailure \/ SpuriousWake \/ UNCHANGED vars
  BY <1>2, <1>4 DEF Timeout, WaitFailure, SpuriousWake, WaitReturns, vars, worker
<1>5. CASE TopStop
  <2>1. pc' = "exited"
    BY <1>5 DEF TopStop
  <2> QED
    BY <2>1 DEF Showing
<1>6. CASE Write
  <2>1. /\ UNCHANGED <<mode, raw, aState, aBright, aFp>>
        /\ pc = "write" /\ pc' = "check" /\ (led' = raw' \/ Fails("write"))
    BY <1>6 DEF Write, WriteLed
  <2> QED
    BY <2>1 DEF Showing, SteadyRaw, RawOf, PatternLen, Fails
<1>7. CASE Check \/ ResumeSteady
  <2>1. /\ LookAgain /\ pc \in {"check", "wait"}
        /\ UNCHANGED <<mode, raw, led>>
    BY <1>7 DEF Check, ResumeSteady, LookAgain
  <2>2. CASE pc' = "top"
    BY <2>2 DEF Showing
  <2>3. CASE pc' # "top"
    <3>1. pc' = "wait" /\ ~Changed /\ ~stop
      BY <2>1, <2>3 DEF LookAgain, NothingNew
    <3>2. UNCHANGED <<aState, aBright, aFp>>
      BY <2>1, <3>1 DEF LookAgain, Adopt, Changed
    <3> QED
      BY <2>1, <3>1, <3>2 DEF Showing, SteadyRaw, RawOf, PatternLen, Fails
  <2> QED
    BY <2>2, <2>3
<1>8. CASE ResumeTimeout \/ ResumeSignal \/ ResumeFailure
  <2>1. pc' = "top"
    BY <1>8 DEF ResumeTimeout, ResumeSignal, ResumeFailure, ToTop
  <2> QED
    BY <2>1 DEF Showing
<1> QED
  BY <1>1, <1>3, <1>4, <1>5, <1>6, <1>7, <1>8, TopShows DEF Next, Resume

\* No call changes anything without waking a worker that sleeps.
LEMMA CallWakes ==
  ASSUME TypeOK, Created,
         \/ dsFPInit \/ TermBegin \/ TermEnd
         \/ \E n \in Iterations : dsSetFPBlink(n)
         \/ \E level \in Levels : dsSetFPBrightness(level)
         \/ \E s \in {"ON", "OFF"} : dsSetFPState(s)
         \/ \E s \in Requested : dsFPSetLEDState(s)
  PROVE  ~Asleep'
<1>1. CASE dsFPInit \/ TermEnd
  BY <1>1 DEF dsFPInit, TermEnd, Asleep
<1>2. CASE ~(dsFPInit \/ TermEnd)
  <2>1. Signal
    BY <1>2 DEF TermBegin, dsSetFPBlink, dsSetFPBrightness, dsSetFPState, dsFPSetLEDState
  <2> QED
    BY <2>1 DEF Signal, Asleep
<1> QED
  BY <1>1, <1>2

\* A worker that is about to sleep has looked at the settings.
LEMMA LooksBeforeSleep ==
  ASSUME TypeOK, Showing, LookAgain, pc \in {"check", "wait"}
  PROVE  AsleepAgrees'
<1> SUFFICES ASSUME Asleep' PROVE AsleepAgrees'
  BY DEF AsleepAgrees
<1>1. NothingNew
  BY DEF LookAgain, Asleep
<1>2. /\ UNCHANGED <<stop, ledState, brightness, fpState, blinkActive, mode, raw, led>>
      /\ UNCHANGED <<aState, aBright, aFp>>
  <2>1. UNCHANGED <<stop, ledState, brightness, fpState, blinkActive, mode, raw, led>>
    BY DEF LookAgain, settings, blink
  <2>2. ~Changed
    BY <1>1 DEF NothingNew
  <2>3. UNCHANGED <<aState, aBright, aFp>>
    BY <2>2 DEF LookAgain, Adopt, Changed, active
  <2> QED
    BY <2>1, <2>3
<1>3. aState = ledState /\ aBright = brightness /\ aFp = fpState /\ ~stop
  BY <1>1 DEF NothingNew, Changed
<1>4. /\ mode = "steady" => ~blinkActive /\ raw = SteadyRaw(ledState, brightness, fpState)
      /\ mode # "steady" => fpState = "ON" /\ raw \in {0, RawOf(brightness)}
      /\ Fails("write") \/ led = raw
  BY <1>1, <1>3 DEF Showing, NothingNew
<1> QED
  BY <1>2, <1>3, <1>4 DEF AsleepAgrees, Changed, SteadyRaw, RawOf, Fails

LEMMA AsleepStep ==
  ASSUME TypeOK, Created, Showing, AsleepAgrees, [Next]_vars
  PROVE  AsleepAgrees'
<1>1. CASE ~Asleep'
  BY <1>1 DEF AsleepAgrees
<1>2. CASE Check \/ ResumeSteady
  BY <1>2, LooksBeforeSleep DEF Check, ResumeSteady
<1>3. CASE TopStop \/ Top \/ Write \/ ResumeTimeout \/ ResumeSignal \/ ResumeFailure
  <2>1. ~Asleep'
    BY <1>3 DEF TopStop, Top, Write, ResumeTimeout, ResumeSignal, ResumeFailure,
                ToTop, Asleep
  <2> QED
    BY <1>1, <2>1
<1>4. CASE Timeout \/ WaitFailure \/ SpuriousWake
  <2>1. ~Asleep'
    BY <1>4 DEF Timeout, WaitFailure, SpuriousWake, WaitReturns, Asleep
  <2> QED
    BY <1>1, <2>1
<1>5. CASE UNCHANGED vars
  BY <1>5 DEF vars, worker, settings, blink, active, phases, AsleepAgrees, Asleep,
              Changed, SteadyRaw, RawOf, Fails
<1> QED
  BY <1>1, <1>2, <1>3, <1>4, <1>5, CallWakes DEF Next, Resume

(***************************************************************************)
(* The theorems                                                            *)
(***************************************************************************)

LEMMA Invariant == Spec => []IInv
<1>1. Init => IInv
  <2> SUFFICES ASSUME Init PROVE IInv
    OBVIOUS
  <2>1. Created /\ Showing /\ AsleepAgrees /\ BlinkKeepsState /\ BlinkPhases
    BY DEF Init, Created, Showing, AsleepAgrees, Asleep, BlinkKeepsState, BlinkPhases
  <2> QED
    BY <2>1, TypeInit DEF IInv
<1>2. IInv /\ [Next]_vars => IInv'
  BY TypeStep, CreatedStep, ShowingStep, AsleepStep, KeepsStateStep, PhasesStep
     DEF IInv
<1> QED
  BY <1>1, <1>2, PTL DEF Spec

\* Every variable keeps its type: nothing is written to the LED beyond its
\* max_brightness, and no pattern is left for one without phases.
THEOREM WellTyped == Spec => []TypeOK
  BY Invariant, PTL DEF IInv

\* No lost wakeup: whatever is called while the worker writes without the
\* mutex, it does not go to sleep on old settings, and the LED shows the current
\* ones while it sleeps.
THEOREM NoWakeupLost == Spec => []AsleepAgrees
  BY Invariant, PTL DEF IInv

\* While dsSetFPBlink's blink is active the LED state is the one that it will
\* resume, however it ends.
THEOREM StateKept == Spec => []BlinkKeepsState
  BY Invariant, PTL DEF IInv

\* A blink shows lit and dark phases in turn, two per iteration and no more, and
\* is inactive when none is left.
THEOREM PhasesCounted == Spec => []BlinkPhases
  BY Invariant, PTL DEF IInv
=============================================================================
