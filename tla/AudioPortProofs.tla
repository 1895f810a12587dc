-------------------------- MODULE AudioPortProofs ---------------------------
(***************************************************************************)
(* Theorems about AudioPort, for every range of the mixer, every set of    *)
(* levels and encodings, and whatever other programs do to the controls,   *)
(* and about AudioCards, for every order of the sound cards.               *)
(***************************************************************************)
EXTENDS AudioPort, AudioCards, WellFoundedInduction, TLAPS

\* The mixer has a volume above its lowest at three quarters of the range, and
\* dB values are not taken for percentages above 100.
Scale ==
  /\ MaxVol >= 2
  /\ DbRange[1] <= DbRange[2] /\ DbRange[2] <= 100

\* The sound card has the IEC958 control, and dsIsAudioMute does not fail.
Dependable == Control = TRUE /\ FaultOps = {}

(***************************************************************************)
(* The listener                                                            *)
(***************************************************************************)

\* Setting an encoding tells the listener whatever changes its format.
LEMMA SetEncodingTells ==
  ASSUME NEW e, ListenerKnows, SetEncoding(e)
  PROVE  ListenerKnows'
  BY DEF ListenerKnows, SetEncoding, MustTell

\* Every step keeps what the listener knows.
LEMMA ListenerStep == ListenerKnows /\ [Next]_vars => ListenerKnows'
<1> SUFFICES ASSUME ListenerKnows, [Next]_vars PROVE ListenerKnows'
  OBVIOUS
<1>1. CASE dsAudioPortInit \/ dsAudioPortTerm \/ dsAudioFormatUpdateRegisterCB
  BY <1>1 DEF ListenerKnows, dsAudioPortInit, dsAudioPortTerm,
              dsAudioFormatUpdateRegisterCB, coding
<1>2. CASE dsSetAudioEncoding
  BY <1>2, SetEncodingTells DEF dsSetAudioEncoding
<1>3. CASE \E compressed \in BOOLEAN : dsSetAudioCompression(compressed)
  BY <1>3, SetEncodingTells DEF dsSetAudioCompression
<1>4. CASE \E mode \in {"STEREO", "DD", "DDPLUS", "PASSTHRU"} : dsSetStereoMode(mode)
  BY <1>4, SetEncodingTells DEF dsSetStereoMode
<1>5. CASE dsGetAudioEncoding
  BY <1>5 DEF ListenerKnows, dsGetAudioEncoding
<1>6. CASE \E mute \in BOOLEAN : dsSetAudioMute(mute)
  BY <1>6 DEF ListenerKnows, dsSetAudioMute, coding
<1>7. CASE \E p \in Ports, enabled \in BOOLEAN : dsEnableAudioPort(p, enabled)
  BY <1>7 DEF ListenerKnows, dsEnableAudioPort, coding
<1>8. CASE \E percent \in Percents : dsSetAudioGain(percent) \/ dsSetAudioLevel(percent)
  <2>1. \A percent : dsSetAudioGain(percent) => ListenerKnows'
    BY DEF ListenerKnows, dsSetAudioGain, coding
  <2>2. \A percent : dsSetAudioLevel(percent) => ListenerKnows'
    BY DEF ListenerKnows, dsSetAudioLevel, coding
  <2> QED
    BY <1>8, <2>1, <2>2
<1>9. CASE \E db \in {DbRange[1], DbRange[2]} : dsSetAudioDB(db)
  BY <1>9 DEF ListenerKnows, dsSetAudioDB, coding
<1>10. CASE Meddle
  BY <1>10 DEF ListenerKnows, Meddle
<1>11. CASE UNCHANGED vars
  BY <1>11 DEF ListenerKnows, vars, coding
<1> QED
  BY <1>1, <1>2, <1>3, <1>4, <1>5, <1>6, <1>7, <1>8, <1>9, <1>10, <1>11 DEF Next

\* A listener that was told a format knows the current one, whichever of the
\* setters of dsAudio.c has changed it, until a query refreshes the cache.
THEOREM ListenerInformed == Spec => []ListenerKnows
<1>1. Init => ListenerKnows
  BY DEF Init, ListenerKnows
<1> QED
  BY <1>1, ListenerStep, PTL DEF Spec

(***************************************************************************)
(* Mute                                                                    *)
(***************************************************************************)

\* MuteHolds, and that only an element that was found can have been muted.
MuteInv ==
  /\ MuteHolds
  /\ asked => HasElement
  /\ mixer \in {"softvol", "switch", "none"}

LEMMA SetMuteMutes ==
  ASSUME NEW mute \in BOOLEAN, MuteInv, HasElement, SetMute(mute),
         UNCHANGED mixer
  PROVE  MuteInv'
  BY DEF MuteInv, MuteHolds, HasElement, IsMute, SetMute, Mute, Unmute

\* With the IEC958 control the encoding is not set through the mute switch.
LEMMA SetEncodingKeepsMute ==
  ASSUME NEW e, Dependable, MuteInv, SetEncoding(e)
  PROVE  MuteInv'
  BY DEF Dependable, MuteInv, MuteHolds, HasElement, IsMute, SetEncoding,
         SetPassthrough

LEMMA MuteStep == ASSUME Dependable PROVE MuteInv /\ [Next]_vars => MuteInv'
<1> SUFFICES ASSUME MuteInv, [Next]_vars PROVE MuteInv'
  OBVIOUS
<1> USE DEF MuteInv, MuteHolds, HasElement, IsMute
<1>1. CASE dsAudioPortInit \/ dsAudioPortTerm \/ dsAudioFormatUpdateRegisterCB
  BY <1>1 DEF dsAudioPortInit, dsAudioPortTerm, dsAudioFormatUpdateRegisterCB,
              sound
<1>2. CASE dsSetAudioEncoding
  BY <1>2, SetEncodingKeepsMute, Dependable DEF dsSetAudioEncoding
<1>3. CASE \E compressed \in BOOLEAN : dsSetAudioCompression(compressed)
  BY <1>3, SetEncodingKeepsMute, Dependable DEF dsSetAudioCompression
<1>4. CASE \E mode \in {"STEREO", "DD", "DDPLUS", "PASSTHRU"} : dsSetStereoMode(mode)
  BY <1>4, SetEncodingKeepsMute, Dependable DEF dsSetStereoMode
<1>5. CASE dsGetAudioEncoding
  BY <1>5 DEF dsGetAudioEncoding, sound
<1>6. CASE \E mute \in BOOLEAN : dsSetAudioMute(mute)
  BY <1>6, SetMuteMutes DEF dsSetAudioMute
<1>7. CASE \E p \in Ports, enabled \in BOOLEAN : dsEnableAudioPort(p, enabled)
  <2> PICK p \in Ports, enabled \in BOOLEAN : dsEnableAudioPort(p, enabled)
    BY <1>7
  <2>1. CASE HasElement
    <3>1. (~enabled) \in BOOLEAN
      OBVIOUS
    <3> QED
      BY <2>1, <3>1, SetMuteMutes DEF dsEnableAudioPort
  <2>2. CASE ~HasElement
    BY <2>2 DEF dsEnableAudioPort, sound
  <2> QED
    BY <2>1, <2>2
<1>8. CASE \E percent \in Percents : dsSetAudioGain(percent) \/ dsSetAudioLevel(percent)
  <2>1. CASE \E percent \in Percents : dsSetAudioGain(percent)
    BY <2>1 DEF Dependable, dsSetAudioGain, Remutes, Mute
  <2>2. CASE \E percent \in Percents : dsSetAudioLevel(percent)
    BY <2>2 DEF dsSetAudioLevel, Loud
  <2> QED
    BY <1>8, <2>1, <2>2
<1>9. CASE \E db \in {DbRange[1], DbRange[2]} : dsSetAudioDB(db)
  BY <1>9 DEF dsSetAudioDB, Loud
<1>10. CASE Meddle
  BY <1>10 DEF Meddle, Loud, sound
<1>11. CASE UNCHANGED vars
  BY <1>11 DEF vars, sound
<1> QED
  BY <1>1, <1>2, <1>3, <1>4, <1>5, <1>6, <1>7, <1>8, <1>9, <1>10, <1>11 DEF Next

\* What the client has muted stays mute through every sequence of calls, until
\* a call or another program raises the volume itself.
THEOREM MuteKept == ASSUME Dependable PROVE Spec => []MuteHolds
<1>1. Init => MuteInv
  BY DEF Init, MuteInv, MuteHolds
<1>2. MuteInv /\ [Next]_vars => MuteInv'
  BY MuteStep, Dependable
<1>3. MuteInv => MuteHolds
  BY DEF MuteInv
<1> QED
  BY <1>1, <1>2, <1>3, PTL DEF Spec

(***************************************************************************)
(* The volume                                                              *)
(***************************************************************************)

\* Every percentage gives a volume in the range of the mixer.
LEMMA VolumeInRange ==
  ASSUME NEW percent \in 0 .. 100
  PROVE  VolumeOf(percent) \in 0 .. MaxVol
<1>1. MaxVol \in Nat
  BY AlsaAssumption
<1>2. percent * MaxVol \in 0 .. 100 * MaxVol
  <2>1. percent * MaxVol >= 0
    BY <1>1
  <2>2. (100 - percent) * MaxVol >= 0
    BY <1>1
  <2> QED
    BY <1>1, <2>1, <2>2
<1> DEFINE v == percent * MaxVol
<1>3. v \in 0 .. 100 * MaxVol
  BY <1>2
<1> HIDE DEF v
<1>4. v \div 100 \in 0 .. MaxVol
  BY <1>1, <1>3
<1> QED
  BY <1>4 DEF VolumeOf, v

\* What an unmute sets is a volume that can be heard.
LEMMA TargetHeard ==
  ASSUME Scale, saved \in -1 .. MaxVol
  PROVE  Target \in 1 .. MaxVol
  BY AlsaAssumption DEF Scale, Target

Volumes ==
  /\ TypeOK
  /\ UnmuteRestores
  /\ wanted # 0

LEMMA SetEncodingTyped ==
  ASSUME Volumes, NEW e \in AllEncodings, SetEncoding(e)
  PROVE  Volumes'
<1>1. dsFormatFromEncoding(e) \in Formats
  BY DEF AllEncodings, dsFormatFromEncoding, Formats
<1>2. Compressed(e) \in BOOLEAN
  BY DEF Compressed
<1>3. UnmuteRestores' /\ (wanted # 0)'
  BY DEF Volumes, SetEncoding, SetPassthrough, UnmuteRestores, Target
<1>4. TypeOK'
  BY <1>1, <1>2 DEF Volumes, TypeOK, SetEncoding, SetPassthrough, MustTell
<1> QED
  BY <1>3, <1>4 DEF Volumes

\* Muting from a volume in range, or unmuting.
LEMMA MuteTyped ==
  ASSUME Volumes, NEW v \in 0 .. MaxVol, Mute(v),
         UNCHANGED <<initialized, formatCb, mixer, coding>>,
         portEnabled' \in [Ports -> BOOLEAN]
  PROVE  Volumes'
<1> USE AlsaAssumption
<1>1. TypeOK'
  BY DEF Volumes, TypeOK, Mute, SavedFrom, coding
<1>2. (wanted # 0)'
  BY DEF Volumes, Mute
<1>3. UnmuteRestores'
  <2>1. CASE mixer # "softvol"
    BY <2>1 DEF UnmuteRestores
  <2>2. CASE mixer = "softvol" /\ v = 0
    BY <2>2 DEF Volumes, UnmuteRestores, Mute, SavedFrom, Target
  <2>3. CASE mixer = "softvol" /\ v > 0
    BY <2>3 DEF UnmuteRestores, Mute, SavedFrom, Target
  <2> QED
    BY <2>1, <2>2, <2>3
<1> QED
  BY <1>1, <1>2, <1>3 DEF Volumes

LEMMA UnmuteTyped ==
  ASSUME Scale, Volumes, Unmute,
         UNCHANGED <<initialized, formatCb, mixer, coding>>,
         portEnabled' \in [Ports -> BOOLEAN]
  PROVE  Volumes'
<1>1. Target \in 1 .. MaxVol
  BY TargetHeard DEF Volumes, TypeOK
<1>2. volume' \in 0 .. MaxVol /\ switch' \in BOOLEAN
  <2>1. volume' \in 0 .. MaxVol
    BY <1>1, AlsaAssumption DEF Volumes, TypeOK, Unmute
  <2> QED
    BY <2>1 DEF Unmute
<1>3. TypeOK'
  <2>1. -1 \in -1 .. MaxVol /\ wanted' = -1 /\ asked' = FALSE /\ saved' = saved
    BY AlsaAssumption DEF Unmute
  <2>2. UNCHANGED <<initialized, formatCb, mixer, encoding, nonAudio, heard, refreshed>>
    BY DEF coding
  <2> QED
    BY <1>2, <2>1, <2>2 DEF Volumes, TypeOK
<1> QED
  BY <1>1, <1>3 DEF Volumes, Unmute, UnmuteRestores, Target

LEMMA LoudTyped ==
  ASSUME Volumes, NEW v \in 0 .. MaxVol, volume' = v, wanted' = -1,
         UNCHANGED <<initialized, formatCb, portEnabled, mixer, switch, saved>>,
         asked' \in BOOLEAN,
         UNCHANGED <<encoding, heard, refreshed>>, nonAudio' \in BOOLEAN
  PROVE  Volumes'
  BY AlsaAssumption DEF Volumes, TypeOK, UnmuteRestores, Target

LEMMA VolumesStep == ASSUME Scale PROVE Volumes /\ [Next]_vars => Volumes'
<1> SUFFICES ASSUME Volumes, [Next]_vars PROVE Volumes'
  OBVIOUS
<1> USE AlsaAssumption
<1>0. TypeOK
  BY DEF Volumes
<1>1. CASE dsAudioPortInit \/ dsAudioPortTerm \/ dsAudioFormatUpdateRegisterCB
  <2>1. TypeOK'
    BY <1>0, <1>1 DEF TypeOK, dsAudioPortInit, dsAudioPortTerm,
       dsAudioFormatUpdateRegisterCB, coding, sound
  <2> QED
    BY <1>1, <2>1 DEF Volumes, UnmuteRestores, Target, dsAudioPortInit,
       dsAudioPortTerm, dsAudioFormatUpdateRegisterCB, sound
<1>2. CASE dsSetAudioEncoding
  BY <1>2, SetEncodingTyped, CallerAssumption DEF dsSetAudioEncoding
<1>3. CASE \E compressed \in BOOLEAN : dsSetAudioCompression(compressed)
  BY <1>3, SetEncodingTyped DEF dsSetAudioCompression, AllEncodings
<1>4. CASE \E mode \in {"STEREO", "DD", "DDPLUS", "PASSTHRU"} : dsSetStereoMode(mode)
  BY <1>4, SetEncodingTyped DEF dsSetStereoMode, AllEncodings
<1>5. CASE dsGetAudioEncoding
  <2>1. EncodingRead \in AllEncodings \ {"DISPLAY"}
    BY <1>0 DEF TypeOK, EncodingRead, FromSwitch, AllEncodings
  <2>2. TypeOK'
    BY <1>0, <1>5, <2>1 DEF TypeOK, dsGetAudioEncoding, sound
  <2> QED
    BY <1>5, <2>2 DEF Volumes, UnmuteRestores, Target, dsGetAudioEncoding, sound
<1>6. CASE \E mute \in BOOLEAN : dsSetAudioMute(mute)
  BY <1>0, <1>6, MuteTyped, UnmuteTyped, Scale DEF TypeOK, dsSetAudioMute, SetMute
<1>7. CASE \E p \in Ports, enabled \in BOOLEAN : dsEnableAudioPort(p, enabled)
  <2> PICK p \in Ports, enabled \in BOOLEAN : dsEnableAudioPort(p, enabled)
    BY <1>7
  <2>1. portEnabled' \in [Ports -> BOOLEAN]
    BY <1>0 DEF TypeOK, dsEnableAudioPort
  <2>2. CASE HasElement
    BY <1>0, <2>1, <2>2, MuteTyped, UnmuteTyped, Scale
       DEF TypeOK, dsEnableAudioPort, SetMute
  <2>3. CASE ~HasElement
    <3>1. TypeOK'
      BY <1>0, <2>1, <2>3 DEF TypeOK, dsEnableAudioPort, coding, sound
    <3> QED
      BY <2>3, <3>1 DEF Volumes, UnmuteRestores, Target, dsEnableAudioPort, sound
  <2> QED
    BY <2>2, <2>3
<1>8. CASE \E percent \in Percents : dsSetAudioGain(percent) \/ dsSetAudioLevel(percent)
  <2> PICK percent \in Percents : dsSetAudioGain(percent) \/ dsSetAudioLevel(percent)
    BY <1>8
  <2>1. VolumeOf(percent) \in 0 .. MaxVol
    BY VolumeInRange, CallerAssumption
  <2>2. CASE dsSetAudioGain(percent) /\ Mute(VolumeOf(percent))
    BY <1>0, <2>1, <2>2, MuteTyped DEF TypeOK, dsSetAudioGain
  <2>3. CASE dsSetAudioGain(percent) /\ ~Mute(VolumeOf(percent))
    BY <1>0, <2>1, <2>3, LoudTyped DEF TypeOK, dsSetAudioGain, coding
  <2>4. CASE dsSetAudioLevel(percent)
    BY <1>0, <2>1, <2>4, LoudTyped DEF TypeOK, dsSetAudioLevel, Loud, coding
  <2> QED
    BY <2>2, <2>3, <2>4
<1>9. CASE \E db \in {DbRange[1], DbRange[2]} : dsSetAudioDB(db)
  <2> PICK db \in {DbRange[1], DbRange[2]} : dsSetAudioDB(db)
    BY <1>9
  <2>1. Clamped(db) \in 0 .. 100
    <3>1. DbRange[1] \in Int /\ DbRange[2] \in Int
      OBVIOUS
    <3> QED
      BY <3>1, Scale DEF Scale, Clamped, dsSetAudioDB
  <2>2. VolumeOf(Clamped(db)) \in 0 .. MaxVol
    BY <2>1, VolumeInRange
  <2> QED
    BY <1>0, <2>2, LoudTyped DEF TypeOK, dsSetAudioDB, Loud, coding
<1>10. CASE Meddle
  <2>1. CASE Loud(MaxVol) /\ UNCHANGED nonAudio
    <3>1. MaxVol \in 0 .. MaxVol
      OBVIOUS
    <3>2. volume' = MaxVol /\ wanted' = -1 /\ asked' = FALSE
      BY <2>1 DEF Loud
    <3>3. UNCHANGED <<initialized, formatCb, portEnabled, mixer, switch, saved>>
      BY <1>10, <2>1 DEF Meddle, Loud
    <3>4. UNCHANGED <<encoding, heard, refreshed>> /\ nonAudio' \in BOOLEAN
      BY <1>0, <1>10, <2>1 DEF Meddle, TypeOK
    <3> QED
      BY <3>1, <3>2, <3>3, <3>4, LoudTyped
  <2>2. CASE nonAudio' = ~nonAudio /\ UNCHANGED sound
    <3>1. TypeOK'
      BY <1>0, <1>10, <2>2 DEF TypeOK, Meddle, sound
    <3> QED
      BY <1>10, <2>2, <3>1 DEF Volumes, UnmuteRestores, Target, Meddle, sound
  <2> QED
    BY <1>10, <2>1, <2>2 DEF Meddle
<1>11. CASE UNCHANGED vars
  <2>1. TypeOK'
    BY <1>0, <1>11 DEF TypeOK, vars, coding, sound
  <2> QED
    BY <1>11, <2>1 DEF Volumes, UnmuteRestores, Target, vars, coding, sound
<1> QED
  BY <1>1, <1>2, <1>3, <1>4, <1>5, <1>6, <1>7, <1>8, <1>9, <1>10, <1>11 DEF Next

LEMMA VolumesAlways == ASSUME Scale PROVE Spec => []Volumes
<1>1. Init => Volumes
  <2> SUFFICES ASSUME Init PROVE Volumes
    OBVIOUS
  <2>1. TypeOK
    <3>1. MaxVol \in 0 .. MaxVol /\ 0 \in 0 .. MaxVol /\ -1 \in -1 .. MaxVol
      BY AlsaAssumption
    <3>2. encoding \in AllEncodings \ {"DISPLAY"} /\ heard \in Formats \cup {"nothing"}
      BY DEF Init, AllEncodings
    <3> QED
      BY <3>1, <3>2 DEF Init, TypeOK
  <2>2. Target \in 1 .. MaxVol
    BY <2>1, TargetHeard, Scale DEF TypeOK
  <2> QED
    BY <2>1, <2>2 DEF Init, Volumes, UnmuteRestores
<1>2. Volumes /\ [Next]_vars => Volumes'
  BY VolumesStep, Scale
<1> QED
  BY <1>1, <1>2, PTL DEF Spec

\* Every volume the library sets is in the range of the mixer, and the cached
\* encoding is never DISPLAY.
THEOREM WellTyped == ASSUME Scale PROVE Spec => []TypeOK
<1>1. Volumes => TypeOK
  BY DEF Volumes
<1> QED
  BY <1>1, VolumesAlways, Scale, PTL

\* An unmute gives back the volume from before the mute, or the gain set
\* during it, and one that can be heard in any case.
THEOREM VolumeRestored == ASSUME Scale PROVE Spec => []UnmuteRestores
<1>1. Volumes => UnmuteRestores
  BY DEF Volumes
<1> QED
  BY <1>1, VolumesAlways, Scale, PTL

\* What dsEnableAudioPort has set is what dsIsAudioPortEnabled then reports,
\* whether the port is muted by a switch, by its volume or not at all.
THEOREM EnableTold == ASSUME Scale PROVE Spec => EnableReported
<1>1. ASSUME Volumes, NEW p \in Ports, NEW enabled \in BOOLEAN,
             dsEnableAudioPort(p, enabled)
      PROVE  IsEnabled(p)' = enabled
  <2>1. TypeOK /\ Target \in 1 .. MaxVol
    BY <1>1, TargetHeard, Scale DEF Volumes, TypeOK
  <2>2. CASE ~HasElement
    BY <1>1, <2>1, <2>2 DEF TypeOK, dsEnableAudioPort, IsEnabled, HasElement
  <2>3. CASE HasElement /\ enabled
    <3>1. Unmute /\ mixer' = mixer
      BY <1>1, <2>3 DEF dsEnableAudioPort, SetMute
    <3>2. CASE mixer = "softvol"
      <4>1. volume' = Target /\ Target # 0
        BY <2>1, <3>1, <3>2, AlsaAssumption DEF Unmute
      <4> QED
        BY <2>3, <3>1, <3>2, <4>1 DEF IsEnabled, HasElement, IsMute
    <3>3. CASE mixer = "switch"
      BY <2>3, <3>1, <3>3 DEF IsEnabled, HasElement, IsMute, Unmute
    <3> QED
      BY <2>1, <2>3, <3>2, <3>3 DEF TypeOK, HasElement
  <2>4. CASE HasElement /\ ~enabled
    BY <1>1, <2>1, <2>4 DEF TypeOK, dsEnableAudioPort, IsEnabled, HasElement,
       SetMute, Mute, IsMute
  <2> QED
    BY <2>2, <2>3, <2>4
<1>2. Volumes /\ [Next]_vars =>
        [\A p \in Ports, enabled \in BOOLEAN :
           dsEnableAudioPort(p, enabled) => IsEnabled(p)' = enabled]_vars
  BY <1>1
<1> QED
  BY <1>2, VolumesAlways, Scale, PTL DEF Spec, EnableReported

\* What was set as a stereo mode or a compression is what the queries answer,
\* whether the non-audio bit or the mixer switch holds it.
THEOREM ModesTold == Spec => ModeReadsBack
<1>1. ASSUME NEW e \in {"PCM", "AC3", "EAC3"}, SetEncoding(e)
      PROVE  EncodingRead' = e
  <2>1. Passthrough' = Compressed(e) /\ encoding' = e /\ HasPassthrough'
    BY <1>1 DEF SetEncoding, SetPassthrough, Passthrough, HasPassthrough
  <2> QED
    BY <2>1 DEF EncodingRead, FromSwitch, Compressed
<1>2. ASSUME NEW mode \in {"STEREO", "DD", "DDPLUS"}, dsSetStereoMode(mode)
      PROVE  StereoModeOf(EncodingRead') = mode
  <2>1. CASE mode = "STEREO"
    BY <1>1, <1>2, <2>1 DEF dsSetStereoMode, StereoModeOf
  <2>2. CASE mode = "DD"
    BY <1>1, <1>2, <2>2 DEF dsSetStereoMode, StereoModeOf
  <2>3. CASE mode = "DDPLUS"
    BY <1>1, <1>2, <2>3 DEF dsSetStereoMode, StereoModeOf
  <2> QED
    BY <2>1, <2>2, <2>3
<1>3. ASSUME NEW compressed \in BOOLEAN, dsSetAudioCompression(compressed)
      PROVE  CompressionOf(EncodingRead') = compressed
  BY <1>1, <1>3 DEF dsSetAudioCompression, CompressionOf
<1>4. [Next]_vars =>
        [/\ \A mode \in {"STEREO", "DD", "DDPLUS"} :
              dsSetStereoMode(mode) => StereoModeOf(EncodingRead') = mode
         /\ \A compressed \in BOOLEAN :
              dsSetAudioCompression(compressed)
                => CompressionOf(EncodingRead') = compressed]_vars
  BY <1>2, <1>3
<1> QED
  BY <1>4, PTL DEF Spec, ModeReadsBack

(***************************************************************************)
(* Reading back                                                            *)
(***************************************************************************)

\* What division gives.
LEMMA Quotient ==
  ASSUME NEW x \in Nat, NEW d \in Nat \ {0}
  PROVE  /\ x \div d \in Nat
         /\ d * (x \div d) <= x /\ x < d * (x \div d) + d
  OBVIOUS

\* The mixer has a volume for every percentage (config/asound.conf: resolution
\* 256).
Fine == MaxVol >= 100

\* Two roundings lose one percent at most.
LEMMA LevelRounds ==
  ASSUME Fine, NEW percent \in 0 .. 100
  PROVE  LevelOf(VolumeOf(percent)) - percent \in -1 .. 1
<1> DEFINE M == MaxVol
           v == VolumeOf(percent)
           l == LevelOf(v)
<1>1. M \in Nat /\ M >= 100
  BY AlsaAssumption DEF Fine
<1>2. v \in 0 .. M
  BY VolumeInRange
<1>3. percent * M \in Nat
  BY <1>1
<1>4. 100 * v <= percent * M /\ percent * M < 100 * v + 100
  BY <1>3, Quotient DEF VolumeOf
<1>5. 200 * v + M \in Nat /\ 2 * M \in Nat \ {0}
  BY <1>1, <1>2
<1>6. l = (200 * v + M) \div (2 * M)
  BY DEF LevelOf
<1>7. l \in Nat /\ 2 * M * l <= 200 * v + M /\ 200 * v + M < 2 * M * l + 2 * M
  BY <1>5, <1>6, Quotient
<1> HIDE DEF M, v, l
<1>8. l - percent < 1
  <2> SUFFICES ASSUME l >= percent + 1 PROVE FALSE
    BY <1>7
  <2>1. M * l >= M * (percent + 1)
    BY <1>1, <1>7
  <2> QED
    BY <1>1, <1>2, <1>3, <1>4, <1>7, <2>1
<1>9. l - percent > -2
  <2> SUFFICES ASSUME l + 2 <= percent PROVE FALSE
    BY <1>7
  <2>1. M * (l + 2) <= M * percent
    BY <1>1, <1>7
  <2> QED
    BY <1>1, <1>2, <1>3, <1>4, <1>7, <2>1
<1> QED
  BY <1>7, <1>8, <1>9 DEF l, v

\* What was set as a level, or as a gain of a port that was not mute, reads
\* back to within one percent, through two roundings.
THEOREM LevelsTold == ASSUME Fine PROVE Spec => LevelReadsBack
<1>1. ASSUME NEW percent \in Percents,
             dsSetAudioLevel(percent) \/ (dsSetAudioGain(percent) /\ ~IsMute)
      PROVE  LevelOf(volume') - percent \in -1 .. 1
  <2>1. volume' = VolumeOf(percent)
    BY <1>1 DEF dsSetAudioLevel, dsSetAudioGain, Remutes, Loud
  <2> QED
    BY <2>1, CallerAssumption, LevelRounds, Fine
<1>2. [Next]_vars =>
        [\A percent \in Percents :
           dsSetAudioLevel(percent) \/ (dsSetAudioGain(percent) /\ ~IsMute)
             => LevelOf(volume') - percent \in -1 .. 1]_vars
  BY <1>1
<1> QED
  BY <1>2, PTL DEF Spec, LevelReadsBack

\* What a call that succeeds has set is what the queries of it answer.
THEOREM SettersTold ==
  ASSUME Scale, Fine
  PROVE  Spec => SettersReadBack
BY EnableTold, LevelsTold, ModesTold, Scale, Fine, PTL DEF SettersReadBack

(***************************************************************************)
(* The card and its element                                                *)
(***************************************************************************)

Candidates == {"hw:vc4hdmi0", "hw:vc4hdmi1", "hw:0", "hw:1"}

\* What is known of the selection.
Selected ==
  /\ order \in Seq(Cards)
  /\ muted \in BOOLEAN
  /\ selected \in Candidates \cup {None}
  /\ soft => Contains(order, "hdmi0")
  /\ selected = None => silent = {} /\ ~muted
  /\ selected # None /\ ~blind => HasIec958(selected)

\* MuteFollows with the selection it rests on: a card selected for its control.
CardsInv == Selected /\ MuteFollows

\* A non-empty set of numbers has a least one, and Min is it.
LEMMA LeastOf ==
  ASSUME NEW I \in SUBSET Nat, I # {}
  PROVE  Min(I) \in I /\ \A j \in I : Min(I) =< j
<1>1. PICK m \in I : \A j \in I : ~(<<j, m>> \in OpToRel(<, Nat))
  BY NatLessThanWellFounded, WFMin
<1>2. \A j \in I : ~(j < m)
  BY <1>1 DEF OpToRel
<1>3. \A j \in I : m =< j
  BY <1>2
<1> QED
  BY <1>3 DEF Min

\* FirstUsable gives a candidate, one with the control if any has it, and the
\* first if that has it.
LEMMA FirstUsableFacts ==
  ASSUME NEW seq, Len(seq) \in Nat
  PROVE  /\ \E j \in 1 .. Len(seq) \cup {1} : FirstUsable(seq) = seq[j]
         /\ (\E i \in 1 .. Len(seq) : HasIec958(seq[i])) => HasIec958(FirstUsable(seq))
         /\ Len(seq) > 0 /\ HasIec958(seq[1]) => FirstUsable(seq) = seq[1]
<1> DEFINE I == {j \in 1 .. Len(seq) : HasIec958(seq[j])}
<1>1. FirstUsable(seq) = seq[IF I = {} THEN 1 ELSE Min(I)]
  BY DEF FirstUsable
<1>2. ASSUME I # {} PROVE Min(I) \in I /\ \A j \in I : Min(I) =< j
  <2>1. I \in SUBSET Nat
    OBVIOUS
  <2> HIDE DEF I
  <2> QED
    BY <1>2, <2>1, LeastOf
<1>3. 1 \in I => I # {} /\ Min(I) = 1
  BY <1>2
<1>4. Len(seq) > 0 /\ HasIec958(seq[1]) => 1 \in I
  OBVIOUS
<1>5. I # {} => HasIec958(seq[Min(I)]) /\ Min(I) \in 1 .. Len(seq)
  BY <1>2
<1> QED
  BY <1>1, <1>3, <1>4, <1>5

\* What is preferred is one of the candidates.
LEMMA PreferredCandidate == FirstUsable(hdmiCardCandidates) \in Candidates
<1>1. Len(hdmiCardCandidates) = 4
    BY DEF hdmiCardCandidates
<1>2. PICK j \in 1 .. 4 : FirstUsable(hdmiCardCandidates) = hdmiCardCandidates[j]
  BY <1>1, FirstUsableFacts
<1> QED
  BY <1>2 DEF hdmiCardCandidates, Candidates


(***************************************************************************)
(* Cards keep their names and numbers                                      *)
(***************************************************************************)

\* SoftMaster is found under the name "default" wherever it is.
LEMMA SoftFound ==
  ASSUME NEW s \in Candidates, soft => Contains(order, "hdmi0")
  PROVE  (\E n \in ToSet(softvolCandidates(s)) : HasSoftMaster(n)) <=> soft
<1>1. "default" \in ToSet(softvolCandidates(s))
  <2>1. softvolCandidates(s)[1] = "default" /\ 1 \in DOMAIN softvolCandidates(s)
    BY DEF softvolCandidates
  <2> QED
    BY <2>1 DEF ToSet
<1>2. soft => HasSoftMaster("default")
  BY DEF HasSoftMaster, CardOf, Registered
<1>3. \A n : HasSoftMaster(n) => soft
  BY DEF HasSoftMaster
<1> QED
  BY <1>1, <1>2, <1>3

\* The card that was selected for its IEC958 control is the one in use.
LEMMA OwnElement ==
  ASSUME NEW s \in Candidates, HasIec958(s), soft => Contains(order, "hdmi0")
  PROVE  MixerElem(s) = IF soft THEN "SoftMaster" ELSE CardOf(s)
<1> DEFINE seq == <<s>> \o hdmiCardCandidates
<1>1. Len(seq) = 5 /\ seq[1] = s
  BY DEF hdmiCardCandidates
<1>2. FirstUsable(seq) = s
  <2> HIDE DEF seq
  <2> QED
    BY <1>1, FirstUsableFacts
<1> QED
  BY <1>2, SoftFound DEF MixerElem

\* A card that was found once is found again after others have come.
LEMMA NamesStay ==
  ASSUME order \in Seq(Cards), NEW c \in Cards, order' = Append(order, c),
         NEW n \in Candidates, CardOf(n) \in Hdmi
  PROVE  CardOf(n)' = CardOf(n)
<1>1. Len(order) \in Nat /\ Len(order') = Len(order) + 1
  OBVIOUS
<1>2. \A i \in 1 .. Len(order) : order'[i] = order[i]
  OBVIOUS
<1>3. \A d : Contains(order, d) => Contains(order, d)'
  BY <1>1, <1>2 DEF Contains
<1>4. None \notin Hdmi
  BY DEF None, Hdmi, Cards
<1>5. CASE n \in {"hw:vc4hdmi0", "hw:vc4hdmi1"}
  BY <1>3, <1>4, <1>5 DEF CardOf, Registered
<1>6. CASE n \in {"hw:0", "hw:1"}
  BY <1>1, <1>2, <1>4, <1>6 DEF CardOf, Numbered
<1> QED
  BY <1>5, <1>6 DEF Candidates

\* A card with the control is preferred whenever an HDMI card is registered.
LEMMA PreferredHas ==
  ASSUME order \in Seq(Cards), Usable
  PROVE  HasIec958(FirstUsable(hdmiCardCandidates))
<1>1. PICK c \in Hdmi : c \in ToSet(order)
  BY DEF Usable
<1>2. Contains(order, c)
  BY <1>1 DEF ToSet, Contains
<1>3. Len(hdmiCardCandidates) = 4 /\ hdmiCardCandidates[1] = "hw:vc4hdmi0"
      /\ hdmiCardCandidates[2] = "hw:vc4hdmi1"
  BY DEF hdmiCardCandidates
<1>4. CASE c = "hdmi0"
  <2>1. HasIec958(hdmiCardCandidates[1])
    BY <1>1, <1>2, <1>3, <1>4 DEF HasIec958, CardOf, Registered
  <2> QED
    BY <1>3, <2>1, FirstUsableFacts
<1>5. CASE c = "hdmi1"
  <2>1. HasIec958(hdmiCardCandidates[2])
    BY <1>1, <1>2, <1>3, <1>5 DEF HasIec958, CardOf, Registered
  <2> QED
    BY <1>3, <2>1, FirstUsableFacts
<1> QED
  BY <1>4, <1>5 DEF Hdmi, Cards

\* The element the calls work on, once a card is selected.
ElementOf(s) ==
  LET e == IF soft THEN "SoftMaster" ELSE CardOf(s)
  IN  IF e \in Hdmi /\ ~HasSwitch THEN None ELSE e

\* Whatever selection was made for the control, a call finds its element.
LEMMA FoundIsElement ==
  Selected /\ selected # None /\ ~blind => Found = ElementOf(selected)
<1> SUFFICES ASSUME Selected, selected # None, ~blind
             PROVE  Found = ElementOf(selected)
  OBVIOUS
<1>1. dsGetPreferredAlsaCard = selected
  BY DEF dsGetPreferredAlsaCard
<1>2. selected \in Candidates /\ HasIec958(selected)
  BY DEF Selected
<1>3. MixerElem(selected) = IF soft THEN "SoftMaster" ELSE CardOf(selected)
  BY <1>2, OwnElement DEF Selected
<1> QED
  BY <1>1, <1>3 DEF Found, ElementOf

\* What a call that selects the card establishes.
LEMMA SelectKeeps ==
  ASSUME CardsInv, Select, UNCHANGED <<order, soft>>
  PROVE  /\ selected' \in Candidates
         /\ ~blind' => ~blind /\ HasIec958(selected')
         /\ ~blind' => Found = ElementOf(selected')
         /\ ~blind' => silent = IF muted THEN {Found} ELSE {}
<1>1. selected' = dsGetPreferredAlsaCard /\ (~blind' => ~blind)
  BY DEF Select
<1>2. selected' \in Candidates
  BY <1>1, PreferredCandidate DEF dsGetPreferredAlsaCard, CardsInv, Selected
<1>3. ASSUME ~blind' PROVE HasIec958(selected')
  <2>1. CASE selected = None
    <3>1. Usable
      BY <1>3, <2>1 DEF Select
    <3> QED
      BY <1>1, <2>1, <3>1, PreferredHas DEF dsGetPreferredAlsaCard, CardsInv, Selected
  <2>2. CASE selected # None
    BY <1>1, <1>3, <2>2 DEF dsGetPreferredAlsaCard, CardsInv, Selected
  <2> QED
    BY <2>1, <2>2
<1>4. ASSUME ~blind' PROVE Found = ElementOf(selected')
  <2>1. MixerElem(selected') = IF soft THEN "SoftMaster" ELSE CardOf(selected')
    BY <1>2, <1>3, <1>4, OwnElement DEF CardsInv, Selected
  <2> QED
    BY <1>1, <2>1 DEF Found, ElementOf
<1>5. ASSUME ~blind' PROVE silent = IF muted THEN {Found} ELSE {}
  BY <1>1, <1>5 DEF CardsInv, Selected, MuteFollows
<1> QED
  BY <1>1, <1>2, <1>3, <1>4, <1>5

\* None is not the name of a card, nor of SoftMaster.
LEMMA NoneApart == None \notin Candidates /\ None \notin Cards
  BY DEF None, Candidates, Cards

\* Every step keeps the element, the selection and what is silent.
LEMMA CardsStep == CardsInv /\ [CardsNext]_cardsVars => CardsInv'
<1> SUFFICES ASSUME CardsInv, [CardsNext]_cardsVars PROVE CardsInv'
  OBVIOUS
<1>1. (Selected /\ selected # None /\ ~blind => Found = ElementOf(selected))'
  BY FoundIsElement, PTL
<1>2. ASSUME Select, UNCHANGED <<order, soft>>, muted' \in BOOLEAN,
             ~blind' => silent' = IF muted' THEN {Found} ELSE {}
      PROVE  CardsInv'
  <2>1. selected' \in Candidates /\ (~blind' => HasIec958(selected'))
        /\ (~blind' => Found = ElementOf(selected'))
    BY <1>2, SelectKeeps
  <2>2. selected' # None
    BY <2>1, NoneApart
  <2>3. Selected'
    <3>1. order' \in Seq(Cards) /\ muted' \in BOOLEAN
      BY <1>2 DEF CardsInv, Selected
    <3>2. (soft => Contains(order, "hdmi0"))'
      BY <1>2 DEF CardsInv, Selected, Contains
    <3>3. HasIec958(selected)' <=> HasIec958(selected')
      BY <1>2 DEF HasIec958, CardOf, Registered, Numbered, Contains
    <3> QED
      BY <2>1, <2>2, <3>1, <3>2, <3>3 DEF Selected
  <2>4. ElementOf(selected)' = ElementOf(selected')
    BY <1>2 DEF ElementOf, CardOf, Registered, Numbered, Contains
  <2>5. MuteFollows'
    BY <1>1, <1>2, <2>1, <2>2, <2>3, <2>4 DEF MuteFollows
  <2> QED
    BY <2>3, <2>5 DEF CardsInv
<1>3. ASSUME Selected', UNCHANGED <<selected, silent, muted, blind>>,
             selected # None /\ ~blind => ElementOf(selected)' = ElementOf(selected)
      PROVE  CardsInv'
  <2>1. CASE selected = None
    BY <1>3, <2>1 DEF CardsInv, Selected, MuteFollows
  <2>2. CASE selected # None /\ ~blind
    <3>1. Found = ElementOf(selected)
      BY <2>2, FoundIsElement DEF CardsInv
    <3>2. Found' = ElementOf(selected)'
      BY <1>1, <1>3, <2>2
    <3> QED
      BY <1>3, <2>2, <3>1, <3>2 DEF CardsInv, MuteFollows
  <2>3. CASE blind
    BY <1>3, <2>3 DEF CardsInv, MuteFollows
  <2> QED
    BY <2>1, <2>2, <2>3
<1>4. CASE InitAudioPort
  <2>1. Select /\ UNCHANGED <<order, soft, silent, muted>>
    BY <1>4 DEF InitAudioPort
  <2>2. ~blind' => silent = IF muted THEN {Found} ELSE {}
    BY <2>1, SelectKeeps
  <2> QED
    BY <1>2, <2>1, <2>2 DEF CardsInv, Selected
<1>5. CASE \E mute \in BOOLEAN : SetAudioMute(mute)
  <2> PICK mute \in BOOLEAN : SetAudioMute(mute)
    BY <1>5
  <2>1. Select /\ UNCHANGED <<order, soft>>
    BY DEF SetAudioMute
  <2>2. ~blind' => silent = IF muted THEN {Found} ELSE {}
    BY <2>1, SelectKeeps
  <2>3. CASE Found = None
    BY <1>2, <2>1, <2>2, <2>3 DEF SetAudioMute, CardsInv, Selected
  <2>4. CASE Found # None
    <3>1. silent' = (IF mute THEN silent \cup {Found} ELSE silent \ {Found})
          /\ (muted' <=> mute) /\ muted' \in BOOLEAN
      BY <2>4 DEF SetAudioMute
    <3>2. ~blind' => silent' = IF muted' THEN {Found} ELSE {}
      BY <2>2, <3>1
    <3> QED
      BY <1>2, <2>1, <3>1, <3>2
  <2> QED
    BY <2>3, <2>4
<1>6. CASE \E card \in Cards : Register(card)
  <2> PICK card \in Cards : Register(card)
    BY <1>6
  <2>1. order' = Append(order, card) /\ UNCHANGED <<soft, selected, silent, muted, blind>>
    BY DEF Register
  <2>2. order \in Seq(Cards) /\ order' \in Seq(Cards)
    BY <2>1 DEF CardsInv, Selected
  <2>3. ASSUME selected # None, ~blind
        PROVE  CardOf(selected)' = CardOf(selected)
    <3>1. PICK s \in Candidates : s = selected
      BY <2>3 DEF CardsInv, Selected
    <3>2. CardOf(s) \in Hdmi
      BY <2>3, <3>1 DEF CardsInv, Selected, HasIec958
    <3>3. CardOf(s)' = CardOf(s)
      BY <2>1, <2>2, <3>2, NamesStay
    <3>4. CardOf(selected)' = CardOf(s)'
      BY <2>1, <3>1 DEF CardOf
    <3> QED
      BY <3>1, <3>3, <3>4
  <2>4. Contains(order, "hdmi0") => Contains(order, "hdmi0")'
    BY <2>1, <2>2 DEF Contains
  <2>5. selected # None /\ ~blind => HasIec958(selected)'
    BY <2>3 DEF CardsInv, Selected, HasIec958
  <2>6. Selected'
    BY <2>1, <2>2, <2>4, <2>5 DEF CardsInv, Selected
  <2>7. selected # None /\ ~blind => ElementOf(selected)' = ElementOf(selected)
    BY <2>1, <2>3 DEF ElementOf
  <2> QED
    BY <1>3, <2>1, <2>6, <2>7
<1>7. CASE MakeSoftMaster
  <2>1. selected = None /\ Contains(order, "hdmi0")
        /\ UNCHANGED <<order, selected, silent, muted, blind>>
    BY <1>7 DEF MakeSoftMaster
  <2>2. Selected'
    BY <2>1 DEF CardsInv, Selected, Contains
  <2> QED
    BY <1>3, <2>1, <2>2
<1>8. CASE UNCHANGED cardsVars
  <2>1. UNCHANGED <<order, soft, selected, silent, muted, blind>>
    BY <1>8 DEF cardsVars
  <2>2. Selected'
    BY <2>1 DEF CardsInv, Selected, Contains, HasIec958, CardOf, Registered, Numbered
  <2>3. ElementOf(selected)' = ElementOf(selected)
    BY <2>1 DEF ElementOf, CardOf, Registered, Numbered, Contains
  <2> QED
    BY <1>3, <2>1, <2>2, <2>3
<1> QED
  BY <1>4, <1>5, <1>6, <1>7, <1>8 DEF CardsNext

\* Mute and unmute work on one element, and what is silent is what a call has
\* muted, in whatever order the cards are registered.
THEOREM MuteFollowsCard == CardsSpec => []MuteFollows
<1>1. CardsInit => CardsInv
  <2> SUFFICES ASSUME CardsInit PROVE CardsInv
    OBVIOUS
  <2>1. order \in Seq(Cards)
    BY DEF CardsInit
  <2> QED
    BY <2>1, NoneApart DEF CardsInit, CardsInv, Selected, MuteFollows
<1>2. CardsInv => MuteFollows
  BY DEF CardsInv
<1> QED
  BY <1>1, <1>2, CardsStep, PTL DEF CardsSpec

=============================================================================
