----------------------------- MODULE AudioPort ------------------------------
(***************************************************************************)
(* The audio ports of dsAudio.c: the encoding with its cache and the       *)
(* format callback, and mute, enable, gain, level and dB, which all act on *)
(* one ALSA mixer element that the HDMI and the SPDIF port share.          *)
(*                                                                         *)
(* ALSA is outside the library: other programs use the same controls       *)
(* (Meddle).  A call whose control cannot be opened or written returns an  *)
(* error and changes nothing; it is not a step here.  _stereoModeHDMI is   *)
(* left out: nothing reads it in the build of CMakeLists.txt, which sets   *)
(* DSHAL_ENABLE_ALSA_EXPERIMENTAL.                                         *)
(***************************************************************************)
EXTENDS Integers

CONSTANTS
  Encodings,  \* the encodings the caller asks for
  Percents,   \* the levels and gains the caller sets
  MaxVol,     \* the raw range of SoftMaster is 0 .. MaxVol
  DbRange,    \* dBmin and dBmax, as dsGetdBRange read them
  Control,    \* the sound card has the IEC958 control (snd_ctl)
  FaultOps    \* "query": dsIsAudioMute may fail inside dsSetAudioGain

Ports == {"HDMI", "SPDIF"}
AllEncodings == {"NONE", "PCM", "AC3", "EAC3", "DISPLAY"}
Formats == {"none", "pcm", "ac3", "eac3", "unknown"}

ASSUME CallerAssumption ==
  /\ Encodings \subseteq AllEncodings
  /\ Percents \subseteq 0 .. 100
ASSUME AlsaAssumption ==
  /\ MaxVol \in Nat \ {0}
  /\ DbRange \in Int \X Int
  /\ Control \in BOOLEAN
  /\ FaultOps \subseteq {"query"}

VARIABLES
  initialized,  \* _bIsAudioInitialized
  encoding,     \* _encoding
  nonAudio,     \* the IEC958 non-audio bit of the sound card
  formatCb,     \* _halaudioformatCB is set
  portEnabled,  \* m_IsEnabled of each port
  mixer,        \* what dsInitAudioMixerElem finds
  switch,       \* the playback switch, when the element has one
  volume,       \* the raw volume of SoftMaster
  saved,        \* _softvolSavedVolume
  heard,        \* history: the format the listener was told last
  refreshed,    \* history: a query has changed the cached encoding since
  asked,        \* history: a call has muted the element, none has undone it
  wanted        \* history: the volume an unmute has to restore, or -1

coding == <<encoding, nonAudio, heard, refreshed>>
sound == <<switch, volume, saved, asked, wanted>>
vars == <<initialized, formatCb, portEnabled, mixer, coding, sound>>

TypeOK ==
  /\ initialized \in BOOLEAN /\ nonAudio \in BOOLEAN /\ formatCb \in BOOLEAN
  /\ encoding \in AllEncodings \ {"DISPLAY"}
  /\ portEnabled \in [Ports -> BOOLEAN]
  /\ mixer \in {"softvol", "switch", "none"} /\ switch \in BOOLEAN
  /\ volume \in 0 .. MaxVol /\ saved \in -1 .. MaxVol
  /\ heard \in Formats \cup {"nothing"} /\ refreshed \in BOOLEAN
  /\ asked \in BOOLEAN /\ wanted \in -1 .. MaxVol

Init ==
  /\ initialized = FALSE /\ encoding = "PCM" /\ formatCb = FALSE
  /\ portEnabled = [p \in Ports |-> FALSE]
  /\ nonAudio \in BOOLEAN
  /\ mixer \in {"softvol", "switch", "none"} /\ switch \in BOOLEAN
  /\ volume \in {0, MaxVol} /\ saved = -1
  /\ heard = "nothing" /\ refreshed = FALSE /\ asked = FALSE /\ wanted = -1

dsAudioPortInit ==
  /\ ~initialized
  /\ initialized' = TRUE
  /\ portEnabled' = [p \in Ports |-> TRUE]
  /\ UNCHANGED <<formatCb, mixer, coding, sound>>

\* The cached encoding and the saved volume outlive the session.
dsAudioPortTerm ==
  /\ initialized
  /\ initialized' = FALSE /\ formatCb' = FALSE
  /\ heard' = "nothing"
  /\ UNCHANGED <<encoding, nonAudio, refreshed, portEnabled, mixer, sound>>

dsAudioFormatUpdateRegisterCB ==
  /\ initialized
  /\ formatCb' = TRUE
  /\ heard' = "nothing"
  /\ UNCHANGED <<initialized, encoding, nonAudio, refreshed, portEnabled, mixer,
                 sound>>

(***************************************************************************)
(* Encoding                                                                *)
(***************************************************************************)

dsFormatFromEncoding(e) ==
  CASE e = "PCM" -> "pcm" [] e = "AC3" -> "ac3" [] e = "EAC3" -> "eac3"
    [] e = "NONE" -> "none" [] OTHER -> "unknown"

\* dsEncodingToIec958Switch; DISPLAY has no such form.
Compressed(e) == e \in {"AC3", "EAC3"}

\* The card has something to tell the passthrough by.
HasPassthrough == Control \/ mixer # "none"

\* dsIec958CtlReadSwitch, or the switch of the IEC958 mixer element.
Passthrough == IF Control THEN nonAudio ELSE switch

\* dsIec958CtlWriteSwitch, or the same switch: the one that mutes a card
\* without SoftMaster.
SetPassthrough(on) ==
  /\ HasPassthrough
  /\ nonAudio' = IF Control THEN on ELSE nonAudio
  /\ switch' = IF Control THEN switch ELSE on
  /\ UNCHANGED <<volume, saved, asked, wanted>>

\* dsEncodingFromIec958Switch: the bit does not tell AC3 from EAC3.
FromSwitch(bit, cached) ==
  IF ~bit THEN "PCM" ELSE IF cached = "EAC3" THEN "EAC3" ELSE "AC3"

\* Mutant: only a change of passthrough is told.
MustTellSwitch(e) == formatCb /\ Compressed(encoding) # Compressed(e)
MustTell(e) ==
  formatCb /\ dsFormatFromEncoding(encoding) # dsFormatFromEncoding(e)

SetEncoding(e) ==
  /\ initialized
  /\ e # "DISPLAY"
  /\ SetPassthrough(Compressed(e))
  /\ encoding' = e
  /\ heard' = IF MustTell(e) THEN dsFormatFromEncoding(e) ELSE heard
  /\ refreshed' = (refreshed /\ ~MustTell(e))
  /\ UNCHANGED <<initialized, formatCb, portEnabled, mixer>>

dsSetAudioEncoding == \E e \in Encodings : SetEncoding(e)

dsSetAudioCompression(compressed) ==
  SetEncoding(IF compressed THEN "AC3" ELSE "PCM")

\* MONO and SURROUND are refused.
dsSetStereoMode(mode) ==
  SetEncoding(CASE mode = "STEREO" -> "PCM"
                [] mode = "DD" -> "AC3"
                [] mode = "DDPLUS" -> "EAC3"
                [] mode = "PASSTHRU" ->
                     IF encoding \in {"AC3", "EAC3"} THEN encoding ELSE "AC3")

\* What the queries of the encoding, the format (dsFormatFromEncoding), the
\* compression and the stereo mode answer from; the cache when nothing else.
EncodingRead ==
  IF HasPassthrough THEN FromSwitch(Passthrough, encoding) ELSE encoding

\* dsGetAudioCompression: whether there is any.
CompressionOf(e) == e # "PCM"

\* dsGetStereoMode, for a card whose IEC958 element is not mono.
StereoModeOf(e) ==
  CASE e = "PCM" -> "STEREO" [] e = "AC3" -> "DD" [] e = "EAC3" -> "DDPLUS"
    [] e = "DISPLAY" -> "PASSTHRU" [] OTHER -> "UNKNOWN"

\* dsGetAudioEncoding, dsGetAudioFormat, dsGetAudioCompression and
\* dsGetStereoMode: the query updates the cache and calls nobody.
dsGetAudioEncoding ==
  /\ initialized
  /\ encoding' = EncodingRead
  /\ refreshed' = (refreshed \/ encoding' # encoding)
  /\ UNCHANGED <<initialized, nonAudio, heard, formatCb, portEnabled, mixer,
                 sound>>

(***************************************************************************)
(* Mute, enable, gain, level, dB                                           *)
(***************************************************************************)

\* dsInitAudioMixerElem finds SoftMaster, or else an IEC958 element.
HasElement == mixer # "none"

\* Mutant: the lowest volume does not count as silence.
IsMuteBelow == IF mixer = "softvol" THEN volume < 0 ELSE ~switch

\* dsIsAudioMute: SoftMaster has no switch, silence is its lowest volume.
IsMute == IF mixer = "softvol" THEN volume = 0 ELSE ~switch

\* What an unmute sets SoftMaster to.
Target == IF saved <= 0 \/ saved > MaxVol THEN (MaxVol * 75) \div 100 ELSE saved

\* Mutant: muting twice saves the silence.
SavedAlways(v) == v
SavedFrom(v) == IF v > 0 THEN v ELSE saved

\* dsSetAudioMute(TRUE) when the volume is v.
Mute(v) ==
  /\ switch' = (mixer # "switch" /\ switch)
  /\ IF mixer = "softvol" THEN volume' = 0 /\ saved' = SavedFrom(v)
                          ELSE UNCHANGED <<volume, saved>>
  /\ wanted' = IF v > 0 THEN v ELSE wanted
  /\ asked' = TRUE

Unmute ==
  /\ switch' = (mixer = "switch" \/ switch)
  /\ volume' = IF mixer = "softvol" THEN Target ELSE volume
  /\ asked' = FALSE /\ wanted' = -1
  /\ UNCHANGED saved

SetMute(mute) == IF mute THEN Mute(volume) ELSE Unmute

\* Without a mixer element the call is refused.
dsSetAudioMute(mute) ==
  /\ initialized /\ HasElement
  /\ SetMute(mute)
  /\ UNCHANGED <<initialized, formatCb, portEnabled, mixer, coding>>

\* Without a mixer element only m_IsEnabled changes, and the call succeeds.
dsEnableAudioPort(p, enabled) ==
  /\ initialized
  /\ portEnabled' = [portEnabled EXCEPT ![p] = enabled]
  /\ IF HasElement THEN SetMute(~enabled) ELSE UNCHANGED sound
  /\ UNCHANGED <<initialized, formatCb, mixer, coding>>

\* dsIsAudioPortEnabled.
IsEnabled(p) == IF HasElement THEN ~IsMute ELSE portEnabled[p]

\* The volume for a percentage, truncated as the conversion to long does.
VolumeOf(percent) == (percent * MaxVol) \div 100

\* dsGetAudioLevel and dsGetAudioGain, rounded.
LevelOf(v) == (200 * v + MaxVol) \div (2 * MaxVol)

\* The volume is v, nothing is muted and nothing is to be restored.
Loud(v) ==
  /\ volume' = v
  /\ asked' = FALSE /\ wanted' = -1
  /\ UNCHANGED <<switch, saved>>

\* Mutant: the mute is not put back.
RemutesNever == FALSE
Remutes == IsMute

\* An element that was mute before is muted again, with the new volume saved;
\* when the query of the mute fails it counts as not mute.
\* The IEC958 element has no volume; dB calls on it fail and are ignored.
dsSetAudioGain(percent) ==
  /\ initialized /\ mixer = "softvol"
  /\ \/ /\ Remutes
        /\ Mute(VolumeOf(percent))
     \/ /\ Remutes => "query" \in FaultOps
        /\ volume' = VolumeOf(percent)
        /\ wanted' = -1
        /\ UNCHANGED <<switch, saved, asked>>
  /\ UNCHANGED <<initialized, formatCb, portEnabled, mixer, coding>>

dsSetAudioLevel(percent) ==
  /\ initialized /\ mixer = "softvol"
  /\ Loud(VolumeOf(percent))
  /\ UNCHANGED <<initialized, formatCb, portEnabled, mixer, coding>>

\* The value is clamped to the dB range and then taken as a percentage;
\* ALSA does not set a volume below the element's range.
Clamped(db) ==
  IF db < DbRange[1] THEN DbRange[1] ELSE IF db > DbRange[2] THEN DbRange[2] ELSE db

dsSetAudioDB(db) ==
  /\ initialized /\ mixer = "softvol"
  /\ Clamped(db) >= 0
  /\ Loud(VolumeOf(Clamped(db)))
  /\ UNCHANGED <<initialized, formatCb, portEnabled, mixer, coding>>

\* Another program sets the controls of the sound card.
Meddle ==
  /\ \/ nonAudio' = ~nonAudio /\ UNCHANGED sound
     \/ Loud(MaxVol) /\ UNCHANGED nonAudio
  /\ UNCHANGED <<initialized, encoding, heard, refreshed, formatCb, portEnabled,
                 mixer>>

Next ==
  \/ dsAudioPortInit \/ dsAudioPortTerm \/ dsAudioFormatUpdateRegisterCB
  \/ dsSetAudioEncoding \/ dsGetAudioEncoding
  \/ \E compressed \in BOOLEAN : dsSetAudioCompression(compressed)
  \/ \E mode \in {"STEREO", "DD", "DDPLUS", "PASSTHRU"} : dsSetStereoMode(mode)
  \/ \E mute \in BOOLEAN : dsSetAudioMute(mute)
  \/ \E p \in Ports, enabled \in BOOLEAN : dsEnableAudioPort(p, enabled)
  \/ \E percent \in Percents : dsSetAudioGain(percent) \/ dsSetAudioLevel(percent)
  \/ \E db \in {DbRange[1], DbRange[2]} : dsSetAudioDB(db)
  \/ Meddle

Spec == Init /\ [][Next]_vars

(***************************************************************************)
(* Properties                                                              *)
(***************************************************************************)

\* "Triggered when dsSetAudioEncoding() changes effective audio format": as
\* long as no query has changed the cache, a listener that was told a format
\* knows the current one, however it was set.
ListenerKnows ==
  formatCb /\ heard # "nothing" /\ ~refreshed
    => heard = dsFormatFromEncoding(encoding)

\* dsSetAudioGain: what the client has muted stays mute through any sequence
\* of gain changes, port re-initializations and repeated mutes, as long as
\* the query of the mute works and the card has the IEC958 control.
MuteHolds == asked => IsMute

\* Unmuting gives back the volume from before the mute, or the gain that was
\* set during it (unless that was 0), and never one out of the mixer's range.
UnmuteRestores ==
  mixer = "softvol" =>
    /\ Target \in 1 .. MaxVol
    /\ wanted # -1 => Target = wanted

\* Enabling or disabling a port is what dsIsAudioPortEnabled then reports,
\* with a mute switch, with the volume floor and without a mixer.
EnableReported ==
  [][\A p \in Ports, enabled \in BOOLEAN :
       dsEnableAudioPort(p, enabled) => IsEnabled(p)' = enabled]_vars

\* A level that was set reads back, to within one percent, and so does a gain
\* that was set while the port was not mute.
LevelReadsBack ==
  [][\A percent \in Percents :
       dsSetAudioLevel(percent) \/ (dsSetAudioGain(percent) /\ ~IsMute)
         => LevelOf(volume') - percent \in -1 .. 1]_vars

\* What was set as a stereo mode or as a compression is what dsGetStereoMode
\* and dsGetAudioCompression then answer from the sound card and the cache.
ModeReadsBack ==
  [][/\ \A mode \in {"STEREO", "DD", "DDPLUS"} :
          dsSetStereoMode(mode) => StereoModeOf(EncodingRead') = mode
     /\ \A compressed \in BOOLEAN :
          dsSetAudioCompression(compressed)
            => CompressionOf(EncodingRead') = compressed]_vars

\* What a call that succeeds has set is what the queries of it answer, through
\* a mute switch, the volume floor, the shared switch of the encoding, rounding
\* and the cache.
SettersReadBack == EnableReported /\ LevelReadsBack /\ ModeReadsBack
=============================================================================
