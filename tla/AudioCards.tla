----------------------------- MODULE AudioCards -----------------------------
(***************************************************************************)
(* Which control of which sound card dsAudio.c uses: the card that          *)
(* dsGetPreferredAlsaCard selects once for the life of the process, and    *)
(* the mixer element that dsInitAudioMixerElem looks for in every call,    *)
(* as dsSetAudioMute and dsIsAudioMute use it.                             *)
(*                                                                         *)
(* The cards, their numbers and SoftMaster come from outside: the kernel   *)
(* numbers the cards in the order of their registration, and SoftMaster is *)
(* made when the softvol device of asound.conf is opened first, which      *)
(* rpiAudioSoftvol.service tries to do before anybody uses the library.    *)
(***************************************************************************)
EXTENDS Naturals, Sequences, SequencesExt

CONSTANT HasSwitch  \* the IEC958 mixer element has a playback switch

Cards == {"hdmi0", "hdmi1", "headphones"}
Hdmi == Cards \ {"headphones"}

VARIABLES
  order,     \* the registered cards, a sequence without repetitions
  soft,      \* SoftMaster has been made
  selected,  \* selected_card, a candidate or None
  silent,    \* the elements that are muted: cards and "SoftMaster"
  muted,     \* history: the last call that succeeded was a mute
  blind      \* history: no HDMI card was there when the card was selected

cardsVars == <<order, soft, selected, silent, muted, blind>>

None == "none"

CardsInit ==
  /\ order = <<>> /\ soft = FALSE /\ selected = None
  /\ silent = {} /\ muted = FALSE /\ blind = FALSE

(***************************************************************************)
(* The cards                                                               *)
(***************************************************************************)

Usable == ToSet(order) \cap Hdmi # {}
Registered(c) == IF Contains(order, c) THEN c ELSE None
Numbered(i) == IF i <= Len(order) THEN order[i] ELSE None

\* The card behind a name; asound.conf makes "default" the first HDMI card.
CardOf(name) ==
  CASE name \in {"default", "hw:vc4hdmi0"} -> Registered("hdmi0")
    [] name = "hw:vc4hdmi1" -> Registered("hdmi1")
    [] name = "hw:0" -> Numbered(1)
    [] name = "hw:1" -> Numbered(2)

\* The headphones have neither control.
HasIec958(name) == CardOf(name) \in Hdmi
HasSoftMaster(name) == soft /\ CardOf(name) = "hdmi0"

hdmiCardCandidates == <<"hw:vc4hdmi0", "hw:vc4hdmi1", "hw:0", "hw:1">>
softvolCandidates(s_card) ==
  <<"default", "hw:vc4hdmi0", "hw:0", s_card, "hw:vc4hdmi1", "hw:1">>

\* The first candidate with the IEC958 control, or the first of all.
FirstUsable(candidates) ==
  LET usable == {i \in 1 .. Len(candidates) : HasIec958(candidates[i])}
  IN  candidates[IF usable = {} THEN 1 ELSE Min(usable)]

\* Mutant: the cards are probed in every call.
PreferredFresh == FirstUsable(hdmiCardCandidates)

dsGetPreferredAlsaCard ==
  IF selected = None THEN FirstUsable(hdmiCardCandidates) ELSE selected

\* dsInitAudioMixerElem: SoftMaster wherever it is, or else the IEC958 element
\* of the preferred card, or else that of any other.
MixerElem(s_card) ==
  LET any == FirstUsable(<<s_card>> \o hdmiCardCandidates)
  IN  IF \E n \in ToSet(softvolCandidates(s_card)) : HasSoftMaster(n)
      THEN "SoftMaster" ELSE IF HasIec958(any) THEN CardOf(any) ELSE None

\* The element a call works on, if it can mute at all.
Found ==
  LET e == MixerElem(dsGetPreferredAlsaCard)
  IN  IF e \in Hdmi /\ ~HasSwitch THEN None ELSE e

Select ==
  /\ selected' = dsGetPreferredAlsaCard
  /\ blind' = (blind \/ (selected = None /\ ~Usable))

\* dsAudioPortInit: dsGetdBRange selects the card, if no call has done so before.
InitAudioPort ==
  /\ Select
  /\ UNCHANGED <<order, soft, silent, muted>>

\* dsSetAudioMute: without an element the call is refused; the card is selected
\* all the same.
SetAudioMute(mute) ==
  /\ Select
  /\ IF Found = None
       THEN UNCHANGED <<silent, muted>>
       ELSE /\ silent' = IF mute THEN silent \cup {Found} ELSE silent \ {Found}
            /\ muted' = mute
  /\ UNCHANGED <<order, soft>>

Register(card) ==
  /\ ~Contains(order, card)
  /\ order' = Append(order, card)
  /\ UNCHANGED <<soft, selected, silent, muted, blind>>

\* A bound: not once the library is in use (the service runs before).
MakeSoftMaster ==
  /\ ~soft /\ Contains(order, "hdmi0")
  /\ selected = None
  /\ soft' = TRUE
  /\ UNCHANGED <<order, selected, silent, muted, blind>>

CardsNext ==
  \/ InitAudioPort
  \/ \E mute \in BOOLEAN : SetAudioMute(mute)
  \/ \E card \in Cards : Register(card)
  \/ MakeSoftMaster

CardsSpec == CardsInit /\ [][CardsNext]_cardsVars

(***************************************************************************)
(* Properties                                                              *)
(***************************************************************************)

\* Mute and unmute work on the same element however cards come in between:
\* what was muted and not unmuted since is silent and is what dsIsAudioMute
\* looks at, and when nothing is muted no element is left silent.
MuteFollows == ~blind => silent = IF muted THEN {Found} ELSE {}
=============================================================================
