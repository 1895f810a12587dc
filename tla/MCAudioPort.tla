---------------------------- MODULE MCAudioPort -----------------------------
(***************************************************************************)
(* AudioPort and AudioCards for TLC.  They share no variable (AudioPort    *)
(* takes the element that the cards lead to as given), so that one moves   *)
(* while the other stands still, and nothing is lost by it.                *)
(***************************************************************************)
EXTENDS AudioPort, AudioCards

VARIABLE part  \* which of the two moves

\* SoftMaster as config/asound.conf defines it: -51 dB to 0 dB.
TlvRange == <<-51, 0>>

MCInit == Init /\ CardsInit /\ part \in {"port", "cards"}
MCNext ==
  \/ part = "port" /\ Next /\ UNCHANGED <<cardsVars, part>>
  \/ part = "cards" /\ CardsNext /\ UNCHANGED <<vars, part>>
MCSpec == MCInit /\ [][MCNext]_<<vars, cardsVars, part>>
=============================================================================
