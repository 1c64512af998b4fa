------------------------------ MODULE MCMailbox ------------------------------
(***************************************************************************)
(* Small instances of Mailbox for TLC: v1 is executed twice, v1 and v2 are *)
(* on the same card where there are three voicemails.                      *)
(***************************************************************************)
EXTENDS Mailbox

CONSTANTS a1, a2, v1, v2, v3, card1, card2

TwiceFirst == [v \in Voicemail |-> IF v = v1 THEN 2 ELSE 1]
Once == [v \in Voicemail |-> 1]
TwoCards == [v \in Voicemail |-> IF v = v3 THEN card2 ELSE card1]
TwoAgents == [v \in Voicemail |-> IF v = v3 THEN a2 ELSE a1]
OneCard == [v \in Voicemail |-> card1]
OneAgent == [v \in Voicemail |-> a1]

=============================================================================
