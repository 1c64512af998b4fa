------------------------------ MODULE MCOutbound ------------------------------
(***************************************************************************)
(* Small instances of Outbound for TLC: two days of two clock units.       *)
(***************************************************************************)
EXTENDS Outbound

CONSTANTS c1, c2, r1, e1

OneMode == [c \in Card |-> "inbound_user_dial"]
RulesOnC2 == [r \in Rule |-> c2]
AtOne == [r \in Rule |-> 1]
EveryDay == [r \in Rule |-> 0..6]
EffectsOnC1 == [e \in Effect |-> c1]
EffectsOnC2 == [e \in Effect |-> c2]
TimedTwice == [e \in Effect |-> IF e \in Timed THEN 2 ELSE 1]
DelayOne == [e \in Timed |-> 1]
Either == [e \in Attach |-> "either"]

=============================================================================
