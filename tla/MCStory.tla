------------------------------- MODULE MCStory -------------------------------
(***************************************************************************)
(* A small instance of StoryCalls for TLC: chapter s1 has the cards c1 of  *)
(* a1 and c2 of a2 and is followed by s2, whose one card is c3 of a2.  s1  *)
(* is locked to both its agents; nobody but a3 is outside.                 *)
(***************************************************************************)
EXTENDS StoryCalls

CONSTANTS a1, a2, a3, s1, s2, c1, c2, c3

ChapterOf == [c \in Card |-> IF c = c3 THEN s2 ELSE s1]
Owner == [c \in Card |-> IF c = c1 THEN a1 ELSE a2]

AnyLock(level) ==
    {[s \in Story |-> IF s = s1 THEN [level |-> level, policy |-> policy,
                                     allowed |-> {a1, a2}] ELSE None] :
        policy \in Policy}
AllLocks == AnyLock("hard") \cup AnyLock("soft")

Exits == [c \in Card |->
    IF c = c1 THEN {<<Keep>>, <<Attach(c1, "either"), Attach(c2, "inbound_user_dial")>>,
                    <<EndStory(c3, "inbound_user_dial")>>}
    ELSE IF c = c2 THEN {<<Keep, EndStory(c3, "either")>>,
                         <<Attach(c1, "outbound_auto")>>}
    ELSE {<<Keep>>, <<EndStory(None, "either")>>}]

=============================================================================
