------------------------------ MODULE Voicemail ------------------------------
(***************************************************************************)
(* What the engine does to the voicemails in ONE profile.  Each operator   *)
(* takes the mail of a profile and gives the mail the code leaves behind:  *)
(*   due    the once intents marked for the mailbox, by effect             *)
(*   stack  telephony.voicemailGenStack                                    *)
(*   box    telephony.voicemails: the slots of each id, oldest first       *)
(*                                                                         *)
(* A voicemail is named by the effect that leaves it: that is the id of    *)
(* its entry and of its slot.                                              *)
(***************************************************************************)
EXTENDS Integers, Sequences, FiniteSets

CONSTANTS
    Attached,   \* the attach_call_card effects on voicemail cards
    Timed,      \* the schedule_call_card effects on voicemail cards
    CardOf,     \* the card of each
    AgentOf,    \* the agent it is from
    MaxExec     \* bound on the executions of each effect

Voicemail == Attached \cup Timed

Status == {"unread", "listened", "generate_failed"}

MailRecord ==
    [due : [Timed -> Nat], stack : SUBSET Voicemail,
     box : [Voicemail -> Seq(Status)]]

EmptyMail ==
    [due |-> [v \in Timed |-> 0], stack |-> {},
     box |-> [v \in Voicemail |-> <<>>]]

\* pushVoicemailGenStack: one entry per card of an agent.
Push(m, v) ==
    IF \E w \in m.stack : CardOf[w] = CardOf[v] /\ AgentOf[w] = AgentOf[v]
    THEN m ELSE [m EXCEPT !.stack = @ \cup {v}]

\* tryAttachVoicemailCallCard, tryScheduleVoicemailCallCard
Leave(m, v) ==
    IF v \in Timed THEN [m EXCEPT !.due[v] = @ + 1] ELSE Push(m, v)

\* fireVoicemailMailboxOnce: the row is fired, at any hour of the day.
Fire(m, v) == Push([m EXCEPT !.due[v] = @ - 1], v)

\* Variant: the entries are read and stay on the stack.
TakeNothing(m) == m

\* takeVoicemailGenStack
Take(m) == [m EXCEPT !.stack = {}]

\* materializeOne: a slot for the entry, also when the generator failed.
Deliver(m, v, status) == [m EXCEPT !.box[v] = Append(@, status)]

\* deriveVoicemailHasUnread
HasUnread(m) ==
    \E v \in Voicemail : \E i \in 1..Len(m.box[v]) : m.box[v][i] = "unread"

\* markVoicemailListened of a mailbox_open: the first slot with the id.
Listened(m, v) ==
    IF m.box[v] = <<>> THEN m ELSE [m EXCEPT !.box[v][1] = "listened"]

=============================================================================
