------------------------------- MODULE Outbound -------------------------------
(***************************************************************************)
(* The calls an agent places to ONE user: the schedule clock that is       *)
(* pumped, the incoming-call events the shell polls, the requests that     *)
(* dial, answer and reject, the effects of an exit that schedule the next  *)
(* calls, the saves of the profile and the restart of the process.         *)
(*                                                                         *)
(* flow[f] is a request of the shell together with the call it leads to:   *)
(*   looking    an answer that waits for resolveAsync                      *)
(*   composing  a beginCall that waits for the prompt                      *)
(*   accepting  an answer whose call has begun, the event still to be taken*)
(*   in_call    the call goes on                                           *)
(*   ending     endCall runs the effects of the exit                       *)
(*   saving     endCall waits for the profile save                         *)
(* The post-call job is left to EngineHost, and so are overlapping         *)
(* beginCalls.                                                             *)
(***************************************************************************)
EXTENDS Schedule

CONSTANTS
    Flow,       \* the requests that can be under way
    Vanishing,  \* the cards an author may delete from the workspace
    MaxCrash    \* bound on restarts

ASSUME OutboundAssumption ==
    /\ IsFiniteSet(Flow) /\ None \notin Flow
    /\ Vanishing \subseteq Card /\ MaxCrash \in Nat

VARIABLES
    profile,    \* the user's profile in the host's cache
    disk,       \* the profile file
    saves,      \* who waits for a save of the profile
    cards,      \* the cards the workspace has
    ring,       \* incomingEventsByUser: the pending events
    flow,       \* the requests and their calls
    active,     \* activeByUser: the flow of the active call
    execs,      \* history: the executions of each effect, names instances
    rung,       \* history: the instances on which an intent fired in this life
                \* of the process and whose ring nobody answered or rejected
    crashes     \* number of restarts so far

vars == <<profile, disk, saves, cards, ring, flow, active, execs, rung, crashes>>

\* An event is named by its instance and a number that tells it from the
\* events for that instance which a request may still hold.
Event == Inst \X (1..(Cardinality(Flow) + 1))

At == {"idle", "looking", "composing", "accepting", "in_call", "ending",
       "saving"}

FlowRecord == [at: At, event: Event \cup {None}, inst: Inst \cup {None}]

NoFlow == [at |-> "idle", event |-> None, inst |-> None]

TypeOK ==
    /\ profile \in Profile /\ disk \in Profile
    /\ saves \subseteq {"pump", "reject"}
    /\ cards \subseteq Card
    /\ ring \subseteq Event
    /\ flow \in [Flow -> FlowRecord]
    /\ active \in Flow \cup {None}
    /\ execs \in [Effect -> Nat] /\ \A e \in Effect : execs[e] <= MaxExec[e]
    /\ rung \subseteq Inst
    /\ crashes \in 0..MaxCrash

Init ==
    /\ profile = NewProfile /\ disk = NewProfile
    /\ saves = {}
    /\ cards = Card
    /\ ring = {}
    /\ flow = [f \in Flow |-> NoFlow]
    /\ active = None
    /\ execs = [e \in Effect |-> 0]
    /\ rung = {}
    /\ crashes = 0

-----------------------------------------------------------------------------
(* The clock *)

Held(i) == {flow[f].event : f \in Flow} \cap ({i} \X Nat)

NewEvent(i) == CHOOSE e \in Event : e[1] = i /\ e \notin ring \cup Held(i)

\* Variant: an event that a request still holds counts too, taken or not.
DispatchUnlessHeld(insts) ==
    ring' = ring \cup {NewEvent(i) : i \in {x \in insts : Held(x) = {} /\
                                            \A e \in ring : e[1] # x}}

\* dispatchFiredOutboundCalls: an instance that rings already keeps its event.
Dispatch(insts) ==
    ring' = ring \cup {NewEvent(i) : i \in {x \in insts :
                                            \A e \in ring : e[1] # x}}

\* The clock moves on to `to` and the due rows fire; outside the player's
\* window (gate closed) they stay pending.
Tick(to, open) ==
    LET p == Forward(profile, cards, to) IN
    IF open
    THEN \E f \in Finds(p) :
            /\ profile' = Fire(p, f)
            /\ LET insts == {Target(p, f, k) : k \in RingingRows(p)}
               IN Dispatch(insts) /\ rung' = rung \cup insts
    ELSE profile' = p /\ UNCHANGED <<ring, rung>>

\* The pump hands the time elapsed to advanceClock and saves; one at a time.
\* At the bound it goes on without moving the clock.
Pump(to, open) ==
    /\ "pump" \notin saves
    /\ to > profile.clock \/ to = Horizon
    /\ Tick(to, open)
    /\ saves' = saves \cup {"pump"}
    /\ UNCHANGED <<disk, cards, flow, active, execs, crashes>>

\* advanceClockToNextIntent; nothing is saved.
NextIntent(open) ==
    LET p == Reconcile(profile, cards)
        next == Peek(p)
    IN
    /\ \/ next \in 1..Horizon /\ Tick(next, open)
       \/ next = 0 /\ profile' = p /\ UNCHANGED <<ring, rung>>
    /\ UNCHANGED <<disk, saves, cards, flow, active, execs, crashes>>

\* A write lands.  Only a restart reads the file: it is not kept up after the
\* last one.
Stored == IF crashes < MaxCrash THEN profile ELSE disk

SaveLands(who) ==
    /\ who \in saves
    /\ saves' = saves \ {who}
    /\ disk' = Stored
    /\ UNCHANGED <<profile, cards, ring, flow, active, execs, rung, crashes>>

-----------------------------------------------------------------------------
(* The shell's requests *)

\* No call is active and none is about to begin.
MayBegin == active = None /\ \A f \in Flow : flow[f].at # "composing"

Loaded(i) == i # None => CardOf(i) \in cards

\* The user dials: resolve picks a waiting or missed card, else a Free call.
Dial(f) ==
    /\ flow[f].at = "idle"
    /\ MayBegin
    /\ \E i \in IF Dialable(profile) = {} THEN {None} ELSE Dialable(profile) :
          /\ Loaded(i)
          /\ flow' = [flow EXCEPT ![f] = [NoFlow EXCEPT !.at = "composing",
                                                        !.inst = i]]
    /\ UNCHANGED <<profile, disk, saves, cards, ring, active, execs, rung,
                   crashes>>

\* The user answers event e: it is pending and no call is active.
Answer(f, e) ==
    /\ flow[f].at = "idle"
    /\ e \in ring
    /\ active = None
    /\ flow' = [flow EXCEPT ![f] = [NoFlow EXCEPT !.at = "looking",
                                                  !.event = e]]
    /\ UNCHANGED <<profile, disk, saves, cards, ring, active, execs, rung,
                   crashes>>

\* Resolve picks the very instance of the event, and beginCall starts.
Resolved(f) ==
    /\ flow[f].at = "looking"
    /\ MayBegin
    /\ flow[f].event[1] \in Outgoing(profile)
    /\ Loaded(flow[f].event[1])
    /\ flow' = [flow EXCEPT ![f].at = "composing",
                             ![f].inst = flow[f].event[1]]
    /\ UNCHANGED <<profile, disk, saves, cards, ring, active, execs, rung,
                   crashes>>

\* Another instance is picked, the card is gone, the agent is busy, a call is
\* active, or the prompt can not be composed: the request ends in an error.
Fails(f) ==
    /\ flow[f].at \in {"looking", "composing"}
    /\ flow' = [flow EXCEPT ![f] = NoFlow]
    /\ UNCHANGED <<profile, disk, saves, cards, ring, active, execs, rung,
                   crashes>>

\* The prompt is there: the card is taken, its intents are consumed.
Begun(f) ==
    /\ flow[f].at = "composing"
    /\ profile' = Begin(profile, flow[f].inst)
    /\ active' = f
    /\ flow' = [flow EXCEPT ![f].at = IF flow[f].event = None THEN "in_call"
                                      ELSE "accepting"]
    /\ UNCHANGED <<disk, saves, cards, ring, execs, rung, crashes>>

\* Event e is no longer pending, if it was.
Take(e) ==
    /\ ring' = ring \ {e}
    /\ rung' = IF e \in ring THEN rung \ {e[1]} ELSE rung

\* acceptIncomingCallEvent; when the event is no longer pending it answers an
\* error and the call goes on all the same.
Accept(f) ==
    /\ flow[f].at = "accepting"
    /\ Take(flow[f].event)
    /\ flow' = [flow EXCEPT ![f].at = "in_call", ![f].event = None]
    /\ UNCHANGED <<profile, disk, saves, cards, active, execs, crashes>>

\* dismissIncomingCallEvent: rejected or dismissed, the card is missed.
Reject(e) ==
    /\ e \in ring
    /\ Take(e)
    /\ profile' = Miss(profile, e[1])
    /\ saves' = saves \cup {"reject"}
    /\ UNCHANGED <<disk, cards, flow, active, execs, crashes>>

-----------------------------------------------------------------------------
(* The end of a call *)

HangUp(f) ==
    /\ flow[f].at = "in_call"
    /\ flow' = [flow EXCEPT ![f].at = "ending"]
    /\ UNCHANGED <<profile, disk, saves, cards, ring, active, execs, rung,
                   crashes>>

\* Effect e is executed once more; i is the instance its card has waiting.
Executes(e, i) ==
    /\ execs[e] < MaxExec[e]
    /\ execs' = [execs EXCEPT ![e] = @ + 1]
    /\ profile' = IF e \in Timed THEN ScheduleCard(profile, e, execs'[e], i)
                  ELSE AttachCard(profile, e, execs'[e])

\* One effect of the exit.  Exits are data: any effect in any order.  A card
\* the workspace does not have makes a scheduling effect fail.
RunEffect(f) ==
    LET i == flow[f].inst IN
    /\ flow[f].at = "ending"
    /\ \/ \E e \in Effect :
            /\ e \in Timed => EffectCard[e] \in cards
            /\ \E x \in Existing(profile, EffectCard[e]) : Executes(e, x)
       \/ /\ \/ i # None /\ profile' = KeepPending(profile, i)
             \/ \E c \in Card : profile' = Unmount(profile, c)
             \/ i # None /\ profile' = EndStory(profile)
             \/ \E r \in Rule : /\ RuleCard[r] \in cards
                                /\ profile' = WriteRule(profile, r)
          /\ UNCHANGED execs
    /\ UNCHANGED <<disk, saves, cards, ring, flow, active, rung, crashes>>

EffectsDone(f) ==
    /\ flow[f].at = "ending"
    /\ flow' = [flow EXCEPT ![f].at = "saving"]
    /\ UNCHANGED <<profile, disk, saves, cards, ring, active, execs, rung,
                   crashes>>

\* The profile is saved, the user is free.
CallSaved(f) ==
    /\ flow[f].at = "saving"
    /\ disk' = Stored
    /\ active' = None
    /\ flow' = [flow EXCEPT ![f] = NoFlow]
    /\ UNCHANGED <<profile, saves, cards, ring, execs, rung, crashes>>

-----------------------------------------------------------------------------
(* The environment *)

RemoveCard(c) ==
    /\ c \in cards \cap Vanishing
    /\ cards' = cards \ {c}
    /\ UNCHANGED <<profile, disk, saves, ring, flow, active, execs, rung,
                   crashes>>

\* The process restarts: the events, requests and calls are gone, the profile
\* is what was saved.
Crash ==
    /\ crashes < MaxCrash
    /\ crashes' = crashes + 1
    /\ profile' = disk
    /\ saves' = {} /\ ring' = {} /\ rung' = {}
    /\ flow' = [f \in Flow |-> NoFlow]
    /\ active' = None
    /\ UNCHANGED <<disk, cards, execs>>

Next ==
    \/ \E to \in profile.clock..Horizon, open \in BOOLEAN : Pump(to, open)
    \/ \E open \in BOOLEAN : NextIntent(open)
    \/ \E who \in saves : SaveLands(who)
    \/ \E f \in Flow : \/ Dial(f) \/ Resolved(f) \/ Fails(f)
                       \/ Begun(f) \/ Accept(f) \/ HangUp(f)
                       \/ RunEffect(f) \/ EffectsDone(f) \/ CallSaved(f)
    \/ \E f \in Flow, e \in ring : Answer(f, e)
    \/ \E e \in ring : Reject(e)
    \/ \E c \in Card : RemoveCard(c)
    \/ Crash

Spec == Init /\ [][Next]_vars

\* The interval timer of the pump goes on, the window opens every day, and a
\* save ends.  Nobody has to dial, answer or hang up.
PumpOpen == \E to \in profile.clock..Horizon : Pump(to, TRUE)

Fairness == SF_vars(PumpOpen) /\ WF_vars(SaveLands("pump"))

FairSpec == Spec /\ Fairness

-----------------------------------------------------------------------------
(* What the schedule promises *)

\* A rule misses none of its occurrences: each one between the moment the rule
\* was written and the clock has its once intent, however the clock was moved
\* and whatever restarts came between (materializeRecurringOccurrences).
NoOccurrenceSkipped ==
    \A r \in Rule, d \in Day :
        /\ profile.rule[r].status = "active" /\ MatchesDay(r, d)
        /\ OccurrenceAt(r, d) > profile.rule[r].since
        /\ OccurrenceAt(r, d) <= profile.clock
        => profile.row[<<r, d>>].status # "none"

\* The moments at which something is or becomes due.
Moments(p) ==
    {p.row[k].at : k \in {l \in Row : p.row[l].status = "pending"}}
    \cup {OccurrenceAt(o[1], o[2]) : o \in
            {x \in Occurrence : p.rule[x[1]].status = "active"
                                /\ MatchesDay(x[1], x[2])}}

\* advanceClockToNextIntent jumps over no moment at which an intent is due
\* (peekNextScheduleFireAtMs).
NothingJumpedOver ==
    [][(\E open \in BOOLEAN : NextIntent(open)) =>
         \A t \in Moments(Reconcile(profile, cards)) :
            ~(profile.clock < t /\ t < profile'.clock)]_vars

\* "Later ticks do not call again": once the call on a card has begun, the
\* intents that were linked to it never ring, not even when an effect puts the
\* card back (beginCall, consumeLinkedOnceIntent, ensureOutboundPending).
NoRingAfterCall ==
    [][\A k \in Row : ~ /\ profile.row[k].status = "pending"
                        /\ profile.row[k].called
                        /\ profile'.row[k].status = "fired"]_vars

\* A fired intent is heard, and once: until somebody answers or rejects its
\* ring, or the process restarts, the shell has one event for its card, however
\* many intents fire on that card and whatever requests hold older events for
\* it (dispatchFiredOutboundCalls).
RingsOnce ==
    \A i \in rung : HasStatus(profile, i, "pending")
                    => Cardinality({e \in ring : e[1] = i}) = 1

\* The card of a call that goes on stays taken: no late rejection, no tick and
\* no other request offers it again (markOutboundMissed, beginCall).
LiveCardTaken ==
    \A f \in Flow : /\ flow[f].at \in {"accepting", "in_call"}
                    /\ OnBoard(profile, flow[f].inst)
                    => HasStatus(profile, flow[f].inst, "active")

\* A due intent is taken up in the end, also one that was put off outside the
\* player's window.
DueFires ==
    \A k \in Row :
        (profile.row[k].status = "pending" /\ profile.row[k].at <= profile.clock)
        ~> profile.row[k].status # "pending"

=============================================================================
