----------------------------- MODULE StoryCalls -----------------------------
(***************************************************************************)
(* The storyline of ONE user: the calls that play the cards of chapters,   *)
(* the gate of the lock they pass, the cards that exits attach, and the    *)
(* end of a chapter with the entry of the next one.                        *)
(*                                                                         *)
(* An instance of a card is the card and a number that tells it from the   *)
(* other instances on the board or in the hands of a request.              *)
(***************************************************************************)
EXTENDS StoryLock, Sequences, Naturals

CONSTANTS
    Card,       \* the story cards
    StoryOf,    \* the chapter of a card
    OwnerOf,    \* the agent of a card
    ExitOf,     \* the exits of a card: sequences of effects
    Mounted,    \* the cards the profile comes with
    Simulated,  \* the cards that a simulation may start
    Call,       \* the requests, each with the call it leads to
    Overlap,    \* may beginCall be entered while another one composes?
    Copy        \* bound on the instances of a card at a time: a set of numbers

Mode == {"inbound_user_dial", "either", "outbound_auto"}

\* The effects on the storyline.  next is the entry card of the chapter that
\* follows, or None.
Attach(c, mode) == [do |-> "attach_call_card", card |-> c, mode |-> mode]
Keep == [do |-> "keep_card_pending"]
EndStory(c, mode) == [do |-> "end_story", next |-> c, mode |-> mode]

Effect == {Keep} \cup {Attach(c, m) : c \in Card, m \in Mode}
          \cup {EndStory(c, m) : c \in Card \cup {None}, m \in Mode}

Inst == Card \X Copy

ASSUME StoryCallsAssumption ==
    /\ IsFiniteSet(Call) /\ Copy # {}
    /\ None \notin Card \cup Agent \cup Mode \cup Inst
    /\ StoryOf \in [Card -> Story] /\ OwnerOf \in [Card -> Agent]
    /\ ExitOf \in [Card -> SUBSET Seq(Effect)]
    /\ Mounted \subseteq Card /\ Simulated \subseteq Card
    /\ Overlap \in BOOLEAN
    \* A chapter's lock allows the agents of its cards.
    /\ \A seed \in Seeds, c \in Card : seed[StoryOf[c]] # None
                       => OwnerOf[c] \in seed[StoryOf[c]].allowed

VARIABLES
    stories,    \* profile.stories
    board,      \* profile.callCards.board: the instances and their status
    mode,       \* the entry mode of an instance
    call        \* the requests and their calls

vars == <<stories, board, mode, call>>

At == {"idle", "composing", "in_call", "ending"}
Source == {"story_pending", "free", "simulate"}

\* What is left of an exit.
Todo == UNION {{SubSeq(x, n, Len(x)) : n \in 1..Len(x)} :
                  x \in UNION {ExitOf[c] : c \in Card}}

CallRecord == [at : At, source : Source \cup {None},
               intent : Intent \cup {"simulate_start", None},
               agent : Agent \cup {None}, inst : Inst \cup {None},
               todo : Todo \cup {<<>>}]

Idle == [at |-> "idle", source |-> None, intent |-> None, agent |-> None,
         inst |-> None, todo |-> <<>>]

TypeOK ==
    /\ stories \in [Story -> Save]
    /\ board \in [Inst -> {"none", "pending", "missed", "active"}]
    /\ mode \in [Inst -> Mode \cup {None}]
    /\ \A i \in Inst : board[i] = "none" <=> mode[i] = None
    /\ call \in [Call -> CallRecord]

Init ==
    /\ \E seed \in Seeds :
          stories = [s \in Story |-> [status |-> "none", lock |-> seed[s]]]
    /\ \E m \in [Mounted -> Mode] :
          LET mounted == {<<c, CHOOSE n \in Copy : TRUE>> : c \in Mounted} IN
          /\ board = [i \in Inst |-> IF i \in mounted THEN "pending" ELSE "none"]
          /\ mode = [i \in Inst |-> IF i \in mounted THEN m[i[1]] ELSE None]
    /\ call = [r \in Call |-> Idle]

-----------------------------------------------------------------------------
(* The board *)

HeldBy(calls) == {calls[r].inst : r \in Call}

Unused(c) == {n \in Copy : board[<<c, n>>] = "none"
                           /\ <<c, n>> \notin HeldBy(call)}

NewInst(c) == <<c, CHOOSE n \in Unused(c) : TRUE>>

Waiting(c) == {i \in Inst : i[1] = c /\ board[i] = "pending"}

\* matchesEntryModeForIntent
Fits(m, intent) == \/ m = "either"
                   \/ m = "inbound_user_dial" /\ intent = "user_dial"
                   \/ m = "outbound_auto" /\ intent = "agent_outbound"

\* pickPendingForIntent: what the intent may pick with this agent; the redial
\* slot, the priorities and the times decide between them.
Pickable(g, intent) ==
    {i \in Inst : /\ OwnerOf[i[1]] = g
                  /\ \/ board[i] = "pending"
                     \/ board[i] = "missed" /\ intent = "user_dial"
                  /\ Fits(mode[i], intent)}

Put(i, status, m) == /\ board' = [board EXCEPT ![i] = status]
                     /\ mode' = [mode EXCEPT ![i] = m]

\* Variant: only the caller's agent has its story cards cleared.
ClearOwn(s, g) == {i \in Inst : OwnerOf[i[1]] = g}

\* clearStoryPendingCards: the story cards of all agents and all chapters.
Clear(s, g) == Inst

-----------------------------------------------------------------------------
(* The beginning of a call *)

\* activeByUser holds no call; unless Overlap, none is about to begin either.
MayBegin == \A r \in Call : call[r].at \in IF Overlap THEN {"idle", "composing"}
                                           ELSE {"idle"}

\* resolve answers and beginCall starts to compose the prompt.
Composes(r, source, intent, g, i) ==
    /\ call[r].at = "idle" /\ MayBegin
    /\ call' = [call EXCEPT ![r] = [at |-> "composing", source |-> source,
                  intent |-> intent, agent |-> g, inst |-> i, todo |-> <<>>]]
    /\ UNCHANGED <<stories, board, mode>>

\* user_dial, agent_outbound: the gate, then a pending card, else a Free call.
\* A request that the gate rejects changes nothing.
Request(r, intent, g) ==
    \E l \in InEffect(stories) :
       \/ /\ Gate(l, g, intent) \in {"allow", "warn"}
          /\ \E i \in Pickable(g, intent) :
                Composes(r, "story_pending", intent, g, i)
       \/ /\ \/ Gate(l, g, intent) = "force_free"
             \/ Gate(l, g, intent) # "reject" /\ Pickable(g, intent) = {}
          /\ Composes(r, "free", intent, g, None)

\* free_call: a Free call, whatever the gate forces.
RequestFree(r, g) ==
    \E l \in InEffect(stories) :
       /\ Gate(l, g, "free_call") # "reject"
       /\ Composes(r, "free", "free_call", g, None)

\* simulate_start: the lock is not looked at, the instance is not on the board.
\* Two more instances must fit in the bound.
Simulate(r, c) ==
    /\ Cardinality(Unused(c)) > 2
    /\ Composes(r, "simulate", "simulate_start", OwnerOf[c], NewInst(c))

\* The prompt can not be composed.
Fails(r) ==
    /\ call[r].at = "composing"
    /\ call' = [call EXCEPT ![r] = Idle]
    /\ UNCHANGED <<stories, board, mode>>

\* The prompt is there: the card is taken and its chapter is active, whatever
\* happened meanwhile.
Begun(r) ==
    LET i == call[r].inst IN
    /\ call[r].at = "composing"
    /\ call' = [call EXCEPT ![r].at = "in_call"]
    /\ board' = IF /\ call[r].source = "story_pending"
                   /\ board[i] \in {"pending", "missed"}
                THEN [board EXCEPT ![i] = "active"] ELSE board
    /\ stories' = IF i = None THEN stories ELSE Activate(stories, StoryOf[i[1]])
    /\ UNCHANGED mode

\* The shell rejects a ring on a waiting card.  One missed instance of a card
\* at a time is enough.
Missed(i) ==
    /\ board[i] = "pending"
    /\ \A j \in Inst : j[1] = i[1] => board[j] # "missed"
    /\ board' = [board EXCEPT ![i] = "missed"]
    /\ UNCHANGED <<stories, mode, call>>

-----------------------------------------------------------------------------
(* The end of a call *)

\* endCall selects an exit of the card; with none the call is aborted, and a
\* Free call has no effects here.
HangUp(r) ==
    /\ call[r].at = "in_call"
    /\ \E x \in IF call[r].inst = None THEN {<<>>}
                ELSE ExitOf[call[r].inst[1]] \cup {<<>>} :
          call' = [call EXCEPT ![r].at = "ending", ![r].todo = x]
    /\ UNCHANGED <<stories, board, mode>>

\* attach_call_card
Attaches(e) == IF Waiting(e.card) # {} THEN UNCHANGED <<board, mode>>
               ELSE Put(NewInst(e.card), "pending", e.mode)

\* Variant: an instance that is not on the board comes back without a mode.
KeepsUnset(i) == Put(i, "pending", mode[i])

\* keep_card_pending: the very instance waits again.
Keeps(i) == Put(i, "pending", IF mode[i] = None THEN "either" ELSE mode[i])

\* Variant: the entry of the next chapter is put on the board first.
EndsAfterNext(i, e) ==
    LET s == StoryOf[i[1]]
        gone == Clear(s, OwnerOf[i[1]])
        done == Complete(stories, s)
    IN
    /\ stories' = IF e.next = None THEN done ELSE Planned(done, StoryOf[e.next])
    /\ board' = [j \in Inst |-> IF j \in gone THEN "none" ELSE board[j]]
    /\ mode' = [j \in Inst |-> IF j \in gone THEN None ELSE mode[j]]

\* end_story: the chapter is completed, its lock released, the board cleared;
\* then the entry of the next chapter is put on the board, a waiting one is
\* taken over with its mode.
Ends(i, e) ==
    LET s == StoryOf[i[1]]
        gone == Clear(s, OwnerOf[i[1]])
        done == Complete(stories, s)
        kept == Waiting(e.next) \ gone
        new == IF e.next = None \/ kept # {} THEN {} ELSE {NewInst(e.next)}
    IN
    /\ stories' = IF e.next = None THEN done ELSE Planned(done, StoryOf[e.next])
    /\ board' = [j \in Inst |-> IF j \in new THEN "pending"
                                ELSE IF j \in gone THEN "none" ELSE board[j]]
    /\ mode' = [j \in Inst |-> IF j \in new THEN e.mode
                               ELSE IF j \in gone THEN None ELSE mode[j]]

\* The next effect of the exit.
RunEffect(r) ==
    /\ call[r].at = "ending" /\ call[r].todo # <<>>
    /\ LET e == Head(call[r].todo) IN
       CASE e.do = "attach_call_card" -> Attaches(e) /\ UNCHANGED stories
         [] e.do = "keep_card_pending" -> Keeps(call[r].inst)
                                          /\ UNCHANGED stories
         [] e.do = "end_story" -> Ends(call[r].inst, e)
    /\ call' = [call EXCEPT ![r].todo = Tail(@)]

\* The user is free.  A played instance stays on the board, where nothing
\* reads it any more: it is dropped.
Over(r) ==
    LET i == call[r].inst
        calls == [call EXCEPT ![r] = Idle]
    IN
    /\ call[r].at = "ending" /\ call[r].todo = <<>>
    /\ call' = calls
    /\ IF i # None /\ board[i] = "active" /\ i \notin HeldBy(calls)
       THEN Put(i, "none", None) ELSE UNCHANGED <<board, mode>>
    /\ UNCHANGED stories

Next ==
    \/ \E r \in Call, g \in Agent :
          \/ \E intent \in {"user_dial", "agent_outbound"} : Request(r, intent, g)
          \/ RequestFree(r, g)
    \/ \E r \in Call, c \in Simulated : Simulate(r, c)
    \/ \E r \in Call : Fails(r) \/ Begun(r) \/ HangUp(r) \/ RunEffect(r) \/ Over(r)
    \/ \E i \in Inst : Missed(i)

Spec == Init /\ [][Next]_vars

-----------------------------------------------------------------------------
(* What the storyline promises *)

\* A chapter that is planned can be begun: its entry waits, or was missed, in a
\* mode in which the user's dial finds it, and no lock in effect turns that dial
\* away or into a Free call (end_story, arrangeChapterNext, beginCall).
NextChapterReachable ==
    \A s \in Story : stories[s].status = "inactive" =>
        \E i \in Inst :
           /\ StoryOf[i[1]] = s
           /\ i \in Pickable(OwnerOf[i[1]], "user_dial")
           /\ \A l \in InEffect(stories) :
                 Gate(l, OwnerOf[i[1]], "user_dial") \in {"allow", "warn"}

\* "The old chapter's cards must go, lest the user dials into a story that is
\* over": no card of a completed chapter waits on any agent's board.
OldChapterCleared ==
    \A i \in Inst : board[i] \in {"pending", "missed"}
                    => stories[StoryOf[i[1]]].status # "completed"

\* The decision table of the lock, as a fact about the calls that go on: an
\* agent outside the lock in effect has a call only where the table has one,
\* and a story call only where the table lets one through.
LockHolds ==
    \A r \in Call : call[r].at = "in_call" /\ call[r].source # "simulate" =>
        \E l \in InEffect(stories) :
           \/ l = None
           \/ call[r].agent \in l.allowed
           \/ l.level = "soft" /\ call[r].intent = "agent_outbound"
           \/ /\ call[r].intent # "agent_outbound"
              /\ \/ l.policy = "allow_with_warning"
                 \/ l.policy = "force_free_suppressed" /\ call[r].source = "free"
                 \/ /\ l.policy = "reject_call" /\ l.level = "soft"
                    /\ call[r].source = "free"

=============================================================================
