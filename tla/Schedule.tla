------------------------------- MODULE Schedule -------------------------------
(***************************************************************************)
(* What the engine does to the schedule and to the board of pending cards  *)
(* in ONE PlayerProfile, for the cards of ONE agent.  Everything here is   *)
(* synchronous code: each operator takes a profile and gives the profile   *)
(* that the code leaves behind.                                            *)
(*                                                                         *)
(* A profile is a record:                                                  *)
(*   clock  profile.schedule.clockMs, in units of which DayLen are a day   *)
(*   rule   the recurring intents                                          *)
(*   row    the once intents                                               *)
(*   board  the card instances in callCards.board, by instanceId           *)
(*                                                                         *)
(* Names.  <<r, d>> is the intentId `r__d<d>` of the occurrence of rule r  *)
(* on day d; <<e, n>> is the row that the n-th execution of effect e adds, *)
(* whose intentId is e.  An instanceId is random in the code; here it is   *)
(* the name of the row or of the execution that created the instance.      *)
(***************************************************************************)
EXTENDS Integers, FiniteSets, FiniteSetsExt

CONSTANTS
    Card,       \* the cards of the agent
    StoryCard,  \* those whose chapter is neither Free nor Schedule
    CardMode,   \* the entryMode of each card's definition
    Rule,       \* the recurring intents (schedule_recurring_call effects)
    RuleCard,   \* the card of each rule
    RuleTime,   \* its time of day
    RuleDays,   \* its weekdays, all of them when it is daily or names none
    Timed,      \* the schedule_call_card effects
    Attach,     \* the attach_call_card effects
    EffectCard, \* the card of each of these effects
    Delay,      \* the delay of each Timed effect
    Activation, \* the activation of each Attach effect
    DayLen,     \* clock units in a day
    Horizon,    \* bound on the clock
    MaxExec,    \* bound on the executions of each effect
    None        \* no instance, no effect, no event, no request

Effect == Timed \cup Attach
Day == 0..(Horizon \div DayLen)
Occurrence == Rule \X Day
Executions(E) == UNION {{e} \X (1..MaxExec[e]) : e \in E}
Executed == Executions(Effect)
Row == Occurrence \cup Executions(Timed)
Inst == Occurrence \cup Executed

\* "unset" is an instance without an entryMode: its card's counts.
Mode == {"either", "outbound_auto", "inbound_user_dial", "unset"}

ASSUME ScheduleAssumption ==
    /\ DayLen \in Nat \ {0} /\ Horizon \in Nat /\ MaxExec \in [Effect -> Nat]
    /\ StoryCard \subseteq Card
    /\ CardMode \in [Card -> Mode \ {"unset"}]
    /\ RuleCard \in [Rule -> Card \ StoryCard]
    /\ RuleTime \in [Rule -> 0..(DayLen - 1)]
    /\ RuleDays \in [Rule -> SUBSET (0..6)]
    /\ EffectCard \in [Effect -> Card]
    /\ Delay \in [Timed -> Nat]
    /\ Activation \in [Attach -> Mode]
    /\ Rule \cap Effect = {} /\ Timed \cap Attach = {}
    /\ None \notin Inst \cup Effect

RuleRecord == [status: {"none", "active", "disabled"},
               last: 0..Horizon,     \* lastMaterializedAtMs
               since: 0..Horizon]    \* history: the clock when it was written

RowRecord == [status: {"none", "pending", "fired", "consumed", "cancelled"},
              at: Nat,               \* fireAtMs
              link: Inst \cup {None},\* linkedInstanceId
              called: BOOLEAN]       \* history: its instance was called

Instance == [status: {"none", "pending", "missed", "active"},
             mode: Mode,             \* entryMode
             by: Effect \cup {None}] \* scheduledIntentId

Profile == [clock: 0..Horizon, rule: [Rule -> RuleRecord],
            row: [Row -> RowRecord], board: [Inst -> Instance]]

NoRow == [status |-> "none", at |-> 0, link |-> None, called |-> FALSE]
NoInstance == [status |-> "none", mode |-> "unset", by |-> None]

NewProfile ==
    [clock |-> 0,
     rule  |-> [r \in Rule |-> [status |-> "none", last |-> 0, since |-> 0]],
     row   |-> [k \in Row |-> NoRow],
     board |-> [i \in Inst |-> NoInstance]]

CardOf(i) == IF i[1] \in Rule THEN RuleCard[i[1]] ELSE EffectCard[i[1]]

OnBoard(p, i) == i # None /\ p.board[i].status # "none"
HasStatus(p, i, status) == i # None /\ p.board[i].status = status

\* The instances of card c that wait to be called.
Waiting(p, c) ==
    {i \in Inst : p.board[i].status = "pending" /\ CardOf(i) = c}

\* What `find` may give: the first waiting instance, or none of them.  The
\* order in which the instances were pushed is not kept.
Existing(p, c) == IF Waiting(p, c) = {} THEN {None} ELSE Waiting(p, c)

PutOnBoard(p, i, mode, by) ==
    [p EXCEPT !.board[i] = [status |-> "pending", mode |-> mode, by |-> by]]

-----------------------------------------------------------------------------
(* Recurring intents *)

OccurrenceAt(r, d) == d * DayLen + RuleTime[r]

MatchesDay(r, d) == d % 7 \in RuleDays[r]

\* A rule whose card the workspace has lost is disabled for good.
Reconcile(p, cards) ==
    [p EXCEPT !.rule = [r \in Rule |->
        IF p.rule[r].status = "active" /\ RuleCard[r] \notin cards
        THEN [p.rule[r] EXCEPT !.status = "disabled"] ELSE p.rule[r]]]

\* Variant: the day on which the interval starts is left out.
DueDaysAfterFirst(p, r, from, to) ==
    {d \in ((from \div DayLen) + 1)..(to \div DayLen) :
        MatchesDay(r, d) /\ OccurrenceAt(r, d) <= to
        /\ OccurrenceAt(r, d) > p.rule[r].last}

\* The days of the interval (from, to] on which r has an occurrence that was
\* not materialized yet.  last = 0 is an undefined lastMaterializedAtMs: no
\* occurrence at 0 is ever in such an interval.
DueDays(p, r, from, to) ==
    {d \in (from \div DayLen)..(to \div DayLen) :
        /\ MatchesDay(r, d)
        /\ OccurrenceAt(r, d) > from /\ OccurrenceAt(r, d) <= to
        /\ OccurrenceAt(r, d) > p.rule[r].last}

Materialize(p, from, to) ==
    LET due == [r \in Rule |-> IF p.rule[r].status = "active"
                               THEN DueDays(p, r, from, to) ELSE {}]
    IN [p EXCEPT
          !.row = [k \in Row |->
              IF k \in Occurrence /\ p.row[k].status = "none" /\ k[2] \in due[k[1]]
              THEN [NoRow EXCEPT !.status = "pending",
                                 !.at = OccurrenceAt(k[1], k[2])]
              ELSE p.row[k]],
          !.rule = [r \in Rule |->
              [p.rule[r] EXCEPT !.last =
                  Max({@} \cup {OccurrenceAt(r, d) : d \in due[r]})]]]

-----------------------------------------------------------------------------
(* Once intents *)

\* Variant: only what is due at this very moment.
DueRowsNow(p) ==
    {k \in Row : p.row[k].status = "pending" /\ p.row[k].at = p.clock}

DueRows(p) ==
    {k \in Row : p.row[k].status = "pending" /\ p.row[k].at <= p.clock}

\* The linked instance is taken: the intent has nothing left to do.
IsConsumed(p, k) ==
    OnBoard(p, p.row[k].link) /\ ~HasStatus(p, p.row[k].link, "pending")

RingingRows(p) == {k \in DueRows(p) : ~IsConsumed(p, k)}

\* The instance that k creates when no instance of its card waits.
OwnInst(p, k) == IF p.row[k].link = None THEN k ELSE p.row[k].link

\* What the due rows of card c find: a waiting instance, or the one that the
\* first of them creates.  The order of the rows is not kept.
Found(p, c) ==
    LET ringing == {k \in RingingRows(p) : CardOf(k) = c} IN
    IF ringing # {} /\ Waiting(p, c) = {}
    THEN {OwnInst(p, k) : k \in ringing} ELSE Existing(p, c)

Finds(p) == {f \in [Card -> UNION {Found(p, c) : c \in Card}] :
                \A c \in Card : f[c] \in Found(p, c)}

\* The instance on which k rings.
Target(p, f, k) == IF HasStatus(p, p.row[k].link, "pending")
                   THEN p.row[k].link ELSE f[CardOf(k)]

\* tickScheduleOnce with the window gate open: every due row fires or is
\* consumed, and the instances it rings on wait on the board.
Fire(p, f) ==
    LET due == DueRows(p)
        ringing == RingingRows(p)
        found == {f[CardOf(k)] : k \in
                    {l \in ringing : ~HasStatus(p, p.row[l].link, "pending")}}
    IN [p EXCEPT
          !.row = [k \in Row |->
              IF k \in ringing
              THEN [p.row[k] EXCEPT !.status = "fired",
                    !.link = IF @ = None THEN Target(p, f, k) ELSE @]
              ELSE IF k \in due
              THEN [p.row[k] EXCEPT !.status = "consumed"] ELSE p.row[k]],
          !.board = [i \in Inst |->
              IF i \notin found THEN p.board[i]
              ELSE IF p.board[i].status = "none"
              THEN [status |-> "pending", mode |-> "outbound_auto", by |-> None]
              ELSE IF p.board[i].mode = "unset"
              THEN [p.board[i] EXCEPT !.mode = "outbound_auto"] ELSE p.board[i]]]

\* The profile with its clock set, before the once intents are looked at.
Forward(p, cards, to) ==
    Materialize([Reconcile(p, cards) EXCEPT !.clock = to], p.clock, to)

\* Variant: the rules are looked at from tomorrow on.
PeekTomorrow(p) ==
    LET onces == {p.row[k].at : k \in {l \in Row :
                      p.row[l].status = "pending" /\ p.row[l].at > p.clock}}
        tomorrow == (p.clock \div DayLen) + 1
        ahead(r) == {OccurrenceAt(r, d) :
                        d \in {x \in tomorrow..(tomorrow + 13) : MatchesDay(r, x)}}
        all == onces \cup UNION {ahead(r) : r \in {s \in Rule :
                                              p.rule[s].status = "active"}}
    IN IF all = {} THEN 0 ELSE Min(all)

\* The next moment after the clock at which an intent is due, or 0 if none.
Peek(p) ==
    LET onces == {p.row[k].at : k \in {l \in Row :
                      p.row[l].status = "pending" /\ p.row[l].at > p.clock}}
        today == p.clock \div DayLen
        ahead(r) == {OccurrenceAt(r, d) : d \in {x \in today..(today + 14) :
                        /\ MatchesDay(r, x)
                        /\ OccurrenceAt(r, x) > p.rule[r].last
                        /\ OccurrenceAt(r, x) > p.clock}}
        all == onces \cup UNION {ahead(r) : r \in {s \in Rule :
                                              p.rule[s].status = "active"}}
    IN IF all = {} THEN 0 ELSE Min(all)

-----------------------------------------------------------------------------
(* beginCall, the shell and the effects of an exit *)

\* consumeLinkedOnceIntent: the rows of instance i, or of the effect that
\* last scheduled it.
LinkedRows(p, i) ==
    {k \in Row : \/ p.row[k].link = i
                 \/ OnBoard(p, i) /\ k[1] = p.board[i].by}

\* Variant: only an intent that fired is consumed.
ConsumeFired(p, i) ==
    [p EXCEPT !.row = [k \in Row |->
        IF k \in LinkedRows(p, i) /\ p.row[k].status = "fired"
        THEN [p.row[k] EXCEPT !.status = "consumed"] ELSE p.row[k]]]

Consume(p, i) ==
    [p EXCEPT !.row = [k \in Row |->
        IF k \in LinkedRows(p, i) /\ p.row[k].status \in {"pending", "fired"}
        THEN [p.row[k] EXCEPT !.status = "consumed"] ELSE p.row[k]]]

Noted(p, i) ==
    [p EXCEPT !.row = [k \in Row |->
        IF k \in LinkedRows(p, i) THEN [p.row[k] EXCEPT !.called = TRUE] ELSE p.row[k]]]

Activate(p, i) ==
    IF HasStatus(p, i, "pending") \/ HasStatus(p, i, "missed")
    THEN [p EXCEPT !.board[i].status = "active"] ELSE p

\* A call on instance i begins.
Begin(p, i) == IF i = None THEN p ELSE Activate(Consume(Noted(p, i), i), i)

\* Variants: whatever the card's status is; the reason written as the status.
MissAlways(p, i) == IF OnBoard(p, i)
                    THEN [p EXCEPT !.board[i].status = "missed"] ELSE p

MissWithReason(p, i) == IF HasStatus(p, i, "pending")
                        THEN [p EXCEPT !.board[i].status = "rejected"] ELSE p

\* markOutboundMissed: only a card that still waits is missed.
Miss(p, i) == IF HasStatus(p, i, "pending")
              THEN [p EXCEPT !.board[i].status = "missed"] ELSE p

\* schedule_call_card: the waiting instance i of the card, or a new one, is
\* linked to one more once intent.
ScheduleCard(p, e, n, i) ==
    LET inst == IF i = None THEN <<e, n>> ELSE i
        card == IF i = None
                THEN PutOnBoard(p, inst, "either", e)
                ELSE [p EXCEPT !.board[i].by = e,
                               !.board[i].mode = IF @ = "unset" THEN "either"
                                                 ELSE @]
    IN [card EXCEPT !.row[<<e, n>>] =
            [NoRow EXCEPT !.status = "pending", !.at = p.clock + Delay[e],
                          !.link = inst]]

\* attach_call_card: nothing if an instance of the card waits.
AttachCard(p, e, n) == IF Waiting(p, EffectCard[e]) # {} THEN p
                       ELSE PutOnBoard(p, <<e, n>>, Activation[e], None)

\* keep_card_pending in a call on instance i; a Free call has no instance, and
\* the exits of Free cards have no such effect.
KeepPending(p, i) == IF OnBoard(p, i)
                     THEN [p EXCEPT !.board[i].status = "pending"]
                     ELSE PutOnBoard(p, i, "unset", None)

RemoveAll(p, S) ==
    [p EXCEPT !.board = [i \in Inst |-> IF i \in S THEN NoInstance ELSE p.board[i]]]

\* unmount_call_card
Unmount(p, c) == RemoveAll(p, Waiting(p, c))

\* end_story: the story cards leave the board, their intents are cancelled.
EndStory(p) ==
    [RemoveAll(p, {i \in Inst : CardOf(i) \in StoryCard}) EXCEPT
        !.row = [k \in Row |->
            IF CardOf(k) \in StoryCard /\ p.row[k].status \in {"pending", "fired"}
            THEN [p.row[k] EXCEPT !.status = "cancelled"] ELSE p.row[k]]]

\* schedule_recurring_call.  The code appends one more intent with the id of
\* the effect; while the old one is active both have the same occurrences.
WriteRule(p, r) ==
    IF p.rule[r].status = "active" THEN p
    ELSE [p EXCEPT !.rule[r] = [status |-> "active", last |-> 0,
                                since |-> p.clock]]

\* pickPendingForIntent: any instance that may be called this way; priority,
\* redial slot and age decide among them.
ModeOf(p, i) == IF p.board[i].mode = "unset" THEN CardMode[CardOf(i)]
                ELSE p.board[i].mode

Dialable(p) ==
    {i \in Inst : /\ p.board[i].status \in {"pending", "missed"}
                  /\ ModeOf(p, i) \in {"inbound_user_dial", "either"}}

Outgoing(p) ==
    {i \in Inst : /\ p.board[i].status = "pending"
                  /\ ModeOf(p, i) \in {"outbound_auto", "either"}}

=============================================================================
