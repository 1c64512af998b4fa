--------------------------- MODULE Outbound_proofs ---------------------------
(***************************************************************************)
(* What holds of the schedule, the rings and the calls of an agent for     *)
(* every set of cards, rules, effects and requests, any length of a day,   *)
(* any horizon and any number of restarts.                                 *)
(***************************************************************************)
EXTENDS Outbound, FiniteSetTheorems, WellFoundedInduction, TLAPS

-----------------------------------------------------------------------------
(* The least and the greatest of a set of numbers *)

LEMMA LeastExists ==
    ASSUME NEW S \in SUBSET Nat, S # {}
    PROVE  \E x \in S : \A y \in S : x <= y
  <1> DEFINE R == OpToRel(<, Nat)
  <1>1. IsWellFoundedOn(R, Nat)
    BY NatLessThanWellFounded
  <1>2. \A x, y \in Nat : y < x => <<y, x>> \in R
    BY DEF OpToRel
  <1> HIDE DEF R
  <1>3. PICK x \in S : \A y \in S : ~ (<<y, x>> \in R)
    BY <1>1, WFMin
  <1>4. ASSUME NEW y \in S PROVE x <= y
    <2>1. x \in Nat /\ y \in Nat
      OBVIOUS
    <2>2. ~ (y < x)
      BY <1>2, <1>3, <2>1
    <2> QED BY <2>1, <2>2
  <1> QED BY <1>4

LEMMA LeastIsMin ==
    ASSUME NEW S \in SUBSET Nat, S # {}
    PROVE  Min(S) \in S /\ \A y \in S : Min(S) <= y
  BY LeastExists DEF Min

LEMMA GreatestIsMax ==
    ASSUME NEW b \in Nat, NEW S \in SUBSET (0..b), S # {}
    PROVE  Max(S) \in S /\ \A y \in S : Max(S) >= y
  <1> DEFINE above == {n \in Nat : \A y \in S : y <= n}
  <1>1. b \in above
    OBVIOUS
  <1>2. PICK m \in above : \A n \in above : m <= n
    <2> HIDE DEF above
    <2>1. above \in SUBSET Nat
      BY DEF above
    <2> QED BY <1>1, <2>1, LeastExists
  <1>3. m \in S
    <2> SUFFICES ASSUME m \notin S PROVE FALSE
      OBVIOUS
    <2>1. \A y \in S : y <= m /\ y # m /\ y \in Nat
      OBVIOUS
    <2>2. PICK y \in S : TRUE
      OBVIOUS
    <2>3. m - 1 \in above
      BY <2>1, <2>2
    <2> QED BY <1>2, <2>3
  <1> QED BY <1>3 DEF Max

-----------------------------------------------------------------------------
(* Names and days *)

LEMMA RowIsInst == Row \subseteq Inst
  BY DEF Row, Inst, Executed, Executions, Effect

LEMMA RowOfEffect ==
    ASSUME NEW e \in Timed, NEW n \in 1..MaxExec[e]
    PROVE  <<e, n>> \in Row
  BY DEF Row, Executions

LEMMA InstOfEffect ==
    ASSUME NEW e \in Effect, NEW n \in 1..MaxExec[e]
    PROVE  <<e, n>> \in Inst
  BY DEF Inst, Executed, Executions

LEMMA CardOfIs == \A i \in Inst : CardOf(i) \in Card
  <1> SUFFICES ASSUME NEW i \in Inst PROVE CardOf(i) \in Card
    OBVIOUS
  <1>1. i[1] \in Rule \/ i[1] \in Effect
    BY DEF Inst, Occurrence, Executed, Executions
  <1>2. CASE i[1] \in Rule
    BY <1>2, ScheduleAssumption DEF CardOf
  <1>3. CASE i[1] \notin Rule
    BY <1>1, <1>3, ScheduleAssumption DEF CardOf
  <1> QED BY <1>2, <1>3

LEMMA TimesOrdered ==
    ASSUME NEW a \in Int, NEW b \in Int, NEW l \in Nat, a <= b
    PROVE  a * l <= b * l
  <1>1. (b - a) * l >= 0
    OBVIOUS
  <1>2. b * l = a * l + (b - a) * l
    OBVIOUS
  <1> QED BY <1>1, <1>2

LEMMA DayOf ==
    ASSUME NEW n \in Nat
    PROVE  /\ n \div DayLen \in Nat
           /\ (n \div DayLen) * DayLen <= n
           /\ n < (n \div DayLen + 1) * DayLen
  <1>1. DayLen \in Nat \ {0}
    BY ScheduleAssumption
  <1> QED BY <1>1

\* An occurrence lies in the day that it is named after.
LEMMA OccurrenceInDay ==
    ASSUME NEW r \in Rule, NEW d \in Int
    PROVE  /\ OccurrenceAt(r, d) \in Int
           /\ d * DayLen <= OccurrenceAt(r, d)
           /\ OccurrenceAt(r, d) < (d + 1) * DayLen
  <1>1. DayLen \in Nat \ {0} /\ RuleTime[r] \in 0..(DayLen - 1)
    BY ScheduleAssumption
  <1>2. d * DayLen \in Int /\ (d + 1) * DayLen = d * DayLen + DayLen
    BY <1>1
  <1> QED BY <1>1, <1>2 DEF OccurrenceAt

\* An occurrence after `from` and up to `to` is on one of the days between.
LEMMA DayBetween ==
    ASSUME NEW r \in Rule, NEW d \in Int, NEW from \in Nat, NEW to \in Nat
    PROVE  /\ OccurrenceAt(r, d) > from => from \div DayLen <= d
           /\ OccurrenceAt(r, d) <= to => d <= to \div DayLen
  <1> DEFINE o == OccurrenceAt(r, d)
             q == from \div DayLen
             u == to \div DayLen
  <1>0. DayLen \in Nat
    BY ScheduleAssumption
  <1>1. o \in Int /\ d * DayLen <= o /\ o < (d + 1) * DayLen
    BY OccurrenceInDay
  <1>2. q \in Nat /\ q * DayLen <= from
    BY DayOf
  <1>3. u \in Nat /\ to < (u + 1) * DayLen
    BY DayOf
  <1> HIDE DEF o, q, u
  <1>4. ASSUME o > from PROVE q <= d
    <2> SUFFICES ASSUME d + 1 <= q PROVE FALSE
      BY <1>2
    <2>1. (d + 1) * DayLen <= q * DayLen
      BY <1>0, <1>2, TimesOrdered
    <2>2. (d + 1) * DayLen \in Int /\ q * DayLen \in Int
      BY <1>0, <1>2
    <2> QED BY <1>1, <1>2, <1>4, <2>1, <2>2
  <1>5. ASSUME o <= to PROVE d <= u
    <2> SUFFICES ASSUME u + 1 <= d PROVE FALSE
      BY <1>3
    <2>1. (u + 1) * DayLen <= d * DayLen
      BY <1>0, <1>3, TimesOrdered
    <2>2. (u + 1) * DayLen \in Int /\ d * DayLen \in Int
      BY <1>0, <1>3
    <2> QED BY <1>1, <1>3, <1>5, <2>1, <2>2
  <1> QED BY <1>4, <1>5 DEF o, q, u

-----------------------------------------------------------------------------
(* What every profile keeps *)

\* No occurrence of a rule was left out, up to the clock.
Covered(p) ==
    \A r \in Rule :
        /\ p.rule[r].last <= p.clock /\ p.rule[r].since <= p.clock
        /\ \A d \in Day :
              /\ p.rule[r].status = "active" /\ MatchesDay(r, d)
              /\ OccurrenceAt(r, d) > p.rule[r].since
              /\ OccurrenceAt(r, d) <= p.clock
              => p.row[<<r, d>>].status # "none"

\* An intent whose card was called does not wait any more.
Heard(p) == \A k \in Row : p.row[k].called => p.row[k].status # "pending"

Sane(p) == p \in Profile /\ Covered(p) /\ Heard(p)

LEMMA ProfileParts ==
    ASSUME NEW p \in Profile
    PROVE  /\ p.clock \in 0..Horizon
           /\ p.rule \in [Rule -> RuleRecord]
           /\ p.row \in [Row -> RowRecord]
           /\ p.board \in [Inst -> Instance]
           /\ Horizon \in Nat /\ p.clock \in Nat
  BY ScheduleAssumption DEF Profile

\* Rows do not go, and an intent that waits was not called.
RowsStay(p, q) ==
    \A k \in Row : /\ p.row[k].status # "none" => q.row[k].status # "none"
                   /\ q.row[k].called /\ q.row[k].status = "pending"
                          => p.row[k].called /\ p.row[k].status = "pending"

LEMMA StaysSane ==
    ASSUME NEW p, Sane(p), NEW q \in Profile,
           q.clock = p.clock, q.rule = p.rule, RowsStay(p, q)
    PROVE  Sane(q)
  <1>1. \A r \in Rule, d \in Day : <<r, d>> \in Row
    BY DEF Row, Occurrence
  <1>2. Covered(q)
    BY <1>1 DEF Sane, Covered, RowsStay
  <1>3. Heard(q)
    BY DEF Sane, Heard, RowsStay
  <1> QED BY <1>2, <1>3 DEF Sane

-----------------------------------------------------------------------------
(* The clock *)

LEMMA ReconcileIs ==
    ASSUME NEW p, Sane(p), NEW cs
    PROVE  LET q == Reconcile(p, cs) IN
           /\ Sane(q)
           /\ q.clock = p.clock /\ q.row = p.row /\ q.board = p.board
           /\ \A r \in Rule : /\ q.rule[r].last = p.rule[r].last
                              /\ q.rule[r].since = p.rule[r].since
                              /\ q.rule[r].status = "active"
                                     => p.rule[r].status = "active"
  <1> DEFINE rule == [r \in Rule |->
        IF p.rule[r].status = "active" /\ RuleCard[r] \notin cs
        THEN [p.rule[r] EXCEPT !.status = "disabled"] ELSE p.rule[r]]
             q == [p EXCEPT !.rule = rule]
  <1>1. /\ p.clock \in 0..Horizon /\ p.rule \in [Rule -> RuleRecord]
        /\ p.row \in [Row -> RowRecord] /\ p.board \in [Inst -> Instance]
        /\ p \in Profile
    BY ProfileParts DEF Sane
  <1>2. \A r \in Rule : /\ rule[r] \in RuleRecord
                        /\ rule[r].last = p.rule[r].last
                        /\ rule[r].since = p.rule[r].since
                        /\ rule[r].status = "active" => p.rule[r].status = "active"
    BY <1>1 DEF RuleRecord
  <1>3. rule \in [Rule -> RuleRecord]
    BY <1>2
  <1> HIDE DEF rule
  <1>4. /\ q \in Profile /\ q.rule = rule
        /\ q.clock = p.clock /\ q.row = p.row /\ q.board = p.board
    BY <1>1, <1>3 DEF Profile
  <1>5. Sane(q)
    BY <1>2, <1>4 DEF Sane, Covered, Heard
  <1>6. Reconcile(p, cs) = q
    BY DEF Reconcile, rule
  <1> QED BY <1>2, <1>4, <1>5, <1>6

\* What materializing the occurrences between two moments does.
LEMMA MaterializeIs ==
    ASSUME NEW p \in Profile, NEW from \in Nat, NEW to \in 0..Horizon,
           \A r \in Rule : p.rule[r].last <= to
    PROVE  LET q == Materialize(p, from, to) IN
           /\ q \in Profile /\ q.clock = p.clock /\ q.board = p.board
           /\ \A r \in Rule : /\ q.rule[r].status = p.rule[r].status
                              /\ q.rule[r].since = p.rule[r].since
                              /\ q.rule[r].last <= to
           /\ \A k \in Row : \/ q.row[k] = p.row[k]
                             \/ /\ p.row[k].status = "none"
                                /\ q.row[k].status = "pending"
                                /\ ~q.row[k].called
           /\ \A r \in Rule, d \in Day :
                 p.rule[r].status = "active" /\ d \in DueDays(p, r, from, to)
                     => q.row[<<r, d>>].status # "none"
  <1> DEFINE due == [r \in Rule |-> IF p.rule[r].status = "active"
                               THEN DueDays(p, r, from, to) ELSE {}]
             row == [k \in Row |->
              IF k \in Occurrence /\ p.row[k].status = "none" /\ k[2] \in due[k[1]]
              THEN [NoRow EXCEPT !.status = "pending",
                                 !.at = OccurrenceAt(k[1], k[2])]
              ELSE p.row[k]]
             last(r) == Max({p.rule[r].last} \cup {OccurrenceAt(r, d) : d \in due[r]})
             rule == [r \in Rule |-> [p.rule[r] EXCEPT !.last =
                  Max({@} \cup {OccurrenceAt(r, d) : d \in due[r]})]]
             q == [p EXCEPT !.row = row, !.rule = rule]
  <1>1. /\ p.clock \in 0..Horizon /\ p.rule \in [Rule -> RuleRecord]
        /\ p.row \in [Row -> RowRecord] /\ p.board \in [Inst -> Instance]
        /\ Horizon \in Nat
    BY ProfileParts
  <1>2. ASSUME NEW r \in Rule, NEW d \in due[r]
        PROVE  OccurrenceAt(r, d) \in 0..to
    <2>1. d \in DueDays(p, r, from, to)
      BY <1>2
    <2>2. d \in Int /\ OccurrenceAt(r, d) > from /\ OccurrenceAt(r, d) <= to
      <3>1. from \div DayLen \in Nat /\ to \div DayLen \in Nat
        BY <1>1, DayOf
      <3> QED BY <2>1, <3>1 DEF DueDays
    <2>3. OccurrenceAt(r, d) \in Int
      BY <2>2, OccurrenceInDay
    <2> QED BY <2>2, <2>3
  <1>3. ASSUME NEW k \in Row PROVE row[k] \in RowRecord
    <2>1. CASE k \in Occurrence /\ p.row[k].status = "none" /\ k[2] \in due[k[1]]
      <3>1. k[1] \in Rule
        BY <2>1 DEF Occurrence
      <3>2. OccurrenceAt(k[1], k[2]) \in Nat
        BY <1>1, <1>2, <2>1, <3>1
      <3>3. row[k] = [status |-> "pending", at |-> OccurrenceAt(k[1], k[2]),
                      link |-> None, called |-> FALSE]
        BY <2>1 DEF NoRow
      <3> DEFINE n == OccurrenceAt(k[1], k[2])
      <3> HIDE DEF n, row
      <3> QED BY <3>2, <3>3 DEF RowRecord, n
    <2>2. CASE ~(k \in Occurrence /\ p.row[k].status = "none" /\ k[2] \in due[k[1]])
      BY <1>1, <2>2
    <2> QED BY <2>1, <2>2
  <1>4. ASSUME NEW r \in Rule PROVE last(r) \in 0..to
    <2> DEFINE S == {p.rule[r].last} \cup {OccurrenceAt(r, d) : d \in due[r]}
    <2>1. p.rule[r].last \in 0..to
      BY <1>1 DEF RuleRecord
    <2>2. S \in SUBSET (0..to) /\ S # {}
      BY <1>2, <2>1
    <2> HIDE DEF S
    <2>3. to \in Nat
      BY <1>1
    <2>4. Max(S) \in S
      BY <2>2, <2>3, GreatestIsMax
    <2> QED BY <2>2, <2>4 DEF S
  <1>5. \A k \in Row : \/ row[k] = p.row[k]
                       \/ /\ p.row[k].status = "none"
                          /\ row[k].status = "pending" /\ ~row[k].called
    BY DEF NoRow
  <1>6. \A r \in Rule, d \in Day :
           p.rule[r].status = "active" /\ d \in DueDays(p, r, from, to)
               => row[<<r, d>>].status # "none"
    <2> SUFFICES ASSUME NEW r \in Rule, NEW d \in Day,
                        p.rule[r].status = "active", d \in DueDays(p, r, from, to)
                 PROVE  row[<<r, d>>].status # "none"
      OBVIOUS
    <2> DEFINE k == <<r, d>>
    <2>1. k \in Occurrence /\ k \in Row /\ k[1] = r /\ k[2] = d
      BY DEF Row, Occurrence
    <2>2. d \in due[r]
      OBVIOUS
    <2> HIDE DEF due
    <2>3. CASE p.row[k].status = "none"
      BY <2>1, <2>2, <2>3 DEF NoRow
    <2>4. CASE p.row[k].status # "none"
      BY <2>1, <2>4
    <2> QED BY <2>3, <2>4
  <1>7. \A r \in Rule : /\ rule[r] \in RuleRecord /\ rule[r].last <= to
                        /\ rule[r].status = p.rule[r].status
                        /\ rule[r].since = p.rule[r].since
    <2> SUFFICES ASSUME NEW r \in Rule
                 PROVE  /\ rule[r] \in RuleRecord /\ rule[r].last <= to
                        /\ rule[r].status = p.rule[r].status
                        /\ rule[r].since = p.rule[r].since
      OBVIOUS
    <2> DEFINE n == last(r)
    <2>1. n \in 0..to /\ n \in 0..Horizon
      BY <1>1, <1>4
    <2>2. rule[r] = [p.rule[r] EXCEPT !.last = n]
      OBVIOUS
    <2>3. p.rule[r] \in RuleRecord
      BY <1>1
    <2> HIDE DEF n, rule
    <2> QED BY <2>1, <2>2, <2>3 DEF RuleRecord
  <1>8. Materialize(p, from, to) = q
    BY DEF Materialize
  <1>9. row \in [Row -> RowRecord] /\ rule \in [Rule -> RuleRecord]
    BY <1>3, <1>7
  <1> HIDE DEF row, rule
  <1>10. /\ q \in Profile /\ q.clock = p.clock /\ q.board = p.board
         /\ q.row = row /\ q.rule = rule
    BY <1>1, <1>9 DEF Profile
  <1> QED BY <1>5, <1>6, <1>7, <1>8, <1>10

LEMMA ForwardIs ==
    ASSUME NEW p, Sane(p), NEW cs, NEW to \in p.clock..Horizon
    PROVE  LET q == Forward(p, cs, to) IN
           /\ Sane(q) /\ q.clock = to /\ q.board = p.board
           /\ \A k \in Row : \/ q.row[k] = p.row[k]
                             \/ /\ p.row[k].status = "none"
                                /\ q.row[k].status = "pending"
                                /\ ~q.row[k].called
  <1> DEFINE a == Reconcile(p, cs)
             b == [a EXCEPT !.clock = to]
             q == Materialize(b, p.clock, to)
  <1>1. /\ Sane(a) /\ a.clock = p.clock /\ a.row = p.row /\ a.board = p.board
        /\ \A r \in Rule : /\ a.rule[r].last = p.rule[r].last
                           /\ a.rule[r].since = p.rule[r].since
    BY ReconcileIs
  <1>2. /\ a \in Profile /\ p \in Profile /\ p.clock \in Nat
        /\ to \in 0..Horizon /\ p.clock <= to /\ Horizon \in Nat
    BY <1>1, ProfileParts DEF Sane
  <1> HIDE DEF a
  <1>3. /\ b \in Profile /\ b.clock = to /\ b.rule = a.rule
        /\ b.row = p.row /\ b.board = p.board
    BY <1>1, <1>2 DEF Profile
  <1>4. \A r \in Rule : /\ b.rule[r].last \in Int /\ b.rule[r].since \in Int
                        /\ b.rule[r].last <= p.clock
                        /\ b.rule[r].since <= p.clock
    <2>1. a.rule \in [Rule -> RuleRecord]
      BY <1>2, ProfileParts
    <2> QED BY <1>1, <1>2, <1>3, <2>1 DEF Sane, Covered, RuleRecord
  <1>5. \A r \in Rule : b.rule[r].last <= to
    BY <1>2, <1>4
  <1> HIDE DEF b
  <1>6. /\ q \in Profile /\ q.clock = to /\ q.board = p.board
        /\ \A r \in Rule : /\ q.rule[r].status = b.rule[r].status
                           /\ q.rule[r].since = b.rule[r].since
                           /\ q.rule[r].last <= to
        /\ \A k \in Row : \/ q.row[k] = p.row[k]
                          \/ /\ p.row[k].status = "none"
                             /\ q.row[k].status = "pending"
                             /\ ~q.row[k].called
        /\ \A r \in Rule, d \in Day :
              b.rule[r].status = "active" /\ d \in DueDays(b, r, p.clock, to)
                  => q.row[<<r, d>>].status # "none"
    <2> DEFINE now == p.clock
    <2>1. b \in Profile /\ now \in Nat /\ to \in 0..Horizon
      BY <1>2, <1>3
    <2>2. q = Materialize(b, now, to)
      OBVIOUS
    <2> HIDE DEF now, q
    <2>3. /\ q \in Profile /\ q.clock = b.clock /\ q.board = b.board
          /\ \A r \in Rule : /\ q.rule[r].status = b.rule[r].status
                             /\ q.rule[r].since = b.rule[r].since
                             /\ q.rule[r].last <= to
          /\ \A k \in Row : \/ q.row[k] = b.row[k]
                            \/ /\ b.row[k].status = "none"
                               /\ q.row[k].status = "pending"
                               /\ ~q.row[k].called
          /\ \A r \in Rule, d \in Day :
                b.rule[r].status = "active" /\ d \in DueDays(b, r, now, to)
                    => q.row[<<r, d>>].status # "none"
      BY <1>5, <2>1, <2>2, MaterializeIs
    <2> QED BY <1>3, <2>3 DEF now
  <1> HIDE DEF q
  <1>7. Heard(q)
    BY <1>1, <1>3, <1>6 DEF Sane, Heard
  <1>8. ASSUME NEW r \in Rule, NEW d \in Day,
               q.rule[r].status = "active", MatchesDay(r, d),
               OccurrenceAt(r, d) > q.rule[r].since, OccurrenceAt(r, d) <= to
        PROVE  q.row[<<r, d>>].status # "none"
    <2>0. <<r, d>> \in Row /\ d \in Int
      BY DEF Row, Occurrence, Day
    <2>1. OccurrenceAt(r, d) \in Int
      BY <2>0, OccurrenceInDay
    <2>2. CASE OccurrenceAt(r, d) <= p.clock
      <3>1. a.row[<<r, d>>].status # "none"
        BY <1>1, <1>3, <1>6, <1>8, <2>2 DEF Sane, Covered
      <3> QED BY <1>1, <1>6, <2>0, <3>1
    <2>3. CASE OccurrenceAt(r, d) > p.clock
      <3>1. d \in (p.clock \div DayLen)..(to \div DayLen)
        <4>1. /\ p.clock \div DayLen <= d /\ d <= to \div DayLen
          BY <1>2, <1>8, <2>0, <2>3, DayBetween
        <4>2. p.clock \div DayLen \in Nat /\ to \div DayLen \in Nat
          BY <1>2, DayOf
        <4> QED BY <2>0, <4>1, <4>2
      <3>2. OccurrenceAt(r, d) > b.rule[r].last
        BY <1>2, <1>4, <2>1, <2>3
      <3>3. d \in DueDays(b, r, p.clock, to)
        BY <1>8, <2>3, <3>1, <3>2 DEF DueDays
      <3> QED BY <1>6, <1>8, <3>3
    <2> QED BY <1>2, <2>1, <2>2, <2>3
  <1>9. Covered(q)
    BY <1>2, <1>3, <1>4, <1>6, <1>8 DEF Covered
  <1>10. Forward(p, cs, to) = q
    BY DEF Forward, q, b, a
  <1> QED BY <1>6, <1>7, <1>9, <1>10 DEF Sane

-----------------------------------------------------------------------------
(* The intents that fire *)

\* How the clock and the shell move the instances: an intent puts a new one on
\* the board, a rejected ring is missed, nothing else changes a status.
BoardMoves(p, q) ==
    \A i \in Inst :
        \/ q.board[i].status = p.board[i].status
        \/ p.board[i].status = "none" /\ q.board[i].status = "pending"
        \/ p.board[i].status = "pending" /\ q.board[i].status = "missed"

LEMMA TargetIsInst ==
    ASSUME NEW p \in Profile, NEW f \in Finds(p), NEW k \in RingingRows(p)
    PROVE  f[CardOf(k)] \in Inst /\ Target(p, f, k) \in Inst
  <1>1. k \in Row /\ k \in Inst /\ CardOf(k) \in Card
    BY RowIsInst, CardOfIs DEF RingingRows, DueRows
  <1>2. f[CardOf(k)] \in Found(p, CardOf(k))
    BY <1>1 DEF Finds
  <1>3. \A l \in Row : p.row[l].link \in Inst \cup {None}
    BY ProfileParts DEF RowRecord
  <1>4. Found(p, CardOf(k)) \subseteq Inst
    <2>1. CASE Waiting(p, CardOf(k)) = {}
      <3>1. Found(p, CardOf(k))
            = {OwnInst(p, l) : l \in {m \in RingingRows(p) : CardOf(m) = CardOf(k)}}
        BY <2>1 DEF Found
      <3>2. \A l \in RingingRows(p) : OwnInst(p, l) \in Inst
        BY <1>3, RowIsInst DEF OwnInst, RingingRows, DueRows
      <3> QED BY <3>1, <3>2
    <2>2. CASE Waiting(p, CardOf(k)) # {}
      BY <2>2 DEF Found, Existing, Waiting
    <2> QED BY <2>1, <2>2
  <1>5. HasStatus(p, p.row[k].link, "pending") => p.row[k].link \in Inst
    BY <1>1, <1>3 DEF HasStatus
  <1> QED BY <1>2, <1>4, <1>5 DEF Target

LEMMA FireIs ==
    ASSUME NEW p, Sane(p), NEW f \in Finds(p)
    PROVE  Sane(Fire(p, f)) /\ BoardMoves(p, Fire(p, f))
           /\ Fire(p, f).clock = p.clock
  <1> DEFINE due == DueRows(p)
             ringing == RingingRows(p)
             found == {f[CardOf(k)] : k \in
                        {l \in ringing : ~HasStatus(p, p.row[l].link, "pending")}}
             link(k) == IF p.row[k].link = None THEN Target(p, f, k)
                        ELSE p.row[k].link
             row == [k \in Row |->
              IF k \in ringing
              THEN [p.row[k] EXCEPT !.status = "fired",
                    !.link = IF @ = None THEN Target(p, f, k) ELSE @]
              ELSE IF k \in due
              THEN [p.row[k] EXCEPT !.status = "consumed"] ELSE p.row[k]]
             board == [i \in Inst |->
              IF i \notin found THEN p.board[i]
              ELSE IF p.board[i].status = "none"
              THEN [status |-> "pending", mode |-> "outbound_auto", by |-> None]
              ELSE IF p.board[i].mode = "unset"
              THEN [p.board[i] EXCEPT !.mode = "outbound_auto"] ELSE p.board[i]]
             q == [p EXCEPT !.row = row, !.board = board]
  <1>1. /\ p.clock \in 0..Horizon /\ p.rule \in [Rule -> RuleRecord]
        /\ p.row \in [Row -> RowRecord] /\ p.board \in [Inst -> Instance]
        /\ p \in Profile
    BY ProfileParts DEF Sane
  <1>2. ASSUME NEW k \in Row
        PROVE  /\ row[k] \in RowRecord
               /\ row[k].status \in {"fired", "consumed"} \/ row[k] = p.row[k]
    <2>1. CASE k \in ringing
      <3> DEFINE l == link(k)
      <3>1. l \in Inst \cup {None}
        BY <1>1, <2>1, TargetIsInst DEF RowRecord
      <3>2. row[k] = [p.row[k] EXCEPT !.status = "fired", !.link = l]
        BY <2>1
      <3>3. p.row[k] \in RowRecord
        BY <1>1
      <3> HIDE DEF l, row
      <3> QED BY <3>1, <3>2, <3>3 DEF RowRecord
    <2>2. CASE k \notin ringing /\ k \in due
      <3>1. row[k] = [p.row[k] EXCEPT !.status = "consumed"]
        BY <2>2
      <3>2. p.row[k] \in RowRecord
        BY <1>1
      <3> HIDE DEF row
      <3> QED BY <3>1, <3>2 DEF RowRecord
    <2>3. CASE k \notin ringing /\ k \notin due
      BY <1>1, <2>3
    <2> QED BY <2>1, <2>2, <2>3
  <1>3. ASSUME NEW i \in Inst
        PROVE  /\ board[i] \in Instance
               /\ \/ board[i].status = p.board[i].status
                  \/ p.board[i].status = "none" /\ board[i].status = "pending"
    <2>1. p.board[i] \in Instance
      BY <1>1
    <2>2. CASE i \in found /\ p.board[i].status = "none"
      BY <2>2 DEF Instance, Mode
    <2>3. CASE i \in found /\ p.board[i].status # "none" /\ p.board[i].mode = "unset"
      <3>1. board[i] = [p.board[i] EXCEPT !.mode = "outbound_auto"]
        BY <2>3
      <3> HIDE DEF board
      <3> QED BY <2>1, <3>1 DEF Instance, Mode
    <2>4. CASE i \notin found \/ (p.board[i].status # "none" /\ p.board[i].mode # "unset")
      BY <2>1, <2>4
    <2> QED BY <2>2, <2>3, <2>4
  <1>4. row \in [Row -> RowRecord] /\ board \in [Inst -> Instance]
    BY <1>2, <1>3
  <1>5. Fire(p, f) = q
    BY DEF Fire
  <1> HIDE DEF row, board
  <1>6. /\ q \in Profile /\ q.row = row /\ q.board = board
        /\ q.clock = p.clock /\ q.rule = p.rule
    BY <1>1, <1>4 DEF Profile
  <1> HIDE DEF q
  <1>7. RowsStay(p, q)
    BY <1>2, <1>6 DEF RowsStay
  <1>8. BoardMoves(p, q)
    BY <1>3, <1>6 DEF BoardMoves
  <1> QED BY <1>5, <1>6, <1>7, <1>8, StaysSane


-----------------------------------------------------------------------------
(* What the calls and the effects do to a profile *)

LEMMA BoardSet ==
    ASSUME NEW p, Sane(p), NEW board \in [Inst -> Instance]
    PROVE  LET q == [p EXCEPT !.board = board] IN
           /\ Sane(q) /\ q.board = board
           /\ q.clock = p.clock /\ q.row = p.row /\ q.rule = p.rule
  <1> DEFINE q == [p EXCEPT !.board = board]
  <1>1. p \in Profile
    BY DEF Sane
  <1>2. /\ q \in Profile /\ q.board = board
        /\ q.clock = p.clock /\ q.row = p.row /\ q.rule = p.rule
    BY <1>1 DEF Profile
  <1> HIDE DEF q
  <1>3. RowsStay(p, q)
    BY <1>2 DEF RowsStay
  <1>4. Sane(q)
    BY <1>2, <1>3, StaysSane
  <1> QED BY <1>2, <1>4 DEF q

LEMMA RowsSet ==
    ASSUME NEW p, Sane(p), NEW row \in [Row -> RowRecord],
           \A k \in Row :
              /\ p.row[k].status # "none" => row[k].status # "none"
              /\ row[k].called => row[k].status # "pending"
    PROVE  LET q == [p EXCEPT !.row = row] IN
           /\ Sane(q) /\ q.row = row
           /\ q.clock = p.clock /\ q.board = p.board /\ q.rule = p.rule
  <1> DEFINE q == [p EXCEPT !.row = row]
  <1>1. p \in Profile
    BY DEF Sane
  <1>2. /\ q \in Profile /\ q.row = row
        /\ q.clock = p.clock /\ q.board = p.board /\ q.rule = p.rule
    BY <1>1 DEF Profile
  <1> HIDE DEF q
  <1>3. RowsStay(p, q)
    BY <1>2 DEF RowsStay
  <1>4. Sane(q)
    BY <1>2, <1>3, StaysSane
  <1> QED BY <1>2, <1>4 DEF q

LEMMA MissIs ==
    ASSUME NEW p, Sane(p), NEW i \in Inst
    PROVE  Sane(Miss(p, i)) /\ BoardMoves(p, Miss(p, i))
  <1> DEFINE card == [p.board[i] EXCEPT !.status = "missed"]
             board == [p.board EXCEPT ![i] = card]
             q == [p EXCEPT !.board = board]
  <1>1. p.board \in [Inst -> Instance]
    BY ProfileParts DEF Sane
  <1>2. card \in Instance /\ card.status = "missed"
    BY <1>1 DEF Instance
  <1> HIDE DEF card
  <1>3. board \in [Inst -> Instance]
    BY <1>1, <1>2
  <1>4. CASE HasStatus(p, i, "pending")
    <2>1. Miss(p, i) = q
      BY <1>4 DEF Miss, card
    <2>2. \A j \in Inst : board[j].status = p.board[j].status \/
                          (j = i /\ board[j].status = "missed")
      BY <1>1, <1>2
    <2> HIDE DEF board
    <2>3. Sane(q) /\ q.board = board
      BY <1>3, BoardSet
    <2>4. BoardMoves(p, q)
      BY <1>4, <2>2, <2>3 DEF BoardMoves, HasStatus
    <2> QED BY <2>1, <2>3, <2>4
  <1>5. CASE ~HasStatus(p, i, "pending")
    BY <1>5 DEF Miss, BoardMoves
  <1> QED BY <1>4, <1>5

\* A call begins: its intents are consumed, its card is taken.
LEMMA BeginIs ==
    ASSUME NEW p, Sane(p), NEW i \in Inst \cup {None}
    PROVE  LET q == Begin(p, i) IN
           /\ Sane(q) /\ q.clock = p.clock
           /\ i # None /\ p.board[i].status \in {"pending", "missed"}
                  => q.board[i].status = "active"
  <1>1. CASE i = None
    BY <1>1 DEF Begin
  <1>2. CASE i # None
    <2> DEFINE linked == LinkedRows(p, i)
               rowA == [k \in Row |-> IF k \in linked
                            THEN [p.row[k] EXCEPT !.called = TRUE] ELSE p.row[k]]
               a == [p EXCEPT !.row = rowA]
               rowB == [k \in Row |->
                   IF k \in linked /\ rowA[k].status \in {"pending", "fired"}
                   THEN [rowA[k] EXCEPT !.status = "consumed"] ELSE rowA[k]]
               b == [p EXCEPT !.row = rowB]
               c == [a EXCEPT !.row = rowB]
    <2>1. /\ p \in Profile /\ p.row \in [Row -> RowRecord]
          /\ p.board \in [Inst -> Instance]
      BY ProfileParts DEF Sane
    <2>2. ASSUME NEW k \in Row
          PROVE  /\ rowA[k] \in RowRecord
                 /\ rowA[k].status = p.row[k].status
                 /\ rowA[k].link = p.row[k].link
                 /\ k \notin linked => rowA[k] = p.row[k]
      <3>1. p.row[k] \in RowRecord
        BY <2>1
      <3> HIDE DEF linked
      <3>2. CASE k \in linked
        <4>1. rowA[k] = [p.row[k] EXCEPT !.called = TRUE]
          BY <3>2
        <4> HIDE DEF rowA
        <4> QED BY <3>1, <3>2, <4>1 DEF RowRecord
      <3>3. CASE k \notin linked
        BY <3>1, <3>3
      <3> QED BY <3>2, <3>3
    <2>3. a = Noted(p, i)
      BY DEF Noted
    <2>4. /\ a.row = rowA /\ a.board = p.board /\ a.clock = p.clock
          /\ a.rule = p.rule
      <3> HIDE DEF rowA
      <3> QED BY <2>1 DEF Profile
    <2> HIDE DEF linked, rowA, a
    <2>5. LinkedRows(a, i) = linked
      BY <2>2, <2>4 DEF LinkedRows, linked, OnBoard
    <2>6. Consume(a, i) = c
      BY <2>4, <2>5 DEF Consume
    <2>7. ASSUME NEW k \in Row
          PROVE  /\ rowB[k] \in RowRecord
                 /\ p.row[k].status # "none" => rowB[k].status # "none"
                 /\ rowB[k].called => rowB[k].status # "pending"
      <3>1. rowA[k] \in RowRecord /\ rowA[k].status = p.row[k].status
        BY <2>2
      <3>2. CASE k \in linked /\ rowA[k].status \in {"pending", "fired"}
        <4>1. rowB[k] = [rowA[k] EXCEPT !.status = "consumed"]
          BY <3>2
        <4> HIDE DEF rowB
        <4> QED BY <3>1, <4>1 DEF RowRecord
      <3>3. CASE k \in linked /\ rowA[k].status \notin {"pending", "fired"}
        BY <3>1, <3>3
      <3>4. CASE k \notin linked
        BY <2>2, <3>1, <3>4 DEF Sane, Heard
      <3> QED BY <3>2, <3>3, <3>4
    <2>8. rowB \in [Row -> RowRecord]
      BY <2>7
    <2> HIDE DEF rowB
    <2>9. c = b
      BY <2>1 DEF a, Profile
    <2>10. Sane(b) /\ b.clock = p.clock /\ b.board = p.board
      BY <2>7, <2>8, RowsSet
    <2>11. Begin(p, i) = Activate(b, i)
      BY <1>2, <2>3, <2>6, <2>9 DEF Begin
    <2> HIDE DEF b
    <2> DEFINE card == [b.board[i] EXCEPT !.status = "active"]
               board == [b.board EXCEPT ![i] = card]
               q == [b EXCEPT !.board = board]
    <2>12. card \in Instance /\ card.status = "active"
      BY <1>2, <2>1, <2>10 DEF Instance
    <2>13. CASE HasStatus(b, i, "pending") \/ HasStatus(b, i, "missed")
      <3>1. Activate(b, i) = q
        BY <2>13 DEF Activate
      <3> HIDE DEF card
      <3>2. board \in [Inst -> Instance] /\ board[i].status = "active"
        BY <1>2, <2>1, <2>10, <2>12
      <3> HIDE DEF board
      <3>3. Sane(q) /\ q.board = board /\ q.clock = b.clock
        BY <2>10, <3>2, BoardSet
      <3> QED BY <2>10, <2>11, <3>1, <3>2, <3>3
    <2>14. CASE ~(HasStatus(b, i, "pending") \/ HasStatus(b, i, "missed"))
      <3>1. Activate(b, i) = b
        BY <2>14 DEF Activate
      <3>2. ~(p.board[i].status \in {"pending", "missed"})
        BY <1>2, <2>10, <2>14 DEF HasStatus
      <3> QED BY <2>10, <2>11, <3>1, <3>2
    <2> QED BY <2>13, <2>14
  <1> QED BY <1>1, <1>2

LEMMA PutIs ==
    ASSUME NEW p, Sane(p), NEW i \in Inst, NEW mode \in Mode,
           NEW by \in Effect \cup {None}
    PROVE  LET q == PutOnBoard(p, i, mode, by) IN
           Sane(q) /\ q.clock = p.clock /\ q.row = p.row
  <1> DEFINE card == [status |-> "pending", mode |-> mode, by |-> by]
             board == [p.board EXCEPT ![i] = card]
  <1>1. p.board \in [Inst -> Instance]
    BY ProfileParts DEF Sane
  <1>2. card \in Instance
    BY DEF Instance
  <1>3. PutOnBoard(p, i, mode, by) = [p EXCEPT !.board = board]
    BY DEF PutOnBoard
  <1> HIDE DEF card
  <1>4. board \in [Inst -> Instance]
    BY <1>1, <1>2
  <1> HIDE DEF board
  <1> QED BY <1>3, <1>4, BoardSet

LEMMA ScheduleIs ==
    ASSUME NEW p, Sane(p), NEW e \in Timed, NEW n \in 1..MaxExec[e],
           NEW i \in Inst \cup {None}
    PROVE  Sane(ScheduleCard(p, e, n, i))
  <1>1. <<e, n>> \in Row /\ <<e, n>> \in Inst /\ e \in Effect
    BY RowOfEffect, InstOfEffect DEF Effect
  <1>2. PICK inst \in Inst : inst = IF i = None THEN <<e, n>> ELSE i
    BY <1>1
  <1>3. PICK a : /\ Sane(a) /\ a.clock = p.clock /\ a.row = p.row
                 /\ a = IF i = None THEN PutOnBoard(p, inst, "either", e)
                        ELSE [p EXCEPT !.board[i].by = e,
                                       !.board[i].mode = IF @ = "unset"
                                                 THEN "either" ELSE @]
    <2>1. CASE i = None
      <3>1. "either" \in Mode /\ e \in Effect \cup {None}
        BY <1>1 DEF Mode
      <3>2. /\ Sane(PutOnBoard(p, inst, "either", e))
            /\ PutOnBoard(p, inst, "either", e).clock = p.clock
            /\ PutOnBoard(p, inst, "either", e).row = p.row
        BY <3>1, PutIs
      <3> QED BY <2>1, <3>2
    <2>2. CASE i # None
      <3>1. p.board \in [Inst -> Instance] /\ i \in Inst
        BY <2>2, ProfileParts DEF Sane
      <3>2. p.board[i] \in Instance
        BY <3>1
      <3>3. PICK mode \in Mode : mode = IF p.board[i].mode = "unset"
                                        THEN "either" ELSE p.board[i].mode
        BY <3>2 DEF Instance, Mode
      <3> DEFINE card == [p.board[i] EXCEPT !.by = e, !.mode = mode]
                 board == [p.board EXCEPT ![i] = card]
                 q == [p EXCEPT !.board = board]
      <3>4. card \in Instance
        BY <1>1, <3>2 DEF Instance
      <3>5. q = [p EXCEPT !.board[i].by = e,
                          !.board[i].mode = IF @ = "unset"
                                            THEN "either" ELSE @]
        <4>1. p \in Profile
          BY DEF Sane
        <4>2. q = [p EXCEPT !.board[i].by = e, !.board[i].mode = mode]
          BY <3>1, <3>2, <4>1 DEF Profile, Instance
        <4> QED BY <3>1, <3>2, <3>3, <4>1, <4>2 DEF Profile, Instance
      <3> HIDE DEF card
      <3>6. board \in [Inst -> Instance]
        BY <3>1, <3>4
      <3> HIDE DEF board
      <3>7. Sane(q) /\ q.clock = p.clock /\ q.row = p.row
        BY <3>6, BoardSet
      <3> QED BY <2>2, <3>5, <3>7
    <2> QED BY <2>1, <2>2
  <1> DEFINE r == [NoRow EXCEPT !.status = "pending",
                                !.at = p.clock + Delay[e], !.link = inst]
             row == [a.row EXCEPT ![<<e, n>>] = r]
             q == [a EXCEPT !.row = row]
  <1>4. ScheduleCard(p, e, n, i) = q
    BY <1>2, <1>3 DEF ScheduleCard
  <1>5. p.row \in [Row -> RowRecord] /\ p.clock + Delay[e] \in Nat
    <2>1. Delay[e] \in Nat
      BY ScheduleAssumption
    <2> QED BY <2>1, ProfileParts DEF Sane
  <1>6. r \in RowRecord /\ r.status = "pending" /\ ~r.called
    <2> DEFINE at == p.clock + Delay[e]
    <2>1. r = [NoRow EXCEPT !.status = "pending", !.at = at, !.link = inst]
      OBVIOUS
    <2>2. at \in Nat
      BY <1>5
    <2> HIDE DEF at, r
    <2>3. r = [status |-> "pending", at |-> at, link |-> inst,
               called |-> FALSE]
      BY <2>1 DEF NoRow
    <2> QED BY <2>2, <2>3 DEF RowRecord
  <1> HIDE DEF r
  <1>7. row \in [Row -> RowRecord]
    BY <1>3, <1>5, <1>6
  <1>8. \A k \in Row : /\ a.row[k].status # "none" => row[k].status # "none"
                       /\ row[k].called => row[k].status # "pending"
    BY <1>1, <1>3, <1>5, <1>6 DEF Sane, Heard
  <1> HIDE DEF row
  <1>9. Sane(q)
    BY <1>3, <1>7, <1>8, RowsSet
  <1> QED BY <1>4, <1>9

LEMMA AttachIs ==
    ASSUME NEW p, Sane(p), NEW e \in Attach, NEW n \in 1..MaxExec[e]
    PROVE  Sane(AttachCard(p, e, n))
  <1>1. /\ <<e, n>> \in Inst /\ Activation[e] \in Mode
        /\ None \in Effect \cup {None}
    BY InstOfEffect, ScheduleAssumption DEF Effect
  <1>2. Sane(PutOnBoard(p, <<e, n>>, Activation[e], None))
    BY <1>1, PutIs
  <1> QED BY <1>2 DEF AttachCard

LEMMA KeepIs ==
    ASSUME NEW p, Sane(p), NEW i \in Inst
    PROVE  Sane(KeepPending(p, i))
  <1>1. CASE OnBoard(p, i)
    <2> DEFINE card == [p.board[i] EXCEPT !.status = "pending"]
               board == [p.board EXCEPT ![i] = card]
               q == [p EXCEPT !.board = board]
    <2>1. p.board \in [Inst -> Instance]
      BY ProfileParts DEF Sane
    <2>2. card \in Instance
      BY <2>1 DEF Instance
    <2>3. KeepPending(p, i) = q
      BY <1>1 DEF KeepPending
    <2> HIDE DEF card
    <2>4. board \in [Inst -> Instance]
      BY <2>1, <2>2
    <2> HIDE DEF board
    <2> QED BY <2>3, <2>4, BoardSet
  <1>2. CASE ~OnBoard(p, i)
    <2>1. "unset" \in Mode /\ None \in Effect \cup {None}
      BY DEF Mode
    <2>2. Sane(PutOnBoard(p, i, "unset", None))
      BY <2>1, PutIs
    <2> QED BY <1>2, <2>2 DEF KeepPending
  <1> QED BY <1>1, <1>2

LEMMA RemoveIs ==
    ASSUME NEW p, Sane(p), NEW S
    PROVE  LET q == RemoveAll(p, S) IN
           Sane(q) /\ q.clock = p.clock /\ q.row = p.row
  <1> DEFINE board == [i \in Inst |-> IF i \in S THEN NoInstance
                                      ELSE p.board[i]]
  <1>1. p.board \in [Inst -> Instance]
    BY ProfileParts DEF Sane
  <1>2. NoInstance \in Instance
    BY DEF NoInstance, Instance, Mode
  <1>3. board \in [Inst -> Instance]
    BY <1>1, <1>2
  <1>4. RemoveAll(p, S) = [p EXCEPT !.board = board]
    BY DEF RemoveAll
  <1> HIDE DEF board
  <1> QED BY <1>3, <1>4, BoardSet

LEMMA EndStoryIs ==
    ASSUME NEW p, Sane(p)
    PROVE  Sane(EndStory(p))
  <1> DEFINE S == {i \in Inst : CardOf(i) \in StoryCard}
             a == RemoveAll(p, S)
             ended(k) == CardOf(k) \in StoryCard
                         /\ p.row[k].status \in {"pending", "fired"}
             row == [k \in Row |-> IF ended(k)
                 THEN [p.row[k] EXCEPT !.status = "cancelled"] ELSE p.row[k]]
             q == [a EXCEPT !.row = row]
  <1>1. p.row \in [Row -> RowRecord]
    BY ProfileParts DEF Sane
  <1>2. Sane(a) /\ a.row = p.row
    BY RemoveIs
  <1>3. EndStory(p) = q
    BY DEF EndStory
  <1> HIDE DEF a
  <1>4. ASSUME NEW k \in Row
        PROVE  /\ row[k] \in RowRecord
               /\ p.row[k].status # "none" => row[k].status # "none"
               /\ row[k].called => row[k].status # "pending"
    <2>1. p.row[k] \in RowRecord
      BY <1>1
    <2>2. CASE ended(k)
      <3>1. row[k] = [p.row[k] EXCEPT !.status = "cancelled"]
        BY <2>2
      <3> HIDE DEF row
      <3> QED BY <2>1, <3>1 DEF RowRecord
    <2>3. CASE ~ended(k)
      BY <2>1, <2>3 DEF Sane, Heard
    <2> QED BY <2>2, <2>3
  <1>5. row \in [Row -> RowRecord]
    BY <1>4
  <1> HIDE DEF row
  <1>6. Sane(q)
    BY <1>2, <1>4, <1>5, RowsSet
  <1> QED BY <1>3, <1>6

\* A rule that is written starts at the clock: it has missed nothing.
LEMMA WriteRuleIs ==
    ASSUME NEW p, Sane(p), NEW r \in Rule
    PROVE  Sane(WriteRule(p, r))
  <1> DEFINE new == [status |-> "active", last |-> 0, since |-> p.clock]
             rule == [p.rule EXCEPT ![r] = new]
             q == [p EXCEPT !.rule = rule]
  <1>1. /\ p \in Profile /\ p.rule \in [Rule -> RuleRecord]
        /\ p.clock \in 0..Horizon /\ Horizon \in Nat
    BY ProfileParts DEF Sane
  <1>2. new \in RuleRecord
    BY <1>1 DEF RuleRecord
  <1>3. rule \in [Rule -> RuleRecord]
    BY <1>1, <1>2
  <1>4. /\ q \in Profile /\ q.rule = rule /\ q.clock = p.clock
        /\ q.row = p.row
    <2> HIDE DEF rule
    <2> QED BY <1>1, <1>3 DEF Profile
  <1>5. Heard(q)
    BY <1>4 DEF Sane, Heard
  <1>6. ASSUME NEW s \in Rule
        PROVE  /\ rule[s].last <= p.clock /\ rule[s].since <= p.clock
               /\ \A d \in Day :
                    /\ rule[s].status = "active" /\ MatchesDay(s, d)
                    /\ OccurrenceAt(s, d) > rule[s].since
                    /\ OccurrenceAt(s, d) <= p.clock
                    => p.row[<<s, d>>].status # "none"
    <2>1. CASE s = r
      <3>1. rule[s].last = 0 /\ rule[s].since = p.clock
        BY <1>1, <2>1
      <3>2. \A d \in Day : OccurrenceAt(s, d) \in Int
        BY OccurrenceInDay DEF Day
      <3> HIDE DEF rule
      <3> QED BY <1>1, <3>1, <3>2
    <2>2. CASE s # r
      <3>1. rule[s] = p.rule[s]
        BY <1>1, <2>2
      <3> HIDE DEF rule
      <3> QED BY <3>1 DEF Sane, Covered
    <2> QED BY <2>1, <2>2
  <1>7. Covered(q)
    <2> HIDE DEF rule, q
    <2> QED BY <1>4, <1>6 DEF Covered
  <1>8. CASE p.rule[r].status = "active"
    BY <1>8 DEF WriteRule
  <1>9. CASE p.rule[r].status # "active"
    <2>1. WriteRule(p, r) = q
      BY <1>9 DEF WriteRule
    <2> QED BY <1>4, <1>5, <1>7, <2>1 DEF Sane
  <1> QED BY <1>8, <1>9

-----------------------------------------------------------------------------
(* The next moment at which an intent is due *)

\* Within two weeks there is a day like every later one.
LEMMA SameWeekday ==
    ASSUME NEW today \in Nat, NEW d \in Nat, today + 14 < d
    PROVE  \E x \in (today + 1)..(today + 14) : x % 7 = d % 7 /\ x < d
  <1> DEFINE n == d - (today + 1)
             w == n \div 7
             x == d - 7 * w
  <1>1. n \in Nat /\ w \in Nat /\ 7 * w <= n /\ n < 7 * w + 7 /\ w > 0
    OBVIOUS
  <1>2. x \in (today + 1)..(today + 14) /\ x < d
    BY <1>1
  <1>3. x % 7 = d % 7
    BY <1>1, <1>2
  <1> QED BY <1>2, <1>3

LEMMA PeekIs ==
    ASSUME NEW p, Sane(p)
    PROVE  /\ Peek(p) \in Nat
           /\ Peek(p) # 0 => Peek(p) > p.clock
           /\ \A t \in Moments(p) :
                 t > p.clock => Peek(p) # 0 /\ Peek(p) <= t
  <1> DEFINE onces == {p.row[k].at : k \in {l \in Row :
                      p.row[l].status = "pending" /\ p.row[l].at > p.clock}}
             today == p.clock \div DayLen
             days(r) == {x \in today..(today + 14) :
                        /\ MatchesDay(r, x)
                        /\ OccurrenceAt(r, x) > p.rule[r].last
                        /\ OccurrenceAt(r, x) > p.clock}
             ahead(r) == {OccurrenceAt(r, d) : d \in days(r)}
             live == {s \in Rule : p.rule[s].status = "active"}
             all == onces \cup UNION {ahead(r) : r \in live}
             next == Peek(p)
  <1>1. /\ p.clock \in Nat /\ p.row \in [Row -> RowRecord]
        /\ p.rule \in [Rule -> RuleRecord]
    BY ProfileParts DEF Sane
  <1>2. today \in Nat /\ p.clock < (today + 1) * DayLen
    BY <1>1, DayOf
  <1>3. next = IF all = {} THEN 0 ELSE Min(all)
    BY DEF Peek
  <1>4. \A t \in all : t \in Nat /\ t > p.clock
    <2>1. \A t \in onces : t \in Nat /\ t > p.clock
      BY <1>1 DEF RowRecord
    <2>2. ASSUME NEW r \in live, NEW d \in days(r)
          PROVE  OccurrenceAt(r, d) \in Nat /\ OccurrenceAt(r, d) > p.clock
      <3>1. d \in Int /\ OccurrenceAt(r, d) > p.clock
        BY <1>2
      <3>2. OccurrenceAt(r, d) \in Int
        BY <3>1, OccurrenceInDay
      <3> QED BY <1>1, <3>1, <3>2
    <2> HIDE DEF onces, live, days
    <2> QED BY <2>1, <2>2
  <1>5. all \in SUBSET Nat
    BY <1>4
  <1>6. \A t \in all : next # 0 /\ next <= t
    <2> SUFFICES ASSUME NEW t \in all PROVE next # 0 /\ next <= t
      OBVIOUS
    <2> HIDE DEF all
    <2>1. Min(all) \in all /\ \A y \in all : Min(all) <= y
      BY <1>5, LeastIsMin
    <2>2. next = Min(all)
      BY <1>3
    <2> HIDE DEF next
    <2> QED BY <1>1, <1>4, <2>1, <2>2
  <1>7. next = 0 \/ next \in all
    <2> HIDE DEF all
    <2>1. CASE all = {}
      BY <1>3, <2>1
    <2>2. CASE all # {}
      <3>1. Min(all) \in all
        BY <1>5, <2>2, LeastIsMin
      <3> QED BY <1>3, <2>2, <3>1
    <2> QED BY <2>1, <2>2
  <1>8. next \in Nat /\ (next # 0 => next > p.clock)
    <2> HIDE DEF all, next
    <2> QED BY <1>1, <1>4, <1>7
  <1>9. ASSUME NEW k \in Row, p.row[k].status = "pending",
               p.row[k].at > p.clock
        PROVE  p.row[k].at \in all
    BY <1>9
  <1>10. ASSUME NEW r \in live, NEW d \in Day, MatchesDay(r, d),
                OccurrenceAt(r, d) > p.clock
         PROVE  \E t \in all : t <= OccurrenceAt(r, d)
    <2>1. d \in Nat /\ r \in Rule /\ d \in Int
      BY DEF Day
    <2>2. /\ p.rule[r].last \in Int /\ p.rule[r].last <= p.clock
          /\ \A x \in Int : OccurrenceAt(r, x) \in Int
      BY <1>1, <2>1, OccurrenceInDay DEF Sane, Covered, RuleRecord
    <2>3. ASSUME NEW x \in today..(today + 14), MatchesDay(r, x),
                 OccurrenceAt(r, x) > p.clock
          PROVE  OccurrenceAt(r, x) \in all
      <3>1. x \in Int /\ OccurrenceAt(r, x) \in Int
        BY <1>2, <2>2
      <3>2. OccurrenceAt(r, x) > p.rule[r].last
        BY <1>1, <2>2, <2>3, <3>1
      <3>3. x \in days(r)
        BY <2>3, <3>2
      <3> HIDE DEF days
      <3>4. OccurrenceAt(r, x) \in ahead(r)
        BY <3>3
      <3> HIDE DEF ahead, live, onces
      <3> QED BY <3>4
    <2>4. today <= d
      BY <1>1, <1>10, <2>1, DayBetween
    <2>5. CASE d <= today + 14
      <3>1. d \in today..(today + 14)
        BY <1>2, <2>1, <2>4, <2>5
      <3>2. OccurrenceAt(r, d) \in all
        BY <1>10, <2>3, <3>1
      <3>3. OccurrenceAt(r, d) <= OccurrenceAt(r, d)
        BY <2>1, <2>2
      <3> HIDE DEF all
      <3> QED BY <3>2, <3>3
    <2>6. CASE today + 14 < d
      <3>1. PICK x \in (today + 1)..(today + 14) : x % 7 = d % 7 /\ x < d
        BY <1>2, <2>1, <2>6, SameWeekday
      <3>2. MatchesDay(r, x) /\ x \in today..(today + 14) /\ x \in Int
        BY <1>2, <1>10, <3>1 DEF MatchesDay
      <3> DEFINE o == OccurrenceAt(r, x)
                 u == OccurrenceAt(r, d)
      <3>3. /\ o \in Int /\ x * DayLen <= o /\ o < (x + 1) * DayLen
            /\ u \in Int /\ d * DayLen <= u
        BY <2>1, <3>2, OccurrenceInDay
      <3>4. DayLen \in Nat
        BY ScheduleAssumption
      <3>5. /\ (x + 1) * DayLen <= d * DayLen
            /\ (today + 1) * DayLen <= x * DayLen
        <4>1. /\ x + 1 \in Int /\ today + 1 \in Int /\ x + 1 <= d
              /\ today + 1 <= x
          BY <1>2, <2>1, <3>1, <3>2
        <4> HIDE DEF today
        <4> QED BY <2>1, <3>2, <3>4, <4>1, TimesOrdered
      <3>6. /\ (x + 1) * DayLen \in Int /\ d * DayLen \in Int
            /\ (today + 1) * DayLen \in Int /\ x * DayLen \in Int
        BY <1>2, <2>1, <3>2, <3>4
      <3> HIDE DEF o, u, today
      <3>7. o > p.clock /\ o <= u
        BY <1>1, <1>2, <3>3, <3>5, <3>6
      <3>8. o \in all
        BY <2>3, <3>2, <3>7 DEF o
      <3> HIDE DEF all
      <3> QED BY <3>7, <3>8 DEF u
    <2> QED BY <1>2, <2>1, <2>5, <2>6
  <1>11. ASSUME NEW t \in Moments(p), t > p.clock
         PROVE  next # 0 /\ next <= t
    <2> HIDE DEF next, all
    <2>1. CASE \E k \in Row : p.row[k].status = "pending" /\ t = p.row[k].at
      BY <1>6, <1>9, <1>11, <2>1
    <2>2. CASE \E o \in Occurrence :
                  /\ p.rule[o[1]].status = "active" /\ MatchesDay(o[1], o[2])
                  /\ t = OccurrenceAt(o[1], o[2])
      <3>1. PICK r \in live, d \in Day :
                  MatchesDay(r, d) /\ t = OccurrenceAt(r, d)
        BY <2>2 DEF Occurrence
      <3>2. PICK u \in all : u <= t
        BY <1>10, <1>11, <3>1
      <3>3. next # 0 /\ next <= u
        BY <1>6
      <3>4. t \in Int /\ u \in Int
        BY <1>4, <3>1, OccurrenceInDay DEF Day
      <3> QED BY <1>8, <3>2, <3>3, <3>4
    <2> QED BY <2>1, <2>2 DEF Moments
  <1> QED BY <1>8, <1>11

-----------------------------------------------------------------------------
(* The rings *)

\* The requests are too few to hold every event of an instance.
LEMMA NewEventIs ==
    ASSUME flow \in [Flow -> FlowRecord], NEW i \in Inst,
           \A e \in ring : e[1] # i
    PROVE  NewEvent(i) \in Event /\ NewEvent(i)[1] = i
  <1> DEFINE N == Cardinality(Flow) + 1
             S == {f \in Flow : \E n \in 1..N : flow[f].event = <<i, n>>}
             g == [f \in S |-> flow[f].event[2]]
  <1>1. IsFiniteSet(Flow) /\ Cardinality(Flow) \in Nat
    BY OutboundAssumption, FS_CardinalityType
  <1>2. \E n \in 1..N : <<i, n>> \notin Held(i)
    <2> SUFFICES ASSUME \A n \in 1..N : <<i, n>> \in Held(i) PROVE FALSE
      OBVIOUS
    <2>1. IsFiniteSet(S) /\ Cardinality(S) <= Cardinality(Flow)
      BY <1>1, FS_Subset
    <2>2. Cardinality(S) \in Nat
      BY <2>1, FS_CardinalityType
    <2>3. \A f \in S : g[f] \in 1..N
      OBVIOUS
    <2>4. ASSUME NEW n \in 1..N PROVE \E f \in S : g[f] = n
      <3>1. PICK f \in Flow : flow[f].event = <<i, n>>
        BY DEF Held
      <3>2. f \in S /\ g[f] = n
        BY <3>1
      <3> QED BY <3>2
    <2> HIDE DEF N
    <2>5. g \in Surjection(S, 1..N)
      BY <2>3, <2>4 DEF Surjection
    <2> HIDE DEF g, S
    <2>6. Cardinality(1..N) <= Cardinality(S)
      BY <2>1, <2>5, FS_Surjection
    <2>7. Cardinality(1..N) = N
      BY <1>1, FS_Interval DEF N
    <2> QED BY <1>1, <2>1, <2>2, <2>6, <2>7 DEF N
  <1>3. PICK n \in 1..N : <<i, n>> \notin Held(i)
    BY <1>2
  <1>4. /\ <<i, n>> \in Event /\ <<i, n>>[1] = i
        /\ <<i, n>> \notin ring \cup Held(i)
    BY <1>3 DEF Event
  <1>5. \E e \in Event : e[1] = i /\ e \notin ring \cup Held(i)
    BY <1>4
  <1> QED BY <1>5 DEF NewEvent

\* An instance has one pending event at most, and the ring of an intent is
\* there until somebody takes it.
Rings ==
    /\ \A e, g \in ring : e[1] = g[1] => e = g
    /\ \A i \in rung : \E e \in ring : e[1] = i

LEMMA DispatchRings ==
    ASSUME flow \in [Flow -> FlowRecord], ring \subseteq Event, Rings,
           NEW insts \in SUBSET Inst, Dispatch(insts),
           rung' = rung \cup insts
    PROVE  ring' \subseteq Event /\ Rings'
  <1> DEFINE silent == {x \in insts : \A e \in ring : e[1] # x}
  <1>1. ring' = ring \cup {NewEvent(i) : i \in silent}
    BY DEF Dispatch
  <1>2. \A i \in silent : NewEvent(i) \in Event /\ NewEvent(i)[1] = i
    BY NewEventIs
  <1>3. \A i \in insts : i \in silent \/ \E e \in ring : e[1] = i
    OBVIOUS
  <1>4. \A e \in ring, i \in silent : e[1] # i
    OBVIOUS
  <1> HIDE DEF silent
  <1>5. \A e, g \in ring' : e[1] = g[1] => e = g
    <2> SUFFICES ASSUME NEW e \in ring', NEW g \in ring', e[1] = g[1]
                 PROVE  e = g
      OBVIOUS
    <2>1. e \in ring \/ \E i \in silent : e = NewEvent(i)
      BY <1>1
    <2>2. g \in ring \/ \E i \in silent : g = NewEvent(i)
      BY <1>1
    <2>3. CASE e \in ring /\ g \in ring
      BY <2>3 DEF Rings
    <2>4. CASE e \in ring /\ \E i \in silent : g = NewEvent(i)
      BY <1>2, <1>4, <2>4
    <2>5. CASE g \in ring /\ \E i \in silent : e = NewEvent(i)
      BY <1>2, <1>4, <2>5
    <2>6. CASE /\ \E i \in silent : e = NewEvent(i)
               /\ \E i \in silent : g = NewEvent(i)
      <3>1. PICK i \in silent : e = NewEvent(i)
        BY <2>6
      <3>2. PICK j \in silent : g = NewEvent(j)
        BY <2>6
      <3>3. i = j
        BY <1>2, <3>1, <3>2
      <3> QED BY <3>1, <3>2, <3>3
    <2> QED BY <2>1, <2>2, <2>3, <2>4, <2>5, <2>6
  <1>6. ASSUME NEW i \in rung' PROVE \E e \in ring' : e[1] = i
    <2>1. CASE i \in rung
      BY <1>1, <2>1 DEF Rings
    <2>2. CASE i \in silent
      <3>1. NewEvent(i) \in ring' /\ NewEvent(i)[1] = i
        BY <1>1, <1>2, <2>2
      <3> QED BY <3>1
    <2>3. CASE \E e \in ring : e[1] = i
      BY <1>1, <2>3
    <2> QED BY <1>3, <2>1, <2>2, <2>3
  <1>7. ring' \subseteq Event
    BY <1>1, <1>2
  <1> QED BY <1>5, <1>6, <1>7 DEF Rings

LEMMA TakeRings ==
    ASSUME Rings, NEW e, Take(e)
    PROVE  Rings'
  <1>1. ring' = ring \ {e} /\ rung' = IF e \in ring THEN rung \ {e[1]} ELSE rung
    BY DEF Take
  <1>2. \A x, g \in ring' : x[1] = g[1] => x = g
    BY <1>1 DEF Rings
  <1>3. ASSUME NEW i \in rung' PROVE \E x \in ring' : x[1] = i
    <2>1. i \in rung
      BY <1>1
    <2>2. PICK x \in ring : x[1] = i
      BY <2>1 DEF Rings
    <2>3. x # e
      BY <1>1, <2>2
    <2> QED BY <1>1, <2>2, <2>3
  <1> QED BY <1>2, <1>3 DEF Rings

-----------------------------------------------------------------------------
(* A tick of the clock *)

LEMMA TickIs ==
    ASSUME Sane(profile), NEW to \in profile.clock..Horizon,
           NEW open \in BOOLEAN, Tick(to, open)
    PROVE  /\ Sane(profile') /\ BoardMoves(profile, profile')
           /\ profile'.clock = to
           /\ \/ UNCHANGED <<ring, rung>>
              \/ \E insts \in SUBSET Inst :
                    Dispatch(insts) /\ rung' = rung \cup insts
  <1> DEFINE p == Forward(profile, cards, to)
  <1>1. Sane(p) /\ p.clock = to /\ p.board = profile.board
    BY ForwardIs
  <1>2. CASE open
    <2> HIDE DEF p
    <2>1. PICK f \in Finds(p) :
             /\ profile' = Fire(p, f)
             /\ LET insts == {Target(p, f, k) : k \in RingingRows(p)}
                IN Dispatch(insts) /\ rung' = rung \cup insts
      BY <1>2 DEF Tick, p
    <2> DEFINE insts == {Target(p, f, k) : k \in RingingRows(p)}
    <2>2. insts \in SUBSET Inst
      BY <1>1, TargetIsInst DEF Sane
    <2>3. Dispatch(insts) /\ rung' = rung \cup insts
      BY <2>1
    <2> HIDE DEF insts
    <2>4. /\ Sane(Fire(p, f)) /\ BoardMoves(p, Fire(p, f))
          /\ Fire(p, f).clock = p.clock
      BY <1>1, FireIs
    <2>5. profile' = Fire(p, f)
      BY <2>1
    <2>6. BoardMoves(profile, profile')
      BY <1>1, <2>4, <2>5 DEF BoardMoves
    <2> QED BY <1>1, <2>2, <2>3, <2>4, <2>5, <2>6
  <1>3. CASE ~open
    <2>1. profile' = p /\ UNCHANGED <<ring, rung>>
      BY <1>3 DEF Tick
    <2> HIDE DEF p
    <2>2. BoardMoves(profile, profile')
      BY <1>1, <2>1 DEF BoardMoves
    <2> QED BY <1>1, <2>1, <2>2
  <1> QED BY <1>2, <1>3

\* The step to the next intent goes no further than the first of them.
LEMMA NextIntentIs ==
    ASSUME Sane(profile), NEW open \in BOOLEAN, NextIntent(open)
    PROVE  /\ Sane(profile') /\ BoardMoves(profile, profile')
           /\ \/ UNCHANGED <<ring, rung>>
              \/ \E insts \in SUBSET Inst :
                    Dispatch(insts) /\ rung' = rung \cup insts
           /\ \A t \in Moments(Reconcile(profile, cards)) :
                 ~(profile.clock < t /\ t < profile'.clock)
  <1> DEFINE p == Reconcile(profile, cards)
             next == Peek(p)
             moments == Moments(p)
  <1>1. Sane(p) /\ p.clock = profile.clock /\ p.board = profile.board
    BY ReconcileIs
  <1>2. \/ next \in 1..Horizon /\ Tick(next, open)
        \/ next = 0 /\ profile' = p /\ UNCHANGED <<ring, rung>>
    BY DEF NextIntent
  <1>3. \A t \in moments : t \in Int
    <2> HIDE DEF p
    <2>1. \A o \in Occurrence : OccurrenceAt(o[1], o[2]) \in Int
      BY OccurrenceInDay DEF Occurrence, Day
    <2>2. \A k \in Row : p.row[k].at \in Int
      BY <1>1, ProfileParts DEF Sane, RowRecord
    <2> QED BY <2>1, <2>2 DEF Moments
  <1>4. profile.clock \in Nat /\ profile.clock <= Horizon /\ Horizon \in Nat
    BY ProfileParts DEF Sane
  <1>5. /\ next \in Nat /\ (next # 0 => next > profile.clock)
        /\ \A t \in moments : t > profile.clock => next # 0 /\ next <= t
    <2> HIDE DEF p
    <2> QED BY <1>1, PeekIs
  <1> SUFFICES /\ Sane(profile') /\ BoardMoves(profile, profile')
               /\ \/ UNCHANGED <<ring, rung>>
                  \/ \E insts \in SUBSET Inst :
                        Dispatch(insts) /\ rung' = rung \cup insts
               /\ \A t \in moments :
                     ~(profile.clock < t /\ t < profile'.clock)
    OBVIOUS
  <1> HIDE DEF p, next, moments
  <1>6. CASE next \in 1..Horizon /\ Tick(next, open)
    <2>1. next \in profile.clock..Horizon
      BY <1>4, <1>5, <1>6
    <2>2. /\ Sane(profile') /\ BoardMoves(profile, profile')
          /\ profile'.clock = next
          /\ \/ UNCHANGED <<ring, rung>>
             \/ \E insts \in SUBSET Inst :
                    Dispatch(insts) /\ rung' = rung \cup insts
      BY <1>6, <2>1, TickIs
    <2>3. \A t \in moments : ~(profile.clock < t /\ t < profile'.clock)
      BY <1>3, <1>4, <1>5, <2>2
    <2> QED BY <2>2, <2>3
  <1>7. CASE next = 0 /\ profile' = p /\ UNCHANGED <<ring, rung>>
    <2>1. BoardMoves(profile, profile')
      BY <1>1, <1>7 DEF BoardMoves
    <2>2. \A t \in moments : ~(profile.clock < t /\ t < profile'.clock)
      BY <1>1, <1>3, <1>4, <1>7
    <2> QED BY <1>1, <1>7, <2>1, <2>2
  <1> QED BY <1>2, <1>6, <1>7

-----------------------------------------------------------------------------
(* The inductive invariants *)

ScheduleInvariant ==
    TypeOK /\ Sane(profile) /\ Sane(disk) /\ Rings

\* A request whose call has begun has the user, and while a call is about to
\* begin no other is, and none goes on.
OneCall ==
    /\ \A f \in Flow :
          flow[f].at \in {"accepting", "in_call", "ending", "saving"}
              <=> active = f
    /\ \A f \in Flow : flow[f].at = "composing" => active = None
    /\ \A f, g \in Flow :
          flow[f].at = "composing" /\ flow[g].at = "composing" => f = g

\* The card of a call that is about to begin waits or was missed, the card of
\* a call that goes on is taken.
CardHeld ==
    \A f \in Flow : flow[f].inst # None =>
        /\ flow[f].at = "composing"
              => profile.board[flow[f].inst].status \in {"pending", "missed"}
        /\ flow[f].at \in {"accepting", "in_call"}
              => profile.board[flow[f].inst].status = "active"

CallInvariant == OneCall /\ CardHeld

LEMMA InitSane == Sane(NewProfile)
  <1> DEFINE p == NewProfile
             rule == [r \in Rule |-> [status |-> "none", last |-> 0, since |-> 0]]
             row == [k \in Row |-> NoRow]
             board == [i \in Inst |-> NoInstance]
  <1>1. Horizon \in Nat
    BY ScheduleAssumption
  <1>2. rule \in [Rule -> RuleRecord]
    BY <1>1 DEF RuleRecord
  <1>3. row \in [Row -> RowRecord]
    BY DEF RowRecord, NoRow
  <1>4. board \in [Inst -> Instance]
    BY DEF Instance, NoInstance, Mode
  <1>5. /\ p.clock = 0 /\ p.rule = rule /\ p.row = row /\ p.board = board
        /\ p = [clock |-> 0, rule |-> rule, row |-> row, board |-> board]
    BY DEF NewProfile
  <1>6. \A r \in Rule : rule[r].last = 0 /\ rule[r].since = 0
                        /\ rule[r].status = "none"
    OBVIOUS
  <1>7. \A k \in Row : row[k].status = "none"
    BY DEF NoRow
  <1> HIDE DEF p, rule, row, board
  <1>8. p \in Profile
    BY <1>1, <1>2, <1>3, <1>4, <1>5 DEF Profile
  <1>9. Covered(p)
    BY <1>5, <1>6 DEF Covered
  <1>10. Heard(p)
    BY <1>5, <1>7 DEF Heard
  <1> QED BY <1>8, <1>9, <1>10 DEF Sane, p

LEMMA ScheduleInit == Init => ScheduleInvariant
  <1> SUFFICES ASSUME Init PROVE ScheduleInvariant
    OBVIOUS
  <1>1. Sane(profile) /\ Sane(disk)
    BY InitSane DEF Init
  <1>2. Rings
    BY DEF Init, Rings
  <1>3. flow \in [Flow -> FlowRecord]
    BY DEF Init, NoFlow, FlowRecord, At
  <1>4. execs \in [Effect -> Nat] /\ \A e \in Effect : execs[e] <= MaxExec[e]
    BY ScheduleAssumption DEF Init
  <1>5. crashes \in 0..MaxCrash
    BY OutboundAssumption DEF Init
  <1>6. TypeOK
    BY <1>1, <1>3, <1>4, <1>5 DEF Init, TypeOK, Sane
  <1> QED BY <1>1, <1>2, <1>6 DEF ScheduleInvariant

LEMMA CallInit == Init => CallInvariant
  BY OutboundAssumption DEF Init, CallInvariant, OneCall, CardHeld, NoFlow

\* One more execution of an effect.
LEMMA ExecutesIs ==
    ASSUME TypeOK, Sane(profile), NEW e \in Effect, NEW i \in Inst \cup {None},
           Executes(e, i)
    PROVE  /\ Sane(profile')
           /\ execs' \in [Effect -> Nat]
           /\ \A x \in Effect : execs'[x] <= MaxExec[x]
  <1>1. /\ execs \in [Effect -> Nat] /\ execs[e] < MaxExec[e]
        /\ MaxExec \in [Effect -> Nat]
        /\ \A x \in Effect : execs[x] <= MaxExec[x]
    BY ScheduleAssumption DEF TypeOK, Executes
  <1>2. execs' = [execs EXCEPT ![e] = @ + 1]
    BY DEF Executes
  <1>3. execs' \in [Effect -> Nat] /\ execs'[e] \in 1..MaxExec[e]
    BY <1>1, <1>2
  <1>4. \A x \in Effect : execs'[x] <= MaxExec[x]
    BY <1>1, <1>2
  <1>5. PICK n \in 1..MaxExec[e] : n = execs'[e]
    BY <1>3
  <1>6. profile' = IF e \in Timed THEN ScheduleCard(profile, e, n, i)
                   ELSE AttachCard(profile, e, n)
    BY <1>5 DEF Executes
  <1>7. CASE e \in Timed
    <2>1. Sane(ScheduleCard(profile, e, n, i))
      BY <1>7, ScheduleIs
    <2> QED BY <1>3, <1>4, <1>6, <1>7, <2>1
  <1>8. CASE e \notin Timed
    <2>1. e \in Attach
      BY <1>8 DEF Effect
    <2>2. Sane(AttachCard(profile, e, n))
      BY <2>1, AttachIs
    <2> QED BY <1>3, <1>4, <1>6, <1>8, <2>2
  <1> QED BY <1>7, <1>8

LEMMA RunEffectIs ==
    ASSUME TypeOK, Sane(profile), NEW f \in Flow, RunEffect(f)
    PROVE  /\ Sane(profile')
           /\ execs' \in [Effect -> Nat]
           /\ \A x \in Effect : execs'[x] <= MaxExec[x]
  <1> DEFINE i == flow[f].inst
  <1>1. i \in Inst \cup {None}
    BY DEF TypeOK, FlowRecord
  <1>2. \/ \E e \in Effect :
              \E x \in Existing(profile, EffectCard[e]) : Executes(e, x)
        \/ UNCHANGED execs /\ i # None /\ profile' = KeepPending(profile, i)
        \/ UNCHANGED execs /\ \E c \in Card : profile' = Unmount(profile, c)
        \/ UNCHANGED execs /\ profile' = EndStory(profile)
        \/ UNCHANGED execs /\ \E r \in Rule : profile' = WriteRule(profile, r)
    BY DEF RunEffect
  <1> HIDE DEF i
  <1>3. execs \in [Effect -> Nat] /\ \A x \in Effect : execs[x] <= MaxExec[x]
    BY DEF TypeOK
  <1>4. CASE \E e \in Effect :
                \E x \in Existing(profile, EffectCard[e]) : Executes(e, x)
    <2>1. PICK e \in Effect :
             \E x \in Existing(profile, EffectCard[e]) : Executes(e, x)
      BY <1>4
    <2>2. PICK x \in Existing(profile, EffectCard[e]) : Executes(e, x)
      BY <2>1
    <2>3. x \in Inst \cup {None}
      BY DEF Existing, Waiting
    <2> QED BY <2>2, <2>3, ExecutesIs
  <1>5. CASE UNCHANGED execs /\ i # None /\ profile' = KeepPending(profile, i)
    <2>1. Sane(KeepPending(profile, i))
      BY <1>1, <1>5, KeepIs
    <2> QED BY <1>3, <1>5, <2>1
  <1>6. CASE UNCHANGED execs /\ \E c \in Card : profile' = Unmount(profile, c)
    <2>1. PICK c \in Card : profile' = RemoveAll(profile, Waiting(profile, c))
      BY <1>6 DEF Unmount
    <2>2. Sane(RemoveAll(profile, Waiting(profile, c)))
      BY RemoveIs
    <2> QED BY <1>3, <1>6, <2>1, <2>2
  <1>7. CASE UNCHANGED execs /\ profile' = EndStory(profile)
    BY <1>3, <1>7, EndStoryIs
  <1>8. CASE UNCHANGED execs /\ \E r \in Rule : profile' = WriteRule(profile, r)
    BY <1>3, <1>8, WriteRuleIs
  <1> QED BY <1>2, <1>4, <1>5, <1>6, <1>7, <1>8

\* A tick moves the profile, the rings and their history, and the saves.
LEMMA TicksKeep ==
    ASSUME ScheduleInvariant, Sane(profile'),
           \/ UNCHANGED <<ring, rung>>
           \/ \E insts \in SUBSET Inst :
                 Dispatch(insts) /\ rung' = rung \cup insts,
           saves' \subseteq {"pump", "reject"},
           UNCHANGED <<disk, cards, flow, active, execs, crashes>>
    PROVE  ScheduleInvariant'
  <1>1. /\ UNCHANGED disk /\ UNCHANGED cards /\ UNCHANGED flow
        /\ UNCHANGED active /\ UNCHANGED execs /\ UNCHANGED crashes
    OBVIOUS
  <1>2. /\ flow \in [Flow -> FlowRecord] /\ ring \subseteq Event
        /\ rung \subseteq Inst /\ Rings
    BY DEF ScheduleInvariant, TypeOK
  <1>3. ring' \subseteq Event /\ rung' \subseteq Inst /\ Rings'
    <2>1. CASE UNCHANGED <<ring, rung>>
      BY <1>2, <2>1 DEF Rings
    <2>2. CASE \E insts \in SUBSET Inst :
                  Dispatch(insts) /\ rung' = rung \cup insts
      BY <1>2, <2>2, DispatchRings
    <2> QED BY <2>1, <2>2
  <1>4. Sane(disk')
    BY <1>1 DEF ScheduleInvariant
  <1>5. TypeOK'
    BY <1>1, <1>3, <1>4 DEF ScheduleInvariant, TypeOK, Sane
  <1> QED BY <1>3, <1>4, <1>5 DEF ScheduleInvariant

\* A request that moves on leaves the schedule and the rings alone.
LEMMA FlowsKeep ==
    ASSUME ScheduleInvariant, NEW f \in Flow, NEW r \in FlowRecord,
           flow' = [flow EXCEPT ![f] = r], Sane(profile'), Sane(disk'),
           active' \in Flow \cup {None},
           UNCHANGED <<saves, cards, ring, execs, rung, crashes>>
    PROVE  ScheduleInvariant'
  <1>1. /\ UNCHANGED saves /\ UNCHANGED cards /\ UNCHANGED ring
        /\ UNCHANGED execs /\ UNCHANGED rung /\ UNCHANGED crashes
    OBVIOUS
  <1>2. flow' \in [Flow -> FlowRecord]
    BY DEF ScheduleInvariant, TypeOK
  <1>3. TypeOK'
    BY <1>1, <1>2 DEF ScheduleInvariant, TypeOK, Sane
  <1>4. Rings'
    BY <1>1 DEF ScheduleInvariant, Rings
  <1> QED BY <1>3, <1>4 DEF ScheduleInvariant

LEMMA ScheduleStep ==
    ASSUME ScheduleInvariant, [Next]_vars
    PROVE  ScheduleInvariant'
  <1>1. /\ TypeOK /\ Sane(profile) /\ Sane(disk) /\ Rings
        /\ flow \in [Flow -> FlowRecord] /\ active \in Flow \cup {None}
        /\ saves \subseteq {"pump", "reject"}
    BY DEF ScheduleInvariant, TypeOK
  <1>2. \A f \in Flow : /\ flow[f] \in FlowRecord
                        /\ flow[f].inst \in Inst \cup {None}
                        /\ flow[f].event \in Event \cup {None}
    BY <1>1 DEF FlowRecord
  <1>3. Sane(Stored)
    BY <1>1 DEF Stored
  <1>4. NoFlow \in FlowRecord
    BY DEF NoFlow, FlowRecord, At
  <1>5. ASSUME NEW to \in profile.clock..Horizon, NEW open \in BOOLEAN,
               Pump(to, open)
        PROVE  ScheduleInvariant'
    <2>1. Tick(to, open)
      BY <1>5 DEF Pump
    <2>2. /\ saves' \subseteq {"pump", "reject"}
          /\ UNCHANGED <<disk, cards, flow, active, execs, crashes>>
      BY <1>1, <1>5 DEF Pump
    <2> QED BY <1>1, <2>1, <2>2, TickIs, TicksKeep
  <1>6. ASSUME NEW open \in BOOLEAN, NextIntent(open)
        PROVE  ScheduleInvariant'
    <2>1. /\ saves' \subseteq {"pump", "reject"}
          /\ UNCHANGED <<disk, cards, flow, active, execs, crashes>>
      BY <1>1, <1>6 DEF NextIntent
    <2> QED BY <1>1, <1>6, <2>1, NextIntentIs, TicksKeep
  <1>7. ASSUME NEW who \in saves, SaveLands(who)
        PROVE  ScheduleInvariant'
    <2>1. /\ UNCHANGED profile /\ UNCHANGED cards /\ UNCHANGED ring
          /\ UNCHANGED flow /\ UNCHANGED active /\ UNCHANGED execs
          /\ UNCHANGED rung /\ UNCHANGED crashes
          /\ disk' = Stored /\ saves' = saves \ {who}
      BY <1>7 DEF SaveLands
    <2>2. Sane(profile') /\ Sane(disk')
      BY <1>1, <1>3, <2>1
    <2>3. TypeOK'
      BY <1>1, <2>1, <2>2 DEF TypeOK, Sane
    <2>4. Rings'
      BY <1>1, <2>1 DEF Rings
    <2> QED BY <2>2, <2>3, <2>4 DEF ScheduleInvariant
  <1>8. ASSUME NEW f \in Flow, Dial(f)
        PROVE  ScheduleInvariant'
    <2>1. PICK i \in Inst \cup {None} :
             flow' = [flow EXCEPT ![f] = [NoFlow EXCEPT !.at = "composing",
                                                        !.inst = i]]
      BY <1>8 DEF Dial, Dialable
    <2>2. [NoFlow EXCEPT !.at = "composing", !.inst = i] \in FlowRecord
      BY DEF NoFlow, FlowRecord, At
    <2>3. /\ UNCHANGED profile /\ UNCHANGED disk /\ UNCHANGED active
          /\ UNCHANGED <<saves, cards, ring, execs, rung, crashes>>
      BY <1>8 DEF Dial
    <2> QED BY <1>1, <2>1, <2>2, <2>3, FlowsKeep
  <1>9. ASSUME NEW f \in Flow, NEW e \in ring, Answer(f, e)
        PROVE  ScheduleInvariant'
    <2>1. e \in Event
      BY <1>1 DEF TypeOK
    <2>2. [NoFlow EXCEPT !.at = "looking", !.event = e] \in FlowRecord
      BY <2>1 DEF NoFlow, FlowRecord, At
    <2>3. /\ UNCHANGED profile /\ UNCHANGED disk /\ UNCHANGED active
          /\ UNCHANGED <<saves, cards, ring, execs, rung, crashes>>
          /\ flow' = [flow EXCEPT ![f] = [NoFlow EXCEPT !.at = "looking",
                                                        !.event = e]]
      BY <1>9 DEF Answer
    <2> QED BY <1>1, <2>2, <2>3, FlowsKeep
  <1>10. ASSUME NEW f \in Flow, Resolved(f)
         PROVE  ScheduleInvariant'
    <2> DEFINE r == [flow[f] EXCEPT !.at = "composing",
                                    !.inst = flow[f].event[1]]
    <2>1. flow[f].event[1] \in Inst
      BY <1>10 DEF Resolved, Outgoing
    <2>2. r \in FlowRecord
      BY <1>2, <2>1 DEF FlowRecord, At
    <2>3. /\ UNCHANGED profile /\ UNCHANGED disk /\ UNCHANGED active
          /\ UNCHANGED <<saves, cards, ring, execs, rung, crashes>>
          /\ flow' = [flow EXCEPT ![f].at = "composing",
                                  ![f].inst = flow[f].event[1]]
      BY <1>10 DEF Resolved
    <2>4. flow' = [flow EXCEPT ![f] = r]
      BY <1>1, <1>2, <2>3 DEF FlowRecord
    <2> HIDE DEF r
    <2> QED BY <1>1, <2>2, <2>3, <2>4, FlowsKeep
  <1>11. ASSUME NEW f \in Flow, Fails(f)
         PROVE  ScheduleInvariant'
    <2>1. /\ UNCHANGED profile /\ UNCHANGED disk /\ UNCHANGED active
          /\ UNCHANGED <<saves, cards, ring, execs, rung, crashes>>
          /\ flow' = [flow EXCEPT ![f] = NoFlow]
      BY <1>11 DEF Fails
    <2> QED BY <1>1, <1>4, <2>1, FlowsKeep
  <1>12. ASSUME NEW f \in Flow, Begun(f)
         PROVE  ScheduleInvariant'
    <2>1. PICK at \in At : at = IF flow[f].event = None THEN "in_call"
                                ELSE "accepting"
      BY DEF At
    <2>2. [flow[f] EXCEPT !.at = at] \in FlowRecord
      BY <1>2 DEF FlowRecord
    <2>3. /\ UNCHANGED disk /\ active' = f
          /\ profile' = Begin(profile, flow[f].inst)
          /\ UNCHANGED <<saves, cards, ring, execs, rung, crashes>>
          /\ flow' = [flow EXCEPT ![f].at = at]
      BY <1>12, <2>1 DEF Begun
    <2>4. Sane(profile')
      BY <1>1, <1>2, <2>3, BeginIs
    <2> QED BY <1>1, <2>2, <2>3, <2>4, FlowsKeep
  <1>13. ASSUME NEW f \in Flow, Accept(f)
         PROVE  ScheduleInvariant'
    <2>1. /\ UNCHANGED profile /\ UNCHANGED disk /\ UNCHANGED saves
          /\ UNCHANGED cards /\ UNCHANGED active /\ UNCHANGED execs
          /\ UNCHANGED crashes /\ Take(flow[f].event)
          /\ flow' = [flow EXCEPT ![f].at = "in_call", ![f].event = None]
      BY <1>13 DEF Accept
    <2>2. flow' \in [Flow -> FlowRecord]
      BY <1>1, <1>2, <2>1 DEF FlowRecord, At
    <2>3. ring' \subseteq Event /\ rung' \subseteq Inst
      BY <1>1, <2>1 DEF Take, TypeOK
    <2>4. Sane(profile') /\ Sane(disk')
      BY <1>1, <2>1
    <2>5. TypeOK'
      BY <1>1, <2>1, <2>2, <2>3, <2>4 DEF TypeOK, Sane
    <2>6. Rings'
      BY <1>1, <2>1, TakeRings
    <2> QED BY <2>4, <2>5, <2>6 DEF ScheduleInvariant
  <1>14. ASSUME NEW f \in Flow, HangUp(f)
         PROVE  ScheduleInvariant'
    <2>1. [flow[f] EXCEPT !.at = "ending"] \in FlowRecord
      BY <1>2 DEF FlowRecord, At
    <2>2. /\ UNCHANGED profile /\ UNCHANGED disk /\ UNCHANGED active
          /\ UNCHANGED <<saves, cards, ring, execs, rung, crashes>>
          /\ flow' = [flow EXCEPT ![f].at = "ending"]
      BY <1>14 DEF HangUp
    <2> QED BY <1>1, <2>1, <2>2, FlowsKeep
  <1>15. ASSUME NEW f \in Flow, RunEffect(f)
         PROVE  ScheduleInvariant'
    <2>1. /\ UNCHANGED disk /\ UNCHANGED saves /\ UNCHANGED cards
          /\ UNCHANGED ring /\ UNCHANGED flow /\ UNCHANGED active
          /\ UNCHANGED rung /\ UNCHANGED crashes
      BY <1>15 DEF RunEffect
    <2>2. /\ Sane(profile') /\ execs' \in [Effect -> Nat]
          /\ \A x \in Effect : execs'[x] <= MaxExec[x]
      BY <1>1, <1>15, RunEffectIs
    <2>3. Sane(disk')
      BY <1>1, <2>1
    <2>4. TypeOK'
      BY <1>1, <2>1, <2>2, <2>3 DEF TypeOK, Sane
    <2>5. Rings'
      BY <1>1, <2>1 DEF Rings
    <2> QED BY <2>2, <2>3, <2>4, <2>5 DEF ScheduleInvariant
  <1>16. ASSUME NEW f \in Flow, EffectsDone(f)
         PROVE  ScheduleInvariant'
    <2>1. [flow[f] EXCEPT !.at = "saving"] \in FlowRecord
      BY <1>2 DEF FlowRecord, At
    <2>2. /\ UNCHANGED profile /\ UNCHANGED disk /\ UNCHANGED active
          /\ UNCHANGED <<saves, cards, ring, execs, rung, crashes>>
          /\ flow' = [flow EXCEPT ![f].at = "saving"]
      BY <1>16 DEF EffectsDone
    <2> QED BY <1>1, <2>1, <2>2, FlowsKeep
  <1>17. ASSUME NEW f \in Flow, CallSaved(f)
         PROVE  ScheduleInvariant'
    <2>1. /\ UNCHANGED profile /\ disk' = Stored /\ active' = None
          /\ UNCHANGED <<saves, cards, ring, execs, rung, crashes>>
          /\ flow' = [flow EXCEPT ![f] = NoFlow]
      BY <1>17 DEF CallSaved
    <2> QED BY <1>1, <1>3, <1>4, <2>1, FlowsKeep
  <1>18. ASSUME NEW e \in ring, Reject(e)
         PROVE  ScheduleInvariant'
    <2>1. /\ UNCHANGED disk /\ UNCHANGED cards /\ UNCHANGED flow
          /\ UNCHANGED active /\ UNCHANGED execs /\ UNCHANGED crashes
          /\ Take(e) /\ saves' = saves \cup {"reject"}
          /\ profile' = Miss(profile, e[1])
      BY <1>18 DEF Reject
    <2>2. e[1] \in Inst
      BY <1>1 DEF TypeOK, Event
    <2>3. Sane(profile') /\ Sane(disk')
      BY <1>1, <2>1, <2>2, MissIs
    <2>4. ring' \subseteq Event /\ rung' \subseteq Inst
      BY <1>1, <2>1 DEF Take, TypeOK
    <2>5. TypeOK'
      BY <1>1, <2>1, <2>3, <2>4 DEF TypeOK, Sane
    <2>6. Rings'
      BY <1>1, <2>1, TakeRings
    <2> QED BY <2>3, <2>5, <2>6 DEF ScheduleInvariant
  <1>19. ASSUME NEW c \in Card, RemoveCard(c)
         PROVE  ScheduleInvariant'
    <2>1. /\ UNCHANGED profile /\ UNCHANGED disk /\ UNCHANGED saves
          /\ UNCHANGED ring /\ UNCHANGED flow /\ UNCHANGED active
          /\ UNCHANGED execs /\ UNCHANGED rung /\ UNCHANGED crashes
          /\ cards' = cards \ {c}
      BY <1>19 DEF RemoveCard
    <2>2. Sane(profile') /\ Sane(disk')
      BY <1>1, <2>1
    <2>3. TypeOK'
      BY <1>1, <2>1 DEF TypeOK
    <2>4. Rings'
      BY <1>1, <2>1 DEF Rings
    <2> QED BY <2>2, <2>3, <2>4 DEF ScheduleInvariant
  <1>20. ASSUME Crash
         PROVE  ScheduleInvariant'
    <2>1. /\ crashes < MaxCrash /\ crashes' = crashes + 1 /\ profile' = disk
          /\ saves' = {} /\ ring' = {} /\ rung' = {} /\ active' = None
          /\ flow' = [f \in Flow |-> NoFlow]
          /\ UNCHANGED disk /\ UNCHANGED cards /\ UNCHANGED execs
      BY <1>20 DEF Crash
    <2>2. Sane(profile') /\ Sane(disk')
      BY <1>1, <2>1
    <2>3. crashes' \in 0..MaxCrash
      BY <1>1, <2>1, OutboundAssumption DEF TypeOK
    <2>4. flow' \in [Flow -> FlowRecord]
      BY <1>4, <2>1
    <2>5. TypeOK'
      BY <1>1, <2>1, <2>2, <2>3, <2>4 DEF TypeOK, Sane
    <2>6. Rings'
      BY <2>1 DEF Rings
    <2> QED BY <2>2, <2>5, <2>6 DEF ScheduleInvariant
  <1>21. CASE UNCHANGED vars
    <2>1. /\ UNCHANGED profile /\ UNCHANGED disk /\ UNCHANGED saves
          /\ UNCHANGED cards /\ UNCHANGED ring /\ UNCHANGED flow
          /\ UNCHANGED active /\ UNCHANGED execs /\ UNCHANGED rung
          /\ UNCHANGED crashes
      BY <1>21 DEF vars
    <2> QED BY <2>1 DEF ScheduleInvariant, TypeOK, Rings
  <1> QED BY <1>5, <1>6, <1>7, <1>8, <1>9, <1>10, <1>11, <1>12, <1>13, <1>14,
             <1>15, <1>16, <1>17, <1>18, <1>19, <1>20, <1>21 DEF Next

\* While the profile's instances only move as the clock and the shell move
\* them, the card of a call that goes on stays taken.
LEMMA MovesKeepCalls ==
    ASSUME CallInvariant, flow \in [Flow -> FlowRecord],
           BoardMoves(profile, profile'), UNCHANGED <<flow, active>>
    PROVE  CallInvariant'
  <1>1. UNCHANGED flow /\ UNCHANGED active
    OBVIOUS
  <1>2. OneCall'
    BY <1>1 DEF CallInvariant, OneCall
  <1>3. CardHeld'
    <2> SUFFICES ASSUME NEW f \in Flow, flow[f].inst # None
                 PROVE  /\ flow[f].at = "composing"
                              => profile'.board[flow[f].inst].status
                                    \in {"pending", "missed"}
                        /\ flow[f].at \in {"accepting", "in_call"}
                              => profile'.board[flow[f].inst].status = "active"
      BY <1>1 DEF CardHeld
    <2>1. flow[f].inst \in Inst
      BY DEF FlowRecord
    <2> QED BY <2>1 DEF CallInvariant, CardHeld, BoardMoves
  <1> QED BY <1>2, <1>3 DEF CallInvariant

\* A request that neither begins a call nor gets one further keeps them too.
LEMMA AsideKeepsCalls ==
    ASSUME CallInvariant, flow \in [Flow -> FlowRecord],
           NEW f \in Flow, NEW r \in FlowRecord,
           flow' = [flow EXCEPT ![f] = r], UNCHANGED <<profile, active>>,
           \/ r.at \in {"idle", "looking"} /\ active # f
           \/ /\ r.at = "composing" /\ r.inst # None
              /\ MayBegin /\ profile.board[r.inst].status \in {"pending", "missed"}
           \/ r.at = "composing" /\ r.inst = None /\ MayBegin
           \/ /\ r.at \in {"in_call", "ending", "saving"} /\ r.inst = flow[f].inst
              /\ flow[f].at \in {"accepting", "in_call", "ending"}
              /\ r.at = "in_call" => flow[f].at = "accepting"
    PROVE  CallInvariant'
  <1>1. /\ UNCHANGED profile /\ UNCHANGED active
        /\ \A g \in Flow : flow'[g] = IF g = f THEN r ELSE flow[g]
    OBVIOUS
  <1>2. CASE r.at \in {"idle", "looking"} /\ active # f
    BY <1>1, <1>2 DEF CallInvariant, OneCall, CardHeld
  <1>3. CASE r.at = "composing" /\ MayBegin
    <2>1. /\ active = None /\ None \notin Flow
          /\ \A g \in Flow : flow[g].at # "composing"
      BY <1>3, OutboundAssumption DEF MayBegin
    <2>2. OneCall'
      BY <1>1, <1>3, <2>1 DEF CallInvariant, OneCall
    <2>3. CardHeld'
      BY <1>1, <1>3, <2>1 DEF CallInvariant, CardHeld
    <2> QED BY <2>2, <2>3 DEF CallInvariant
  <1>4. CASE /\ r.at \in {"in_call", "ending", "saving"} /\ r.inst = flow[f].inst
             /\ flow[f].at \in {"accepting", "in_call", "ending"}
             /\ r.at = "in_call" => flow[f].at = "accepting"
    <2>1. OneCall'
      BY <1>1, <1>4 DEF CallInvariant, OneCall
    <2>2. CardHeld'
      BY <1>1, <1>4 DEF CallInvariant, CardHeld
    <2> QED BY <2>1, <2>2 DEF CallInvariant
  <1> QED BY <1>2, <1>3, <1>4

LEMMA CallStep ==
    ASSUME ScheduleInvariant, CallInvariant, [Next]_vars
    PROVE  CallInvariant'
  <1>1. /\ TypeOK /\ Sane(profile)
        /\ flow \in [Flow -> FlowRecord] /\ None \notin Flow
        /\ \A f \in Flow : /\ flow[f] \in FlowRecord
                           /\ flow[f].inst \in Inst \cup {None}
    BY OutboundAssumption DEF ScheduleInvariant, TypeOK, FlowRecord
  <1>2. NoFlow \in FlowRecord /\ NoFlow.at = "idle"
    BY DEF NoFlow, FlowRecord, At
  <1>3. None \notin Inst
    BY ScheduleAssumption
  <1>4. ASSUME NEW to \in profile.clock..Horizon, NEW open \in BOOLEAN,
               Pump(to, open)
        PROVE  CallInvariant'
    <2>1. Tick(to, open) /\ UNCHANGED <<flow, active>>
      BY <1>4 DEF Pump
    <2> QED BY <1>1, <2>1, TickIs, MovesKeepCalls
  <1>5. ASSUME NEW open \in BOOLEAN, NextIntent(open)
        PROVE  CallInvariant'
    <2>1. UNCHANGED <<flow, active>>
      BY <1>5 DEF NextIntent
    <2> QED BY <1>1, <1>5, <2>1, NextIntentIs, MovesKeepCalls
  <1>6. ASSUME NEW e \in ring, Reject(e)
        PROVE  CallInvariant'
    <2>1. /\ profile' = Miss(profile, e[1]) /\ UNCHANGED <<flow, active>>
      BY <1>6 DEF Reject
    <2>2. e[1] \in Inst
      BY <1>1 DEF TypeOK, Event
    <2> QED BY <1>1, <2>1, <2>2, MissIs, MovesKeepCalls
  <1>7. ASSUME UNCHANGED profile, UNCHANGED flow, UNCHANGED active
        PROVE  CallInvariant'
    BY <1>7 DEF CallInvariant, OneCall, CardHeld
  <1>8. ASSUME NEW f \in Flow, Dial(f)
        PROVE  CallInvariant'
    <2>1. PICK i \in IF Dialable(profile) = {} THEN {None}
                     ELSE Dialable(profile) :
             flow' = [flow EXCEPT ![f] = [NoFlow EXCEPT !.at = "composing",
                                                        !.inst = i]]
      BY <1>8 DEF Dial
    <2>2. \/ i = None
          \/ /\ i \in Inst
             /\ profile.board[i].status \in {"pending", "missed"}
      BY <2>1 DEF Dialable
    <2> DEFINE r == [NoFlow EXCEPT !.at = "composing", !.inst = i]
    <2>3. r \in FlowRecord /\ r.at = "composing" /\ r.inst = i
      BY <2>2 DEF NoFlow, FlowRecord, At
    <2>4. UNCHANGED <<profile, active>> /\ MayBegin
      BY <1>8 DEF Dial
    <2>5. flow' = [flow EXCEPT ![f] = r]
      BY <2>1
    <2> HIDE DEF r
    <2> QED BY <1>1, <1>3, <2>2, <2>3, <2>4, <2>5, AsideKeepsCalls
  <1>9. ASSUME NEW f \in Flow, NEW e \in ring, Answer(f, e)
        PROVE  CallInvariant'
    <2> DEFINE r == [NoFlow EXCEPT !.at = "looking", !.event = e]
    <2>1. e \in Event
      BY <1>1 DEF TypeOK
    <2>2. r \in FlowRecord /\ r.at = "looking"
      BY <2>1 DEF NoFlow, FlowRecord, At
    <2>3. /\ UNCHANGED <<profile, active>> /\ active = None
          /\ flow' = [flow EXCEPT ![f] = r]
      BY <1>9 DEF Answer
    <2> HIDE DEF r
    <2> QED BY <1>1, <2>2, <2>3, AsideKeepsCalls
  <1>10. ASSUME NEW f \in Flow, Resolved(f)
         PROVE  CallInvariant'
    <2> DEFINE i == flow[f].event[1]
               r == [flow[f] EXCEPT !.at = "composing", !.inst = i]
    <2>1. /\ i \in Inst /\ profile.board[i].status = "pending" /\ MayBegin
          /\ UNCHANGED <<profile, active>>
          /\ flow' = [flow EXCEPT ![f].at = "composing", ![f].inst = i]
      BY <1>10 DEF Resolved, Outgoing
    <2> HIDE DEF i
    <2>2. r \in FlowRecord /\ r.at = "composing" /\ r.inst = i
      BY <1>1, <2>1 DEF FlowRecord, At
    <2>3. flow' = [flow EXCEPT ![f] = r]
      BY <1>1, <2>1 DEF FlowRecord
    <2> HIDE DEF r
    <2> QED BY <1>1, <1>3, <2>1, <2>2, <2>3, AsideKeepsCalls
  <1>11. ASSUME NEW f \in Flow, Fails(f)
         PROVE  CallInvariant'
    <2>1. /\ UNCHANGED <<profile, active>>
          /\ flow' = [flow EXCEPT ![f] = NoFlow]
          /\ flow[f].at \in {"looking", "composing"}
      BY <1>11 DEF Fails
    <2>2. active # f
      BY <2>1 DEF CallInvariant, OneCall
    <2> QED BY <1>1, <1>2, <2>1, <2>2, AsideKeepsCalls
  <1>12. ASSUME NEW f \in Flow, Begun(f)
         PROVE  CallInvariant'
    <2>1. PICK at \in {"in_call", "accepting"} :
             at = IF flow[f].event = None THEN "in_call" ELSE "accepting"
      OBVIOUS
    <2>2. /\ flow[f].at = "composing" /\ active' = f
          /\ profile' = Begin(profile, flow[f].inst)
          /\ flow' = [flow EXCEPT ![f].at = at]
      BY <1>12, <2>1 DEF Begun
    <2>3. /\ active = None
          /\ \A g \in Flow : flow[g].at = "composing" => g = f
          /\ \A g \in Flow : flow[g].at \notin
                {"accepting", "in_call", "ending", "saving"}
      BY <1>1, <2>2 DEF CallInvariant, OneCall
    <2>4. /\ \A g \in Flow \ {f} : flow'[g] = flow[g]
          /\ flow'[f].at = at /\ flow'[f].inst = flow[f].inst
      BY <1>1, <2>2 DEF FlowRecord
    <2>5. OneCall'
      BY <2>1, <2>2, <2>3, <2>4 DEF OneCall
    <2>6. flow[f].inst # None
             => profile'.board[flow[f].inst].status = "active"
      BY <1>1, <2>2, BeginIs DEF CallInvariant, CardHeld
    <2>7. CardHeld'
      BY <2>1, <2>3, <2>4, <2>6 DEF CardHeld
    <2> QED BY <2>5, <2>7 DEF CallInvariant
  <1>13. ASSUME NEW f \in Flow, Accept(f)
         PROVE  CallInvariant'
    <2> DEFINE r == [flow[f] EXCEPT !.at = "in_call", !.event = None]
    <2>1. /\ UNCHANGED <<profile, active>> /\ flow[f].at = "accepting"
          /\ flow' = [flow EXCEPT ![f].at = "in_call", ![f].event = None]
      BY <1>13 DEF Accept
    <2>2. r \in FlowRecord /\ r.at = "in_call" /\ r.inst = flow[f].inst
      BY <1>1 DEF FlowRecord, At
    <2>3. flow' = [flow EXCEPT ![f] = r]
      BY <1>1, <2>1 DEF FlowRecord
    <2> HIDE DEF r
    <2> QED BY <1>1, <2>1, <2>2, <2>3, AsideKeepsCalls
  <1>14. ASSUME NEW f \in Flow, NEW to \in {"ending", "saving"},
                flow[f].at \in {"in_call", "ending"},
                flow' = [flow EXCEPT ![f].at = to],
                UNCHANGED <<profile, active>>
         PROVE  CallInvariant'
    <2> DEFINE r == [flow[f] EXCEPT !.at = to]
    <2>1. r \in FlowRecord /\ r.at = to /\ r.inst = flow[f].inst
      BY <1>1 DEF FlowRecord, At
    <2>2. flow' = [flow EXCEPT ![f] = r]
      BY <1>14
    <2> HIDE DEF r
    <2> QED BY <1>1, <1>14, <2>1, <2>2, AsideKeepsCalls
  <1>15. ASSUME NEW f \in Flow, HangUp(f)
         PROVE  CallInvariant'
    BY <1>14, <1>15 DEF HangUp
  <1>16. ASSUME NEW f \in Flow, EffectsDone(f)
         PROVE  CallInvariant'
    BY <1>14, <1>16 DEF EffectsDone
  <1>17. ASSUME NEW f \in Flow, RunEffect(f)
         PROVE  CallInvariant'
    <2>1. /\ UNCHANGED flow /\ UNCHANGED active /\ flow[f].at = "ending"
      BY <1>17 DEF RunEffect
    <2>2. active = f
      BY <2>1 DEF CallInvariant, OneCall
    <2>3. \A g \in Flow : flow[g].at \notin
              {"composing", "accepting", "in_call"}
      BY <1>1, <2>1, <2>2 DEF CallInvariant, OneCall
    <2>4. OneCall'
      BY <2>1 DEF CallInvariant, OneCall
    <2>5. CardHeld'
      BY <2>1, <2>3 DEF CardHeld
    <2> QED BY <2>4, <2>5 DEF CallInvariant
  <1>18. ASSUME NEW f \in Flow, CallSaved(f)
         PROVE  CallInvariant'
    <2>1. /\ UNCHANGED profile /\ active' = None /\ flow[f].at = "saving"
          /\ flow' = [flow EXCEPT ![f] = NoFlow]
      BY <1>18 DEF CallSaved
    <2>2. /\ \A g \in Flow \ {f} : flow'[g] = flow[g]
          /\ flow'[f] = NoFlow
      BY <1>1, <2>1
    <2>3. active = f
      BY <2>1 DEF CallInvariant, OneCall
    <2>4. \A g \in Flow \ {f} : flow[g].at \notin
              {"composing", "accepting", "in_call", "ending", "saving"}
      BY <1>1, <2>3 DEF CallInvariant, OneCall
    <2>5. OneCall'
      BY <1>1, <1>2, <2>1, <2>2, <2>4 DEF OneCall
    <2>6. CardHeld'
      BY <1>2, <2>2, <2>4 DEF CardHeld
    <2> QED BY <2>5, <2>6 DEF CallInvariant
  <1>19. ASSUME Crash
         PROVE  CallInvariant'
    <2>1. active' = None /\ \A g \in Flow : flow'[g] = NoFlow
      BY <1>19 DEF Crash
    <2> QED BY <1>1, <1>2, <2>1 DEF CallInvariant, OneCall, CardHeld
  <1>20. ASSUME NEW who \in saves, SaveLands(who)
         PROVE  CallInvariant'
    BY <1>7, <1>20 DEF SaveLands
  <1>21. ASSUME NEW c \in Card, RemoveCard(c)
         PROVE  CallInvariant'
    BY <1>7, <1>21 DEF RemoveCard
  <1>22. CASE UNCHANGED vars
    BY <1>7, <1>22 DEF vars
  <1> QED BY <1>4, <1>5, <1>6, <1>8, <1>9, <1>10, <1>11, <1>12, <1>13, <1>15,
             <1>16, <1>17, <1>18, <1>19, <1>20, <1>21, <1>22 DEF Next

-----------------------------------------------------------------------------
(* The theorems *)

LEMMA ScheduleHolds == Spec => []ScheduleInvariant
  <1>1. ScheduleInvariant /\ [Next]_vars => ScheduleInvariant'
    BY ScheduleStep
  <1> QED BY <1>1, ScheduleInit, PTL DEF Spec

LEMMA CallsHold == Spec => []CallInvariant
  <1>1. ScheduleInvariant /\ CallInvariant /\ [Next]_vars => CallInvariant'
    BY CallStep
  <1> QED BY <1>1, CallInit, ScheduleHolds, PTL DEF Spec

\* Every reachable state has its type: the schedule, the board and the rings
\* stay well-formed whatever exits, ticks, rejections and restarts do, and a
\* new event always finds a name of its own.
THEOREM OutboundTypeCorrect == Spec => []TypeOK
  <1>1. ScheduleInvariant => TypeOK
    BY DEF ScheduleInvariant
  <1> QED BY <1>1, ScheduleHolds, PTL

\* No occurrence of a recurring intent is skipped, however the clock is moved
\* and whatever restarts come between (materializeRecurringOccurrences).
THEOREM NothingSkipped == Spec => []NoOccurrenceSkipped
  <1>1. ScheduleInvariant => NoOccurrenceSkipped
    BY DEF ScheduleInvariant, Sane, Covered, NoOccurrenceSkipped
  <1> QED BY <1>1, ScheduleHolds, PTL

\* The step to the next intent never jumps over a moment at which an intent is
\* due (peekNextScheduleFireAtMs and its window of two weeks).
THEOREM NextIsNext == Spec => NothingJumpedOver
  <1>1. ASSUME ScheduleInvariant
        PROVE  [(\E open \in BOOLEAN : NextIntent(open)) =>
                  \A t \in Moments(Reconcile(profile, cards)) :
                     ~(profile.clock < t /\ t < profile'.clock)]_vars
    BY <1>1, NextIntentIs DEF ScheduleInvariant
  <1> QED BY <1>1, ScheduleHolds, PTL DEF NothingJumpedOver

\* An intent whose card was called never rings (consumeLinkedOnceIntent).
THEOREM CalledIsHeard == Spec => NoRingAfterCall
  <1>1. ASSUME ScheduleInvariant
        PROVE  [\A k \in Row : ~ /\ profile.row[k].status = "pending"
                                 /\ profile.row[k].called
                                 /\ profile'.row[k].status = "fired"]_vars
    BY <1>1 DEF ScheduleInvariant, Sane, Heard
  <1> QED BY <1>1, ScheduleHolds, PTL DEF NoRingAfterCall

\* A fired intent has exactly one event until somebody takes it
\* (dispatchFiredOutboundCalls).
THEOREM OneRing == Spec => []RingsOnce
  <1>1. ASSUME ScheduleInvariant, NEW i \in rung
        PROVE  Cardinality({e \in ring : e[1] = i}) = 1
    <2>1. PICK e \in ring : e[1] = i
      BY <1>1 DEF ScheduleInvariant, Rings
    <2>2. {x \in ring : x[1] = i} = {e}
      BY <1>1, <2>1 DEF ScheduleInvariant, Rings
    <2> QED BY <2>2, FS_Singleton
  <1>2. ScheduleInvariant => RingsOnce
    BY <1>1 DEF RingsOnce
  <1> QED BY <1>2, ScheduleHolds, PTL

\* The card of a call that goes on is offered to nobody else
\* (markOutboundMissed, beginCall).
THEOREM TakenStaysTaken == Spec => []LiveCardTaken
  <1>1. CallInvariant => LiveCardTaken
    BY DEF CallInvariant, CardHeld, LiveCardTaken, OnBoard, HasStatus
  <1> QED BY <1>1, CallsHold, PTL
=============================================================================
