-------------------------- MODULE StoryCalls_proofs --------------------------
(***************************************************************************)
(* The storyline of a user for every set of chapters, cards, agents, locks *)
(* and exits: the types; and, one request at a time, that the calls obey   *)
(* the lock, that the cards of a chapter that is over are gone, and that   *)
(* the next chapter can be begun.                                          *)
(***************************************************************************)
EXTENDS StoryCalls, SequenceTheorems, FiniteSetTheorems, TLAPS

-----------------------------------------------------------------------------
(* Exits and names *)

LEMMA ConstantsAre ==
    /\ StoryOf \in [Card -> Story] /\ OwnerOf \in [Card -> Agent]
    /\ ExitOf \in [Card -> SUBSET Seq(Effect)]
    /\ None \notin Card /\ None \notin Agent /\ None \notin Mode
    /\ None \notin Inst /\ None \notin Lock
    /\ Simulated \subseteq Card /\ Mounted \subseteq Card
    /\ Overlap \in BOOLEAN /\ IsFiniteSet(Call)
    /\ Seeds \subseteq [Story -> Lock \cup {None}]
  BY StoryCallsAssumption, StoryLockAssumption

\* What is left of an exit after its first effect.
LEMMA RestOfExit ==
    ASSUME NEW y \in Todo
    PROVE  /\ y \in Seq(Effect) /\ y # <<>> /\ Head(y) \in Effect
           /\ Tail(y) \in Todo \cup {<<>>}
           /\ \A k \in 1..Len(Tail(y)) :
                 k + 1 \in 1..Len(y) /\ Tail(y)[k] = y[k + 1]
           /\ Head(y) = y[1] /\ 1 \in 1..Len(y)
           /\ Tail(y) = <<>> <=> Len(y) = 1
  <1>1. PICK x \in UNION {ExitOf[c] : c \in Card}, n \in Nat :
           n \in 1..Len(x) /\ y = SubSeq(x, n, Len(x))
    BY DEF Todo
  <1>2. x \in Seq(Effect)
    BY <1>1, ConstantsAre
  <1>3. /\ Len(y) = Len(x) - n + 1 /\ Len(x) \in Nat
        /\ \A k \in 1..Len(y) : y[k] = x[n + k - 1]
    BY <1>1, <1>2
  <1>4. y \in Seq(Effect)
    BY <1>1, <1>2
  <1>5. y # <<>> /\ Len(y) >= 1 /\ 1 \in 1..Len(y)
    <2>1. Len(y) \in Nat /\ Len(y) >= 1
      BY <1>1, <1>3
    <2>2. Len(<<>>) = 0
      BY EmptySeq
    <2> QED BY <2>1, <2>2
  <1>6. /\ Tail(y) \in Seq(Effect) /\ Head(y) \in Effect
        /\ Len(Tail(y)) = Len(y) - 1
        /\ \A k \in 1..Len(Tail(y)) : Tail(y)[k] = y[k + 1]
    BY <1>4, <1>5, HeadTailProperties
  <1>7. Head(y) = y[1]
    OBVIOUS
  <1>8. Tail(y) = SubSeq(x, n + 1, Len(x))
    BY <1>1, <1>2, <1>3, HeadTailOfSubSeq
  <1>9. Tail(y) \in Todo \cup {<<>>}
    <2>1. CASE n = Len(x)
      <3>1. Len(Tail(y)) = 0
        BY <1>3, <1>6, <2>1
      <3>2. Tail(y) = <<>>
        BY <1>6, <3>1, EmptySeq
      <3> QED BY <3>2
    <2>2. CASE n # Len(x)
      <3>1. n + 1 \in 1..Len(x)
        BY <1>1, <1>3, <2>2
      <3> DEFINE rests(w) == {SubSeq(w, m, Len(w)) : m \in 1..Len(w)}
      <3>2. Tail(y) \in rests(x)
        BY <1>8, <3>1
      <3>3. Todo = UNION {rests(w) : w \in UNION {ExitOf[c] : c \in Card}}
        BY DEF Todo
      <3> HIDE DEF rests
      <3>4. Tail(y) \in Todo
        BY <1>1, <3>2, <3>3
      <3> QED BY <3>4
    <2> QED BY <2>1, <2>2
  <1>10. Tail(y) = <<>> <=> Len(y) = 1
    <2>1. Tail(y) = <<>> <=> Len(Tail(y)) = 0
      BY <1>6, EmptySeq
    <2> QED BY <1>3, <1>6, <2>1
  <1>11. \A k \in 1..Len(Tail(y)) : k + 1 \in 1..Len(y)
    BY <1>3, <1>6
  <1> QED BY <1>4, <1>5, <1>6, <1>7, <1>9, <1>10, <1>11

LEMMA EffectFields ==
    ASSUME NEW e \in Effect
    PROVE  /\ e.do \in {"attach_call_card", "keep_card_pending", "end_story"}
           /\ e.do = "attach_call_card" => e.card \in Card /\ e.mode \in Mode
           /\ e.do = "end_story" => e.next \in Card \cup {None}
                                    /\ e.mode \in Mode
  BY DEF Effect, Attach, Keep, EndStory

-----------------------------------------------------------------------------
(* Types *)

BoardTyped ==
    /\ board \in [Inst -> {"none", "pending", "missed", "active"}]
    /\ mode \in [Inst -> Mode \cup {None}]
    /\ \A i \in Inst : board[i] = "none" <=> mode[i] = None

LEMMA PutTyped ==
    ASSUME BoardTyped, NEW i, NEW m \in Mode,
           NEW status \in {"pending", "missed", "active"}, Put(i, status, m)
    PROVE  BoardTyped'
  <1>1. None \notin Mode
    BY ConstantsAre
  <1>2. board' = [board EXCEPT ![i] = status] /\ mode' = [mode EXCEPT ![i] = m]
    BY DEF Put
  <1> QED BY <1>1, <1>2 DEF BoardTyped

LEMMA NewInstIs ==
    ASSUME NEW c \in Card, Unused(c) # {}
    PROVE  /\ NewInst(c) \in Inst /\ NewInst(c)[1] = c
           /\ board[NewInst(c)] = "none"
  <1>1. NewInst(c) = <<c, CHOOSE n \in Unused(c) : TRUE>>
    BY DEF NewInst
  <1>2. PICK n \in Unused(c) : NewInst(c) = <<c, n>>
    BY <1>1
  <1> QED BY <1>2 DEF Unused, Inst

LEMMA InitTyped == Init => TypeOK
  <1> SUFFICES ASSUME Init PROVE TypeOK
    OBVIOUS
  <1>1. PICK seed \in Seeds :
           stories = [s \in Story |-> [status |-> "none", lock |-> seed[s]]]
    BY DEF Init
  <1>2. seed \in [Story -> Lock \cup {None}]
    BY ConstantsAre
  <1>3. stories \in [Story -> Save]
    BY <1>1, <1>2 DEF Save, StoryStatus
  <1>4. PICK m \in [Mounted -> Mode] :
           LET mounted == {<<c, CHOOSE n \in Copy : TRUE>> : c \in Mounted} IN
           /\ board = [i \in Inst |-> IF i \in mounted THEN "pending" ELSE "none"]
           /\ mode = [i \in Inst |-> IF i \in mounted THEN m[i[1]] ELSE None]
    BY DEF Init
  <1> DEFINE mounted == {<<c, CHOOSE n \in Copy : TRUE>> : c \in Mounted}
  <1>5. /\ board = [i \in Inst |-> IF i \in mounted THEN "pending" ELSE "none"]
        /\ mode = [i \in Inst |-> IF i \in mounted THEN m[i[1]] ELSE None]
    BY <1>4
  <1>6. \A i \in mounted : m[i[1]] \in Mode /\ m[i[1]] # None
    BY ConstantsAre
  <1> HIDE DEF mounted
  <1>7. BoardTyped
    BY <1>5, <1>6 DEF BoardTyped
  <1>8. call \in [Call -> CallRecord]
    BY DEF Init, Idle, CallRecord, At
  <1> QED BY <1>3, <1>7, <1>8 DEF TypeOK, BoardTyped

\* The storyline after end_story.
LEMMA EndsIs ==
    ASSUME TypeOK, NEW i \in Inst, NEW e \in Effect, e.do = "end_story",
           Ends(i, e)
    PROVE  LET s == StoryOf[i[1]] IN
           /\ BoardTyped' /\ stories' \in [Story -> Save]
           /\ \A j \in Inst : board'[j] # "none" =>
                 /\ j = NewInst(e.next) /\ e.next # None
                 /\ board'[j] = "pending" /\ mode'[j] = e.mode
           /\ e.next # None => \A j \in Inst : j = NewInst(e.next)
                                     => board'[j] = "pending"
           /\ \A t \in Story :
                 /\ stories'[t].lock \in {None, stories[t].lock}
                 /\ stories'[t].status
                       = IF e.next # None /\ t = StoryOf[e.next] THEN "inactive"
                         ELSE IF t = s THEN "completed" ELSE stories[t].status
           /\ stories'[s].lock = None
  <1> DEFINE s == StoryOf[i[1]]
             done == Complete(stories, s)
             new == IF e.next = None THEN {} ELSE {NewInst(e.next)}
  <1>1. /\ s \in Story /\ e.next \in Card \cup {None} /\ e.mode \in Mode
        /\ None \notin Mode /\ None \notin Card /\ None \notin Lock
        /\ StoryOf \in [Card -> Story]
    BY EffectFields, ConstantsAre DEF Inst
  <1>2. Waiting(e.next) \ Clear(s, OwnerOf[i[1]]) = {}
    BY DEF Waiting, Clear
  <1>3. /\ stories' = IF e.next = None THEN done
                      ELSE Planned(done, StoryOf[e.next])
        /\ board' = [j \in Inst |-> IF j \in new THEN "pending" ELSE "none"]
        /\ mode' = [j \in Inst |-> IF j \in new THEN e.mode ELSE None]
    BY <1>2 DEF Ends, Clear
  <1>4. /\ stories \in [Story -> Save]
        /\ \A t \in Story : stories[t].lock \in Lock \cup {None}
                            /\ stories[t].status \in StoryStatus
    BY DEF TypeOK, Save
  <1>5. /\ done \in [Story -> Save]
        /\ done[s].status = "completed" /\ done[s].lock = None
        /\ \A t \in Story : t # s => done[t] = stories[t]
    BY <1>1, <1>4 DEF Complete, Save, StoryStatus
  <1> HIDE DEF done
  <1>6. /\ stories' \in [Story -> Save]
        /\ stories'[s].lock = None
        /\ \A t \in Story :
              /\ stories'[t].lock \in {None, stories[t].lock}
              /\ stories'[t].status
                    = IF e.next # None /\ t = StoryOf[e.next] THEN "inactive"
                      ELSE IF t = s THEN "completed" ELSE stories[t].status
    <2>1. CASE e.next = None
      BY <1>1, <1>3, <1>4, <1>5, <2>1
    <2>2. CASE e.next # None
      <3> DEFINE n == StoryOf[e.next]
      <3>1. n \in Story
        BY <1>1, <2>2
      <3> HIDE DEF n
      <3>2. PICK l : l = IF n \in Early THEN done[n].lock ELSE None
        OBVIOUS
      <3>3. done[n].lock \in Lock \cup {None} /\ l \in {None, done[n].lock}
        BY <1>5, <3>1, <3>2 DEF Save
      <3>4. stories' = [done EXCEPT ![n] = [status |-> "inactive", lock |-> l]]
        BY <1>3, <2>2, <3>2 DEF Planned, n
      <3>5. [status |-> "inactive", lock |-> l] \in Save
        BY <3>3 DEF Save, StoryStatus
      <3>6. /\ stories' \in [Story -> Save]
            /\ stories'[n].status = "inactive" /\ stories'[n].lock = l
            /\ \A t \in Story : t # n => stories'[t] = done[t]
        BY <1>5, <3>1, <3>4, <3>5
      <3> QED BY <1>1, <1>4, <1>5, <2>2, <3>1, <3>3, <3>6 DEF n
    <2> QED BY <2>1, <2>2
  <1>7. BoardTyped'
    BY <1>1, <1>3 DEF BoardTyped
  <1>8. \A j \in Inst : board'[j] # "none" =>
           /\ j = NewInst(e.next) /\ e.next # None
           /\ board'[j] = "pending" /\ mode'[j] = e.mode
    BY <1>3
  <1>9. e.next # None => \A j \in Inst : j = NewInst(e.next)
                                     => board'[j] = "pending"
    BY <1>3
  <1> QED BY <1>6, <1>7, <1>8, <1>9

LEMMA WholeExit ==
    ASSUME NEW c \in Card, NEW x \in ExitOf[c]
    PROVE  x \in Seq(Effect) /\ x \in Todo \cup {<<>>}
  <1>1. x \in Seq(Effect)
    BY ConstantsAre
  <1>2. CASE x # <<>>
    <2> DEFINE rests(w) == {SubSeq(w, m, Len(w)) : m \in 1..Len(w)}
    <2>1. 1 \in 1..Len(x)
      BY <1>1, <1>2, EmptySeq
    <2>2. x = SubSeq(x, 1, Len(x))
      BY <1>1, SubSeqFull
    <2>3. x \in rests(x)
      BY <2>1, <2>2
    <2>4. Todo = UNION {rests(w) : w \in UNION {ExitOf[d] : d \in Card}}
      BY DEF Todo
    <2> HIDE DEF rests
    <2> QED BY <1>1, <2>3, <2>4
  <1> QED BY <1>1, <1>2

\* Effects are left only to a call on a card that is ending.
WithCard ==
    \A r \in Call : call[r].todo # <<>>
                        => call[r].at = "ending" /\ call[r].inst \in Inst

StoryInvariant == TypeOK /\ WithCard

\* What one effect does to chapters and board.
EffectRuns(i, e) ==
    \/ /\ e.do = "attach_call_card" /\ Attaches(e) /\ UNCHANGED stories
    \/ /\ e.do = "keep_card_pending" /\ Keeps(i) /\ UNCHANGED stories
    \/ e.do = "end_story" /\ Ends(i, e)

LEMMA RunEffectIs ==
    ASSUME StoryInvariant, NEW r \in Call, RunEffect(r)
    PROVE  /\ call[r].at = "ending" /\ call[r].todo \in Todo
           /\ call[r].inst \in Inst
           /\ Head(call[r].todo) \in Effect
           /\ EffectRuns(call[r].inst, Head(call[r].todo))
           /\ call' = [call EXCEPT ![r].todo = Tail(@)]
  <1> DEFINE e == Head(call[r].todo)
  <1>1. /\ call[r].at = "ending" /\ call[r].todo # <<>>
        /\ call' = [call EXCEPT ![r].todo = Tail(@)]
    BY DEF RunEffect
  <1>2. call[r].todo \in Todo /\ call[r].inst \in Inst
    BY <1>1 DEF StoryInvariant, WithCard, TypeOK, CallRecord
  <1>3. e \in Effect
    BY <1>2, RestOfExit
  <1>4. (CASE e.do = "attach_call_card" -> Attaches(e) /\ UNCHANGED stories
           [] e.do = "keep_card_pending" -> Keeps(call[r].inst)
                                            /\ UNCHANGED stories
           [] e.do = "end_story" -> Ends(call[r].inst, e))
    BY DEF RunEffect
  <1>5. e.do \in {"attach_call_card", "keep_card_pending", "end_story"}
    BY <1>3, EffectFields
  <1> HIDE DEF e
  <1>6. EffectRuns(call[r].inst, e)
    BY <1>4, <1>5 DEF EffectRuns
  <1> QED BY <1>1, <1>2, <1>3, <1>6 DEF e

\* Any step but that of an effect sets the record of at most one request.
LEMMA CallSet ==
    ASSUME StoryInvariant, NEW r \in Call, NEW rec \in CallRecord,
           call' = [call EXCEPT ![r] = rec],
           rec.todo # <<>> => rec.at = "ending" /\ rec.inst \in Inst,
           BoardTyped', stories' \in [Story -> Save]
    PROVE  StoryInvariant'
  <1>1. call' \in [Call -> CallRecord]
    BY DEF StoryInvariant, TypeOK
  <1>2. TypeOK'
    BY <1>1 DEF TypeOK, BoardTyped
  <1>3. WithCard'
    BY DEF StoryInvariant, TypeOK, WithCard
  <1> QED BY <1>2, <1>3 DEF StoryInvariant

LEMMA InvariantStep ==
    ASSUME StoryInvariant, [Next]_vars
    PROVE  StoryInvariant'
  <1>1. /\ TypeOK /\ BoardTyped /\ stories \in [Story -> Save]
        /\ call \in [Call -> CallRecord] /\ WithCard
        /\ \A r \in Call : call[r] \in CallRecord
    BY DEF StoryInvariant, TypeOK, BoardTyped
  <1>2. Idle \in CallRecord /\ Idle.todo = <<>>
    BY DEF Idle, CallRecord, At
  <1>3. ASSUME NEW r \in Call, NEW source \in Source,
               NEW intent \in Intent \cup {"simulate_start"}, NEW g \in Agent,
               NEW i \in Inst \cup {None}, Composes(r, source, intent, g, i)
        PROVE  StoryInvariant'
    <2> DEFINE rec == [at |-> "composing", source |-> source,
                       intent |-> intent, agent |-> g, inst |-> i,
                       todo |-> <<>>]
    <2>1. rec \in CallRecord /\ rec.todo = <<>>
      BY DEF CallRecord, At
    <2>2. /\ call' = [call EXCEPT ![r] = rec]
          /\ UNCHANGED stories /\ UNCHANGED board /\ UNCHANGED mode
      BY <1>3 DEF Composes
    <2> HIDE DEF rec
    <2>3. BoardTyped' /\ stories' \in [Story -> Save]
      BY <1>1, <2>2 DEF BoardTyped
    <2> QED BY <2>1, <2>2, <2>3, CallSet
  <1>4. ASSUME NEW r \in Call, NEW g \in Agent,
               NEW intent \in {"user_dial", "agent_outbound"},
               Request(r, intent, g)
        PROVE  StoryInvariant'
    <2>1. \A i \in Pickable(g, intent) : i \in Inst
      BY DEF Pickable
    <2>2. /\ intent \in Intent \cup {"simulate_start"}
          /\ {"story_pending", "free"} \subseteq Source
      BY DEF Intent, Source
    <2>3. \/ \E i \in Pickable(g, intent) :
                Composes(r, "story_pending", intent, g, i)
          \/ Composes(r, "free", intent, g, None)
      BY <1>4 DEF Request
    <2> QED BY <1>3, <2>1, <2>2, <2>3
  <1>5. ASSUME NEW r \in Call, NEW g \in Agent, RequestFree(r, g)
        PROVE  StoryInvariant'
    BY <1>3, <1>5 DEF RequestFree, Intent, Source
  <1>6. ASSUME NEW r \in Call, NEW c \in Simulated, Simulate(r, c)
        PROVE  StoryInvariant'
    <2>1. c \in Card /\ OwnerOf[c] \in Agent
      BY ConstantsAre
    <2>2. Unused(c) # {}
      BY <1>6, FS_EmptySet DEF Simulate
    <2>3. NewInst(c) \in Inst
      BY <2>1, <2>2, NewInstIs
    <2> QED BY <1>3, <1>6, <2>1, <2>3 DEF Simulate, Source
  <1>7. ASSUME NEW r \in Call, Fails(r)
        PROVE  StoryInvariant'
    <2>1. /\ call' = [call EXCEPT ![r] = Idle]
          /\ UNCHANGED stories /\ UNCHANGED board /\ UNCHANGED mode
      BY <1>7 DEF Fails
    <2>2. BoardTyped' /\ stories' \in [Story -> Save]
      BY <1>1, <2>1 DEF BoardTyped
    <2> QED BY <1>2, <2>1, <2>2, CallSet
  <1>8. ASSUME NEW r \in Call, Begun(r)
        PROVE  StoryInvariant'
    <2> DEFINE i == call[r].inst
               rec == [call[r] EXCEPT !.at = "in_call"]
    <2>1. /\ call[r].at = "composing" /\ UNCHANGED mode
          /\ call' = [call EXCEPT ![r] = rec]
          /\ board' = IF /\ call[r].source = "story_pending"
                         /\ board[i] \in {"pending", "missed"}
                      THEN [board EXCEPT ![i] = "active"] ELSE board
          /\ stories' = IF i = None THEN stories
                        ELSE Activate(stories, StoryOf[i[1]])
      BY <1>8 DEF Begun
    <2>2. rec \in CallRecord /\ rec.todo = <<>>
      BY <1>1, <2>1 DEF CallRecord, At, WithCard
    <2>3. i \in Inst \cup {None}
      BY <1>1 DEF CallRecord
    <2> HIDE DEF rec
    <2>4. stories' \in [Story -> Save]
      <3>1. CASE i = None
        BY <1>1, <2>1, <3>1
      <3>2. CASE i # None
        <4>1. StoryOf[i[1]] \in Story
          BY <2>3, <3>2, ConstantsAre DEF Inst
        <4>2. stories' = [stories EXCEPT ![StoryOf[i[1]]].status = "active"]
          BY <2>1, <3>2 DEF Activate
        <4> QED BY <1>1, <4>1, <4>2 DEF Save, StoryStatus
      <3> QED BY <3>1, <3>2
    <2>5. BoardTyped'
      BY <1>1, <2>1, <2>3 DEF BoardTyped
    <2> QED BY <2>1, <2>2, <2>4, <2>5, CallSet
  <1>9. ASSUME NEW r \in Call, HangUp(r)
        PROVE  StoryInvariant'
    <2> DEFINE i == call[r].inst
    <2>1. PICK x \in IF i = None THEN {<<>>} ELSE ExitOf[i[1]] \cup {<<>>} :
             call' = [call EXCEPT ![r].at = "ending", ![r].todo = x]
      BY <1>9 DEF HangUp
    <2> DEFINE rec == [call[r] EXCEPT !.at = "ending", !.todo = x]
    <2>2. i \in Inst \cup {None}
      BY <1>1 DEF CallRecord
    <2>3. x \in Todo \cup {<<>>} /\ (x # <<>> => i \in Inst)
      <3>1. CASE i = None
        BY <2>1, <3>1
      <3>2. CASE i # None
        <4>1. i \in Inst /\ i[1] \in Card
          BY <2>2, <3>2 DEF Inst
        <4> QED BY <2>1, <3>2, <4>1, WholeExit
      <3> QED BY <3>1, <3>2
    <2>4. /\ rec \in CallRecord /\ rec.at = "ending" /\ rec.inst = i
          /\ rec.todo = x
      BY <1>1, <2>3 DEF CallRecord, At
    <2>5. call' = [call EXCEPT ![r] = rec]
      BY <1>1, <2>1 DEF CallRecord
    <2>6. UNCHANGED stories /\ UNCHANGED board /\ UNCHANGED mode
      BY <1>9 DEF HangUp
    <2> HIDE DEF rec
    <2>7. BoardTyped' /\ stories' \in [Story -> Save]
      BY <1>1, <2>6 DEF BoardTyped
    <2> QED BY <2>3, <2>4, <2>5, <2>7, CallSet
  <1>10. ASSUME NEW r \in Call, RunEffect(r)
         PROVE  StoryInvariant'
    <2> DEFINE i == call[r].inst
               e == Head(call[r].todo)
               y == Tail(call[r].todo)
               rec == [call[r] EXCEPT !.todo = y]
    <2>1. /\ call[r].at = "ending" /\ call[r].todo \in Todo /\ i \in Inst
          /\ e \in Effect /\ EffectRuns(i, e)
          /\ call' = [call EXCEPT ![r] = rec]
      BY <1>10, RunEffectIs
    <2>2. y \in Todo \cup {<<>>}
      BY <2>1, RestOfExit
    <2> HIDE DEF y
    <2>3. /\ rec \in CallRecord /\ rec.at = "ending" /\ rec.inst = i
      BY <1>1, <2>1, <2>2 DEF CallRecord, At
    <2> HIDE DEF rec, e
    <2>4. BoardTyped' /\ stories' \in [Story -> Save]
      <3>1. CASE /\ e.do = "attach_call_card" /\ Attaches(e)
                 /\ UNCHANGED stories
        <4>1. e.mode \in Mode
          BY <2>1, <3>1, EffectFields
        <4>2. CASE UNCHANGED <<board, mode>>
          BY <1>1, <3>1, <4>2 DEF BoardTyped
        <4>3. CASE Put(NewInst(e.card), "pending", e.mode)
          BY <1>1, <3>1, <4>1, <4>3, PutTyped
        <4> QED BY <3>1, <4>2, <4>3 DEF Attaches
      <3>2. CASE /\ e.do = "keep_card_pending" /\ Keeps(i)
                 /\ UNCHANGED stories
        <4>1. PICK m : m = IF mode[i] = None THEN "either" ELSE mode[i]
          OBVIOUS
        <4>2. m \in Mode
          BY <1>1, <2>1, <4>1 DEF BoardTyped, Mode
        <4>3. Put(i, "pending", m)
          BY <3>2, <4>1 DEF Keeps
        <4> QED BY <1>1, <3>2, <4>2, <4>3, PutTyped
      <3>3. CASE e.do = "end_story" /\ Ends(i, e)
        BY <1>1, <2>1, <3>3, EndsIs
      <3> QED BY <2>1, <3>1, <3>2, <3>3 DEF EffectRuns
    <2> QED BY <2>1, <2>3, <2>4, CallSet
  <1>11. ASSUME NEW r \in Call, Over(r)
         PROVE  StoryInvariant'
    <2> DEFINE i == call[r].inst
    <2>1. /\ call' = [call EXCEPT ![r] = Idle] /\ UNCHANGED stories
          /\ \/ Put(i, "none", None)
             \/ UNCHANGED <<board, mode>>
      BY <1>11 DEF Over
    <2>2. BoardTyped'
      <3>1. CASE Put(i, "none", None)
        BY <1>1, <3>1 DEF BoardTyped, Put
      <3>2. CASE UNCHANGED <<board, mode>>
        BY <1>1, <3>2 DEF BoardTyped
      <3> QED BY <2>1, <3>1, <3>2
    <2>3. stories' \in [Story -> Save]
      BY <1>1, <2>1
    <2> QED BY <1>2, <2>1, <2>2, <2>3, CallSet
  <1>12. ASSUME NEW i \in Inst, Missed(i)
         PROVE  StoryInvariant'
    <2>1. /\ board[i] = "pending" /\ board' = [board EXCEPT ![i] = "missed"]
          /\ UNCHANGED stories /\ UNCHANGED mode /\ UNCHANGED call
      BY <1>12 DEF Missed
    <2> QED BY <1>1, <2>1 DEF StoryInvariant, TypeOK, WithCard
  <1>13. CASE UNCHANGED vars
    <2>1. /\ UNCHANGED stories /\ UNCHANGED board /\ UNCHANGED mode
          /\ UNCHANGED call
      BY <1>13 DEF vars
    <2> QED BY <2>1 DEF StoryInvariant, TypeOK, WithCard
  <1> QED BY <1>4, <1>5, <1>6, <1>7, <1>8, <1>9, <1>10, <1>11, <1>12, <1>13
          DEF Next

LEMMA StoryInvariantHolds == Spec => []StoryInvariant
  <1>1. Init => StoryInvariant
    BY InitTyped DEF Init, Idle, StoryInvariant, WithCard
  <1>2. StoryInvariant /\ [Next]_vars => StoryInvariant'
    BY InvariantStep
  <1> QED BY <1>1, <1>2, PTL DEF Spec

\* Chapters, board and calls keep values of their kind, and an instance that is
\* on the board has an entry mode, whatever cards, exits and locks there are
\* and however requests overlap.
THEOREM StoryTypeCorrect == Spec => []TypeOK
  BY StoryInvariantHolds, PTL DEF StoryInvariant

-----------------------------------------------------------------------------
(* The lock *)

\* One request at a time.
Serial ==
    \A r, q \in Call : call[r].at # "idle" /\ call[q].at # "idle" => r = q

\* The decision table: lock l has a place for the call c.
Lets(l, c) ==
    \/ l = None
    \/ c.agent \in l.allowed
    \/ l.level = "soft" /\ c.intent = "agent_outbound"
    \/ /\ c.intent # "agent_outbound"
       /\ \/ l.policy = "allow_with_warning"
          \/ l.policy = "force_free_suppressed" /\ c.source = "free"
          \/ /\ l.policy = "reject_call" /\ l.level = "soft"
             /\ c.source = "free"

\* A lock comes from the profile, and with the chapter's own agents in it.
LocksSeeded ==
    \E seed \in Seeds : \A s \in Story : stories[s].lock \in {seed[s], None}

\* A call that has passed the gate keeps a place in the lock in effect, and
\* a call on a card is with the agent of that card.
PassedGate ==
    \A r \in Call :
        /\ call[r].at \in {"composing", "in_call"} /\ call[r].source # "simulate"
              => \E l \in InEffect(stories) : Lets(l, call[r])
        /\ call[r].at = "composing" /\ call[r].inst # None
              => call[r].agent = OwnerOf[call[r].inst[1]]

LockInvariant == Serial /\ LocksSeeded /\ PassedGate

LEMMA InEffectTyped ==
    ASSUME stories \in [Story -> Save]
    PROVE  InEffect(stories) \subseteq Lock \cup {None}
  BY DEF InEffect, Held, Save

\* What passes the gate has a place in the lock.
LEMMA GateLets ==
    ASSUME NEW l \in Lock \cup {None}, NEW c,
           c.intent \in {"user_dial", "agent_outbound", "free_call"},
           \/ /\ c.source = "story_pending"
              /\ Gate(l, c.agent, c.intent) \in {"allow", "warn"}
           \/ c.source = "free" /\ Gate(l, c.agent, c.intent) = "force_free"
           \/ c.source = "free" /\ Gate(l, c.agent, c.intent) # "reject"
    PROVE  Lets(l, c)
  <1>1. CASE l = None \/ c.agent \in l.allowed
    BY <1>1 DEF Lets
  <1>2. CASE l # None /\ c.agent \notin l.allowed
    <2>1. l.policy \in Policy /\ l.level \in Level
      BY <1>2 DEF Lock
    <2>2. CASE c.intent = "agent_outbound"
      <3>1. Gate(l, c.agent, c.intent)
               = IF l.level = "hard" THEN "reject" ELSE "warn"
        BY <1>2, <2>2 DEF Gate
      <3> QED BY <2>1, <2>2, <3>1 DEF Lets, Level
    <2>3. CASE c.intent # "agent_outbound"
      <3>1. CASE l.policy = "reject_call"
        <4>1. Gate(l, c.agent, c.intent)
                 = IF l.level = "hard" THEN "reject" ELSE "force_free"
          BY <1>2, <2>3, <3>1 DEF Gate
        <4> QED BY <2>1, <2>3, <3>1, <4>1 DEF Lets, Level
      <3>2. CASE l.policy = "force_free_suppressed"
        <4>1. Gate(l, c.agent, c.intent) = "force_free"
          BY <1>2, <2>3, <3>2 DEF Gate
        <4> QED BY <2>3, <3>2, <4>1 DEF Lets
      <3>3. CASE l.policy = "allow_with_warning"
        BY <2>3, <3>3 DEF Lets
      <3> QED BY <2>1, <3>1, <3>2, <3>3 DEF Policy
    <2> QED BY <2>2, <2>3
  <1> QED BY <1>1, <1>2

\* When a chapter begins, a lock stays in effect or the chapter's own comes.
LEMMA ActivatedLock ==
    ASSUME stories \in [Story -> Save], NEW s \in Story,
           NEW l \in InEffect(stories)
    PROVE  LET st == Activate(stories, s) IN
           \/ l \in InEffect(st)
           \/ stories[s].lock # None /\ stories[s].lock \in InEffect(st)
  <1> DEFINE st == Activate(stories, s)
             k == stories[s].lock
             hard(S) == {x \in S : x.level = "hard"}
  <1>1. \A t \in Story : /\ st[t].lock = stories[t].lock
                         /\ st[t].status = IF t = s THEN "active"
                                           ELSE stories[t].status
    BY DEF Activate, Save
  <1> HIDE DEF st
  <1>2. Held(st) = Held(stories) \cup ({k} \ {None})
    BY <1>1 DEF Held
  <1>3. /\ InEffect(stories) = IF hard(Held(stories)) # {}
                               THEN hard(Held(stories))
                               ELSE IF Held(stories) # {} THEN Held(stories)
                               ELSE {None}
        /\ InEffect(st) = IF hard(Held(st)) # {} THEN hard(Held(st))
                          ELSE IF Held(st) # {} THEN Held(st) ELSE {None}
    BY DEF InEffect
  <1>4. CASE k = None
    <2>1. Held(st) = Held(stories)
      BY <1>2, <1>4
    <2> QED BY <1>3, <2>1 DEF st
  <1>5. CASE k # None
    <2>1. Held(st) = Held(stories) \cup {k}
      BY <1>2, <1>5
    <2>2. CASE hard(Held(stories)) # {}
      BY <1>3, <2>1, <2>2 DEF st
    <2>3. CASE hard(Held(stories)) = {}
      BY <1>3, <1>5, <2>1, <2>3 DEF st
    <2> QED BY <2>2, <2>3
  <1> QED BY <1>4, <1>5

LEMMA SerialStep ==
    ASSUME Overlap = FALSE, call \in [Call -> CallRecord], Serial, [Next]_vars
    PROVE  Serial'
  <1>1. ASSUME NEW r \in Call, NEW source, NEW intent, NEW g, NEW i,
               Composes(r, source, intent, g, i)
        PROVE  Serial'
    <2>1. \A q \in Call : call[q].at = "idle"
      BY <1>1 DEF Composes, MayBegin
    <2>2. \A q \in Call \ {r} : call'[q] = call[q]
      BY <1>1 DEF Composes
    <2> QED BY <2>1, <2>2 DEF Serial
  <1>2. ASSUME NEW r \in Call, call[r].at # "idle",
               \A q \in Call \ {r} : call'[q] = call[q]
        PROVE  Serial'
    BY <1>2 DEF Serial
  <1>3. ASSUME NEW r \in Call, NEW g \in Agent,
               \/ \E intent \in {"user_dial", "agent_outbound"} :
                     Request(r, intent, g)
               \/ RequestFree(r, g)
        PROVE  Serial'
    BY <1>1, <1>3 DEF Request, RequestFree
  <1>4. ASSUME NEW r \in Call, NEW c \in Simulated, Simulate(r, c)
        PROVE  Serial'
    BY <1>1, <1>4 DEF Simulate
  <1>5. ASSUME NEW r \in Call, Fails(r) PROVE Serial'
    BY <1>2, <1>5 DEF Fails
  <1>6. ASSUME NEW r \in Call, Begun(r) PROVE Serial'
    BY <1>2, <1>6 DEF Begun
  <1>7. ASSUME NEW r \in Call, HangUp(r) PROVE Serial'
    BY <1>2, <1>7 DEF HangUp
  <1>8. ASSUME NEW r \in Call, RunEffect(r) PROVE Serial'
    <2>1. call[r].at = "ending" /\ call' = [call EXCEPT ![r].todo = Tail(@)]
      BY <1>8 DEF RunEffect
    <2> QED BY <1>2, <2>1
  <1>9. ASSUME NEW r \in Call, Over(r) PROVE Serial'
    BY <1>2, <1>9 DEF Over
  <1>10. ASSUME UNCHANGED call PROVE Serial'
    BY <1>10 DEF Serial
  <1>11. ASSUME NEW i \in Inst, Missed(i) PROVE Serial'
    BY <1>10, <1>11 DEF Missed
  <1>12. CASE UNCHANGED vars
    BY <1>10, <1>12 DEF vars
  <1> QED BY <1>3, <1>4, <1>5, <1>6, <1>7, <1>8, <1>9, <1>11, <1>12 DEF Next

\* No step makes a lock.
LEMMA LocksStep ==
    ASSUME StoryInvariant, LocksSeeded, [Next]_vars
    PROVE  LocksSeeded'
  <1>1. stories \in [Story -> Save] /\ call \in [Call -> CallRecord]
    BY DEF StoryInvariant, TypeOK
  <1>2. PICK seed \in Seeds : \A s \in Story : stories[s].lock \in {seed[s], None}
    BY DEF LocksSeeded
  <1>3. ASSUME \A s \in Story : stories'[s].lock \in {stories[s].lock, None}
        PROVE  LocksSeeded'
    BY <1>2, <1>3 DEF LocksSeeded
  <1>4. ASSUME UNCHANGED stories PROVE LocksSeeded'
    BY <1>3, <1>4
  <1>5. ASSUME NEW r \in Call, Begun(r) PROVE LocksSeeded'
    <2>1. \A s \in Story : stories'[s].lock = stories[s].lock
      BY <1>1, <1>5 DEF Begun, Activate, Save
    <2> QED BY <1>3, <2>1
  <1>6. ASSUME NEW r \in Call, RunEffect(r) PROVE LocksSeeded'
    <2>1. /\ EffectRuns(call[r].inst, Head(call[r].todo))
          /\ call[r].inst \in Inst /\ Head(call[r].todo) \in Effect
      BY <1>6, RunEffectIs
    <2>2. CASE UNCHANGED stories
      BY <1>4, <2>2
    <2>3. CASE /\ Head(call[r].todo).do = "end_story"
               /\ Ends(call[r].inst, Head(call[r].todo))
      <3>1. TypeOK
        BY DEF StoryInvariant
      <3> QED BY <1>3, <2>1, <2>3, <3>1, EndsIs
    <2> QED BY <2>1, <2>2, <2>3 DEF EffectRuns
  <1>7. ASSUME NEW r \in Call, NEW source, NEW intent, NEW g, NEW i,
               Composes(r, source, intent, g, i)
        PROVE  LocksSeeded'
    BY <1>4, <1>7 DEF Composes
  <1>8. ASSUME NEW r \in Call, NEW g \in Agent,
               \/ \E intent \in {"user_dial", "agent_outbound"} :
                     Request(r, intent, g)
               \/ RequestFree(r, g)
        PROVE  LocksSeeded'
    BY <1>7, <1>8 DEF Request, RequestFree
  <1>9. ASSUME NEW r \in Call, NEW c \in Simulated, Simulate(r, c)
        PROVE  LocksSeeded'
    BY <1>7, <1>9 DEF Simulate
  <1>10. ASSUME NEW r \in Call, Fails(r) \/ HangUp(r) \/ Over(r)
         PROVE  LocksSeeded'
    <2>1. UNCHANGED stories
      BY <1>10 DEF Fails, HangUp, Over
    <2> QED BY <1>4, <2>1
  <1>11. ASSUME NEW i \in Inst, Missed(i) PROVE LocksSeeded'
    BY <1>4, <1>11 DEF Missed
  <1>12. CASE UNCHANGED vars
    BY <1>4, <1>12 DEF vars
  <1> QED BY <1>5, <1>6, <1>8, <1>9, <1>10, <1>11, <1>12 DEF Next

\* Within a chapter that stays as it is, a call that may stand there.
Stands(c) ==
    /\ c.at \in {"composing", "in_call"} /\ c.source # "simulate"
          => \E l \in InEffect(stories) : Lets(l, c)
    /\ c.at = "composing" /\ c.inst # None
          => c.agent = OwnerOf[c.inst[1]]

LEMMA StandingStep ==
    ASSUME call \in [Call -> CallRecord], PassedGate, UNCHANGED stories,
           NEW r \in Call, NEW rec, Stands(rec),
           call' = [call EXCEPT ![r] = rec]
    PROVE  PassedGate'
  <1>1. \A q \in Call : Stands(call'[q])
    BY DEF PassedGate, Stands
  <1>2. InEffect(stories)' = InEffect(stories)
    BY DEF InEffect, Held
  <1> QED BY <1>1, <1>2 DEF PassedGate, Stands

LEMMA PassedStep ==
    ASSUME Overlap = FALSE, StoryInvariant, LockInvariant, [Next]_vars
    PROVE  PassedGate'
  <1>1. /\ stories \in [Story -> Save] /\ call \in [Call -> CallRecord]
        /\ Serial /\ PassedGate /\ LocksSeeded
        /\ InEffect(stories) \subseteq Lock \cup {None}
    BY InEffectTyped DEF StoryInvariant, TypeOK, LockInvariant
  <1>2. ASSUME NEW r \in Call, NEW source, NEW intent, NEW g, NEW i,
               Composes(r, source, intent, g, i),
               i # None => g = OwnerOf[i[1]],
               source # "simulate" =>
                  \E l \in InEffect(stories) :
                     Lets(l, [at |-> "composing", source |-> source,
                              intent |-> intent, agent |-> g, inst |-> i,
                              todo |-> <<>>])
        PROVE  PassedGate'
    <2> DEFINE rec == [at |-> "composing", source |-> source,
                       intent |-> intent, agent |-> g, inst |-> i,
                       todo |-> <<>>]
    <2>1. call' = [call EXCEPT ![r] = rec] /\ UNCHANGED stories
      BY <1>2 DEF Composes
    <2>2. rec.source = source /\ rec.inst = i /\ rec.agent = g
      OBVIOUS
    <2>3. source # "simulate" => \E l \in InEffect(stories) : Lets(l, rec)
      BY <1>2
    <2> HIDE DEF rec
    <2>4. Stands(rec)
      BY <1>2, <2>2, <2>3 DEF Stands
    <2> QED BY <1>1, <2>1, <2>4, StandingStep
  <1>3. ASSUME NEW r \in Call, NEW g \in Agent,
               NEW intent \in {"user_dial", "agent_outbound"},
               Request(r, intent, g)
        PROVE  PassedGate'
    <2>1. PICK l \in InEffect(stories) :
             \/ /\ Gate(l, g, intent) \in {"allow", "warn"}
                /\ \E i \in Pickable(g, intent) :
                      Composes(r, "story_pending", intent, g, i)
             \/ /\ \/ Gate(l, g, intent) = "force_free"
                   \/ Gate(l, g, intent) # "reject"
                      /\ Pickable(g, intent) = {}
                /\ Composes(r, "free", intent, g, None)
      BY <1>3 DEF Request
    <2>2. l \in Lock \cup {None}
      BY <1>1
    <2>3. CASE /\ Gate(l, g, intent) \in {"allow", "warn"}
               /\ \E i \in Pickable(g, intent) :
                     Composes(r, "story_pending", intent, g, i)
      <3>1. PICK i \in Pickable(g, intent) :
               Composes(r, "story_pending", intent, g, i)
        BY <2>3
      <3>2. OwnerOf[i[1]] = g
        BY DEF Pickable
      <3> DEFINE rec == [at |-> "composing", source |-> "story_pending",
                         intent |-> intent, agent |-> g, inst |-> i,
                         todo |-> <<>>]
      <3>3. /\ rec.source = "story_pending" /\ rec.agent = g
            /\ rec.intent = intent
        OBVIOUS
      <3> HIDE DEF rec
      <3>4. Lets(l, rec)
        BY <2>2, <2>3, <3>3, GateLets
      <3> QED BY <1>2, <3>1, <3>2, <3>4 DEF rec
    <2>4. CASE /\ \/ Gate(l, g, intent) = "force_free"
                  \/ Gate(l, g, intent) # "reject"
               /\ Composes(r, "free", intent, g, None)
      <3> DEFINE rec == [at |-> "composing", source |-> "free",
                         intent |-> intent, agent |-> g, inst |-> None,
                         todo |-> <<>>]
      <3>1. rec.source = "free" /\ rec.agent = g /\ rec.intent = intent
        OBVIOUS
      <3> HIDE DEF rec
      <3>2. Lets(l, rec)
        BY <2>2, <2>4, <3>1, GateLets
      <3> QED BY <1>2, <2>4, <3>2 DEF rec
    <2> QED BY <2>1, <2>3, <2>4
  <1>4. ASSUME NEW r \in Call, NEW g \in Agent, RequestFree(r, g)
        PROVE  PassedGate'
    <2>1. PICK l \in InEffect(stories) :
             /\ Gate(l, g, "free_call") # "reject"
             /\ Composes(r, "free", "free_call", g, None)
      BY <1>4 DEF RequestFree
    <2>2. l \in Lock \cup {None}
      BY <1>1
    <2> DEFINE rec == [at |-> "composing", source |-> "free",
                       intent |-> "free_call", agent |-> g, inst |-> None,
                       todo |-> <<>>]
    <2>3. rec.source = "free" /\ rec.agent = g /\ rec.intent = "free_call"
      OBVIOUS
    <2> HIDE DEF rec
    <2>4. Lets(l, rec)
      BY <2>1, <2>2, <2>3, GateLets
    <2> QED BY <1>2, <2>1, <2>4 DEF rec
  <1>5. ASSUME NEW r \in Call, NEW c \in Simulated, Simulate(r, c)
        PROVE  PassedGate'
    <2>1. Composes(r, "simulate", "simulate_start", OwnerOf[c], NewInst(c))
      BY <1>5 DEF Simulate
    <2>2. NewInst(c)[1] = c
      BY DEF NewInst
    <2> QED BY <1>2, <2>1, <2>2
  <1>6. ASSUME NEW r \in Call, Fails(r) PROVE PassedGate'
    <2>1. call' = [call EXCEPT ![r] = Idle] /\ UNCHANGED stories
      BY <1>6 DEF Fails
    <2>2. Stands(Idle)
      BY DEF Stands, Idle
    <2> QED BY <1>1, <2>1, <2>2, StandingStep
  <1>7. ASSUME NEW r \in Call, Begun(r) PROVE PassedGate'
    <2> DEFINE i == call[r].inst
               rec == [call[r] EXCEPT !.at = "in_call"]
    <2>1. /\ call[r].at = "composing" /\ call[r] \in CallRecord
          /\ call' = [call EXCEPT ![r] = rec]
          /\ stories' = IF i = None THEN stories
                        ELSE Activate(stories, StoryOf[i[1]])
      BY <1>1, <1>7 DEF Begun
    <2>2. /\ i \in Inst \cup {None}
          /\ rec.at = "in_call" /\ rec.source = call[r].source
          /\ rec.agent = call[r].agent /\ rec.intent = call[r].intent
      BY <2>1 DEF CallRecord
    <2> HIDE DEF rec
    <2>3. \A l : Lets(l, call[r]) => Lets(l, rec)
      BY <2>2 DEF Lets
    <2>4. CASE i = None
      <3>1. Stands(rec)
        BY <1>1, <2>1, <2>2, <2>3 DEF PassedGate, Stands
      <3> QED BY <1>1, <2>1, <2>4, <3>1, StandingStep
    <2>5. CASE i # None
      <3> DEFINE s == StoryOf[i[1]]
                 st == Activate(stories, s)
      <3>1. /\ i \in Inst /\ i[1] \in Card /\ s \in Story
            /\ call[r].agent = OwnerOf[i[1]]
        BY <1>1, <2>1, <2>2, <2>5, ConstantsAre DEF Inst, PassedGate
      <3>2. stories' = st
        BY <2>1, <2>5
      <3>3. rec.source # "simulate" =>
               \E l \in InEffect(st) : Lets(l, rec)
        <4> SUFFICES ASSUME rec.source # "simulate"
                     PROVE  \E l \in InEffect(st) : Lets(l, rec)
          OBVIOUS
        <4>1. PICK l \in InEffect(stories) : Lets(l, call[r])
          BY <1>1, <2>1, <2>2 DEF PassedGate
        <4>2. CASE l \in InEffect(st)
          BY <2>3, <4>1, <4>2
        <4>3. CASE stories[s].lock # None /\ stories[s].lock \in InEffect(st)
          <5>1. PICK seed \in Seeds :
                   \A t \in Story : stories[t].lock \in {seed[t], None}
            BY <1>1 DEF LocksSeeded
          <5>2. stories[s].lock = seed[s] /\ seed[s] # None
            BY <3>1, <4>3, <5>1
          <5>3. OwnerOf[i[1]] \in seed[s].allowed
            BY <3>1, <5>2, StoryCallsAssumption
          <5>4. Lets(stories[s].lock, rec)
            BY <2>2, <3>1, <5>2, <5>3 DEF Lets
          <5> QED BY <4>3, <5>4
        <4> QED BY <1>1, <3>1, <4>1, <4>2, <4>3, ActivatedLock
      <3>4. \A q \in Call \ {r} : call'[q] = call[q] /\ call[q].at = "idle"
        BY <1>1, <2>1 DEF Serial
      <3>5. call'[r] = rec
        BY <1>1, <2>1
      <3>6. InEffect(stories)' = InEffect(st)
        BY <3>2 DEF InEffect, Held
      <3> HIDE DEF st
      <3> QED BY <2>2, <3>3, <3>4, <3>5, <3>6 DEF PassedGate
    <2> QED BY <2>4, <2>5
  <1>8. ASSUME NEW r \in Call, HangUp(r) PROVE PassedGate'
    <2>1. PICK x :
             call' = [call EXCEPT ![r].at = "ending", ![r].todo = x]
      BY <1>8 DEF HangUp
    <2> DEFINE rec == [call[r] EXCEPT !.at = "ending", !.todo = x]
    <2>2. call[r] \in CallRecord /\ UNCHANGED stories
      BY <1>1, <1>8 DEF HangUp
    <2>3. call' = [call EXCEPT ![r] = rec] /\ rec.at = "ending"
      BY <1>1, <2>1, <2>2 DEF CallRecord
    <2> HIDE DEF rec
    <2>4. Stands(rec)
      BY <2>3 DEF Stands
    <2> QED BY <1>1, <2>2, <2>3, <2>4, StandingStep
  <1>9. ASSUME NEW r \in Call, RunEffect(r) PROVE PassedGate'
    <2>1. call[r].at = "ending" /\ call' = [call EXCEPT ![r].todo = Tail(@)]
      BY <1>9 DEF RunEffect
    <2>2. \A q \in Call \ {r} : call'[q] = call[q] /\ call[q].at = "idle"
      BY <1>1, <2>1 DEF Serial
    <2>3. call'[r].at = "ending"
      BY <1>1, <2>1 DEF CallRecord
    <2> QED BY <2>2, <2>3 DEF PassedGate
  <1>10. ASSUME NEW r \in Call, Over(r) PROVE PassedGate'
    <2>1. call' = [call EXCEPT ![r] = Idle] /\ UNCHANGED stories
      BY <1>10 DEF Over
    <2>2. Stands(Idle)
      BY DEF Stands, Idle
    <2> QED BY <1>1, <2>1, <2>2, StandingStep
  <1>11. ASSUME UNCHANGED stories, UNCHANGED call PROVE PassedGate'
    <2>1. InEffect(stories)' = InEffect(stories)
      BY <1>11 DEF InEffect, Held
    <2> QED BY <1>1, <1>11, <2>1 DEF PassedGate
  <1>12. ASSUME NEW i \in Inst, Missed(i) PROVE PassedGate'
    BY <1>11, <1>12 DEF Missed
  <1>13. CASE UNCHANGED vars
    BY <1>11, <1>13 DEF vars
  <1> QED BY <1>3, <1>4, <1>5, <1>6, <1>7, <1>8, <1>9, <1>10, <1>12, <1>13
          DEF Next

\* With one request at a time, an agent outside the lock in effect has a call
\* only where the decision table of the gate has one, for as long as the call
\* goes on: a card that begins its chapter puts that chapter's own lock into
\* effect, and the lock allows the card's agent (evaluateStoryLockGate,
\* activateStoryOnBegin, beginCall).
THEOREM CallsObeyLock == (Overlap = FALSE) => (Spec => []LockHolds)
  <1> SUFFICES ASSUME Overlap = FALSE PROVE Spec => []LockHolds
    OBVIOUS
  <1>1. Init => LockInvariant
    <2> SUFFICES ASSUME Init PROVE LockInvariant
      OBVIOUS
    <2>1. \A r \in Call : call[r].at = "idle"
      BY DEF Init, Idle
    <2>2. LocksSeeded
      BY DEF Init, LocksSeeded
    <2> QED BY <2>1, <2>2 DEF LockInvariant, Serial, PassedGate
  <1>2. StoryInvariant /\ LockInvariant /\ [Next]_vars => LockInvariant'
    <2> SUFFICES ASSUME StoryInvariant, LockInvariant, [Next]_vars
                 PROVE  LockInvariant'
      OBVIOUS
    <2>1. Serial /\ LocksSeeded /\ call \in [Call -> CallRecord]
      BY DEF LockInvariant, StoryInvariant, TypeOK
    <2> QED BY <2>1, SerialStep, LocksStep, PassedStep DEF LockInvariant
  <1>3. LockInvariant => LockHolds
    BY DEF LockInvariant, PassedGate, LockHolds, Lets
  <1> QED BY <1>1, <1>2, <1>3, StoryInvariantHolds, PTL DEF Spec

-----------------------------------------------------------------------------
(* The end of a chapter *)

\* The exit x of card c attaches cards of c's own chapter, and ends the
\* chapter, if at all, with its last effect.
Proper(c, x) ==
    \A k \in 1..Len(x) :
        /\ x[k].do = "attach_call_card" => StoryOf[x[k].card] = StoryOf[c]
        /\ x[k].do = "end_story" => k = Len(x)

ExitsProper == \A c \in Card : \A x \in ExitOf[c] : Proper(c, x)

\* A call on a card that is not yet at its end has its chapter active.
Onstage(c) == \/ c.at = "in_call"
              \/ c.at = "ending" /\ c.todo # <<>>

OwnChapterOn ==
    \A r \in Call : Onstage(call[r]) /\ call[r].inst \in Inst
                    => stories[StoryOf[call[r].inst[1]]].status = "active"

TodoProper ==
    \A r \in Call : call[r].todo # <<>> => Proper(call[r].inst[1], call[r].todo)

ChapterInvariant == Serial /\ OwnChapterOn /\ TodoProper /\ OldChapterCleared

LEMMA ProperRest ==
    ASSUME NEW c, NEW y \in Todo, Proper(c, y)
    PROVE  /\ Tail(y) # <<>> => Proper(c, Tail(y)) /\ Head(y).do # "end_story"
           /\ Head(y).do = "attach_call_card"
                 => StoryOf[Head(y).card] = StoryOf[c]
  <1>1. /\ \A k \in 1..Len(Tail(y)) :
                 k + 1 \in 1..Len(y) /\ Tail(y)[k] = y[k + 1]
        /\ Head(y) = y[1] /\ 1 \in 1..Len(y)
        /\ Tail(y) = <<>> <=> Len(y) = 1
        /\ y \in Seq(Effect) /\ y # <<>> /\ Tail(y) \in Todo \cup {<<>>}
    BY RestOfExit
  <1>2. Len(y) \in Nat /\ Len(Tail(y)) = Len(y) - 1
    BY <1>1, HeadTailProperties
  <1>3. Proper(c, Tail(y))
    <2> DEFINE z == Tail(y)
    <2>1. /\ \A k \in 1..Len(z) : k + 1 \in 1..Len(y) /\ z[k] = y[k + 1]
          /\ Len(y) \in Nat /\ Len(z) = Len(y) - 1
      BY <1>1, <1>2
    <2> HIDE DEF z
    <2>2. \A k \in 1..Len(z) : k + 1 = Len(y) => k = Len(z)
      BY <2>1
    <2>3. Proper(c, z)
      BY <2>1, <2>2 DEF Proper
    <2> QED BY <2>3 DEF z
  <1> QED BY <1>1, <1>3 DEF Proper

\* One call changes; the chapters and the board do not.
LEMMA ChapterQuiet ==
    ASSUME call \in [Call -> CallRecord], OwnChapterOn, TodoProper,
           OldChapterCleared, UNCHANGED stories, UNCHANGED board,
           NEW r \in Call, NEW rec, call' = [call EXCEPT ![r] = rec],
           Onstage(rec) /\ rec.inst \in Inst
              => stories[StoryOf[rec.inst[1]]].status = "active",
           rec.todo # <<>> => Proper(rec.inst[1], rec.todo)
    PROVE  OwnChapterOn' /\ TodoProper' /\ OldChapterCleared'
  <1>1. \A q \in Call : call'[q] = IF q = r THEN rec ELSE call[q]
    OBVIOUS
  <1>2. OwnChapterOn'
    BY <1>1 DEF OwnChapterOn, Onstage
  <1>3. TodoProper'
    BY <1>1 DEF TodoProper, Proper
  <1>4. OldChapterCleared'
    BY DEF OldChapterCleared
  <1> QED BY <1>2, <1>3, <1>4

LEMMA ChapterStep ==
    ASSUME Overlap = FALSE, ExitsProper, StoryInvariant, ChapterInvariant,
           [Next]_vars
    PROVE  OwnChapterOn' /\ TodoProper' /\ OldChapterCleared'
  <1> DEFINE Goal == OwnChapterOn /\ TodoProper /\ OldChapterCleared
  <1>1. /\ stories \in [Story -> Save] /\ call \in [Call -> CallRecord]
        /\ BoardTyped /\ TypeOK
        /\ Serial /\ OwnChapterOn /\ TodoProper /\ OldChapterCleared
        /\ \A r \in Call : call[r] \in CallRecord
        /\ WithCard
    BY DEF StoryInvariant, TypeOK, BoardTyped, ChapterInvariant
  <1>2. ASSUME NEW r \in Call, NEW source, NEW intent, NEW g, NEW i,
               Composes(r, source, intent, g, i)
        PROVE  Goal'
    <2> DEFINE rec == [at |-> "composing", source |-> source,
                       intent |-> intent, agent |-> g, inst |-> i,
                       todo |-> <<>>]
    <2>1. /\ call' = [call EXCEPT ![r] = rec]
          /\ UNCHANGED stories /\ UNCHANGED board
      BY <1>2 DEF Composes
    <2>2. ~Onstage(rec) /\ rec.todo = <<>>
      BY DEF Onstage
    <2> HIDE DEF rec
    <2> QED BY <1>1, <2>1, <2>2, ChapterQuiet
  <1>3. ASSUME NEW r \in Call, NEW g \in Agent,
               \/ \E intent \in {"user_dial", "agent_outbound"} :
                     Request(r, intent, g)
               \/ RequestFree(r, g)
        PROVE  Goal'
    BY <1>2, <1>3 DEF Request, RequestFree
  <1>4. ASSUME NEW r \in Call, NEW c \in Simulated, Simulate(r, c)
        PROVE  Goal'
    BY <1>2, <1>4 DEF Simulate
  <1>5. ~Onstage(Idle) /\ Idle.todo = <<>>
    BY DEF Onstage, Idle
  <1>6. ASSUME NEW r \in Call, Fails(r) PROVE Goal'
    <2>1. /\ call' = [call EXCEPT ![r] = Idle]
          /\ UNCHANGED stories /\ UNCHANGED board
      BY <1>6 DEF Fails
    <2> QED BY <1>1, <1>5, <2>1, ChapterQuiet
  <1>7. ASSUME NEW r \in Call, Begun(r) PROVE Goal'
    <2> DEFINE i == call[r].inst
    <2>1. /\ call[r].at = "composing" /\ call[r].todo = <<>>
          /\ call' = [call EXCEPT ![r].at = "in_call"]
          /\ board' = IF /\ call[r].source = "story_pending"
                         /\ board[i] \in {"pending", "missed"}
                      THEN [board EXCEPT ![i] = "active"] ELSE board
          /\ stories' = IF i = None THEN stories
                        ELSE Activate(stories, StoryOf[i[1]])
      BY <1>1, <1>7 DEF Begun, WithCard
    <2>2. \A q \in Call \ {r} : call'[q] = call[q] /\ call[q].at = "idle"
      BY <1>1, <2>1 DEF Serial
    <2>3. call'[r].inst = i /\ call'[r].todo = <<>> /\ i \in Inst \cup {None}
      BY <1>1, <2>1 DEF CallRecord
    <2>4. \A j \in Inst : board'[j] \in {"pending", "missed"}
                          => board[j] \in {"pending", "missed"}
      BY <1>1, <2>1 DEF BoardTyped
    <2>5. TodoProper'
      BY <1>1, <2>2, <2>3 DEF TodoProper, WithCard, Proper
    <2>6. CASE i = None
      <3>1. UNCHANGED stories /\ None \notin Inst
        BY <2>1, <2>6, ConstantsAre
      <3>2. OwnChapterOn'
        BY <2>2, <2>3, <2>6, <3>1 DEF OwnChapterOn, Onstage
      <3> QED BY <1>1, <2>4, <2>5, <3>1, <3>2 DEF OldChapterCleared
    <2>7. CASE i # None
      <3>1. StoryOf[i[1]] \in Story
        BY <2>3, <2>7, ConstantsAre DEF Inst
      <3>2. stories' = [stories EXCEPT ![StoryOf[i[1]]].status = "active"]
        BY <2>1, <2>7 DEF Activate
      <3>3. \A t \in Story : stories'[t].status
               = IF t = StoryOf[i[1]] THEN "active" ELSE stories[t].status
        BY <1>1, <3>1, <3>2 DEF Save
      <3>4. OwnChapterOn'
        BY <2>2, <2>3, <3>1, <3>3 DEF OwnChapterOn, Onstage
      <3>5. \A j \in Inst : StoryOf[j[1]] \in Story
        BY ConstantsAre DEF Inst
      <3>6. OldChapterCleared'
        BY <1>1, <2>4, <3>3, <3>5 DEF OldChapterCleared
      <3> QED BY <2>5, <3>4, <3>6
    <2> QED BY <2>3, <2>6, <2>7
  <1>8. ASSUME NEW r \in Call, HangUp(r) PROVE Goal'
    <2> DEFINE i == call[r].inst
    <2>1. PICK x \in IF i = None THEN {<<>>} ELSE ExitOf[i[1]] \cup {<<>>} :
             call' = [call EXCEPT ![r].at = "ending", ![r].todo = x]
      BY <1>8 DEF HangUp
    <2> DEFINE rec == [call[r] EXCEPT !.at = "ending", !.todo = x]
    <2>2. /\ call[r].at = "in_call" /\ call[r] \in CallRecord
          /\ i \in Inst \cup {None}
          /\ UNCHANGED stories /\ UNCHANGED board
      BY <1>1, <1>8 DEF HangUp, CallRecord
    <2>3. call' = [call EXCEPT ![r] = rec] /\ rec.inst = i /\ rec.todo = x
      BY <1>1, <2>1, <2>2 DEF CallRecord
    <2> HIDE DEF rec
    <2>4. i \in Inst => stories[StoryOf[i[1]]].status = "active"
      BY <1>1, <2>2 DEF OwnChapterOn, Onstage
    <2>5. x # <<>> => Proper(i[1], x)
      <3>1. CASE i = None
        BY <2>1, <3>1
      <3>2. CASE i # None
        <4>1. i[1] \in Card
          BY <2>2, <3>2 DEF Inst
        <4> QED BY <2>1, <3>2, <4>1 DEF ExitsProper
      <3> QED BY <3>1, <3>2
    <2> QED BY <1>1, <2>2, <2>3, <2>4, <2>5, ChapterQuiet
  <1>9. ASSUME NEW r \in Call, RunEffect(r) PROVE Goal'
    <2> DEFINE i == call[r].inst
               y == call[r].todo
               e == Head(y)
               s == StoryOf[i[1]]
    <2>1. /\ call[r].at = "ending" /\ y \in Todo /\ i \in Inst
          /\ e \in Effect /\ EffectRuns(i, e)
          /\ call' = [call EXCEPT ![r].todo = Tail(@)]
      BY <1>9, RunEffectIs DEF StoryInvariant
    <2>2. y # <<>> /\ Proper(i[1], y)
      BY <1>1, <2>1, RestOfExit DEF TodoProper
    <2>3. /\ Tail(y) # <<>> => Proper(i[1], Tail(y)) /\ e.do # "end_story"
          /\ e.do = "attach_call_card" => StoryOf[e.card] = s
      BY <2>1, <2>2, ProperRest
    <2>4. stories[s].status = "active" /\ s \in Story
      BY <1>1, <2>1, <2>2, ConstantsAre DEF OwnChapterOn, Onstage, Inst
    <2>5. \A q \in Call \ {r} : call'[q] = call[q] /\ call[q].at = "idle"
      BY <1>1, <2>1 DEF Serial
    <2>6. call'[r].inst = i /\ call'[r].todo = Tail(y) /\ call'[r].at = "ending"
      BY <1>1, <2>1 DEF CallRecord
    <2> HIDE DEF e, y
    <2>7. TodoProper'
      <3> SUFFICES ASSUME NEW q \in Call, call'[q].todo # <<>>
                   PROVE  Proper(call'[q].inst[1], call'[q].todo)
        BY DEF TodoProper, Proper
      <3>1. q = r
        BY <1>1, <2>5 DEF WithCard
      <3> QED BY <2>3, <2>6, <3>1
    <2>8. ASSUME UNCHANGED stories PROVE OwnChapterOn'
      BY <2>4, <2>5, <2>6, <2>8 DEF OwnChapterOn, Onstage
    <2>9. ASSUME NEW j, NEW m, StoryOf[j[1]] = s, Put(j, "pending", m),
                 UNCHANGED stories
          PROVE  OldChapterCleared'
      <3>1. \A k \in Inst : board'[k] = IF k = j THEN "pending" ELSE board[k]
        BY <1>1, <2>9 DEF Put, BoardTyped
      <3> QED BY <1>1, <2>4, <2>9, <3>1 DEF OldChapterCleared
    <2>10. CASE /\ e.do = "attach_call_card" /\ Attaches(e)
                /\ UNCHANGED stories
      <3>1. CASE UNCHANGED <<board, mode>>
        <4>1. OldChapterCleared'
          BY <1>1, <2>10, <3>1 DEF OldChapterCleared
        <4> QED BY <2>7, <2>8, <2>10, <4>1
      <3>2. CASE Put(NewInst(e.card), "pending", e.mode)
        <4>1. StoryOf[NewInst(e.card)[1]] = s
          BY <2>3, <2>10 DEF NewInst
        <4> QED BY <2>7, <2>8, <2>9, <2>10, <3>2, <4>1
      <3> QED BY <2>10, <3>1, <3>2 DEF Attaches
    <2>11. CASE e.do = "keep_card_pending" /\ Keeps(i) /\ UNCHANGED stories
      <3>1. OldChapterCleared'
        BY <2>9, <2>11 DEF Keeps
      <3> QED BY <2>7, <2>8, <2>11, <3>1
    <2>12. CASE e.do = "end_story" /\ Ends(i, e)
      <3>1. /\ \A j \in Inst : board'[j] # "none" =>
                  j = NewInst(e.next) /\ e.next # None
            /\ \A t \in Story : e.next # None /\ t = StoryOf[e.next]
                                   => stories'[t].status = "inactive"
        BY <1>1, <2>1, <2>12, EndsIs
      <3>2. e.next \in Card \cup {None}
        BY <2>1, <2>12, EffectFields
      <3>3. OldChapterCleared'
        <4> SUFFICES ASSUME NEW j \in Inst, board'[j] \in {"pending", "missed"}
                     PROVE  stories'[StoryOf[j[1]]].status # "completed"
          BY DEF OldChapterCleared
        <4>1. j = NewInst(e.next) /\ e.next # None
          BY <3>1
        <4>2. j[1] = e.next
          BY <4>1 DEF NewInst
        <4>3. StoryOf[e.next] \in Story
          BY <3>2, <4>1, ConstantsAre
        <4> QED BY <3>1, <4>1, <4>2, <4>3
      <3>4. OwnChapterOn'
        BY <2>3, <2>5, <2>6, <2>12 DEF OwnChapterOn, Onstage
      <3> QED BY <2>7, <3>3, <3>4
    <2> QED BY <2>1, <2>10, <2>11, <2>12 DEF EffectRuns
  <1>10. ASSUME NEW r \in Call, Over(r) PROVE Goal'
    <2>1. /\ call' = [call EXCEPT ![r] = Idle] /\ UNCHANGED stories
          /\ \/ Put(call[r].inst, "none", None)
             \/ UNCHANGED <<board, mode>>
      BY <1>10 DEF Over
    <2>2. \A q \in Call : call'[q] = IF q = r THEN Idle ELSE call[q]
      BY <1>1, <2>1
    <2>3. OwnChapterOn'
      BY <1>1, <1>5, <2>1, <2>2 DEF OwnChapterOn, Onstage
    <2>4. TodoProper'
      BY <1>1, <1>5, <2>2 DEF TodoProper, Proper
    <2>5. \A j \in Inst : board'[j] \in {"none", board[j]}
      BY <1>1, <2>1 DEF Put, BoardTyped
    <2>6. OldChapterCleared'
      BY <1>1, <2>1, <2>5 DEF OldChapterCleared
    <2> QED BY <2>3, <2>4, <2>6
  <1>11. ASSUME NEW i \in Inst, Missed(i) PROVE Goal'
    <2>1. /\ board[i] = "pending" /\ board' = [board EXCEPT ![i] = "missed"]
          /\ UNCHANGED stories /\ UNCHANGED call
      BY <1>11 DEF Missed
    <2>2. OldChapterCleared'
      BY <1>1, <2>1 DEF OldChapterCleared, BoardTyped
    <2>3. OwnChapterOn' /\ TodoProper'
      BY <1>1, <2>1 DEF OwnChapterOn, TodoProper, Onstage, Proper
    <2> QED BY <2>2, <2>3
  <1>12. CASE UNCHANGED vars
    <2>1. UNCHANGED stories /\ UNCHANGED board /\ UNCHANGED call
      BY <1>12 DEF vars
    <2> QED BY <1>1, <2>1 DEF OwnChapterOn, TodoProper, OldChapterCleared,
                              Onstage, Proper
  <1> QED BY <1>3, <1>4, <1>6, <1>7, <1>8, <1>9, <1>10, <1>11, <1>12 DEF Next

LEMMA ChapterInvariantHolds ==
    ASSUME Overlap = FALSE, ExitsProper
    PROVE  Spec => []ChapterInvariant
  <1>1. Init => ChapterInvariant
    <2> SUFFICES ASSUME Init PROVE ChapterInvariant
      OBVIOUS
    <2>1. \A r \in Call : call[r].at = "idle" /\ call[r].todo = <<>>
      BY DEF Init, Idle
    <2>2. \A s \in Story : stories[s].status = "none"
      BY DEF Init
    <2>3. \A i \in Inst : StoryOf[i[1]] \in Story
      BY ConstantsAre DEF Inst
    <2> QED BY <2>1, <2>2, <2>3 DEF ChapterInvariant, Serial, OwnChapterOn,
                            Onstage, TodoProper, OldChapterCleared
  <1>2. StoryInvariant /\ ChapterInvariant /\ [Next]_vars => ChapterInvariant'
    <2> SUFFICES ASSUME StoryInvariant, ChapterInvariant, [Next]_vars
                 PROVE  ChapterInvariant'
      OBVIOUS
    <2>1. Serial /\ call \in [Call -> CallRecord]
      BY DEF ChapterInvariant, StoryInvariant, TypeOK
    <2> QED BY <2>1, SerialStep, ChapterStep DEF ChapterInvariant
  <1> QED BY <1>1, <1>2, StoryInvariantHolds, PTL DEF Spec

\* No card of a chapter that is over waits on any agent's board: with exits
\* that attach cards of their own chapter and end it with their last effect,
\* and with one request at a time, whatever was simulated or kept meanwhile
\* (end_story, attach_call_card, keep_card_pending, activateStoryOnBegin).
THEOREM OldCardsGone ==
    (Overlap = FALSE /\ ExitsProper) => (Spec => []OldChapterCleared)
  <1> SUFFICES ASSUME Overlap = FALSE, ExitsProper
               PROVE  Spec => []OldChapterCleared
    OBVIOUS
  <1> QED BY ChapterInvariantHolds, PTL DEF ChapterInvariant

-----------------------------------------------------------------------------
(* The entry of the next chapter *)

\* The entry that an exit of card c leads to can be dialled, and the locks of
\* the chapters other than c's own, which stay as they are, allow its agent.
Opens(c, x) ==
    \A k \in 1..Len(x) : x[k].do = "end_story" /\ x[k].next # None =>
        /\ x[k].mode # "outbound_auto"
        /\ \A seed \in Seeds, u \in Story :
              u # StoryOf[c] /\ seed[u] # None
                 => OwnerOf[x[k].next] \in seed[u].allowed

EntriesOpen == \A c \in Card : \A x \in ExitOf[c] : Opens(c, x)

\* As in the code, the numbers of instances never run out.
CopiesUnbounded == ~IsFiniteSet(Copy)

Waits(i) == board[i] \in {"pending", "missed"}

\* Instance i is an entry of chapter t that the user's dial reaches.
EntryOf(i, t) ==
    /\ StoryOf[i[1]] = t /\ Waits(i)
    /\ mode[i] \in {"either", "inbound_user_dial"}
    /\ \A u \in Story : stories[u].status = "active" /\ stories[u].lock # None
                        => OwnerOf[i[1]] \in stories[u].lock.allowed

\* While a chapter is planned its entry waits, and nothing else does.
PlannedWaits ==
    \A t \in Story : stories[t].status = "inactive" =>
        /\ \E i \in Inst : EntryOf(i, t)
        /\ \A j \in Inst : Waits(j) => StoryOf[j[1]] = t

\* So the card of a call that begins is of that chapter, and while a call on a
\* card goes on no chapter is planned.
TakenWaits ==
    \A r \in Call : call[r].at = "composing" /\ call[r].inst \in Inst
                    => Waits(call[r].inst)

NonePlanned == \A t \in Story : stories[t].status # "inactive"

OnstageFirst ==
    \A r \in Call : Onstage(call[r]) /\ call[r].inst \in Inst => NonePlanned

TodoOpens ==
    \A r \in Call : call[r].todo # <<>> => Opens(call[r].inst[1], call[r].todo)

\* At any time a card has finitely many instances.
CopiesFinite ==
    \A c \in Card : IsFiniteSet({n \in Copy : board[<<c, n>>] # "none"})

NextInvariant == PlannedWaits /\ TakenWaits /\ OnstageFirst /\ TodoOpens
                 /\ CopiesFinite

LEMMA OpensRest ==
    ASSUME NEW c, NEW y \in Todo, Opens(c, y)
    PROVE  /\ Opens(c, Tail(y))
           /\ LET e == Head(y) IN
              e.do = "end_story" /\ e.next # None =>
                 /\ e.mode # "outbound_auto"
                 /\ \A seed \in Seeds, u \in Story :
                       u # StoryOf[c] /\ seed[u] # None
                          => OwnerOf[e.next] \in seed[u].allowed
  <1> DEFINE z == Tail(y)
  <1>1. /\ \A k \in 1..Len(z) : k + 1 \in 1..Len(y) /\ z[k] = y[k + 1]
        /\ Head(y) = y[1] /\ 1 \in 1..Len(y)
    BY RestOfExit
  <1> HIDE DEF z
  <1>2. Opens(c, z)
    BY <1>1 DEF Opens
  <1> QED BY <1>1, <1>2 DEF Opens, z

LEMMA CopiesKept ==
    ASSUME CopiesFinite, NEW k,
           \A j \in Inst : board'[j] # "none" => board[j] # "none" \/ j = k
    PROVE  CopiesFinite'
  <1> SUFFICES ASSUME NEW c \in Card
               PROVE  IsFiniteSet({n \in Copy : board'[<<c, n>>] # "none"})
    BY DEF CopiesFinite
  <1> DEFINE old == {n \in Copy : board[<<c, n>>] # "none"}
             new == {n \in Copy : board'[<<c, n>>] # "none"}
  <1>1. IsFiniteSet(old)
    BY DEF CopiesFinite
  <1>2. new \subseteq old \cup {k[2]}
    <2> SUFFICES ASSUME NEW n \in new PROVE n \in old \cup {k[2]}
      OBVIOUS
    <2>1. n \in Copy /\ <<c, n>> \in Inst /\ board'[<<c, n>>] # "none"
      BY DEF Inst
    <2>2. CASE board[<<c, n>>] # "none"
      BY <2>1, <2>2
    <2>3. CASE <<c, n>> = k
      BY <2>1, <2>3
    <2> QED BY <2>1, <2>2, <2>3
  <1> HIDE DEF old, new
  <1>3. IsFiniteSet(old \cup {k[2]})
    BY <1>1, FS_AddElement
  <1>4. IsFiniteSet(new)
    BY <1>2, <1>3, FS_Subset
  <1> QED BY <1>4 DEF new

\* There is always a number left.
LEMMA UnusedLeft ==
    ASSUME CopiesUnbounded, CopiesFinite, NEW c \in Card
    PROVE  Unused(c) # {}
  <1> DEFINE old == {n \in Copy : board[<<c, n>>] # "none"}
             held == {n \in Copy : <<c, n>> \in HeldBy(call)}
             R == {r \in Call : \E n \in Copy : call[r].inst = <<c, n>>}
             g == [r \in R |-> call[r].inst[2]]
  <1>1. IsFiniteSet(old)
    BY DEF CopiesFinite
  <1>2. IsFiniteSet(held)
    <2>1. IsFiniteSet(R)
      BY FS_Subset, ConstantsAre
    <2>2. \A r \in R : g[r] \in held
      BY DEF HeldBy
    <2>3. ASSUME NEW n \in held PROVE \E r \in R : g[r] = n
      <3>1. PICK r \in Call : call[r].inst = <<c, n>>
        BY DEF HeldBy
      <3> QED BY <3>1
    <2>4. g \in Surjection(R, held)
      <3>1. g \in [R -> held]
        BY <2>2
      <3> HIDE DEF g, R, held
      <3> QED BY <2>3, <3>1 DEF Surjection
    <2> HIDE DEF g, R, held
    <2> QED BY <2>1, <2>4, FS_Surjection
  <1>3. Copy \subseteq Unused(c) \cup (old \cup held)
    BY DEF Unused
  <1> HIDE DEF old, held
  <1>4. IsFiniteSet(old \cup held)
    BY <1>1, <1>2, FS_Union
  <1>5. CASE Unused(c) = {}
    <2>1. Copy \in SUBSET (old \cup held)
      BY <1>3, <1>5
    <2>2. IsFiniteSet(Copy)
      BY <1>4, <2>1, FS_Subset
    <2> QED BY <2>2 DEF CopiesUnbounded
  <1> QED BY <1>5

\* One call changes; the chapters and the board do not.
LEMMA NextQuiet ==
    ASSUME call \in [Call -> CallRecord], NextInvariant,
           UNCHANGED stories, UNCHANGED board, UNCHANGED mode,
           NEW r \in Call, NEW rec, call' = [call EXCEPT ![r] = rec],
           rec.at = "composing" /\ rec.inst \in Inst => Waits(rec.inst),
           Onstage(rec) /\ rec.inst \in Inst => NonePlanned,
           rec.todo # <<>> => Opens(rec.inst[1], rec.todo)
    PROVE  NextInvariant'
  <1>1. \A q \in Call : call'[q] = IF q = r THEN rec ELSE call[q]
    OBVIOUS
  <1>2. PlannedWaits'
    BY DEF NextInvariant, PlannedWaits, EntryOf, Waits
  <1>3. TakenWaits'
    BY <1>1 DEF NextInvariant, TakenWaits, Waits
  <1>4. OnstageFirst'
    BY <1>1 DEF NextInvariant, OnstageFirst, Onstage, NonePlanned
  <1>5. TodoOpens'
    BY <1>1 DEF NextInvariant, TodoOpens, Opens
  <1>6. CopiesFinite'
    BY DEF NextInvariant, CopiesFinite
  <1> QED BY <1>2, <1>3, <1>4, <1>5, <1>6 DEF NextInvariant

\* The effects of a call on a card.
LEMMA NextEffect ==
    ASSUME ExitsProper, EntriesOpen, CopiesUnbounded, StoryInvariant,
           LocksSeeded, ChapterInvariant, NextInvariant,
           NEW r \in Call, RunEffect(r)
    PROVE  NextInvariant'
  <1> DEFINE i == call[r].inst
             y == call[r].todo
             e == Head(y)
             s == StoryOf[i[1]]
  <1>1. /\ stories \in [Story -> Save] /\ call \in [Call -> CallRecord]
        /\ BoardTyped /\ TypeOK /\ Serial /\ WithCard /\ TodoProper
        /\ PlannedWaits /\ OnstageFirst /\ TodoOpens /\ CopiesFinite
    BY DEF StoryInvariant, TypeOK, BoardTyped, ChapterInvariant, NextInvariant
  <1>2. /\ call[r].at = "ending" /\ y \in Todo /\ i \in Inst
        /\ e \in Effect /\ EffectRuns(i, e)
        /\ call' = [call EXCEPT ![r].todo = Tail(@)]
    BY RunEffectIs
  <1>3. y # <<>> /\ Proper(i[1], y) /\ Opens(i[1], y)
    BY <1>1, <1>2, RestOfExit DEF TodoProper, TodoOpens
  <1>4. e.do = "end_story" => Tail(y) = <<>>
    BY <1>2, <1>3, ProperRest
  <1>5. /\ Opens(i[1], Tail(y))
        /\ e.do = "end_story" /\ e.next # None =>
              /\ e.mode # "outbound_auto"
              /\ \A seed \in Seeds, u \in Story :
                    u # s /\ seed[u] # None
                       => OwnerOf[e.next] \in seed[u].allowed
    BY <1>2, <1>3, OpensRest
  <1>6. NonePlanned
    BY <1>1, <1>2, <1>3 DEF OnstageFirst, Onstage
  <1>7. \A q \in Call \ {r} : call'[q] = call[q] /\ call[q].at = "idle"
    BY <1>1, <1>2 DEF Serial
  <1>8. call'[r].inst = i /\ call'[r].todo = Tail(y) /\ call'[r].at = "ending"
    BY <1>1, <1>2 DEF CallRecord
  <1>9. s \in Story
    BY <1>2, ConstantsAre DEF Inst
  <1> HIDE DEF e, y, s
  <1>10. TakenWaits'
    BY <1>7, <1>8 DEF TakenWaits
  <1>11. TodoOpens'
    <2> SUFFICES ASSUME NEW q \in Call, call'[q].todo # <<>>
                 PROVE  Opens(call'[q].inst[1], call'[q].todo)
      BY DEF TodoOpens, Opens
    <2>1. q = r
      BY <1>1, <1>7 DEF WithCard
    <2> QED BY <1>5, <1>8, <2>1
  <1>12. ASSUME UNCHANGED stories, NEW j,
                \A k \in Inst : board'[k] # "none" => board[k] # "none" \/ k = j
         PROVE  NextInvariant'
    <2>1. NonePlanned'
      BY <1>6, <1>12 DEF NonePlanned
    <2>2. PlannedWaits' /\ OnstageFirst'
      BY <2>1 DEF PlannedWaits, OnstageFirst, NonePlanned
    <2>3. CopiesFinite'
      BY <1>1, <1>12, CopiesKept
    <2> QED BY <1>10, <1>11, <2>2, <2>3 DEF NextInvariant
  <1>13. CASE /\ e.do = "attach_call_card" /\ Attaches(e) /\ UNCHANGED stories
    <2>1. \A k \in Inst : board'[k] # "none"
                          => board[k] # "none" \/ k = NewInst(e.card)
      BY <1>1, <1>13 DEF Attaches, Put, BoardTyped
    <2> QED BY <1>12, <1>13, <2>1
  <1>14. CASE e.do = "keep_card_pending" /\ Keeps(i) /\ UNCHANGED stories
    <2>1. \A k \in Inst : board'[k] # "none" => board[k] # "none" \/ k = i
      BY <1>1, <1>14 DEF Keeps, Put, BoardTyped
    <2> QED BY <1>12, <1>14, <2>1
  <1>15. CASE e.do = "end_story" /\ Ends(i, e)
    <2>1. /\ \A j \in Inst : board'[j] # "none" =>
                /\ j = NewInst(e.next) /\ e.next # None
                /\ board'[j] = "pending" /\ mode'[j] = e.mode
          /\ e.next # None => \A j \in Inst : j = NewInst(e.next)
                                     => board'[j] = "pending"
          /\ \A t \in Story :
                /\ stories'[t].lock \in {None, stories[t].lock}
                /\ stories'[t].status
                      = IF e.next # None /\ t = StoryOf[e.next] THEN "inactive"
                        ELSE IF t = s THEN "completed" ELSE stories[t].status
      BY <1>1, <1>2, <1>15, EndsIs DEF s
    <2>2. e.next \in Card \cup {None} /\ e.mode \in Mode
      BY <1>2, <1>15, EffectFields
    <2>3. OnstageFirst'
      BY <1>4, <1>7, <1>8, <1>15 DEF OnstageFirst, Onstage
    <2>4. CopiesFinite'
      BY <1>1, <2>1, CopiesKept
    <2>5. PlannedWaits'
      <3> SUFFICES ASSUME NEW t \in Story, stories'[t].status = "inactive"
                   PROVE  /\ \E j \in Inst : EntryOf(j, t)'
                          /\ \A j \in Inst : Waits(j)' => StoryOf[j[1]] = t
        BY DEF PlannedWaits
      <3>1. e.next # None /\ t = StoryOf[e.next] /\ e.next \in Card
        BY <1>6, <2>1, <2>2 DEF NonePlanned
      <3>2. PICK n \in Inst : n = NewInst(e.next) /\ n[1] = e.next
        BY <1>1, <3>1, UnusedLeft, NewInstIs
      <3>3. board'[n] = "pending" /\ mode'[n] = e.mode
        BY <2>1, <3>1, <3>2
      <3>4. e.mode \in {"either", "inbound_user_dial"}
        BY <1>5, <1>15, <2>2, <3>1 DEF Mode
      <3>5. PICK seed \in Seeds :
               \A u \in Story : stories[u].lock \in {seed[u], None}
        BY DEF LocksSeeded
      <3>6. ASSUME NEW u \in Story, stories'[u].status = "active",
                   stories'[u].lock # None
            PROVE  OwnerOf[e.next] \in stories'[u].lock.allowed
        <4>1. u # s
          BY <2>1, <3>1, <3>6
        <4>2. stories'[u].lock = seed[u] /\ seed[u] # None
          BY <2>1, <3>5, <3>6
        <4> QED BY <1>5, <1>15, <3>1, <4>1, <4>2
      <3>7. EntryOf(n, t)'
        BY <3>1, <3>2, <3>3, <3>4, <3>6 DEF EntryOf, Waits
      <3>8. ASSUME NEW j \in Inst, Waits(j)' PROVE StoryOf[j[1]] = t
        <4>1. j = n
          BY <2>1, <3>2, <3>8 DEF Waits
        <4> QED BY <3>1, <3>2, <4>1
      <3> QED BY <3>2, <3>7, <3>8
    <2> QED BY <1>10, <1>11, <2>3, <2>4, <2>5 DEF NextInvariant
  <1> QED BY <1>2, <1>13, <1>14, <1>15 DEF EffectRuns

\* A call on a waiting card begins: were a chapter planned, it is that card's.
LEMMA NextBegun ==
    ASSUME StoryInvariant, Serial, NextInvariant, NEW r \in Call, Begun(r)
    PROVE  NextInvariant'
  <1> DEFINE i == call[r].inst
  <1>1. /\ stories \in [Story -> Save] /\ call \in [Call -> CallRecord]
        /\ BoardTyped /\ WithCard /\ None \notin Inst
        /\ PlannedWaits /\ TakenWaits /\ TodoOpens /\ CopiesFinite
    BY ConstantsAre DEF StoryInvariant, TypeOK, BoardTyped, NextInvariant
  <1>2. /\ call[r].at = "composing" /\ call[r].todo = <<>>
        /\ call' = [call EXCEPT ![r].at = "in_call"] /\ UNCHANGED mode
        /\ board' = IF /\ call[r].source = "story_pending"
                       /\ board[i] \in {"pending", "missed"}
                    THEN [board EXCEPT ![i] = "active"] ELSE board
        /\ stories' = IF i = None THEN stories
                      ELSE Activate(stories, StoryOf[i[1]])
    BY <1>1 DEF Begun, WithCard
  <1>3. \A q \in Call \ {r} : call'[q] = call[q] /\ call[q].at = "idle"
    BY <1>1, <1>2 DEF Serial
  <1>4. /\ call'[r].inst = i /\ call'[r].todo = <<>> /\ i \in Inst \cup {None}
        /\ call'[r].at = "in_call"
    BY <1>1, <1>2 DEF CallRecord
  <1>5. TakenWaits'
    BY <1>3, <1>4 DEF TakenWaits
  <1>6. TodoOpens'
    BY <1>1, <1>3, <1>4 DEF TodoOpens, WithCard, Opens
  <1>7. CopiesFinite'
    <2>1. \A j \in Inst : board'[j] # "none" => board[j] # "none" \/ j = i
      BY <1>1, <1>2 DEF BoardTyped
    <2> QED BY <1>1, <2>1, CopiesKept
  <1>8. CASE i = None
    <2>1. UNCHANGED stories /\ UNCHANGED board
      BY <1>1, <1>2, <1>8 DEF BoardTyped
    <2>2. PlannedWaits'
      BY <1>1, <1>2, <2>1 DEF PlannedWaits, EntryOf, Waits
    <2>3. OnstageFirst'
      BY <1>1, <1>3, <1>4, <1>8 DEF OnstageFirst, Onstage
    <2> QED BY <1>5, <1>6, <1>7, <2>2, <2>3 DEF NextInvariant
  <1>9. CASE i # None
    <2> DEFINE s == StoryOf[i[1]]
    <2>1. i \in Inst /\ s \in Story /\ Waits(i)
      BY <1>1, <1>2, <1>4, <1>9, ConstantsAre DEF Inst, TakenWaits
    <2>2. \A t \in Story : stories[t].status = "inactive" => t = s
      BY <1>1, <2>1 DEF PlannedWaits
    <2> HIDE DEF s
    <2>3. stories' = [stories EXCEPT ![s].status = "active"]
      BY <1>2, <1>9 DEF Activate, s
    <2>4. NonePlanned'
      BY <1>1, <2>1, <2>2, <2>3 DEF NonePlanned, Save
    <2>5. PlannedWaits' /\ OnstageFirst'
      BY <2>4 DEF PlannedWaits, OnstageFirst, NonePlanned
    <2> QED BY <1>5, <1>6, <1>7, <2>5 DEF NextInvariant
  <1> QED BY <1>8, <1>9

LEMMA NextStep ==
    ASSUME Overlap = FALSE, Simulated = {}, ExitsProper, EntriesOpen,
           CopiesUnbounded, StoryInvariant, LocksSeeded, ChapterInvariant,
           NextInvariant, [Next]_vars
    PROVE  NextInvariant'
  <1>1. /\ stories \in [Story -> Save] /\ call \in [Call -> CallRecord]
        /\ BoardTyped /\ Serial /\ WithCard /\ None \notin Inst
        /\ PlannedWaits /\ TakenWaits /\ OnstageFirst /\ TodoOpens
        /\ CopiesFinite /\ \A r \in Call : call[r] \in CallRecord
    BY ConstantsAre DEF StoryInvariant, TypeOK, BoardTyped, ChapterInvariant,
                        NextInvariant
  <1>2. ASSUME NEW r \in Call, NEW source, NEW intent, NEW g, NEW i,
               Composes(r, source, intent, g, i), i \in Inst => Waits(i)
        PROVE  NextInvariant'
    <2> DEFINE rec == [at |-> "composing", source |-> source,
                       intent |-> intent, agent |-> g, inst |-> i,
                       todo |-> <<>>]
    <2>1. /\ call' = [call EXCEPT ![r] = rec]
          /\ UNCHANGED stories /\ UNCHANGED board /\ UNCHANGED mode
      BY <1>2 DEF Composes
    <2>2. ~Onstage(rec) /\ rec.todo = <<>> /\ rec.inst = i
      BY DEF Onstage
    <2> HIDE DEF rec
    <2> QED BY <1>1, <1>2, <2>1, <2>2, NextQuiet
  <1>3. ASSUME NEW r \in Call, NEW g \in Agent,
               NEW intent \in {"user_dial", "agent_outbound"},
               Request(r, intent, g)
        PROVE  NextInvariant'
    <2>1. \A i \in Pickable(g, intent) : Waits(i)
      BY DEF Pickable, Waits
    <2> QED BY <1>1, <1>2, <1>3, <2>1 DEF Request
  <1>4. ASSUME NEW r \in Call, NEW g \in Agent, RequestFree(r, g)
        PROVE  NextInvariant'
    BY <1>1, <1>2, <1>4 DEF RequestFree
  <1>5. /\ ~Onstage(Idle) /\ Idle.todo = <<>> /\ Idle.at # "composing"
    BY DEF Onstage, Idle
  <1>6. ASSUME NEW r \in Call, Fails(r) PROVE NextInvariant'
    <2>1. /\ call' = [call EXCEPT ![r] = Idle]
          /\ UNCHANGED stories /\ UNCHANGED board /\ UNCHANGED mode
      BY <1>6 DEF Fails
    <2> QED BY <1>1, <1>5, <2>1, NextQuiet
  <1>7. ASSUME NEW r \in Call, Begun(r) PROVE NextInvariant'
    BY <1>1, <1>7, NextBegun
  <1>8. ASSUME NEW r \in Call, HangUp(r) PROVE NextInvariant'
    <2> DEFINE i == call[r].inst
    <2>1. PICK x \in IF i = None THEN {<<>>} ELSE ExitOf[i[1]] \cup {<<>>} :
             call' = [call EXCEPT ![r].at = "ending", ![r].todo = x]
      BY <1>8 DEF HangUp
    <2> DEFINE rec == [call[r] EXCEPT !.at = "ending", !.todo = x]
    <2>2. /\ call[r].at = "in_call" /\ call[r] \in CallRecord
          /\ i \in Inst \cup {None}
          /\ UNCHANGED stories /\ UNCHANGED board /\ UNCHANGED mode
      BY <1>1, <1>8 DEF HangUp, CallRecord
    <2>3. /\ call' = [call EXCEPT ![r] = rec] /\ rec.inst = i
          /\ rec.todo = x /\ rec.at = "ending"
      BY <1>1, <2>1, <2>2 DEF CallRecord
    <2> HIDE DEF rec
    <2>4. i \in Inst => NonePlanned
      BY <1>1, <2>2 DEF OnstageFirst, Onstage
    <2>5. x # <<>> => Opens(i[1], x)
      <3>1. CASE i = None
        BY <2>1, <3>1
      <3>2. CASE i # None
        <4>1. i[1] \in Card
          BY <2>2, <3>2 DEF Inst
        <4> QED BY <2>1, <3>2, <4>1 DEF EntriesOpen
      <3> QED BY <3>1, <3>2
    <2> QED BY <1>1, <2>2, <2>3, <2>4, <2>5, NextQuiet
  <1>9. ASSUME NEW r \in Call, RunEffect(r) PROVE NextInvariant'
    BY <1>9, NextEffect
  <1>10. ASSUME NEW r \in Call, Over(r) PROVE NextInvariant'
    <2> DEFINE i == call[r].inst
    <2>1. /\ call[r].at = "ending" /\ UNCHANGED stories
          /\ call' = [call EXCEPT ![r] = Idle]
          /\ \/ board[i] = "active" /\ Put(i, "none", None)
             \/ UNCHANGED <<board, mode>>
      BY <1>10 DEF Over
    <2>2. \A q \in Call : call'[q] = IF q = r THEN Idle ELSE call[q]
      BY <1>1, <2>1
    <2>3. \A j \in Inst : Waits(j) => /\ Waits(j)' /\ mode'[j] = mode[j]
      BY <1>1, <2>1 DEF Put, BoardTyped, Waits
    <2>4. \A j \in Inst : board'[j] \in {"none", board[j]}
      BY <1>1, <2>1 DEF Put, BoardTyped
    <2>5. PlannedWaits'
      BY <1>1, <2>1, <2>3, <2>4 DEF PlannedWaits, EntryOf, Waits
    <2>6. TakenWaits'
      BY <1>1, <1>5, <2>2, <2>3 DEF TakenWaits
    <2>7. OnstageFirst'
      BY <1>1, <1>5, <2>1, <2>2 DEF OnstageFirst, Onstage, NonePlanned
    <2>8. TodoOpens'
      BY <1>1, <1>5, <2>2 DEF TodoOpens, Opens
    <2>9. CopiesFinite'
      BY <1>1, <2>4, CopiesKept
    <2> QED BY <2>5, <2>6, <2>7, <2>8, <2>9 DEF NextInvariant
  <1>11. ASSUME NEW i \in Inst, Missed(i) PROVE NextInvariant'
    <2>1. /\ board[i] = "pending" /\ board' = [board EXCEPT ![i] = "missed"]
          /\ UNCHANGED stories /\ UNCHANGED call /\ UNCHANGED mode
      BY <1>11 DEF Missed
    <2>2. \A j \in Inst : /\ Waits(j)' <=> Waits(j)
                          /\ board'[j] # "none" => board[j] # "none"
      BY <1>1, <2>1 DEF BoardTyped, Waits
    <2>3. CopiesFinite'
      BY <1>1, <2>2, CopiesKept
    <2>4. PlannedWaits'
      BY <1>1, <2>1, <2>2 DEF PlannedWaits, EntryOf
    <2>5. TakenWaits' /\ OnstageFirst' /\ TodoOpens'
      BY <1>1, <2>1, <2>2 DEF TakenWaits, OnstageFirst, TodoOpens, Onstage,
                              NonePlanned, Opens
    <2> QED BY <2>3, <2>4, <2>5 DEF NextInvariant
  <1>12. CASE UNCHANGED vars
    <2>1. /\ UNCHANGED stories /\ UNCHANGED board /\ UNCHANGED mode
          /\ UNCHANGED call
      BY <1>12 DEF vars
    <2> QED BY <1>1, <2>1 DEF NextInvariant, PlannedWaits, EntryOf, Waits,
               TakenWaits, OnstageFirst, TodoOpens, Onstage, NonePlanned,
               Opens, CopiesFinite
  <1> QED BY <1>3, <1>4, <1>6, <1>7, <1>8, <1>9, <1>10, <1>11, <1>12 DEF Next

LEMMA NextInvariantHolds ==
    ASSUME Overlap = FALSE, Simulated = {}, ExitsProper, EntriesOpen,
           CopiesUnbounded
    PROVE  Spec => [](StoryInvariant /\ NextInvariant)
  <1>1. Init => NextInvariant
    <2> SUFFICES ASSUME Init PROVE NextInvariant
      OBVIOUS
    <2>1. \A r \in Call : call[r].at = "idle" /\ call[r].todo = <<>>
      BY DEF Init, Idle
    <2>2. \A s \in Story : stories[s].status = "none"
      BY DEF Init
    <2>3. CopiesFinite
      <3> SUFFICES ASSUME NEW c \in Card
                   PROVE  IsFiniteSet({n \in Copy : board[<<c, n>>] # "none"})
        BY DEF CopiesFinite
      <3> DEFINE first == CHOOSE n \in Copy : TRUE
                 mounted == {<<d, first>> : d \in Mounted}
      <3>1. board = [i \in Inst |-> IF i \in mounted THEN "pending" ELSE "none"]
        BY DEF Init
      <3>2. \A n \in Copy : <<c, n>> \in mounted => n = first
        OBVIOUS
      <3> HIDE DEF mounted, first
      <3>3. {n \in Copy : board[<<c, n>>] # "none"} \subseteq {first}
        BY <3>1, <3>2 DEF Inst
      <3> QED BY <3>3, FS_Singleton, FS_Subset
    <2> QED BY <2>1, <2>2, <2>3 DEF NextInvariant, PlannedWaits, TakenWaits,
                              OnstageFirst, Onstage, TodoOpens
  <1>2. Init => LocksSeeded
    BY DEF Init, LocksSeeded
  <1>3. StoryInvariant /\ LocksSeeded /\ [Next]_vars => LocksSeeded'
    BY LocksStep
  <1>4. StoryInvariant /\ ChapterInvariant /\ LocksSeeded /\ NextInvariant
        /\ [Next]_vars => NextInvariant'
    BY NextStep
  <1> QED BY <1>1, <1>2, <1>3, <1>4, StoryInvariantHolds,
             ChapterInvariantHolds, PTL DEF Spec

\* A chapter that is planned can be begun, as long as one request is served at
\* a time and no card is started by simulation: its entry is the only card that
\* waits, in a mode that the user's dial fits, and the locks of the chapters
\* that are still active let that dial through (end_story, arrangeChapterNext,
\* pickPendingForIntent, evaluateStoryLockGate).
THEOREM NextChapterOpens ==
    /\ Overlap = FALSE /\ Simulated = {}
    /\ ExitsProper /\ EntriesOpen /\ CopiesUnbounded
    => (Spec => []NextChapterReachable)
  <1> SUFFICES ASSUME Overlap = FALSE, Simulated = {}, ExitsProper,
                      EntriesOpen, CopiesUnbounded
               PROVE  Spec => []NextChapterReachable
    OBVIOUS
  <1>1. StoryInvariant /\ NextInvariant => NextChapterReachable
    <2> SUFFICES ASSUME StoryInvariant, NextInvariant, NEW s \in Story,
                        stories[s].status = "inactive"
                 PROVE  \E i \in Inst :
                           /\ StoryOf[i[1]] = s
                           /\ i \in Pickable(OwnerOf[i[1]], "user_dial")
                           /\ \A l \in InEffect(stories) :
                                 Gate(l, OwnerOf[i[1]], "user_dial")
                                    \in {"allow", "warn"}
      BY DEF NextChapterReachable
    <2>1. PICK i \in Inst : EntryOf(i, s)
      BY DEF NextInvariant, PlannedWaits
    <2>2. i \in Pickable(OwnerOf[i[1]], "user_dial")
      BY <2>1 DEF Pickable, EntryOf, Waits, Fits
    <2>3. ASSUME NEW l \in InEffect(stories)
          PROVE  Gate(l, OwnerOf[i[1]], "user_dial") = "allow"
      <3>1. l = None \/ l \in Held(stories)
        BY DEF InEffect
      <3>2. l = None \/ OwnerOf[i[1]] \in l.allowed
        BY <2>1, <3>1 DEF Held, EntryOf
      <3> QED BY <3>2 DEF Gate
    <2> QED BY <2>1, <2>2, <2>3 DEF EntryOf
  <1> QED BY <1>1, NextInvariantHolds, PTL
=============================================================================
