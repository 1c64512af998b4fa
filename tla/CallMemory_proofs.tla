-------------------------- MODULE CallMemory_proofs --------------------------
(***************************************************************************)
(* What holds of the memory of calls for every set of calls, messages and  *)
(* exits, any number of restarts, retries and clearings, any length of a   *)
(* month and any limit of a rollup.                                        *)
(***************************************************************************)
EXTENDS CallMemory, FiniteSetTheorems, TLAPS

-----------------------------------------------------------------------------
(* The shape of the calls and the requests *)

\* A reply that looks something up has a round left.
Lookups == \A r \in Request : request[r].at = "searching" => request[r].round < MaxRounds

\* The disk has a job from the hang-up on, and only attempts of it are whole.
Sound(k) ==
    /\ k.at \in {"new", "in_call", "aborting"} => k.record = "none"
    /\ k.at \in {"ended", "marking", "extracting", "noting", "rolling", "stopped"}
          => k.record = "open"
    /\ k.at # "done" /\ k.record # "open" => ~k.whole

Sounds == \A c \in Call : Sound(call[c])

Shape ==
    /\ call \in [Call -> CallRecord]
    /\ request \in [Request -> RequestRecord]
    /\ now \in Time
    /\ Lookups
    /\ Sounds

LEMMA StartIsATime == Start \in Time
  BY MemoryAssumption, SMT DEF Time

LEMMA NewIsACall == NewCall \in CallRecord
  <1>1. <<>> \in Seq(Request \X {"user", "assistant"})
    OBVIOUS
  <1> QED BY <1>1, StartIsATime DEF NewCall, CallRecord, At, MemoryStep, RollupStep

LEMMA NewIsARequest == NewRequest \in RequestRecord
  BY CallMemoryAssumption DEF NewRequest, RequestRecord

LEMMA OverIsACall ==
    ASSUME NEW k \in CallRecord
    PROVE  /\ Over(k) \in CallRecord
           /\ Over(k).at = "done" /\ Over(k).said = <<>>
           /\ Over(k).since = k.since /\ Over(k).whole = k.whole
  BY NewIsACall DEF Over, NewCall, CallRecord, At

LEMMA InIsACall == \A r \in Request : In(r) \in Call
  BY CallMemoryAssumption DEF In, Request

\* A reply's request is done, or another round begins.
LEMMA RequestsDone ==
    ASSUME Shape, NEW r \in Request, request' = Done(r)
    PROVE  request' \in [Request -> RequestRecord] /\ Lookups'
  <1>1. request \in [Request -> RequestRecord] /\ Lookups
    BY DEF Shape
  <1>2. request' = [request EXCEPT ![r] = [NewRequest EXCEPT !.at = "done"]]
    BY <1>1 DEF Done
  <1> QED BY <1>1, <1>2, NewIsARequest DEF NewRequest, RequestRecord, Lookups

LEMMA RoundsGoOn ==
    ASSUME Shape, NEW r \in Request, request' = NextRound(r),
           request[r].round < MaxRounds
    PROVE  request' \in [Request -> RequestRecord] /\ Lookups'
  <1>1. request \in [Request -> RequestRecord] /\ Lookups
    BY DEF Shape
  <1>2. request[r].round + 1 \in 0..MaxRounds
    BY <1>1, CallMemoryAssumption DEF RequestRecord
  <1> QED BY <1>1, <1>2 DEF NextRound, RequestRecord, Lookups

\* What a reply may do to the calls.
LEMMA ToldKeeps ==
    ASSUME NEW calls \in [Call -> CallRecord], NEW r \in Request, NEW ok \in BOOLEAN
    PROVE  /\ Told(calls, r, ok) \in [Call -> CallRecord]
           /\ \A d \in Call : /\ Told(calls, r, ok)[d].at = calls[d].at
                              /\ Told(calls, r, ok)[d].said = calls[d].said
                              /\ Told(calls, r, ok)[d].promised = calls[d].promised
                              /\ Told(calls, r, ok)[d].whole = calls[d].whole
                              /\ Told(calls, r, ok)[d].since = calls[d].since
                              /\ Told(calls, r, ok)[d].record = calls[d].record
  <1>1. CASE r \notin Call
    BY <1>1 DEF Told
  <1>2. CASE r \in Call
    <2> DEFINE knows == IF ok THEN "knows" ELSE "lost"
               k == [calls[r] EXCEPT !.client = knows]
    <2>1. knows \in {"starting", "knows", "lost"}
      OBVIOUS
    <2>2. /\ k \in CallRecord
          /\ k.at = calls[r].at /\ k.said = calls[r].said
          /\ k.promised = calls[r].promised /\ k.whole = calls[r].whole
          /\ k.since = calls[r].since
          /\ k.record = calls[r].record
      <3>1. calls[r] \in CallRecord
        BY <1>2
      <3> HIDE DEF knows
      <3> QED BY <2>1, <3>1 DEF CallRecord
    <2>3. Told(calls, r, ok) = [calls EXCEPT ![r] = k]
      BY <1>2 DEF Told
    <2> HIDE DEF k
    <2> QED BY <1>2, <2>2, <2>3
  <1> QED BY <1>1, <1>2

LEMMA Speaks ==
    ASSUME Shape, NEW c \in Call, NEW r \in Request,
           NEW who \in {"user", "assistant"}
    PROVE  LET calls == [call EXCEPT ![c].said = Append(@, <<r, who>>)] IN
           /\ calls \in [Call -> CallRecord]
           /\ \A d \in Call : /\ calls[d].at = call[d].at
                              /\ d # c => calls[d] = call[d]
                              /\ calls[d].promised = call[d].promised
                              /\ calls[d].whole = call[d].whole
                              /\ calls[d].since = call[d].since
                              /\ calls[d].record = call[d].record
  <1>1. call \in [Call -> CallRecord]
    BY DEF Shape
  <1>2. <<r, who>> \in Request \X {"user", "assistant"}
    OBVIOUS
  <1>3. call[c].said \in Seq(Request \X {"user", "assistant"})
    BY <1>1 DEF CallRecord
  <1>4. Append(call[c].said, <<r, who>>) \in Seq(Request \X {"user", "assistant"})
    BY <1>2, <1>3
  <1> DEFINE said == Append(call[c].said, <<r, who>>)
             k == [call[c] EXCEPT !.said = said]
             calls == [call EXCEPT ![c] = k]
  <1>5. /\ k \in CallRecord
        /\ k.at = call[c].at /\ k.promised = call[c].promised
        /\ k.whole = call[c].whole /\ k.since = call[c].since
        /\ k.whole = call[c].whole /\ k.record = call[c].record
    <2>1. call[c] \in CallRecord /\ said \in Seq(Request \X {"user", "assistant"})
      BY <1>1, <1>4
    <2> HIDE DEF said
    <2>2. k \in CallRecord
      BY <2>1 DEF CallRecord
    <2>3. /\ k.at = call[c].at /\ k.promised = call[c].promised
          /\ k.whole = call[c].whole /\ k.since = call[c].since
          /\ k.whole = call[c].whole /\ k.record = call[c].record
      BY <2>1 DEF CallRecord
    <2> QED BY <2>2, <2>3
  <1>6. calls = [call EXCEPT ![c].said = Append(@, <<r, who>>)]
    OBVIOUS
  <1>7. /\ calls \in [Call -> CallRecord]
        /\ \A d \in Call : /\ calls[d].at = call[d].at
                           /\ d # c => calls[d] = call[d]
                           /\ calls[d].promised = call[d].promised
                           /\ calls[d].whole = call[d].whole
                           /\ calls[d].since = call[d].since
                           /\ calls[d].record = call[d].record
    <2> HIDE DEF k
    <2> QED BY <1>1, <1>5
  <1> HIDE DEF calls
  <1> QED BY <1>6, <1>7

-----------------------------------------------------------------------------
(* Every step keeps the shape, says nothing after the hang-up, and settles *)
(* no call but by its rollup.                                              *)

Untouched == UNCHANGED <<entries, rollups, torn>>

Silent ==
    \A d \in Call : call[d].at \notin {"new", "in_call"} /\ call'[d].at # "done"
        => call'[d].said = call[d].said /\ call'[d].promised = call[d].promised

\* The calls that are done after the step were done before, but for those in R.
Settles(R) ==
    \A d \in Call \ R : call'[d].at = "done" /\ call'[d].whole
        => call[d].at = "done" /\ call[d].whole /\ call'[d].since = call[d].since

LEMMA StartsStep ==
    ASSUME Shape, NEW c \in Call, NEW kind \in {"free", "story"},
           NEW opening \in Opening,
           Starts(c, kind, opening)
    PROVE  Shape' /\ Silent /\ Settles({}) /\ Untouched
  <1> DEFINE client == CASE opening = "model" -> "starting"
                         [] opening = "playback" -> "lost"
                         [] OTHER -> "knows"
             said == IF opening = "line" THEN <<<<c, "assistant">>>> ELSE <<>>
             k == [NewCall EXCEPT !.at = "in_call", !.kind = kind,
                                  !.client = client, !.said = said]
  <1>1. call' = [call EXCEPT ![c] = k] /\ call[c].at = "new"
    BY DEF Starts
  <1>2. client \in {"starting", "knows", "lost"}
    OBVIOUS
  <1>3. said \in Seq(Request \X {"user", "assistant"})
    <2>1. <<c, "assistant">> \in Request \X {"user", "assistant"}
      BY DEF Request
    <2> QED BY <2>1
  <1>4. k \in CallRecord /\ k.at = "in_call" /\ k.record = "none" /\ ~k.whole
    <2> HIDE DEF client, said
    <2> QED BY <1>2, <1>3, NewIsACall DEF NewCall, CallRecord, At
  <1>5. call \in [Call -> CallRecord] /\ Sounds /\ Lookups
        /\ request \in [Request -> RequestRecord]
    BY DEF Shape
  <1> HIDE DEF k
  <1>6. call' \in [Call -> CallRecord] /\ Sounds' /\ Silent /\ Settles({})
    BY <1>1, <1>4, <1>5 DEF Sounds, Sound, Silent, Settles
  <1>7. request' \in [Request -> RequestRecord] /\ Lookups'
    <2>1. request' = [request EXCEPT ![c].at = "asking"] \/ request' = request
      BY DEF Starts
    <2> QED BY <1>5, <2>1 DEF RequestRecord, Lookups
  <1>8. Untouched /\ now' = now
    BY DEF Starts, Kept, Untouched
  <1> QED BY <1>6, <1>7, <1>8 DEF Shape

LEMMA SaysStep ==
    ASSUME Shape, NEW m \in Message, Says(m)
    PROVE  Shape' /\ Silent /\ Settles({}) /\ Untouched
  <1> DEFINE c == SaidIn[m]
  <1>1. m \in Request /\ c \in Call
    BY CallMemoryAssumption DEF Request
  <1>2. call' = [call EXCEPT ![c].said = Append(@, <<m, "user">>)]
        /\ call[c].at = "in_call"
        /\ request' = [request EXCEPT ![m].at = "asking"]
    BY DEF Says
  <1> HIDE DEF c
  <1>3. call \in [Call -> CallRecord] /\ Sounds /\ Lookups
        /\ request \in [Request -> RequestRecord]
    BY DEF Shape
  <1>4. /\ call' \in [Call -> CallRecord]
        /\ \A d \in Call : /\ call'[d].at = call[d].at
                           /\ d # c => call'[d] = call[d]
                           /\ call'[d].promised = call[d].promised
                           /\ call'[d].whole = call[d].whole
                           /\ call'[d].since = call[d].since
                           /\ call'[d].record = call[d].record
    <2> DEFINE calls == [call EXCEPT ![c].said = Append(@, <<m, "user">>)]
    <2>1. /\ calls \in [Call -> CallRecord]
          /\ \A d \in Call : /\ calls[d].at = call[d].at
                             /\ d # c => calls[d] = call[d]
                             /\ calls[d].promised = call[d].promised
                             /\ calls[d].whole = call[d].whole
                             /\ calls[d].since = call[d].since
                             /\ calls[d].record = call[d].record
      BY <1>1, Speaks
    <2>2. call' = calls
      BY <1>2
    <2> HIDE DEF calls
    <2> QED BY <2>1, <2>2
  <1>5. Sounds' /\ Silent /\ Settles({})
    BY <1>1, <1>2, <1>3, <1>4 DEF Sounds, Sound, Silent, Settles
  <1>6. request' \in [Request -> RequestRecord] /\ Lookups'
    BY <1>1, <1>2, <1>3 DEF RequestRecord, Lookups
  <1>7. Untouched /\ now' = now
    BY DEF Says, Kept, Untouched
  <1> QED BY <1>4, <1>5, <1>6, <1>7 DEF Shape

LEMMA RepliesStep ==
    ASSUME Shape, NEW r \in Request, Replies(r)
    PROVE  Shape' /\ Silent /\ Settles({}) /\ Untouched
  <1>1. call \in [Call -> CallRecord] /\ Sounds /\ Lookups
        /\ request \in [Request -> RequestRecord]
    BY DEF Shape
  <1>2. In(r) \in Call
    BY InIsACall
  \* Nobody says anything, and no call changes its place.
  <1> DEFINE Mute == /\ call' \in [Call -> CallRecord]
                     /\ \A d \in Call : /\ call'[d].at = call[d].at
                                        /\ call'[d].said = call[d].said
                                        /\ call'[d].promised = call[d].promised
                                        /\ call'[d].whole = call[d].whole
                                        /\ call'[d].since = call[d].since
                                        /\ call'[d].record = call[d].record
             Asked == request' \in [Request -> RequestRecord] /\ Lookups'
  <1>3. Untouched /\ now' = now
    BY DEF Replies, Answers, Fails, Exceeds, Searches, Registers, Found, Kept,
           Untouched
  <1>4. ASSUME Mute, Asked PROVE Shape' /\ Silent /\ Settles({})
    BY <1>1, <1>3, <1>4 DEF Shape, Sounds, Sound, Silent, Settles
  <1>5. CASE Answers(r)
    <2> DEFINE taken == [call EXCEPT ![In(r)].said = Append(@, <<r, "assistant">>)]
    <2>1. Asked
      BY <1>5, RequestsDone DEF Answers
    <2>2. CASE call[In(r)].at = "in_call"
      <3>1. call' = Told(taken, r, TRUE)
        BY <1>5, <2>2 DEF Answers
      <3>2. /\ taken \in [Call -> CallRecord]
            /\ \A d \in Call : /\ taken[d].at = call[d].at
                               /\ d # In(r) => taken[d] = call[d]
                               /\ taken[d].promised = call[d].promised
                               /\ taken[d].whole = call[d].whole
                               /\ taken[d].since = call[d].since
                               /\ taken[d].record = call[d].record
        BY <1>2, Speaks
      <3> HIDE DEF taken
      <3>3. /\ call' \in [Call -> CallRecord]
            /\ \A d \in Call : /\ call'[d].at = taken[d].at
                               /\ call'[d].said = taken[d].said
                               /\ call'[d].promised = taken[d].promised
                               /\ call'[d].whole = taken[d].whole
                               /\ call'[d].since = taken[d].since
                               /\ call'[d].record = taken[d].record
        BY <3>1, <3>2, ToldKeeps
      <3> QED BY <1>1, <1>2, <1>3, <2>1, <2>2, <3>2, <3>3
              DEF Shape, Sounds, Sound, Silent, Settles
    <2>3. CASE call[In(r)].at # "in_call"
      <3>1. call' = Told(call, r, FALSE)
        BY <1>5, <2>3 DEF Answers
      <3>2. Mute
        BY <1>1, <3>1, ToldKeeps
      <3> QED BY <1>3, <1>4, <2>1, <3>2
    <2> QED BY <2>2, <2>3, <1>3
  <1>6. CASE Fails(r) \/ Exceeds(r)
    <2>1. call' = Told(call, r, FALSE) /\ request' = Done(r)
      BY <1>6 DEF Fails, Exceeds
    <2>2. Mute
      BY <1>1, <2>1, ToldKeeps
    <2>3. Asked
      BY <2>1, RequestsDone
    <2> QED BY <1>3, <1>4, <2>2, <2>3
  <1>7. CASE Searches(r)
    <2>1. request' = [request EXCEPT ![r].at = "searching"] \/ request' = NextRound(r)
      BY <1>7 DEF Searches
    <2>2. request[r].round < MaxRounds /\ call' = call
      BY <1>7 DEF Searches
    <2>3. Asked
      <3>1. CASE request' = [request EXCEPT ![r].at = "searching"]
        BY <1>1, <2>2, <3>1 DEF RequestRecord, Lookups
      <3>2. CASE request' = NextRound(r)
        BY <2>2, <3>2, RoundsGoOn
      <3> QED BY <2>1, <3>1, <3>2
    <2>4. Mute
      BY <1>1, <2>2
    <2> QED BY <1>3, <1>4, <2>3, <2>4
  <1>8. ASSUME NEW x \in Exit, Registers(r, x)
        PROVE  Shape' /\ Silent /\ Settles({}) /\ Untouched
    <2>1. Asked
      BY <1>8, RoundsGoOn DEF Registers
    <2>2. CASE call' = call
      BY <1>1, <1>3, <1>4, <2>1, <2>2
    <2>3. CASE call' # call
      <3> DEFINE k == call[In(r)]
                 new == [k EXCEPT !.promised = @ \cup {x}, !.traced = @ + 1]
      <3>1. k.at = "in_call"
        BY <1>8, <2>3 DEF Registers
      <3>2. call' = [call EXCEPT ![In(r)] = new]
        BY <1>8, <2>3 DEF Registers
      <3>3. new \in CallRecord /\ new.at = "in_call" /\ new.whole = k.whole
            /\ new.record = k.record
        <4>1. k \in CallRecord
          BY <1>1, <1>2
        <4>2. k.promised \cup {x} \in SUBSET Exit /\ k.traced + 1 \in Nat
          BY <1>8, <4>1 DEF CallRecord
        <4> HIDE DEF k
        <4> QED BY <3>1, <4>1, <4>2 DEF CallRecord
      <3> HIDE DEF new
      <3> QED BY <1>1, <1>2, <1>3, <2>1, <3>1, <3>2, <3>3
              DEF Shape, Sounds, Sound, Silent, Settles
    <2> QED BY <2>2, <2>3
  <1>9. ASSUME NEW ok \in BOOLEAN, Found(r, ok)
        PROVE  Shape' /\ Silent /\ Settles({}) /\ Untouched
    <2>1. Asked
      <3>1. request[r].round < MaxRounds
        BY <1>1, <1>9 DEF Found, Lookups
      <3> QED BY <1>9, <3>1, RoundsGoOn DEF Found
    <2>2. call' = call \/ call' = [call EXCEPT ![In(r)].traced = @ + 1]
      BY <1>9 DEF Found
    <2>3. Mute
      <3>1. CASE call' = call
        BY <1>1, <3>1
      <3>2. CASE call' = [call EXCEPT ![In(r)].traced = @ + 1]
        <4> DEFINE k == call[In(r)]
                   n == k.traced + 1
                   new == [k EXCEPT !.traced = n]
        <4>1. k \in CallRecord /\ n \in Nat
          BY <1>1, <1>2 DEF CallRecord
        <4>2. /\ new \in CallRecord
              /\ new.at = k.at /\ new.said = k.said /\ new.promised = k.promised
              /\ new.whole = k.whole /\ new.since = k.since
              /\ new.whole = k.whole /\ new.record = k.record
          <5> HIDE DEF k, n
          <5> QED BY <4>1 DEF CallRecord
        <4>3. call' = [call EXCEPT ![In(r)] = new]
          BY <3>2
        <4> HIDE DEF new
        <4> QED BY <1>1, <1>2, <4>2, <4>3
      <3> QED BY <2>2, <3>1, <3>2
    <2> QED BY <1>3, <1>4, <2>1, <2>3
  <1> QED BY <1>5, <1>6, <1>7, <1>8, <1>9 DEF Replies

-----------------------------------------------------------------------------
(* What becomes of a call that is hung up. *)

\* Its record is another one, its transcript stays until it is over.
Moves(c, k) ==
    /\ call' = [call EXCEPT ![c] = k] /\ k \in CallRecord /\ Sound(k)
    /\ k.at \notin {"new", "in_call"}
    /\ IF k.at = "done" THEN k.said = <<>>
       ELSE k.said = call[c].said /\ k.promised = call[c].promised

\* It is not over by that, or no attempt was whole.
MovesOn(c) == \E k : Moves(c, k) /\ (k.at = "done" => ~k.whole)

LEMMA MovesKeep ==
    ASSUME Shape, NEW c \in Call, MovesOn(c), UNCHANGED <<request, now>>
    PROVE  Shape' /\ Silent /\ Settles({})
  BY DEF MovesOn, Moves, Shape, Sounds, Lookups, Silent, Settles

LEMMA IsOver ==
    ASSUME Shape, NEW c \in Call, ~call[c].whole,
           call' = [call EXCEPT ![c] = Over(call[c])]
    PROVE  MovesOn(c)
  <1>1. call[c] \in CallRecord
    BY DEF Shape
  <1> DEFINE k == Over(call[c])
  <1>2. k \in CallRecord /\ k.at = "done" /\ k.said = <<>> /\ ~k.whole
    BY <1>1, OverIsACall
  <1>3. call' = [call EXCEPT ![c] = k]
    OBVIOUS
  <1> HIDE DEF k
  <1> QED BY <1>2, <1>3 DEF MovesOn, Moves, Sound

LEMMA HangUpMoves ==
    ASSUME Shape, NEW c \in Call, NEW early \in BOOLEAN, HangUp(c, early)
    PROVE  MovesOn(c)
  <1> DEFINE k == [call[c] EXCEPT !.at = "ended", !.early = early, !.record = "open"]
  <1>1. call[c] \in CallRecord
    BY DEF Shape
  <1>2. k \in CallRecord /\ k.at = "ended" /\ k.record = "open"
        /\ k.said = call[c].said /\ k.promised = call[c].promised
    BY <1>1 DEF CallRecord, At
  <1>3. call' = [call EXCEPT ![c] = k]
    BY DEF HangUp
  <1> HIDE DEF k
  <1> QED BY <1>2, <1>3 DEF MovesOn, Moves, Sound

LEMMA HangUpFailsMoves ==
    ASSUME Shape, NEW c \in Call, NEW record \in {"none", "closing", "open"},
           HangUpFails(c, record)
    PROVE  MovesOn(c)
  <1> DEFINE k == [call[c] EXCEPT !.at = "stuck", !.record = record]
  <1>1. call[c] \in CallRecord /\ ~call[c].whole
    BY DEF Shape, Sounds, Sound, HangUpFails, Hanging
  <1>2. k \in CallRecord /\ k.at = "stuck" /\ ~k.whole
        /\ k.said = call[c].said /\ k.promised = call[c].promised
    BY <1>1 DEF CallRecord, At
  <1>3. call' = [call EXCEPT ![c] = k]
    BY DEF HangUpFails
  <1> HIDE DEF k
  <1> QED BY <1>2, <1>3 DEF MovesOn, Moves, Sound

LEMMA AbortsMoves ==
    ASSUME Shape, NEW c \in Call, Aborts(c) PROVE MovesOn(c)
  <1>1. /\ call[c] \in CallRecord /\ now \in Time /\ ~call[c].whole
        /\ call[c].record = "none"
    BY DEF Shape, Sounds, Sound, Aborts, Hanging
  <1>2. CASE UserSpoke(c)
    <2> DEFINE k == [call[c] EXCEPT !.at = "aborting", !.since = now]
    <2>1. k \in CallRecord /\ k.at = "aborting" /\ ~k.whole /\ k.record = "none"
          /\ k.said = call[c].said /\ k.promised = call[c].promised
      BY <1>1 DEF CallRecord, At
    <2>2. call' = [call EXCEPT ![c] = k]
      BY <1>2 DEF Aborts
    <2> HIDE DEF k
    <2> QED BY <2>1, <2>2 DEF MovesOn, Moves, Sound
  <1>3. CASE ~UserSpoke(c)
    BY <1>1, <1>3, IsOver DEF Aborts
  <1> QED BY <1>2, <1>3

\* A job that stops.
LEMMA StoppedIsACall ==
    ASSUME NEW k \in CallRecord, NEW lands \in BOOLEAN
    PROVE  LET s == Stopped(k, lands) IN
           /\ s \in CallRecord /\ s.at = "stopped" /\ s.record = k.record
           /\ s.said = k.said /\ s.promised = k.promised /\ s.whole = k.whole
  <1> DEFINE kept == IF lands THEN <<k.memory, k.rollup>> ELSE k.kept
             s == [k EXCEPT !.at = "stopped", !.kept = kept]
  <1>1. kept \in MemoryStep \X RollupStep
    BY DEF CallRecord
  <1>2. /\ s \in CallRecord /\ s.at = "stopped" /\ s.record = k.record
        /\ s.said = k.said /\ s.promised = k.promised /\ s.whole = k.whole
    <2> HIDE DEF kept
    <2> QED BY <1>1 DEF CallRecord, At
  <1>3. s = Stopped(k, lands)
    BY DEF Stopped
  <1> HIDE DEF s
  <1> QED BY <1>2, <1>3

LEMMA Stops ==
    ASSUME Shape, NEW c \in Call, NEW lands \in BOOLEAN, NEW k \in CallRecord,
           k.said = call[c].said, k.promised = call[c].promised, k.record = "open",
           call' = [call EXCEPT ![c] = Stopped(k, lands)]
    PROVE  MovesOn(c)
  <1> DEFINE s == Stopped(k, lands)
  <1>1. /\ s \in CallRecord /\ s.at = "stopped" /\ s.record = "open"
        /\ s.said = call[c].said /\ s.promised = call[c].promised
    BY StoppedIsACall
  <1>2. call' = [call EXCEPT ![c] = s]
    OBVIOUS
  <1> HIDE DEF s
  <1> QED BY <1>1, <1>2 DEF MovesOn, Moves, Sound

\* The steps of a job that go on.
LEMMA GoesOn ==
    ASSUME Shape, NEW c \in Call, JobStarts(c) \/ Marks(c) \/ Refuses(c) \/ Notes(c)
    PROVE  MovesOn(c)
  <1>1. call[c] \in CallRecord /\ now \in Time /\ call[c].record = "open"
    BY DEF Shape, Sounds, Sound, JobStarts, Marks, Refuses, Notes
  <1>2. CASE JobStarts(c)
    <2> DEFINE at == IF call[c].memory = "pending" THEN "marking" ELSE "rolling"
               whole == call[c].memory = "pending"
               k == [call[c] EXCEPT !.since = now, !.at = at, !.whole = whole]
    <2>1. at \in {"marking", "rolling"} /\ whole \in BOOLEAN
      OBVIOUS
    <2>2. k \in CallRecord /\ k.at = at /\ k.record = "open"
          /\ k.said = call[c].said /\ k.promised = call[c].promised
      <3> HIDE DEF at, whole
      <3> QED BY <1>1, <2>1 DEF CallRecord, At
    <2>3. call' = [call EXCEPT ![c] = k]
      BY <1>2 DEF JobStarts
    <2> HIDE DEF k, at
    <2> QED BY <2>1, <2>2, <2>3 DEF MovesOn, Moves, Sound
  <1>3. CASE Marks(c)
    <2> DEFINE at == IF Gate(c) THEN "extracting" ELSE "noting"
               memory == IF Gate(c) THEN call[c].memory ELSE "worthless"
               k == [call[c] EXCEPT !.at = at, !.memory = memory]
    <2>1. at \in {"extracting", "noting"} /\ memory \in MemoryStep
      BY <1>1 DEF CallRecord, MemoryStep
    <2>2. k \in CallRecord /\ k.at = at /\ k.record = "open"
          /\ k.said = call[c].said /\ k.promised = call[c].promised
      <3> HIDE DEF at, memory
      <3> QED BY <1>1, <2>1 DEF CallRecord, At
    <2>3. call' = [call EXCEPT ![c] = k]
      BY <1>3 DEF Marks
    <2> HIDE DEF k, at
    <2> QED BY <2>1, <2>2, <2>3 DEF MovesOn, Moves, Sound
  <1>4. CASE Refuses(c)
    <2> DEFINE k == [call[c] EXCEPT !.at = "noting", !.memory = "refused"]
    <2>1. k \in CallRecord /\ k.at = "noting" /\ k.record = "open"
          /\ k.said = call[c].said /\ k.promised = call[c].promised
      BY <1>1 DEF CallRecord, At, MemoryStep
    <2>2. call' = [call EXCEPT ![c] = k]
      BY <1>4 DEF Refuses
    <2> HIDE DEF k
    <2> QED BY <2>1, <2>2 DEF MovesOn, Moves, Sound
  <1>5. CASE Notes(c)
    <2> DEFINE kept == <<call[c].memory, call[c].rollup>>
               k == [call[c] EXCEPT !.at = "rolling", !.kept = kept]
    <2>1. kept \in MemoryStep \X RollupStep
      BY <1>1 DEF CallRecord
    <2>2. k \in CallRecord /\ k.at = "rolling" /\ k.record = "open"
          /\ k.said = call[c].said /\ k.promised = call[c].promised
      <3> HIDE DEF kept
      <3> QED BY <1>1, <2>1 DEF CallRecord, At
    <2>3. call' = [call EXCEPT ![c] = k]
      BY <1>5 DEF Notes
    <2> HIDE DEF k
    <2> QED BY <2>2, <2>3 DEF MovesOn, Moves, Sound
  <1> QED BY <1>2, <1>3, <1>4, <1>5

\* Those that end the attempt with a failure.
LEMMA Breaks ==
    ASSUME Shape, NEW c \in Call, NEW lands \in BOOLEAN,
           \/ MarkFails(c, lands) \/ CommitFails(c, lands) \/ NoteFails(c, lands)
           \/ RollMarkFails(c, lands) \/ RollFails(c, lands)
    PROVE  MovesOn(c)
  <1>1. call[c] \in CallRecord /\ call[c].record = "open"
    BY DEF Shape, Sounds, Sound, MarkFails, CommitFails, NoteFails, RollMarkFails,
           RollFails
  <1> DEFINE forgets == [call[c] EXCEPT !.memory = "failed"]
             drops == [call[c] EXCEPT !.rollup = "failed"]
  <1>2. /\ forgets \in CallRecord /\ forgets.record = "open"
        /\ forgets.said = call[c].said /\ forgets.promised = call[c].promised
    BY <1>1 DEF CallRecord, MemoryStep
  <1>3. /\ drops \in CallRecord /\ drops.record = "open"
        /\ drops.said = call[c].said /\ drops.promised = call[c].promised
    BY <1>1 DEF CallRecord, RollupStep
  <1>4. \E k \in {call[c], forgets, drops} : call' = [call EXCEPT ![c] = Stopped(k, lands)]
    <2>1. CASE MarkFails(c, lands) \/ RollMarkFails(c, lands)
      BY <2>1 DEF MarkFails, RollMarkFails
    <2>2. CASE CommitFails(c, lands)
      BY <2>2 DEF CommitFails
    <2>3. CASE NoteFails(c, lands)
      BY <2>3 DEF NoteFails
    <2>4. CASE RollFails(c, lands)
      BY <2>4 DEF RollFails
    <2> QED BY <2>1, <2>2, <2>3, <2>4
  <1> HIDE DEF forgets, drops
  <1> QED BY <1>1, <1>2, <1>3, <1>4, Stops

LEMMA CommitsMoves ==
    ASSUME Shape, NEW c \in Call, NEW text \in Text, NEW tales \in SUBSET Tale,
           Commits(c, text, tales)
    PROVE  MovesOn(c)
  <1>1. call[c] \in CallRecord
    BY DEF Shape
  <1>2. CASE call[c].at = "aborting"
    <2>1. ~call[c].whole
      BY <1>2 DEF Shape, Sounds, Sound
    <2>2. call' = [call EXCEPT ![c] = Over(call[c])]
      BY <1>2 DEF Commits
    <2> QED BY <2>1, <2>2, IsOver
  <1>3. CASE call[c].at = "extracting"
    <2> DEFINE k == [call[c] EXCEPT !.at = "noting", !.memory = "written"]
    <2>1. call[c].record = "open"
      BY <1>3 DEF Shape, Sounds, Sound
    <2>2. k \in CallRecord /\ k.at = "noting" /\ k.record = "open"
          /\ k.said = call[c].said /\ k.promised = call[c].promised
      BY <1>1, <2>1 DEF CallRecord, At, MemoryStep
    <2>3. call' = [call EXCEPT ![c] = k]
      BY <1>3 DEF Commits
    <2> HIDE DEF k
    <2> QED BY <2>2, <2>3 DEF MovesOn, Moves, Sound
  <1> QED BY <1>2, <1>3 DEF Commits

LEMMA AbortFailsMoves ==
    ASSUME Shape, NEW c \in Call, AbortFails(c) PROVE MovesOn(c)
  BY IsOver DEF AbortFails, Shape, Sounds, Sound

LEMMA SkipsRollupMoves ==
    ASSUME Shape, NEW c \in Call, SkipsRollup(c) PROVE MovesOn(c)
  <1> DEFINE part == [call[c] EXCEPT !.whole = FALSE]
             k == Over(part)
  <1>1. part \in CallRecord /\ ~part.whole
    <2>1. call[c] \in CallRecord
      BY DEF Shape
    <2> QED BY <2>1 DEF CallRecord
  <1>2. k \in CallRecord /\ k.at = "done" /\ k.said = <<>> /\ ~k.whole
    <2> HIDE DEF part
    <2> QED BY <1>1, OverIsACall
  <1>3. call' = [call EXCEPT ![c] = k]
    BY DEF SkipsRollup
  <1> HIDE DEF k
  <1> QED BY <1>2, <1>3 DEF MovesOn, Moves, Sound

LEMMA RetriesMoves ==
    ASSUME Shape, NEW c \in Call, NEW lands \in BOOLEAN, Retries(c, lands)
    PROVE  MovesOn(c)
  <1>1. call[c] \in CallRecord /\ call[c].record = "open"
    BY DEF Shape, Sounds, Sound, Retries
  <1> DEFINE memory == IF call[c].memory = "failed" THEN "pending" ELSE call[c].memory
             again == [call[c] EXCEPT !.rollup = "pending", !.memory = memory]
  <1>2. memory \in MemoryStep
    BY <1>1 DEF CallRecord, MemoryStep
  <1>3. /\ again \in CallRecord /\ again.record = "open" /\ again.memory = memory
        /\ again.said = call[c].said /\ again.promised = call[c].promised
    <2> HIDE DEF memory
    <2> QED BY <1>1, <1>2 DEF CallRecord, RollupStep
  <1>4. CASE lands
    <2> DEFINE kept == <<again.memory, "pending">>
               k == [again EXCEPT !.at = "ended", !.kept = kept]
    <2>1. kept \in MemoryStep \X RollupStep
      BY <1>2, <1>3 DEF RollupStep
    <2>2. call' = [call EXCEPT ![c] = k]
      BY <1>4 DEF Retries
    <2>3. k \in CallRecord /\ k.at = "ended" /\ k.record = "open"
          /\ k.said = call[c].said /\ k.promised = call[c].promised
      <3> HIDE DEF again, kept
      <3> QED BY <1>3, <2>1 DEF CallRecord, At
    <2> HIDE DEF k
    <2> QED BY <2>2, <2>3 DEF MovesOn, Moves, Sound
  <1>5. CASE ~lands
    <2> DEFINE k == [again EXCEPT !.at = "stuck"]
    <2>1. call' = [call EXCEPT ![c] = k]
      BY <1>5 DEF Retries
    <2>2. k \in CallRecord /\ k.at = "stuck" /\ k.record = "open"
          /\ k.said = call[c].said /\ k.promised = call[c].promised
      <3> HIDE DEF again
      <3> QED BY <1>3 DEF CallRecord, At
    <2> HIDE DEF k
    <2> QED BY <2>1, <2>2 DEF MovesOn, Moves, Sound
  <1> QED BY <1>4, <1>5

\* What endCall and the job do, but for the rollup that succeeds.
LEMMA JobMoves ==
    ASSUME Shape, NEW c \in Call, ~Rolls(c),
           Ends(c) \/ Works(c) \/ (\E lands \in BOOLEAN : Retries(c, lands))
    PROVE  MovesOn(c)
  BY HangUpMoves, HangUpFailsMoves, AbortsMoves, GoesOn, Breaks, CommitsMoves,
     AbortFailsMoves, SkipsRollupMoves, RetriesMoves DEF Ends, Works

\* What of the rest it changes.
LEMMA JobLeaves ==
    ASSUME NEW c \in Call,
           Ends(c) \/ Works(c) \/ (\E lands \in BOOLEAN : Retries(c, lands))
    PROVE  /\ UNCHANGED <<request, now, clears, torn>>
           /\ UNCHANGED resumed \/ (\E lands \in BOOLEAN : Retries(c, lands))
           /\ \/ UNCHANGED <<entries, rollups>>
              \/ \E text \in Text, tales \in SUBSET Tale :
                    Commits(c, text, tales) /\ UNCHANGED rollups
              \/ UNCHANGED entries
                 /\ (Rolls(c) \/ \E lands \in BOOLEAN : RollFails(c, lands))
  <1>1. CASE Ends(c)
    BY <1>1 DEF Ends, HangUp, HangUpFails, Aborts, Kept
  <1>2. CASE \E lands \in BOOLEAN : Retries(c, lands)
    BY <1>2 DEF Retries
  <1>3. CASE Works(c)
    BY <1>3 DEF Works, JobStarts, Marks, Refuses, AbortFails, Notes, Rolls, SkipsRollup,
         Commits, MarkFails, CommitFails, NoteFails, RollMarkFails, RollFails, Kept
  <1> QED BY <1>1, <1>2, <1>3

LEMMA RollsStep ==
    ASSUME Shape, NEW c \in Call, Rolls(c)
    PROVE  /\ Shape' /\ Silent /\ Settles({c}) /\ UNCHANGED <<entries, torn>>
           /\ call'[c].since = call[c].since /\ Moves(c, Over(call[c]))
  <1> DEFINE k == Over(call[c])
  <1>1. call[c] \in CallRecord /\ call \in [Call -> CallRecord]
    BY DEF Shape
  <1>2. k \in CallRecord /\ k.at = "done" /\ k.since = call[c].since /\ k.said = <<>>
    BY <1>1, OverIsACall
  <1>3. call' = [call EXCEPT ![c] = k] /\ UNCHANGED <<request, now, entries, torn>>
    BY DEF Rolls
  <1> HIDE DEF k
  <1>4. Moves(c, k)
    BY <1>2, <1>3 DEF Moves, Sound
  <1>5. Shape' /\ Silent /\ Settles({c}) /\ call'[c].since = call[c].since
    BY <1>1, <1>2, <1>3, <1>4 DEF Moves, Shape, Sounds, Lookups, Silent, Settles
  <1> QED BY <1>3, <1>4, <1>5 DEF k

\* A restart begins nothing, and nothing that it leaves over was whole.
LEMMA RecoveredIsACall ==
    ASSUME NEW k \in CallRecord, Sound(k), NEW at \in Resumption
    PROVE  LET n == Recovered(k, at) IN
           /\ n \in CallRecord /\ Sound(n)
           /\ n.at = "new" => k.at = "new"
           /\ k.at \notin {"new", "in_call"} /\ n.at # "done"
                 => n.said = k.said /\ n.promised = k.promised
           /\ n.at = "done" /\ n.whole => n = k
           /\ n.said \in {k.said, <<>>}
  <1>1. CASE k.at \in {"new", "done"}
    BY <1>1 DEF Recovered
  <1>2. CASE k.at \notin {"new", "done"} /\ k.record = "none"
    <2>1. Recovered(k, at) = Over(k)
      BY <1>2 DEF Recovered
    <2>2. ~k.whole
      BY <1>2 DEF Sound
    <2> QED BY <2>1, <2>2, OverIsACall DEF Sound
  <1>3. CASE k.at \notin {"new", "done"} /\ k.record = "closing"
    <2> DEFINE n == [k EXCEPT !.at = "stuck"]
    <2>1. Recovered(k, at) = n
      BY <1>3 DEF Recovered
    <2>2. /\ n \in CallRecord /\ n.at = "stuck" /\ n.record = k.record
          /\ n.whole = k.whole /\ n.said = k.said /\ n.promised = k.promised
      BY DEF CallRecord, At
    <2> HIDE DEF n
    <2> QED BY <1>3, <2>1, <2>2 DEF Sound
  <1>4. CASE k.at \notin {"new", "done"} /\ k.record = "open"
    <2> DEFINE memory == k.kept[1]
               rollup == k.kept[2]
               n == [k EXCEPT !.at = at, !.memory = memory, !.rollup = rollup]
    <2>1. Recovered(k, at) = n
      BY <1>4 DEF Recovered
    <2>2. at \in {"ended", "stopped", "stuck"} /\ memory \in MemoryStep
          /\ rollup \in RollupStep
      BY DEF CallRecord, Resumption
    <2>3. /\ n \in CallRecord /\ n.at = at /\ n.record = k.record
          /\ n.whole = k.whole /\ n.said = k.said /\ n.promised = k.promised
      <3> HIDE DEF memory, rollup
      <3> QED BY <2>2 DEF CallRecord, At
    <2> HIDE DEF n
    <2> QED BY <1>4, <2>1, <2>2, <2>3 DEF Sound
  <1>5. k.record \in {"none", "closing", "open"}
    BY DEF CallRecord
  <1> QED BY <1>1, <1>2, <1>3, <1>4, <1>5

LEMMA RestartsStep ==
    ASSUME Shape, NEW at \in Resumption, Restarts(at)
    PROVE  Shape' /\ Silent /\ Settles({}) /\ UNCHANGED rollups
  <1>1. call \in [Call -> CallRecord] /\ request \in [Request -> RequestRecord]
        /\ Sounds /\ Lookups /\ now \in Time
    BY DEF Shape
  <1>2. call' = [c \in Call |-> Recovered(call[c], at)] /\ UNCHANGED <<rollups, now>>
    BY DEF Restarts
  <1>3. ASSUME NEW c \in Call
        PROVE  /\ call'[c] \in CallRecord /\ Sound(call'[c])
               /\ call[c].at \notin {"new", "in_call"} /\ call'[c].at # "done"
                     => /\ call'[c].said = call[c].said
                        /\ call'[c].promised = call[c].promised
               /\ call'[c].at = "done" /\ call'[c].whole => call'[c] = call[c]
    <2>1. call'[c] = Recovered(call[c], at) /\ call[c] \in CallRecord
          /\ Sound(call[c])
      BY <1>1, <1>2 DEF Sounds
    <2> QED BY <2>1, RecoveredIsACall
  <1>4. call' \in [Call -> CallRecord] /\ Sounds' /\ Silent /\ Settles({})
    BY <1>2, <1>3 DEF Sounds, Silent, Settles
  <1>5. request' \in [Request -> RequestRecord] /\ Lookups'
    <2>1. [NewRequest EXCEPT !.at = "done"] \in RequestRecord
      BY NewIsARequest DEF NewRequest, RequestRecord
    <2> QED BY <1>1, <2>1 DEF Restarts, Lookups, RequestRecord
  <1> QED BY <1>1, <1>2, <1>4, <1>5 DEF Shape

LEMMA AroundStep ==
    ASSUME Shape, Clears \/ ClearFails \/ (\E t \in Time : Passes(t)) \/ UNCHANGED vars
    PROVE  Shape' /\ Silent /\ Settles({})
  <1>1. UNCHANGED <<call, request>>
    BY DEF Clears, ClearFails, Passes, vars
  <1>2. now' \in Time
    BY DEF Clears, ClearFails, Passes, vars, Shape
  <1> QED BY <1>1, <1>2 DEF Shape, Sounds, Lookups, Silent, Settles

\* A clearing, whole or in part.
Forgets == Clears \/ ClearFails \/ \E at \in Resumption : CrashClearing(at)

\* What a step is, for the proofs below: it leaves the memory alone, or is a
\* commit, a rollup or a clearing, whole or in part.
LEMMA Steps ==
    ASSUME Shape, [Next]_vars
    PROVE  /\ Shape' /\ Silent
           /\ \/ Settles({}) /\ Untouched
              \/ \E c \in Call, text \in Text, tales \in SUBSET Tale :
                    Commits(c, text, tales) /\ MovesOn(c) /\ Settles({})
                    /\ UNCHANGED <<rollups, torn>>
              \/ \E c \in Call : Rolls(c) /\ Settles({c}) /\ UNCHANGED <<entries, torn>>
              \/ \E c \in Call, lands \in BOOLEAN :
                    RollFails(c, lands) /\ Settles({}) /\ UNCHANGED <<entries, torn>>
              \/ Forgets
  <1>1. CASE UNCHANGED vars
    BY <1>1, AroundStep DEF vars, Untouched
  <1>2. ASSUME NEW c \in Call, NEW kind \in {"free", "story"},
               NEW opening \in Opening,
               Starts(c, kind, opening)
        PROVE  Shape' /\ Silent /\ Settles({}) /\ Untouched
    BY <1>2, StartsStep
  <1>3. ASSUME NEW c \in Call,
               Ends(c) \/ Works(c) \/ (\E lands \in BOOLEAN : Retries(c, lands))
        PROVE  /\ Shape' /\ Silent
               /\ \/ Settles({}) /\ Untouched
                  \/ \E text \in Text, tales \in SUBSET Tale :
                        Commits(c, text, tales) /\ MovesOn(c) /\ Settles({})
                        /\ UNCHANGED <<rollups, torn>>
                  \/ Rolls(c) /\ Settles({c}) /\ UNCHANGED <<entries, torn>>
                  \/ \E lands \in BOOLEAN :
                        RollFails(c, lands) /\ Settles({}) /\ UNCHANGED <<entries, torn>>
    <2>1. CASE Rolls(c)
      BY <2>1, RollsStep
    <2>2. CASE ~Rolls(c)
      <3>1. MovesOn(c)
        BY <1>3, <2>2, JobMoves
      <3>2. /\ UNCHANGED <<request, now, torn>>
            /\ \/ UNCHANGED <<entries, rollups>>
               \/ \E text \in Text, tales \in SUBSET Tale :
                     Commits(c, text, tales) /\ UNCHANGED rollups
               \/ UNCHANGED entries
                  /\ (Rolls(c) \/ \E lands \in BOOLEAN : RollFails(c, lands))
        BY <1>3, JobLeaves
      <3>3. Shape' /\ Silent /\ Settles({})
        BY <3>1, <3>2, MovesKeep
      <3> QED BY <2>2, <3>1, <3>2, <3>3 DEF Untouched
    <2> QED BY <2>1, <2>2
  <1>4. ASSUME NEW m \in Message, Says(m)
        PROVE  Shape' /\ Silent /\ Settles({}) /\ Untouched
    BY <1>4, SaysStep
  <1>5. ASSUME NEW r \in Request, Replies(r)
        PROVE  Shape' /\ Silent /\ Settles({}) /\ Untouched
    BY <1>5, RepliesStep
  <1>6. ASSUME NEW t \in Time, Passes(t)
        PROVE  Shape' /\ Silent /\ Settles({}) /\ Untouched
    BY <1>6, AroundStep DEF Passes, Untouched
  <1>7. CASE Clears \/ ClearFails
    BY <1>7, AroundStep DEF Forgets
  <1>8. ASSUME NEW at \in Resumption, Crash(at)
        PROVE  Shape' /\ Silent /\ Settles({}) /\ Untouched
    BY <1>8, RestartsStep DEF Crash, Untouched
  <1>9. ASSUME NEW at \in Resumption, CrashClearing(at)
        PROVE  Shape' /\ Silent /\ Forgets
    BY <1>9, RestartsStep DEF CrashClearing, Forgets
  <1> QED BY <1>1, <1>2, <1>3, <1>4, <1>5, <1>6, <1>7, <1>8, <1>9 DEF Next

LEMMA InitShape == Init => Shape
  <1> SUFFICES ASSUME Init PROVE Shape
    OBVIOUS
  <1>1. call \in [Call -> CallRecord] /\ Sounds
    BY NewIsACall DEF Init, Sounds, Sound, NewCall
  <1>2. request \in [Request -> RequestRecord] /\ Lookups
    BY NewIsARequest DEF Init, Lookups, NewRequest
  <1>3. now \in Time
    BY StartIsATime DEF Init
  <1> QED BY <1>1, <1>2, <1>3 DEF Shape

\* Calls, requests and times are of their kind; a request that looks something up
\* has a round left (MAX_TOOL_ROUNDS), the disk has a job from the hang-up on, and
\* only attempts of a job are whole.
THEOREM ShapeHolds == Spec => []Shape
  <1>1. Shape /\ [Next]_vars => Shape'
    BY Steps
  <1> QED BY InitShape, <1>1, PTL DEF Spec

-----------------------------------------------------------------------------
(* Nothing is said in a call that is over. *)

\* A reply or a tool of a model that was still thinking at the hang-up changes
\* neither the transcript that the job commits nor the registered exits
\* (recordChatTurn, invokeTool).
THEOREM SilenceAfterHangUp == Spec => NothingAfterHangUp
  <1>1. Shape /\ [Next]_vars => [Silent]_vars
    BY Steps
  <1>2. Silent => \A c \in Call : call[c].at \notin {"new", "in_call"} /\ call'[c].at # "done"
                     => /\ call'[c].said = call[c].said
                        /\ call'[c].promised = call[c].promised
    BY DEF Silent
  <1> QED BY <1>1, <1>2, ShapeHolds, PTL DEF Spec, NothingAfterHangUp

-----------------------------------------------------------------------------
(* No call says the same thing twice. *)

\* A commit inserts what is said in one call.
LEMMA SaidIsOfOneCall ==
    ASSUME NEW c, NEW text, NEW tales, NEW t, NEW e \in Said(c, text, tales, t)
    PROVE  /\ e.call = c /\ e.at = t
           /\ \A f \in Said(c, text, tales, t) :
                 <<e.call, e.kind, e.text>> = <<f.call, f.kind, f.text>> => e = f
  BY DEF Said

\* However often a job is retried and at whatever time, the content hash keeps
\* one entry of a call, a kind and a text (insertEntry).
THEOREM SameTextIsOnce == Spec => []SameTextOnce
  <1>1. Init => SameTextOnce
    BY DEF Init, SameTextOnce
  <1>2. ASSUME Shape, SameTextOnce, [Next]_vars PROVE SameTextOnce'
    <2>1. CASE UNCHANGED entries
      BY <1>2, <2>1 DEF SameTextOnce
    <2>2. ASSUME NEW c \in Call, NEW text \in Text, NEW tales \in SUBSET Tale,
                 Commits(c, text, tales)
          PROVE  SameTextOnce'
      <3> DEFINE new == Said(c, text, tales, call[c].since)
      <3>1. entries' = Insert(entries, new)
        BY <2>2 DEF Commits
      <3>2. \A e, f \in new :
               <<e.call, e.kind, e.text>> = <<f.call, f.kind, f.text>> => e = f
        BY SaidIsOfOneCall
      <3> HIDE DEF new
      <3> QED BY <1>2, <3>1, <3>2 DEF Insert, SameTextOnce
    <2>3. entries' = {} => SameTextOnce'
      BY DEF SameTextOnce
    <2>4. Forgets => entries' = {}
      BY DEF Forgets, Clears, ClearFails, CrashClearing
    <2> QED BY <1>2, <2>1, <2>2, <2>3, <2>4, Steps DEF Untouched
  <1>3. Shape /\ SameTextOnce /\ [Next]_vars => SameTextOnce'
    BY <1>2
  <1> QED BY <1>1, <1>3, ShapeHolds, PTL DEF Spec

-----------------------------------------------------------------------------
(* Rollups tell what is there. *)

\* What a rollup of the periods ps makes of each of them.
LEMMA RollupMakes ==
    ASSUME NEW E, NEW R, NEW ps \in SUBSET Period, NEW r \in Rollup(E, R, ps)
    PROVE  /\ DOMAIN r = Period
           /\ \A p \in ps : r[p] \in Digests(InPeriod(E, p))
           /\ \A p \in Period \ ps : r[p] = R[p]
  <1> DEFINE digests == [p \in ps |-> Digests(InPeriod(E, p))]
             summaries == {s \in [ps -> UNION {digests[p] : p \in ps}] :
                             \A p \in ps : s[p] \in digests[p]}
  <1>1. PICK s \in summaries : r = [p \in Period |-> IF p \in ps THEN s[p] ELSE R[p]]
    BY DEF Rollup
  <1>2. \A p \in ps : s[p] \in Digests(InPeriod(E, p))
    BY <1>1
  <1> HIDE DEF summaries
  <1> QED BY <1>1, <1>2

\* Only periods of the calendar are due or made.
LEMMA DuePeriods ==
    \A E, R, t : /\ Due(E, R, t) \subseteq Period
                 /\ \A ps \in Firsts(Due(E, R, t), t) : ps \subseteq Period
  BY DEF Due, Firsts

\* A step that makes rollups makes them of some periods.
LEMMA Rolled ==
    ASSUME NEW c \in Call, Rolls(c) \/ \E lands \in BOOLEAN : RollFails(c, lands)
    PROVE  \E ps \in SUBSET Period : rollups' \in Rollup(entries, rollups, ps)
  BY DuePeriods DEF Rolls, RollFails

\* A rollup tells of entries that are there and of its period, through commits,
\* clearings, retries and restarts, unless the second statement of a clearing failed
\* or was cut off (rollupIfNeeded, clearMemoryEntriesForAgent).
THEOREM RollupsAreReal == Spec => []RollupsReal
  <1>1. Init => RollupsReal
    BY DEF Init, RollupsReal, NoRollups
  <1>2. ASSUME Shape, RollupsReal, [Next]_vars PROVE RollupsReal'
    <2>1. CASE Untouched
      BY <1>2, <2>1 DEF RollupsReal, InPeriod, Untouched
    <2>2. ASSUME NEW c \in Call, NEW text \in Text, NEW tales \in SUBSET Tale,
                 Commits(c, text, tales), UNCHANGED <<rollups, torn>>
          PROVE  RollupsReal'
      <3>1. entries \subseteq entries'
        BY <2>2 DEF Commits, Insert
      <3> QED BY <1>2, <2>2, <3>1 DEF RollupsReal, InPeriod
    <2>3. ASSUME NEW c \in Call, Rolls(c) \/ (\E lands \in BOOLEAN : RollFails(c, lands)),
                 UNCHANGED <<entries, torn>>
          PROVE  RollupsReal'
      <3>1. PICK ps \in SUBSET Period : rollups' \in Rollup(entries, rollups, ps)
        BY <2>3, Rolled
      <3>2. \A S : \A D \in Digests(S) : D \subseteq S
        BY DEF Digests
      <3>3. \A p \in ps : rollups'[p] \subseteq InPeriod(entries, p)
        BY <3>1, <3>2, RollupMakes
      <3>4. \A p \in Period \ ps : rollups'[p] = rollups[p]
        BY <3>1, RollupMakes
      <3> QED BY <1>2, <2>3, <3>3, <3>4 DEF RollupsReal, InPeriod
    <2>4. CASE Clears
      BY <2>4 DEF Clears, RollupsReal, NoRollups
    <2>5. Forgets => Clears \/ RollupsReal'
      BY DEF Forgets, ClearFails, CrashClearing, RollupsReal
    <2> QED BY <1>2, <2>1, <2>2, <2>3, <2>4, <2>5, Steps
  <1>3. Shape /\ RollupsReal /\ [Next]_vars => RollupsReal'
    BY <1>2
  <1> QED BY <1>1, <1>3, ShapeHolds, PTL DEF Spec

-----------------------------------------------------------------------------
(* What a rollup leaves out. *)

\* The summary has all that is older than what it tells: if e is left out, what
\* it tells is not newer than e, and there is no place left.
LEMMA DigestMisses ==
    ASSUME NEW S, NEW D \in Digests(S), NEW e \in S, e \notin D,
           \A f \in S : f.at \in Int
    PROVE  Cardinality({f \in D : f.at <= e.at}) >= Fits
  <1>1. D \subseteq S /\ \A d \in D : ~(e.at < d.at)
    BY DEF Digests
  <1>2. \A d \in D : d.at <= e.at
    BY <1>1
  <1>3. {f \in D : f.at <= e.at} = D
    BY <1>2
  <1>4. D # S
    OBVIOUS
  <1> QED BY <1>3, <1>4 DEF Digests

\* What is there are entries.
Dated == entries \subseteq Entry

LEMMA CommitsEntries ==
    ASSUME Shape, Dated, NEW c \in Call, NEW text \in Text, NEW tales \in SUBSET Tale,
           Commits(c, text, tales)
    PROVE  Dated' /\ entries \subseteq entries' /\ \A f \in entries' \ entries : f.call = c
  <1> DEFINE new == Said(c, text, tales, call[c].since)
  <1>1. entries' = Insert(entries, new)
    BY DEF Commits
  <1>2. new \subseteq Entry
    <2>1. call[c].since \in Time
      BY DEF Shape, CallRecord
    <2> QED BY <2>1 DEF Said, Entry
  <1>3. \A f \in new : f.call = c
    BY SaidIsOfOneCall
  <1> HIDE DEF new
  <1> QED BY <1>1, <1>2, <1>3 DEF Insert, Dated

LEMMA DatedStays == ASSUME Shape, Dated, [Next]_vars PROVE Dated'
  <1>1. CASE UNCHANGED entries \/ entries' = {}
    BY <1>1 DEF Dated
  <1>2. ASSUME NEW c \in Call, NEW text \in Text, NEW tales \in SUBSET Tale,
               Commits(c, text, tales)
        PROVE Dated'
    BY <1>2, CommitsEntries
  <1>3. Forgets => entries' = {}
    BY DEF Forgets, Clears, ClearFails, CrashClearing
  <1> QED BY <1>1, <1>2, <1>3, Steps DEF Untouched

\* An entry of a call that is done and whole, in one of its periods.
Counts(e, p) ==
    /\ Within(p, e.at)
    /\ call[e.call].at = "done" /\ call[e.call].whole /\ call[e.call].since = e.at

Covered(e, p) ==
    \/ e \in rollups[p]
    \/ Cardinality({f \in rollups[p] : f.at <= e.at}) >= Fits

\* A commit's own call is not done, or not whole.
LEMMA CommitCovers ==
    ASSUME Shape, Dated, RollupsCover, NEW c \in Call, NEW text \in Text,
           NEW tales \in SUBSET Tale, Commits(c, text, tales), MovesOn(c), Settles({}),
           UNCHANGED rollups
    PROVE  RollupsCover'
  <1> SUFFICES ASSUME NEW e \in entries', NEW p \in Period, Counts(e, p)'
               PROVE  Covered(e, p)'
    BY DEF RollupsCover, Counts, Covered
  <1>1. \A f \in entries' \ entries : f.call = c
    BY CommitsEntries
  <1>2. call'[c].at = "done" => ~call'[c].whole
    BY DEF MovesOn, Moves, Shape
  <1>3. e \in entries /\ e.call \in Call
    BY <1>1, <1>2 DEF Counts, Dated, Entry
  <1>4. Counts(e, p)
    BY <1>3 DEF Counts, Settles
  <1> QED BY <1>3, <1>4 DEF RollupsCover, Counts, Covered

\* What a period that is made up leaves out has no place there.
LEMMA MadeCovers ==
    ASSUME Dated, NEW ps \in SUBSET Period, rollups' \in Rollup(entries, rollups, ps),
           NEW e \in entries, NEW p \in ps, Within(p, e.at)
    PROVE  Covered(e, p)'
  <1> DEFINE S == InPeriod(entries, p)
             D == rollups'[p]
  <1>1. D \in Digests(S)
    BY RollupMakes
  <1>2. e \in S /\ \A f \in S : f.at \in Int
    BY MemoryAssumption DEF InPeriod, Dated, Entry, Time
  <1> HIDE DEF S, D
  <1>3. e \in D \/ Cardinality({f \in D : f.at <= e.at}) >= Fits
    BY <1>1, <1>2, DigestMisses
  <1> QED BY <1>3 DEF Covered, D

\* A rollup that fails settles no call, and one that does not has made up the
\* periods of its own.
LEMMA RollCovers ==
    ASSUME Shape, Dated, RollupsCover, NEW c \in Call, UNCHANGED entries,
           \/ Rolls(c) /\ Settles({c})
           \/ (\E lands \in BOOLEAN : RollFails(c, lands)) /\ Settles({})
    PROVE  RollupsCover'
  <1> SUFFICES ASSUME NEW e \in entries, NEW p \in Period, Counts(e, p)'
               PROVE  Covered(e, p)'
    BY DEF RollupsCover, Counts, Covered
  <1>1. PICK ps \in SUBSET Period :
           /\ rollups' \in Rollup(entries, rollups, ps)
           /\ Settles({}) \/ (Settles({c}) /\ ps = Due(entries, rollups, call[c].since)
                              /\ call'[c].since = call[c].since)
    <2>1. CASE Rolls(c) /\ Settles({c})
      BY <2>1, DuePeriods, RollsStep DEF Rolls
    <2>2. CASE (\E lands \in BOOLEAN : RollFails(c, lands)) /\ Settles({})
      BY <2>2, Rolled
    <2> QED BY <2>1, <2>2
  <1>2. e.call \in Call /\ Within(p, e.at)
    BY DEF Dated, Entry, Counts
  <1>3. CASE p \in ps
    BY <1>1, <1>2, <1>3, MadeCovers
  <1>4. CASE p \notin ps
    <2>1. rollups'[p] = rollups[p]
      BY <1>1, <1>4, RollupMakes
    <2>2. Settles({}) \/ (Settles({c}) /\ e.call # c)
      <3>1. e \in InPeriod(entries, p)
        BY <1>2 DEF InPeriod
      <3> QED BY <1>1, <1>2, <1>4, <3>1 DEF Counts, Due, Within
    <2>3. Counts(e, p)
      BY <1>2, <2>2 DEF Counts, Settles
    <2>4. Covered(e, p)
      BY <2>3 DEF RollupsCover, Counts, Covered
    <2> QED BY <2>1, <2>4 DEF Covered
  <1> QED BY <1>3, <1>4

\* What a call left whose memory and rollup phases ran in one attempt is in the
\* rollups of its month and quarter, unless Fits snippets that are not newer fill
\* them, whatever other calls, retries, clearings and restarts come later and
\* however the summaries are cut (rollupIfNeeded, buildExtractiveRollupSummary).
THEOREM RollupsCoverCalls == Spec => []RollupsCover
  <1>1. Init => Dated /\ RollupsCover
    BY DEF Init, Dated, RollupsCover
  <1>2. ASSUME Shape, Dated, RollupsCover, [Next]_vars PROVE RollupsCover'
    <2>1. CASE Settles({}) /\ Untouched
      <3> SUFFICES ASSUME NEW e \in entries, NEW p \in Period, Counts(e, p)'
                   PROVE  Covered(e, p)'
        BY <2>1 DEF RollupsCover, Counts, Covered, Untouched
      <3>1. Counts(e, p)
        BY <1>2, <2>1 DEF Counts, Settles, Dated, Entry
      <3>2. Covered(e, p)
        BY <1>2, <3>1 DEF RollupsCover, Counts, Covered
      <3> QED BY <2>1, <3>2 DEF Covered, Untouched
    <2>2. ASSUME NEW c \in Call, NEW text \in Text, NEW tales \in SUBSET Tale,
                 Commits(c, text, tales), MovesOn(c), Settles({}),
                 UNCHANGED <<rollups, torn>>
          PROVE  RollupsCover'
      BY <1>2, <2>2, CommitCovers
    <2>3. ASSUME NEW c \in Call, UNCHANGED <<entries, torn>>,
                 \/ Rolls(c) /\ Settles({c})
                 \/ (\E lands \in BOOLEAN : RollFails(c, lands)) /\ Settles({})
          PROVE  RollupsCover'
      BY <1>2, <2>3, RollCovers
    <2>4. Forgets => RollupsCover'
      BY DEF Forgets, Clears, ClearFails, CrashClearing, RollupsCover
    <2> QED BY <1>2, <2>1, <2>2, <2>3, <2>4, Steps
  <1>3. Shape /\ Dated /\ [Next]_vars => Dated'
    BY DatedStays
  <1>4. Shape /\ Dated /\ RollupsCover /\ [Next]_vars => RollupsCover'
    BY <1>2
  <1> QED BY <1>1, <1>3, <1>4, ShapeHolds, PTL DEF Spec

-----------------------------------------------------------------------------
(* Type correctness.  That a transcript is bounded is not inductive: what  *)
(* is, is that no turn is in it twice, for a turn of the user comes when   *)
(* its request is made, and one of the agent when it is answered.          *)

\* A turn that was recorded is not to come any more.
Spoken(q, c, turn) ==
    /\ turn[1] \in Call => turn = <<c, "assistant">>
    /\ turn[1] \in Message => q[turn[1]].at # "idle"
    /\ turn[2] = "assistant" => q[turn[1]].at \in {"idle", "done"}

OnlyOnce(s) == \A i, k \in 1..Len(s) : s[i] = s[k] => i = k

\* The opening turn of a call is not asked for before the call begins.
Unopened == \A c \in Call : call[c].at = "new" => request[c].at = "idle"

TurnsOnce ==
    \A c \in Call : /\ OnlyOnce(call[c].said)
                    /\ \A i \in 1..Len(call[c].said) :
                          Spoken(request, c, call[c].said[i])

\* The rest of the memory's state, and how often it was disturbed.
MemoryTyped ==
    /\ entries \subseteq Entry /\ rollups \in [Period -> SUBSET Entry]
    /\ resumed \in 0..MaxResumed /\ clears \in 0..MaxClear /\ torn \in BOOLEAN

Turn == Request \X {"user", "assistant"}

LEMMA AddsTurn ==
    ASSUME NEW s \in Seq(Turn), NEW t \in Turn, OnlyOnce(s),
           \A i \in 1..Len(s) : s[i] # t
    PROVE  /\ OnlyOnce(Append(s, t))
           /\ \A i \in 1..Len(Append(s, t)) :
                 Append(s, t)[i] = t \/ (i \in 1..Len(s) /\ Append(s, t)[i] = s[i])
  <1>1. /\ Len(Append(s, t)) = Len(s) + 1 /\ Len(s) \in Nat
        /\ \A i \in 1..Len(s) : Append(s, t)[i] = s[i]
        /\ Append(s, t)[Len(s) + 1] = t
    OBVIOUS
  <1> DEFINE a == Append(s, t)
             n == Len(s)
  <1> HIDE DEF a, n
  <1>2. \A i \in 1..(n + 1) : i = n + 1 \/ i \in 1..n
    BY <1>1 DEF n
  <1>3. \A i \in 1..Len(a) : a[i] = t \/ (i \in 1..n /\ a[i] = s[i])
    BY <1>1, <1>2 DEF a, n
  <1>4. OnlyOnce(a)
    BY <1>1, <1>2 DEF a, n, OnlyOnce
  <1> QED BY <1>3, <1>4 DEF a, n

\* A step that records no turn.
Quiet ==
    /\ \A c \in Call : /\ call'[c].said \in {call[c].said, <<>>}
                       /\ call'[c].at = "new" => call[c].at = "new"
    /\ \A r \in Request : /\ request'[r].at = "idle" <=> request[r].at = "idle"
                          /\ request[r].at = "done" => request'[r].at = "done"

LEMMA QuietKeeps ==
    ASSUME Shape, TurnsOnce, Unopened, Quiet
    PROVE  TurnsOnce' /\ Unopened'
  <1>1. \A c \in Call : c \in Request
    BY DEF Request
  <1>2. Unopened'
    BY <1>1 DEF Quiet, Unopened
  <1>3. ASSUME NEW c \in Call
        PROVE  /\ OnlyOnce(call'[c].said)
               /\ \A i \in 1..Len(call'[c].said) : Spoken(request', c, call'[c].said[i])
    <2>1. call[c].said \in Seq(Turn)
      BY DEF Shape, CallRecord, Turn
    <2>2. CASE call'[c].said = call[c].said
      <3>1. \A i \in 1..Len(call[c].said) : call[c].said[i] \in Turn
        BY <2>1
      <3>2. \A t \in Turn : t[1] \in Request
        BY DEF Turn
      <3> QED BY <2>2, <3>1, <3>2 DEF TurnsOnce, Quiet, Spoken
    <2>3. CASE call'[c].said = <<>>
      BY <2>3 DEF OnlyOnce
    <2> QED BY <2>2, <2>3 DEF Quiet
  <1> QED BY <1>2, <1>3 DEF TurnsOnce

\* A message or a call's opening says something new.
LEMMA SaidKeeps ==
    ASSUME Shape, TurnsOnce, Unopened, NEW c \in Call, NEW t \in Turn,
           \A i \in 1..Len(call[c].said) : call[c].said[i] # t,
           call'[c].said = Append(call[c].said, t), Spoken(request', c, t),
           \A d \in Call : /\ d # c => call'[d].said = call[d].said
                           /\ call'[d].at = "new" => call[d].at = "new",
           \A d \in Call, u \in Turn : Spoken(request, d, u) => Spoken(request', d, u),
           \A d \in Call : request[d].at = "idle" => request'[d].at = "idle"
    PROVE  TurnsOnce' /\ Unopened'
  <1>1. Unopened'
    BY DEF Unopened
  <1>2. \A d \in Call : call[d].said \in Seq(Turn)
    BY DEF Shape, CallRecord, Turn
  <1>3. ASSUME NEW d \in Call
        PROVE  /\ OnlyOnce(call'[d].said)
               /\ \A i \in 1..Len(call'[d].said) : Spoken(request', d, call'[d].said[i])
    <2> DEFINE s == call[d].said
    <2>1. /\ s \in Seq(Turn) /\ OnlyOnce(s)
          /\ \A i \in 1..Len(s) : Spoken(request, d, s[i])
      BY <1>2 DEF TurnsOnce
    <2>2. \A i \in 1..Len(s) : Spoken(request', d, s[i])
      <3>1. \A i \in 1..Len(s) : s[i] \in Turn
        BY <2>1
      <3> HIDE DEF s
      <3> QED BY <2>1, <3>1
    <2>3. CASE d # c
      BY <2>1, <2>2, <2>3
    <2>4. CASE d = c
      <3>1. call'[d].said = Append(s, t) /\ Spoken(request', d, t)
            /\ \A i \in 1..Len(s) : s[i] # t
        BY <2>4
      <3> HIDE DEF s
      <3>2. /\ OnlyOnce(Append(s, t))
            /\ \A i \in 1..Len(Append(s, t)) :
                  \/ Append(s, t)[i] = t
                  \/ i \in 1..Len(s) /\ Append(s, t)[i] = s[i]
        BY <2>1, <3>1, AddsTurn
      <3>3. ASSUME NEW i \in 1..Len(Append(s, t))
            PROVE  Spoken(request', d, Append(s, t)[i])
        <4>1. CASE Append(s, t)[i] = t
          BY <3>1, <4>1
        <4>2. CASE i \in 1..Len(s) /\ Append(s, t)[i] = s[i]
          BY <2>2, <4>2
        <4> QED BY <3>2, <4>1, <4>2
      <3> QED BY <3>1, <3>2, <3>3
    <2> QED BY <2>3, <2>4
  <1> QED BY <1>1, <1>3 DEF TurnsOnce

\* A call begins, with the opening that its card has or none yet.
LEMMA StartsTurns ==
    ASSUME Shape, TurnsOnce, Unopened, NEW c \in Call,
           NEW kind \in {"free", "story"},
           NEW opening \in Opening,
           Starts(c, kind, opening)
    PROVE  TurnsOnce' /\ Unopened'
  <1> DEFINE client == CASE opening = "model" -> "starting"
                         [] opening = "playback" -> "lost"
                         [] OTHER -> "knows"
             said == IF opening = "line" THEN <<<<c, "assistant">>>> ELSE <<>>
             k == [NewCall EXCEPT !.at = "in_call", !.kind = kind,
                                  !.client = client, !.said = said]
  <1>1. /\ call' = [call EXCEPT ![c] = k] /\ request[c].at = "idle"
        /\ \/ said = <<>> /\ request' = [request EXCEPT ![c].at = "asking"]
           \/ request' = request
    BY DEF Starts, Unopened
  <1>2. k.at = "in_call" /\ k.said = said
    BY DEF NewCall
  <1>3. said = <<>> \/ said = <<<<c, "assistant">>>>
    OBVIOUS
  <1>4. /\ call \in [Call -> CallRecord] /\ c \in Request
        /\ request \in [Request -> RequestRecord]
        /\ \A m \in Message : m # c
    BY CallMemoryAssumption DEF Shape, Request
  <1> HIDE DEF k, said
  <1>5. call'[c].said = said /\ call'[c].at = "in_call"
        /\ \A d \in Call : d # c => call'[d] = call[d]
    BY <1>1, <1>2, <1>4
  <1>6. \A r \in Request : r # c => request'[r] = request[r]
    BY <1>1, <1>4
  <1>7. Unopened'
    BY <1>4, <1>5, <1>6 DEF Unopened, Request
  <1>8. ASSUME NEW d \in Call
        PROVE  /\ OnlyOnce(call'[d].said)
               /\ \A i \in 1..Len(call'[d].said) :
                     Spoken(request', d, call'[d].said[i])
    <2>1. CASE d # c
      <3>1. call[d].said \in Seq(Turn)
        BY <1>4 DEF CallRecord, Turn
      <3>2. \A i \in 1..Len(call[d].said) :
               call[d].said[i] \in Turn /\ Spoken(request, d, call[d].said[i])
        BY <3>1 DEF TurnsOnce
      <3>3. ASSUME NEW t \in Turn, Spoken(request, d, t)
            PROVE  Spoken(request', d, t)
        <4>1. t[1] \in Request /\ t[1] # c
          BY <2>1, <3>3 DEF Turn, Spoken
        <4> QED BY <1>6, <3>3, <4>1 DEF Spoken
      <3> QED BY <1>5, <2>1, <3>2, <3>3 DEF TurnsOnce
    <2>2. CASE d = c /\ said = <<>>
      BY <1>5, <2>2 DEF OnlyOnce
    <2>3. CASE d = c /\ said # <<>>
      <3>1. call'[d].said = <<<<c, "assistant">>>> /\ request' = request
        BY <1>1, <1>3, <1>5, <2>3
      <3>2. Spoken(request', c, <<c, "assistant">>)
        BY <1>1, <1>4, <3>1 DEF Spoken
      <3> QED BY <2>3, <3>1, <3>2 DEF OnlyOnce
    <2> QED BY <2>1, <2>2, <2>3
  <1> QED BY <1>7, <1>8 DEF TurnsOnce

LEMMA SaysTurns ==
    ASSUME Shape, TurnsOnce, Unopened, NEW m \in Message, Says(m)
    PROVE  TurnsOnce' /\ Unopened'
  <1> DEFINE c == SaidIn[m]
             t == <<m, "user">>
  <1>1. /\ m \in Request /\ c \in Call /\ t \in Turn /\ m \notin Call
        /\ call \in [Call -> CallRecord]
        /\ request \in [Request -> RequestRecord]
    BY CallMemoryAssumption DEF Shape, Request, Turn
  <1>2. /\ request[m].at = "idle"
        /\ call' = [call EXCEPT ![c].said = Append(@, t)]
        /\ request' = [request EXCEPT ![m].at = "asking"]
    BY DEF Says
  <1>3. /\ call'[c].said = Append(call[c].said, t)
        /\ \A d \in Call : /\ call'[d].at = call[d].at
                           /\ d # c => call'[d].said = call[d].said
    <2> DEFINE k == [call[c] EXCEPT !.said = Append(call[c].said, t)]
    <2>1. k.said = Append(call[c].said, t) /\ k.at = call[c].at
      BY <1>1 DEF CallRecord
    <2>2. call' = [call EXCEPT ![c] = k]
      BY <1>2
    <2> HIDE DEF k, t, c
    <2> QED BY <1>1, <2>1, <2>2
  <1>4. \A r \in Request : r # m => request'[r] = request[r]
    BY <1>1, <1>2
  <1>5. request'[m].at = "asking"
    BY <1>1, <1>2 DEF RequestRecord
  <1>6. \A i \in 1..Len(call[c].said) : call[c].said[i] # t
    BY <1>1, <1>2 DEF TurnsOnce, Spoken
  <1>7. Spoken(request', c, t)
    BY <1>1, <1>5 DEF Spoken
  <1>8. ASSUME NEW d \in Call, NEW u \in Turn, Spoken(request, d, u)
        PROVE  Spoken(request', d, u)
    <2>1. u[1] \in Request
      BY DEF Turn
    <2>2. u[1] # m
      BY <1>2, <1>8 DEF Spoken
    <2> QED BY <1>4, <1>8, <2>1, <2>2 DEF Spoken
  <1>9. \A d \in Call : d \in Request /\ d # m
    BY <1>1 DEF Request
  <1> HIDE DEF c, t
  <1> QED BY <1>1, <1>3, <1>4, <1>6, <1>7, <1>8, <1>9, SaidKeeps

\* A request that waits for the model or the port goes on or is done.
Waiting(r) == request[r].at \in {"asking", "searching"} /\ request'[r].at # "idle"

LEMMA DoneOrAsked ==
    ASSUME Shape, NEW r \in Request,
           request[r].at \in {"asking", "searching"},
           \/ request' = Done(r) \/ request' = NextRound(r)
           \/ request' = [request EXCEPT ![r].at = "searching"]
    PROVE  /\ Waiting(r)
           /\ request' = Done(r) => request'[r].at = "done"
           /\ \A q \in Request : q # r => request'[q] = request[q]
  <1>1. request \in [Request -> RequestRecord]
    BY DEF Shape
  <1>2. CASE request' = Done(r)
    <2>1. request' = [request EXCEPT ![r] = [NewRequest EXCEPT !.at = "done"]]
      BY <1>1, <1>2 DEF Done
    <2>2. [NewRequest EXCEPT !.at = "done"].at = "done"
      BY DEF NewRequest
    <2> QED BY <1>1, <2>1, <2>2 DEF Waiting
  <1>3. CASE request' = NextRound(r)
    <2>1. request' = [request EXCEPT ![r].at = "asking", ![r].round = @ + 1]
      BY <1>3 DEF NextRound
    <2>2. request'[r].at = "asking"
      BY <1>1, <2>1 DEF RequestRecord
    <2>3. request'[r].at # "done"
      BY <2>2
    <2>4. \A q \in Request : q # r => request'[q] = request[q]
      BY <1>1, <2>1
    <2>5. request' = Done(r) => request'[r].at = "done"
      <3>1. Done(r) = [request EXCEPT ![r] = [NewRequest EXCEPT !.at = "done"]]
        BY <1>1 DEF Done
      <3>2. [NewRequest EXCEPT !.at = "done"].at = "done"
        BY DEF NewRequest
      <3> QED BY <1>1, <3>1, <3>2
    <2> QED BY <2>2, <2>4, <2>5 DEF Waiting
  <1>4. CASE request' = [request EXCEPT ![r].at = "searching"]
    <2>1. request'[r].at = "searching"
      BY <1>1, <1>4 DEF RequestRecord
    <2>2. \A q \in Request : q # r => request'[q] = request[q]
      BY <1>1, <1>4
    <2>3. request' = Done(r) => request'[r].at = "done"
      <3>1. Done(r) = [request EXCEPT ![r] = [NewRequest EXCEPT !.at = "done"]]
        BY <1>1 DEF Done
      <3>2. [NewRequest EXCEPT !.at = "done"].at = "done"
        BY DEF NewRequest
      <3> QED BY <1>1, <3>1, <3>2
    <2> QED BY <2>1, <2>2, <2>3 DEF Waiting
  <1> QED BY <1>2, <1>3, <1>4

\* The agent's turn comes with the answer of its request.
LEMMA AnswersTurns ==
    ASSUME Shape, TurnsOnce, Unopened, NEW r \in Request, Answers(r),
           call[In(r)].at = "in_call"
    PROVE  TurnsOnce' /\ Unopened'
  <1> DEFINE c == In(r)
             t == <<r, "assistant">>
             taken == [call EXCEPT ![c].said = Append(@, t)]
  <1>1. /\ c \in Call /\ t \in Turn /\ t[1] = r
        /\ call \in [Call -> CallRecord]
    BY InIsACall DEF Shape, Turn
  <1>2. /\ call' = Told(taken, r, TRUE) /\ request[r].at = "asking"
        /\ request' = Done(r)
    BY DEF Answers
  <1>3. /\ taken \in [Call -> CallRecord]
        /\ \A d \in Call : /\ taken[d].at = call[d].at
                           /\ d # c => taken[d] = call[d]
    BY <1>1, Speaks
  <1>4. taken[c].said = Append(call[c].said, t)
    <2> DEFINE k == [call[c] EXCEPT !.said = Append(call[c].said, t)]
    <2>1. k.said = Append(call[c].said, t)
      BY <1>1 DEF CallRecord
    <2>2. taken = [call EXCEPT ![c] = k]
      OBVIOUS
    <2> HIDE DEF k, t, c, taken
    <2> QED BY <1>1, <2>1, <2>2
  <1> HIDE DEF taken
  <1>5. /\ call'[c].said = Append(call[c].said, t)
        /\ \A d \in Call : /\ call'[d].at = call[d].at
                           /\ d # c => call'[d].said = call[d].said
    <2> DEFINE told == Told(taken, r, TRUE)
    <2>1. \A d \in Call : told[d].at = taken[d].at /\ told[d].said = taken[d].said
      BY <1>3, ToldKeeps
    <2>2. call' = told
      BY <1>2
    <2> HIDE DEF told
    <2> QED BY <1>1, <1>3, <1>4, <2>1, <2>2
  <1>6. request'[r].at = "done" /\ \A q \in Request : q # r => request'[q] = request[q]
    BY <1>2, DoneOrAsked
  <1>7. \A i \in 1..Len(call[c].said) : call[c].said[i] # t
    BY <1>1, <1>2 DEF TurnsOnce, Spoken
  <1>8. Spoken(request', c, t)
    BY <1>6 DEF Spoken, In
  <1>9. ASSUME NEW d \in Call, NEW u \in Turn, Spoken(request, d, u)
        PROVE  Spoken(request', d, u)
    <2>1. u[1] \in Request
      BY DEF Turn
    <2>2. CASE u[1] = r
      BY <1>6, <1>9, <2>2 DEF Spoken
    <2>3. CASE u[1] # r
      BY <1>6, <1>9, <2>1, <2>3 DEF Spoken
    <2> QED BY <2>2, <2>3
  <1>10. \A d \in Call : request[d].at = "idle" => request'[d].at = "idle"
    BY <1>2, <1>6 DEF Request
  <1> HIDE DEF c, t
  <1> QED BY <1>1, <1>5, <1>7, <1>8, <1>9, <1>10, SaidKeeps

LEMMA RepliesTurns ==
    ASSUME Shape, TurnsOnce, Unopened, NEW r \in Request, Replies(r)
    PROVE  TurnsOnce' /\ Unopened'
  <1>0. call \in [Call -> CallRecord] /\ In(r) \in Call
    BY InIsACall DEF Shape
  <1> DEFINE Mute == \A d \in Call : /\ call'[d].at = call[d].at
                                     /\ call'[d].said = call[d].said
  <1>1. /\ request[r].at \in {"asking", "searching"}
        /\ \/ request' = Done(r) \/ request' = NextRound(r)
           \/ request' = [request EXCEPT ![r].at = "searching"]
    BY DEF Replies, Answers, Fails, Exceeds, Searches, Registers, Found
  <1>2. Waiting(r) /\ \A q \in Request : q # r => request'[q] = request[q]
    BY <1>1, DoneOrAsked
  <1>3. ASSUME Mute PROVE TurnsOnce' /\ Unopened'
    <2>1. Quiet
      BY <1>2, <1>3 DEF Quiet, Waiting
    <2> QED BY <2>1, QuietKeeps
  <1>4. CASE Answers(r) /\ call[In(r)].at = "in_call"
    BY <1>4, AnswersTurns
  <1>5. CASE \/ Answers(r) /\ call[In(r)].at # "in_call"
             \/ Fails(r) \/ Exceeds(r)
    <2>1. call' = Told(call, r, FALSE)
      BY <1>5 DEF Answers, Fails, Exceeds
    <2>2. Mute
      BY <1>0, <2>1, ToldKeeps
    <2> QED BY <1>3, <2>2
  <1>6. CASE Searches(r)
    BY <1>3, <1>6 DEF Searches
  <1>7. ASSUME NEW x \in Exit, Registers(r, x)
        PROVE  Mute
    <2> DEFINE k == call[In(r)]
               new == [k EXCEPT !.promised = @ \cup {x}, !.traced = @ + 1]
    <2>1. call' = call \/ call' = [call EXCEPT ![In(r)] = new]
      BY <1>7 DEF Registers
    <2>2. k \in CallRecord
      BY <1>0
    <2>3. new.at = k.at /\ new.said = k.said
      <3> HIDE DEF k
      <3> QED BY <2>2 DEF CallRecord
    <2> HIDE DEF new
    <2> QED BY <1>0, <2>1, <2>3
  <1>8. ASSUME NEW ok \in BOOLEAN, Found(r, ok)
        PROVE  Mute
    <2> DEFINE k == call[In(r)]
               new == [k EXCEPT !.traced = @ + 1]
    <2>1. call' = call \/ call' = [call EXCEPT ![In(r)] = new]
      BY <1>8 DEF Found
    <2>2. k \in CallRecord
      BY <1>0
    <2>3. new.at = k.at /\ new.said = k.said
      <3> HIDE DEF k
      <3> QED BY <2>2 DEF CallRecord
    <2> HIDE DEF new
    <2> QED BY <1>0, <2>1, <2>3
  <1> HIDE DEF Mute
  <1> QED BY <1>3, <1>4, <1>5, <1>6, <1>7, <1>8 DEF Replies

LEMMA RestartsTurns ==
    ASSUME Shape, TurnsOnce, Unopened, NEW at \in Resumption, Restarts(at)
    PROVE  TurnsOnce' /\ Unopened'
  <1>1. ASSUME NEW c \in Call
        PROVE  /\ call'[c].said \in {call[c].said, <<>>}
               /\ call'[c].at = "new" => call[c].at = "new"
    <2>1. call'[c] = Recovered(call[c], at)
      BY DEF Restarts
    <2>2. call[c] \in CallRecord /\ Sound(call[c])
      BY DEF Shape, Sounds
    <2> QED BY <2>1, <2>2, RecoveredIsACall
  <1>2. ASSUME NEW r \in Request
        PROVE  /\ request'[r].at = "idle" <=> request[r].at = "idle"
               /\ request[r].at = "done" => request'[r].at = "done"
    <2>1. [NewRequest EXCEPT !.at = "done"].at = "done"
      BY DEF NewRequest
    <2>2. CASE request[r].at = "idle"
      BY <2>2 DEF Restarts
    <2>3. CASE request[r].at # "idle"
      <3>1. request'[r] = [NewRequest EXCEPT !.at = "done"]
        BY <2>3 DEF Restarts
      <3> QED BY <2>1, <2>3, <3>1
    <2> QED BY <2>2, <2>3
  <1>3. Quiet
    BY <1>1, <1>2 DEF Quiet
  <1> QED BY <1>3, QuietKeeps

\* The transcript of a job is read, never written.
LEMMA JobTurns ==
    ASSUME Shape, TurnsOnce, Unopened, NEW c \in Call,
           Ends(c) \/ Works(c) \/ (\E lands \in BOOLEAN : Retries(c, lands))
    PROVE  TurnsOnce' /\ Unopened'
  <1>1. call \in [Call -> CallRecord] /\ UNCHANGED request
    BY JobLeaves DEF Shape
  <1>2. PICK k : Moves(c, k)
    BY RollsStep, JobMoves DEF MovesOn
  <1>3. Quiet
    BY <1>1, <1>2 DEF Quiet, Moves
  <1> QED BY <1>3, QuietKeeps

LEMMA TurnsStay ==
    ASSUME Shape, TurnsOnce, Unopened, [Next]_vars
    PROVE  TurnsOnce' /\ Unopened'
  <1>1. CASE Clears \/ ClearFails \/ (\E t \in Time : Passes(t)) \/ UNCHANGED vars
    <2>1. call' = call /\ request' = request
      BY <1>1 DEF Clears, ClearFails, Passes, vars
    <2>2. Quiet
      BY <2>1 DEF Quiet
    <2> QED BY <2>2, QuietKeeps
  <1>2. ASSUME NEW at \in Resumption, Crash(at) \/ CrashClearing(at)
        PROVE  TurnsOnce' /\ Unopened'
    BY <1>2, RestartsTurns DEF Crash, CrashClearing
  <1> QED BY <1>1, <1>2, StartsTurns, SaysTurns, RepliesTurns, JobTurns DEF Next

\* What a step adds to the counts.
LEMMA Disturbs ==
    ASSUME [Next]_vars
    PROVE  /\ \/ UNCHANGED resumed
              \/ resumed < MaxResumed /\ resumed' = resumed + 1
           /\ \/ UNCHANGED clears
              \/ clears < MaxClear /\ clears' = clears + 1
  <1>1. ASSUME NEW c \in Call, NEW lands \in BOOLEAN, Retries(c, lands)
        PROVE  resumed < MaxResumed /\ resumed' = resumed + 1
    BY <1>1 DEF Retries
  <1>2. ASSUME NEW c \in Call,
               Ends(c) \/ Works(c) \/ (\E lands \in BOOLEAN : Retries(c, lands))
        PROVE  /\ UNCHANGED clears
               /\ \/ UNCHANGED resumed
                  \/ resumed < MaxResumed /\ resumed' = resumed + 1
    BY <1>1, <1>2, JobLeaves
  <1>3. ASSUME NEW c \in Call, NEW kind \in {"free", "story"}, NEW opening \in Opening,
               Starts(c, kind, opening)
        PROVE  UNCHANGED <<resumed, clears>>
    BY <1>3 DEF Starts, Kept
  <1>4. ASSUME NEW m \in Message, Says(m) PROVE UNCHANGED <<resumed, clears>>
    BY <1>4 DEF Says, Kept
  <1>5. ASSUME NEW r \in Request, Replies(r) PROVE UNCHANGED <<resumed, clears>>
    BY <1>5 DEF Replies, Answers, Fails, Exceeds, Searches, Registers, Found, Kept
  <1>6. CASE UNCHANGED vars \/ Clears \/ ClearFails \/ (\E t \in Time : Passes(t))
    BY <1>6 DEF vars, Clears, ClearFails, Passes
  <1>7. ASSUME NEW at \in Resumption, Crash(at) \/ CrashClearing(at)
        PROVE  /\ resumed < MaxResumed /\ resumed' = resumed + 1
               /\ \/ UNCHANGED clears
                  \/ clears < MaxClear /\ clears' = clears + 1
    BY <1>7 DEF Crash, CrashClearing, Restarts
  <1> QED BY <1>2, <1>3, <1>4, <1>5, <1>6, <1>7 DEF Next

\* The entries and rollups are of their kind, and the disturbances counted.
LEMMA MemoryStays ==
    ASSUME Shape, MemoryTyped, [Next]_vars PROVE MemoryTyped'
  <1>1. entries' \subseteq Entry
    BY DatedStays DEF Dated, MemoryTyped
  <1>2. rollups' \in [Period -> SUBSET Entry]
    <2>1. ASSUME NEW c \in Call, Rolls(c) \/ (\E lands \in BOOLEAN : RollFails(c, lands))
          PROVE  rollups' \in [Period -> SUBSET Entry]
      <3>1. PICK ps \in SUBSET Period : rollups' \in Rollup(entries, rollups, ps)
        BY <2>1, Rolled
      <3>2. \A p \in ps : rollups'[p] \in SUBSET Entry
        <4>1. \A p \in ps : rollups'[p] \in Digests(InPeriod(entries, p))
          BY <3>1, RollupMakes
        <4> QED BY <4>1 DEF Digests, InPeriod, MemoryTyped
      <3>3. \A p \in Period \ ps : rollups'[p] = rollups[p]
        BY <3>1, RollupMakes
      <3>4. rollups' = [p \in Period |-> rollups'[p]]
        BY <3>1 DEF Rollup
      <3>5. \A p \in Period : rollups'[p] \in SUBSET Entry
        BY <3>2, <3>3 DEF MemoryTyped
      <3> QED BY <3>4, <3>5
    <2>2. CASE Clears
      BY <2>2 DEF Clears, NoRollups
    <2>3. Forgets => Clears \/ UNCHANGED rollups
      BY DEF Forgets, ClearFails, CrashClearing, Restarts
    <2> QED BY <2>1, <2>2, <2>3, Steps DEF MemoryTyped, Untouched
  <1>3. resumed' \in 0..MaxResumed /\ clears' \in 0..MaxClear
    <2>1. /\ resumed \in 0..MaxResumed /\ clears \in 0..MaxClear
          /\ MaxResumed \in Nat /\ MaxClear \in Nat
      BY CallMemoryAssumption DEF MemoryTyped
    <2> QED BY <2>1, Disturbs
  <1>4. torn' \in BOOLEAN
    <2>1. Forgets => torn' \in BOOLEAN
      BY DEF Forgets, Clears, ClearFails, CrashClearing
    <2>2. UNCHANGED torn => torn' \in BOOLEAN
      BY DEF MemoryTyped
    <2> QED BY <2>1, <2>2, Steps DEF Untouched
  <1> QED BY <1>1, <1>2, <1>3, <1>4 DEF MemoryTyped

\* As many turns as there are different ones: two for each message, and the
\* agent's opening.
LEMMA TurnsCounted ==
    ASSUME IsFiniteSet(Message), Shape, TurnsOnce, NEW c \in Call
    PROVE  Len(call[c].said) <= 2 * Cardinality(Message) + 1
  <1> DEFINE s == call[c].said
             own == Message \X {"user", "assistant"}
             all == own \cup {<<c, "assistant">>}
  <1>1. s \in Seq(Turn) /\ Len(s) \in Nat /\ OnlyOnce(s)
        /\ \A i \in 1..Len(s) : Spoken(request, c, s[i])
    BY DEF Shape, CallRecord, Turn, TurnsOnce
  <1>2. s \in Injection(1..Len(s), all)
    <2>1. \A i \in 1..Len(s) : s[i] \in all
      <3>1. ASSUME NEW i \in 1..Len(s) PROVE s[i] \in all
        <4>1. s[i] \in Turn /\ Spoken(request, c, s[i])
          BY <1>1
        <4> QED BY <4>1 DEF Turn, Request, Spoken
      <3> QED BY <3>1
    <2>2. DOMAIN s = 1..Len(s)
      BY <1>1
    <2> HIDE DEF s, all
    <2>3. s \in [1..Len(s) -> all]
      BY <1>1, <2>1, <2>2
    <2> QED BY <1>1, <2>3 DEF OnlyOnce, Injection, IsInjective
  <1>3. /\ IsFiniteSet(own)
        /\ Cardinality(own) = Cardinality(Message) * 2
    <2>1. /\ IsFiniteSet({"user", "assistant"})
          /\ Cardinality({"user", "assistant"}) = 2
      <3> DEFINE one == {"user"}
      <3>1. IsFiniteSet(one) /\ Cardinality(one) = 1
        BY FS_Singleton
      <3>2. {"user", "assistant"} = one \cup {"assistant"} /\ "assistant" \notin one
        OBVIOUS
      <3> HIDE DEF one
      <3>3. /\ IsFiniteSet(one \cup {"assistant"})
            /\ Cardinality(one \cup {"assistant"}) = Cardinality(one) + 1
        BY <3>1, <3>2, FS_AddElement
      <3> QED BY <3>1, <3>2, <3>3
    <2> QED BY <2>1, FS_Product
  <1>4. Cardinality(Message) \in Nat
    BY FS_CardinalityType
  <1>5. IsFiniteSet(all) /\ Cardinality(all) <= 2 * Cardinality(Message) + 1
    <2>1. /\ IsFiniteSet(all)
          /\ Cardinality(all) = IF <<c, "assistant">> \in own
                                THEN Cardinality(own) ELSE Cardinality(own) + 1
      <3> HIDE DEF own
      <3> QED BY <1>3, FS_AddElement
    <2> HIDE DEF own, all
    <2> QED BY <1>3, <1>4, <2>1
  <1>6. /\ Cardinality(1..Len(s)) <= Cardinality(all)
        /\ Cardinality(1..Len(s)) = Len(s)
    <2> HIDE DEF s, all
    <2>1. Cardinality(1..Len(s)) = IF 1 > Len(s) THEN 0 ELSE Len(s) - 1 + 1
      BY <1>1, FS_Interval
    <2> QED BY <1>1, <1>2, <1>5, <2>1, FS_Injection
  <1>7. Cardinality(all) \in Nat
    BY <1>5, FS_CardinalityType
  <1> HIDE DEF s, all
  <1>8. Len(s) <= 2 * Cardinality(Message) + 1
    BY <1>1, <1>4, <1>5, <1>6, <1>7
  <1> QED BY <1>8 DEF s

\* Every variable keeps a value of its kind, for any calls, rounds, periods and
\* limits; of finitely many messages a transcript has each one and its answer
\* once at most, beside the opening, whatever requests race, fail or are cut
\* off by a restart (recordChatTurn).
THEOREM MemoryTypeCorrect ==
    ASSUME IsFiniteSet(Message) PROVE Spec => []TypeOK
  <1>1. Init => TurnsOnce /\ Unopened /\ MemoryTyped
    <2> SUFFICES ASSUME Init PROVE TurnsOnce /\ Unopened /\ MemoryTyped
      OBVIOUS
    <2>1. TurnsOnce /\ Unopened
      BY DEF Init, TurnsOnce, Unopened, OnlyOnce, NewCall, NewRequest, Request
    <2>2. MemoryTyped
      <3>1. rollups \in [Period -> SUBSET Entry] /\ entries \subseteq Entry
        BY DEF Init, NoRollups
      <3>2. MaxResumed \in Nat /\ MaxClear \in Nat /\ resumed = 0 /\ clears = 0
        BY CallMemoryAssumption DEF Init
      <3>3. resumed \in 0..MaxResumed /\ clears \in 0..MaxClear
        BY ONLY <3>2
      <3>4. torn \in BOOLEAN
        BY DEF Init
      <3> QED BY <3>1, <3>3, <3>4 DEF MemoryTyped
    <2> QED BY <2>1, <2>2
  <1>2. Shape /\ TurnsOnce /\ Unopened /\ MemoryTyped /\ [Next]_vars
            => TurnsOnce' /\ Unopened' /\ MemoryTyped'
    BY TurnsStay, MemoryStays
  <1>3. Shape /\ TurnsOnce /\ MemoryTyped => TypeOK
    BY TurnsCounted DEF TypeOK, Shape, MemoryTyped
  <1> QED BY <1>1, <1>2, <1>3, ShapeHolds, PTL DEF Spec

=============================================================================
