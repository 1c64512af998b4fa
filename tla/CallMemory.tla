------------------------------ MODULE CallMemory ------------------------------
(***************************************************************************)
(* From what is said in a call to what the agent remembers of it: the      *)
(* calls of ONE user with ONE agent, the requests that speak in them with  *)
(* the model's replies and tools, and the memory and rollup phases of the  *)
(* post-call job, over the memory port.                                    *)
(*                                                                         *)
(* call[c].at is where a call is:                                          *)
(*   in_call     the call goes on                                          *)
(*   aborting    no exit matched: endCall commits the memory itself        *)
(*   ended       the job is committed, and an attempt of it begins         *)
(*   marking     that the memory phase begins is written                   *)
(*   extracting  the memory phase asks the model what was said             *)
(*   noting      what became of it is written                              *)
(*   rolling     the rollup phase                                          *)
(*   stopped     the job failed and may be retried                         *)
(*   stuck       nothing works on the job, and nobody may retry it         *)
(*   done        the other phases are left to do, or nothing               *)
(* The steps of endCall, the other phases and double hang-ups are in       *)
(* EngineHost.  A write of the job's record may reject: the job in memory  *)
(* is changed before it, the record on the disk is not.                    *)
(***************************************************************************)
EXTENDS Memory, Sequences

CONSTANTS
    Message,    \* the user's messages
    SaidIn,     \* the call a message is for
    Exit,       \* the exits that tools may register
    Opening,    \* the openings considered: none, a line, the model, a playback
    Words,      \* the summary made without the model
    MaxRounds,  \* MAX_TOOL_ROUNDS
    MaxResumed, \* bound on restarts and retries
    MaxClear    \* bound on clearings of the memory

\* A request speaks for the user or, in the name of its call, opens the call.
Request == Message \cup Call

In(r) == IF r \in Call THEN r ELSE SaidIn[r]

ASSUME CallMemoryAssumption ==
    /\ Words \in Text /\ Message \cap Call = {}
    /\ SaidIn \in [Message -> Call]
    /\ Opening \subseteq {"none", "line", "model", "playback"}
    /\ MaxRounds \in Nat /\ MaxResumed \in Nat /\ MaxClear \in Nat

VARIABLES
    call,       \* the sessions and their post-call jobs
    request,    \* the requests
    entries,    \* memory_entries
    rollups,    \* memory_rollups
    now,        \* the time
    resumed,    \* number of restarts and retries so far
    clears,     \* number of clearings so far
    torn        \* of a clearing only the first statement was done

vars == <<call, request, entries, rollups, now, resumed, clears, torn>>

At == {"new", "in_call", "aborting", "ended", "marking", "extracting", "noting",
       "rolling", "stopped", "stuck", "done"}

\* The job's steps: what became of them, nothing yet while they are pending.
MemoryStep == {"pending", "written", "worthless", "refused", "failed"}
RollupStep == {"pending", "failed"}

\* client: who knows the session: "starting" its start is not answered yet,
\* "knows" the client has it, "lost" the start ended in an error.
\* said, promised and traced are the session's chatTurns, exitCandidates and
\* toolTrace; memory and rollup are the job's steps, since the time of its
\* attempt, and whole that the attempt began with the memory phase.
\* record: what the disk has of the job: "none", "closing" a job whose sync stage
\* is not committed, "open" one that a restart resumes with the steps in kept.
CallRecord ==
    [at : At, kind : {"free", "story"}, client : {"starting", "knows", "lost"},
     early : BOOLEAN, said : Seq(Request \X {"user", "assistant"}),
     promised : SUBSET Exit, traced : Nat,
     memory : MemoryStep, rollup : RollupStep,
     record : {"none", "closing", "open"}, kept : MemoryStep \X RollupStep,
     since : Time, whole : BOOLEAN]

NewCall == [at |-> "new", kind |-> "free", client |-> "starting",
            early |-> FALSE, said |-> <<>>, promised |-> {}, traced |-> 0,
            memory |-> "pending", rollup |-> "pending",
            record |-> "none", kept |-> <<"pending", "pending">>,
            since |-> Start, whole |-> FALSE]

RequestRecord == [at : {"idle", "asking", "searching", "done"},
                  round : 0..MaxRounds]

\* A session whose job is over is read no more.
Over(k) == [NewCall EXCEPT !.at = "done", !.since = k.since, !.whole = k.whole]

NewRequest == [at |-> "idle", round |-> 0]

TypeOK ==
    /\ call \in [Call -> CallRecord]
    /\ request \in [Request -> RequestRecord]
    /\ \A c \in Call : Len(call[c].said) <= 2 * Cardinality(Message) + 1
    /\ entries \subseteq Entry
    /\ rollups \in [Period -> SUBSET Entry]
    /\ now \in Time /\ resumed \in 0..MaxResumed /\ clears \in 0..MaxClear
    /\ torn \in BOOLEAN

Init ==
    /\ call = [c \in Call |-> NewCall]
    /\ request = [r \in Request |-> NewRequest]
    /\ entries = {} /\ rollups = NoRollups
    /\ now = Start /\ resumed = 0 /\ clears = 0 /\ torn = FALSE

Kept == UNCHANGED <<entries, rollups, now, resumed, clears, torn>>

-----------------------------------------------------------------------------
(* The call *)

\* A call that goes on, or a job that is not over, keeps the agent from the
\* next call (ACTIVE_POST_CALL_STATUSES).
Free == \A d \in Call : call[d].at \in {"new", "done"}

\* startDebuggerCallSession, acceptDebuggerIncomingCall: beginCall, then the
\* opening turn: none, a line of the card, the model's, or none since the card
\* only plays back and the start ends in an error.
Starts(c, kind, opening) ==
    /\ call[c].at = "new" /\ Free
    /\ call' = [call EXCEPT ![c] =
         [NewCall EXCEPT !.at = "in_call", !.kind = kind,
            !.client = CASE opening = "model" -> "starting"
                         [] opening = "playback" -> "lost"
                         [] OTHER -> "knows",
            !.said = IF opening = "line" THEN <<<<c, "assistant">>>> ELSE <<>>]]
    /\ request' = IF opening = "model"
                  THEN [request EXCEPT ![c].at = "asking"]
                  ELSE request
    /\ Kept

\* sendDebuggerCallMessage: the user's turn is recorded, the model is asked.
Says(m) ==
    LET c == SaidIn[m] IN
    /\ request[m].at = "idle"
    /\ call[c].at = "in_call" /\ call[c].client = "knows"
    /\ call' = [call EXCEPT ![c].said = Append(@, <<m, "user">>)]
    /\ request' = [request EXCEPT ![m].at = "asking"]
    /\ Kept

\* Variant: a request may be made again.
DoneAgain(r) == [request EXCEPT ![r] = NewRequest]

Done(r) == [request EXCEPT ![r] = NewRequest, ![r].at = "done"]

\* The start that waited for the opening is answered, with an error or not.
Told(calls, r, ok) ==
    IF r \in Call THEN [calls EXCEPT ![r].client = IF ok THEN "knows" ELSE "lost"]
    ELSE calls

\* Variant: the turn is put into the session that the request holds.
AnswersHeld(r) ==
    LET c == In(r) IN
    /\ request[r].at = "asking"
    /\ call' = Told([call EXCEPT ![c].said = Append(@, <<r, "assistant">>)], r, TRUE)
    /\ request' = Done(r)
    /\ Kept

\* The model answers with a text: recordChatTurn takes it while the call goes
\* on, and is refused after that.
Answers(r) ==
    LET c == In(r)
        taken == [call EXCEPT ![c].said = Append(@, <<r, "assistant">>)]
    IN
    /\ request[r].at = "asking"
    /\ call' = IF call[c].at = "in_call" THEN Told(taken, r, TRUE)
               ELSE Told(call, r, FALSE)
    /\ request' = Done(r)
    /\ Kept

\* The model fails.
Fails(r) ==
    /\ request[r].at = "asking"
    /\ call' = Told(call, r, FALSE)
    /\ request' = Done(r)
    /\ Kept

\* Variant: the rounds are not counted.
RoundsUncounted(r) == [request EXCEPT ![r].at = "asking"]

\* The model is asked once more.
NextRound(r) == [request EXCEPT ![r].at = "asking", ![r].round = @ + 1]

\* The model wants tools once too often.
Exceeds(r) ==
    /\ request[r].at = "asking" /\ request[r].round = MaxRounds
    /\ call' = Told(call, r, FALSE)
    /\ request' = Done(r)
    /\ Kept

\* register_exit: a candidate that is there already is refused, and so is every
\* tool of a call that is over; the model hears of it.
Registers(r, x) ==
    LET c == In(r) IN
    /\ request[r].at = "asking" /\ request[r].round < MaxRounds
    /\ call' = IF call[c].at = "in_call" /\ x \notin call[c].promised
               THEN [call EXCEPT ![c].promised = @ \cup {x}, ![c].traced = @ + 1]
               ELSE call
    /\ request' = NextRound(r)
    /\ Kept

\* search_memory, get_memory_by_id: the port is asked, if the call goes on.
Searches(r) ==
    /\ request[r].at = "asking" /\ request[r].round < MaxRounds
    /\ request' = IF call[In(r)].at = "in_call"
                  THEN [request EXCEPT ![r].at = "searching"] ELSE NextRound(r)
    /\ UNCHANGED call /\ Kept

\* The port answers: that is traced in the session, whatever became of the call,
\* unless the port failed.
Found(r, ok) ==
    /\ request[r].at = "searching"
    /\ request' = NextRound(r)
    /\ call' = IF ok /\ call[In(r)].at # "done"
               THEN [call EXCEPT ![In(r)].traced = @ + 1] ELSE call
    /\ Kept

Hanging(c) == call[c].at = "in_call" /\ call[c].client = "knows"

\* endDebuggerCallSession, and endCall up to the committed job.
HangUp(c, early) ==
    /\ Hanging(c)
    /\ call' = [call EXCEPT ![c].at = "ended", ![c].early = early,
                           ![c].record = "open"]
    /\ UNCHANGED request /\ Kept

\* The sync plan is aborted, or a write of endCall rejects: the job that stays,
\* closing or failed without syncCommitted, keeps the agent, and nobody works on
\* it.  A restart resumes it only if the last of the writes is the one that fails.
HangUpFails(c, record) ==
    /\ Hanging(c)
    /\ call' = [call EXCEPT ![c].at = "stuck", ![c].record = record]
    /\ UNCHANGED request /\ Kept

UserSpoke(c) == \E i \in 1..Len(call[c].said) : call[c].said[i][2] = "user"

\* No exit of the story card matches (abortStoryNoExit): no job is made.
Aborts(c) ==
    /\ Hanging(c) /\ call[c].kind = "story"
    /\ call' = [call EXCEPT ![c] =
         IF UserSpoke(c) THEN [@ EXCEPT !.at = "aborting", !.since = now]
         ELSE Over(@)]
    /\ UNCHANGED request /\ Kept

-----------------------------------------------------------------------------
(* The memory and rollup phases of the job *)

Most(m, n) == IF m > n THEN m ELSE n

\* Variant: three turns are asked for.
GateOfThree(c) ==
    /\ UserSpoke(c)
    /\ \/ call[c].kind = "story"
       \/ Most(Len(call[c].said), call[c].traced) > 2
       \/ ~call[c].early
       \/ call[c].promised # {}

\* What a call is worth: the user spoke and, in a Free call, there are two turns
\* or traces, an exit was registered, or it was not hung up early.
Gate(c) ==
    /\ UserSpoke(c)
    /\ \/ call[c].kind = "story"
       \/ Most(Len(call[c].said), call[c].traced) >= 2
       \/ ~call[c].early
       \/ call[c].promised # {}

\* The job has failed.  The record of that, written whole, lands or rejects too.
Stopped(k, lands) ==
    [k EXCEPT !.at = "stopped",
              !.kept = IF lands THEN <<k.memory, k.rollup>> ELSE @]

\* An attempt begins.  A phase that is done is not done again, nor is one whose
\* step says failed: only a retry takes that back.
JobStarts(c) ==
    /\ call[c].at = "ended"
    /\ call' = [call EXCEPT ![c].since = now,
          ![c].at = IF call[c].memory = "pending" THEN "marking" ELSE "rolling",
          ![c].whole = call[c].memory = "pending"]
    /\ UNCHANGED request /\ Kept

\* The beginning of the memory phase is written.
Marks(c) ==
    /\ call[c].at = "marking"
    /\ call' = [call EXCEPT
          ![c].at = IF Gate(c) THEN "extracting" ELSE "noting",
          ![c].memory = IF Gate(c) THEN @ ELSE "worthless"]
    /\ UNCHANGED request /\ Kept

\* It is not, or the profile is not loaded: the attempt ends before anything else,
\* with the step as it is.
MarkFails(c, lands) ==
    /\ call[c].at \in {"ended", "marking"}
    /\ call' = [call EXCEPT ![c] = Stopped(@, lands)]
    /\ UNCHANGED request /\ Kept

\* The model's summary and vignettes are committed, or the words alone when the
\* model failed.
Commits(c, text, tales) ==
    /\ call[c].at \in {"extracting", "aborting"}
    /\ text = Words => tales = {}
    /\ entries' = Insert(entries, Said(c, text, tales, call[c].since))
    /\ call' = [call EXCEPT ![c] =
         IF @.at = "aborting" THEN Over(@)
         ELSE [@ EXCEPT !.at = "noting", !.memory = "written"]]
    /\ UNCHANGED <<request, rollups, now, resumed, clears, torn>>

\* The transaction fails: the commit is not ok, which counts as skipped.
Refuses(c) ==
    /\ call[c].at = "extracting"
    /\ call' = [call EXCEPT ![c].at = "noting", ![c].memory = "refused"]
    /\ UNCHANGED request /\ Kept

\* The commit throws.
CommitFails(c, lands) ==
    /\ call[c].at = "extracting"
    /\ call' = [call EXCEPT ![c] = Stopped([@ EXCEPT !.memory = "failed"], lands)]
    /\ UNCHANGED request /\ Kept

\* Without a job either is a line of the log.
AbortFails(c) ==
    /\ call[c].at = "aborting"
    /\ call' = [call EXCEPT ![c] = Over(@)]
    /\ UNCHANGED request /\ Kept

\* The step is written.
Notes(c) ==
    /\ call[c].at = "noting"
    /\ call' = [call EXCEPT ![c].at = "rolling",
                           ![c].kept = <<call[c].memory, call[c].rollup>>]
    /\ UNCHANGED request /\ Kept

\* It is not: the catch of a Free call takes that for a failed commit, for a
\* story call the step stays what it is in memory.
NoteFails(c, lands) ==
    /\ call[c].at = "noting"
    /\ call' = [call EXCEPT ![c] =
         Stopped(IF @.kind = "free" THEN [@ EXCEPT !.memory = "failed"] ELSE @, lands)]
    /\ UNCHANGED request /\ Kept

\* The beginning is written, the rollups are made, and the step is written.
Rolls(c) ==
    /\ call[c].at = "rolling" /\ call[c].rollup = "pending"
    /\ rollups' \in Rollup(entries, rollups, Due(entries, rollups, call[c].since))
    /\ call' = [call EXCEPT ![c] = Over(@)]
    /\ UNCHANGED <<request, entries, now, resumed, clears, torn>>

\* A rollup that failed before the restart is left out.
SkipsRollup(c) ==
    /\ call[c].at = "rolling" /\ call[c].rollup = "failed"
    /\ call' = [call EXCEPT ![c] = Over([@ EXCEPT !.whole = FALSE])]
    /\ UNCHANGED request /\ Kept

\* The first write rejects: the step is running when the job stops.
RollMarkFails(c, lands) ==
    /\ call[c].at = "rolling" /\ call[c].rollup = "pending"
    /\ call' = [call EXCEPT ![c] = Stopped(@, lands)]
    /\ UNCHANGED request /\ Kept

\* The port fails, with some of the periods made, or the second write rejects.
RollFails(c, lands) ==
    /\ call[c].at = "rolling" /\ call[c].rollup = "pending"
    /\ \E ps \in Firsts(Due(entries, rollups, call[c].since), call[c].since) :
          rollups' \in Rollup(entries, rollups, ps)
    /\ call' = [call EXCEPT ![c] = Stopped([@ EXCEPT !.rollup = "failed"], lands)]
    /\ UNCHANGED <<request, entries, now, resumed, clears, torn>>

\* retryPostCallJob: what failed is pending again, unless that cannot be written.
Retries(c, lands) ==
    /\ resumed < MaxResumed /\ resumed' = resumed + 1
    /\ call[c].at = "stopped"
    /\ LET again == [call[c] EXCEPT !.rollup = "pending",
                      !.memory = IF @ = "failed" THEN "pending" ELSE @]
       IN  call' = [call EXCEPT ![c] =
             IF lands THEN [again EXCEPT !.at = "ended",
                              !.kept = <<again.memory, "pending">>]
             ELSE [again EXCEPT !.at = "stuck"]]
    /\ UNCHANGED <<request, entries, rollups, now, clears, torn>>

-----------------------------------------------------------------------------
(* Around *)

Passes(t) ==
    /\ t > now /\ now' = t
    /\ UNCHANGED <<call, request, entries, rollups, resumed, clears, torn>>

\* Variant: the rollups stay.
ClearsEntries ==
    /\ clears < MaxClear /\ clears' = clears + 1
    /\ entries' = {} /\ torn' = FALSE
    /\ UNCHANGED <<call, request, rollups, now, resumed>>

\* clearAgentMemoryForUser: one statement for the entries, one for the rollups.
Clears ==
    /\ clears < MaxClear /\ clears' = clears + 1
    /\ entries' = {} /\ rollups' = NoRollups /\ torn' = FALSE
    /\ UNCHANGED <<call, request, now, resumed>>

\* The second of them fails.
ClearFails ==
    /\ clears < MaxClear /\ clears' = clears + 1
    /\ entries' = {} /\ torn' = TRUE
    /\ UNCHANGED <<call, request, rollups, now, resumed>>

\* What the recovery may make of a job.
Resumption == {"ended", "stopped", "stuck"}

\* What a restart makes of a call: sessions are gone, and a job is resumed where
\* its record is, or has failed since the profile is not loaded, or stays since the
\* write that it is pending rejects; without its sync stage it is not resumed.
Recovered(k, at) ==
    CASE k.at \in {"new", "done"} -> k
      [] k.at \notin {"new", "done"} /\ k.record = "none" -> Over(k)
      [] k.at \notin {"new", "done"} /\ k.record = "closing" ->
           [k EXCEPT !.at = "stuck"]
      [] k.at \notin {"new", "done"} /\ k.record = "open" ->
           [k EXCEPT !.at = at, !.memory = k.kept[1], !.rollup = k.kept[2]]

Restarts(at) ==
    /\ resumed < MaxResumed /\ resumed' = resumed + 1
    /\ call' = [c \in Call |-> Recovered(call[c], at)]
    /\ request' = [r \in Request |->
         IF request[r].at = "idle" THEN request[r] ELSE [NewRequest EXCEPT !.at = "done"]]
    /\ UNCHANGED <<rollups, now>>

\* The process restarts, bootEngineHost.
Crash(at) == Restarts(at) /\ UNCHANGED <<entries, clears, torn>>

\* It does so between the two statements of a clearing.
CrashClearing(at) ==
    /\ clears < MaxClear /\ clears' = clears + 1
    /\ entries' = {} /\ torn' = TRUE
    /\ Restarts(at)

Replies(r) ==
    \/ Answers(r) \/ Fails(r) \/ Exceeds(r) \/ Searches(r)
    \/ \E x \in Exit : Registers(r, x)
    \/ \E ok \in BOOLEAN : Found(r, ok)

\* What the process does by itself with a call that is hung up.
Works(c) ==
    \/ JobStarts(c) \/ Marks(c) \/ Refuses(c) \/ AbortFails(c) \/ Notes(c)
    \/ Rolls(c) \/ SkipsRollup(c)
    \/ \E text \in Text, tales \in SUBSET Tale : Commits(c, text, tales)
    \/ \E lands \in BOOLEAN :
          \/ MarkFails(c, lands) \/ CommitFails(c, lands) \/ NoteFails(c, lands)
          \/ RollMarkFails(c, lands) \/ RollFails(c, lands)

Ends(c) ==
    \/ \E early \in BOOLEAN : HangUp(c, early)
    \/ \E record \in {"none", "closing", "open"} : HangUpFails(c, record)
    \/ Aborts(c)

Next ==
    \/ \E c \in Call :
          \/ \E kind \in {"free", "story"}, opening \in Opening :
                Starts(c, kind, opening)
          \/ Ends(c) \/ Works(c)
          \/ \E lands \in BOOLEAN : Retries(c, lands)
    \/ \E m \in Message : Says(m)
    \/ \E r \in Request : Replies(r)
    \/ \E t \in Time : Passes(t)
    \/ Clears \/ ClearFails
    \/ \E at \in Resumption : Crash(at) \/ CrashClearing(at)

Spec == Init /\ [][Next]_vars

\* The model and the port answer or fail, and the event loop goes on.  Nobody
\* has to speak, to hang up or to retry.
Fairness ==
    /\ \A r \in Request : WF_vars(Replies(r))
    /\ \A c \in Call : WF_vars(Works(c))

FairSpec == Spec /\ Fairness

-----------------------------------------------------------------------------
(* What the memory of calls promises *)

\* Nothing is said or promised in a call that is over: a reply or a tool of a
\* model that was still thinking at the hang-up changes neither the transcript
\* that the job commits nor the candidates its exit was chosen from
\* (recordChatTurn, invokeTool).
NothingAfterHangUp ==
    [][\A c \in Call : call[c].at \notin {"new", "in_call"} /\ call'[c].at # "done" =>
          /\ call'[c].said = call[c].said
          /\ call'[c].promised = call[c].promised]_vars

\* "By content hash idempotent": however often a job is retried, and at whatever
\* time, a call does not say the same thing twice (insertEntry).
SameTextOnce ==
    \A e, f \in entries :
        <<e.call, e.kind, e.text>> = <<f.call, f.kind, f.text>> => e = f

\* A rollup tells of entries that are there and of its period, unless the second
\* statement of a clearing failed or a restart came before it (rollupIfNeeded,
\* clearMemoryEntriesForAgent).
RollupsReal ==
    torn \/ \A p \in Period : rollups[p] \subseteq InPeriod(entries, p)

\* What a call left whose memory and rollup phases ran in one attempt is in the
\* rollups of its month and quarter, unless what is not newer takes all the place
\* of Fits snippets there: only for older entries does the cut of the text leave an
\* entry out, whatever other calls and retries come later, in this period or the
\* next (rollupIfNeeded, buildExtractiveRollupSummary).
RollupsCover ==
    \A e \in entries : \A p \in Period :
        /\ Within(p, e.at)
        /\ call[e.call].at = "done" /\ call[e.call].whole
        /\ call[e.call].since = e.at
        => \/ e \in rollups[p]
           \/ Cardinality({f \in rollups[p] : f.at <= e.at}) >= Fits

\* A request gets its end, however often the model asks for tools: time and
\* again nobody waits for the model (requestDebuggerAssistantWithTools).
RequestsEnd == []<>(\A r \in Request : request[r].at \in {"idle", "done"})

\* Once a job is committed and an attempt of it begins, at the hang-up, a retry or
\* the recovery, what the user said and was answered is remembered, or it can be
\* seen that it is not: the job has failed or stands still, its step says that
\* the port refused it or that it failed, or the memory was cleared.
TalkRemembered ==
    \A c \in Call :
        /\ call[c].at = "ended" /\ UserSpoke(c)
        /\ call[c].kind = "story" \/ Len(call[c].said) > 1
        ~> \/ \E e \in entries : e.call = c
           \/ clears > 0
           \/ call[c].at \in {"stopped", "stuck"}
           \/ call[c].memory \in {"refused", "failed"}

=============================================================================
