------------------------------ MODULE HostState ------------------------------
(***************************************************************************)
(* The state of one EngineHost (createEngineHost) as seen for ONE user,    *)
(* with the two durable things behind it: the PostCallJob store and the    *)
(* profile file.  A process of the model is a suspended async call: an     *)
(* endCall, a background job, a retry, the boot recovery.  An action is    *)
(* the completion of the await the process sleeps on, with everything the  *)
(* code then does up to its next await.                                    *)
(***************************************************************************)
EXTENDS Naturals, Sequences, FiniteSets

CONSTANTS
    Session,    \* the calls placed by the user
    Job,        \* the endCall invocations (each builds one PostCallJob)
    None,       \* no session, no job, no exit
    Agent,      \* the characters that can be called
    AgentOf,    \* the agent each call is with
    Story,      \* the calls that are story calls; the others are Free
    Exit,       \* the exits of a card
    WithMedia,  \* the exits with media effects
    Env,        \* what the environment may do, a subset of Behaviour
    MaxCrash    \* bound on process restarts

\* The named freedoms of the environment that a run can switch on.
Behaviour ==
    {"overlap",     \* a second beginCall while one is composing its prompt
     "double_end",  \* endCall of a call that is already ending
     "no_exit",     \* a story outcome that matches no exit
     "other_exit",  \* the hang-ups of one call select different exits
     "no_rollup",   \* a memory port without rollupIfNeeded
     "compose", "sync", "memory", "rollup", "sink", "voicemail",
                    \* the failure of that stage
     "save",        \* writeProfile rejects
     "store",       \* a PostCallJobStore write rejects
     "retry",       \* the user calls retryPostCallJob
     "crash"}       \* the server process restarts

ASSUME HostAssumption ==
    /\ None \notin Session \cup Job \cup Exit
    /\ Story \subseteq Session
    /\ WithMedia \subseteq Exit
    /\ AgentOf \in [Session -> Agent]
    /\ Env \subseteq Behaviour
    /\ MaxCrash \in Nat

VARIABLES
    call,       \* CallSession.status of every call, grouped
    active,     \* activeByUser: the session of the user's active call
    end,        \* each endCall: where it is suspended, its session, its plan
    bg,         \* each background job: where it is suspended, its phase
    retrying,   \* the number of retryPostCallJob suspended for each job
    recov,      \* recoverPostCallJobs: jobs still to visit, the one awaited
    mem,        \* postCallJobs: the host's map of jobs
    disk,       \* the jobs in post-call-jobs.json
    queue,      \* the store's write chain: each write with its caller
    chain,      \* profileWriteChains of the user
    loaded,     \* the user's profile is in the host's cache
    profile,    \* the effects the cached profile holds
    saved,      \* the effects profile.save.json holds
    saves,      \* the profile file's queue of writes
    session,    \* the sessions in memory: selectedExit and effectLedger
    snapshot,   \* the sessions inside the persisted jobs
    applied,    \* history: how often an exit's sync effects were applied
    played,     \* history: how often its media effects were accepted
    crashes     \* number of restarts so far

callVars  == <<call, active, end>>
jobVars   == <<bg, retrying, recov, mem>>
storeVars == <<disk, queue, snapshot>>
profVars  == <<chain, loaded, profile, saved, saves>>
fxVars    == <<session, applied, played>>
vars == <<callVars, jobVars, storeVars, profVars, fxVars, crashes>>

-----------------------------------------------------------------------------
(* The PostCallJob record.  A step that is "skipped" counts as finished in *)
(* every guard of the code, so done and skipped are one value here.        *)

Step == {"memory", "rollup", "media", "voicemail"}

Order == [memory |-> 1, rollup |-> 2, media |-> 3, voicemail |-> 4]

RunningStatus == [memory |-> "memory_committing", rollup |-> "rollup_running",
                  media |-> "media_running", voicemail |-> "voicemail_running"]

Running == {"memory_committing", "rollup_running", "media_running",
            "voicemail_running"}

\* Statuses for which beginCall answers AGENT_POST_CALL_BUSY.
ActiveStatus ==
    {"closing", "committed", "background_pending", "failed_retryable"}
        \cup Running

Terminal == {"completed", "completed_with_errors"}

\* Statuses the store puts back to background_pending at boot.
Reclaimed == {"closing", "committed"} \cup Running

StepState == {"pending", "running", "finished", "failed"}

JobRecord ==
    [status : ActiveStatus \cup Terminal \cup {"absent"},
     steps : [Step -> StepState], committed : BOOLEAN, errors : BOOLEAN]

\* buildBackgroundSteps: the media step of an exit without media is skipped.
NewSteps(deferred) ==
    [p \in Step |-> IF p = "media" /\ ~deferred THEN "finished" ELSE "pending"]

Rec(status, steps, committed, errors) ==
    [status |-> status, steps |-> steps, committed |-> committed,
     errors |-> errors]

Absent == Rec("absent", NewSteps(FALSE), FALSE, FALSE)

\* buildClosingJob.
Closing(deferred) == Rec("closing", NewSteps(deferred), FALSE, FALSE)

WithStatus(r, status) == [r EXCEPT !.status = status]

WithStep(r, p, x) == [r EXCEPT !.steps[p] = x]

\* Variant: a failed phase closes the job at once.
FailedAsClosed(r) == [r EXCEPT !.status = "completed_with_errors",
                               !.errors = TRUE]

\* failed_retryable with one more entry in failedSteps.
Failed(r) == [r EXCEPT !.status = "failed_retryable", !.errors = TRUE]

-----------------------------------------------------------------------------
(* Effects.  One sync and one media effect stand for any of those of an    *)
(* exit: <<s, x, kind>> is that effect of exit x when call s is hung up.   *)
(* Another one of the same list may fail when this one does not.           *)

Kind == {"sync", "media"}

Choice == Exit \cup {None}

Effect == Session \X Choice \X Kind

\* A key of effectLedger: the session's selectedExit at that time, and the
\* effect, which is one of the exit the endCall selected.
Entry == Choice \X Choice \X Kind

CallSession == [exit : Choice, ledger : SUBSET Entry]

NewSession == [exit |-> None, ledger |-> {}]

\* The exit of an endCall is the one it selected, None before that.
EffectOf(j, kind) == <<end[j].sess, end[j].exit, kind>>

\* ledgerKey
Key(j, kind) == <<session[end[j].sess].exit, end[j].exit, kind>>

\* The effect is executed: it has its entry in the ledger, and is counted
\* (no further than two).
Executed(j, key) ==
    session' = [session EXCEPT ![end[j].sess].ledger = @ \cup {key}]

Bump(count, j) == [count EXCEPT ![<<end[j].sess, end[j].exit>>] =
                      IF @ = 2 THEN 2 ELSE @ + 1]

-----------------------------------------------------------------------------
(* The job store: setPostCallJob assigns the map and queues a write of the *)
(* whole record; the file's writes run one at a time in that order.        *)

Who == {"end", "bg", "retry", "recover"}

StoreWrite == [who : Who, job : Job, rec : JobRecord, op : {"update", "create"}]

Write(who, j, r) == [who |-> who, job |-> j, rec |-> r, op |-> "update"]

\* Variant: the record as it was is mirrored, not the new one.
SetMirrorsOld(who, j, r, q) ==
    /\ mem' = [mem EXCEPT ![j] = r]
    /\ queue' = Append(q, Write(who, j, IF mem[j] = Absent THEN r ELSE mem[j]))

\* setPostCallJob(j, r), issued by `who' when the queue holds q.
Set(who, j, r, q) ==
    /\ mem' = [mem EXCEPT ![j] = r]
    /\ queue' = Append(q, Write(who, j, r))

\* Variant: only the same jobId counts as a duplicate.
KnownById(j) == disk[j].status # "absent"

\* The store holds a job of this call (createJob then writes nothing).
Known(j) == \E k \in Job : /\ disk[k].status # "absent"
                           /\ end[k].sess = end[j].sess

\* updateJob finds no such job: mirrorPostCallJob goes on to createJob.
Missing(w) == w.op = "update" /\ disk[w.job].status = "absent"

NextWrite(who, j) == /\ queue # <<>>
                     /\ Head(queue).who = who
                     /\ Head(queue).job = j

\* createJob finds a job of this call and writes nothing.
Duplicate(w) == w.op = "create" /\ Known(w.job)

\* The write that `who' awaits for j reaches the file.
Landed(who, j) ==
    /\ NextWrite(who, j)
    /\ ~Missing(Head(queue))
    /\ IF Duplicate(Head(queue))
       THEN UNCHANGED <<disk, snapshot>>
       ELSE /\ disk' = [disk EXCEPT ![j] = Head(queue).rec]
            /\ snapshot' = [snapshot EXCEPT ![end[j].sess] =
                                 session[end[j].sess]]

\* The write that `who' awaits for j rejects; the file is as before.
Broken(who, j) ==
    /\ "store" \in Env
    /\ NextWrite(who, j)
    /\ ~Missing(Head(queue)) /\ ~Duplicate(Head(queue))
    /\ UNCHANGED <<disk, snapshot>>

\* updateJob returned null, createJob joins the end of the queue.
CreateMissing ==
    /\ queue # <<>>
    /\ Missing(Head(queue))
    /\ queue' = Append(Tail(queue), [Head(queue) EXCEPT !.op = "create"])
    /\ UNCHANGED <<callVars, jobVars, disk, snapshot, profVars, fxVars, crashes>>

-----------------------------------------------------------------------------
(* The profile: enqueueProfileWrite runs one function of a user at a time; *)
(* the file adapter writes the file in the order the saves were issued.    *)

Process == [who : Who, job : Job]

ProfileSave == [who : Who, job : Job, content : SUBSET Effect]

Proc(who, j) == [who |-> who, job |-> j]

\* Variant: the chain does not make a function wait for the ones before it.
HoldsAnywhere(who, j) == \E i \in 1..Len(chain) : chain[i] = Proc(who, j)

\* The function that `who' queued for j is the one running.
Holds(who, j) == chain # <<>> /\ Head(chain) = Proc(who, j)

\* The function settles and the next one of the chain may run.
Release(who, j) ==
    IF Holds(who, j) THEN chain' = Tail(chain) ELSE UNCHANGED chain

\* Variant: the save writes a copy of the profile made before the effects.
IssueOldSave(who, j, content) ==
    saves' = Append(saves, [who |-> who, job |-> j, content |-> saved])

\* saveProfile: the write is queued while the profile holds `content'.
IssueSave(who, j, content) ==
    saves' = Append(saves, [who |-> who, job |-> j, content |-> content])

NextSave(who, j) == /\ saves # <<>>
                    /\ Head(saves).who = who
                    /\ Head(saves).job = j

\* The file is written: what it holds was serialised between the moment the
\* save was issued and now, after every earlier write.
Saved(who, j) ==
    /\ NextSave(who, j)
    /\ saved' \in {saved \cup Head(saves).content, profile}
    /\ saves' = Tail(saves)

SaveBroken(who, j) ==
    /\ "save" \in Env
    /\ NextSave(who, j)
    /\ saves' = Tail(saves)
    /\ UNCHANGED saved

=============================================================================
