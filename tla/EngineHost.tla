------------------------------ MODULE EngineHost ------------------------------
(***************************************************************************)
(* The EngineHost of one user: calls, post-call jobs, retry and recovery   *)
(* over one job store and one profile, and what must be true of them.      *)
(***************************************************************************)
EXTENDS CallLifecycle, PostCallRecovery

Init ==
    /\ call = [s \in Session |-> "none"] /\ active = None
    /\ end = [j \in Job |-> NoEnd]
    /\ bg = [j \in Job |-> Idle]
    /\ retrying = [j \in Job |-> 0] /\ recov = NotRecovering
    /\ mem = [j \in Job |-> Absent] /\ disk = [j \in Job |-> Absent]
    /\ queue = <<>> /\ chain = <<>> /\ saves = <<>>
    /\ loaded = TRUE /\ profile = {} /\ saved = {}
    /\ session = [s \in Session |-> NewSession] /\ snapshot = session
    /\ applied = [e \in Session \X Choice |-> 0] /\ played = applied
    /\ crashes = 0

Next ==
    \/ \E s \in Session : BeginCall(s) \/ CallBegun(s) \/ ComposeFails(s)
    \/ \E j \in Job, s \in Session : EndCall(j, s)
    \/ \E j \in Job : \/ Ending(j) \/ Background(j)
                      \/ Retry(j) \/ Retrying(j) \/ Recovering(j)
    \/ CreateMissing
    \/ Crash \/ EnsureProfile

Spec == Init /\ [][Next]_vars

\* An await whose port answers is resumed, for every suspended call alone:
\* the event loop runs every settled promise.  No user, failure or restart
\* is fair.
Fairness ==
    /\ \A s \in Session : WF_vars(CallBegun(s))
    /\ \A j \in Job : WF_vars(Ending(j)) /\ WF_vars(Background(j))
    /\ \A j \in Job : WF_vars(Retrying(j)) /\ WF_vars(Recovering(j))
    /\ WF_vars(CreateMissing)

FairSpec == Spec /\ Fairness

-----------------------------------------------------------------------------
(* Types, one conjunct per group of variables *)

EndAt == {"idle", "hooks", "preload", "aborting", "abort_save", "register",
          "queued", "saving", "commit", "kick", "fail", "returned", "rejected",
          "crashed"}

BgAt == {"idle", "mark", "queued", "work", "saving", "note", "fail", "final",
         "catch"}

EndRecord == [at : EndAt, sess : Session \cup {None}, exit : Choice,
              plan : Plan]

CallsOK ==
    /\ call \in [Session -> {"none", "composing", "in_call", "ending",
                             "ended", "lost"}]
    /\ active \in Session \cup {None}
    /\ end \in [Job -> EndRecord]
    /\ \A j \in Job : end[j].at # "idle" => end[j].sess \in Session

JobsOK ==
    /\ bg \in [Job -> [at : BgAt, ph : Step, ok : BOOLEAN, exit : Choice]]
    /\ retrying \in [Job -> Nat]
    /\ recov \in [todo : SUBSET Job, job : Job \cup {None}, start : BOOLEAN]
    /\ mem \in [Job -> JobRecord]

StoreOK ==
    /\ disk \in [Job -> JobRecord]
    /\ queue \in Seq(StoreWrite)
    /\ snapshot \in [Session -> CallSession]

ProfileOK ==
    /\ chain \in Seq(Process)
    /\ loaded \in BOOLEAN
    /\ profile \subseteq Effect /\ saved \subseteq Effect
    /\ saves \in Seq(ProfileSave)

EffectsOK ==
    /\ session \in [Session -> CallSession]
    /\ applied \in [Session \X Choice -> 0..2]
    /\ played \in [Session \X Choice -> 0..2]

\* Every variable has a value of its kind: an endCall that was started has
\* its call, the steps of a job keep their four statuses.
TypeOK == CallsOK /\ JobsOK /\ StoreOK /\ ProfileOK /\ EffectsOK
              /\ crashes \in Nat

-----------------------------------------------------------------------------
(* Calls *)

\* A call that has begun and is not over.
Live(s) == call[s] \in {"in_call", "ending"}

\* The background job still has port calls or saves to make.
Working(j) == bg[j].at \in {"mark", "queued", "work", "saving", "note"}

\* At most one call of the user is in progress, from the end of beginCall to
\* the end of the endCall that saves its effects.
OneActiveCall == \A s, t \in Session : Live(s) /\ Live(t) => s = t

\* While the effects of a call with an agent are being worked off in the
\* background nobody is on the phone with that agent.
NoCallDuringEffects ==
    \A s \in Session, j \in Job :
        Live(s) /\ Working(j) => AgentOf[end[j].sess] # AgentOf[s]

\* activeByUser never keeps a call that no endCall can end or will clear: the
\* user would be refused every further call.
ActiveCallIsLive ==
    active # None => \/ Live(active)
                     \/ \E j \in Job : /\ end[j].sess = active
                                       /\ end[j].at = "abort_save"

\* A hang-up, with or without an exit, ends with the user free again.
EndedCallFreesUser ==
    \A s \in Session : call[s] = "ending" ~> active # s

-----------------------------------------------------------------------------
(* Post-call jobs *)

\* A job that reports completed did every step and recorded no failure.
CompletedJobsFinished ==
    \A j \in Job : mem[j].status = "completed" =>
        ~mem[j].errors /\ \A p \in Step : mem[j].steps[p] = "finished"

\* A background job at work shows a status for which its agent is busy.
BusyWhileWorking ==
    \A j \in Job : Working(j) => mem[j].status \in ActiveStatus

\* Once a job's writes are through, the store has what the host has: no
\* writer overwrote a newer record with an older one.
MirrorAgrees ==
    \A j \in Job :
        /\ mem[j] # Absent /\ disk[j] # Absent
        /\ \A i \in 1..Len(queue) : queue[i].job # j
        => disk[j] = mem[j]

\* The store keeps one job per call, however often the call is hung up.
UniquePersistedJob ==
    \A j, k \in Job :
        /\ disk[j].status # "absent" /\ disk[k].status # "absent"
        /\ end[j].sess = end[k].sess
        => j = k

\* A job that has reached a terminal status is not touched again.
TerminalIsFinal ==
    [][\A j \in Job : mem[j].status \in Terminal =>
           mem'[j] \in {mem[j], Absent}]_vars

InProgress(j) == mem[j].status \in ActiveStatus \ {"failed_retryable"}

\* A job that is registered or restarted comes to an end, or to the failed
\* status from which it can be retried.
JobsSettle == \A j \in Job : InProgress(j) ~> ~InProgress(j)

-----------------------------------------------------------------------------
(* Effects *)

\* Two endCalls of one call, a failed save and another hang-up: the sync
\* effects of an exit are applied to the profile once per call.
SyncEffectsOnce == \A s \in Session, x \in Exit : applied[<<s, x>>] <= 1

\* Retries and two jobs of one call: the sink accepts the media effects of
\* its exit once in the life of a server process.
MediaEffectsOnce == \A s \in Session, x \in Exit : played[<<s, x>>] <= 1

\* A persisted ledger never claims an effect that the persisted profile does
\* not hold: after a restart the effect would be skipped and lost.
LedgerBehindProfile ==
    \A s \in Session : \A key \in snapshot[s].ledger :
        <<s, key[2], key[3]>> \in saved

-----------------------------------------------------------------------------
(* The durable side of a job is what DurableJob promises.                  *)

StatusClass(status) ==
    IF status = "absent" THEN "none"
    ELSE IF status = "failed_retryable" THEN "failed"
    ELSE IF status \in Terminal THEN status ELSE "open"

DurableView(r) ==
    [status |-> StatusClass(r.status), committed |-> r.committed,
     left |-> IF r.status = "absent" THEN {}
              ELSE {p \in Step : r.steps[p] # "finished"}]

Durable == INSTANCE DurableJob WITH job <- [j \in Job |-> DurableView(disk[j])]

\* Whatever the interleaving of endCalls, background jobs, recovery, failed
\* writes and restarts, the records in the store behave as DurableJob.
ImplementsDurableJob == Durable!Spec

=============================================================================
