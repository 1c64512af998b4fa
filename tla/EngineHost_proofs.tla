-------------------------- MODULE EngineHost_proofs --------------------------
(***************************************************************************)
(* Type correctness of EngineHost, that a background job at work shows a   *)
(* status for which its agent is busy, and the calls of one user and their *)
(* hang-ups: the sync effects of an exit are applied once per call, if all *)
(* hang-ups of a call select the same exit; at most one call is in         *)
(* progress; and the entry of activeByUser is never left on a call that    *)
(* nothing can end.  All of it for every set of calls and jobs and however *)
(* often the server restarts.                                              *)
(***************************************************************************)
EXTENDS EngineHost, SequenceTheorems, TLAPS

-----------------------------------------------------------------------------
(* The inductive invariant.  TypeOK alone is not inductive: the sink of a  *)
(* background job needs the call of its endCall, so a job that nobody has  *)
(* ended must not be found anywhere.  BusyWhileWorking is not either: the  *)
(* recovery copies terminal records into the host, so a job it has yet to  *)
(* visit must not be at work.                                              *)

Over == {"returned", "rejected", "crashed"}

\* An endCall that was not made has left no job anywhere.
Fresh ==
    \A j \in Job : end[j].at = "idle" =>
        /\ bg[j].at = "idle" /\ mem[j] = Absent /\ disk[j].status = "absent"
        /\ retrying[j] = 0 /\ j \notin recov.todo /\ recov.job # j

\* A job that the recovery has yet to visit is touched by nobody else.
ToVisit ==
    \A j \in recov.todo :
        /\ end[j].at \in Over /\ bg[j].at = "idle" /\ mem[j] = Absent
        /\ retrying[j] = 0 /\ recov.job # j

IndInv == TypeOK /\ Fresh /\ ToVisit /\ BusyWhileWorking

-----------------------------------------------------------------------------
(* Records *)

JobStatus == ActiveStatus \cup Terminal \cup {"absent"}

\* The updates of a job record give job records.
LEMMA RecordTypes ==
    ASSUME NEW r \in JobRecord
    PROVE  /\ \A x \in JobStatus : WithStatus(r, x) \in JobRecord
           /\ \A p \in Step, x \in StepState : WithStep(r, p, x) \in JobRecord
           /\ Failed(r) \in JobRecord
           /\ Reset(r) \in JobRecord
           /\ Reclaim(r) \in JobRecord
           /\ \A plan : SyncResult(r, plan) \in JobRecord
  <1>1. \A x \in JobStatus : WithStatus(r, x) \in JobRecord
    BY DEF WithStatus, JobRecord, JobStatus
  <1>2. \A p \in Step, x \in StepState : WithStep(r, p, x) \in JobRecord
    BY DEF WithStep, JobRecord
  <1>3. Failed(r) \in JobRecord
    BY DEF Failed, JobRecord, ActiveStatus
  <1>4. Reset(r) \in JobRecord
    BY DEF Reset, JobRecord, ActiveStatus, StepState
  <1>5. Reclaim(r) \in JobRecord
    BY DEF Reclaim, WithStatus, JobRecord, ActiveStatus
  <1>6. \A plan : SyncResult(r, plan) \in JobRecord
    BY <1>3 DEF SyncResult, JobRecord, ActiveStatus
  <1> QED BY <1>1, <1>2, <1>3, <1>4, <1>5, <1>6

\* The two records that are built from nothing are job records.
LEMMA NewRecordTypes ==
    /\ Absent \in JobRecord
    /\ \A deferred \in BOOLEAN : Closing(deferred) \in JobRecord
  <1>1. \A deferred \in BOOLEAN : NewSteps(deferred) \in [Step -> StepState]
    BY DEF NewSteps, StepState
  <1> QED BY <1>1 DEF Absent, Closing, Rec, JobRecord, ActiveStatus

-----------------------------------------------------------------------------
(* Queues *)

\* Taking a write, a process or a save from its queue leaves a queue.
LEMMA TailTypes ==
    ASSUME NEW S, NEW q \in Seq(S), q # <<>>
    PROVE  Tail(q) \in Seq(S) /\ Head(q) \in S
  BY HeadTailProperties

\* What setPostCallJob does to the map and to the queue, field by field.
LEMMA SetType ==
    ASSUME NEW who \in Who, NEW j \in Job, NEW r \in JobRecord,
           NEW q \in Seq(StoreWrite), mem \in [Job -> JobRecord],
           Set(who, j, r, q)
    PROVE  /\ mem' \in [Job -> JobRecord]
           /\ queue' \in Seq(StoreWrite)
  <1>1. mem' \in [Job -> JobRecord]
    BY DEF Set
  <1>2. Write(who, j, r) \in StoreWrite
    BY DEF Write, StoreWrite
  <1>3. queue' \in Seq(StoreWrite)
    BY <1>2, AppendProperties DEF Set
  <1> QED BY <1>1, <1>3

\* A write that lands leaves the store and the rest of the queue well-typed.
LEMMA LandedType ==
    ASSUME StoreOK, EffectsOK, NEW who \in Who, NEW j \in Job, Landed(who, j)
    PROVE  /\ disk' \in [Job -> JobRecord]
           /\ snapshot' \in [Session -> CallSession]
           /\ Tail(queue) \in Seq(StoreWrite)
  <1>1. Tail(queue) \in Seq(StoreWrite) /\ Head(queue) \in StoreWrite
    BY TailTypes DEF StoreOK, Landed, NextWrite
  <1>2. Head(queue).rec \in JobRecord
    BY <1>1 DEF StoreWrite
  <1>3. disk' \in [Job -> JobRecord] /\ snapshot' \in [Session -> CallSession]
    <2>1. CASE Duplicate(Head(queue))
      BY <2>1 DEF StoreOK, Landed
    <2>2. CASE ~Duplicate(Head(queue))
      BY <2>2, <1>2 DEF StoreOK, EffectsOK, Landed
    <2> QED BY <2>1, <2>2
  <1> QED BY <1>1, <1>3

\* A write that rejects leaves the store as it was.
LEMMA BrokenType ==
    ASSUME StoreOK, NEW who \in Who, NEW j \in Job, Broken(who, j)
    PROVE  /\ disk' \in [Job -> JobRecord]
           /\ snapshot' \in [Session -> CallSession]
           /\ Tail(queue) \in Seq(StoreWrite)
  BY TailTypes DEF StoreOK, Broken, NextWrite

\* A save that is issued joins the file's queue.
LEMMA IssueSaveType ==
    ASSUME saves \in Seq(ProfileSave), NEW who \in Who, NEW j \in Job,
           NEW content \in SUBSET Effect, IssueSave(who, j, content)
    PROVE  saves' \in Seq(ProfileSave)
  <1>1. [who |-> who, job |-> j, content |-> content] \in ProfileSave
    BY DEF ProfileSave
  <1> QED BY <1>1, AppendProperties DEF IssueSave

\* A save that lands leaves the file and the rest of the queue well-typed.
LEMMA SavedType ==
    ASSUME ProfileOK, NEW who \in Who, NEW j \in Job, Saved(who, j)
    PROVE  saved' \subseteq Effect /\ saves' \in Seq(ProfileSave)
  <1>1. Tail(saves) \in Seq(ProfileSave) /\ Head(saves) \in ProfileSave
    BY TailTypes DEF ProfileOK, Saved, NextSave
  <1>2. Head(saves).content \subseteq Effect
    BY <1>1 DEF ProfileSave
  <1> QED BY <1>1, <1>2 DEF ProfileOK, Saved

\* A save that rejects leaves the file as it was.
LEMMA SaveBrokenType ==
    ASSUME ProfileOK, NEW who \in Who, NEW j \in Job, SaveBroken(who, j)
    PROVE  saved' \subseteq Effect /\ saves' \in Seq(ProfileSave)
  BY TailTypes DEF ProfileOK, SaveBroken, NextSave

\* What queueing behind a user's profile writes and leaving that chain do.
LEMMA ChainTypes ==
    ASSUME ProfileOK, NEW who \in Who, NEW j \in Job
    PROVE  /\ Append(chain, Proc(who, j)) \in Seq(Process)
           /\ Release(who, j) => chain' \in Seq(Process)
  <1>1. Proc(who, j) \in Process
    BY DEF Proc, Process
  <1>2. Append(chain, Proc(who, j)) \in Seq(Process)
    BY <1>1, AppendProperties DEF ProfileOK
  <1>3. chain # <<>> => Tail(chain) \in Seq(Process)
    BY TailTypes DEF ProfileOK
  <1> QED BY <1>2, <1>3 DEF Holds, Release, ProfileOK

-----------------------------------------------------------------------------
(* Effects *)

\* The effects and the keys of an endCall that has its call.
LEMMA EffectTypes ==
    ASSUME CallsOK, EffectsOK, NEW j \in Job, end[j].sess \in Session,
           NEW kind \in Kind
    PROVE  /\ EffectOf(j, kind) \in Effect
           /\ Key(j, kind) \in Entry
           /\ \A x \in Choice : <<x, end[j].exit, kind>> \in Entry
  <1>1. end[j].exit \in Choice
    BY DEF CallsOK, EndRecord
  <1>2. session[end[j].sess].exit \in Choice
    BY DEF EffectsOK, CallSession
  <1> QED BY <1>1, <1>2 DEF EffectOf, Effect, Key, Entry

\* An executed effect leaves a session and a count.
LEMMA ExecutedTypes ==
    ASSUME CallsOK, EffectsOK, NEW j \in Job, end[j].sess \in Session
    PROVE  /\ \A key \in Entry : Executed(j, key)
                  => session' \in [Session -> CallSession]
           /\ \A count \in [Session \X Choice -> 0..2] :
                  Bump(count, j) \in [Session \X Choice -> 0..2]
  <1> DEFINE s == end[j].sess
  <1>1. ASSUME NEW key \in Entry, Executed(j, key)
        PROVE  session' \in [Session -> CallSession]
    <2>1. [session[s] EXCEPT !.ledger = @ \cup {key}] \in CallSession
      BY DEF EffectsOK, CallSession
    <2>2. session' = [session EXCEPT ![s] =
                         [session[s] EXCEPT !.ledger = @ \cup {key}]]
      BY <1>1 DEF Executed
    <2> QED BY <2>1, <2>2 DEF EffectsOK
  <1>2. ASSUME NEW count \in [Session \X Choice -> 0..2]
        PROVE  Bump(count, j) \in [Session \X Choice -> 0..2]
    <2> DEFINE e == <<s, end[j].exit>>
               n == IF count[e] = 2 THEN 2 ELSE count[e] + 1
    <2>1. e \in Session \X Choice
      BY DEF CallsOK, EndRecord
    <2>2. count[e] \in 0..2
      BY <2>1
    <2>3. n \in 0..2
      BY <2>2
    <2>4. Bump(count, j) = [count EXCEPT ![e] = n]
      BY DEF Bump
    <2> QED BY <2>3, <2>4
  <1> QED BY <1>1, <1>2

\* Selecting an exit leaves a session and an endCall.
LEMMA SelectTypes ==
    ASSUME CallsOK, EffectsOK, NEW j \in Job, end[j].sess \in Session,
           NEW x \in Exit, NEW at \in EndAt, Select(j, x, at)
    PROVE  /\ session' \in [Session -> CallSession]
           /\ \E r \in EndRecord : /\ r.at = at /\ r.sess = end[j].sess
                                   /\ end' = [end EXCEPT ![j] = r]
  <1> DEFINE s == end[j].sess
             r == [end[j] EXCEPT !.exit = x, !.at = at]
  <1>1. [session[s] EXCEPT !.exit = x] \in CallSession
    BY DEF EffectsOK, CallSession, Choice
  <1>2. session' = [session EXCEPT ![s] = [session[s] EXCEPT !.exit = x]]
    BY DEF Select
  <1>3. session' \in [Session -> CallSession]
    BY <1>1, <1>2 DEF EffectsOK
  <1>4. r \in EndRecord /\ r.at = at /\ r.sess = end[j].sess
    BY DEF CallsOK, EndRecord, Choice
  <1>5. end' = [end EXCEPT ![j] = r]
    BY DEF Select
  <1> QED BY <1>3, <1>4, <1>5

-----------------------------------------------------------------------------
(* What a step made on behalf of one job j does to each group of variables *)

BgRecord == [at : BgAt, ph : Step, ok : BOOLEAN, exit : Choice]

JobStep(j) ==
    /\ mem' \in [Job -> JobRecord]
    /\ queue' \in Seq(StoreWrite)
    /\ bg' \in [Job -> BgRecord]
    /\ \A k \in Job \ {j} : mem'[k] = mem[k] /\ bg'[k] = bg[k]
    /\ Working(j)' => mem'[j].status \in ActiveStatus

StoreStep(j) ==
    /\ disk' \in [Job -> JobRecord]
    /\ snapshot' \in [Session -> CallSession]
    /\ \A k \in Job \ {j} : disk'[k] = disk[k]

EndStep(j) ==
    /\ CallsOK'
    /\ \A k \in Job \ {j} : end'[k] = end[k]
    /\ end'[j].at # "idle"

OwnStep(j) ==
    /\ JobStep(j) /\ StoreStep(j) /\ EndStep(j)
    /\ ProfileOK' /\ EffectsOK' /\ crashes' \in Nat
    /\ retrying' \in [Job -> Nat]
    /\ \A k \in Job \ {j} : retrying'[k] = retrying[k]
    /\ recov' \in [todo : SUBSET Job, job : Job \cup {None}, start : BOOLEAN]
    /\ recov'.todo \subseteq recov.todo \ {j}
    /\ recov'.job \in {recov.job, None, j}

\* A step that touches one job only, and not one that recovery still has to
\* visit, keeps the invariant.
LEMMA OwnStepKeeps ==
    ASSUME IndInv, NEW j \in Job, OwnStep(j)
    PROVE  IndInv'
  <1>1. TypeOK'
    BY DEF OwnStep, JobStep, StoreStep, EndStep, TypeOK, JobsOK, StoreOK,
           BgRecord
  <1>2. Fresh'
    <2> SUFFICES ASSUME NEW k \in Job, end'[k].at = "idle"
                 PROVE  /\ bg'[k].at = "idle" /\ mem'[k] = Absent
                        /\ disk'[k].status = "absent" /\ retrying'[k] = 0
                        /\ k \notin recov'.todo /\ recov'.job # k
      BY DEF Fresh
    <2>1. k # j /\ k # None
      BY HostAssumption DEF OwnStep, EndStep
    <2>2. end[k].at = "idle"
      BY <2>1 DEF OwnStep, EndStep
    <2> QED BY <2>1, <2>2
            DEF OwnStep, JobStep, StoreStep, EndStep, IndInv, Fresh
  <1>3. ToVisit'
    <2> SUFFICES ASSUME NEW k \in recov'.todo
                 PROVE  /\ end'[k].at \in Over /\ bg'[k].at = "idle"
                        /\ mem'[k] = Absent /\ retrying'[k] = 0
                        /\ recov'.job # k
      BY DEF ToVisit
    <2>1. k \in Job /\ k \in recov.todo /\ k # j /\ k # None
      BY HostAssumption DEF OwnStep
    <2> QED BY <2>1 DEF OwnStep, JobStep, EndStep, IndInv, ToVisit
  <1>4. BusyWhileWorking'
    BY DEF OwnStep, JobStep, IndInv, BusyWhileWorking, Working
  <1> QED BY <1>1, <1>2, <1>3, <1>4 DEF IndInv

\* The background job: nothing else of the host changes.
LEMMA BackgroundFrame ==
    ASSUME IndInv, NEW j \in Job, bg[j].at # "idle",
           UNCHANGED <<callVars, retrying, recov, crashes>>,
           JobStep(j), StoreStep(j), ProfileOK', EffectsOK'
    PROVE  OwnStep(j)
  <1>1. EndStep(j)
    BY DEF IndInv, TypeOK, Fresh, CallsOK, EndStep, callVars
  <1>2. j \notin recov.todo
    BY DEF IndInv, ToVisit
  <1> QED BY <1>1, <1>2 DEF OwnStep, IndInv, TypeOK, JobsOK

\* The endCall: it is suspended, so recovery has nothing to do with its job.
LEMMA EndingFrame ==
    ASSUME IndInv, NEW j \in Job, end[j].at \notin Over \cup {"idle"},
           UNCHANGED <<retrying, recov, crashes>>,
           JobStep(j), StoreStep(j), EndStep(j), ProfileOK', EffectsOK'
    PROVE  OwnStep(j)
  <1>1. j \notin recov.todo
    BY DEF IndInv, ToVisit
  <1> QED BY <1>1 DEF OwnStep, IndInv, TypeOK, JobsOK

\* A write of j that lands, rejects or is not made changes no other job's
\* record in the store.
LEMMA StoreFrame ==
    ASSUME StoreOK, EffectsOK, NEW who \in Who, NEW j \in Job,
           \/ Landed(who, j) \/ Broken(who, j)
           \/ UNCHANGED <<disk, snapshot>>
    PROVE  StoreStep(j)
  <1>1. disk' \in [Job -> JobRecord] /\ snapshot' \in [Session -> CallSession]
    BY LandedType, BrokenType DEF StoreOK
  <1>2. \A k \in Job \ {j} : disk'[k] = disk[k]
    BY DEF Landed, Broken, StoreOK
  <1> QED BY <1>1, <1>2 DEF StoreStep

\* The rest of the queue after a write of j.
LEMMA QueueFrame ==
    ASSUME StoreOK, EffectsOK, NEW who \in Who, NEW j \in Job,
           Landed(who, j) \/ Broken(who, j)
    PROVE  Tail(queue) \in Seq(StoreWrite)
  BY LandedType, BrokenType

\* No job changes.
LEMMA SameJobs ==
    ASSUME IndInv, NEW j \in Job, UNCHANGED <<mem, bg>>,
           queue' \in Seq(StoreWrite)
    PROVE  JobStep(j)
  BY DEF IndInv, TypeOK, JobsOK, BusyWhileWorking, JobStep, BgRecord, Working

\* setPostCallJob with a record for which the agent is busy.
LEMMA SetFrame ==
    ASSUME IndInv, NEW who \in Who, NEW j \in Job, NEW r \in JobRecord,
           r.status \in ActiveStatus \/ ~Working(j),
           NEW q \in Seq(StoreWrite), Set(who, j, r, q), UNCHANGED bg
    PROVE  JobStep(j)
  <1>1. mem' \in [Job -> JobRecord] /\ queue' \in Seq(StoreWrite)
    BY SetType DEF IndInv, TypeOK, JobsOK
  <1>2. mem' = [mem EXCEPT ![j] = r]
    BY DEF Set
  <1> QED BY <1>1, <1>2 DEF IndInv, TypeOK, JobsOK, JobStep, BgRecord, Working

-----------------------------------------------------------------------------
(* Background jobs *)

\* The job sleeps somewhere else, at work only if it was at work before.
LEMMA SleepFrame ==
    ASSUME IndInv, NEW j \in Job, NEW b \in BgRecord,
           bg' = [bg EXCEPT ![j] = b], UNCHANGED mem,
           queue' \in Seq(StoreWrite),
           Working(j) \/ b.at \in {"idle", "final", "fail", "catch"}
    PROVE  JobStep(j)
  <1>1. bg' \in [Job -> BgRecord]
    BY DEF IndInv, TypeOK, JobsOK, BgRecord
  <1>2. bg'[j] = b /\ \A k \in Job \ {j} : bg'[k] = bg[k]
    BY DEF IndInv, TypeOK, JobsOK
  <1>3. Working(j)' => mem'[j].status \in ActiveStatus
    BY <1>2 DEF IndInv, BusyWhileWorking, Working
  <1> QED BY <1>1, <1>2, <1>3 DEF IndInv, TypeOK, JobsOK, JobStep

\* The job sleeps somewhere else after setPostCallJob.
LEMMA SetSleepFrame ==
    ASSUME IndInv, NEW j \in Job, NEW r \in JobRecord,
           NEW q \in Seq(StoreWrite), Set("bg", j, r, q),
           NEW b \in BgRecord, bg' = [bg EXCEPT ![j] = b],
           \/ r.status \in ActiveStatus
           \/ b.at \in {"idle", "final", "fail", "catch"}
    PROVE  JobStep(j)
  <1>1. mem' \in [Job -> JobRecord] /\ queue' \in Seq(StoreWrite)
    BY SetType DEF IndInv, TypeOK, JobsOK, Who
  <1>2. mem' = [mem EXCEPT ![j] = r]
    BY DEF Set
  <1>3. bg' \in [Job -> BgRecord]
    BY DEF IndInv, TypeOK, JobsOK, BgRecord
  <1>4. Working(j)' => mem'[j].status \in ActiveStatus
    BY <1>2, <1>3 DEF IndInv, TypeOK, JobsOK, Working
  <1> QED BY <1>1, <1>2, <1>3, <1>4 DEF IndInv, TypeOK, JobsOK, JobStep

\* Where the helpers of the background job put it to sleep.
LEMMA SleepTypes ==
    /\ Idle \in BgRecord
    /\ \A at \in BgAt, p \in Step, ok \in BOOLEAN : At(at, p, ok) \in BgRecord
  BY DEF Idle, At, BgRecord, BgAt, Step, Choice

\* Starting a phase, or setting the final status when none is left.
LEMMA EnterFrame ==
    ASSUME IndInv, NEW j \in Job, NEW r \in JobRecord, NEW n,
           NEW q \in Seq(StoreWrite), Enter(j, r, n, q)
    PROVE  JobStep(j)
  <1>1. CASE Ahead(r, n) = {}
    <2>1. PICK x \in Terminal : Set("bg", j, WithStatus(r, x), q)
      BY <1>1 DEF Enter, Terminal
    <2>2. WithStatus(r, x) \in JobRecord
      BY RecordTypes DEF JobStatus
    <2>3. bg' = [bg EXCEPT ![j] = At("final", "voicemail", TRUE)]
      BY <1>1 DEF Enter
    <2>4. /\ At("final", "voicemail", TRUE) \in BgRecord
          /\ At("final", "voicemail", TRUE).at = "final"
      BY SleepTypes DEF At, BgAt, Step
    <2> QED BY <2>1, <2>2, <2>3, <2>4, SetSleepFrame
  <1>2. CASE Ahead(r, n) # {}
    <2>1. PICK p \in First(Ahead(r, n)) :
             /\ Set("bg", j, WithStep(WithStatus(r, RunningStatus[p]),
                                      p, "running"), q)
             /\ bg' = [bg EXCEPT ![j] = At("mark", p, TRUE)]
      BY <1>2 DEF Enter
    <2> DEFINE new == WithStep(WithStatus(r, RunningStatus[p]), p, "running")
    <2>2. p \in Step
      BY DEF First, Ahead
    <2>3. RunningStatus[p] \in ActiveStatus
      BY <2>2 DEF RunningStatus, Running, ActiveStatus, Step
    <2>4. WithStatus(r, RunningStatus[p]) \in JobRecord
      BY <2>3, RecordTypes DEF JobStatus
    <2>5. new \in JobRecord
      BY <2>2, <2>4, RecordTypes DEF StepState
    <2>6. new.status \in ActiveStatus
      BY <2>3 DEF WithStep, WithStatus, JobRecord
    <2>7. At("mark", p, TRUE) \in BgRecord
      BY <2>2, SleepTypes DEF BgAt
    <2> QED BY <2>1, <2>5, <2>6, <2>7, SetSleepFrame
  <1> QED BY <1>1, <1>2

\* Recording the result of a phase.
LEMMA NoteFrame ==
    ASSUME IndInv, NEW j \in Job, NEW p \in Step, NEW ok \in BOOLEAN,
           NEW q \in Seq(StoreWrite), Note(j, p, ok, q), Working(j)
    PROVE  JobStep(j)
  <1> DEFINE done == WithStep(mem[j], p, "finished")
             broken == Failed(WithStep(mem[j], p, "failed"))
  <1>1. mem[j] \in JobRecord /\ mem[j].status \in ActiveStatus
    BY DEF IndInv, TypeOK, JobsOK, BusyWhileWorking
  <1>2. done \in JobRecord /\ WithStep(mem[j], p, "failed") \in JobRecord
    BY <1>1, RecordTypes DEF StepState
  <1>3. broken \in JobRecord
    BY <1>2, RecordTypes
  <1>4. done.status \in ActiveStatus /\ broken.status \in ActiveStatus
    BY <1>1, <1>2 DEF WithStep, Failed, JobRecord, ActiveStatus
  <1>5. At("note", p, ok) \in BgRecord
    BY SleepTypes DEF BgAt
  <1>6. PICK r \in {done, broken} : Set("bg", j, r, q)
    BY DEF Note
  <1>7. bg' = [bg EXCEPT ![j] = At("note", p, ok)]
    BY DEF Note
  <1> QED BY <1>2, <1>3, <1>4, <1>5, <1>6, <1>7, SetSleepFrame

\* The outermost catch.
LEMMA CatchFrame ==
    ASSUME IndInv, NEW j \in Job, NEW q \in Seq(StoreWrite), Catch(j, q)
    PROVE  JobStep(j)
  <1>1. Failed(mem[j]) \in JobRecord
    BY RecordTypes DEF IndInv, TypeOK, JobsOK
  <1>2. bg[j].ph \in Step
    BY DEF IndInv, TypeOK, JobsOK
  <1>3. /\ At("catch", bg[j].ph, FALSE) \in BgRecord
        /\ At("catch", bg[j].ph, FALSE).at = "catch"
    BY <1>2, SleepTypes DEF At, BgAt
  <1> QED BY <1>1, <1>3, SetSleepFrame DEF Catch

\* startPostCallBackgroundJob, whether it starts anything or not.
LEMMA StartFrame ==
    ASSUME IndInv, NEW j \in Job, NEW q \in Seq(StoreWrite),
           StartBackground(j, q)
    PROVE  JobStep(j)
  <1>1. mem[j] \in JobRecord
    BY DEF IndInv, TypeOK, JobsOK
  <1>2. CASE bg[j].at # "idle" \/ ~mem[j].committed
    BY <1>2, SameJobs DEF StartBackground
  <1>3. CASE bg[j].at = "idle" /\ mem[j].committed /\ loaded
    BY <1>1, <1>3, EnterFrame DEF StartBackground
  <1>4. CASE bg[j].at = "idle" /\ mem[j].committed /\ ~loaded
    <2>1. Failed(mem[j]) \in JobRecord
      BY <1>1, RecordTypes
    <2>2. /\ Set("bg", j, Failed(mem[j]), q)
          /\ bg' = [bg EXCEPT ![j] = At("catch", "memory", FALSE)]
      BY <1>4 DEF StartBackground
    <2>3. /\ At("catch", "memory", FALSE) \in BgRecord
          /\ At("catch", "memory", FALSE).at = "catch"
      BY SleepTypes DEF At, BgAt, Step
    <2> QED BY <2>1, <2>2, <2>3, SetSleepFrame
  <1> QED BY <1>2, <1>3, <1>4

-----------------------------------------------------------------------------
(* The actions of a background job *)

\* Every step of the background job of j keeps the invariant.
LEMMA BackgroundKeeps ==
    ASSUME IndInv, NEW j \in Job, Background(j)
    PROVE  IndInv'
  <1>0. /\ CallsOK /\ JobsOK /\ StoreOK /\ ProfileOK /\ EffectsOK
        /\ "bg" \in Who
        /\ mem[j] \in JobRecord /\ bg[j] \in BgRecord
    BY DEF IndInv, TypeOK, JobsOK, Who, BgRecord
  <1> DEFINE Frame == UNCHANGED <<callVars, retrying, recov, crashes>>
  <1> SUFFICES /\ bg[j].at # "idle" /\ Frame
               /\ JobStep(j) /\ StoreStep(j) /\ ProfileOK' /\ EffectsOK'
    BY BackgroundFrame, OwnStepKeeps
  <1>1. CASE Marked(j)
    <2>1. bg[j].at = "mark" /\ Frame /\ Landed("bg", j)
      BY <1>1 DEF Marked
    <2>2. Tail(queue) \in Seq(StoreWrite)
      BY <1>0, <2>1, QueueFrame
    <2>3. JobStep(j)
      <3>1. CASE Note(j, "rollup", TRUE, Tail(queue))
        BY <2>1, <2>2, <3>1, NoteFrame DEF Working, Step
      <3>2. ASSUME NEW x \in {"work", "queued"}, bg' = [bg EXCEPT ![j].at = x],
                   queue' = Tail(queue), UNCHANGED mem
            PROVE  JobStep(j)
        <4>1. [bg[j] EXCEPT !.at = x] \in BgRecord
          BY <1>0 DEF BgRecord, BgAt
        <4>2. bg' = [bg EXCEPT ![j] = [bg[j] EXCEPT !.at = x]]
          BY <3>2
        <4> QED BY <2>1, <2>2, <3>2, <4>1, <4>2, SleepFrame DEF Working
      <3> QED BY <1>1, <3>1, <3>2 DEF Marked
    <2>4. StoreStep(j)
      BY <1>0, <2>1, StoreFrame
    <2>5. ProfileOK'
      <3>1. chain' \in Seq(Process)
        BY <1>0, <1>1, ChainTypes DEF Marked, ProfileOK
      <3> QED BY <1>0, <1>1, <3>1 DEF Marked, ProfileOK
    <2>6. EffectsOK'
      BY <1>0, <1>1 DEF Marked, EffectsOK, fxVars
    <2> QED BY <2>1, <2>3, <2>4, <2>5, <2>6
  <1>2. CASE MemoryAnswers(j)
    <2>1. PICK p \in {"memory", "rollup"}, ok \in BOOLEAN :
             Sleeps(j, "work", p) /\ Note(j, p, ok, queue)
      BY <1>2 DEF MemoryAnswers
    <2>2. JobStep(j)
      BY <1>0, <2>1, NoteFrame DEF Sleeps, Working, StoreOK, Step
    <2>3. StoreStep(j)
      BY <1>0, <1>2, StoreFrame DEF MemoryAnswers
    <2>4. ProfileOK' /\ EffectsOK'
      BY <1>0, <1>2 DEF MemoryAnswers, ProfileOK, EffectsOK, profVars, fxVars
    <2> QED BY <1>2, <2>1, <2>2, <2>3, <2>4 DEF MemoryAnswers, Sleeps
  <1>3. CASE MemoryNoted(j)
    <2>1. bg[j].at = "note" /\ Frame /\ Landed("bg", j)
      BY <1>3 DEF MemoryNoted
    <2>2. Tail(queue) \in Seq(StoreWrite)
      BY <1>0, <2>1, QueueFrame
    <2>3. JobStep(j)
      <3>1. CASE bg[j].ok
        BY <1>0, <1>3, <2>2, <3>1, EnterFrame DEF MemoryNoted
      <3>2. CASE ~bg[j].ok
        BY <1>3, <2>2, <3>2, SleepFrame, SleepTypes DEF MemoryNoted, Idle, At
      <3> QED BY <3>1, <3>2
    <2>4. StoreStep(j)
      BY <1>0, <2>1, StoreFrame
    <2>5. ProfileOK' /\ EffectsOK'
      BY <1>0, <1>3 DEF MemoryNoted, ProfileOK, EffectsOK, profVars, fxVars
    <2> QED BY <2>1, <2>3, <2>4, <2>5
  <1>4. CASE StartMedia(j)
    <2>1. bg[j].at = "queued" /\ Frame
      BY <1>4 DEF StartMedia, Sleeps
    <2>2. /\ end[j].sess \in Session
          /\ EffectOf(j, "media") \in Effect /\ Key(j, "media") \in Entry
      BY <1>0, <2>1, EffectTypes DEF IndInv, CallsOK, Fresh, Kind
    <2>3. JobStep(j)
      <3> DEFINE x == session[end[j].sess].exit
                 w == [bg[j] EXCEPT !.at = "work", !.exit = x]
      <3>1. \/ bg' = [bg EXCEPT ![j] = w]
            \/ \E ok \in BOOLEAN : bg' = [bg EXCEPT ![j] =
                                               At("saving", "media", ok)]
        BY <1>4 DEF StartMedia
      <3>2. x \in Choice
        BY <1>0, <2>2 DEF EffectsOK, CallSession
      <3>3. PICK b \in BgRecord : bg' = [bg EXCEPT ![j] = b]
        <4>1. w \in BgRecord
          BY <1>0, <3>2 DEF BgRecord, BgAt
        <4>2. \A ok \in BOOLEAN : At("saving", "media", ok) \in BgRecord
          BY SleepTypes DEF BgAt, Step
        <4> QED BY <3>1, <4>1, <4>2
      <3>4. queue' \in Seq(StoreWrite) /\ UNCHANGED mem
        BY <1>0, <1>4 DEF StartMedia, storeVars, StoreOK
      <3> QED BY <2>1, <3>3, <3>4, SleepFrame DEF Working
    <2>4. StoreStep(j)
      BY <1>0, <1>4, StoreFrame DEF StartMedia, storeVars
    <2>5. ProfileOK'
      <3>1. saves' \in Seq(ProfileSave)
        BY <1>0, <1>4, IssueSaveType DEF StartMedia, ProfileOK
      <3>2. profile' \subseteq Effect
        BY <1>0, <1>4, <2>2 DEF StartMedia, ProfileOK
      <3> QED BY <1>0, <1>4, <3>1, <3>2 DEF StartMedia, ProfileOK
    <2>6. EffectsOK'
      BY <1>0, <1>4 DEF StartMedia, EffectsOK, fxVars
    <2> QED BY <2>1, <2>3, <2>4, <2>5, <2>6
  <1>5. CASE SinkAnswers(j)
    <2>1. bg[j].at = "work" /\ Frame
      BY <1>5 DEF SinkAnswers, Sleeps
    <2>2. /\ end[j].sess \in Session
          /\ <<bg[j].exit, end[j].exit, "media">> \in Entry
      <3>1. end[j].sess \in Session
        BY <1>0, <2>1 DEF IndInv, CallsOK, Fresh
      <3>2. bg[j].exit \in Choice
        BY <1>0 DEF BgRecord
      <3> QED BY <1>0, <3>1, <3>2, EffectTypes DEF Kind
    <2>3. JobStep(j)
      <3>1. PICK ok \in BOOLEAN : bg' = [bg EXCEPT ![j] = At("saving", "media", ok)]
        BY <1>5 DEF SinkAnswers
      <3>2. At("saving", "media", ok) \in BgRecord
        BY SleepTypes DEF BgAt, Step
      <3>3. queue' \in Seq(StoreWrite) /\ UNCHANGED mem
        BY <1>0, <1>5 DEF SinkAnswers, storeVars, StoreOK
      <3> QED BY <2>1, <3>1, <3>2, <3>3, SleepFrame DEF Working
    <2>4. StoreStep(j)
      BY <1>0, <1>5, StoreFrame DEF SinkAnswers, storeVars
    <2>5. ProfileOK'
      <3>1. saves' \in Seq(ProfileSave)
        BY <1>0, <1>5, IssueSaveType DEF SinkAnswers, ProfileOK
      <3> QED BY <1>0, <1>5, <3>1 DEF SinkAnswers, ProfileOK
    <2>6. EffectsOK'
      <3>1. UNCHANGED applied
        BY <1>5 DEF SinkAnswers
      <3>2. \/ UNCHANGED <<session, played>>
            \/ /\ Executed(j, <<bg[j].exit, end[j].exit, "media">>)
               /\ played' = Bump(played, j)
        BY <1>5 DEF SinkAnswers
      <3> QED BY <1>0, <2>2, <3>1, <3>2, ExecutedTypes DEF EffectsOK
    <2> QED BY <2>1, <2>3, <2>4, <2>5, <2>6
  <1>6. CASE MediaSaved(j)
    <2>1. bg[j].at = "saving" /\ Frame /\ Saved("bg", j)
      BY <1>6 DEF MediaSaved, Sleeps
    <2>2. JobStep(j)
      <3>1. PICK x \in {"finished", "failed"} :
               Set("bg", j, [WithStep(mem[j], "media", x)
                                EXCEPT !.errors = @ \/ ~bg[j].ok], queue)
        BY <1>6 DEF MediaSaved
      <3> DEFINE r == [WithStep(mem[j], "media", x)
                          EXCEPT !.errors = @ \/ ~bg[j].ok]
      <3>2. WithStep(mem[j], "media", x) \in JobRecord
        BY <1>0, RecordTypes DEF StepState, Step
      <3>3. r \in JobRecord /\ r.status = WithStep(mem[j], "media", x).status
        BY <3>2 DEF JobRecord
      <3>4. WithStep(mem[j], "media", x).status = mem[j].status
        BY <1>0 DEF WithStep, JobRecord
      <3>5. r.status \in ActiveStatus
        BY <2>1, <3>3, <3>4 DEF IndInv, BusyWhileWorking, Working
      <3>6. [bg[j] EXCEPT !.at = "note"] \in BgRecord
        BY <1>0 DEF BgRecord, BgAt
      <3>7. bg' = [bg EXCEPT ![j] = [bg[j] EXCEPT !.at = "note"]]
        BY <1>6 DEF MediaSaved
      <3> QED BY <1>0, <3>1, <3>3, <3>5, <3>6, <3>7, SetSleepFrame DEF StoreOK
    <2>3. StoreStep(j)
      BY <1>0, <1>6, StoreFrame DEF MediaSaved
    <2>4. ProfileOK'
      <3>1. saved' \subseteq Effect /\ saves' \in Seq(ProfileSave)
        BY <1>0, <2>1, SavedType
      <3> QED BY <1>0, <1>6, <3>1 DEF MediaSaved, ProfileOK
    <2>5. EffectsOK'
      BY <1>0, <1>6 DEF MediaSaved, EffectsOK, fxVars
    <2> QED BY <2>1, <2>2, <2>3, <2>4, <2>5
  <1>7. CASE MediaNoted(j)
    <2>1. bg[j].at = "note" /\ Frame /\ Landed("bg", j)
      BY <1>7 DEF MediaNoted, Sleeps
    <2>2. Tail(queue) \in Seq(StoreWrite)
      BY <1>0, <2>1, QueueFrame
    <2>3. JobStep(j)
      <3>1. CASE mem[j].steps["media"] # "failed"
        BY <1>0, <1>7, <2>2, <3>1, EnterFrame DEF MediaNoted
      <3>2. CASE mem[j].steps["media"] = "failed"
        <4>1. WithStatus(mem[j], "failed_retryable") \in JobRecord
          BY <1>0, RecordTypes DEF JobStatus, ActiveStatus
        <4>2. [bg[j] EXCEPT !.at = "fail"] \in BgRecord
          BY <1>0 DEF BgRecord, BgAt
        <4>3. [bg[j] EXCEPT !.at = "fail"].at = "fail"
          BY <1>0 DEF BgRecord
        <4>4. /\ bg' = [bg EXCEPT ![j] = [bg[j] EXCEPT !.at = "fail"]]
              /\ Set("bg", j, WithStatus(mem[j], "failed_retryable"),
                     Tail(queue))
          BY <1>7, <3>2 DEF MediaNoted
        <4> QED BY <2>2, <4>1, <4>2, <4>3, <4>4, SetSleepFrame
      <3> QED BY <3>1, <3>2
    <2>4. StoreStep(j)
      BY <1>0, <2>1, StoreFrame
    <2>5. ProfileOK'
      <3>1. chain' \in Seq(Process)
        BY <1>0, <1>7, ChainTypes DEF MediaNoted
      <3> QED BY <1>0, <1>7, <3>1 DEF MediaNoted, ProfileOK
    <2>6. EffectsOK'
      BY <1>0, <1>7 DEF MediaNoted, EffectsOK, fxVars
    <2> QED BY <2>1, <2>3, <2>4, <2>5, <2>6
  <1>8. CASE StartVoicemail(j)
    <2>1. bg[j].at = "queued" /\ Frame
      BY <1>8 DEF StartVoicemail, Sleeps
    <2>2. JobStep(j)
      <3>1. [bg[j] EXCEPT !.at = "work"] \in BgRecord
        BY <1>0 DEF BgRecord, BgAt
      <3>2. bg' = [bg EXCEPT ![j] = [bg[j] EXCEPT !.at = "work"]]
        BY <1>8 DEF StartVoicemail
      <3>3. queue' \in Seq(StoreWrite) /\ UNCHANGED mem
        BY <1>0, <1>8 DEF StartVoicemail, storeVars, StoreOK
      <3> QED BY <2>1, <3>1, <3>2, <3>3, SleepFrame DEF Working
    <2>3. StoreStep(j)
      BY <1>0, <1>8, StoreFrame DEF StartVoicemail, storeVars
    <2>4. ProfileOK' /\ EffectsOK'
      BY <1>0, <1>8 DEF StartVoicemail, ProfileOK, EffectsOK, profVars, fxVars
    <2> QED BY <2>1, <2>2, <2>3, <2>4
  <1>9. CASE VoicemailAnswers(j)
    <2>1. PICK ok \in BOOLEAN :
             Sleeps(j, "work", "voicemail") /\ Note(j, "voicemail", ok, queue)
      BY <1>9 DEF VoicemailAnswers
    <2>2. JobStep(j)
      BY <1>0, <2>1, NoteFrame DEF Sleeps, Working, StoreOK, Step
    <2>3. StoreStep(j)
      BY <1>0, <1>9, StoreFrame DEF VoicemailAnswers
    <2>4. ProfileOK' /\ EffectsOK'
      BY <1>0, <1>9
      DEF VoicemailAnswers, ProfileOK, EffectsOK, profVars, fxVars
    <2> QED BY <1>9, <2>1, <2>2, <2>3, <2>4 DEF VoicemailAnswers, Sleeps
  <1>10. CASE VoicemailNoted(j)
    <2>1. bg[j].at = "note" /\ Frame /\ Landed("bg", j)
      BY <1>10 DEF VoicemailNoted, Sleeps
    <2>2. JobStep(j)
      <3>1. [bg[j] EXCEPT !.at = "saving"] \in BgRecord
        BY <1>0 DEF BgRecord, BgAt
      <3>2. bg' = [bg EXCEPT ![j] = [bg[j] EXCEPT !.at = "saving"]]
        BY <1>10 DEF VoicemailNoted
      <3>3. queue' \in Seq(StoreWrite) /\ UNCHANGED mem
        BY <1>0, <1>10, <2>1, QueueFrame DEF VoicemailNoted
      <3> QED BY <2>1, <3>1, <3>2, <3>3, SleepFrame DEF Working
    <2>3. StoreStep(j)
      BY <1>0, <2>1, StoreFrame
    <2>4. ProfileOK'
      <3>1. saves' \in Seq(ProfileSave)
        BY <1>0, <1>10, IssueSaveType DEF VoicemailNoted, ProfileOK
      <3> QED BY <1>0, <1>10, <3>1 DEF VoicemailNoted, ProfileOK
    <2>5. EffectsOK'
      BY <1>0, <1>10 DEF VoicemailNoted, EffectsOK, fxVars
    <2> QED BY <2>1, <2>2, <2>3, <2>4, <2>5
  <1>11. CASE VoicemailSaved(j)
    <2>1. bg[j].at = "saving" /\ Frame /\ Saved("bg", j)
      BY <1>11 DEF VoicemailSaved, Sleeps
    <2>2. JobStep(j)
      <3>1. CASE mem[j].status # "failed_retryable"
        BY <1>0, <1>11, <3>1, EnterFrame DEF VoicemailSaved, StoreOK
      <3>2. CASE mem[j].status = "failed_retryable"
        BY <1>0, <1>11, <3>2, SleepFrame, SleepTypes
        DEF VoicemailSaved, Idle, At, StoreOK
      <3> QED BY <3>1, <3>2
    <2>3. StoreStep(j)
      BY <1>0, <1>11, StoreFrame DEF VoicemailSaved
    <2>4. ProfileOK'
      <3>1. saved' \subseteq Effect /\ saves' \in Seq(ProfileSave)
        BY <1>0, <2>1, SavedType
      <3>2. chain' \in Seq(Process)
        BY <1>0, <1>11, ChainTypes DEF VoicemailSaved
      <3> QED BY <1>0, <1>11, <3>1, <3>2 DEF VoicemailSaved, ProfileOK
    <2>5. EffectsOK'
      BY <1>0, <1>11 DEF VoicemailSaved, EffectsOK, fxVars
    <2> QED BY <2>1, <2>2, <2>3, <2>4, <2>5
  <1>12. CASE Settled(j)
    <2>1. bg[j].at # "idle" /\ Frame /\ Landed("bg", j)
      BY <1>12 DEF Settled
    <2>2. JobStep(j)
      <3>1. queue' \in Seq(StoreWrite)
        BY <1>0, <1>12, <2>1, QueueFrame DEF Settled
      <3> QED BY <1>12, <3>1, SleepFrame, SleepTypes DEF Settled, Idle, At
    <2>3. StoreStep(j)
      BY <1>0, <2>1, StoreFrame
    <2>4. ProfileOK' /\ EffectsOK'
      BY <1>0, <1>12 DEF Settled, ProfileOK, EffectsOK, profVars, fxVars
    <2> QED BY <2>1, <2>2, <2>3, <2>4
  <1>13. CASE StoreRejects(j)
    <2>1. bg[j].at # "idle" /\ Frame /\ Broken("bg", j)
      BY <1>13 DEF StoreRejects
    <2>2. Tail(queue) \in Seq(StoreWrite)
      BY <1>0, <2>1, QueueFrame
    <2>3. JobStep(j)
      <3>1. CASE bg' = [bg EXCEPT ![j] = Idle] /\ queue' = Tail(queue)
                 /\ UNCHANGED mem
        BY <2>2, <3>1, SleepFrame, SleepTypes DEF Idle, At
      <3>2. CASE Guarded(j) /\ Note(j, bg[j].ph, FALSE, Tail(queue))
        <4>1. bg[j].ph \in Step /\ Working(j)
          BY <1>0, <3>2 DEF BgRecord, Guarded, Working
        <4> QED BY <2>2, <3>2, <4>1, NoteFrame
      <3>3. CASE Catch(j, Tail(queue))
        BY <2>2, <3>3, CatchFrame
      <3> QED BY <1>13, <3>1, <3>2, <3>3 DEF StoreRejects
    <2>4. StoreStep(j)
      BY <1>0, <2>1, StoreFrame
    <2>5. ProfileOK'
      <3>1. chain' \in Seq(Process)
        BY <1>0, <1>13, ChainTypes DEF StoreRejects, ProfileOK
      <3> QED BY <1>0, <1>13, <3>1 DEF StoreRejects, ProfileOK
    <2>6. EffectsOK'
      BY <1>0, <1>13 DEF StoreRejects, EffectsOK, fxVars
    <2> QED BY <2>1, <2>3, <2>4, <2>5, <2>6
  <1>14. CASE SaveRejects(j)
    <2>1. bg[j].at # "idle" /\ Frame /\ SaveBroken("bg", j)
      BY <1>14 DEF SaveRejects
    <2>2. JobStep(j)
      BY <1>0, <1>14, CatchFrame DEF SaveRejects, StoreOK
    <2>3. StoreStep(j)
      BY <1>0, <1>14, StoreFrame DEF SaveRejects
    <2>4. ProfileOK'
      <3>1. saved' \subseteq Effect /\ saves' \in Seq(ProfileSave)
        BY <1>0, <2>1, SaveBrokenType
      <3>2. chain' \in Seq(Process)
        BY <1>0, <1>14, ChainTypes DEF SaveRejects
      <3> QED BY <1>0, <1>14, <3>1, <3>2 DEF SaveRejects, ProfileOK
    <2>5. EffectsOK'
      BY <1>0, <1>14 DEF SaveRejects, EffectsOK, fxVars
    <2> QED BY <2>1, <2>2, <2>3, <2>4, <2>5
  <1> QED BY <1>1, <1>2, <1>3, <1>4, <1>5, <1>6, <1>7, <1>8, <1>9, <1>10,
             <1>11, <1>12, <1>13, <1>14 DEF Background

-----------------------------------------------------------------------------
(* The actions of an endCall *)

CallStatus == {"none", "composing", "in_call", "ending", "ended", "lost"}

\* An endCall goes on to its next await.
LEMMA EndChangeFrame ==
    ASSUME IndInv, NEW j \in Job, end[j].at # "idle",
           NEW r \in EndRecord, r.at # "idle", r.sess = end[j].sess,
           end' = [end EXCEPT ![j] = r],
           call' \in [Session -> CallStatus], active' \in Session \cup {None}
    PROVE  EndStep(j)
  <1>1. end \in [Job -> EndRecord] /\ end[j].sess \in Session
    BY DEF IndInv, TypeOK, CallsOK
  <1>2. end'[j] = r /\ \A k \in Job \ {j} : end'[k] = end[k]
    BY <1>1
  <1>3. end' \in [Job -> EndRecord]
    BY <1>1
  <1>4. \A k \in Job : end'[k].at # "idle" => end'[k].sess \in Session
    BY <1>1, <1>2 DEF IndInv, TypeOK, CallsOK
  <1> QED BY <1>2, <1>3, <1>4 DEF EndStep, CallsOK, CallStatus

\* The same when nothing but the await changes.
LEMMA EndFrame ==
    ASSUME IndInv, NEW j \in Job, end[j].at # "idle",
           NEW x \in EndAt \ {"idle"}, Moved(j, x),
           call' \in [Session -> CallStatus], active' \in Session \cup {None}
    PROVE  EndStep(j)
  <1> DEFINE r == [end[j] EXCEPT !.at = x]
  <1>1. r \in EndRecord /\ r.at = x /\ r.sess = end[j].sess
    BY DEF IndInv, TypeOK, CallsOK, EndRecord
  <1>2. end' = [end EXCEPT ![j] = r]
    BY DEF Moved
  <1> QED BY <1>1, <1>2, EndChangeFrame

\* Every step of endCall j keeps the invariant.
LEMMA EndingKeeps ==
    ASSUME IndInv, NEW j \in Job, Ending(j)
    PROVE  IndInv'
  <1>0. /\ CallsOK /\ JobsOK /\ StoreOK /\ ProfileOK /\ EffectsOK
        /\ "end" \in Who /\ mem[j] \in JobRecord
        /\ call \in [Session -> CallStatus] /\ active \in Session \cup {None}
    BY DEF IndInv, TypeOK, CallsOK, JobsOK, CallStatus, Who
  <1> DEFINE Frame == UNCHANGED <<retrying, recov, crashes>>
  <1> SUFFICES /\ end[j].at \notin Over \cup {"idle"} /\ Frame
               /\ EndStep(j) /\ JobStep(j) /\ StoreStep(j)
               /\ ProfileOK' /\ EffectsOK'
    BY EndingFrame, OwnStepKeeps
  <1>1. CASE ExitSelected(j)
    <2>1. end[j].at = "hooks" /\ Frame
      BY <1>1 DEF ExitSelected, jobVars
    <2>2. PICK x \in Exit : Select(j, x, "preload")
      BY <1>1 DEF ExitSelected
    <2>3. /\ session' \in [Session -> CallSession]
          /\ \E r \in EndRecord : /\ r.at = "preload" /\ r.sess = end[j].sess
                                  /\ end' = [end EXCEPT ![j] = r]
      BY <1>0, <2>1, <2>2, SelectTypes DEF CallsOK, EndAt
    <2>4. EndStep(j)
      <3>1. /\ call' \in [Session -> CallStatus]
            /\ active' \in Session \cup {None}
        BY <1>0, <1>1 DEF ExitSelected, CallStatus
      <3> QED BY <2>1, <2>3, <3>1, EndChangeFrame
    <2>5. JobStep(j)
      BY <1>0, <1>1, SameJobs DEF ExitSelected, jobVars, storeVars, StoreOK
    <2>6. StoreStep(j)
      BY <1>0, <1>1, StoreFrame DEF ExitSelected, storeVars
    <2>7. ProfileOK' /\ EffectsOK'
      BY <1>0, <1>1, <2>3 DEF ExitSelected, ProfileOK, EffectsOK, profVars
    <2> QED BY <2>1, <2>4, <2>5, <2>6, <2>7 DEF Over
  <1>2. CASE NoExit(j)
    <2>1. end[j].at = "hooks" /\ Moved(j, "aborting") /\ Frame
      BY <1>2 DEF NoExit, jobVars
    <2>2. EndStep(j)
      <3>1. /\ call' \in [Session -> CallStatus]
            /\ active' \in Session \cup {None}
        BY <1>0, <1>2 DEF NoExit, CallStatus
      <3> QED BY <2>1, <3>1, EndFrame DEF EndAt
    <2>3. JobStep(j)
      BY <1>0, <1>2, SameJobs DEF NoExit, jobVars, storeVars, StoreOK
    <2>4. StoreStep(j)
      BY <1>0, <1>2, StoreFrame DEF NoExit, storeVars
    <2>5. ProfileOK' /\ EffectsOK'
      BY <1>0, <1>2 DEF NoExit, ProfileOK, EffectsOK, profVars, fxVars
    <2> QED BY <2>1, <2>2, <2>3, <2>4, <2>5 DEF Over
  <1>3. CASE AbortCall(j)
    <2>1. end[j].at = "aborting" /\ Moved(j, "abort_save") /\ Frame
      BY <1>3 DEF AbortCall, jobVars
    <2>2. EndStep(j)
      <3>1. /\ call' \in [Session -> CallStatus]
            /\ active' \in Session \cup {None}
        BY <1>0, <1>3 DEF AbortCall, CallStatus
      <3> QED BY <2>1, <3>1, EndFrame DEF EndAt
    <2>3. JobStep(j)
      BY <1>0, <1>3, SameJobs DEF AbortCall, jobVars, storeVars, StoreOK
    <2>4. StoreStep(j)
      BY <1>0, <1>3, StoreFrame DEF AbortCall, storeVars
    <2>5. ProfileOK'
      <3>1. saves' \in Seq(ProfileSave)
        BY <1>0, <1>3, IssueSaveType DEF AbortCall, ProfileOK
      <3> QED BY <1>0, <1>3, <3>1 DEF AbortCall, ProfileOK
    <2>6. EffectsOK'
      BY <1>0, <1>3 DEF AbortCall, EffectsOK, fxVars
    <2> QED BY <2>1, <2>2, <2>3, <2>4, <2>5, <2>6 DEF Over
  <1>4. CASE CallAborted(j)
    <2>1. /\ end[j].at = "abort_save" /\ Moved(j, "returned") /\ Frame
          /\ Saved("end", j)
      BY <1>4 DEF CallAborted, jobVars
    <2>2. EndStep(j)
      <3>1. /\ call' \in [Session -> CallStatus]
            /\ active' \in Session \cup {None}
        BY <1>0, <1>4 DEF CallAborted, FreeUser
      <3> QED BY <2>1, <3>1, EndFrame DEF EndAt
    <2>3. JobStep(j)
      BY <1>0, <1>4, SameJobs DEF CallAborted, jobVars, storeVars, StoreOK
    <2>4. StoreStep(j)
      BY <1>0, <1>4, StoreFrame DEF CallAborted, storeVars
    <2>5. ProfileOK'
      <3>1. saved' \subseteq Effect /\ saves' \in Seq(ProfileSave)
        BY <1>0, <2>1, SavedType
      <3> QED BY <1>0, <1>4, <3>1 DEF CallAborted, ProfileOK
    <2>6. EffectsOK'
      BY <1>0, <1>4 DEF CallAborted, EffectsOK, fxVars
    <2> QED BY <2>1, <2>2, <2>3, <2>4, <2>5, <2>6 DEF Over
  <1>5. CASE JobRegistered(j)
    <2>1. /\ end[j].at = "register" /\ Moved(j, "queued") /\ Frame
          /\ Landed("end", j)
      BY <1>5 DEF JobRegistered, jobVars
    <2>2. EndStep(j)
      <3>1. /\ call' \in [Session -> CallStatus]
            /\ active' \in Session \cup {None}
        BY <1>0, <1>5 DEF JobRegistered
      <3> QED BY <2>1, <3>1, EndFrame DEF EndAt
    <2>3. JobStep(j)
      <3>1. queue' \in Seq(StoreWrite)
        BY <1>0, <1>5, <2>1, QueueFrame DEF JobRegistered
      <3> QED BY <1>5, <3>1, SameJobs DEF JobRegistered, jobVars
    <2>4. StoreStep(j)
      BY <1>0, <2>1, StoreFrame
    <2>5. ProfileOK'
      <3>1. chain' \in Seq(Process)
        BY <1>0, <1>5, ChainTypes DEF JobRegistered
      <3> QED BY <1>0, <1>5, <3>1 DEF JobRegistered, ProfileOK
    <2>6. EffectsOK'
      BY <1>0, <1>5 DEF JobRegistered, EffectsOK, fxVars
    <2> QED BY <2>1, <2>2, <2>3, <2>4, <2>5, <2>6 DEF Over
  <1>6. CASE RunSyncEffects(j)
    <2>1. end[j].at = "queued" /\ Frame
      BY <1>6 DEF RunSyncEffects, jobVars
    <2>2. /\ end[j].sess \in Session
          /\ end[j] \in EndRecord
          /\ EffectOf(j, "sync") \in Effect /\ Key(j, "sync") \in Entry
      <3>1. end[j].sess \in Session /\ end[j] \in EndRecord
        BY <1>0, <2>1 DEF CallsOK
      <3> QED BY <1>0, <3>1, EffectTypes DEF Kind
    <2>3. EndStep(j)
      <3>1. PICK plan \in Plan :
               end' = [end EXCEPT ![j].at = "saving", ![j].plan = plan]
        BY <1>6 DEF RunSyncEffects
      <3> DEFINE r == [end[j] EXCEPT !.at = "saving", !.plan = plan]
      <3>2. r \in EndRecord /\ r.at = "saving" /\ r.sess = end[j].sess
        BY <2>2 DEF EndRecord, EndAt
      <3>3. end' = [end EXCEPT ![j] = r]
        BY <3>1
      <3>4. UNCHANGED <<call, active>>
        BY <1>6 DEF RunSyncEffects
      <3> QED BY <1>0, <2>1, <3>2, <3>3, <3>4, EndChangeFrame
    <2>4. JobStep(j)
      BY <1>0, <1>6, SameJobs DEF RunSyncEffects, jobVars, storeVars, StoreOK
    <2>5. StoreStep(j)
      BY <1>0, <1>6, StoreFrame DEF RunSyncEffects, storeVars
    <2>6. ProfileOK'
      <3>1. profile' \subseteq Effect
        BY <1>0, <1>6, <2>2 DEF RunSyncEffects, ProfileOK
      <3>2. saves' \in Seq(ProfileSave)
        BY <1>0, <1>6, <3>1, IssueSaveType DEF RunSyncEffects, ProfileOK
      <3> QED BY <1>0, <1>6, <3>1, <3>2 DEF RunSyncEffects, ProfileOK
    <2>7. EffectsOK'
      <3>1. UNCHANGED played
        BY <1>6 DEF RunSyncEffects
      <3>2. \/ UNCHANGED <<session, applied>>
            \/ Executed(j, Key(j, "sync")) /\ applied' = Bump(applied, j)
        BY <1>6 DEF RunSyncEffects
      <3> QED BY <1>0, <2>2, <3>1, <3>2, ExecutedTypes DEF EffectsOK
    <2> QED BY <2>1, <2>3, <2>4, <2>5, <2>6, <2>7 DEF Over
  <1>7. CASE SyncSaved(j)
    <2>1. end[j].at = "saving" /\ Frame /\ Saved("end", j)
      BY <1>7 DEF SyncSaved
    <2>2. EndStep(j)
      <3>1. /\ call' \in [Session -> CallStatus]
            /\ active' \in Session \cup {None}
        BY <1>0, <1>7 DEF SyncSaved, FreeUser, CallStatus
      <3>2. Moved(j, "fail") \/ Moved(j, "commit")
        BY <1>7 DEF SyncSaved
      <3> QED BY <2>1, <3>1, <3>2, EndFrame DEF EndAt
    <2>3. JobStep(j)
      <3> DEFINE r == SyncResult(mem[j], end[j].plan)
      <3>1. r \in JobRecord
        BY <1>0, RecordTypes
      <3>2. r.status \in ActiveStatus
        BY <1>0 DEF SyncResult, Failed, JobRecord, ActiveStatus
      <3>3. Set("end", j, r, queue) /\ UNCHANGED bg
        BY <1>7 DEF SyncSaved
      <3> QED BY <1>0, <3>1, <3>2, <3>3, SetFrame DEF StoreOK
    <2>4. StoreStep(j)
      BY <1>0, <1>7, StoreFrame DEF SyncSaved
    <2>5. ProfileOK'
      <3>1. saved' \subseteq Effect /\ saves' \in Seq(ProfileSave)
        BY <1>0, <2>1, SavedType
      <3>2. chain' \in Seq(Process)
        BY <1>0, <1>7, ChainTypes DEF SyncSaved
      <3> QED BY <1>0, <1>7, <3>1, <3>2 DEF SyncSaved, ProfileOK
    <2>6. EffectsOK'
      BY <1>0, <1>7 DEF SyncSaved, EffectsOK, fxVars
    <2> QED BY <2>1, <2>2, <2>3, <2>4, <2>5, <2>6 DEF Over
  <1>8. CASE JobCommitted(j)
    <2>1. /\ end[j].at = "commit" /\ Moved(j, "kick") /\ Frame
          /\ Landed("end", j)
      BY <1>8 DEF JobCommitted
    <2>2. EndStep(j)
      <3>1. /\ call' \in [Session -> CallStatus]
            /\ active' \in Session \cup {None}
        BY <1>0, <1>8 DEF JobCommitted
      <3> QED BY <2>1, <3>1, EndFrame DEF EndAt
    <2>3. JobStep(j)
      <3> DEFINE r == WithStatus(mem[j], "background_pending")
      <3>1. r \in JobRecord
        BY <1>0, RecordTypes DEF JobStatus, ActiveStatus
      <3>2. r.status \in ActiveStatus
        BY <1>0 DEF WithStatus, JobRecord, ActiveStatus
      <3>3. Tail(queue) \in Seq(StoreWrite)
        BY <1>0, <2>1, QueueFrame
      <3> QED BY <1>0, <1>8, <3>1, <3>2, <3>3, SetFrame DEF JobCommitted
    <2>4. StoreStep(j)
      BY <1>0, <2>1, StoreFrame
    <2>5. ProfileOK' /\ EffectsOK'
      BY <1>0, <1>8 DEF JobCommitted, ProfileOK, EffectsOK, profVars, fxVars
    <2> QED BY <2>1, <2>2, <2>3, <2>4, <2>5 DEF Over
  <1>9. CASE JobKicked(j)
    <2>1. /\ end[j].at = "kick" /\ Moved(j, "returned") /\ Frame
          /\ Landed("end", j)
      BY <1>9 DEF JobKicked
    <2>2. EndStep(j)
      <3>1. /\ call' \in [Session -> CallStatus]
            /\ active' \in Session \cup {None}
        BY <1>0, <1>9 DEF JobKicked
      <3> QED BY <2>1, <3>1, EndFrame DEF EndAt
    <2>3. JobStep(j)
      <3>1. Tail(queue) \in Seq(StoreWrite)
        BY <1>0, <2>1, QueueFrame
      <3> QED BY <1>9, <3>1, StartFrame DEF JobKicked
    <2>4. StoreStep(j)
      BY <1>0, <2>1, StoreFrame
    <2>5. ProfileOK' /\ EffectsOK'
      BY <1>0, <1>9 DEF JobKicked, ProfileOK, EffectsOK, profVars, fxVars
    <2> QED BY <2>1, <2>2, <2>3, <2>4, <2>5 DEF Over
  <1>10. CASE JobFailed(j) \/ EndStoreRejects(j)
    <2>1. /\ end[j].at \in {"register", "commit", "kick", "fail"} /\ Frame
          /\ Moved(j, "returned") \/ Moved(j, "rejected")
          /\ Landed("end", j) \/ Broken("end", j)
      BY <1>10 DEF JobFailed, EndStoreRejects, jobVars
    <2>2. EndStep(j)
      <3>1. /\ call' \in [Session -> CallStatus]
            /\ active' \in Session \cup {None}
        BY <1>0, <1>10 DEF JobFailed, EndStoreRejects
      <3> QED BY <2>1, <3>1, EndFrame DEF EndAt
    <2>3. JobStep(j)
      <3>1. queue' \in Seq(StoreWrite)
        BY <1>0, <1>10, <2>1, QueueFrame DEF JobFailed, EndStoreRejects
      <3> QED BY <1>10, <3>1, SameJobs DEF JobFailed, EndStoreRejects, jobVars
    <2>4. StoreStep(j)
      BY <1>0, <2>1, StoreFrame
    <2>5. ProfileOK' /\ EffectsOK'
      BY <1>0, <1>10 DEF JobFailed, EndStoreRejects, ProfileOK, EffectsOK,
                         profVars, fxVars
    <2> QED BY <2>1, <2>2, <2>3, <2>4, <2>5 DEF Over
  <1>11. CASE EndSaveRejects(j)
    <2>1. /\ end[j].at \in {"saving", "abort_save"} /\ Frame
          /\ Moved(j, "rejected") /\ SaveBroken("end", j)
      BY <1>11 DEF EndSaveRejects, jobVars
    <2>2. EndStep(j)
      <3>1. /\ call' \in [Session -> CallStatus]
            /\ active' \in Session \cup {None}
        BY <1>0, <1>11 DEF EndSaveRejects
      <3> QED BY <2>1, <3>1, EndFrame DEF EndAt
    <2>3. JobStep(j)
      BY <1>0, <1>11, SameJobs DEF EndSaveRejects, jobVars, storeVars, StoreOK
    <2>4. StoreStep(j)
      BY <1>0, <1>11, StoreFrame DEF EndSaveRejects, storeVars
    <2>5. ProfileOK'
      <3>1. saved' \subseteq Effect /\ saves' \in Seq(ProfileSave)
        BY <1>0, <2>1, SaveBrokenType
      <3>2. chain' \in Seq(Process)
        BY <1>0, <1>11, ChainTypes DEF EndSaveRejects
      <3> QED BY <1>0, <1>11, <3>1, <3>2 DEF EndSaveRejects, ProfileOK
    <2>6. EffectsOK'
      BY <1>0, <1>11 DEF EndSaveRejects, EffectsOK, fxVars
    <2> QED BY <2>1, <2>2, <2>3, <2>4, <2>5, <2>6 DEF Over
  <1>12. CASE JobBuilt(j)
    <2>1. end[j].at = "preload" /\ Frame
      BY <1>12 DEF JobBuilt
    <2>2. /\ session' \in [Session -> CallSession]
          /\ \E r \in EndRecord : /\ r.at = "register" /\ r.sess = end[j].sess
                                  /\ end' = [end EXCEPT ![j] = r]
      <3>1. CASE Moved(j, "register") /\ UNCHANGED session
        <4> DEFINE r == [end[j] EXCEPT !.at = "register"]
        <4>1. r \in EndRecord /\ r.at = "register" /\ r.sess = end[j].sess
          BY <1>0 DEF CallsOK, EndRecord, EndAt
        <4>2. end' = [end EXCEPT ![j] = r]
          BY <3>1 DEF Moved
        <4> QED BY <1>0, <3>1, <4>1, <4>2 DEF EffectsOK
      <3>2. CASE \E x \in Exit : Select(j, x, "register")
        BY <1>0, <2>1, <3>2, SelectTypes DEF CallsOK, EndAt
      <3> QED BY <1>12, <3>1, <3>2 DEF JobBuilt
    <2>3. EndStep(j)
      <3>1. UNCHANGED <<call, active>>
        BY <1>12 DEF JobBuilt
      <3> QED BY <1>0, <2>1, <2>2, <3>1, EndChangeFrame
    <2>4. JobStep(j)
      <3>1. PICK deferred \in BOOLEAN : Set("end", j, Closing(deferred), queue)
        <4> DEFINE d == end'[j].exit \in WithMedia
        <4>1. Set("end", j, Closing(d), queue)
          BY <1>12 DEF JobBuilt
        <4>2. d \in BOOLEAN
          OBVIOUS
        <4> HIDE DEF d
        <4> QED BY <4>1, <4>2
      <3>2. Closing(deferred) \in JobRecord
        BY NewRecordTypes
      <3>3. Closing(deferred).status \in ActiveStatus
        BY DEF Closing, Rec, ActiveStatus
      <3> QED BY <1>0, <1>12, <3>1, <3>2, <3>3, SetFrame
              DEF JobBuilt, StoreOK
    <2>5. StoreStep(j)
      BY <1>0, <1>12, StoreFrame DEF JobBuilt
    <2>6. ProfileOK' /\ EffectsOK'
      BY <1>0, <1>12, <2>2 DEF JobBuilt, ProfileOK, EffectsOK, profVars
    <2> QED BY <2>1, <2>3, <2>4, <2>5, <2>6 DEF Over
  <1>13. CASE HooksDone(j)
    <2>1. end[j].at = "hooks" /\ Moved(j, "preload") /\ Frame
      BY <1>13 DEF HooksDone, jobVars
    <2>2. EndStep(j)
      <3>1. /\ call' \in [Session -> CallStatus]
            /\ active' \in Session \cup {None}
        BY <1>0, <1>13 DEF HooksDone, CallStatus
      <3> QED BY <2>1, <3>1, EndFrame DEF EndAt
    <2>3. JobStep(j)
      BY <1>0, <1>13, SameJobs DEF HooksDone, jobVars, storeVars, StoreOK
    <2>4. StoreStep(j)
      BY <1>0, <1>13, StoreFrame DEF HooksDone, storeVars
    <2>5. ProfileOK' /\ EffectsOK'
      BY <1>0, <1>13 DEF HooksDone, ProfileOK, EffectsOK, profVars, fxVars
    <2> QED BY <2>1, <2>2, <2>3, <2>4, <2>5 DEF Over
  <1> QED BY <1>1, <1>2, <1>3, <1>4, <1>5, <1>6, <1>7, <1>8, <1>9, <1>10,
             <1>11, <1>12, <1>13 DEF Ending

-----------------------------------------------------------------------------
(* Retry and recovery *)

\* A retry or the recovery of j that changes only what belongs to j.
LEMMA RestartFrame ==
    ASSUME IndInv, NEW j \in Job, end[j].at # "idle",
           UNCHANGED <<callVars, profVars, fxVars, crashes>>,
           JobStep(j), StoreStep(j),
           retrying' \in [Job -> Nat],
           \A k \in Job \ {j} : retrying'[k] = retrying[k],
           recov'.todo \subseteq recov.todo \ {j},
           recov' \in [todo : SUBSET Job, job : Job \cup {None},
                       start : BOOLEAN],
           recov'.job \in {recov.job, None, j}
    PROVE  IndInv'
  <1>1. EndStep(j)
    BY DEF IndInv, TypeOK, CallsOK, EndStep, callVars
  <1>2. ProfileOK' /\ EffectsOK' /\ crashes' \in Nat
    BY DEF IndInv, TypeOK, ProfileOK, EffectsOK, profVars, fxVars
  <1> QED BY <1>1, <1>2, OwnStepKeeps DEF OwnStep

\* retryPostCallJob of j keeps the invariant.
LEMMA RetryKeeps ==
    ASSUME IndInv, NEW j \in Job, Retry(j) \/ Retrying(j)
    PROVE  IndInv'
  <1>0. /\ CallsOK /\ JobsOK /\ StoreOK /\ ProfileOK /\ EffectsOK
        /\ "retry" \in Who /\ mem[j] \in JobRecord
        /\ retrying \in [Job -> Nat]
        /\ recov \in [todo : SUBSET Job, job : Job \cup {None},
                      start : BOOLEAN]
    BY DEF IndInv, TypeOK, JobsOK, Who
  <1>1. CASE Retry(j)
    <2>1. mem[j] # Absent
      BY <1>1 DEF Retry, Retryable, Absent, Rec
    <2>2. end[j].at # "idle" /\ j \notin recov.todo
      BY <2>1 DEF IndInv, Fresh, ToVisit
    <2>3. Reset(mem[j]) \in JobRecord
      BY <1>0, RecordTypes
    <2>4. Reset(mem[j]).status \in ActiveStatus
      BY <1>0 DEF Reset, JobRecord, ActiveStatus
    <2>5. JobStep(j)
      BY <1>0, <1>1, <2>3, <2>4, SetFrame DEF Retry, StoreOK
    <2>6. StoreStep(j)
      BY <1>0, <1>1, StoreFrame DEF Retry
    <2>7. /\ retrying' \in [Job -> Nat]
          /\ \A k \in Job \ {j} : retrying'[k] = retrying[k]
      BY <1>0, <1>1 DEF Retry
    <2> QED BY <1>0, <1>1, <2>2, <2>5, <2>6, <2>7, RestartFrame DEF Retry
  <1>2. CASE Retrying(j)
    <2>1. retrying[j] > 0 /\ (Landed("retry", j) \/ Broken("retry", j))
      BY <1>2 DEF Retrying, RetryStarts, RetryRejects
    <2>2. end[j].at # "idle" /\ j \notin recov.todo
      BY <2>1 DEF IndInv, Fresh, ToVisit
    <2>3. Tail(queue) \in Seq(StoreWrite)
      BY <1>0, <2>1, QueueFrame
    <2>4. JobStep(j)
      BY <1>2, <2>3, StartFrame, SameJobs
      DEF Retrying, RetryStarts, RetryRejects
    <2>5. StoreStep(j)
      BY <1>0, <2>1, StoreFrame
    <2>6. /\ retrying' \in [Job -> Nat]
          /\ \A k \in Job \ {j} : retrying'[k] = retrying[k]
      BY <1>0, <1>2, <2>1 DEF Retrying, RetryStarts, RetryRejects
    <2> QED BY <1>0, <1>2, <2>2, <2>4, <2>5, <2>6, RestartFrame
            DEF Retrying, RetryStarts, RetryRejects
  <1> QED BY <1>1, <1>2

\* recoverPostCallJobs at job j keeps the invariant.
LEMMA RecoveringKeeps ==
    ASSUME IndInv, NEW j \in Job, Recovering(j)
    PROVE  IndInv'
  <1>0. /\ CallsOK /\ JobsOK /\ StoreOK /\ ProfileOK /\ EffectsOK
        /\ "recover" \in Who /\ disk[j] \in JobRecord
        /\ retrying \in [Job -> Nat]
        /\ recov \in [todo : SUBSET Job, job : Job \cup {None},
                      start : BOOLEAN]
        /\ j # None
    BY HostAssumption DEF IndInv, TypeOK, JobsOK, StoreOK, Who
  <1>1. CASE RecoverTerminal(j)
    <2>1. end[j].at # "idle" /\ bg[j].at = "idle"
      BY <1>1 DEF RecoverTerminal, Visitable, IndInv, ToVisit, Over
    <2>2. JobStep(j)
      BY <1>0, <1>1, <2>1
      DEF RecoverTerminal, JobStep, JobsOK, StoreOK, storeVars, Working,
          BgRecord
    <2>3. StoreStep(j)
      BY <1>0, <1>1, StoreFrame DEF RecoverTerminal, storeVars
    <2> QED BY <1>0, <1>1, <2>1, <2>2, <2>3, RestartFrame DEF RecoverTerminal
  <1>2. CASE RecoverJob(j)
    <2>1. end[j].at # "idle"
      BY <1>2 DEF RecoverJob, Visitable, IndInv, ToVisit, Over
    <2>2. PICK r \in {WithStatus(disk[j], "background_pending"),
                      Failed(disk[j])} : Set("recover", j, r, queue)
      BY <1>2 DEF RecoverJob
    <2>3. r \in JobRecord
      BY <1>0, RecordTypes DEF JobStatus, ActiveStatus
    <2>4. r.status \in ActiveStatus
      BY <1>0 DEF WithStatus, Failed, JobRecord, ActiveStatus
    <2>5. JobStep(j)
      BY <1>0, <1>2, <2>2, <2>3, <2>4, SetFrame DEF RecoverJob, StoreOK
    <2>6. StoreStep(j)
      BY <1>0, <1>2, StoreFrame DEF RecoverJob
    <2>7. /\ recov' \in [todo : SUBSET Job, job : Job \cup {None},
                         start : BOOLEAN]
          /\ recov'.todo \subseteq recov.todo \ {j} /\ recov'.job = j
      <3>1. Resumable(j) \in BOOLEAN
        BY <1>0 DEF Resumable, ProfileOK, JobRecord
      <3> QED BY <1>0, <1>2, <3>1 DEF RecoverJob
    <2> QED BY <1>0, <1>2, <2>1, <2>5, <2>6, <2>7, RestartFrame DEF RecoverJob
  <1>3. CASE JobRecovered(j) \/ RecoverRejects(j)
    <2>1. /\ recov.job = j
          /\ Landed("recover", j) \/ Broken("recover", j)
      BY <1>3 DEF JobRecovered, RecoverRejects
    <2>2. end[j].at # "idle" /\ j \notin recov.todo
      BY <2>1 DEF IndInv, Fresh, ToVisit
    <2>3. Tail(queue) \in Seq(StoreWrite)
      BY <1>0, <2>1, QueueFrame
    <2>4. JobStep(j)
      BY <1>3, <2>3, StartFrame, SameJobs DEF JobRecovered, RecoverRejects
    <2>5. StoreStep(j)
      BY <1>0, <2>1, StoreFrame
    <2>6. /\ recov' \in [todo : SUBSET Job, job : Job \cup {None},
                         start : BOOLEAN]
          /\ recov'.todo \subseteq recov.todo \ {j} /\ recov'.job = None
      <3>1. CASE JobRecovered(j)
        <4>1. recov' = [recov EXCEPT !.job = None, !.start = FALSE]
          BY <3>1 DEF JobRecovered
        <4>2. recov'.todo = recov.todo /\ recov'.job = None
          BY <1>0, <4>1
        <4>3. recov' \in [todo : SUBSET Job, job : Job \cup {None},
                          start : BOOLEAN]
          BY <1>0, <4>1
        <4> QED BY <2>2, <4>2, <4>3
      <3>2. CASE RecoverRejects(j)
        BY <3>2 DEF RecoverRejects, NotRecovering
      <3> QED BY <1>3, <3>1, <3>2
    <2> QED BY <1>0, <1>3, <2>2, <2>4, <2>5, <2>6, RestartFrame
            DEF JobRecovered, RecoverRejects
  <1> QED BY <1>1, <1>2, <1>3 DEF Recovering

-----------------------------------------------------------------------------
(* The steps that belong to no job *)

\* A beginCall changes the calls and nothing else.
LEMMA BeginKeeps ==
    ASSUME IndInv, NEW s \in Session,
           BeginCall(s) \/ CallBegun(s) \/ ComposeFails(s)
    PROVE  IndInv'
  <1>1. CallsOK'
    BY DEF IndInv, TypeOK, CallsOK, BeginCall, CallBegun, ComposeFails
  <1>2. UNCHANGED <<end, jobVars, storeVars, profVars, fxVars, crashes>>
    BY DEF BeginCall, CallBegun, ComposeFails
  <1>3. TypeOK'
    BY <1>1, <1>2 DEF IndInv, TypeOK, JobsOK, StoreOK, ProfileOK, EffectsOK,
                      jobVars, storeVars, profVars, fxVars
  <1>4. Fresh' /\ ToVisit' /\ BusyWhileWorking'
    BY <1>2 DEF IndInv, Fresh, ToVisit, BusyWhileWorking, Working, jobVars,
                storeVars
  <1> QED BY <1>3, <1>4 DEF IndInv

\* An endCall starts with a job that nobody has seen.
LEMMA EndCallKeeps ==
    ASSUME IndInv, NEW j \in Job, NEW s \in Session, EndCall(j, s)
    PROVE  IndInv'
  <1>1. /\ end[j].at = "idle"
        /\ end' = [end EXCEPT ![j] = [NoEnd EXCEPT !.at = "hooks", !.sess = s]]
        /\ call' = [call EXCEPT ![s] = "ending"]
        /\ UNCHANGED <<active, jobVars, storeVars, profVars, fxVars, crashes>>
    BY DEF EndCall
  <1>2. EndStep(j)
    <2>1. end \in [Job -> EndRecord]
      BY DEF IndInv, TypeOK, CallsOK
    <2>2. [NoEnd EXCEPT !.at = "hooks", !.sess = s] \in EndRecord
      BY DEF NoEnd, EndRecord, EndAt, Plan, Choice
    <2>3. end' \in [Job -> EndRecord]
      BY <1>1, <2>1, <2>2
    <2>4. end'[j].at = "hooks" /\ end'[j].sess = s
      BY <1>1, <2>1 DEF NoEnd
    <2>5. \A k \in Job \ {j} : end'[k] = end[k]
      BY <1>1, <2>1
    <2>6. \A k \in Job : end'[k].at # "idle" => end'[k].sess \in Session
      BY <2>4, <2>5 DEF IndInv, TypeOK, CallsOK
    <2>7. call' \in [Session -> CallStatus] /\ active' \in Session \cup {None}
      BY <1>1 DEF IndInv, TypeOK, CallsOK, CallStatus
    <2> QED BY <2>3, <2>4, <2>5, <2>6, <2>7 DEF EndStep, CallsOK, CallStatus
  <1>3. JobStep(j)
    BY <1>1, SameJobs DEF IndInv, TypeOK, StoreOK, jobVars, storeVars
  <1>4. StoreStep(j)
    BY <1>1 DEF IndInv, TypeOK, StoreOK, StoreStep, storeVars
  <1>5. j \notin recov.todo
    BY <1>1 DEF IndInv, Fresh
  <1>6. ProfileOK' /\ EffectsOK' /\ crashes' \in Nat
    BY <1>1 DEF IndInv, TypeOK, ProfileOK, EffectsOK, profVars, fxVars
  <1>7. UNCHANGED <<retrying, recov>> /\ JobsOK
    BY <1>1 DEF IndInv, TypeOK, jobVars
  <1>8. OwnStep(j)
    BY <1>2, <1>3, <1>4, <1>5, <1>6, <1>7 DEF OwnStep, JobsOK
  <1> QED BY <1>8, OwnStepKeeps

\* The second half of a mirrored write, the restart and the shell's loading of
\* the profile keep the invariant.
LEMMA HostKeeps ==
    ASSUME IndInv, CreateMissing \/ Crash \/ EnsureProfile
    PROVE  IndInv'
  <1>1. CASE CreateMissing
    <2>1. Head(queue) \in StoreWrite /\ Tail(queue) \in Seq(StoreWrite)
      BY <1>1, TailTypes DEF CreateMissing, IndInv, TypeOK, StoreOK
    <2>2. [Head(queue) EXCEPT !.op = "create"] \in StoreWrite
      BY <2>1 DEF StoreWrite
    <2>3. queue' \in Seq(StoreWrite)
      BY <1>1, <2>1, <2>2, AppendProperties DEF CreateMissing
    <2>4. UNCHANGED <<callVars, jobVars, disk, snapshot, profVars, fxVars,
                      crashes>>
      BY <1>1 DEF CreateMissing
    <2>5. TypeOK'
      BY <2>3, <2>4
      DEF IndInv, TypeOK, CallsOK, JobsOK, StoreOK, ProfileOK, EffectsOK,
          callVars, jobVars, profVars, fxVars
    <2>6. Fresh' /\ ToVisit' /\ BusyWhileWorking'
      BY <2>4 DEF IndInv, Fresh, ToVisit, BusyWhileWorking, Working, callVars,
                  jobVars
    <2> QED BY <2>5, <2>6 DEF IndInv
  <1>2. CASE Crash
    <2>1. /\ bg' = [j \in Job |-> Idle]
          /\ mem' = [j \in Job |-> Absent]
          /\ disk' = [j \in Job |-> Reclaim(disk[j])]
          /\ retrying' = [k \in Job |-> 0]
          /\ recov' = [NotRecovering EXCEPT !.todo =
                          {j \in Job : disk[j].status # "absent"}]
      BY <1>2 DEF Crash
    <2>2. \A j \in Job : Reclaim(disk[j]) \in JobRecord
      BY RecordTypes DEF IndInv, TypeOK, StoreOK
    <2>3. disk' \in [Job -> JobRecord]
      BY <2>1, <2>2
    <2>4. end \in [Job -> EndRecord]
      BY DEF IndInv, TypeOK, CallsOK
    <2>5. \A j \in Job :
             /\ end'[j] \in EndRecord
             /\ end'[j].sess = end[j].sess
             /\ end'[j].at = (IF end[j].at \in {"idle", "returned", "rejected"}
                              THEN end[j].at ELSE "crashed")
      BY <1>2, <2>4 DEF Crash, EndRecord, EndAt
    <2>6. CallsOK'
      <3>1. end' \in [Job -> EndRecord]
        BY <1>2, <2>5 DEF Crash
      <3>2. call' \in [Session -> CallStatus]
        BY <1>2 DEF Crash, IndInv, TypeOK, CallsOK, CallStatus
      <3>3. active' = None
        BY <1>2 DEF Crash
      <3>4. \A j \in Job : end'[j].at # "idle" => end'[j].sess \in Session
        BY <2>5 DEF IndInv, TypeOK, CallsOK
      <3> QED BY <3>1, <3>2, <3>3, <3>4 DEF CallsOK, CallStatus
    <2>7. JobsOK'
      <3>1. bg' \in [Job -> BgRecord] /\ mem' \in [Job -> JobRecord]
        BY <2>1, SleepTypes, NewRecordTypes
      <3>2. recov' \in [todo : SUBSET Job, job : Job \cup {None},
                        start : BOOLEAN]
        BY <2>1 DEF NotRecovering
      <3> QED BY <2>1, <3>1, <3>2 DEF JobsOK, BgRecord
    <2>8. StoreOK' /\ ProfileOK' /\ EffectsOK' /\ crashes' \in Nat
      <3>1. /\ queue' = <<>> /\ chain' = <<>> /\ saves' = <<>>
            /\ loaded' = FALSE /\ profile' = {} /\ session' = snapshot
            /\ UNCHANGED <<saved, snapshot, applied, played>>
            /\ crashes' = crashes + 1
        BY <1>2 DEF Crash
      <3>2. /\ <<>> \in Seq(StoreWrite) /\ <<>> \in Seq(Process)
            /\ <<>> \in Seq(ProfileSave)
        BY EmptySeq
      <3>3. StoreOK'
        BY <2>3, <3>1, <3>2 DEF IndInv, TypeOK, StoreOK
      <3>4. ProfileOK'
        BY <3>1, <3>2 DEF IndInv, TypeOK, ProfileOK
      <3>5. EffectsOK'
        BY <3>1 DEF IndInv, TypeOK, StoreOK, EffectsOK
      <3>6. crashes' \in Nat
        BY <3>1 DEF IndInv, TypeOK
      <3> QED BY <3>3, <3>4, <3>5, <3>6
    <2>9. Fresh'
      <3> SUFFICES ASSUME NEW j \in Job, end'[j].at = "idle"
                   PROVE  /\ bg'[j].at = "idle" /\ mem'[j] = Absent
                          /\ disk'[j].status = "absent"
                          /\ retrying'[j] = 0 /\ j \notin recov'.todo
                          /\ recov'.job # j
        BY DEF Fresh
      <3>1. end[j].at = "idle"
        BY <2>5
      <3>2. disk[j].status = "absent"
        BY <3>1 DEF IndInv, Fresh
      <3>3. Reclaim(disk[j]).status = "absent"
        BY <3>2 DEF Reclaim, Reclaimed, Running
      <3> QED BY <2>1, <3>2, <3>3, HostAssumption DEF Idle, At, NotRecovering
    <2>10. ToVisit'
      <3> SUFFICES ASSUME NEW j \in recov'.todo
                   PROVE  /\ end'[j].at \in Over /\ bg'[j].at = "idle"
                          /\ mem'[j] = Absent /\ retrying'[j] = 0
                          /\ recov'.job # j
        BY DEF ToVisit
      <3>1. j \in Job /\ disk[j].status # "absent"
        BY <2>1 DEF NotRecovering
      <3>2. end[j].at # "idle"
        BY <3>1 DEF IndInv, Fresh
      <3> QED BY <2>1, <2>5, <3>1, <3>2, HostAssumption
              DEF Over, Idle, At, NotRecovering
    <2>11. BusyWhileWorking'
      BY <2>1 DEF BusyWhileWorking, Working, Idle, At
    <2> QED BY <2>6, <2>7, <2>8, <2>9, <2>10, <2>11 DEF IndInv, TypeOK
  <1>3. CASE EnsureProfile
    <2>1. TypeOK'
      BY <1>3
      DEF EnsureProfile, IndInv, TypeOK, CallsOK, JobsOK, StoreOK, ProfileOK,
          EffectsOK, callVars, jobVars, storeVars, fxVars
    <2>2. Fresh' /\ ToVisit' /\ BusyWhileWorking'
      BY <1>3 DEF EnsureProfile, IndInv, Fresh, ToVisit, BusyWhileWorking,
                  Working, callVars, jobVars, storeVars
    <2> QED BY <2>1, <2>2 DEF IndInv
  <1> QED BY <1>1, <1>2, <1>3

-----------------------------------------------------------------------------
(* One persisted job per call.  A record appears in the store only when a  *)
(* createJob lands that found no job of the call, and an endCall that has  *)
(* a call keeps it.                                                        *)

\* A landing write of j keeps one record per call.
LEMMA LandedUnique ==
    ASSUME IndInv, UniquePersistedJob, NEW j \in Job, NEW who \in Who,
           Landed(who, j), \A k \in Job : end'[k].sess = end[k].sess
    PROVE  UniquePersistedJob'
  <1>1. CASE disk' = disk
    BY <1>1 DEF UniquePersistedJob
  <1>2. CASE /\ disk' = [disk EXCEPT ![j] = Head(queue).rec]
             /\ ~Duplicate(Head(queue))
    <2>1. \A k \in Job \ {j} : disk'[k] = disk[k]
      BY <1>2 DEF IndInv, TypeOK, StoreOK
    <2>2. CASE disk[j].status # "absent"
      BY <2>1, <2>2 DEF UniquePersistedJob
    <2>3. CASE disk[j].status = "absent"
      <3>1. Head(queue).job = j /\ ~Missing(Head(queue))
        BY DEF Landed, NextWrite
      <3>2. queue # <<>> /\ queue \in Seq(StoreWrite)
        BY DEF Landed, NextWrite, IndInv, TypeOK, StoreOK
      <3>3. Head(queue) \in StoreWrite
        BY <3>2, TailTypes
      <3>4. Head(queue).op = "create"
        BY <2>3, <3>1, <3>3 DEF Missing, StoreWrite
      <3>5. ~Known(j)
        BY <1>2, <3>1, <3>4 DEF Duplicate
      <3>6. \A k \in Job : disk[k].status # "absent" => end[k].sess # end[j].sess
        BY <3>5 DEF Known
      <3> QED BY <2>1, <3>6 DEF UniquePersistedJob
    <2> QED BY <2>2, <2>3
  <1> QED BY <1>1, <1>2 DEF Landed

\* A step that changes the store, if at all, by one landing write keeps one
\* record per call.
LEMMA WriteUnique ==
    ASSUME IndInv, UniquePersistedJob, NEW j \in Job, NEW who \in Who,
           UNCHANGED disk \/ Landed(who, j) \/ Broken(who, j),
           \A k \in Job : end'[k].sess = end[k].sess
    PROVE  UniquePersistedJob'
  <1>1. CASE Landed(who, j)
    BY <1>1, LandedUnique
  <1>2. CASE disk' = disk
    BY <1>2 DEF UniquePersistedJob
  <1> QED BY <1>1, <1>2 DEF Broken

\* The steps of a background job, of a retry and of the recovery.
LEMMA JobsUnique ==
    ASSUME IndInv, UniquePersistedJob, NEW j \in Job,
           Background(j) \/ Retry(j) \/ Retrying(j) \/ Recovering(j)
    PROVE  UniquePersistedJob'
  <1>1. UNCHANGED end
    BY DEF Background, Marked, MemoryAnswers, MemoryNoted, StartMedia,
           SinkAnswers, MediaSaved, MediaNoted, StartVoicemail,
           VoicemailAnswers, VoicemailNoted, VoicemailSaved, Settled,
           StoreRejects, SaveRejects, Retry, Retrying, RetryStarts,
           RetryRejects, Recovering, RecoverTerminal, RecoverJob,
           JobRecovered, RecoverRejects, callVars
  <1>2. CASE Background(j)
    <2>1. UNCHANGED disk \/ Landed("bg", j) \/ Broken("bg", j)
      BY <1>2
      DEF Background, Marked, MemoryAnswers, MemoryNoted, StartMedia,
          SinkAnswers, MediaSaved, MediaNoted, StartVoicemail,
          VoicemailAnswers, VoicemailNoted, VoicemailSaved, Settled,
          StoreRejects, SaveRejects, storeVars
    <2> QED BY <1>1, <2>1, WriteUnique DEF Who
  <1>3. CASE Retry(j) \/ Retrying(j)
    <2>1. UNCHANGED disk \/ Landed("retry", j) \/ Broken("retry", j)
      BY <1>3 DEF Retry, Retrying, RetryStarts, RetryRejects
    <2> QED BY <1>1, <2>1, WriteUnique DEF Who
  <1>4. CASE Recovering(j)
    <2>1. UNCHANGED disk \/ Landed("recover", j) \/ Broken("recover", j)
      BY <1>4 DEF Recovering, RecoverTerminal, RecoverJob, JobRecovered,
                  RecoverRejects, storeVars
    <2> QED BY <1>1, <2>1, WriteUnique DEF Who
  <1> QED BY <1>2, <1>3, <1>4

\* The steps of an endCall: it keeps its call.
LEMMA EndingUnique ==
    ASSUME IndInv, UniquePersistedJob, NEW j \in Job, Ending(j)
    PROVE  UniquePersistedJob'
  <1>1. \A k \in Job : end'[k].sess = end[k].sess
    <2>1. end \in [Job -> EndRecord]
      BY DEF IndInv, TypeOK, CallsOK
    <2>2. \/ \E at : Moved(j, at)
          \/ \E plan : end' = [end EXCEPT ![j].at = "saving",
                                         ![j].plan = plan]
          \/ \E x, at : end' = [end EXCEPT ![j].exit = x, ![j].at = at]
      BY DEF Ending, ExitSelected, HooksDone, NoExit, AbortCall, CallAborted,
           JobBuilt,
             JobRegistered, RunSyncEffects, SyncSaved, JobCommitted,
             JobKicked, JobFailed, EndStoreRejects, EndSaveRejects, Select
    <2>3. CASE \E at : Moved(j, at)
      BY <2>1, <2>3 DEF Moved, EndRecord
    <2>4. CASE \E plan : end' = [end EXCEPT ![j].at = "saving",
                                           ![j].plan = plan]
      BY <2>1, <2>4 DEF EndRecord
    <2>5. CASE \E x, at : end' = [end EXCEPT ![j].exit = x, ![j].at = at]
      BY <2>1, <2>5 DEF EndRecord
    <2> QED BY <2>2, <2>3, <2>4, <2>5
  <1>2. UNCHANGED disk \/ Landed("end", j) \/ Broken("end", j)
    BY DEF Ending, ExitSelected, HooksDone, NoExit, AbortCall, CallAborted,
           JobBuilt,
           JobRegistered, RunSyncEffects, SyncSaved, JobCommitted, JobKicked,
           JobFailed, EndStoreRejects, EndSaveRejects, storeVars
  <1> QED BY <1>1, <1>2, WriteUnique DEF Who

\* A new endCall gets its call before it has a record anywhere.
LEMMA EndCallUnique ==
    ASSUME IndInv, UniquePersistedJob, NEW j \in Job, NEW s \in Session,
           EndCall(j, s)
    PROVE  UniquePersistedJob'
  <1>1. disk[j].status = "absent" /\ UNCHANGED disk
    BY DEF EndCall, IndInv, Fresh, storeVars
  <1>2. \A k \in Job \ {j} : end'[k] = end[k]
    BY DEF EndCall, IndInv, TypeOK, CallsOK
  <1> QED BY <1>1, <1>2 DEF UniquePersistedJob

\* A restart puts statuses back and adds no record.
LEMMA CrashUnique ==
    ASSUME IndInv, UniquePersistedJob, Crash
    PROVE  UniquePersistedJob'
  <1>1. \A j \in Job : disk'[j] = Reclaim(disk[j])
    BY DEF Crash
  <1>2. \A j \in Job : disk'[j].status # "absent" => disk[j].status # "absent"
    BY <1>1 DEF Reclaim, Reclaimed, Running
  <1>3. \A j \in Job : end'[j].sess = end[j].sess
    BY DEF Crash, IndInv, TypeOK, CallsOK, EndRecord
  <1> QED BY <1>2, <1>3 DEF UniquePersistedJob

\* Every step of the host keeps one record per call.
LEMMA NextUnique == IndInv /\ UniquePersistedJob /\ [Next]_vars
                        => UniquePersistedJob'
  <1> SUFFICES ASSUME IndInv, UniquePersistedJob, [Next]_vars
               PROVE  UniquePersistedJob'
    OBVIOUS
  <1>1. CASE UNCHANGED <<end, disk>>
    BY <1>1 DEF UniquePersistedJob
  <1>2. CASE \E s \in Session : BeginCall(s) \/ CallBegun(s) \/ ComposeFails(s)
    BY <1>1, <1>2 DEF BeginCall, CallBegun, ComposeFails, storeVars
  <1>3. CASE CreateMissing \/ EnsureProfile
    BY <1>1, <1>3 DEF CreateMissing, EnsureProfile, callVars, storeVars
  <1>4. CASE Crash
    BY <1>4, CrashUnique
  <1>5. CASE \E j \in Job, s \in Session : EndCall(j, s)
    BY <1>5, EndCallUnique
  <1>6. CASE \E j \in Job : Ending(j)
    BY <1>6, EndingUnique
  <1>7. CASE \E j \in Job : Background(j) \/ Retry(j) \/ Retrying(j)
                             \/ Recovering(j)
    BY <1>7, JobsUnique
  <1>8. CASE UNCHANGED vars
    BY <1>1, <1>8 DEF vars, callVars, storeVars
  <1> QED BY <1>2, <1>3, <1>4, <1>5, <1>6, <1>7, <1>8 DEF Next

-----------------------------------------------------------------------------
(* The theorems *)

\* The invariant holds when the host has started with an empty store.
LEMMA InitInv == Init => IndInv
  <1> SUFFICES ASSUME Init PROVE IndInv
    OBVIOUS
  <1>1. /\ <<>> \in Seq(StoreWrite) /\ <<>> \in Seq(Process)
        /\ <<>> \in Seq(ProfileSave)
    BY EmptySeq
  <1>2. CallsOK
    BY DEF Init, CallsOK, NoEnd, EndRecord, EndAt, Plan, Choice
  <1>3. JobsOK
    BY NewRecordTypes, SleepTypes DEF Init, JobsOK, NotRecovering, BgRecord
  <1>4. StoreOK /\ ProfileOK /\ EffectsOK /\ crashes \in Nat
    <2>1. NewSession \in CallSession
      BY DEF NewSession, CallSession, Choice
    <2> QED BY <1>1, <2>1, NewRecordTypes DEF Init, StoreOK, ProfileOK, EffectsOK
  <1>5. Fresh
    BY HostAssumption DEF Init, Fresh, Idle, At, NotRecovering, Absent, Rec
  <1>6. ToVisit /\ BusyWhileWorking
    BY DEF Init, ToVisit, NotRecovering, BusyWhileWorking, Working, Idle, At
  <1> QED BY <1>2, <1>3, <1>4, <1>5, <1>6 DEF IndInv, TypeOK

\* Every step of the host keeps it.
LEMMA NextKeeps == IndInv /\ [Next]_vars => IndInv'
  <1> SUFFICES ASSUME IndInv, [Next]_vars PROVE IndInv'
    OBVIOUS
  <1>1. CASE UNCHANGED vars
    <2>1. TypeOK'
      BY <1>1
      DEF IndInv, TypeOK, CallsOK, JobsOK, StoreOK, ProfileOK, EffectsOK,
          vars, callVars, jobVars, storeVars, profVars, fxVars
    <2>2. Fresh' /\ ToVisit' /\ BusyWhileWorking'
      BY <1>1 DEF IndInv, Fresh, ToVisit, BusyWhileWorking, Working,
                  vars, callVars, jobVars, storeVars
    <2> QED BY <2>1, <2>2 DEF IndInv
  <1>2. CASE \E s \in Session : BeginCall(s) \/ CallBegun(s) \/ ComposeFails(s)
    BY <1>2, BeginKeeps
  <1>3. CASE \E j \in Job, s \in Session : EndCall(j, s)
    BY <1>3, EndCallKeeps
  <1>4. CASE \E j \in Job : Ending(j)
    BY <1>4, EndingKeeps
  <1>5. CASE \E j \in Job : Background(j)
    BY <1>5, BackgroundKeeps
  <1>6. CASE \E j \in Job : Retry(j) \/ Retrying(j)
    BY <1>6, RetryKeeps
  <1>7. CASE \E j \in Job : Recovering(j)
    BY <1>7, RecoveringKeeps
  <1>8. CASE CreateMissing \/ Crash \/ EnsureProfile
    BY <1>8, HostKeeps
  <1> QED BY <1>1, <1>2, <1>3, <1>4, <1>5, <1>6, <1>7, <1>8 DEF Next

\* The inductive invariant holds in every reachable state.
THEOREM Invariance == Spec => []IndInv
  BY InitInv, NextKeeps, PTL DEF Spec

\* Type correctness: for any set of calls and endCalls, whatever fails and
\* however often the server restarts, every variable keeps a value of its kind.
THEOREM TypeCorrect == Spec => []TypeOK
  <1>1. IndInv => TypeOK
    BY DEF IndInv
  <1> QED BY <1>1, Invariance, PTL

\* A background job that still has port calls or saves to make always shows a
\* status for which beginCall refuses its agent: no failure, retry, second
\* endCall or recovery gives the job a terminal status while it is at work.
THEOREM AgentBusyWhileWorking == Spec => []BusyWhileWorking
  <1>1. IndInv => BusyWhileWorking
    BY DEF IndInv
  <1> QED BY <1>1, Invariance, PTL

\* The store never holds two jobs of one call, however often the call is hung
\* up, whichever writes reject and however often the server restarts.
THEOREM OneJobPerCall == Spec => []UniquePersistedJob
  <1>1. Init => UniquePersistedJob
    BY DEF Init, UniquePersistedJob, Absent, Rec
  <1> QED BY <1>1, Invariance, NextUnique, PTL DEF Spec

-----------------------------------------------------------------------------
(* SyncEffectsOnce is not inductive: what stops a second endCall is the    *)
(* ledger, whose key holds only while the session keeps the exit that the  *)
(* endCall selected; and after a restart, which may lose the ledger, that  *)
(* nobody can hang up the call any more.                                   *)

HungUpStatus == {"ending", "ended", "lost"}

\* A call that was hung up is never in progress again.
HungUp ==
    \A j \in Job : end[j].at # "idle" => call[end[j].sess] \in HungUpStatus

\* Nobody is hanging up s, and nobody can.
Dead(s) ==
    /\ call[s] \in {"ended", "lost"}
    /\ \A j \in Job : end[j].sess = s => end[j].at \in Over \cup {"idle"}

\* The session still has the exit that a suspended endCall selected.
SameExit ==
    \A j \in Job : end[j].at \notin Over \cup {"idle"} /\ end[j].exit # None
        => session[end[j].sess].exit = end[j].exit

InLedger(s, x) == <<x, x, "sync">> \in session[s].ledger

AppliedOnce ==
    \A s \in Session, x \in Exit :
        \/ applied[<<s, x>>] = 0
        \/ /\ applied[<<s, x>>] = 1 /\ call[s] \in HungUpStatus
           /\ InLedger(s, x) \/ Dead(s)

SyncInv == HungUp /\ SameExit /\ AppliedOnce

-----------------------------------------------------------------------------
(* The steps *)

\* The sessions keep their exits and forget no executed effect.
Kept == \A s \in Session : /\ session'[s].exit = session[s].exit
                           /\ session[s].ledger \subseteq session'[s].ledger

\* A step that leaves calls and hang-ups alone.
LEMMA OtherKeepsSync ==
    ASSUME IndInv, SyncInv, UNCHANGED <<call, end, applied>>, Kept
    PROVE  SyncInv'
  <1>1. HungUp'
    BY DEF SyncInv, HungUp
  <1>2. SameExit'
    <2>1. \A j \in Job : end[j].at # "idle" => end[j].sess \in Session
      BY DEF IndInv, TypeOK, CallsOK
    <2> QED BY <2>1 DEF Kept, SyncInv, SameExit
  <1>3. AppliedOnce'
    BY DEF SyncInv, AppliedOnce, InLedger, Dead, Kept
  <1> QED BY <1>1, <1>2, <1>3 DEF SyncInv

\* An executed effect leaves the exits alone and only adds to a ledger.
LEMMA ExecutedKept ==
    ASSUME IndInv, NEW j \in Job, NEW key, Executed(j, key)
    PROVE  Kept
  <1>1. session \in [Session -> CallSession]
    BY DEF IndInv, TypeOK, EffectsOK
  <1>2. session' = [session EXCEPT ![end[j].sess].ledger = @ \cup {key}]
    BY DEF Executed
  <1> QED BY <1>1, <1>2 DEF Kept, CallSession

\* A job that runs, is retried or recovered.
LEMMA JobsKeepSync ==
    ASSUME IndInv, SyncInv, NEW j \in Job,
           Background(j) \/ Retry(j) \/ Retrying(j) \/ Recovering(j)
    PROVE  SyncInv'
  <1>1. UNCHANGED <<call, end, applied>>
    BY DEF Background, Marked, MemoryAnswers, MemoryNoted, StartMedia,
           SinkAnswers, MediaSaved, MediaNoted, StartVoicemail,
           VoicemailAnswers, VoicemailNoted, VoicemailSaved, Settled,
           StoreRejects, SaveRejects, Retry, Retrying, RetryStarts,
           RetryRejects, Recovering, RecoverTerminal, RecoverJob,
           JobRecovered, RecoverRejects, callVars, fxVars
  <1>2. UNCHANGED session \/ \E key : Executed(j, key)
    BY DEF Background, Marked, MemoryAnswers, MemoryNoted, StartMedia,
           SinkAnswers, MediaSaved, MediaNoted, StartVoicemail,
           VoicemailAnswers, VoicemailNoted, VoicemailSaved, Settled,
           StoreRejects, SaveRejects, Retry, Retrying, RetryStarts,
           RetryRejects, Recovering, RecoverTerminal, RecoverJob,
           JobRecovered, RecoverRejects, fxVars
  <1>3. Kept
    <2>1. CASE UNCHANGED session
      BY <2>1 DEF Kept
    <2>2. CASE \E key : Executed(j, key)
      BY <2>2, ExecutedKept
    <2> QED BY <1>2, <2>1, <2>2
  <1> QED BY <1>1, <1>3, OtherKeepsSync

\* A call begins only if it was never hung up.
LEMMA BeginKeepsSync ==
    ASSUME IndInv, SyncInv, NEW s \in Session,
           BeginCall(s) \/ CallBegun(s) \/ ComposeFails(s)
    PROVE  SyncInv'
  <1>1. /\ call[s] \in {"none", "composing"}
        /\ \A t \in Session \ {s} : call'[t] = call[t]
        /\ UNCHANGED <<end, session, applied>>
    BY DEF BeginCall, CallBegun, ComposeFails, IndInv, TypeOK, CallsOK, fxVars
  <1>2. \A j \in Job : end[j].at # "idle" => end[j].sess \in Session
    BY DEF IndInv, TypeOK, CallsOK
  <1>3. HungUp'
    BY <1>1, <1>2 DEF SyncInv, HungUp, HungUpStatus
  <1>4. AppliedOnce'
    <2> SUFFICES ASSUME NEW t \in Session, NEW x \in Exit, applied[<<t, x>>] # 0
                 PROVE  /\ applied[<<t, x>>] = 1 /\ call'[t] \in HungUpStatus
                        /\ InLedger(t, x) \/ Dead(t)'
      BY <1>1 DEF AppliedOnce, InLedger
    <2>1. /\ applied[<<t, x>>] = 1 /\ call[t] \in HungUpStatus
          /\ InLedger(t, x) \/ Dead(t)
      BY DEF SyncInv, AppliedOnce
    <2>2. call'[t] = call[t]
      BY <1>1, <2>1 DEF HungUpStatus
    <2> QED BY <1>1, <2>1, <2>2 DEF Dead
  <1>5. SameExit'
    BY <1>1 DEF SyncInv, SameExit
  <1> QED BY <1>3, <1>4, <1>5 DEF SyncInv

\* A call that can be hung up again has its effects in the ledger.
LEMMA EndCallKeepsSync ==
    ASSUME IndInv, SyncInv, NEW j \in Job, NEW s \in Session, EndCall(j, s)
    PROVE  SyncInv'
  <1>1. /\ end[j].at = "idle" /\ call[s] \in {"in_call", "ending"}
        /\ call' = [call EXCEPT ![s] = "ending"]
        /\ end' = [end EXCEPT ![j] = [NoEnd EXCEPT !.at = "hooks", !.sess = s]]
        /\ UNCHANGED <<session, applied>>
    BY DEF EndCall, Endable, fxVars
  <1>2. /\ \A k \in Job \ {j} : end'[k] = end[k]
        /\ end'[j].sess = s /\ end'[j].exit = None
        /\ call'[s] = "ending"
        /\ \A t \in Session \ {s} : call'[t] = call[t]
        /\ \A k \in Job : end[k].at # "idle" => end[k].sess \in Session
    BY <1>1 DEF IndInv, TypeOK, CallsOK, NoEnd
  <1>3. HungUp'
    <2> SUFFICES ASSUME NEW k \in Job, end'[k].at # "idle"
                 PROVE  call'[end'[k].sess] \in HungUpStatus
      BY DEF HungUp
    <2>1. CASE end'[k].sess = s
      BY <1>2, <2>1 DEF HungUpStatus
    <2>2. CASE end'[k].sess # s
      BY <1>2, <2>2 DEF SyncInv, HungUp
    <2> QED BY <2>1, <2>2
  <1>4. AppliedOnce'
    <2> SUFFICES ASSUME NEW t \in Session, NEW x \in Exit, applied[<<t, x>>] # 0
                 PROVE  /\ applied[<<t, x>>] = 1 /\ call'[t] \in HungUpStatus
                        /\ InLedger(t, x) \/ Dead(t)'
      BY <1>1 DEF AppliedOnce, InLedger
    <2>1. /\ applied[<<t, x>>] = 1 /\ call[t] \in HungUpStatus
          /\ InLedger(t, x) \/ Dead(t)
      BY DEF SyncInv, AppliedOnce
    <2>2. CASE t = s
      BY <1>1, <1>2, <2>1, <2>2 DEF Dead, HungUpStatus
    <2>3. CASE t # s
      BY <1>2, <2>1, <2>3 DEF Dead
    <2> QED BY <2>2, <2>3
  <1>5. SameExit'
    BY <1>1, <1>2 DEF SyncInv, SameExit
  <1> QED BY <1>3, <1>4, <1>5 DEF SyncInv

\* What a step of endCall j does to the sessions: it selects an exit, it
\* executes the sync effects that are not in the ledger, or neither.
LEMMA EndingSession ==
    ASSUME NEW j \in Job, Ending(j)
    PROVE  \/ UNCHANGED <<session, applied>> /\ \E at : Moved(j, at)
           \/ /\ UNCHANGED applied
              /\ \E x \in Exit : \E at : Select(j, x, at)
           \/ /\ end[j].at = "queued"
              /\ \E plan : end' = [end EXCEPT ![j].at = "saving",
                                             ![j].plan = plan]
              /\ \/ UNCHANGED <<session, applied>>
                 \/ /\ ~Skips(j, "sync")
                    /\ Executed(j, Key(j, "sync"))
                    /\ applied' = Bump(applied, j)
  <1>1. CASE RunSyncEffects(j)
    BY <1>1 DEF RunSyncEffects
  <1>2. CASE ExitSelected(j) \/ JobBuilt(j)
    BY <1>2 DEF ExitSelected, JobBuilt
  <1>3. CASE ~(RunSyncEffects(j) \/ ExitSelected(j) \/ JobBuilt(j))
    BY <1>3
    DEF Ending, HooksDone, NoExit, AbortCall, CallAborted, JobRegistered,
        SyncSaved, JobCommitted, JobKicked, JobFailed, EndStoreRejects,
        EndSaveRejects, fxVars
  <1> QED BY <1>1, <1>2, <1>3

\* The endCalls after a step of endCall j.
LEMMA EndingEnds ==
    ASSUME IndInv, NEW j \in Job, Ending(j)
    PROVE  /\ end[j].at \notin Over \cup {"idle"} /\ end[j].sess \in Session
           /\ \A k \in Job : end'[k].sess = end[k].sess
           /\ \A k \in Job \ {j} : end'[k] = end[k]
           /\ \/ end'[j].exit = end[j].exit
              \/ \E x \in Exit : \E at : Select(j, x, at) /\ end'[j].exit = x
  <1>1. end[j].at \notin Over \cup {"idle"}
    BY DEF Ending, ExitSelected, HooksDone, NoExit, AbortCall, CallAborted,
           JobBuilt, JobRegistered, RunSyncEffects, SyncSaved, JobCommitted,
           JobKicked, JobFailed, EndStoreRejects, EndSaveRejects, Over
  <1>2. end \in [Job -> EndRecord] /\ end[j].sess \in Session
    BY <1>1 DEF IndInv, TypeOK, CallsOK
  <1>3. CASE \E at : Moved(j, at)
    BY <1>1, <1>2, <1>3 DEF Moved, EndRecord
  <1>4. CASE \E x \in Exit : \E at : Select(j, x, at)
    <2>0. PICK x \in Exit : \E at : Select(j, x, at)
      BY <1>4
    <2>1. PICK at : Select(j, x, at)
      BY <2>0
    <2>2. end' = [end EXCEPT ![j].exit = x, ![j].at = at]
      BY <2>1 DEF Select
    <2>3. /\ \A k \in Job : end'[k].sess = end[k].sess
          /\ \A k \in Job \ {j} : end'[k] = end[k]
          /\ end'[j].exit = x
      BY <1>2, <2>2 DEF EndRecord
    <2> QED BY <1>1, <1>2, <2>1, <2>3
  <1>5. CASE \E plan : end' = [end EXCEPT ![j].at = "saving", ![j].plan = plan]
    BY <1>1, <1>2, <1>5 DEF EndRecord
  <1> QED BY <1>3, <1>4, <1>5, EndingSession

\* The call of an endCall stays hung up.
LEMMA EndingCalls ==
    ASSUME IndInv, SyncInv, NEW j \in Job, Ending(j)
    PROVE  /\ call[end[j].sess] \in HungUpStatus
           /\ call'[end[j].sess] \in HungUpStatus
           /\ \A t \in Session \ {end[j].sess} : call'[t] = call[t]
  <1> DEFINE s == end[j].sess
  <1>1. call \in [Session -> CallStatus] /\ s \in Session
    BY EndingEnds DEF IndInv, TypeOK, CallsOK, CallStatus
  <1>2. call[s] \in HungUpStatus
    BY EndingEnds DEF SyncInv, HungUp
  <1>3. \/ UNCHANGED call
        \/ \E x \in {"ending", "ended"} : call' = [call EXCEPT ![s] = x]
    BY DEF Ending, ExitSelected, HooksDone, NoExit, AbortCall, CallAborted,
           JobBuilt, JobRegistered, RunSyncEffects, SyncSaved, JobCommitted,
           JobKicked, JobFailed, EndStoreRejects, EndSaveRejects
  <1> QED BY <1>1, <1>2, <1>3 DEF HungUpStatus

\* A hang-up that is under way: its call is not dead, so effects that were
\* applied are in the ledger and are not applied again.
LEMMA EndingKeepsSync ==
    ASSUME IndInv, SyncInv, NEW j \in Job, Ending(j), "other_exit" \notin Env
    PROVE  SyncInv'
  <1> DEFINE s == end[j].sess
             x == end[j].exit
  <1>1. /\ s \in Session /\ end[j].at \notin Over \cup {"idle"}
        /\ session \in [Session -> CallSession]
        /\ applied \in [Session \X Choice -> 0..2]
        /\ x \in Choice /\ None \notin Exit
        /\ \A k \in Job : end[k].at # "idle" => end[k].sess \in Session
    BY EndingEnds, HostAssumption
    DEF IndInv, TypeOK, CallsOK, EffectsOK, EndRecord
  <1>2. HungUp'
    <2> SUFFICES ASSUME NEW k \in Job, end'[k].at # "idle"
                 PROVE  call'[end'[k].sess] \in HungUpStatus
      BY DEF HungUp
    <2>1. end[k].at # "idle" /\ end[k].sess \in Session
      BY <1>1, EndingEnds
    <2> QED BY <2>1, EndingEnds, EndingCalls DEF SyncInv, HungUp
  <1>3. \A t \in Session : session[t].ledger \subseteq session'[t].ledger
    <2>1. CASE \E y \in Exit : \E at : Select(j, y, at)
      BY <1>1, <2>1 DEF Select, CallSession
    <2>2. CASE Executed(j, Key(j, "sync"))
      BY <2>2, ExecutedKept DEF Kept
    <2> QED BY <2>1, <2>2, EndingSession
  <1>4. SameExit'
    <2> SUFFICES ASSUME NEW k \in Job, end'[k].at \notin Over \cup {"idle"},
                        end'[k].exit # None
                 PROVE  session'[end'[k].sess].exit = end'[k].exit
      BY DEF SameExit
    <2>1. /\ end[k].at \notin Over \cup {"idle"}
          /\ end'[k].sess = end[k].sess
      BY <1>1, EndingEnds
    <2>2. CASE \E y \in Exit : \E at : Select(j, y, at)
      <3>1. PICK y \in Exit : /\ session[s].exit \in {None, y}
                              /\ session' = [session EXCEPT ![s].exit = y]
                              /\ \E at : end' = [end EXCEPT ![j].exit = y,
                                                           ![j].at = at]
        BY <2>2 DEF Select
      <3>2. /\ session'[s].exit = y
            /\ \A t : t # s => session'[t] = session[t]
        BY <1>1, <3>1 DEF CallSession
      <3>3. CASE k = j
        BY <1>1, <2>1, <3>1, <3>2, <3>3 DEF IndInv, TypeOK, CallsOK, EndRecord
      <3>4. CASE k # j
        <4>1. end'[k] = end[k]
          BY <3>4, EndingEnds
        <4>2. session[end[k].sess].exit = end[k].exit
          BY <2>1, <4>1 DEF SyncInv, SameExit
        <4> QED BY <1>1, <3>1, <3>2, <4>1, <4>2
      <3> QED BY <3>3, <3>4
    <2>3. CASE ~\E y \in Exit : \E at : Select(j, y, at)
      <3>1. end'[k].exit = end[k].exit
        BY <2>3, EndingEnds
      <3>2. session'[end[k].sess].exit = session[end[k].sess].exit
        <4>1. CASE Executed(j, Key(j, "sync"))
          BY <1>1, <2>1, <3>1, <4>1 DEF Executed, CallSession
        <4> QED BY <2>3, <4>1, EndingSession
      <3> QED BY <2>1, <3>1, <3>2 DEF SyncInv, SameExit
    <2> QED BY <2>2, <2>3
  <1>5. AppliedOnce'
    <2> SUFFICES ASSUME NEW t \in Session, NEW y \in Exit,
                        applied'[<<t, y>>] # 0
                 PROVE  /\ applied'[<<t, y>>] = 1 /\ call'[t] \in HungUpStatus
                        /\ InLedger(t, y)' \/ Dead(t)'
      BY DEF AppliedOnce
    <2>1. InLedger(t, y) => InLedger(t, y)'
      BY <1>3 DEF InLedger
    <2>2. Dead(t) => Dead(t)' /\ t # s
      BY <1>1, EndingEnds, EndingCalls DEF Dead
    <2>3. call[t] \in HungUpStatus => call'[t] \in HungUpStatus
      BY EndingCalls
    <2>4. CASE applied'[<<t, y>>] = applied[<<t, y>>]
      BY <2>1, <2>2, <2>3, <2>4 DEF SyncInv, AppliedOnce
    <2>5. CASE applied'[<<t, y>>] # applied[<<t, y>>]
      <3>1. /\ end[j].at = "queued" /\ ~Skips(j, "sync")
            /\ Executed(j, Key(j, "sync")) /\ applied' = Bump(applied, j)
        BY <2>5, EndingSession
      <3>2. t = s /\ y = x
        BY <1>1, <2>5, <3>1 DEF Bump, Choice
      <3>3. Key(j, "sync") = <<y, y, "sync">>
        BY <1>1, <3>2 DEF Key, SyncInv, SameExit
      <3>4. ~InLedger(t, y)
        BY <3>1, <3>2, <3>3 DEF Skips, InLedger
      <3>5. applied[<<t, y>>] = 0
        BY <2>2, <3>2, <3>4 DEF SyncInv, AppliedOnce
      <3>6. applied'[<<t, y>>] = 1
        BY <1>1, <3>1, <3>2, <3>5 DEF Bump, Choice
      <3>7. InLedger(t, y)'
        BY <1>1, <3>1, <3>2, <3>3 DEF Executed, InLedger, CallSession
      <3> QED BY <3>2, <3>6, <3>7, EndingCalls
    <2> QED BY <2>4, <2>5
  <1> QED BY <1>2, <1>4, <1>5 DEF SyncInv

\* After a restart every call that was hung up is dead.
LEMMA CrashKeepsSync ==
    ASSUME IndInv, SyncInv, Crash
    PROVE  SyncInv'
  <1>1. /\ end \in [Job -> EndRecord] /\ call \in [Session -> CallStatus]
        /\ \A j \in Job : end[j].at # "idle" => end[j].sess \in Session
    BY DEF IndInv, TypeOK, CallsOK, CallStatus
  <1>2. \A s \in Session :
           call'[s] = IF call[s] \in {"composing", "in_call", "ending"}
                      THEN "lost" ELSE call[s]
    BY DEF Crash
  <1>3. \A j \in Job :
           /\ end'[j].sess = end[j].sess
           /\ end'[j].at \in Over \cup {"idle"}
           /\ end'[j].at # "idle" => end[j].at # "idle"
    BY <1>1 DEF Crash, EndRecord, Over
  <1>4. \A s \in Session : call[s] \in HungUpStatus =>
           call'[s] \in HungUpStatus /\ Dead(s)'
    BY <1>2, <1>3 DEF HungUpStatus, Dead
  <1>5. HungUp'
    BY <1>1, <1>3, <1>4 DEF SyncInv, HungUp
  <1>6. applied' = applied
    BY DEF Crash
  <1>7. AppliedOnce'
    BY <1>4, <1>6 DEF SyncInv, AppliedOnce
  <1>8. SameExit'
    BY <1>3 DEF SameExit
  <1> QED BY <1>5, <1>7, <1>8 DEF SyncInv

\* Every step of the host keeps the invariant.
LEMMA NextKeepsSync ==
    ASSUME "other_exit" \notin Env
    PROVE  IndInv /\ SyncInv /\ [Next]_vars => SyncInv'
  <1> SUFFICES ASSUME IndInv, SyncInv, [Next]_vars PROVE SyncInv'
    OBVIOUS
  <1>1. CASE \E s \in Session : BeginCall(s) \/ CallBegun(s) \/ ComposeFails(s)
    BY <1>1, BeginKeepsSync
  <1>2. CASE \E j \in Job, s \in Session : EndCall(j, s)
    BY <1>2, EndCallKeepsSync
  <1>3. CASE \E j \in Job : Ending(j)
    BY <1>3, EndingKeepsSync
  <1>4. CASE \E j \in Job : Background(j) \/ Retry(j) \/ Retrying(j)
                             \/ Recovering(j)
    BY <1>4, JobsKeepSync
  <1>5. CASE Crash
    BY <1>5, CrashKeepsSync
  <1>6. CASE CreateMissing \/ EnsureProfile \/ UNCHANGED vars
    BY <1>6, OtherKeepsSync
    DEF Kept, CreateMissing, EnsureProfile, vars, callVars, fxVars
  <1> QED BY <1>1, <1>2, <1>3, <1>4, <1>5, <1>6 DEF Next

-----------------------------------------------------------------------------
(* The theorem *)

\* However often a call is hung up, whatever saves and writes reject and
\* however often the server restarts, the sync effects of an exit are applied
\* to the profile at most once per call, as long as the hang-ups of a call
\* agree on its exit.
THEOREM SyncOnce ==
    ASSUME "other_exit" \notin Env
    PROVE  Spec => []SyncEffectsOnce
  <1>1. Init => SyncInv
    BY DEF Init, SyncInv, HungUp, SameExit, AppliedOnce, NoEnd, Choice
  <1>2. SyncInv => SyncEffectsOnce
    <2> SUFFICES ASSUME SyncInv, NEW s \in Session, NEW x \in Exit
                 PROVE  applied[<<s, x>>] <= 1
      BY DEF SyncEffectsOnce
    <2>1. applied[<<s, x>>] = 0 \/ applied[<<s, x>>] = 1
      BY DEF SyncInv, AppliedOnce
    <2> QED BY <2>1
  <1>3. IndInv /\ SyncInv /\ [Next]_vars => SyncInv'
    BY NextKeepsSync
  <1> QED BY <1>1, <1>2, <1>3, Invariance, PTL DEF Spec

-----------------------------------------------------------------------------
(* What a step does to the calls, the active one and the endCalls          *)

\* The places of an endCall whose call is still in progress.
Hanging == {"hooks", "preload", "aborting", "register", "queued", "saving"}

\* Nothing of the calls changes.
SameCalls == UNCHANGED <<call, active, end>>

\* endCall j goes on, its call is not over.
GoesOn(j) ==
    /\ end[j].at \in Hanging /\ end'[j].at \in Hanging
    /\ \/ UNCHANGED call
       \/ call' = [call EXCEPT ![end[j].sess] = "ending"]
    /\ UNCHANGED active

\* endCall j has no exit: its call is over, the user not yet free.
Aborts(j) ==
    /\ end[j].at = "aborting" /\ end'[j].at = "abort_save"
    /\ call' = [call EXCEPT ![end[j].sess] = "ended"]
    /\ UNCHANGED active

\* endCall j has saved the profile: the user is free.
Frees(j) ==
    /\ active' = None /\ end'[j].at \notin Hanging \cup {"abort_save"}
    /\ \/ end[j].at = "abort_save" /\ UNCHANGED call
       \/ /\ end[j].at = "saving"
          /\ call' = [call EXCEPT ![end[j].sess] = "ended"]

\* endCall j is past its save, or gives up.
Leaves(j) ==
    /\ end'[j].at \notin Hanging \cup {"abort_save"}
    /\ UNCHANGED <<call, active>>
    /\ end[j].at = "abort_save" => "save" \in Env /\ "no_exit" \in Env

\* An endCall aborts only when no exit is found.
AbortsKnown ==
    \A j \in Job : end[j].at \in {"aborting", "abort_save"} => "no_exit" \in Env

\* Every step of endCall j is one of these.
LEMMA EndingMoves ==
    ASSUME IndInv, AbortsKnown, NEW j \in Job, Ending(j)
    PROVE  /\ GoesOn(j) \/ Aborts(j) \/ Frees(j) \/ Leaves(j)
           /\ end'[j].at \in {"aborting", "abort_save"} => "no_exit" \in Env
  <1>1. end \in [Job -> EndRecord]
    BY DEF IndInv, TypeOK, CallsOK
  <1>2. \A at : Moved(j, at) => end'[j].at = at
    BY <1>1 DEF Moved, EndRecord
  <1>3. \A x \in Exit : \A at : Select(j, x, at) => end'[j].at = at
    BY <1>1 DEF Select, EndRecord
  <1>4. CASE ExitSelected(j) \/ HooksDone(j) \/ NoExit(j) \/ JobBuilt(j)
             \/ JobRegistered(j)
    BY <1>2, <1>3, <1>4
    DEF ExitSelected, HooksDone, NoExit, JobBuilt, JobRegistered, GoesOn,
        Hanging
  <1>5. CASE RunSyncEffects(j)
    <2>1. PICK plan \in Plan :
             end' = [end EXCEPT ![j].at = "saving", ![j].plan = plan]
      BY <1>5 DEF RunSyncEffects
    <2>2. end'[j].at = "saving"
      BY <1>1, <2>1 DEF EndRecord
    <2> QED BY <1>5, <2>2 DEF RunSyncEffects, GoesOn, Hanging
  <1>6. CASE AbortCall(j)
    BY <1>2, <1>6 DEF AbortCall, Aborts, AbortsKnown
  <1>7. CASE CallAborted(j) \/ SyncSaved(j)
    BY <1>2, <1>7 DEF CallAborted, SyncSaved, FreeUser, Frees, Hanging
  <1>8. CASE JobCommitted(j) \/ JobKicked(j) \/ JobFailed(j)
             \/ EndStoreRejects(j)
    BY <1>2, <1>8
    DEF JobCommitted, JobKicked, JobFailed, EndStoreRejects, Leaves, Hanging
  <1>9. CASE EndSaveRejects(j)
    BY <1>2, <1>9
    DEF EndSaveRejects, SaveBroken, Leaves, Hanging, AbortsKnown
  <1> QED BY <1>4, <1>5, <1>6, <1>7, <1>8, <1>9 DEF Ending

\* Jobs, the store and the profile leave the calls alone.
LEMMA JobsKeepCalls ==
    ASSUME \/ \E j \in Job : Background(j) \/ Retry(j) \/ Retrying(j)
                                \/ Recovering(j)
           \/ CreateMissing \/ EnsureProfile \/ UNCHANGED vars
    PROVE  SameCalls
  BY DEF SameCalls, Background, Marked, MemoryAnswers, MemoryNoted, StartMedia,
         SinkAnswers, MediaSaved, MediaNoted, StartVoicemail,
         VoicemailAnswers, VoicemailNoted, VoicemailSaved, Settled,
         StoreRejects, SaveRejects, Retry, Retrying, RetryStarts,
         RetryRejects, Recovering, RecoverTerminal, RecoverJob,
         JobRecovered, RecoverRejects, CreateMissing, EnsureProfile, vars,
         callVars

\* After a restart no call is in progress and no endCall is under way.
LEMMA CrashCalls ==
    ASSUME IndInv, Crash
    PROVE  /\ active' = None
           /\ \A s \in Session :
                 /\ call'[s] \in {"none", "ended", "lost"}
                 /\ call'[s] = "none" => call[s] = "none"
           /\ \A j \in Job : /\ end'[j].at \in Over \cup {"idle"}
                             /\ end'[j].sess = end[j].sess
                             /\ end'[j].at # "idle" => end[j].at # "idle"
  <1>1. /\ end \in [Job -> EndRecord] /\ call \in [Session -> CallStatus]
    BY DEF IndInv, TypeOK, CallsOK, CallStatus
  <1>2. \A s \in Session :
           call'[s] = IF call[s] \in {"composing", "in_call", "ending"}
                      THEN "lost" ELSE call[s]
    BY DEF Crash
  <1>3. active' = None
    BY DEF Crash
  <1>4. \A s \in Session : /\ call'[s] \in {"none", "ended", "lost"}
                           /\ call'[s] = "none" => call[s] = "none"
    BY <1>1, <1>2 DEF CallStatus
  <1>5. \A j \in Job : /\ end'[j].at \in Over \cup {"idle"}
                       /\ end'[j].sess = end[j].sess
                       /\ end'[j].at # "idle" => end[j].at # "idle"
    BY <1>1 DEF Crash, EndRecord, Over
  <1> QED BY <1>3, <1>4, <1>5

-----------------------------------------------------------------------------
(* The active call is never a dead one.  ActiveCallIsLive needs to know    *)
(* that a call is never put together again once it was hung up.            *)

ActiveInv == HungUp /\ AbortsKnown /\ ActiveCallIsLive

\* Every step keeps HungUp and AbortsKnown.
LEMMA NextKeepsHungUp ==
    IndInv /\ HungUp /\ AbortsKnown /\ [Next]_vars => HungUp' /\ AbortsKnown'
  <1> SUFFICES ASSUME IndInv, HungUp, AbortsKnown, [Next]_vars
               PROVE  HungUp' /\ AbortsKnown'
    OBVIOUS
  <1>0. /\ end \in [Job -> EndRecord] /\ call \in [Session -> CallStatus]
        /\ \A j \in Job : end[j].at # "idle" => end[j].sess \in Session
    BY DEF IndInv, TypeOK, CallsOK, CallStatus
  <1>1. CASE SameCalls
    BY <1>1 DEF SameCalls, HungUp, AbortsKnown
  <1>2. ASSUME NEW s \in Session, BeginCall(s) \/ CallBegun(s) \/ ComposeFails(s)
        PROVE  HungUp' /\ AbortsKnown'
    <2>1. /\ call[s] \in {"none", "composing"} /\ UNCHANGED end
          /\ \A t \in Session \ {s} : call'[t] = call[t]
      BY <1>0, <1>2 DEF BeginCall, CallBegun, ComposeFails
    <2> QED BY <1>0, <2>1 DEF HungUp, HungUpStatus, AbortsKnown
  <1>3. ASSUME NEW j \in Job, NEW s \in Session, EndCall(j, s)
        PROVE  HungUp' /\ AbortsKnown'
    <2>1. /\ \A k \in Job \ {j} : end'[k] = end[k]
          /\ end'[j].sess = s /\ end'[j].at = "hooks"
          /\ call'[s] = "ending"
          /\ \A t \in Session \ {s} : call'[t] = call[t]
      BY <1>0, <1>3 DEF EndCall, NoEnd
    <2> QED BY <1>0, <2>1 DEF HungUp, HungUpStatus, AbortsKnown
  <1>4. ASSUME NEW j \in Job, Ending(j)
        PROVE  HungUp' /\ AbortsKnown'
    <2> DEFINE s == end[j].sess
    <2>1. /\ end[j].at # "idle" /\ s \in Session
          /\ \A k \in Job : end'[k].sess = end[k].sess
          /\ \A k \in Job \ {j} : end'[k] = end[k]
      BY <1>4, EndingEnds
    <2>2. /\ \A t \in Session \ {s} : call'[t] = call[t]
          /\ call'[s] \in HungUpStatus
      BY <1>0, <1>4, <2>1, EndingMoves
      DEF GoesOn, Aborts, Frees, Leaves, HungUp, HungUpStatus
    <2>3. HungUp'
      BY <1>0, <2>1, <2>2 DEF HungUp
    <2>4. AbortsKnown'
      BY <1>4, <2>1, EndingMoves DEF AbortsKnown
    <2> QED BY <2>3, <2>4
  <1>5. CASE Crash
    <2>1. HungUp'
      BY <1>0, <1>5, CrashCalls DEF HungUp, HungUpStatus
    <2>2. AbortsKnown'
      BY <1>5, CrashCalls DEF AbortsKnown, Over
    <2> QED BY <2>1, <2>2
  <1> QED BY <1>1, <1>2, <1>3, <1>4, <1>5, JobsKeepCalls DEF Next

\* Unless both an outcome may match no exit and a save may reject, every step
\* keeps the invariant.
LEMMA NextKeepsActive ==
    ASSUME "save" \notin Env \/ "no_exit" \notin Env
    PROVE  IndInv /\ ActiveInv /\ [Next]_vars => ActiveInv'
  <1> SUFFICES ASSUME IndInv, ActiveInv, [Next]_vars
               PROVE  ActiveCallIsLive'
    BY NextKeepsHungUp DEF ActiveInv
  <1>0. /\ end \in [Job -> EndRecord] /\ call \in [Session -> CallStatus]
        /\ active \in Session \cup {None} /\ None \notin Session
        /\ \A j \in Job : end[j].at # "idle" => end[j].sess \in Session
    BY HostAssumption DEF IndInv, TypeOK, CallsOK, CallStatus
  <1>1. CASE SameCalls
    BY <1>1 DEF SameCalls, ActiveInv, ActiveCallIsLive, Live
  <1>2. ASSUME NEW s \in Session, BeginCall(s) \/ CallBegun(s) \/ ComposeFails(s)
        PROVE  ActiveCallIsLive'
    BY <1>0, <1>2 DEF BeginCall, CallBegun, ComposeFails, ActiveInv,
                      ActiveCallIsLive, Live
  <1>3. ASSUME NEW j \in Job, NEW s \in Session, EndCall(j, s)
        PROVE  ActiveCallIsLive'
    BY <1>0, <1>3 DEF EndCall, ActiveInv, ActiveCallIsLive, Live
  <1>4. ASSUME NEW j \in Job, Ending(j)
        PROVE  ActiveCallIsLive'
    <2>1. /\ \A k \in Job : end'[k].sess = end[k].sess
          /\ \A k \in Job \ {j} : end'[k] = end[k]
          /\ end[j].sess \in Session
      BY <1>4, EndingEnds
    <2>2. CASE GoesOn(j)
      BY <1>0, <2>1, <2>2
      DEF GoesOn, Hanging, ActiveInv, ActiveCallIsLive, Live
    <2>3. CASE Aborts(j)
      BY <1>0, <2>1, <2>3 DEF Aborts, ActiveInv, ActiveCallIsLive, Live
    <2>4. CASE Frees(j)
      BY <2>4 DEF Frees, ActiveCallIsLive
    <2>5. CASE Leaves(j)
      BY <2>1, <2>5 DEF Leaves, ActiveInv, ActiveCallIsLive, Live
    <2> QED BY <1>4, <2>2, <2>3, <2>4, <2>5, EndingMoves DEF ActiveInv
  <1>5. CASE Crash
    BY <1>5, CrashCalls DEF ActiveCallIsLive
  <1> QED BY <1>1, <1>2, <1>3, <1>4, <1>5, JobsKeepCalls DEF Next

-----------------------------------------------------------------------------
(* One call at a time.  What the invariant adds: a call in progress is the *)
(* one in activeByUser, a prompt is composed for one call only and while   *)
(* there is no other, and each call is hung up once.                       *)

\* A call in progress is the active one.
LiveIsActive == \A s \in Session : Live(s) => active = s

\* A prompt is composed only while the user has no call.
ComposesAlone ==
    \A s \in Session : call[s] = "composing" =>
        active = None /\ \A t \in Session : call[t] = "composing" => t = s

\* The call of an endCall under way is in progress, and over once it aborts.
HangsUpActive ==
    \A j \in Job :
        /\ end[j].at \in Hanging => call[end[j].sess] = "ending"
        /\ end[j].at = "abort_save" =>
               call[end[j].sess] = "ended" /\ active = end[j].sess

\* No call is hung up twice.
OneHangUp ==
    \A j, k \in Job :
        /\ end[j].at # "idle" /\ end[k].at # "idle"
        /\ end[j].sess = end[k].sess
        => j = k

OneCallInv == /\ HungUp /\ AbortsKnown
              /\ LiveIsActive /\ ComposesAlone /\ HangsUpActive /\ OneHangUp

\* The parts about the calls are kept by every step of an endCall.
LEMMA EndingKeepsOne ==
    ASSUME IndInv, OneCallInv, NEW j \in Job, Ending(j)
    PROVE  LiveIsActive' /\ ComposesAlone' /\ HangsUpActive' /\ OneHangUp'
  <1> DEFINE s == end[j].sess
  <1>0. /\ call \in [Session -> CallStatus] /\ None \notin Session
        /\ \A k \in Job : end[k].at # "idle" => end[k].sess \in Session
    BY HostAssumption DEF IndInv, TypeOK, CallsOK, CallStatus
  <1>1. /\ \A k \in Job : end'[k].sess = end[k].sess
        /\ \A k \in Job \ {j} : end'[k] = end[k]
        /\ s \in Session /\ end[j].at # "idle"
    BY EndingEnds
  <1>2. \A k \in Job \ {j} : end[k].at # "idle" => end[k].sess # s
    BY <1>1 DEF OneCallInv, OneHangUp
  <1>3. OneHangUp'
    BY <1>1, <1>2 DEF OneCallInv, OneHangUp
  <1>4. CASE GoesOn(j)
    <2>1. call[s] = "ending" /\ call' = call /\ active' = active
      BY <1>0, <1>1, <1>4 DEF GoesOn, OneCallInv, HangsUpActive
    <2> QED BY <1>0, <1>1, <1>3, <1>4, <2>1
            DEF GoesOn, Hanging, OneCallInv, LiveIsActive, ComposesAlone,
                HangsUpActive, Live
  <1>5. CASE Aborts(j)
    <2>1. /\ call[s] = "ending" /\ active = s /\ active' = active
          /\ call'[s] = "ended"
          /\ \A t \in Session \ {s} : call'[t] = call[t]
      BY <1>0, <1>1, <1>5
      DEF Aborts, Hanging, OneCallInv, HangsUpActive, LiveIsActive, Live
    <2>2. LiveIsActive' /\ ComposesAlone'
      BY <1>0, <1>1, <2>1
      DEF OneCallInv, LiveIsActive, ComposesAlone, Live
    <2>3. HangsUpActive'
      BY <1>0, <1>1, <1>2, <1>5, <2>1
      DEF Aborts, Hanging, OneCallInv, HangsUpActive
    <2> QED BY <1>3, <2>2, <2>3
  <1>6. CASE Frees(j)
    <2>1. /\ active = s /\ active' = None /\ call'[s] = "ended"
          /\ \A t \in Session \ {s} : call'[t] = call[t]
      BY <1>0, <1>1, <1>6
      DEF Frees, Hanging, OneCallInv, HangsUpActive, LiveIsActive, Live
    <2>2. LiveIsActive' /\ ComposesAlone'
      BY <1>0, <1>1, <2>1
      DEF OneCallInv, LiveIsActive, ComposesAlone, Live
    <2>3. HangsUpActive'
      BY <1>0, <1>1, <1>2, <1>6, <2>1
      DEF Frees, Hanging, OneCallInv, HangsUpActive
    <2> QED BY <1>3, <2>2, <2>3
  <1>7. CASE Leaves(j)
    BY <1>1, <1>3, <1>7
    DEF Leaves, Hanging, OneCallInv, LiveIsActive, ComposesAlone,
        HangsUpActive, Live
  <1> QED BY <1>4, <1>5, <1>6, <1>7, EndingMoves DEF OneCallInv

\* Every step keeps the invariant, if no two beginCalls of the user overlap
\* and nobody hangs up a call that is already ending.
LEMMA NextKeepsOne ==
    ASSUME "overlap" \notin Env, "double_end" \notin Env
    PROVE  IndInv /\ OneCallInv /\ [Next]_vars => OneCallInv'
  <1> SUFFICES ASSUME IndInv, OneCallInv, [Next]_vars
               PROVE  /\ LiveIsActive' /\ ComposesAlone'
                      /\ HangsUpActive' /\ OneHangUp'
    BY NextKeepsHungUp DEF OneCallInv
  <1>0. /\ end \in [Job -> EndRecord] /\ call \in [Session -> CallStatus]
        /\ active \in Session \cup {None} /\ None \notin Session
        /\ \A j \in Job : end[j].at # "idle" => end[j].sess \in Session
    BY HostAssumption DEF IndInv, TypeOK, CallsOK, CallStatus
  <1>1. CASE SameCalls
    BY <1>1 DEF SameCalls, OneCallInv, LiveIsActive, ComposesAlone,
                HangsUpActive, OneHangUp, Live
  <1>2. ASSUME NEW s \in Session, BeginCall(s) \/ CallBegun(s) \/ ComposeFails(s)
        PROVE  /\ LiveIsActive' /\ ComposesAlone'
               /\ HangsUpActive' /\ OneHangUp'
    <2>1. /\ call[s] \in {"none", "composing"} /\ UNCHANGED end
          /\ \A t \in Session \ {s} : call'[t] = call[t]
          /\ active = None /\ active' \in {None, s}
          /\ \A t \in Session \ {s} : call[t] # "composing"
          /\ call'[s] \in {"none", "composing"} => active' = None
      BY <1>0, <1>2
      DEF BeginCall, CallBegun, ComposeFails, Admits, OneCallInv,
          ComposesAlone
    <2>2. \A t \in Session : ~Live(t)
      BY <1>0, <2>1 DEF OneCallInv, LiveIsActive
    <2>3. \A j \in Job : /\ end[j].at \notin Hanging \cup {"abort_save"}
                         /\ end'[j].at = end[j].at
      BY <1>0, <2>1, <2>2 DEF OneCallInv, HangsUpActive, Hanging, Live
    <2>4. LiveIsActive'
      <3> SUFFICES ASSUME NEW t \in Session, call'[t] \in {"in_call", "ending"}
                   PROVE  active' = t
        BY DEF LiveIsActive, Live
      <3>1. t = s
        BY <2>1, <2>2 DEF Live
      <3>2. CallBegun(s)
        BY <1>0, <1>2, <3>1 DEF BeginCall, ComposeFails
      <3> QED BY <3>1, <3>2 DEF CallBegun
    <2>5. ComposesAlone'
      BY <2>1 DEF ComposesAlone
    <2>6. HangsUpActive' /\ OneHangUp'
      BY <2>1, <2>3 DEF OneCallInv, HangsUpActive, OneHangUp
    <2> QED BY <2>4, <2>5, <2>6
  <1>3. ASSUME NEW j \in Job, NEW s \in Session, EndCall(j, s)
        PROVE  /\ LiveIsActive' /\ ComposesAlone'
               /\ HangsUpActive' /\ OneHangUp'
    <2>1. /\ \A k \in Job \ {j} : end'[k] = end[k]
          /\ end'[j].sess = s /\ end'[j].at = "hooks"
          /\ call[s] = "in_call" /\ call'[s] = "ending"
          /\ \A t \in Session \ {s} : call'[t] = call[t]
          /\ UNCHANGED active
      BY <1>0, <1>3 DEF EndCall, NoEnd
    <2>2. \A k \in Job \ {j} : end[k].at # "idle" => end[k].sess # s
      BY <2>1 DEF OneCallInv, HungUp, HungUpStatus
    <2>3. LiveIsActive' /\ ComposesAlone'
      BY <2>1 DEF OneCallInv, LiveIsActive, ComposesAlone, Live
    <2>4. HangsUpActive'
      BY <1>0, <2>1, <2>2 DEF OneCallInv, HangsUpActive, Hanging
    <2>5. OneHangUp'
      BY <2>1, <2>2 DEF OneCallInv, OneHangUp
    <2> QED BY <2>3, <2>4, <2>5
  <1>4. ASSUME NEW j \in Job, Ending(j)
        PROVE  /\ LiveIsActive' /\ ComposesAlone'
               /\ HangsUpActive' /\ OneHangUp'
    BY <1>4, EndingKeepsOne
  <1>5. CASE Crash
    <2>1. LiveIsActive' /\ ComposesAlone' /\ HangsUpActive'
      BY <1>5, CrashCalls
      DEF LiveIsActive, ComposesAlone, HangsUpActive, Live, Hanging, Over
    <2>2. OneHangUp'
      BY <1>5, CrashCalls DEF OneCallInv, OneHangUp
    <2> QED BY <2>1, <2>2
  <1> QED BY <1>1, <1>2, <1>3, <1>4, <1>5, JobsKeepCalls DEF Next

-----------------------------------------------------------------------------
(* The theorems *)

\* Unless an outcome may match no exit and a profile save may reject as well,
\* activeByUser never keeps a call that no endCall can end or will clear,
\* however often calls are hung up, overlap or are lost in a restart.
THEOREM UserNeverStuck ==
    ASSUME "save" \notin Env \/ "no_exit" \notin Env
    PROVE  Spec => []ActiveCallIsLive
  <1>1. Init => ActiveInv
    BY DEF Init, ActiveInv, HungUp, AbortsKnown, ActiveCallIsLive, NoEnd
  <1>2. ActiveInv => ActiveCallIsLive
    BY DEF ActiveInv
  <1>3. IndInv /\ ActiveInv /\ [Next]_vars => ActiveInv'
    BY NextKeepsActive
  <1> QED BY <1>1, <1>2, <1>3, Invariance, PTL DEF Spec

\* A user has at most one call in progress, whatever fails and however often
\* the server restarts, as long as no two beginCalls overlap at the prompt
\* and no call is hung up while it is ending.
THEOREM OneCallAtATime ==
    ASSUME "overlap" \notin Env, "double_end" \notin Env
    PROVE  Spec => []OneActiveCall
  <1>1. Init => OneCallInv
    BY DEF Init, OneCallInv, HungUp, AbortsKnown, LiveIsActive, ComposesAlone,
           HangsUpActive, OneHangUp, Hanging, NoEnd, Live
  <1>2. OneCallInv => OneActiveCall
    BY DEF OneCallInv, LiveIsActive, OneActiveCall
  <1>3. IndInv /\ OneCallInv /\ [Next]_vars => OneCallInv'
    BY NextKeepsOne
  <1> QED BY <1>1, <1>2, <1>3, Invariance, PTL DEF Spec

===============================================================================
