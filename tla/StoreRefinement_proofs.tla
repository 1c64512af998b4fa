------------------------- MODULE StoreRefinement_proofs -------------------------
(***************************************************************************)
(* The records in the store behave as DurableJob: every write that reaches *)
(* the file takes the job one step on, whatever rejected, was retried or   *)
(* restarted before it.                                                    *)
(***************************************************************************)
EXTENDS JobRecords_proofs

-----------------------------------------------------------------------------
(* One record after another *)

Open(r) == r.status \notin {"absent", "failed_retryable"} \cup Terminal

LeftIn(r) == {x \in Step : r.steps[x] # "finished"}

\* r may follow d in the store: nothing a DurableJob shows has changed, or it
\* is committed, advanced, failed, resumed, completed.
Follows(d, r) ==
    \/ /\ StatusClass(r.status) = StatusClass(d.status)
       /\ r.committed = d.committed /\ LeftIn(r) = LeftIn(d)
    \/ /\ Open(d) /\ ~d.committed /\ Open(r) /\ r.committed
       /\ LeftIn(r) = LeftIn(d)
    \/ /\ Open(d) /\ d.committed /\ Open(r) /\ r.committed
       /\ LeftIn(r) \subseteq LeftIn(d)
    \/ /\ Open(d) /\ r.status = "failed_retryable"
       /\ r.committed = d.committed /\ LeftIn(r) \subseteq LeftIn(d)
    \/ /\ d.status = "failed_retryable" /\ d.committed /\ Open(r)
       /\ r.committed /\ LeftIn(r) = LeftIn(d)
    \/ /\ Open(d) /\ d.committed /\ r.status \in Terminal /\ r.committed
       /\ LeftIn(r) = LeftIn(d)
       /\ r.status = "completed" => LeftIn(d) = {}

DurableJobs == [j \in Job |-> DurableView(disk[j])]

\* Such a write is a step of DurableJob.
LEMMA FollowsSteps ==
    ASSUME disk \in [Job -> JobRecord], NEW j \in Job, NEW r \in JobRecord,
           disk' = [disk EXCEPT ![j] = r], disk[j].status # "absent",
           r.status # "absent", Follows(disk[j], r)
    PROVE  [Durable!Next]_DurableJobs
  <1> DEFINE d == disk[j]
             v == DurableJobs
             w == DurableView(r)
  <1>1. d \in JobRecord /\ disk'[j] = r
        /\ \A k \in Job : k # j => disk'[k] = disk[k]
    OBVIOUS
  <1>2. v' = [v EXCEPT ![j] = w] /\ v[j] = DurableView(d)
    BY <1>1 DEF DurableJobs
  <1>3. /\ v[j] = [status |-> StatusClass(d.status),
                   committed |-> d.committed, left |-> LeftIn(d)]
        /\ w = [status |-> StatusClass(r.status),
                committed |-> r.committed, left |-> LeftIn(r)]
    BY <1>2 DEF DurableView, LeftIn
  <1>4. /\ Open(d) => StatusClass(d.status) = "open"
        /\ Open(r) => StatusClass(r.status) = "open"
        /\ d.status = "failed_retryable" => StatusClass(d.status) = "failed"
        /\ r.status = "failed_retryable" => StatusClass(r.status) = "failed"
        /\ r.status \in Terminal => StatusClass(r.status) = r.status
    BY DEF Open, StatusClass, Terminal
  <1>5. LeftIn(r) \in SUBSET Step
    BY DEF LeftIn
  <1>6. CASE v' = v
    BY <1>6
  <1>7. CASE v' # v
    <2> DEFINE c == StatusClass(d.status)
               m == d.committed
               l == LeftIn(d)
               rc == StatusClass(r.status)
               rm == r.committed
               rl == LeftIn(r)
    <2>1. /\ v[j].status = c /\ v[j].committed = m /\ v[j].left = l
      BY <1>3
    <2>2. v' = [v EXCEPT ![j] = [status |-> rc, committed |-> rm,
                                 left |-> rl]]
      BY <1>2, <1>3
    <2>3. ~(rc = c /\ rm = m /\ rl = l)
      <3>1. rc = c /\ rm = m /\ rl = l => w = v[j]
        BY <1>3
      <3>2. v \in [Job -> {v[x] : x \in Job}]
        BY DEF DurableJobs
      <3>3. w = v[j] => v' = v
        BY <1>2, <3>2
      <3> QED BY <1>7, <3>1, <3>3
    <2>4. rl \subseteq Step /\ m \in BOOLEAN /\ rm \in BOOLEAN
      BY <1>1, <1>5, RecordFields
    <2>5. \/ c = "open" /\ ~m /\ rc = "open" /\ rm /\ rl = l
          \/ c = "open" /\ m /\ rc = "open" /\ rm /\ rl \subseteq l
          \/ c = "open" /\ rc = "failed" /\ rm = m /\ rl \subseteq l
          \/ c = "failed" /\ m /\ rc = "open" /\ rm /\ rl = l
          \/ c = "open" /\ m /\ rc = "completed" /\ rm /\ rl = {} /\ l = {}
          \/ /\ c = "open" /\ m /\ rc = "completed_with_errors" /\ rm
             /\ rl = l
      <3>1. CASE /\ Open(d) /\ ~d.committed /\ Open(r) /\ r.committed
                 /\ LeftIn(r) = LeftIn(d)
        BY <1>4, <3>1
      <3>2. CASE /\ Open(d) /\ d.committed /\ Open(r) /\ r.committed
                 /\ LeftIn(r) \subseteq LeftIn(d)
        BY <1>4, <3>2
      <3>3. CASE /\ Open(d) /\ r.status = "failed_retryable"
                 /\ r.committed = d.committed /\ LeftIn(r) \subseteq LeftIn(d)
        BY <1>4, <3>3
      <3>4. CASE /\ d.status = "failed_retryable" /\ d.committed /\ Open(r)
                 /\ r.committed /\ LeftIn(r) = LeftIn(d)
        BY <1>4, <3>4
      <3>5. CASE /\ Open(d) /\ d.committed /\ r.status \in Terminal
                 /\ r.committed /\ LeftIn(r) = LeftIn(d)
                 /\ r.status = "completed" => LeftIn(d) = {}
        BY <1>4, <3>5 DEF Terminal
      <3>6. CASE /\ StatusClass(r.status) = StatusClass(d.status)
                 /\ r.committed = d.committed /\ LeftIn(r) = LeftIn(d)
        BY <2>3, <3>6
      <3> QED BY <3>1, <3>2, <3>3, <3>4, <3>5, <3>6 DEF Follows
    <2> HIDE DEF c, m, l, rc, rm, rl, v, w, d
    <2>6. Durable!Become(j, rc, rm, rl)
      BY <2>2 DEF Durable!Become, v, DurableJobs
    <2>7. /\ DurableJobs[j].status = c /\ DurableJobs[j].committed = m
          /\ DurableJobs[j].left = l
      BY <2>1 DEF v
    <2>8. /\ c = "open" /\ ~m /\ Durable!Become(j, "open", TRUE, l)
                 => Durable!Commit(j)
          /\ c = "open" /\ m /\ rl \subseteq l
             /\ Durable!Become(j, "open", TRUE, rl) => Durable!Advance(j)
          /\ c = "open" /\ rl \subseteq l
             /\ Durable!Become(j, "failed", m, rl) => Durable!Fail(j)
          /\ c = "failed" /\ m /\ Durable!Become(j, "open", TRUE, l)
                 => Durable!Resume(j)
          /\ c = "open" /\ m /\ l = {} /\ Durable!Become(j, "completed", TRUE, {})
                 => Durable!Complete(j)
          /\ c = "open" /\ m
             /\ Durable!Become(j, "completed_with_errors", TRUE, l)
                 => Durable!CompleteWithErrors(j)
      BY <2>7 DEF DurableJobs, Durable!Commit, Durable!Advance, Durable!Fail,
                  Durable!Resume, Durable!Complete,
                  Durable!CompleteWithErrors
    <2>9. rm = TRUE \/ rm = FALSE
      BY <2>4
    <2>10. \/ Durable!Commit(j) \/ Durable!Advance(j) \/ Durable!Fail(j)
           \/ Durable!Resume(j) \/ Durable!Complete(j)
           \/ Durable!CompleteWithErrors(j)
      BY <2>4, <2>5, <2>6, <2>8, <2>9
    <2> QED BY <2>10 DEF Durable!Next
  <1> QED BY <1>6, <1>7

-----------------------------------------------------------------------------
(* The invariant *)

Early == {"hooks", "preload", "aborting", "abort_save", "register"}

Noted == {"mark", "note", "fail", "final"}

\* The file has no record of a job whose first write is not through.
NotFiled(j) == end[j].at \in Early => disk[j].status = "absent"

\* A job that the recovery will start is pending.
StartPending(j) ==
    recov.job = j /\ recov.start =>
        mem[j].status = "background_pending" /\ mem[j].committed

\* While a retry is on its way the job waits for it: its promise, if there is
\* one, has failed, the recovery will not start it, and nobody can retry it
\* a second time.
Retried(j) ==
    \A k \in Place : queue[k].job = j /\ queue[k].who = "retry" =>
        /\ mem[j].status = "background_pending" /\ mem[j].committed
        /\ bg[j].at = "idle" \/ Failing(j)
        /\ recov.job = j => ~recov.start
        /\ \A i \in Place : queue[i].job = j /\ queue[i].who = "retry"
                                => i = k

\* The writes of a job follow the record in the file, one after the other.
Follow(j) ==
    disk[j].status # "absent" =>
        /\ \A k \in Place :
              /\ queue[k].job = j
              /\ \A i \in Place : queue[i].job = j /\ i # k => Before(k, i)
              => Follows(disk[j], queue[k].rec)
        /\ \A i, k \in Place :
              queue[i].job = j /\ queue[k].job = j /\ i # k /\ Before(i, k)
                  => Follows(queue[i].rec, queue[k].rec)

\* The record in the file, should the write of the background job reject, is
\* that of a job at work, with every step left that is left in memory and
\* the one whose result is being written.
OpenDisk(j) ==
    "store" \in Env /\ bg[j].at \in Noted /\ disk[j].status # "absent" =>
        /\ Open(disk[j]) /\ disk[j].committed
        /\ LeftIn(mem[j]) \subseteq LeftIn(disk[j])
        /\ bg[j].at = "note" => bg[j].ph \in LeftIn(disk[j])

InOrder(j) == /\ NotFiled(j) /\ StartPending(j) /\ Retried(j)
              /\ Follow(j) /\ OpenDisk(j)

RefInv == \A j \in Job : InOrder(j)

-----------------------------------------------------------------------------
(* What a turn of a job does to its records *)

\* The background job's write rejects, a failure is recorded instead.
Rejects(j) ==
    /\ "store" \in Env /\ bg[j].at \in Noted /\ UNCHANGED disk
    /\ mem'[j].status = "failed_retryable" /\ mem'[j].committed
    /\ LeftIn(mem'[j]) \subseteq
           LeftIn(mem[j]) \cup (IF bg[j].at = "note" THEN {bg[j].ph} ELSE {})
    /\ bg'[j].at \in Noted =>
           bg'[j].at = "note" /\ bg[j].at = "note" /\ bg'[j].ph = bg[j].ph

\* The background job goes on from the record as it is.
Advances(j) ==
    /\ mem[j].status # "absent" /\ Follows(mem[j], mem'[j])
    /\ bg'[j].at # "catch" =>
           /\ Open(mem[j]) /\ mem[j].committed
           /\ LeftIn(mem'[j]) \subseteq LeftIn(mem[j])
           /\ bg'[j].at = "note" => bg'[j].ph \in LeftIn(mem[j])

\* The record as it is has reached the file, or does so now.
Through(j, p) == IF p = "none" THEN Between(j) ELSE Filed(j)

\* A retry that is on its way is not overtaken.
InTime(j, p) ==
    \/ p = "retry" \/ "retry" \notin Env
    \/ recov.job = j /\ recov.start
    \/ end[j].at = "kick"
    \/ bg[j].at # "idle" /\ ~Failing(j)

Records(j, p, n) ==
    /\ n = "none" =>
           /\ mem'[j] = mem[j] \/ j \in recov.todo
           /\ bg'[j].at \in Noted
                  => p \in {"none", "retry"} /\ bg'[j] = bg[j]
           /\ bg[j].at = "idle" \/ Failing(j)
                  => bg'[j].at = "idle" \/ Failing(j)'
    /\ n = "bg" => \/ p = "bg" /\ Rejects(j)
                   \/ Advances(j) /\ Through(j, p) /\ InTime(j, p)
    /\ n = "end" => \/ p = "none" /\ end[j].at = "preload"
                    \/ /\ mem[j].status # "absent" /\ Through(j, p)
                       /\ Follows(mem[j], mem'[j])
    /\ n = "recover" =>
           /\ p = "none" /\ j \in recov.todo /\ Follows(disk[j], mem'[j])
           /\ recov'.job = j
           /\ recov'.start => /\ mem'[j].status = "background_pending"
                              /\ mem'[j].committed
    /\ n = "retry" => /\ p = "none" /\ "retry" \in Env /\ Retryable(mem[j])
                      /\ mem'[j] = Reset(mem[j]) /\ UNCHANGED <<bg, recov>>
    /\ end'[j].at \in Early =>
           end[j].at \in Early \cup {"idle"} /\ p # "end"
    /\ recov'.start => \/ n = "recover"
                       \/ recov.start /\ recov'.job = recov.job

RecordTurn(j) == \E p, n : Turn(j, p, n) /\ Records(j, p, n)

\* The writes of a job in the queue after one that was made by another than
\* a retry: there is no other.
LEMMA WritesAlone ==
    ASSUME IndInv, IndInv', WriteInv, WriteInv', NoLateRetry, MirrorInv,
           NEW j \in Job, NEW p, NEW n \in {"end", "bg", "recover"},
           Turn(j, p, n), Records(j, p, n), Retried(j),
           NEW N \in Place', N = Len(queue'),
           NEW i \in Place', queue'[i].job = j
    PROVE  i = N
  <1>0. StoreOK /\ StoreOK' /\ mem' \in [Job -> JobRecord]
        /\ Queued(j) /\ Queued(j)' /\ Sound(j)'
    BY DEF IndInv, TypeOK, JobsOK, WriteInv, StoreOK
  <1> DEFINE d == IF p = "none" THEN 0 ELSE 1
  <1>1. /\ \/ i + d \in Place /\ queue'[i] = queue[i + d]
           \/ i = N
        /\ queue'[N] = Write(n, j, mem'[j])
        /\ d = 1 => 1 \in Place /\ queue[1].who = p /\ queue[1].job = j
    BY <1>0, TurnPlaces
  <1>2. queue'[N].job = j /\ queue'[N].who = n
    BY <1>1 DEF Write
  <1>3. PICK w : w = queue'[i].who
    OBVIOUS
  <1>4. Awaits(n, j)' /\ Awaits(w, j)'
    <2>1. \A k \in Place' : queue'[k].job = j => Awaits(queue[k].who, j)'
      BY <1>0 DEF Queued, Awaited
    <2> QED BY <1>2, <1>3, <2>1 DEF Awaits
  <1>5. CASE w = "retry"
    <2> SUFFICES ASSUME i # N PROVE FALSE
      OBVIOUS
    <2>1. i + d \in Place /\ queue[i + d].job = j /\ queue[i + d].who = "retry"
      BY <1>1, <1>3, <1>5
    <2>2. end'[j].at \in Over /\ n # "end"
      BY <1>4, <1>5 DEF Awaits, Over
    <2>3. n # "recover"
      <3>1. j \notin recov.todo
        BY <1>0, <2>1 DEF Queued, Awaited
      <3> QED BY <3>1 DEF Records
    <2>4. "retry" \in Env /\ "store" \notin Env
      BY <2>1 DEF MirrorInv, RetryAsked, NoLateRetry
    <2>5. InTime(j, p)
      BY <2>2, <2>3, <2>4 DEF Records, Rejects
    <2>6. p # "retry"
      <3> SUFFICES ASSUME p = "retry" PROVE FALSE
        OBVIOUS
      <3>1. d = 1 /\ i + 1 # 1
        BY DEF Place
      <3> QED BY <1>1, <2>1, <3>1 DEF Retried
    <2>7. end[j].at # "kick"
      BY <1>0, <2>1 DEF Queued, Awaited, Awaits, Over
    <2> QED BY <2>1, <2>4, <2>5, <2>6, <2>7 DEF InTime, Retried
  <1>6. CASE w # "retry"
    <2>1. w = n
      BY <1>0, <1>4, <1>6 DEF Sound, TakeTurns, Awaits, Who, Over
    <2> QED BY <1>0, <1>2, <1>3, <1>6, <2>1 DEF Queued, OneEach
  <1> QED BY <1>5, <1>6

\* Such a write is made when the file has the record before it, or none.
LEMMA WrittenAfter ==
    ASSUME IndInv, IndInv', WriteInv, WriteInv', NoLateRetry, MirrorInv,
           NEW j \in Job, NEW p, NEW n \in {"end", "bg"},
           Turn(j, p, n), Records(j, p, n), Retried(j), Through(j, p),
           mem[j].status # "absent"
    PROVE  disk'[j] = mem[j] \/ disk'[j].status = "absent"
  <1>a. Absent.status = "absent"
    BY DEF Absent, Rec
  <1>b. Mirror(j)
    BY DEF MirrorInv, Mirrored, NoLateRetry
  <1>0. /\ StoreOK /\ mem' \in [Job -> JobRecord] /\ n # "none" /\ n # "retry"
        /\ Queued(j) /\ Mirror(j) /\ mem[j] # Absent
    BY <1>a, <1>b DEF IndInv, TypeOK, JobsOK, WriteInv
  <1> DEFINE d == IF p = "none" THEN 0 ELSE 1
  <1>1. /\ \A i \in Place : i > d => /\ i - d \in Place'
                                    /\ queue'[i - d] = queue[i]
        /\ \A i \in Place : i - d < Len(queue')
        /\ d = 1 => 1 \in Place /\ queue[1].who = p /\ queue[1].job = j
        /\ \E N \in Place' : N = Len(queue')
    BY <1>0, TurnPlaces
  <1>2. ASSUME NEW i \in Place, queue[i].job = j
        PROVE  ~(i > d)
    <2> SUFFICES ASSUME i > d PROVE FALSE
      OBVIOUS
    <2>1. PICK m \in Place' : m = i - d /\ queue'[m] = queue[i]
      BY <1>1
    <2>2. PICK N \in Place' : N = Len(queue')
      BY <1>1
    <2>3. m = N
      BY <1>2, <2>1, <2>2, WritesAlone
    <2>4. m < N /\ m \in Nat
      BY <1>1, <2>1, <2>2 DEF Place
    <2> QED BY <2>3, <2>4
  <1>3. CASE p = "none"
    <2>1. NoWrite(j)
      BY <1>2, <1>3 DEF NoWrite, Place
    <2>2. disk'[j] = disk[j] /\ Between(j)
      BY <1>3 DEF Turn, Who, Through
    <2> QED BY <1>a, <1>0, <2>1, <2>2 DEF Mirror
  <1>4. CASE p # "none"
    <2>1. 1 \in Place /\ queue[1].who = p /\ queue[1].job = j /\ Filed(j)
      BY <1>1, <1>4 DEF Through
    <2>2. \A i \in Place : queue[i].job = j => i = 1
      BY <1>2, <1>4 DEF Place
    <2>3. queue[1].rec = mem[j]
      BY <1>0, <2>1, <2>2 DEF Mirror, Last
    <2>4. p \in Who /\ NextWrite(p, j) /\ ~Missing(Head(queue))
      BY <1>4 DEF Turn
    <2>5. queue[1] = Head(queue)
      BY <1>0, <2>4, HeadFirst
    <2>6. CASE Duplicate(Head(queue))
      <3>1. queue[1].op = "create" /\ UNCHANGED disk
        BY <2>1, <2>5, <2>6 DEF Duplicate, Filed
      <3> QED BY <1>0, <2>1, <3>1 DEF Queued, Awaited
    <2>7. CASE ~Duplicate(Head(queue))
      <3>1. disk' = [disk EXCEPT ![j] = queue[1].rec]
        BY <2>1, <2>5, <2>7 DEF Filed
      <3> QED BY <1>0, <2>3, <3>1 DEF StoreOK
    <2> QED BY <2>6, <2>7
  <1> QED BY <1>3, <1>4

\* Only a retry's write is on its way together with another one of its job.
LEMMA OneWriter ==
    ASSUME WriteInv, NEW j \in Job, NEW i \in Place, NEW k \in Place,
           queue[i].job = j, queue[k].job = j,
           queue[i].who # "retry", queue[k].who # "retry"
    PROVE  i = k
  <1>1. Sound(j) /\ Queued(j)
    BY DEF WriteInv
  <1>2. Awaits(queue[i].who, j) /\ Awaits(queue[k].who, j)
    BY <1>1 DEF Queued, Awaited
  <1>3. queue[i].who = queue[k].who
    BY <1>1, <1>2 DEF Sound, TakeTurns, Awaits, Over
  <1> QED BY <1>1, <1>3 DEF Queued, OneEach

\* The writes left when the one at the head is through, or has rejected.
LEMMA LandedFollow ==
    ASSUME IndInv, IndInv', WriteInv, WriteInv', NoLateRetry, MirrorInv,
           NEW j \in Job, NEW p, Turn(j, p, "none"), Follow(j)
    PROVE  Follow(j)'
  <1>0. StoreOK /\ mem' \in [Job -> JobRecord] /\ Queued(j) /\ Sound(j)
    BY DEF IndInv, TypeOK, JobsOK, WriteInv
  <1>1. CASE p = "none"
    <2>1. queue' = queue /\ disk' = disk
      BY <1>1 DEF Turn, Who
    <2> QED BY <2>1 DEF Follow, Place, Before
  <1>2. CASE p # "none"
    <2> SUFFICES ASSUME disk'[j].status # "absent" PROVE Follow(j)'
      BY DEF Follow
    <2>0. /\ p \in Who /\ NextWrite(p, j) /\ ~Missing(Head(queue))
          /\ Filed(j) \/ ("store" \in Env /\ UNCHANGED disk)
      BY <1>2 DEF Turn
    <2>1. /\ 1 \in Place /\ queue[1] = Head(queue)
          /\ queue[1].who = p /\ queue[1].job = j
          /\ \A k \in Place : queue[k].job = j /\ k # 1 => Before(1, k)
      BY <1>0, <2>0, HeadFirst
    <2>2. /\ \A i \in Place' : i + 1 \in Place /\ queue'[i] = queue[i + 1]
          /\ \A i \in Place : i > 1 => /\ i - 1 \in Place'
                                      /\ queue'[i - 1] = queue[i]
          /\ Len(queue) \in Nat /\ Len(queue') \in Nat
      BY <1>0, <1>2, TurnPlaces
    <2>3. /\ \A i \in Place' : i \in Nat /\ i + 1 # 1
          /\ \A i, k \in Place' : Before(i, k)' <=> Before(i + 1, k + 1)
      BY <2>2 DEF Place, Before
    <2>4. ASSUME NEW k \in Place', queue'[k].job = j
          PROVE  /\ disk[j].status # "absent"
                 /\ Follows(disk'[j], queue'[k].rec)
      <3>1. PICK m \in Place : m = k + 1 /\ queue[m] = queue'[k]
        BY <2>2
      <3>2. m # 1 /\ queue[m].job = j /\ Before(1, m)
        BY <2>1, <2>3, <2>4, <3>1
      <3>3. queue[1].who = "retry" \/ queue[m].who = "retry"
        BY <2>1, <3>2, OneWriter
      <3>4. "store" \notin Env
        BY <2>1, <3>3 DEF MirrorInv, RetryAsked, NoLateRetry
      <3>5. end[j].at \in Over
        BY <2>1, <3>2, <3>3 DEF Queued, Awaited, Awaits, Over,
                                WriteInv
      <3>6. disk[j].status # "absent"
        BY <1>0, <3>5, FileGrows DEF Over
      <3>7. Follows(queue[1].rec, queue[m].rec)
        BY <2>1, <3>2, <3>6 DEF Follow
      <3>8. queue[1].op = "update"
        BY <1>0, <2>1, <3>6 DEF Queued, Awaited
      <3>9. disk'[j] = queue[1].rec
        BY <1>0, <2>0, <2>1, <3>4, <3>8 DEF Filed, Duplicate, StoreOK
      <3> QED BY <3>1, <3>6, <3>7, <3>9
    <2>5. ASSUME NEW i \in Place', NEW k \in Place', queue'[i].job = j,
                 queue'[k].job = j, i # k, Before(i, k)'
          PROVE  Follows(queue'[i].rec, queue'[k].rec)
      <3>1. i + 1 # k + 1 /\ i + 1 \in Place /\ k + 1 \in Place
            /\ Before(i + 1, k + 1)
        BY <2>2, <2>3, <2>5
      <3>2. disk[j].status # "absent"
        BY <2>4, <2>5
      <3> QED BY <2>2, <2>5, <3>1, <3>2 DEF Follow
    <2> QED BY <2>4, <2>5 DEF Follow, Follows, Open, LeftIn
  <1> QED BY <1>1, <1>2

\* The write that endCall, background job or recovery queues.
LEMMA QueuedFollow ==
    ASSUME IndInv, IndInv', WriteInv, WriteInv', NoLateRetry, MirrorInv,
           NEW j \in Job, NEW p, NEW n \in {"end", "bg", "recover"},
           Turn(j, p, n), Records(j, p, n), InOrder(j)
    PROVE  Follow(j)'
  <1>0. StoreOK /\ mem' \in [Job -> JobRecord] /\ Retried(j) /\ n # "none"
    BY DEF IndInv, TypeOK, JobsOK, InOrder
  <1>1. PICK N \in Place' : /\ N = Len(queue')
                            /\ queue'[N] = Write(n, j, mem'[j])
    BY <1>0, TurnPlaces
  <1>2. \A i \in Place' : queue'[i].job = j => i = N
    BY <1>0, <1>1, WritesAlone
  <1>3. queue'[N].rec = mem'[j]
    BY <1>1 DEF Write
  <1> SUFFICES ASSUME disk'[j].status # "absent"
               PROVE  Follows(disk'[j], mem'[j])
    BY <1>2, <1>3 DEF Follow
  <1>4. CASE n = "bg" /\ Rejects(j)
    <2>1. /\ Open(disk[j]) /\ disk[j].committed
          /\ LeftIn(mem[j]) \subseteq LeftIn(disk[j])
          /\ bg[j].at = "note" => bg[j].ph \in LeftIn(disk[j])
          /\ disk' = disk
      BY <1>4 DEF Rejects, InOrder, OpenDisk
    <2>2. mem'[j] \in JobRecord /\ disk[j] \in JobRecord
      BY <1>0 DEF StoreOK
    <2>3. mem'[j].committed = disk[j].committed
      BY <1>4, <2>1, <2>2, RecordFields DEF Rejects
    <2>4. LeftIn(mem'[j]) \subseteq LeftIn(disk[j])
      BY <1>4, <2>1 DEF Rejects
    <2> QED BY <1>4, <2>1, <2>3, <2>4 DEF Rejects, Follows
  <1>5. CASE /\ n \in {"end", "bg"} /\ mem[j].status # "absent"
             /\ Through(j, p) /\ Follows(mem[j], mem'[j])
    <2>1. disk'[j] = mem[j]
      BY <1>0, <1>5, WrittenAfter
    <2> QED BY <1>5, <2>1 DEF Follows, Open, LeftIn
  <1>6. CASE n = "end" /\ p = "none" /\ end[j].at = "preload"
    <2>1. disk[j].status = "absent" /\ disk' = disk
      BY <1>6 DEF InOrder, NotFiled, Early, Turn, Who
    <2> QED BY <2>1
  <1>7. CASE n = "recover"
    <2>1. disk' = disk /\ Follows(disk[j], mem'[j])
      BY <1>7 DEF Records, Turn, Who
    <2> QED BY <2>1 DEF Follows, Open, LeftIn
  <1> QED BY <1>4, <1>5, <1>6, <1>7 DEF Records, Advances

\* The write that a retry queues, behind that of the failure at most.
LEMMA RetryFollow ==
    ASSUME IndInv, IndInv', WriteInv, WriteInv', NoLateRetry, MirrorInv,
           NEW j \in Job, NEW p, Turn(j, p, "retry"), Records(j, p, "retry"),
           InOrder(j)
    PROVE  Follow(j)'
  <1>a. Absent.status = "absent"
    BY DEF Absent, Rec
  <1>b. mem[j].status = "failed_retryable" /\ mem[j].committed
    BY DEF Records, Retryable
  <1>c. /\ mem'[j].status = "background_pending" /\ mem'[j].committed
        /\ LeftIn(mem'[j]) = LeftIn(mem[j]) /\ mem[j] # Absent
    <2>1. mem[j] \in JobRecord
      BY DEF IndInv, TypeOK, JobsOK
    <2>2. /\ Reset(mem[j]).status = "background_pending"
          /\ Reset(mem[j]).committed = mem[j].committed
          /\ \A x \in Step : Reset(mem[j]).steps[x] =
                 IF mem[j].steps[x] = "failed" THEN "pending"
                 ELSE mem[j].steps[x]
      BY <2>1 DEF Reset, JobRecord
    <2>3. mem'[j] = Reset(mem[j])
      BY DEF Records
    <2>4. mem[j] # Absent
      BY <1>a, <1>b
    <2>5. LeftIn(mem'[j]) = LeftIn(mem[j])
      BY <2>2, <2>3 DEF LeftIn
    <2> QED BY <1>b, <2>2, <2>3, <2>4, <2>5
  <1>d. Follows(mem[j], mem'[j])
    BY <1>b, <1>c DEF Follows, Open, Terminal
  <1>0. /\ StoreOK /\ mem' \in [Job -> JobRecord] /\ Retried(j) /\ Mirror(j)
        /\ p = "none" /\ "retry" # "none"
    BY DEF IndInv, TypeOK, JobsOK, InOrder, MirrorInv, Mirrored, NoLateRetry,
           Records
  <1>1. PICK N \in Place' : /\ N = Len(queue')
                            /\ queue'[N] = Write("retry", j, mem'[j])
    BY <1>0, TurnPlaces
  <1>2. /\ \A i \in Place' : (i \in Place /\ queue'[i] = queue[i]) \/ i = N
        /\ \A i \in Place : i \in Place' /\ queue'[i] = queue[i] /\ i < N
        /\ disk' = disk
    <2> DEFINE d == IF p = "none" THEN 0 ELSE 1
    <2>1. /\ \A i \in Place' :
                 \/ i + d \in Place /\ queue'[i] = queue[i + d]
                 \/ i = Len(queue')
          /\ \A i \in Place : i > d => /\ i - d \in Place'
                                      /\ queue'[i - d] = queue[i]
          /\ \A i \in Place : i - d < Len(queue')
          /\ Len(queue) \in Nat /\ Len(queue') \in Nat
      BY <1>0, TurnPlaces
    <2>2. d = 0 /\ disk' = disk
      BY <1>0 DEF Turn, Who
    <2>3. /\ \A i \in Place' : i + 0 = i
          /\ \A i \in Place : i > 0 /\ i - 0 = i
      BY <2>1 DEF Place
    <2> HIDE DEF d
    <2> QED BY <1>1, <2>1, <2>2, <2>3
  <1>3. queue'[N].rec = mem'[j] /\ queue'[N].job = j
        /\ queue'[N].op = "update"
    BY <1>1 DEF Write
  <1>4. "retry" \in Env /\ "store" \notin Env
    <2>1. "retry" \in Env
      BY DEF Records
    <2> QED BY <2>1 DEF NoLateRetry
  <1>5. \A i \in Place : queue[i].job = j => queue[i].who # "retry"
    BY <1>0, <1>b DEF Retried
  <1>6. \A i, k \in Place : queue[i].job = j /\ queue[k].job = j => i = k
    BY <1>5, OneWriter
  <1>7. \A i \in Place : queue[i].job = j => queue[i].rec = mem[j]
    BY <1>0, <1>c, <1>6 DEF Mirror, Last
  <1> SUFFICES ASSUME disk[j].status # "absent" PROVE Follow(j)'
    BY <1>2 DEF Follow
  <1>8. \A i \in Place : queue[i].job = j => queue[i].op = "update"
    BY DEF WriteInv, Queued, Awaited
  <1>9. \A i \in Place : queue[i].job = j =>
            Before(i, N)' /\ ~Before(N, i)'
    BY <1>1, <1>2, <1>3, <1>8 DEF Before, Place
  <1>10. ASSUME NEW k \in Place', queue'[k].job = j,
                \A i \in Place' : queue'[i].job = j /\ i # k => Before(k, i)'
         PROVE  Follows(disk'[j], queue'[k].rec)
    <2>1. CASE NoWrite(j)
      <3>1. k = N
        BY <1>2, <1>10, <2>1 DEF NoWrite
      <3>2. disk[j] = mem[j]
        BY <1>a, <1>0, <1>4, <1>c, <2>1 DEF Mirror
      <3> QED BY <1>2, <1>3, <1>d, <3>1, <3>2
    <2>2. CASE ~NoWrite(j)
      <3>1. PICK i \in Place : queue[i].job = j
        BY <2>2 DEF NoWrite
      <3>2. k # N
        BY <1>2, <1>9, <1>10, <3>1
      <3>3. k \in Place /\ queue'[k] = queue[k]
        BY <1>2, <3>2
      <3> QED BY <1>2, <1>6, <1>10, <3>3 DEF InOrder, Follow
    <2> QED BY <2>1, <2>2
  <1>11. ASSUME NEW i \in Place', NEW k \in Place', queue'[i].job = j,
                queue'[k].job = j, i # k, Before(i, k)'
         PROVE  Follows(queue'[i].rec, queue'[k].rec)
    <2>1. i # N
      BY <1>2, <1>9, <1>11
    <2>2. i \in Place /\ queue'[i] = queue[i]
      BY <1>2, <2>1
    <2>3. k = N
      BY <1>2, <1>6, <1>11, <2>2
    <2> QED BY <1>3, <1>7, <1>11, <1>d, <2>2, <2>3
  <1> QED BY <1>10, <1>11 DEF Follow

\* The record in the file while the background job's write is on its way.
LEMMA TurnOpenDisk ==
    ASSUME IndInv, IndInv', WriteInv, WriteInv', NoLateRetry, MirrorInv,
           MirrorInv', NEW j \in Job, NEW p, NEW n, Turn(j, p, n),
           Records(j, p, n), InOrder(j)
    PROVE  OpenDisk(j)'
  <1> SUFFICES ASSUME "store" \in Env, bg'[j].at \in Noted,
                      disk'[j].status # "absent"
               PROVE  /\ Open(disk'[j]) /\ disk'[j].committed
                      /\ LeftIn(mem'[j]) \subseteq LeftIn(disk'[j])
                      /\ bg'[j].at = "note" => bg'[j].ph \in LeftIn(disk'[j])
    BY DEF OpenDisk, Open, LeftIn
  <1>0. /\ StoreOK /\ mem' \in [Job -> JobRecord] /\ Sound(j)' /\ Queued(j)'
        /\ bg'[j].at # "idle" /\ "retry" \notin Env
    BY DEF IndInv, TypeOK, JobsOK, WriteInv, Noted, NoLateRetry
  <1>1. CASE n = "none"
    <2>1. p \in {"none", "retry"} /\ bg'[j] = bg[j]
      BY <1>1 DEF Records
    <2>2. p # "retry"
      <3> SUFFICES ASSUME p = "retry" PROVE FALSE
        OBVIOUS
      <3>1. p \in Who /\ NextWrite(p, j) /\ ~Missing(Head(queue))
        BY DEF Turn
      <3>2. 1 \in Place /\ queue[1].who = "retry"
        BY <1>0, <3>1, HeadFirst
      <3> QED BY <1>0, <3>2 DEF MirrorInv, RetryAsked
    <2>3. disk' = disk
      BY <2>1, <2>2 DEF Turn, Who
    <2>4. mem'[j] = mem[j]
      <3>1. j \notin recov.todo
        BY <1>0, <2>1 DEF IndInv, ToVisit
      <3> QED BY <1>1, <3>1 DEF Records
    <2> QED BY <2>1, <2>3, <2>4 DEF InOrder, OpenDisk
  <1>2. CASE n # "none"
    <2>1. PICK N \in Place' : queue'[N] = Write(n, j, mem'[j])
      BY <1>0, <1>2, TurnPlaces
    <2>2. queue'[N].job = j /\ queue'[N].who = n
      BY <2>1 DEF Write
    <2>3. Awaits(n, j)'
      BY <1>0, <2>2 DEF Queued, Awaited
    <2>4. n = "bg"
      <3>1. n # "retry"
        BY <1>0, <2>2 DEF MirrorInv, RetryAsked
      <3> QED BY <1>0, <2>3, <3>1 DEF Sound, TakeTurns, Awaits, Over
    <2>5. CASE Rejects(j)
      BY <2>5 DEF Rejects, InOrder, OpenDisk
    <2>6. CASE Advances(j) /\ Through(j, p)
      <3>1. mem[j].status # "absent" /\ bg'[j].at # "catch"
        BY <2>6 DEF Advances, Noted
      <3>2. disk'[j] = mem[j]
        BY <2>4, <2>6, <3>1, WrittenAfter DEF InOrder
      <3> QED BY <2>6, <3>1, <3>2 DEF Advances, Open, LeftIn
    <2> QED BY <2>4, <2>5, <2>6 DEF Records
  <1> QED BY <1>1, <1>2

\* The file until the first write is through, and the job of a retry or of
\* the recovery.
LEMMA TurnRetried ==
    ASSUME IndInv, IndInv', WriteInv, WriteInv', NoLateRetry, MirrorInv,
           NEW j \in Job, NEW p, NEW n, Turn(j, p, n),
           Records(j, p, n), InOrder(j)
    PROVE  NotFiled(j)' /\ StartPending(j)' /\ Retried(j)'
  <1>0. /\ StoreOK /\ mem' \in [Job -> JobRecord] /\ mem[j] \in JobRecord
        /\ Sound(j) /\ Queued(j) /\ Sound(j)' /\ Queued(j)'
    BY DEF IndInv, TypeOK, JobsOK, WriteInv
  <1>1. NotFiled(j)'
    <2> SUFFICES ASSUME end'[j].at \in Early
                 PROVE  disk'[j].status = "absent"
      BY DEF NotFiled
    <2>1. p # "end" /\ end[j].at \in Early \cup {"idle"}
      BY DEF Records
    <2>2. disk[j].status = "absent"
      BY <2>1 DEF InOrder, NotFiled, IndInv, Fresh
    <2> QED BY <2>1, <2>2, FileGrows
  <1> DEFINE d == IF p = "none" THEN 0 ELSE 1
  <1>2. /\ \A i \in Place' :
              \/ i + d \in Place /\ queue'[i] = queue[i + d] /\ i + d # d
              \/ /\ n # "none" /\ i = Len(queue')
                 /\ queue'[i] = Write(n, j, mem'[j])
        /\ n # "none" => /\ Len(queue') \in Place'
                         /\ queue'[Len(queue')] = Write(n, j, mem'[j])
        /\ d = 1 => 1 \in Place /\ queue[1].who = p /\ queue[1].job = j
    <2>1. \A i \in Place' : i + d # d
      BY DEF Place
    <2> HIDE DEF d
    <2> QED BY <1>0, <2>1, TurnPlaces DEF d
  <1>3. n # "none" => Awaits(n, j)'
    <2> SUFFICES ASSUME n # "none" PROVE Awaits(n, j)'
      OBVIOUS
    <2>1. PICK N \in Place' : queue'[N] = Write(n, j, mem'[j])
      BY <1>2
    <2>2. queue'[N].job = j /\ queue'[N].who = n
      BY <2>1 DEF Write
    <2> QED BY <1>0, <2>2 DEF Queued, Awaited
  <1>4. n \in {"end", "bg", "recover", "retry", "none"}
    BY DEF Turn, Who
  <1>5. StartPending(j)'
    <2> SUFFICES ASSUME recov'.job = j, recov'.start
                 PROVE  /\ mem'[j].status = "background_pending"
                        /\ mem'[j].committed
      BY DEF StartPending
    <2>1. CASE n = "recover"
      BY <2>1 DEF Records
    <2>2. CASE n # "recover"
      <3>1. recov.start /\ recov.job = j
        BY <2>2 DEF Records
      <3>2. mem[j].status = "background_pending" /\ mem[j].committed
        BY <3>1 DEF InOrder, StartPending
      <3>3. n # "retry"
        BY <3>2 DEF Records, Retryable
      <3>4. n # "bg" /\ n # "end"
        BY <1>0, <1>3 DEF Sound, TakeTurns, Awaits, Over
      <3>5. j \notin recov.todo
        BY <1>0, <3>1 DEF Queued, RetryLast, Awaited
      <3> QED BY <1>4, <2>2, <3>2, <3>3, <3>4, <3>5 DEF Records
    <2> QED BY <2>1, <2>2
  <1>6. Retried(j)'
    <2> SUFFICES ASSUME NEW k \in Place', queue'[k].job = j,
                        queue'[k].who = "retry"
                 PROVE  /\ mem'[j].status = "background_pending"
                        /\ mem'[j].committed
                        /\ bg'[j].at = "idle" \/ Failing(j)'
                        /\ recov'.job = j => ~recov'.start
                        /\ \A i \in Place' : /\ queue'[i].job = j
                                             /\ queue'[i].who = "retry"
                                             => i = k
      BY DEF Retried
    <2>1. CASE n = "retry"
      <3>1. /\ mem[j].status = "failed_retryable" /\ mem[j].committed
            /\ UNCHANGED <<bg, recov>> /\ mem'[j] = Reset(mem[j])
        BY <2>1 DEF Records, Retryable
      <3>2. mem'[j].status = "background_pending" /\ mem'[j].committed
        BY <1>0, <3>1 DEF Reset, JobRecord
      <3>3. bg'[j].at = "idle" \/ Failing(j)'
        BY <1>0, <3>1 DEF Sound, RunStatus, Failing
      <3>4. recov'.job = j => ~recov'.start
        BY <3>1 DEF InOrder, StartPending
      <3>5. \A i \in Place : queue[i].job = j => queue[i].who # "retry"
        BY <3>1 DEF InOrder, Retried
      <3>6. \A i \in Place' : queue'[i].job = j /\ queue'[i].who = "retry"
                                  => i = Len(queue')
        BY <1>2, <3>5
      <3> QED BY <3>2, <3>3, <3>4, <3>6
    <2>2. CASE n # "retry"
      <3>1. \A i \in Place' : queue'[i].job = j /\ queue'[i].who = "retry"
                => /\ i + d \in Place /\ queue[i + d].job = j
                   /\ queue[i + d].who = "retry" /\ i + d # d
        BY <1>2, <2>2 DEF Write
      <3>2. /\ mem[j].status = "background_pending" /\ mem[j].committed
            /\ bg[j].at = "idle" \/ Failing(j)
            /\ recov.job = j => ~recov.start
            /\ \A i \in Place : queue[i].job = j /\ queue[i].who = "retry"
                                    => i = k + d
        BY <3>1 DEF InOrder, Retried
      <3>3. p # "retry"
        BY <1>2, <3>1, <3>2
      <3>4. j \notin recov.todo /\ end[j].at \in Over
        BY <1>0, <3>1 DEF Queued, Awaited, Awaits
      <3>5. end'[j].at \in Over
        <4>1. \A i \in Place' : queue'[i].job = j /\ queue'[i].who = "retry"
                                    => Awaits("retry", j)'
          BY <1>0 DEF Queued, Awaited, Awaits
        <4> QED BY <4>1 DEF Awaits
      <3>6. "retry" \in Env /\ "store" \notin Env
        BY <3>1 DEF MirrorInv, RetryAsked, NoLateRetry
      <3>7. n # "end" /\ n # "recover"
        BY <1>3, <3>4, <3>5 DEF Awaits, Over, Records
      <3>8. n # "bg"
        BY <3>2, <3>3, <3>4, <3>6 DEF Records, Rejects, InTime, Over
      <3>9. n = "none"
        BY <1>4, <2>2, <3>7, <3>8
      <3>10. /\ mem'[j] = mem[j]
             /\ bg'[j].at = "idle" \/ Failing(j)'
             /\ recov'.start => recov.start /\ recov'.job = recov.job
        BY <3>2, <3>4, <3>9 DEF Records
      <3>11. \A i \in Place' : queue'[i].job = j /\ queue'[i].who = "retry"
                                   => i + d = k + d
        BY <3>1, <3>2
      <3>12. \A i \in Place' : i + d = k + d => i = k
        BY DEF Place
      <3>13. recov'.job = j => ~recov'.start
        BY <3>2, <3>10
      <3>14. \A i \in Place' : queue'[i].job = j /\ queue'[i].who = "retry"
                                   => i = k
        BY <3>11, <3>12
      <3> HIDE DEF d
      <3> QED BY <3>2, <3>10, <3>13, <3>14
    <2> QED BY <2>1, <2>2
  <1> QED BY <1>1, <1>5, <1>6

\* The job whose turn it is.
LEMMA TurnInOrder ==
    ASSUME IndInv, IndInv', WriteInv, WriteInv', NoLateRetry, MirrorInv,
           MirrorInv', NEW j \in Job, NEW p, NEW n, Turn(j, p, n),
           Records(j, p, n), InOrder(j)
    PROVE  InOrder(j)'
  <1>1. n \in {"end", "bg", "recover", "retry", "none"}
    BY DEF Turn, Who
  <1>2. Follow(j)'
    <2>1. CASE n = "none"
      BY <2>1, LandedFollow DEF InOrder
    <2>2. CASE n = "retry"
      BY <2>2, RetryFollow
    <2>3. CASE n \in {"end", "bg", "recover"}
      BY <2>3, QueuedFollow
    <2> QED BY <1>1, <2>1, <2>2, <2>3
  <1> QED BY <1>2, TurnOpenDisk, TurnRetried DEF InOrder

\* The other jobs.
LEMMA OthersInOrder ==
    ASSUME IndInv, IndInv', WriteInv, NEW j \in Job, NEW p, NEW n,
           Turn(j, p, n), Records(j, p, n), OthersKeep(j),
           NEW k \in Job, k # j, InOrder(k)
    PROVE  InOrder(k)'
  <1>0. StoreOK /\ mem' \in [Job -> JobRecord] /\ None \notin Job
    BY HostAssumption DEF IndInv, TypeOK, JobsOK
  <1> DEFINE d == IF p = "none" THEN 0 ELSE 1
  <1>1. /\ \A i \in Place' :
              \/ i + d \in Place /\ queue'[i] = queue[i + d]
              \/ queue'[i] = Write(n, j, mem'[j])
        /\ \A i \in Place : i > d => /\ i - d \in Place'
                                    /\ queue'[i - d] = queue[i]
        /\ d = 1 => 1 \in Place /\ queue[1].who = p /\ queue[1].job = j
        /\ Len(queue) \in Nat /\ Len(queue') \in Nat
    BY <1>0, TurnPlaces
  <1>2. /\ \A i \in Place' : i \in Nat /\ i >= 1
        /\ \A i \in Place : i \in Nat /\ i >= 1
    BY <1>1 DEF Place
  <1>3. mem'[k] = mem[k] /\ bg'[k] = bg[k] /\ end'[k] = end[k]
    BY DEF OthersKeep
  <1>4. disk'[k] = disk[k]
    BY FileGrows
  <1>5. \A i \in Place' : queue'[i].job = k =>
            i + d \in Place /\ queue'[i] = queue[i + d]
    BY <1>1 DEF Write
  <1>6. \A i \in Place : queue[i].job = k =>
            /\ i - d \in Place' /\ queue'[i - d] = queue[i]
            /\ (i - d) + d = i
    <2> SUFFICES ASSUME NEW i \in Place, queue[i].job = k
                 PROVE  /\ i - d \in Place' /\ queue'[i - d] = queue[i]
                        /\ (i - d) + d = i
      OBVIOUS
    <2>1. i > d
      BY <1>1, <1>2
    <2>2. i - d \in Place' /\ queue'[i - d] = queue[i]
      BY <1>1, <2>1
    <2>3. (i - d) + d = i
      BY <1>2
    <2> QED BY <2>2, <2>3
  <1>7. \A i, m \in Place' : /\ queue'[i].job = k /\ queue'[m].job = k
                             => /\ Before(i, m)' <=> Before(i + d, m + d)
                                /\ i + d = m + d => i = m
    BY <1>2, <1>5 DEF Before
  <1>8. recov'.job = k /\ recov'.start => recov.job = k /\ recov.start
    BY <1>0 DEF Records, OthersKeep
  <1> HIDE DEF d
  <1>9. NotFiled(k)' /\ OpenDisk(k)' /\ StartPending(k)'
    BY <1>3, <1>4, <1>8
       DEF InOrder, NotFiled, OpenDisk, StartPending, Open, LeftIn
  <1>10. Failing(k)' <=> Failing(k)
    BY <1>3 DEF Failing
  <1>11. Retried(k)'
    <2> SUFFICES ASSUME NEW m \in Place', queue'[m].job = k,
                        queue'[m].who = "retry"
                 PROVE  /\ mem'[k].status = "background_pending"
                        /\ mem'[k].committed
                        /\ bg'[k].at = "idle" \/ Failing(k)'
                        /\ recov'.job = k => ~recov'.start
                        /\ \A i \in Place' : /\ queue'[i].job = k
                                             /\ queue'[i].who = "retry"
                                             => i = m
      BY DEF Retried
    <2>1. m + d \in Place /\ queue[m + d].job = k
          /\ queue[m + d].who = "retry"
      BY <1>5
    <2>2. /\ mem[k].status = "background_pending" /\ mem[k].committed
          /\ bg[k].at = "idle" \/ Failing(k)
          /\ recov.job = k => ~recov.start
          /\ \A i \in Place : queue[i].job = k /\ queue[i].who = "retry"
                                  => i = m + d
      BY <2>1 DEF InOrder, Retried
    <2>3. \A i \in Place' : queue'[i].job = k /\ queue'[i].who = "retry"
                                => i = m
      BY <1>5, <1>7, <2>2
    <2> QED BY <1>3, <1>8, <1>10, <2>2, <2>3
  <1>12. Follow(k)'
    <2> SUFFICES ASSUME disk[k].status # "absent"
                 PROVE  /\ \A m \in Place' :
                              /\ queue'[m].job = k
                              /\ \A i \in Place' : queue'[i].job = k /\ i # m
                                                       => Before(m, i)'
                              => Follows(disk[k], queue'[m].rec)
                        /\ \A i, m \in Place' :
                              queue'[i].job = k /\ queue'[m].job = k /\ i # m
                              /\ Before(i, m)'
                                  => Follows(queue'[i].rec, queue'[m].rec)
      BY <1>4 DEF Follow, Follows, Open, LeftIn
    <2>1. ASSUME NEW m \in Place', queue'[m].job = k,
                 \A i \in Place' : queue'[i].job = k /\ i # m => Before(m, i)'
          PROVE  Follows(disk[k], queue'[m].rec)
      <3>1. m + d \in Place /\ queue'[m] = queue[m + d]
        BY <1>5, <2>1
      <3>2. ASSUME NEW i \in Place, queue[i].job = k, i # m + d
            PROVE  Before(m + d, i)
        <4>1. PICK l \in Place' : l = i - d
          BY <1>6, <3>2
        <4>2. queue'[l].job = k /\ l + d = i /\ l # m
          BY <1>6, <3>2, <4>1
        <4>3. Before(m, l)'
          BY <2>1, <4>2
        <4>4. Before(m + d, l + d)
          BY <1>7, <2>1, <4>2, <4>3
        <4> QED BY <4>2, <4>4
      <3> QED BY <2>1, <3>1, <3>2 DEF InOrder, Follow
    <2>2. ASSUME NEW i \in Place', NEW m \in Place', queue'[i].job = k,
                 queue'[m].job = k, i # m, Before(i, m)'
          PROVE  Follows(queue'[i].rec, queue'[m].rec)
      BY <1>5, <1>7, <2>2 DEF InOrder, Follow
    <2> QED BY <2>1, <2>2
  <1> QED BY <1>9, <1>11, <1>12 DEF InOrder

-----------------------------------------------------------------------------
(* The turns of a background job *)

\* One record after another, told by the fields that matter.
LEMMA LeftFields ==
    ASSUME NEW r \in JobRecord, NEW x \in Step, NEW s \in StepState
    PROVE  /\ \A y : LeftIn(WithStatus(r, y)) = LeftIn(r)
           /\ LeftIn(Failed(r)) = LeftIn(r)
           /\ s # "finished" =>
                  LeftIn(WithStep(r, x, s)) = LeftIn(r) \cup {x}
           /\ LeftIn(WithStep(r, x, "finished")) = LeftIn(r) \ {x}
  <1>1. /\ r.steps \in [Step -> StepState]
        /\ \A y : WithStatus(r, y).steps = r.steps
        /\ Failed(r).steps = r.steps
        /\ \A y : WithStep(r, x, y).steps = [r.steps EXCEPT ![x] = y]
    BY RecordFields
  <1>2. \A y : LeftIn(WithStatus(r, y)) = LeftIn(r)
    BY <1>1 DEF LeftIn
  <1>3. LeftIn(Failed(r)) = LeftIn(r)
    BY <1>1 DEF LeftIn
  <1>4. ASSUME s # "finished"
        PROVE  LeftIn(WithStep(r, x, s)) = LeftIn(r) \cup {x}
    <2>1. \A z \in Step : WithStep(r, x, s).steps[z] =
                              IF z = x THEN s ELSE r.steps[z]
      BY <1>1
    <2> QED BY <1>4, <2>1 DEF LeftIn
  <1>5. LeftIn(WithStep(r, x, "finished")) = LeftIn(r) \ {x}
    <2>1. \A z \in Step : WithStep(r, x, "finished").steps[z] =
                              IF z = x THEN "finished" ELSE r.steps[z]
      BY <1>1
    <2> QED BY <2>1 DEF LeftIn
  <1> QED BY <1>2, <1>3, <1>4, <1>5

\* A phase or the end is entered.
LEMMA EnterAdvances ==
    ASSUME JobsOK, mem \in [Job -> JobRecord], NEW j \in Job, NEW n, NEW q,
           Enter(j, mem[j], n, q), Open(mem[j]), mem[j].committed,
           Honest(mem'[j])
    PROVE  Advances(j)
  <1> DEFINE r == mem[j]
  <1>0. r \in JobRecord /\ r.status # "absent"
    BY DEF Open
  <1>1. CASE Ahead(r, n) = {}
    <2> DEFINE m == WithStatus(r, IF r.errors THEN "completed_with_errors"
                                  ELSE "completed")
    <2>1. /\ Set("bg", j, m, q)
          /\ bg' = [bg EXCEPT ![j] = At("final", "voicemail", TRUE)]
      BY <1>1 DEF Enter
    <2>2. m.status \in Terminal /\ m.committed = r.committed
      BY <1>0, RecordFields DEF Terminal
    <2>3. LeftIn(m) = LeftIn(r)
      <3>1. m.steps = r.steps
        BY <1>0, RecordFields
      <3> QED BY <3>1 DEF LeftIn
    <2> HIDE DEF m
    <2>4. mem'[j] = m /\ bg'[j].at = "final"
      BY <2>1 DEF Set, JobsOK, At
    <2>5. m.status = "completed" => LeftIn(m) = {}
      BY <2>4 DEF Honest, LeftIn
    <2>6. Follows(r, m)
      BY <2>2, <2>3, <2>5 DEF Follows
    <2> QED BY <1>0, <2>3, <2>4, <2>6 DEF Advances
  <1>2. CASE Ahead(r, n) # {}
    <2>1. PICK x \in First(Ahead(r, n)) :
              /\ Set("bg", j, WithStep(WithStatus(r, RunningStatus[x]),
                                       x, "running"), q)
              /\ bg' = [bg EXCEPT ![j] = At("mark", x, TRUE)]
      BY <1>2 DEF Enter
    <2>2. x \in Step /\ x \in LeftIn(r)
      BY DEF First, Ahead, StepIsFinished, LeftIn
    <2> DEFINE r1 == WithStatus(r, RunningStatus[x])
               m == WithStep(r1, x, "running")
    <2>3. PICK s \in JobStatus : s = RunningStatus[x] /\ s \in Running
      BY <2>2 DEF RunningStatus, Running, Step, JobStatus, ActiveStatus
    <2>4. /\ r1 \in JobRecord /\ LeftIn(r1) = LeftIn(r)
          /\ r1.status = s /\ r1.committed = r.committed
      <3>1. r1 = WithStatus(r, s)
        BY <2>3
      <3> HIDE DEF r1
      <3>2. r1 \in JobRecord
        BY <1>0, <3>1, RecordTypes
      <3>3. r1.status = s /\ r1.committed = r.committed
        BY <1>0, <3>1, RecordFields
      <3>4. r1.steps = r.steps
        BY <1>0, <3>1, RecordFields
      <3> QED BY <3>2, <3>3, <3>4 DEF LeftIn
    <2>5. Set("bg", j, m, q)
      BY <2>1
    <2> HIDE DEF r1
    <2>6. m.status = s /\ m.committed = r.committed
      BY <2>2, <2>4, RecordFields
    <2>7. LeftIn(m) = LeftIn(r)
      <3>1. LeftIn(m) = LeftIn(r1) \cup {x}
        BY <2>2, <2>4, LeftFields DEF StepState
      <3> QED BY <2>2, <2>4, <3>1
    <2> HIDE DEF m
    <2>8. mem'[j] = m /\ bg'[j].at = "mark"
      BY <2>1, <2>5 DEF Set, JobsOK, At
    <2>9. Open(m)
      BY <2>3, <2>6 DEF Open, Running, Terminal
    <2>10. Follows(r, m)
      BY <2>6, <2>7, <2>9 DEF Follows
    <2> QED BY <1>0, <2>7, <2>8, <2>10 DEF Advances
  <1> QED BY <1>1, <1>2

\* The result of a phase is recorded.
LEMMA NoteAdvances ==
    ASSUME JobsOK, NEW j \in Job, NEW p \in Step, NEW ok \in BOOLEAN, NEW q,
           Note(j, p, ok, q), Open(mem[j]), mem[j].committed,
           p \in LeftIn(mem[j])
    PROVE  Advances(j)
  <1> DEFINE r == mem[j]
             m == IF ok THEN WithStep(r, p, "finished")
                  ELSE Failed(WithStep(r, p, "failed"))
  <1>0. r \in JobRecord /\ r.status # "absent"
    BY DEF JobsOK, Open
  <1>1. Set("bg", j, m, q) /\ bg' = [bg EXCEPT ![j] = At("note", p, ok)]
    BY DEF Note
  <1>2. /\ LeftIn(m) \subseteq LeftIn(r) /\ m.committed = r.committed
        /\ m.status = IF ok THEN r.status ELSE "failed_retryable"
    <2>1. CASE ok
      <3>1. m = WithStep(r, p, "finished")
        BY <2>1
      <3> HIDE DEF m
      <3>2. m.committed = r.committed /\ m.status = r.status
        BY <1>0, <3>1, RecordFields
      <3>3. LeftIn(m) = LeftIn(r) \ {p}
        BY <1>0, <3>1, LeftFields DEF StepState
      <3> QED BY <2>1, <3>2, <3>3
    <2>2. CASE ~ok
      <3> DEFINE f == WithStep(r, p, "failed")
      <3>1. f \in JobRecord
        BY <1>0, RecordTypes DEF StepState
      <3>2. LeftIn(f) = LeftIn(r) \cup {p}
        BY <1>0, LeftFields DEF StepState
      <3>3. f.committed = r.committed
        BY <1>0, RecordFields
      <3>4. m = Failed(f)
        BY <2>2
      <3> HIDE DEF f, m
      <3>5. m.status = "failed_retryable" /\ m.committed = f.committed
        BY <3>1, <3>4, RecordFields
      <3>6. LeftIn(m) = LeftIn(f)
        BY <3>1, <3>4, LeftFields DEF StepState, Step
      <3> QED BY <2>2, <3>2, <3>3, <3>5, <3>6
    <2> QED BY <2>1, <2>2
  <1> HIDE DEF m
  <1>3. mem'[j] = m /\ bg'[j].at = "note" /\ bg'[j].ph = p
    BY <1>1 DEF Set, JobsOK, At
  <1>4. Follows(r, m)
    BY <1>2 DEF Follows, Open
  <1> QED BY <1>0, <1>2, <1>3, <1>4 DEF Advances

\* A failure is recorded over a record that is not closed.
LEMMA CatchAdvances ==
    ASSUME JobsOK, NEW j \in Job, NEW q, Catch(j, q),
           mem[j].status \notin Terminal \cup {"absent"}
    PROVE  Advances(j)
  <1> DEFINE r == mem[j]
             m == Failed(r)
  <1>0. r \in JobRecord
    BY DEF JobsOK
  <1>1. mem'[j] = m /\ bg'[j].at = "catch"
    BY DEF Catch, Set, JobsOK, At
  <1>2. /\ m.status = "failed_retryable" /\ m.committed = r.committed
        /\ LeftIn(m) = LeftIn(r)
    <2>1. m.status = "failed_retryable" /\ m.committed = r.committed
      BY <1>0, RecordFields
    <2>2. LeftIn(m) = LeftIn(r)
      BY <1>0, LeftFields DEF StepState, Step
    <2> QED BY <2>1, <2>2
  <1> HIDE DEF m
  <1>3. Follows(r, m)
    <2>1. CASE r.status = "failed_retryable"
      BY <1>2, <2>1 DEF Follows
    <2>2. CASE r.status # "failed_retryable"
      BY <1>2, <2>2 DEF Follows, Open
    <2> QED BY <2>1, <2>2
  <1> QED BY <1>1, <1>3 DEF Advances

\* A background job's step is a turn as told.
LEMMA BgRecords ==
    ASSUME IndInv, WriteInv, NEW j \in Job, NEW p \in {"bg", "none"},
           NEW n \in {"bg", "none"}, Turn(j, p, n), UNCHANGED <<end, recov>>,
           bg[j].at # "idle",
           n = "none" =>
               /\ mem'[j] = mem[j]
               /\ bg'[j].at \in Noted => p = "none" /\ bg'[j] = bg[j]
               /\ Failing(j) => bg'[j].at = "idle" \/ Failing(j)',
           n = "bg" => \/ p = "bg" /\ Rejects(j)
                       \/ Advances(j) /\ Through(j, p) /\ InTime(j, p)
    PROVE  RecordTurn(j)
  <1>1. end'[j].at \notin Early
    BY DEF WriteInv, Sound, TakeTurns, Over, Early
  <1>2. Records(j, p, n)
    BY <1>1 DEF Records
  <1> QED BY <1>2 DEF RecordTurn

\* What the record of a job that has not failed shows.
LEMMA OpenAtWork ==
    ASSUME IndInv, WriteInv, HonestInv, NEW j \in Job,
           bg[j].at \in {"mark", "queued", "work", "saving", "note"},
           ~Failing(j)
    PROVE  /\ Open(mem[j]) /\ mem[j].committed
           /\ \/ bg[j].at \in {"mark", "queued", "work"}
              \/ bg[j].at = "saving" /\ bg[j].ph = "media"
              => bg[j].ph \in LeftIn(mem[j])
           /\ \A p : InTime(j, p)
  <1>1. /\ mem[j].status \notin Terminal
        /\ mem[j].status # "failed_retryable"
        /\ Progress(j) /\ bg[j].ph \in Step
    BY AtPhase
  <1>2. mem[j].committed /\ mem[j].status # "absent"
    BY AtWork
  <1>3. \/ bg[j].at \in {"mark", "queued", "work"}
        \/ bg[j].at = "saving" /\ bg[j].ph = "media"
        => bg[j].ph \in LeftIn(mem[j])
    BY <1>1 DEF Progress, LeftIn
  <1> QED BY <1>1, <1>2, <1>3 DEF Open, InTime

\* The memory and rollup phases.
LEMMA MemoryRecords ==
    ASSUME IndInv, WriteInv, HonestInv, HonestInv', NEW j \in Job,
           Marked(j) \/ MemoryAnswers(j) \/ MemoryNoted(j)
    PROVE  RecordTurn(j)
  <1>a. bg[j].at \in {"mark", "work", "note"}
    BY DEF Marked, MemoryAnswers, MemoryNoted, Sleeps
  <1>0. /\ JobsOK /\ mem \in [Job -> JobRecord] /\ Honest(mem'[j])
        /\ "bg" \in Who /\ "bg" \in Who \cup {"none"} /\ "bg" # "none"
        /\ "none" \in Who \cup {"none"} /\ bg[j].ph \in Step
        /\ Landed("bg", j) => Filed(j)
    BY <1>a, AtWork DEF HonestInv, OwnHonest, JobsOK
  <1>1. CASE Marked(j)
    <2>1. /\ bg[j].at = "mark" /\ Landed("bg", j) /\ ~Failing(j)
          /\ UNCHANGED <<end, recov>>
      BY <1>1 DEF Marked, Failing, callVars
    <2>2. CASE bg[j].ph = "rollup" /\ Note(j, "rollup", TRUE, Tail(queue))
      <3>1. Advances(j)
        BY <1>0, <2>1, <2>2, OpenAtWork, NoteAdvances DEF Step
      <3>2. queue' = Append(Tail(queue), Write("bg", j, mem'[j]))
        BY <1>0, <2>2, NoteShape DEF Step
      <3>3. Turn(j, "bg", "bg")
        BY <1>0, <2>1, <3>2, WriteTurn
      <3>4. InTime(j, "bg") /\ Through(j, "bg")
        BY <1>0, <2>1, OpenAtWork DEF Through
      <3> QED BY <1>a, <1>0, <2>1, <3>1, <3>3, <3>4, BgRecords
    <2>3. CASE /\ queue' = Tail(queue) /\ UNCHANGED mem
               /\ \/ bg' = [bg EXCEPT ![j].at = "work"]
                  \/ bg' = [bg EXCEPT ![j].at = "queued"]
      <3>1. Turn(j, "bg", "none")
        BY <1>0, <2>1, <2>3, WriteTurn
      <3>2. bg'[j].at \notin Noted
        BY <1>0, <2>3 DEF JobsOK, Noted
      <3> QED BY <1>a, <1>0, <2>1, <2>3, <3>1, <3>2, BgRecords
    <2> QED BY <1>1, <2>2, <2>3 DEF Marked
  <1>2. CASE MemoryAnswers(j)
    <2>1. PICK x \in {"memory", "rollup"}, ok \in BOOLEAN :
              Sleeps(j, "work", x) /\ Note(j, x, ok, queue)
      BY <1>2 DEF MemoryAnswers
    <2>2. /\ bg[j].at = "work" /\ bg[j].ph = x /\ x \in Step /\ ~Failing(j)
          /\ UNCHANGED <<end, recov, disk>>
      BY <1>2, <2>1 DEF MemoryAnswers, Sleeps, Failing, Step, callVars
    <2>3. Advances(j)
      BY <1>0, <2>1, <2>2, OpenAtWork, NoteAdvances
    <2>4. queue' = Append(queue, Write("bg", j, mem'[j]))
      BY <1>0, <2>1, <2>2, NoteShape
    <2>5. Turn(j, "none", "bg")
      BY <1>0, <2>2, <2>4, QuietTurn
    <2>6. InTime(j, "none") /\ Through(j, "none")
      BY <2>2, OpenAtWork DEF Through, Between
    <2> QED BY <1>a, <1>0, <2>2, <2>3, <2>5, <2>6, BgRecords
  <1>3. CASE MemoryNoted(j)
    <2>1. /\ bg[j].at = "note" /\ Landed("bg", j) /\ UNCHANGED <<end, recov>>
          /\ bg[j].ph \in {"memory", "rollup"}
      BY <1>3 DEF MemoryNoted, callVars
    <2>2. CASE bg[j].ok /\ Enter(j, mem[j], Order[bg[j].ph] + 1, Tail(queue))
      <3>1. ~Failing(j)
        BY <2>1, <2>2 DEF Failing
      <3>2. Advances(j)
        BY <1>0, <2>1, <2>2, <3>1, OpenAtWork, EnterAdvances
      <3>3. queue' = Append(Tail(queue), Write("bg", j, mem'[j]))
        BY <1>0, <2>2, EnterShape
      <3>4. Turn(j, "bg", "bg")
        BY <1>0, <2>1, <3>3, WriteTurn
      <3>5. InTime(j, "bg") /\ Through(j, "bg")
        BY <1>0, <2>1, <3>1, OpenAtWork DEF Through
      <3> QED BY <1>a, <1>0, <2>1, <3>2, <3>4, <3>5, BgRecords
    <2>3. CASE /\ queue' = Tail(queue) /\ UNCHANGED mem
               /\ bg' = [bg EXCEPT ![j] = Idle]
      <3>1. Turn(j, "bg", "none")
        BY <1>0, <2>1, <2>3, WriteTurn
      <3>2. bg'[j].at = "idle" /\ bg'[j].at \notin Noted
        BY <1>0, <2>3 DEF JobsOK, Idle, At, Noted
      <3> QED BY <1>a, <1>0, <2>1, <2>3, <3>1, <3>2, BgRecords
    <2> QED BY <1>3, <2>2, <2>3 DEF MemoryNoted
  <1> QED BY <1>1, <1>2, <1>3

\* The media phase.
LEMMA MediaRecords ==
    ASSUME IndInv, WriteInv, HonestInv, HonestInv', NEW j \in Job,
           \/ StartMedia(j) \/ SinkAnswers(j) \/ MediaSaved(j)
           \/ MediaNoted(j)
    PROVE  RecordTurn(j)
  <1>a. bg[j].at \in {"queued", "work", "saving", "note"}
        /\ bg[j].ph = "media" /\ ~Failing(j)
    BY DEF StartMedia, SinkAnswers, MediaSaved, MediaNoted, Sleeps, Failing
  <1>0. /\ JobsOK /\ mem \in [Job -> JobRecord] /\ mem[j] \in JobRecord
        /\ Honest(mem'[j]) /\ "media" \in Step /\ bg[j].ok \in BOOLEAN
        /\ "bg" \in Who /\ "bg" \in Who \cup {"none"} /\ "bg" # "none"
        /\ "none" \in Who \cup {"none"}
        /\ Landed("bg", j) => Filed(j)
    BY <1>a, AtWork DEF HonestInv, OwnHonest, JobsOK, Step
  <1>b. /\ Open(mem[j]) /\ mem[j].committed /\ mem[j].status # "absent"
        /\ bg[j].at = "saving" => "media" \in LeftIn(mem[j])
        /\ \A p : InTime(j, p)
    BY <1>a, OpenAtWork DEF Open
  <1>1. CASE StartMedia(j) \/ SinkAnswers(j)
    <2>1. UNCHANGED <<end, recov, mem, disk, queue>>
      BY <1>1 DEF StartMedia, SinkAnswers, callVars, storeVars
    <2>2. bg'[j].at \notin Noted
      <3>1. bg'[j].at \in {"saving", "work"}
        BY <1>0, <1>1 DEF StartMedia, SinkAnswers, JobsOK, At
      <3> QED BY <3>1 DEF Noted
    <2>3. Turn(j, "none", "none")
      BY <1>0, <2>1, QuietTurn
    <2> QED BY <1>a, <1>0, <2>1, <2>2, <2>3, BgRecords
  <1>2. CASE MediaSaved(j)
    <2>0. PICK x \in StepState : x = IF bg[j].ok THEN "finished" ELSE "failed"
      BY DEF StepState
    <2> DEFINE m0 == WithStep(mem[j], "media", x)
               m == [m0 EXCEPT !.errors = @ \/ ~bg[j].ok]
    <2>1. /\ Set("bg", j, m, queue) /\ bg' = [bg EXCEPT ![j].at = "note"]
          /\ UNCHANGED <<end, recov, disk>> /\ bg[j].at = "saving"
      BY <1>2, <2>0 DEF MediaSaved, Sleeps, callVars
    <2>2. /\ m0 \in JobRecord /\ m0.status = mem[j].status
          /\ m0.committed = mem[j].committed
      <3>1. m0 \in JobRecord
        BY <1>0, RecordTypes
      <3>2. mem[j] \in JobRecord /\ "media" \in Step
        BY <1>0
      <3>3. m0.status = mem[j].status /\ m0.committed = mem[j].committed
        BY <3>2 DEF WithStep, JobRecord
      <3> QED BY <3>1, <3>3
    <2>3. LeftIn(m0) \subseteq LeftIn(mem[j])
      <3>1. CASE bg[j].ok
        <4>1. LeftIn(WithStep(mem[j], "media", "finished"))
                  = LeftIn(mem[j]) \ {"media"}
          BY <1>0, LeftFields DEF StepState
        <4> QED BY <2>0, <3>1, <4>1
      <3>2. CASE ~bg[j].ok
        <4>1. LeftIn(WithStep(mem[j], "media", "failed"))
                  = LeftIn(mem[j]) \cup {"media"}
          BY <1>0, LeftFields DEF StepState
        <4> QED BY <1>b, <2>0, <2>1, <3>2, <4>1
      <3> QED BY <1>0, <3>1, <3>2
    <2> HIDE DEF m0
    <2>4. m.status = m0.status /\ m.committed = m0.committed
          /\ m.steps = m0.steps
      BY <2>2 DEF JobRecord
    <2> HIDE DEF m
    <2>5. mem'[j] = m /\ bg'[j].at = "note" /\ bg'[j].ph = "media"
          /\ queue' = Append(queue, Write("bg", j, mem'[j]))
      BY <1>a, <1>0, <2>1 DEF Set, JobsOK
    <2>6. LeftIn(m) \subseteq LeftIn(mem[j])
      BY <2>3, <2>4 DEF LeftIn
    <2>7. Follows(mem[j], m)
      BY <1>b, <2>2, <2>4, <2>6 DEF Follows, Open
    <2>8. Advances(j)
      BY <1>b, <2>1, <2>5, <2>6, <2>7 DEF Advances
    <2>9. Turn(j, "none", "bg")
      BY <1>0, <2>1, <2>5, QuietTurn
    <2>10. InTime(j, "none") /\ Through(j, "none")
      BY <1>b, <2>1 DEF Through, Between
    <2> QED BY <1>a, <1>0, <2>1, <2>8, <2>9, <2>10, BgRecords
  <1>3. CASE MediaNoted(j)
    <2>1. /\ bg[j].at = "note" /\ Landed("bg", j) /\ UNCHANGED <<end, recov>>
      BY <1>3 DEF MediaNoted, Sleeps, callVars
    <2>2. InTime(j, "bg") /\ Through(j, "bg")
      BY <1>0, <1>b, <2>1 DEF Through
    <2>3. CASE Enter(j, mem[j], Order["media"] + 1, Tail(queue))
      <3>1. Advances(j)
        BY <1>0, <1>b, <2>3, EnterAdvances
      <3>2. queue' = Append(Tail(queue), Write("bg", j, mem'[j]))
        BY <1>0, <2>3, EnterShape
      <3>3. Turn(j, "bg", "bg")
        BY <1>0, <2>1, <3>2, WriteTurn
      <3> QED BY <1>a, <1>0, <2>1, <2>2, <3>1, <3>3, BgRecords
    <2>4. CASE /\ Set("bg", j, WithStatus(mem[j], "failed_retryable"),
                      Tail(queue))
               /\ bg' = [bg EXCEPT ![j].at = "fail"]
      <3> DEFINE m == WithStatus(mem[j], "failed_retryable")
      <3>1. m.status = "failed_retryable" /\ m.committed = mem[j].committed
        BY <1>0, RecordFields
      <3>2. LeftIn(m) = LeftIn(mem[j])
        BY <1>0, LeftFields DEF StepState
      <3>3. /\ mem'[j] = m /\ bg'[j].at = "fail"
            /\ queue' = Append(Tail(queue), Write("bg", j, mem'[j]))
        BY <1>0, <2>4 DEF Set, JobsOK
      <3> HIDE DEF m
      <3>4. Follows(mem[j], m)
        BY <1>b, <3>1, <3>2 DEF Follows
      <3>5. Advances(j)
        BY <1>b, <3>2, <3>3, <3>4 DEF Advances
      <3>6. Turn(j, "bg", "bg")
        BY <1>0, <2>1, <3>3, WriteTurn
      <3> QED BY <1>a, <1>0, <2>1, <2>2, <3>5, <3>6, BgRecords
    <2> QED BY <1>3, <2>3, <2>4 DEF MediaNoted
  <1> QED BY <1>1, <1>2, <1>3

\* The voicemail phase.
LEMMA VoicemailRecords ==
    ASSUME IndInv, WriteInv, HonestInv, HonestInv', NEW j \in Job,
           \/ StartVoicemail(j) \/ VoicemailAnswers(j)
           \/ VoicemailNoted(j) \/ VoicemailSaved(j)
    PROVE  RecordTurn(j)
  <1>a. bg[j].at \in {"queued", "work", "note", "saving"}
        /\ bg[j].ph = "voicemail"
    BY DEF StartVoicemail, VoicemailAnswers, VoicemailNoted, VoicemailSaved,
           Sleeps
  <1>0. /\ JobsOK /\ mem \in [Job -> JobRecord] /\ Honest(mem'[j]) /\ Told(j)
        /\ "voicemail" \in Step /\ bg[j].ok \in BOOLEAN
        /\ "bg" \in Who /\ "bg" \in Who \cup {"none"} /\ "bg" # "none"
        /\ "none" \in Who \cup {"none"}
        /\ Landed("bg", j) => Filed(j)
    BY <1>a, AtWork, AtPhase DEF HonestInv, OwnHonest
  <1>1. CASE StartVoicemail(j)
    <2>1. UNCHANGED <<end, recov, mem, disk, queue>> /\ bg[j].at = "queued"
      BY <1>1 DEF StartVoicemail, callVars, storeVars, Sleeps
    <2>2. bg'[j].at \notin Noted /\ ~Failing(j)
      BY <1>0, <1>1, <2>1 DEF StartVoicemail, JobsOK, Noted, Failing
    <2>3. Turn(j, "none", "none")
      BY <1>0, <2>1, QuietTurn
    <2> QED BY <1>a, <1>0, <2>1, <2>2, <2>3, BgRecords
  <1>2. CASE VoicemailAnswers(j)
    <2>1. PICK ok \in BOOLEAN : Note(j, "voicemail", ok, queue)
      BY <1>2 DEF VoicemailAnswers
    <2>2. /\ bg[j].at = "work" /\ ~Failing(j)
          /\ UNCHANGED <<end, recov, disk>>
      BY <1>2 DEF VoicemailAnswers, Sleeps, Failing, callVars
    <2>3. Advances(j)
      BY <1>a, <1>0, <2>1, <2>2, OpenAtWork, NoteAdvances
    <2>4. queue' = Append(queue, Write("bg", j, mem'[j]))
      BY <1>0, <2>1, <2>2, NoteShape
    <2>5. Turn(j, "none", "bg")
      BY <1>0, <2>2, <2>4, QuietTurn
    <2>6. InTime(j, "none") /\ Through(j, "none")
      BY <2>2, OpenAtWork DEF Through, Between
    <2> QED BY <1>a, <1>0, <2>2, <2>3, <2>5, <2>6, BgRecords
  <1>3. CASE VoicemailNoted(j)
    <2>1. /\ bg[j].at = "note" /\ Landed("bg", j)
          /\ UNCHANGED <<end, recov, mem>> /\ queue' = Tail(queue)
          /\ bg' = [bg EXCEPT ![j].at = "saving"]
      BY <1>3 DEF VoicemailNoted, callVars, Sleeps
    <2>2. bg'[j].at = "saving" /\ bg'[j].ph = bg[j].ph
          /\ bg'[j].ok = bg[j].ok
      BY <1>0, <2>1 DEF JobsOK
    <2>3. Failing(j) => Failing(j)'
      BY <1>a, <2>1, <2>2 DEF Failing
    <2>4. Turn(j, "bg", "none")
      BY <1>0, <2>1, WriteTurn
    <2>5. bg'[j].at \notin Noted
      BY <2>2 DEF Noted
    <2> QED BY <1>a, <1>0, <2>1, <2>3, <2>4, <2>5, BgRecords
  <1>4. CASE VoicemailSaved(j)
    <2>1. /\ bg[j].at = "saving" /\ UNCHANGED <<end, recov, disk>>
      BY <1>4 DEF VoicemailSaved, callVars, Sleeps
    <2>2. CASE /\ mem[j].status # "failed_retryable"
               /\ Enter(j, mem[j], Order["voicemail"] + 1, queue)
      <3>1. ~Failing(j)
        BY <1>a, <1>0, <2>1, <2>2 DEF Told, Failing
      <3>2. Advances(j)
        BY <1>0, <2>1, <2>2, <3>1, OpenAtWork, EnterAdvances
      <3>3. queue' = Append(queue, Write("bg", j, mem'[j]))
        BY <1>0, <2>2, EnterShape
      <3>4. Turn(j, "none", "bg")
        BY <1>0, <2>1, <3>3, QuietTurn
      <3>5. InTime(j, "none") /\ Through(j, "none")
        BY <2>1, <3>1, OpenAtWork DEF Through, Between
      <3> QED BY <1>a, <1>0, <2>1, <3>2, <3>4, <3>5, BgRecords
    <2>3. CASE bg' = [bg EXCEPT ![j] = Idle] /\ UNCHANGED <<mem, queue>>
      <3>1. Turn(j, "none", "none")
        BY <1>0, <2>1, <2>3, QuietTurn
      <3>2. bg'[j].at = "idle" /\ bg'[j].at \notin Noted
        BY <1>0, <2>3 DEF JobsOK, Idle, At, Noted
      <3> QED BY <1>a, <1>0, <2>1, <2>3, <3>1, <3>2, BgRecords
    <2> QED BY <1>4, <2>2, <2>3 DEF VoicemailSaved
  <1> QED BY <1>1, <1>2, <1>3, <1>4

\* The last write, and the writes and saves that reject.
LEMMA SettleRecords ==
    ASSUME IndInv, WriteInv, HonestInv, NEW j \in Job,
           Settled(j) \/ StoreRejects(j) \/ SaveRejects(j)
    PROVE  RecordTurn(j)
  <1>a. bg[j].at \in {"mark", "note", "fail", "final", "catch", "saving"}
    BY DEF Settled, StoreRejects, SaveRejects
  <1>0. /\ JobsOK /\ mem[j] \in JobRecord /\ Told(j) /\ bg[j].ph \in Step
        /\ mem[j].committed /\ mem[j].status # "absent"
        /\ bg[j].at = "saving" => mem[j].status \notin Terminal
        /\ "bg" \in Who /\ "bg" \in Who \cup {"none"} /\ "bg" # "none"
        /\ "none" \in Who \cup {"none"}
    BY <1>a, AtPhase, AtWork
  <1>1. CASE Settled(j) \/ (StoreRejects(j) /\ bg[j].at = "catch")
    <2>1. /\ Landed("bg", j) \/ Broken("bg", j)
          /\ UNCHANGED <<end, recov, mem>> /\ queue' = Tail(queue)
          /\ bg' = [bg EXCEPT ![j] = Idle]
      BY <1>1 DEF Settled, StoreRejects, Guarded, callVars
    <2>2. Turn(j, "bg", "none")
      BY <1>0, <2>1, WriteTurn
    <2>3. bg'[j].at = "idle" /\ bg'[j].at \notin Noted
      BY <1>0, <2>1 DEF JobsOK, Idle, At, Noted
    <2> QED BY <1>a, <1>0, <2>1, <2>2, <2>3, BgRecords
  <1>2. CASE StoreRejects(j) /\ bg[j].at # "catch"
    <2>1. /\ bg[j].at \in Noted /\ Broken("bg", j) /\ "store" \in Env
          /\ UNCHANGED <<end, recov, disk>>
      BY <1>2 DEF StoreRejects, Broken, Noted, callVars
    <2>2. CASE Guarded(j) /\ Note(j, bg[j].ph, FALSE, Tail(queue))
      <3> DEFINE f == WithStep(mem[j], bg[j].ph, "failed")
                 m == Failed(f)
      <3>1. f \in JobRecord /\ f.committed = mem[j].committed
        BY <1>0, RecordTypes, RecordFields DEF StepState
      <3>2. LeftIn(f) = LeftIn(mem[j]) \cup {bg[j].ph}
        BY <1>0, LeftFields DEF StepState
      <3>3. /\ Set("bg", j, m, Tail(queue))
            /\ bg' = [bg EXCEPT ![j] = At("note", bg[j].ph, FALSE)]
        BY <2>2 DEF Note
      <3> HIDE DEF f
      <3>4. m.status = "failed_retryable" /\ m.committed = f.committed
        BY <3>1, RecordFields
      <3>5. LeftIn(m) = LeftIn(f)
        BY <3>1, LeftFields DEF StepState, Step
      <3> HIDE DEF m
      <3>6. /\ mem'[j] = m /\ bg'[j].at = "note" /\ bg'[j].ph = bg[j].ph
            /\ queue' = Append(Tail(queue), Write("bg", j, mem'[j]))
        BY <1>0, <3>3 DEF Set, JobsOK, At
      <3>7. bg[j].at = "note"
        BY <2>2 DEF Guarded
      <3>8. Rejects(j)
        BY <1>0, <2>1, <3>1, <3>2, <3>4, <3>5, <3>6, <3>7 DEF Rejects
      <3>9. Turn(j, "bg", "bg")
        BY <1>0, <2>1, <3>6, WriteTurn
      <3> QED BY <1>a, <1>0, <2>1, <3>8, <3>9, BgRecords
    <2>3. CASE Catch(j, Tail(queue))
      <3>1. /\ mem'[j] = Failed(mem[j]) /\ bg'[j].at = "catch"
            /\ queue' = Append(Tail(queue), Write("bg", j, mem'[j]))
        BY <1>0, <2>3 DEF Catch, Set, JobsOK, At
      <3>2. Failed(mem[j]).status = "failed_retryable"
            /\ Failed(mem[j]).committed = mem[j].committed
        BY <1>0, RecordFields
      <3>3. LeftIn(Failed(mem[j])) = LeftIn(mem[j])
        BY <1>0, LeftFields DEF StepState
      <3>4. Rejects(j)
        BY <1>0, <2>1, <3>1, <3>2, <3>3 DEF Rejects, Noted
      <3>5. Turn(j, "bg", "bg")
        BY <1>0, <2>1, <3>1, WriteTurn
      <3> QED BY <1>a, <1>0, <2>1, <3>4, <3>5, BgRecords
    <2> QED BY <1>2, <2>2, <2>3 DEF StoreRejects
  <1>3. CASE SaveRejects(j)
    <2>1. /\ bg[j].at = "saving" /\ Catch(j, queue)
          /\ UNCHANGED <<end, recov, disk>>
      BY <1>3 DEF SaveRejects, callVars
    <2>2. queue' = Append(queue, Write("bg", j, mem'[j]))
      BY <1>0, <2>1, CatchShape
    <2>3. Advances(j)
      BY <1>0, <2>1, CatchAdvances
    <2>4. InTime(j, "none") /\ Through(j, "none")
      BY <2>1, <1>0 DEF Through, Between, InTime, Failing, Told
    <2>5. Turn(j, "none", "bg")
      BY <1>0, <2>1, <2>2, QuietTurn
    <2> QED BY <1>a, <1>0, <2>1, <2>3, <2>4, <2>5, BgRecords
  <1> QED BY <1>1, <1>2, <1>3


-----------------------------------------------------------------------------
(* The turns of a retry, of the recovery and of an endCall *)

\* A job is handed to its promise, or has one already.
LEMMA StartRecords ==
    ASSUME IndInv, WriteInv, HonestInv', NEW j \in Job,
           NEW p \in {"end", "retry", "recover"}, Landed(p, j),
           StartBackground(j, Tail(queue)), p = "retry" \/ bg[j].at = "idle",
           mem[j].status = "background_pending", mem[j].committed,
           InTime(j, p), end'[j].at \notin Early,
           recov'.start => recov.start /\ recov'.job = recov.job
    PROVE  RecordTurn(j)
  <1>0. /\ JobsOK /\ mem \in [Job -> JobRecord] /\ mem[j] \in JobRecord
        /\ Honest(mem'[j]) /\ p \in Who /\ p # "none"
        /\ "none" \in Who \cup {"none"} /\ "bg" \in Who \cup {"none"}
    BY DEF IndInv, TypeOK, JobsOK, HonestInv, OwnHonest, Who
  <1>1. Through(j, p)
    BY <1>0 DEF Landed, Filed, Through
  <1>2. Open(mem[j])
    BY DEF Open, Terminal
  <1>3. CASE bg[j].at # "idle"
    <2>1. queue' = Tail(queue) /\ UNCHANGED <<mem, bg>>
      BY <1>3 DEF StartBackground
    <2>2. Turn(j, p, "none")
      BY <1>0, <2>1, WriteTurn
    <2>3. Records(j, p, "none")
      BY <1>3, <2>1 DEF Records, Failing
    <2> QED BY <2>2, <2>3 DEF RecordTurn
  <1>4. CASE bg[j].at = "idle"
    <2>1. ASSUME Advances(j),
                 queue' = Append(Tail(queue), Write("bg", j, mem'[j]))
          PROVE  RecordTurn(j)
      <3>1. Turn(j, p, "bg")
        BY <1>0, <2>1, WriteTurn
      <3>2. Records(j, p, "bg")
        BY <1>1, <2>1 DEF Records
      <3> QED BY <3>1, <3>2 DEF RecordTurn
    <2>2. CASE loaded
      <3>1. Enter(j, mem[j], 1, Tail(queue))
        BY <1>4, <2>2 DEF StartBackground
      <3>2. Advances(j)
        BY <1>0, <1>2, <3>1, EnterAdvances
      <3>3. queue' = Append(Tail(queue), Write("bg", j, mem'[j]))
        BY <1>0, <3>1, EnterShape
      <3> QED BY <2>1, <3>2, <3>3
    <2>3. CASE ~loaded
      <3>1. /\ Set("bg", j, Failed(mem[j]), Tail(queue))
            /\ bg' = [bg EXCEPT ![j] = At("catch", "memory", FALSE)]
        BY <1>4, <2>3 DEF StartBackground
      <3> DEFINE m == Failed(mem[j])
      <3>2. m.status = "failed_retryable" /\ m.committed = mem[j].committed
        BY <1>0, RecordFields
      <3>3. LeftIn(m) = LeftIn(mem[j])
        BY <1>0, LeftFields DEF StepState, Step
      <3>4. Set("bg", j, m, Tail(queue))
        BY <3>1
      <3> HIDE DEF m
      <3>5. /\ mem'[j] = m /\ bg'[j].at = "catch"
            /\ queue' = Append(Tail(queue), Write("bg", j, mem'[j]))
        BY <1>0, <3>1, <3>4 DEF Set, JobsOK, At
      <3>6. Follows(mem[j], m)
        BY <1>2, <3>2, <3>3 DEF Follows
      <3>7. Advances(j)
        BY <3>5, <3>6 DEF Advances
      <3> QED BY <2>1, <3>5, <3>7
    <2> QED BY <2>2, <2>3
  <1> QED BY <1>3, <1>4

\* The user's retry, and the write of a retry that lands or rejects.
LEMMA RetryRecords ==
    ASSUME IndInv, WriteInv, HonestInv', NEW j \in Job,
           Retry(j) \/ Retrying(j), Retried(j)
    PROVE  RecordTurn(j)
  <1>0. /\ StoreOK /\ JobsOK /\ Sound(j) /\ "retry" \in Who
        /\ "retry" \in Who \cup {"none"} /\ "none" \in Who \cup {"none"}
        /\ UNCHANGED <<end, recov>>
    BY DEF IndInv, TypeOK, WriteInv, Who, Retry, Retrying, RetryStarts,
           RetryRejects, callVars
  <1>1. CASE Retry(j)
    <2>1. /\ Set("retry", j, Reset(mem[j]), queue) /\ "retry" \in Env
          /\ UNCHANGED <<bg, disk>> /\ Retryable(mem[j])
      BY <1>1 DEF Retry
    <2>2. /\ mem'[j] = Reset(mem[j])
          /\ queue' = Append(queue, Write("retry", j, mem'[j]))
      BY <1>0, <2>1 DEF Set, JobsOK
    <2>3. Turn(j, "none", "retry")
      BY <1>0, <2>1, <2>2, QuietTurn
    <2>4. end'[j].at \notin Early
      <3>1. mem[j].committed /\ mem[j].status = "failed_retryable"
        BY <2>1 DEF Retryable
      <3>2. ~Absent.committed
        BY DEF Absent, Rec
      <3> QED BY <1>0, <3>1, <3>2 DEF Sound, EndStatus, Early
    <2>5. Records(j, "none", "retry")
      BY <1>0, <2>1, <2>2, <2>4 DEF Records
    <2> QED BY <2>3, <2>5 DEF RecordTurn
  <1>2. CASE Retrying(j)
    <2>1. NextWrite("retry", j) /\ ~Missing(Head(queue))
      BY <1>2 DEF Retrying, RetryStarts, RetryRejects, Landed, Broken
    <2>2. end[j].at \in Over /\ 1 \in Place /\ queue[1].job = j
          /\ queue[1].who = "retry"
      <3>1. Awaits("retry", j)
        BY <1>0, <2>1, HeadFacts
      <3>2. 1 \in Place /\ queue[1].job = j /\ queue[1].who = "retry"
        BY <1>0, <2>1, HeadFirst
      <3> QED BY <3>1, <3>2 DEF Awaits
    <2>3. end'[j].at \notin Early
      BY <1>0, <2>2 DEF Over, Early
    <2>4. CASE RetryStarts(j)
      <3>1. Landed("retry", j) /\ StartBackground(j, Tail(queue))
        BY <2>4 DEF RetryStarts
      <3>2. mem[j].status = "background_pending" /\ mem[j].committed
        BY <2>2 DEF Retried
      <3>3. InTime(j, "retry")
        BY DEF InTime
      <3> QED BY <1>0, <2>3, <3>1, <3>2, <3>3, StartRecords
    <2>5. CASE RetryRejects(j)
      <3>1. /\ Broken("retry", j) /\ queue' = Tail(queue)
            /\ UNCHANGED <<bg, mem>>
        BY <2>5 DEF RetryRejects
      <3>2. Turn(j, "retry", "none")
        BY <1>0, <3>1, WriteTurn
      <3>3. Records(j, "retry", "none")
        BY <1>0, <2>3, <3>1 DEF Records, Failing
      <3> QED BY <3>2, <3>3 DEF RecordTurn
    <2> QED BY <1>2, <2>4, <2>5 DEF Retrying
  <1> QED BY <1>1, <1>2

\* The recovery's steps.
LEMMA RecoverRecords ==
    ASSUME IndInv, WriteInv, HonestInv', NEW j \in Job,
           Recovering(j), StartPending(j)
    PROVE  RecordTurn(j)
  <1>0. /\ StoreOK /\ JobsOK /\ Sound(j) /\ j # None /\ UNCHANGED <<end>>
        /\ "recover" \in Who /\ "recover" \in Who \cup {"none"}
        /\ "none" \in Who \cup {"none"} /\ disk[j] \in JobRecord
    BY HostAssumption
       DEF IndInv, TypeOK, StoreOK, WriteInv, Who, Recovering, RecoverTerminal,
           RecoverJob, JobRecovered, RecoverRejects, callVars
  <1>1. bg[j].at = "idle" /\ end[j].at \in Over /\ end'[j].at \notin Early
    <2>1. CASE j \in recov.todo
      BY <1>0, <2>1 DEF IndInv, ToVisit, Over, Early
    <2>2. CASE recov.job = j
      BY <1>0, <2>2 DEF Sound, TakeTurns, Over, Early
    <2> QED BY <2>1, <2>2 DEF Recovering, RecoverTerminal, RecoverJob,
                              JobRecovered, RecoverRejects, Visitable
  <1>2. CASE RecoverTerminal(j)
    <2>1. /\ j \in recov.todo /\ recov.job = None
          /\ recov' = [recov EXCEPT !.todo = @ \ {j}]
          /\ UNCHANGED <<bg, queue, disk>>
      BY <1>2 DEF RecoverTerminal, Visitable, storeVars
    <2>2. recov'.start = recov.start /\ recov'.job = recov.job
      BY <1>0, <2>1 DEF JobsOK
    <2>3. Turn(j, "none", "none")
      BY <1>0, <2>1, QuietTurn
    <2>4. Records(j, "none", "none")
      BY <1>1, <2>1, <2>2 DEF Records, Noted
    <2> QED BY <2>3, <2>4 DEF RecordTurn
  <1>3. CASE RecoverJob(j)
    <2>1. /\ j \in recov.todo /\ disk[j].status \notin Terminal
          /\ recov' = [todo |-> recov.todo \ {j}, job |-> j,
                       start |-> Resumable(j)]
          /\ UNCHANGED <<bg, disk>>
      BY <1>3 DEF RecoverJob, Visitable
    <2>2. recov'.job = j /\ recov'.start = Resumable(j)
          /\ disk[j].status # "absent"
      BY <1>0, <2>1 DEF Sound, InStore
    <2>3. ASSUME NEW m \in JobRecord, Set("recover", j, m, queue),
                 Follows(disk[j], m),
                 Resumable(j) => /\ m.status = "background_pending"
                                 /\ m.committed
          PROVE  RecordTurn(j)
      <3>1. /\ mem'[j] = m
            /\ queue' = Append(queue, Write("recover", j, mem'[j]))
        BY <1>0, <2>3 DEF Set, JobsOK
      <3>2. Turn(j, "none", "recover")
        BY <1>0, <2>1, <3>1, QuietTurn
      <3>3. Records(j, "none", "recover")
        BY <1>1, <2>1, <2>2, <2>3, <3>1 DEF Records
      <3> QED BY <3>2, <3>3 DEF RecordTurn
    <2>4. CASE Resumable(j)
      <3> DEFINE m == WithStatus(disk[j], "background_pending")
      <3>1. Set("recover", j, m, queue)
        BY <1>3, <2>4 DEF RecoverJob
      <3>2. m \in JobRecord
        BY <1>0, RecordTypes DEF JobStatus, ActiveStatus
      <3>3. m.status = "background_pending" /\ m.committed = disk[j].committed
        BY <1>0, RecordFields
      <3>4. LeftIn(m) = LeftIn(disk[j])
        BY <1>0, LeftFields DEF StepState, Step
      <3> HIDE DEF m
      <3>5. m.committed /\ disk[j].committed
        BY <2>4, <3>3 DEF Resumable
      <3>6. Follows(disk[j], m)
        BY <2>1, <2>2, <3>3, <3>4, <3>5 DEF Follows, Open, Terminal
      <3> QED BY <2>3, <3>1, <3>2, <3>3, <3>5, <3>6
    <2>5. CASE ~Resumable(j)
      <3> DEFINE m == Failed(disk[j])
      <3>1. Set("recover", j, m, queue)
        BY <1>3, <2>5 DEF RecoverJob
      <3>2. m \in JobRecord
        BY <1>0, RecordTypes
      <3>3. m.status = "failed_retryable" /\ m.committed = disk[j].committed
        BY <1>0, RecordFields
      <3>4. LeftIn(m) = LeftIn(disk[j])
        BY <1>0, LeftFields DEF StepState, Step
      <3> HIDE DEF m
      <3>5. Follows(disk[j], m)
        BY <2>1, <2>2, <3>3, <3>4 DEF Follows, Open
      <3> QED BY <2>3, <2>5, <3>1, <3>2, <3>5
    <2> QED BY <2>4, <2>5
  <1>4. CASE JobRecovered(j) /\ recov.start
    <2>1. /\ recov.job = j /\ Landed("recover", j)
          /\ StartBackground(j, Tail(queue))
          /\ recov' = [recov EXCEPT !.job = None, !.start = FALSE]
      BY <1>4 DEF JobRecovered
    <2>2. ~recov'.start
      BY <1>0, <2>1 DEF JobsOK
    <2>3. mem[j].status = "background_pending" /\ mem[j].committed
      BY <1>4, <2>1 DEF StartPending
    <2>4. InTime(j, "recover")
      BY <1>4, <2>1 DEF InTime
    <2> QED BY <1>1, <2>1, <2>2, <2>3, <2>4, StartRecords
  <1>5. CASE (JobRecovered(j) /\ ~recov.start) \/ RecoverRejects(j)
    <2>1. /\ Landed("recover", j) \/ Broken("recover", j)
          /\ queue' = Tail(queue) /\ UNCHANGED <<mem, bg>>
          /\ \/ recov' = [recov EXCEPT !.job = None, !.start = FALSE]
             \/ recov' = NotRecovering
      BY <1>5 DEF JobRecovered, RecoverRejects
    <2>2. ~recov'.start
      <3>1. recov \in [todo : SUBSET Job, job : Job \cup {None},
                       start : BOOLEAN]
        BY <1>0 DEF JobsOK
      <3>2. CASE recov' = [recov EXCEPT !.job = None, !.start = FALSE]
        BY <3>1, <3>2
      <3>3. CASE recov' = NotRecovering
        BY <3>3 DEF NotRecovering
      <3> QED BY <2>1, <3>2, <3>3
    <2>3. Turn(j, "recover", "none")
      BY <1>0, <2>1, WriteTurn
    <2>4. Records(j, "recover", "none")
      BY <1>1, <2>1, <2>2 DEF Records, Noted, Failing
    <2> QED BY <2>3, <2>4 DEF RecordTurn
  <1> QED BY <1>2, <1>3, <1>4, <1>5 DEF Recovering

\* An endCall's steps.
LEMMA EndRecords ==
    ASSUME IndInv, WriteInv, HonestInv', NEW j \in Job, Ending(j)
    PROVE  RecordTurn(j)
  <1>0. /\ CallsOK /\ JobsOK /\ mem[j] \in JobRecord /\ Sound(j)
        /\ Absent.status = "absent"
        /\ "end" \in Who /\ "end" \in Who \cup {"none"}
        /\ "none" \in Who \cup {"none"}
        /\ \A at : Moved(j, at) => end'[j].at = at
        /\ \A x \in Exit : \A at : Select(j, x, at) => end'[j].at = at
        /\ bg[j].at = "idle" /\ (Landed("end", j) => Filed(j))
    BY AtEnd
  <1>1. ASSUME UNCHANGED <<bg, recov>>, end'[j].at \notin Early,
               NEW p \in {"end", "none"}, Turn(j, p, "none"),
               UNCHANGED mem
        PROVE  RecordTurn(j)
    <2>1. Records(j, p, "none")
      BY <1>0, <1>1 DEF Records, Noted, Failing
    <2> QED BY <1>1, <2>1 DEF RecordTurn
  <1>2. ASSUME NEW r \in JobRecord, NEW q, Set("end", j, r, q)
        PROVE  mem'[j] = r /\ queue' = Append(q, Write("end", j, mem'[j]))
    BY <1>0, <1>2 DEF Set, JobsOK
  <1>3. CASE \/ ExitSelected(j) \/ HooksDone(j) \/ NoExit(j) \/ AbortCall(j)
             \/ CallAborted(j) \/ RunSyncEffects(j) \/ EndSaveRejects(j)
    <2>1. UNCHANGED <<bg, recov, mem, disk, queue>>
      BY <1>3 DEF ExitSelected, HooksDone, NoExit, AbortCall, CallAborted,
                  RunSyncEffects, EndSaveRejects, jobVars, storeVars
    <2>2. \/ /\ end[j].at \in {"hooks", "aborting"}
             /\ end'[j].at \in {"preload", "aborting", "abort_save"}
          \/ end'[j].at \in {"saving", "returned", "rejected"}
      <3>1. CASE RunSyncEffects(j)
        <4>1. PICK plan \in Plan :
                 end' = [end EXCEPT ![j].at = "saving", ![j].plan = plan]
          BY <3>1 DEF RunSyncEffects
        <4> QED BY <1>0, <4>1 DEF CallsOK, EndRecord
      <3>2. CASE ExitSelected(j) \/ HooksDone(j) \/ NoExit(j) \/ AbortCall(j)
        BY <1>0, <3>2 DEF ExitSelected, HooksDone, NoExit, AbortCall
      <3>3. CASE CallAborted(j) \/ EndSaveRejects(j)
        BY <1>0, <3>3 DEF CallAborted, EndSaveRejects
      <3> QED BY <1>3, <3>1, <3>2, <3>3
    <2>3. Turn(j, "none", "none")
      BY <2>1, <1>0, QuietTurn
    <2>4. Records(j, "none", "none")
      BY <1>0, <2>1, <2>2 DEF Records, Noted, Failing, Early
    <2> QED BY <2>3, <2>4 DEF RecordTurn
  <1>4. CASE JobBuilt(j)
    <2>1. end[j].at = "preload" /\ end'[j].at = "register"
          /\ UNCHANGED <<bg, recov, disk>>
      BY <1>0, <1>4 DEF JobBuilt
    <2>2. PICK deferred \in BOOLEAN : Set("end", j, Closing(deferred), queue)
      <3> DEFINE d == end'[j].exit \in WithMedia
      <3>1. Set("end", j, Closing(d), queue)
        BY <1>4 DEF JobBuilt
      <3>2. d \in BOOLEAN
        OBVIOUS
      <3> HIDE DEF d
      <3> QED BY <3>1, <3>2
    <2>3. Closing(deferred) \in JobRecord
      BY NewRecordTypes
    <2>4. queue' = Append(queue, Write("end", j, mem'[j]))
      BY <1>2, <2>2, <2>3
    <2>5. Turn(j, "none", "end")
      BY <1>0, <2>1, <2>4, QuietTurn
    <2>6. Records(j, "none", "end")
      BY <1>0, <2>1 DEF Records, Early
    <2> QED BY <2>5, <2>6 DEF RecordTurn
  <1>5. CASE JobRegistered(j) \/ JobFailed(j) \/ EndStoreRejects(j)
    <2>1. /\ end'[j].at \in {"queued", "returned", "rejected"}
          /\ UNCHANGED <<bg, recov, mem>>
          /\ Landed("end", j) \/ Broken("end", j)
          /\ queue' = Tail(queue)
      BY <1>0, <1>5 DEF JobRegistered, JobFailed, EndStoreRejects, jobVars
    <2>2. Turn(j, "end", "none")
      BY <1>0, <2>1, WriteTurn
    <2>3. end'[j].at \notin Early
      BY <2>1 DEF Early
    <2> QED BY <1>1, <2>1, <2>2, <2>3
  <1>6. CASE SyncSaved(j)
    <2>1. /\ end[j].at = "saving" /\ end'[j].at \in {"fail", "commit"}
          /\ UNCHANGED <<bg, recov, disk>>
          /\ mem[j].status = "closing" /\ ~mem[j].committed
      BY <1>0, <1>6 DEF SyncSaved, Sound, EndStatus
    <2> DEFINE r == SyncResult(mem[j], end[j].plan)
    <2>2. r \in JobRecord
      BY <1>0, RecordTypes
    <2>3. /\ r.steps = mem[j].steps
          /\ \/ r.status = "failed_retryable" /\ ~r.committed
             \/ r.status = "committed" /\ r.committed
      BY <1>0, <2>1 DEF SyncResult, Failed, JobRecord
    <2>4. Set("end", j, r, queue)
      BY <1>6 DEF SyncSaved
    <2> HIDE DEF r
    <2>5. mem'[j] = r /\ queue' = Append(queue, Write("end", j, mem'[j]))
      BY <1>2, <2>2, <2>4
    <2>6. Turn(j, "none", "end")
      BY <1>0, <2>1, <2>5, QuietTurn
    <2>7. Follows(mem[j], mem'[j])
      <3>1. LeftIn(r) = LeftIn(mem[j])
        BY <2>3 DEF LeftIn
      <3>2. r.committed \in BOOLEAN /\ mem[j].committed \in BOOLEAN
        BY <1>0, <2>2, RecordFields
      <3>3. Open(mem[j]) /\ (r.status = "committed" => Open(r))
        BY <2>1 DEF Open, Terminal
      <3> QED BY <2>1, <2>3, <2>5, <3>1, <3>2, <3>3 DEF Follows
    <2>8. Through(j, "none")
      BY <2>1 DEF Through, Between
    <2>9. Records(j, "none", "end")
      BY <1>0, <2>1, <2>7, <2>8 DEF Records, Early
    <2> QED BY <2>6, <2>9 DEF RecordTurn
  <1>7. CASE JobCommitted(j)
    <2>1. /\ end'[j].at = "kick" /\ UNCHANGED <<bg, recov>>
          /\ Landed("end", j) /\ Filed(j)
          /\ mem[j].status = "committed" /\ mem[j].committed
      BY <1>0, <1>7 DEF JobCommitted, Sound, EndStatus
    <2> DEFINE r == WithStatus(mem[j], "background_pending")
    <2>2. r \in JobRecord
      BY <1>0, RecordTypes DEF JobStatus, ActiveStatus
    <2>3. r.status = "background_pending" /\ r.committed
      BY <1>0, <2>1, RecordFields
    <2>4. LeftIn(r) = LeftIn(mem[j])
      BY <1>0, LeftFields DEF StepState, Step
    <2>5. Set("end", j, r, Tail(queue))
      BY <1>7 DEF JobCommitted
    <2> HIDE DEF r
    <2>6. mem'[j] = r
          /\ queue' = Append(Tail(queue), Write("end", j, mem'[j]))
      BY <1>2, <2>2, <2>5
    <2>7. Turn(j, "end", "end")
      BY <1>0, <2>1, <2>6, WriteTurn
    <2>8. Follows(mem[j], mem'[j])
      BY <2>1, <2>3, <2>4, <2>6 DEF Follows, Open, Terminal
    <2>9. Records(j, "end", "end")
      BY <1>0, <2>1, <2>8 DEF Records, Through, Early
    <2> QED BY <2>7, <2>9 DEF RecordTurn
  <1>8. CASE JobKicked(j)
    <2>1. /\ end[j].at = "kick" /\ end'[j].at = "returned" /\ UNCHANGED recov
          /\ Landed("end", j) /\ StartBackground(j, Tail(queue))
          /\ mem[j].status = "background_pending" /\ mem[j].committed
      BY <1>0, <1>8 DEF JobKicked, Sound, EndStatus
    <2>2. end'[j].at \notin Early /\ InTime(j, "end")
      BY <2>1 DEF Early, InTime
    <2> QED BY <1>0, <2>1, <2>2, StartRecords
  <1> QED BY <1>3, <1>4, <1>5, <1>6, <1>7, <1>8 DEF Ending

\* The start of an endCall.
LEMMA HangUpRecords ==
    ASSUME IndInv, NEW j \in Job, NEW s \in Session, EndCall(j, s)
    PROVE  RecordTurn(j)
  <1>1. /\ end[j].at = "idle" /\ UNCHANGED <<bg, recov, mem, disk, queue>>
        /\ bg[j].at = "idle" /\ "none" \in Who \cup {"none"}
    BY DEF EndCall, jobVars, storeVars, IndInv, Fresh
  <1>2. Turn(j, "none", "none")
    BY <1>1, QuietTurn
  <1>3. Records(j, "none", "none")
    BY <1>1 DEF Records, Noted, Failing
  <1> QED BY <1>2, <1>3 DEF RecordTurn

-----------------------------------------------------------------------------
(* Every step keeps the records in order *)

LEMMA InitRefInv == Init => RefInv
  <1>1. Init => /\ Place = {} /\ recov.start = FALSE
                /\ \A j \in Job : /\ bg[j].at = "idle" /\ end[j].at = "idle"
                                  /\ disk[j] = Absent
    BY DEF Init, Place, Idle, At, NoEnd, NotRecovering
  <1>2. "idle" \notin Early /\ "idle" \notin Noted
    BY DEF Early, Noted
  <1> QED BY <1>1, <1>2
          DEF RefInv, InOrder, NotFiled, StartPending, Retried, Follow, OpenDisk

\* An update that found no record is turned into a creation.
LEMMA CreateMissingInOrder ==
    ASSUME IndInv, CreateMissing, NEW j \in Job, InOrder(j)
    PROVE  InOrder(j)'
  <1>0. StoreOK /\ UNCHANGED <<end, bg, recov, mem, disk>>
    BY DEF IndInv, TypeOK, CreateMissing, callVars, jobVars
  <1>1. PICK From \in [Place' -> Place] :
            /\ \A i \in Place' :
                  /\ queue'[i].who = queue[From[i]].who
                  /\ queue'[i].job = queue[From[i]].job
                  /\ queue'[i].rec = queue[From[i]].rec
            /\ \A i \in Place : \E l \in Place' : From[l] = i
            /\ \A i, l \in Place' : From[i] = From[l] => i = l
            /\ \A i, l \in Place' :
                  Before(i, l)' <=> Before(From[i], From[l])
    BY <1>0, Rotated
  <1>2. NotFiled(j)' /\ StartPending(j)' /\ OpenDisk(j)'
    BY <1>0 DEF InOrder, NotFiled, StartPending, OpenDisk, Open, LeftIn
  <1>3. Retried(j)'
    <2>1. Failing(j)' <=> Failing(j)
      BY <1>0 DEF Failing
    <2>2. ASSUME NEW k \in Place', queue'[k].job = j, queue'[k].who = "retry"
          PROVE  /\ mem[j].status = "background_pending" /\ mem[j].committed
                 /\ bg[j].at = "idle" \/ Failing(j)
                 /\ recov.job = j => ~recov.start
                 /\ \A i \in Place' : queue'[i].job = j
                                      /\ queue'[i].who = "retry" => i = k
      <3>1. From[k] \in Place /\ queue[From[k]].job = j
            /\ queue[From[k]].who = "retry"
        BY <1>1, <2>2
      <3> QED BY <1>1, <3>1 DEF InOrder, Retried
    <2> QED BY <1>0, <2>1, <2>2 DEF Retried
  <1>4. Follow(j)'
    <2> SUFFICES ASSUME disk[j].status # "absent"
                 PROVE  /\ \A k \in Place' :
                              /\ queue'[k].job = j
                              /\ \A i \in Place' : queue'[i].job = j /\ i # k
                                                       => Before(k, i)'
                              => Follows(disk[j], queue'[k].rec)
                        /\ \A i, k \in Place' :
                              queue'[i].job = j /\ queue'[k].job = j /\ i # k
                              /\ Before(i, k)'
                                  => Follows(queue'[i].rec, queue'[k].rec)
      BY <1>0 DEF Follow, Follows, Open, LeftIn
    <2>1. ASSUME NEW k \in Place', queue'[k].job = j,
                 \A i \in Place' : queue'[i].job = j /\ i # k => Before(k, i)'
          PROVE  Follows(disk[j], queue'[k].rec)
      <3>1. From[k] \in Place /\ queue[From[k]].job = j
        BY <1>1, <2>1
      <3>2. ASSUME NEW i \in Place, queue[i].job = j, i # From[k]
            PROVE  Before(From[k], i)
        BY <1>1, <2>1, <3>2
      <3> QED BY <1>1, <2>1, <3>1, <3>2 DEF InOrder, Follow
    <2>2. ASSUME NEW i \in Place', NEW k \in Place', queue'[i].job = j,
                 queue'[k].job = j, i # k, Before(i, k)'
          PROVE  Follows(queue'[i].rec, queue'[k].rec)
      <3>1. From[i] # From[k] /\ Before(From[i], From[k])
        BY <1>1, <2>2
      <3> QED BY <1>1, <2>2, <3>1 DEF InOrder, Follow
    <2> QED BY <2>1, <2>2
  <1> QED BY <1>2, <1>3, <1>4 DEF InOrder

\* A step is a turn of some job, or belongs to none.
LEMMA NextRecords ==
    ASSUME IndInv, IndInv', WriteInv, HonestInv, HonestInv', RefInv,
           [Next]_vars
    PROVE  \/ UNCHANGED <<end, bg, recov, mem, disk, queue>>
           \/ CreateMissing \/ Crash
           \/ \E j \in Job : OthersKeep(j) /\ RecordTurn(j)
  <1>1. ASSUME NEW s \in Session,
               BeginCall(s) \/ CallBegun(s) \/ ComposeFails(s)
        PROVE  UNCHANGED <<end, bg, recov, mem, disk, queue>>
    BY <1>1 DEF BeginCall, CallBegun, ComposeFails, jobVars, storeVars
  <1>2. CASE EnsureProfile \/ UNCHANGED vars
    BY <1>2 DEF EnsureProfile, vars, callVars, jobVars, storeVars
  <1>3. ASSUME NEW j \in Job, JobTurn(j)
        PROVE  OthersKeep(j)
    BY <1>3 DEF JobTurn
  <1>4. ASSUME NEW j \in Job, Ending(j)
        PROVE  OthersKeep(j) /\ RecordTurn(j)
    BY <1>3, <1>4, EndingTurns, EndRecords
  <1>5. ASSUME NEW j \in Job, Background(j)
        PROVE  OthersKeep(j) /\ RecordTurn(j)
    <2>1. RecordTurn(j)
      BY <1>5, MemoryRecords, MediaRecords, VoicemailRecords, SettleRecords
         DEF Background
    <2> QED BY <1>3, <1>5, <2>1, BackgroundTurns
  <1>6. ASSUME NEW j \in Job, Retry(j) \/ Retrying(j)
        PROVE  OthersKeep(j) /\ RecordTurn(j)
    <2>1. RecordTurn(j)
      BY <1>6, RetryRecords DEF RefInv, InOrder
    <2> QED BY <1>3, <1>6, <2>1, RetryWrites, RetryingWrites
  <1>7. ASSUME NEW j \in Job, Recovering(j)
        PROVE  OthersKeep(j) /\ RecordTurn(j)
    <2>1. RecordTurn(j)
      BY <1>7, RecoverRecords DEF RefInv, InOrder
    <2> QED BY <1>3, <1>7, <2>1, RecoveringWrites
  <1>8. ASSUME NEW j \in Job, NEW s \in Session, EndCall(j, s)
        PROVE  OthersKeep(j) /\ RecordTurn(j)
    BY <1>3, <1>8, EndCallWrites, HangUpRecords
  <1> QED BY <1>1, <1>2, <1>4, <1>5, <1>6, <1>7, <1>8 DEF Next

LEMMA NextKeepsRef ==
    ASSUME IndInv, IndInv', WriteInv, WriteInv', NoLateRetry, MirrorInv,
           MirrorInv', HonestInv, HonestInv', RefInv, [Next]_vars
    PROVE  RefInv'
  <1>1. CASE UNCHANGED <<end, bg, recov, mem, disk, queue>>
    BY <1>1 DEF RefInv, InOrder, NotFiled, StartPending, Retried, Follow,
                OpenDisk, Failing, Before, Place, Follows, Open, LeftIn
  <1>2. ASSUME NEW j \in Job, OthersKeep(j), RecordTurn(j)
        PROVE  RefInv'
    <2>1. PICK p, n : Turn(j, p, n) /\ Records(j, p, n)
      BY <1>2 DEF RecordTurn
    <2>2. InOrder(j)'
      BY <2>1, TurnInOrder DEF RefInv
    <2>3. ASSUME NEW k \in Job, k # j PROVE InOrder(k)'
      BY <1>2, <2>1, <2>3, OthersInOrder DEF RefInv
    <2> QED BY <2>2, <2>3 DEF RefInv
  <1>3. CASE CreateMissing
    BY <1>3, CreateMissingInOrder DEF RefInv
  <1>4. CASE Crash
    <2>1. /\ Place' = {} /\ recov'.job = None /\ None \notin Job
          /\ \A j \in Job : bg'[j].at = "idle"
      BY <1>4, HostAssumption DEF Crash, Place, Idle, At, NotRecovering
    <2>2. \A j \in Job : end'[j].at \notin Early
      <3>1. end \in [Job -> EndRecord]
        BY DEF IndInv, TypeOK, CallsOK
      <3>2. \A j \in Job : end'[j].at \in {"idle", "returned", "rejected",
                                           "crashed"}
        BY <1>4, <3>1 DEF Crash, EndRecord
      <3> QED BY <3>2 DEF Early
    <2> QED BY <2>1, <2>2 DEF RefInv, InOrder, NotFiled, StartPending,
                              Retried, Follow, OpenDisk, Noted
  <1> QED BY <1>1, <1>2, <1>3, <1>4, NextRecords

-----------------------------------------------------------------------------
(* Every step is one of DurableJob, or leaves the records alone *)

\* A turn: what reaches the file follows the record there, or is the first.
LEMMA TurnRefines ==
    ASSUME IndInv, IndInv', WriteInv, NoLateRetry, MirrorInv, NEW j \in Job,
           NEW p, NEW n, Turn(j, p, n), InOrder(j)
    PROVE  [Durable!Next]_DurableJobs
  <1>0. StoreOK /\ Sound(j) /\ Queued(j) /\ Mirror(j) /\ disk[j] \in JobRecord
    BY DEF IndInv, TypeOK, StoreOK, WriteInv, MirrorInv, Mirrored, NoLateRetry
  <1>1. CASE disk' = disk
    BY <1>1 DEF DurableJobs
  <1>2. CASE disk' # disk
    <2>1. /\ p \in Who /\ NextWrite(p, j) /\ ~Missing(Head(queue))
          /\ disk' = [disk EXCEPT ![j] = Head(queue).rec]
      BY <1>2 DEF Turn, Filed
    <2>2. /\ 1 \in Place /\ queue[1] = Head(queue) /\ queue[1].job = j
          /\ queue[1].who = p
          /\ \A k \in Place : queue[k].job = j /\ k # 1 => Before(1, k)
      BY <1>0, <2>1, HeadFirst
    <2> DEFINE r == queue[1].rec
    <2>3. /\ r \in JobRecord /\ r.status # "absent"
          /\ disk' = [disk EXCEPT ![j] = r]
      BY <1>0, <2>1, <2>2, WriteTypes DEF Queued, Awaited
    <2>4. CASE disk[j].status # "absent"
      <3>1. Follows(disk[j], r)
        BY <2>2, <2>4 DEF InOrder, Follow
      <3>2. disk \in [Job -> JobRecord]
        BY <1>0 DEF StoreOK
      <3> HIDE DEF r
      <3> QED BY <2>3, <2>4, <3>1, <3>2, FollowsSteps
    <2>5. CASE disk[j].status = "absent"
      <3>1. disk'[j] = r
        BY <1>0, <2>3 DEF StoreOK
      <3>2. end[j].at = "register"
        BY <2>3, <2>5, <3>1, FileGrows
      <3>3. ASSUME NEW i \in Place, queue[i].job = j
            PROVE  queue[i].who = "end"
        <4>1. Awaits(queue[i].who, j)
          BY <1>0, <3>3 DEF Queued, Awaited
        <4> QED BY <1>0, <3>2, <4>1 DEF Sound, TakeTurns, Awaits, Over
      <3>4. \A i \in Place : queue[i].job = j => i = 1
        BY <1>0, <2>2, <3>3 DEF Queued, OneEach
      <3>5. mem[j].status = "closing" /\ ~mem[j].committed
        BY <1>0, <3>2 DEF Sound, EndStatus
      <3>6. r = mem[j]
        <4>1. mem[j] # Absent
          BY <3>5 DEF Absent, Rec
        <4> QED BY <1>0, <2>2, <3>4, <4>1 DEF Mirror, Last
      <3> HIDE DEF r
      <3> DEFINE w == [status |-> "open", committed |-> FALSE,
                       left |-> LeftIn(r)]
      <3>7. DurableView(r) = w
        <4>1. StatusClass(r.status) = "open"
          BY <3>5, <3>6 DEF StatusClass, Terminal
        <4>2. r.committed = FALSE
          BY <2>3, <3>5, <3>6, RecordFields
        <4> QED BY <2>3, <4>1, <4>2 DEF DurableView, LeftIn
      <3>8. DurableJobs' = [DurableJobs EXCEPT ![j] = w]
        <4> HIDE DEF w
        <4>1. \A k \in Job : k # j => disk'[k] = disk[k]
          BY <1>0, <2>3 DEF StoreOK
        <4>2. \A k \in Job : DurableView(disk'[k]) =
                                 IF k = j THEN w ELSE DurableView(disk[k])
          BY <3>1, <3>7, <4>1
        <4> QED BY <4>2 DEF DurableJobs
      <3>9. DurableJobs[j].status = "none"
        BY <2>5 DEF DurableJobs, DurableView, StatusClass
      <3>10. LeftIn(r) \in SUBSET Step
        BY DEF LeftIn
      <3>11. Durable!Become(j, "open", FALSE, LeftIn(r))
        BY <3>8 DEF Durable!Become, DurableJobs
      <3>12. Durable!Register(j)
        BY <3>9, <3>10, <3>11 DEF Durable!Register, DurableJobs
      <3> QED BY <3>12 DEF Durable!Next
    <2> QED BY <2>4, <2>5
  <1> QED BY <1>1, <1>2

\* Reclaiming a record shows nothing.
LEMMA ReclaimShowsNothing ==
    ASSUME NEW r \in JobRecord
    PROVE  DurableView(Reclaim(r)) = DurableView(r)
  <1>1. CASE r.status \in Reclaimed
    <2> DEFINE m == WithStatus(r, "background_pending")
    <2>1. /\ m.status = "background_pending" /\ m.steps = r.steps
          /\ m.committed = r.committed
      BY RecordFields
    <2>2. Reclaim(r) = m
      BY <1>1 DEF Reclaim
    <2> HIDE DEF m
    <2>3. StatusClass(r.status) = "open" /\ StatusClass(m.status) = "open"
          /\ r.status # "absent" /\ m.status # "absent"
      BY <1>1, <2>1 DEF StatusClass, Reclaimed, Running, Terminal
    <2> QED BY <2>1, <2>2, <2>3 DEF DurableView
  <1>2. CASE r.status \notin Reclaimed
    BY <1>2 DEF Reclaim
  <1> QED BY <1>1, <1>2

LEMMA StepRefines ==
    ASSUME IndInv, IndInv', WriteInv, NoLateRetry, MirrorInv, HonestInv,
           HonestInv', RefInv, [Next]_vars
    PROVE  [Durable!Next]_DurableJobs
  <1>1. CASE UNCHANGED disk
    BY <1>1 DEF DurableJobs
  <1>2. ASSUME NEW j \in Job, RecordTurn(j)
        PROVE  [Durable!Next]_DurableJobs
    <2>1. PICK p, n : Turn(j, p, n)
      BY <1>2 DEF RecordTurn
    <2> QED BY <2>1, TurnRefines DEF RefInv
  <1>3. CASE Crash
    <2>1. disk' = [j \in Job |-> Reclaim(disk[j])]
          /\ disk \in [Job -> JobRecord]
      BY <1>3 DEF Crash, IndInv, TypeOK, StoreOK
    <2>2. \A j \in Job : DurableView(disk'[j]) = DurableView(disk[j])
      BY <2>1, ReclaimShowsNothing
    <2> QED BY <2>2 DEF DurableJobs
  <1> QED BY <1>1, <1>2, <1>3, NextRecords DEF CreateMissing

LEMMA InitRefines == Init => Durable!Init
  <1>1. DurableView(Absent) = Durable!NoJob
    BY DEF DurableView, Absent, Rec, StatusClass, Durable!NoJob
  <1>2. Init => \A j \in Job : disk[j] = Absent
    BY DEF Init
  <1> QED BY <1>1, <1>2 DEF Durable!Init

\* The store keeps its promise of every job, whatever the interleaving of
\* endCalls, background jobs, retries and the recovery, whichever writes
\* reject and whenever the server restarts.
THEOREM StoreKeepsItsPromise ==
    ASSUME NoLateRetry
    PROVE  Spec => ImplementsDurableJob
  <1>1. Init => RefInv /\ Durable!Init
    BY InitRefInv, InitRefines
  <1>2. IndInv /\ IndInv' /\ WriteInv /\ WriteInv' /\ MirrorInv /\ MirrorInv'
            /\ HonestInv /\ HonestInv' /\ RefInv /\ [Next]_vars
            => RefInv'
    BY NextKeepsRef
  <1>3. IndInv /\ IndInv' /\ WriteInv /\ MirrorInv /\ HonestInv /\ HonestInv'
            /\ RefInv /\ [Next]_vars
            => [Durable!Next]_DurableJobs
    BY StepRefines
  <1>4. Spec => [](MirrorInv /\ HonestInv)
    <2>1. Init => MirrorInv /\ HonestInv
      BY InitMirror, InitHonest
    <2>2. IndInv /\ IndInv' /\ WriteInv /\ MirrorInv /\ HonestInv
              /\ [Next]_vars => MirrorInv' /\ HonestInv'
      BY NextKeepsMirror, NextKeepsHonest
    <2> QED BY <2>1, <2>2, WritesTakeTurns, PTL DEF Spec
  <1> QED BY <1>1, <1>2, <1>3, <1>4, WritesTakeTurns, PTL
         DEF Spec, ImplementsDurableJob, Durable!Spec, DurableJobs
=============================================================================
