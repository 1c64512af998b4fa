-------------------------- MODULE JobRecords_proofs --------------------------
(***************************************************************************)
(* What follows from the turns that the handlers of a job take.  Of its    *)
(* record: a closed job stays closed, the store has what the host has once *)
(* the writes are through, completed means done.  Of its effects: nobody   *)
(* is on the phone with their agent meanwhile, the media effect is played  *)
(* once, and the ledger in the file claims nothing that the profile lacks. *)
(***************************************************************************)
EXTENDS JobWrites_proofs

-----------------------------------------------------------------------------
(* A closed job *)

\* No action changes the record of a job with a terminal status, unless the
\* write of that status rejects.
LEMMA ClosedStays ==
    ASSUME IndInv, WriteInv, "store" \notin Env, NEW j \in Job,
           mem[j].status \in Terminal,
           \/ Ending(j) \/ Background(j)
           \/ Retry(j) \/ Retrying(j) \/ Recovering(j)
    PROVE  mem'[j] = mem[j]
  <1>0. /\ Sound(j) /\ StoreOK /\ "retry" \in Who
        /\ bg[j].at \in {"idle", "final"} /\ Absent.status \notin Terminal
    BY DEF WriteInv, Sound, RunStatus, IndInv, TypeOK, Who, Absent, Rec,
           Terminal
  <1>1. CASE Ending(j)
    BY <1>1, AtEnd
  <1>2. CASE Background(j)
    <2>1. \A who : ~Broken(who, j)
      BY DEF Broken
    <2> QED BY <1>0, <1>2, <2>1
            DEF Background, Marked, MemoryAnswers, MemoryNoted, StartMedia,
                SinkAnswers, MediaSaved, MediaNoted, StartVoicemail,
                VoicemailAnswers, VoicemailNoted, VoicemailSaved, Settled,
                StoreRejects, SaveRejects, Sleeps
  <1>3. CASE Retry(j)
    BY <1>3 DEF Retry, Retryable, Terminal
  <1>4. CASE Retrying(j)
    <2>1. CASE RetryRejects(j)
      BY <2>1 DEF RetryRejects
    <2>2. CASE RetryStarts(j)
      <3>1. NextWrite("retry", j) /\ ~Missing(Head(queue))
        BY <2>2 DEF RetryStarts, Landed
      <3>2. ~Calm(j)
        BY <1>0, <3>1, HeadFacts
      <3>3. bg[j].at # "idle"
        BY <3>2 DEF Calm
      <3> QED BY <2>2, <3>3 DEF RetryStarts, StartBackground
    <2> QED BY <1>4, <2>1, <2>2 DEF Retrying
  <1>5. CASE Recovering(j)
    <2>1. recov.job # j
      BY <1>0 DEF Sound, RunStatus, Terminal
    <2>2. j \notin recov.todo
      BY <1>0 DEF IndInv, ToVisit
    <2> QED BY <1>5, <2>1, <2>2 DEF Recovering, RecoverTerminal, RecoverJob,
                                   JobRecovered, RecoverRejects, Visitable
  <1> QED BY <1>1, <1>2, <1>3, <1>4, <1>5

\* The steps of a job leave the records of the others alone.
LEMMA OthersRecord ==
    ASSUME NEW j \in Job, JobTurn(j), NEW k \in Job, k # j
    PROVE  mem'[k] = mem[k]
  BY DEF JobTurn, OthersKeep

\* A job that is completed, with or without errors, is not touched again: no
\* late write of a retry, of a second promise or of the recovery reopens it.
THEOREM ClosedForGood ==
    ASSUME "store" \notin Env
    PROVE  Spec => TerminalIsFinal
  <1> DEFINE Final == \A j \in Job : mem[j].status \in Terminal
                                         => mem'[j] \in {mem[j], Absent}
  <1>1. IndInv /\ IndInv' /\ WriteInv /\ [Next]_vars => Final
    <2> SUFFICES ASSUME IndInv, IndInv', WriteInv, [Next]_vars, NEW k \in Job,
                        mem[k].status \in Terminal
                 PROVE  mem'[k] \in {mem[k], Absent}
      OBVIOUS
    <2>1. ASSUME NEW j \in Job,
                 \/ Ending(j) \/ Background(j)
                 \/ Retry(j) \/ Retrying(j) \/ Recovering(j)
          PROVE  mem'[k] = mem[k]
      <3>1. JobTurn(j)
        BY <2>1, EndingTurns, BackgroundTurns, RetryWrites, RetryingWrites,
           RecoveringWrites
      <3>2. CASE k = j
        BY <2>1, <3>2, ClosedStays
      <3>3. CASE k # j
        BY <3>1, <3>3, OthersRecord
      <3> QED BY <3>2, <3>3
    <2>2. ASSUME NEW s \in Session,
                 \/ BeginCall(s) \/ CallBegun(s) \/ ComposeFails(s)
                 \/ \E j \in Job : EndCall(j, s)
          PROVE  mem' = mem
      BY <2>2 DEF BeginCall, CallBegun, ComposeFails, EndCall, jobVars
    <2>3. CASE EnsureProfile \/ CreateMissing \/ UNCHANGED vars
      BY <2>3 DEF EnsureProfile, CreateMissing, vars, jobVars
    <2>4. CASE Crash
      BY <2>4 DEF Crash
    <2> QED BY <2>1, <2>2, <2>3, <2>4 DEF Next
  <1> HIDE DEF Final
  <1>2. IndInv /\ IndInv' /\ WriteInv /\ [Next]_vars => [Final]_vars
    BY <1>1
  <1>3. Spec => [][Final]_vars
    BY <1>2, WritesTakeTurns, PTL DEF Spec
  <1> QED BY <1>3 DEF TerminalIsFinal, Final

-----------------------------------------------------------------------------
(* The store has what the host has *)

\* The write at i is the last of its job to reach the file.
Last(i) == \A k \in Place : queue[k].job = queue[i].job /\ k # i
                                => Before(k, i)

NoWrite(j) == \A i \in Place : queue[i].job # j

\* The last write of a job carries the record the host has, and when it is
\* through that record is in the file, or there is none: another job of the
\* call was registered first.  A write that rejected makes the file lag
\* behind, until the next write of who works on the job is through.
Mirror(j) ==
    mem[j] # Absent =>
        /\ \A i \in Place : queue[i].job = j /\ Last(i)
                                => queue[i].rec = mem[j]
        /\ NoWrite(j) /\ ("store" \notin Env \/ Between(j))
               => disk[j] \in {mem[j], Absent}

\* Only a user who retries makes a retry's write.
RetryAsked == \A i \in Place : queue[i].who = "retry" => "retry" \in Env

Mirrored == "store" \notin Env \/ "retry" \notin Env

MirrorInv == RetryAsked /\ (Mirrored => \A j \in Job : Mirror(j))

\* A turn of j, seen by the records of j.
LEMMA TurnMirrors ==
    ASSUME IndInv, IndInv', WriteInv, MirrorInv, Mirrored, NEW j \in Job,
           NEW p, NEW n, Turn(j, p, n), OthersKeep(j), InTurn(j, p, n)
    PROVE  Mirror(j)'
  <1>0. StoreOK /\ mem' \in [Job -> JobRecord] /\ Mirror(j) /\ Queued(j)
    BY DEF IndInv, TypeOK, JobsOK, MirrorInv, WriteInv
  <1> DEFINE d == IF p = "none" THEN 0 ELSE 1
  <1>1. /\ \A i \in Place' :
              \/ i + d \in Place /\ queue'[i] = queue[i + d]
              \/ /\ n # "none" /\ i = Len(queue')
                 /\ queue'[i] = Write(n, j, mem'[j])
        /\ \A i \in Place : i > d => /\ i - d \in Place'
                                    /\ queue'[i - d] = queue[i]
        /\ n # "none" => /\ Len(queue') \in Place'
                         /\ queue'[Len(queue')] = Write(n, j, mem'[j])
        /\ d = 1 => 1 \in Place /\ queue[1].who = p /\ queue[1].job = j
        /\ Len(queue) \in Nat /\ Len(queue') \in Nat
    BY <1>0, TurnPlaces
  <1>2. \A i \in Place' : i \in Nat /\ i >= 1 /\ i <= Len(queue')
    BY <1>1 DEF Place
  <1>3. ASSUME n # "none"
        PROVE  Mirror(j)'
    <2>0. PICK N \in Place' : N = Len(queue')
      BY <1>1, <1>3
    <2>1. /\ queue'[N].job = j /\ queue'[N].rec = mem'[j]
          /\ queue'[N].op = "update"
      BY <1>1, <1>3, <2>0 DEF Write
    <2>2. ASSUME NEW i \in Place', queue'[i].job = j, Last(i)', i # N
          PROVE  FALSE
      <3>1. Before(N, i)'
        BY <2>1, <2>2 DEF Last
      <3>2. queue'[i].op = "update" /\ N < i
        BY <2>1, <3>1 DEF Before
      <3> QED BY <1>1, <1>2, <2>0, <3>2
    <2> QED BY <2>1, <2>2 DEF Mirror, NoWrite
  <1>4. CASE n = "none" /\ mem'[j] # mem[j]
    <2>1. j \in recov.todo /\ mem'[j] = disk[j]
      BY <1>4 DEF InTurn
    <2>2. NoWrite(j)
      BY <1>0, <2>1 DEF Queued, Awaited, NoWrite
    <2>3. d = 0 /\ p = "none"
      BY <1>1, <2>2 DEF NoWrite
    <2>4. NoWrite(j)'
      BY <1>1, <1>2, <1>4, <2>2, <2>3 DEF NoWrite
    <2>5. disk' = disk
      BY <2>3 DEF Turn, Who
    <2> QED BY <2>1, <2>4, <2>5 DEF Mirror, NoWrite
  <1>5. CASE n = "none" /\ mem'[j] = mem[j]
    <2>0. SUFFICES ASSUME mem[j] # Absent PROVE Mirror(j)'
      BY <1>5 DEF Mirror
    <2>1. \A k \in Place : p # "none" /\ queue[k].job = j /\ k # 1
                               => Before(1, k)
      BY <1>0, HeadFirst DEF Turn, Who
    <2>2. ASSUME NEW i \in Place', queue'[i].job = j, Last(i)'
          PROVE  queue'[i].rec = mem'[j]
      <3>1. i + d \in Place /\ queue'[i] = queue[i + d] /\ i + d # d
        BY <1>1, <1>2, <1>5
      <3>2. Last(i + d)
        <4> SUFFICES ASSUME NEW k \in Place, queue[k].job = j, k # i + d
                     PROVE  Before(k, i + d)
          BY <2>2, <3>1 DEF Last
        <4>1. CASE k > d
          <5>1. k - d \in Place' /\ queue'[k - d] = queue[k] /\ k - d # i
            BY <1>1, <1>2, <4>1 DEF Place
          <5>2. Before(k - d, i)'
            BY <2>2, <5>1 DEF Last
          <5> QED BY <1>1, <1>2, <3>1, <5>1, <5>2 DEF Before, Place
        <4>2. CASE ~(k > d)
          <5>1. p # "none" /\ k = 1
            BY <1>1, <4>2 DEF Place
          <5> QED BY <2>1, <2>2, <3>1, <5>1
        <4> QED BY <4>1, <4>2
      <3> QED BY <1>0, <1>5, <2>0, <2>2, <3>1, <3>2 DEF Mirror
    <2>3. ASSUME NoWrite(j)', "store" \notin Env \/ Between(j)'
          PROVE  disk'[j] \in {mem'[j], Absent}
      <3>1. CASE p = "none"
        <4>1. NoWrite(j) /\ UNCHANGED disk
          <5>1. queue' = queue
            BY <1>5, <3>1 DEF Turn
          <5> QED BY <2>3, <3>1, <5>1 DEF NoWrite, Place, Turn, Who
        <4>2. "store" \notin Env \/ Between(j)
          BY <2>3, <3>1 DEF InTurn
        <4> QED BY <1>0, <1>5, <2>0, <4>1, <4>2 DEF Mirror
      <3>2. CASE p # "none"
        <4>1. d = 1 /\ 1 \in Place /\ queue[1].who = p /\ queue[1].job = j
          BY <1>1, <3>2
        <4>2. \A k \in Place : queue[k].job = j => k = 1
          <5> SUFFICES ASSUME NEW k \in Place, queue[k].job = j, k # 1
                       PROVE  FALSE
            OBVIOUS
          <5>1. k \in Nat /\ k > d
            BY <4>1 DEF Place
          <5> QED BY <1>1, <2>3, <5>1 DEF NoWrite
        <4>3. queue[1].rec = mem[j]
          BY <1>0, <2>0, <4>1, <4>2 DEF Mirror, Last
        <4>4. p \in Who /\ NextWrite(p, j) /\ ~Missing(Head(queue))
              /\ queue[1] = Head(queue)
          BY <1>0, <3>2, HeadFirst DEF Turn
        <4>5. Filed(j)
          <5>1. CASE "store" \notin Env
            BY <3>2, <5>1 DEF Turn
          <5>2. CASE "store" \in Env
            <6>1. p # "retry"
              BY <4>1, <5>2 DEF MirrorInv, RetryAsked, Mirrored
            <6> QED BY <1>5, <2>3, <4>4, <5>2, <6>1 DEF InTurn
          <5> QED BY <5>1, <5>2
        <4>6. CASE Duplicate(Head(queue))
          <5>1. queue[1].op = "create" /\ UNCHANGED disk
            BY <4>4, <4>5, <4>6 DEF Duplicate, Filed
          <5>2. disk[j].status = "absent"
            BY <1>0, <4>1, <5>1 DEF Queued, Awaited
          <5>3. disk[j] = Absent
            BY <5>2 DEF WriteInv, Sound, InStore
          <5> QED BY <5>1, <5>3
        <4>7. CASE ~Duplicate(Head(queue))
          <5>1. disk' = [disk EXCEPT ![j] = queue[1].rec]
            BY <4>4, <4>5, <4>7 DEF Filed
          <5>2. disk \in [Job -> JobRecord]
            BY <1>0 DEF StoreOK
          <5> QED BY <1>5, <4>3, <5>1, <5>2
        <4> QED BY <4>6, <4>7
      <3> QED BY <3>1, <3>2
    <2> QED BY <2>2, <2>3 DEF Mirror
  <1> QED BY <1>3, <1>4, <1>5

\* The other jobs of a turn, and the turns of nobody.
LEMMA TurnMirrorsOthers ==
    ASSUME IndInv, IndInv', WriteInv, MirrorInv, Mirrored, NEW j \in Job,
           NEW p, NEW n, Turn(j, p, n), OthersKeep(j), InTurn(j, p, n),
           NEW k \in Job, k # j
    PROVE  Mirror(k)'
  <1>0. StoreOK /\ mem' \in [Job -> JobRecord] /\ Mirror(k)
    BY DEF IndInv, TypeOK, JobsOK, MirrorInv
  <1> DEFINE d == IF p = "none" THEN 0 ELSE 1
  <1>1. /\ \A i \in Place' :
              \/ i + d \in Place /\ queue'[i] = queue[i + d]
              \/ /\ n # "none" /\ i = Len(queue')
                 /\ queue'[i] = Write(n, j, mem'[j])
        /\ \A i \in Place : i > d => /\ i - d \in Place'
                                    /\ queue'[i - d] = queue[i]
        /\ d = 1 => 1 \in Place /\ queue[1].who = p /\ queue[1].job = j
        /\ Len(queue) \in Nat /\ Len(queue') \in Nat
    BY <1>0, TurnPlaces
  <1>2. /\ \A i \in Place' : i \in Nat /\ i >= 1
        /\ \A i \in Place : i \in Nat /\ i >= 1
    BY <1>1 DEF Place
  <1>3. mem'[k] = mem[k] /\ bg'[k] = bg[k] /\ end'[k] = end[k]
    BY DEF OthersKeep
  <1>4. disk'[k] = disk[k]
    BY FileGrows
  <1>5. \A i \in Place' : queue'[i].job = k =>
            i + d \in Place /\ queue'[i] = queue[i + d]
    BY <1>1 DEF Write
  <1>6. \A i \in Place : queue[i].job = k => i > d
    BY <1>1, <1>2
  <1>7. ASSUME NEW i \in Place', queue'[i].job = k, Last(i)'
        PROVE  Last(i + d) /\ i + d \in Place /\ queue'[i] = queue[i + d]
    <2>1. i + d \in Place /\ queue'[i] = queue[i + d]
      BY <1>5, <1>7
    <2>2. ASSUME NEW m \in Place, queue[m].job = k, m # i + d
          PROVE  Before(m, i + d)
      <3>1. m > d /\ m - d \in Place' /\ queue'[m - d] = queue[m] /\ m - d # i
        BY <1>1, <1>2, <1>6, <2>2
      <3>2. Before(m - d, i)'
        BY <1>7, <2>2, <3>1 DEF Last
      <3> QED BY <1>1, <1>2, <2>1, <3>1, <3>2 DEF Before
    <2> QED BY <1>7, <2>1, <2>2 DEF Last
  <1>8. NoWrite(k)' => NoWrite(k)
    BY <1>1, <1>6 DEF NoWrite
  <1>9. Between(k)' <=> Between(k)
    BY <1>3 DEF Between
  <1>10. \A i \in Place : queue[i].job = k /\ Last(i) /\ mem[k] # Absent
                              => queue[i].rec = mem[k]
    BY <1>0 DEF Mirror
  <1> QED BY <1>0, <1>3, <1>4, <1>7, <1>8, <1>9, <1>10 DEF Mirror

LEMMA NextKeepsMirror ==
    ASSUME IndInv, IndInv', WriteInv, MirrorInv, [Next]_vars
    PROVE  MirrorInv'
  <1>0. StoreOK /\ mem' \in [Job -> JobRecord]
    BY DEF IndInv, TypeOK, JobsOK
  <1>1. CASE UNCHANGED <<end, bg, recov, mem, disk, queue>>
    BY <1>1 DEF MirrorInv, RetryAsked, Mirror, Mirrored, Last, NoWrite,
                Before, Between, Place
  <1>2. ASSUME NEW j \in Job, JobTurn(j)
        PROVE  MirrorInv'
    <2>1. PICK p, n : Turn(j, p, n) /\ OthersKeep(j) /\ InTurn(j, p, n)
      BY <1>2 DEF JobTurn
    <2> DEFINE d == IF p = "none" THEN 0 ELSE 1
    <2>2. \A i \in Place' :
              \/ i + d \in Place /\ queue'[i] = queue[i + d]
              \/ queue'[i] = Write(n, j, mem'[j])
      BY <1>0, <2>1, TurnPlaces
    <2>3. RetryAsked'
      BY <2>1, <2>2 DEF MirrorInv, RetryAsked, InTurn, Write
    <2>4. ASSUME NEW k \in Job, Mirrored
          PROVE  Mirror(k)'
      BY <2>1, <2>4, TurnMirrors, TurnMirrorsOthers
    <2> QED BY <2>3, <2>4 DEF MirrorInv, Mirrored
  <1>3. CASE CreateMissing
    <2>0. UNCHANGED <<end, bg, mem, disk>>
      BY <1>3 DEF CreateMissing, callVars, jobVars
    <2>1. PICK From \in [Place' -> Place] :
              /\ \A i \in Place' :
                    /\ queue'[i].who = queue[From[i]].who
                    /\ queue'[i].job = queue[From[i]].job
                    /\ queue'[i].rec = queue[From[i]].rec
              /\ \A i \in Place : \E l \in Place' : From[l] = i
              /\ \A i, l \in Place' : From[i] = From[l] => i = l
              /\ \A i, l \in Place' :
                    Before(i, l)' <=> Before(From[i], From[l])
      BY <1>0, <1>3, Rotated
    <2>2. RetryAsked'
      BY <2>1 DEF MirrorInv, RetryAsked
    <2>3. ASSUME NEW k \in Job, Mirrored
          PROVE  Mirror(k)'
      <3>1. Mirror(k)
        BY <2>3 DEF MirrorInv
      <3>2. NoWrite(k)' => NoWrite(k)
        BY <2>1 DEF NoWrite
      <3>3. Between(k)' <=> Between(k)
        BY <2>0 DEF Between
      <3>4. ASSUME NEW i \in Place', queue'[i].job = k, Last(i)'
            PROVE  Last(From[i])
        BY <2>1, <3>4 DEF Last
      <3> QED BY <2>0, <2>1, <3>1, <3>2, <3>3, <3>4 DEF Mirror
    <2> QED BY <2>2, <2>3 DEF MirrorInv, Mirrored
  <1>4. CASE Crash
    <2>1. queue' = <<>> /\ \A j \in Job : mem'[j] = Absent
      BY <1>4 DEF Crash
    <2> QED BY <2>1 DEF MirrorInv, RetryAsked, Mirror, Place
  <1> QED BY <1>1, <1>2, <1>3, <1>4, NextTurns

LEMMA InitMirror == Init => MirrorInv
  <1>1. Init => queue = <<>> /\ \A j \in Job : mem[j] = Absent
    BY DEF Init
  <1> QED BY <1>1 DEF MirrorInv, RetryAsked, Mirror, Place

\* Once the writes of a job are through, the file holds the record the host
\* has, unless another job of the call was registered first: whichever of
\* endCall, background job, retry and recovery wrote last.
THEOREM StoreHasTheRecord ==
    ASSUME "store" \notin Env
    PROVE  Spec => []MirrorAgrees
  <1>1. Init => MirrorInv
    BY InitMirror
  <1>2. IndInv /\ IndInv' /\ WriteInv /\ MirrorInv /\ [Next]_vars
            => MirrorInv'
    BY NextKeepsMirror
  <1>3. MirrorInv => MirrorAgrees
    BY DEF MirrorInv, Mirrored, MirrorAgrees, Mirror, NoWrite, Place
  <1> QED BY <1>1, <1>2, <1>3, WritesTakeTurns, PTL DEF Spec

-----------------------------------------------------------------------------
(* A record tells what happened *)

\* A record without an error has no failed step, and one that says completed
\* has every step done.
Honest(r) ==
    /\ ~r.errors => \A x \in Step : r.steps[x] # "failed"
    /\ r.status = "completed"
           => ~r.errors /\ \A x \in Step : r.steps[x] = "finished"

\* A background job that has not failed has the phases before its own behind
\* it, and its own done or marked as running.
Progress(j) ==
    bg[j].at \in {"mark", "queued", "work", "saving", "note"} /\ ~Failing(j) =>
        /\ \A x \in Step : Order[x] < Order[bg[j].ph]
                               => StepIsFinished(mem[j], x)
        /\ (\/ bg[j].at = "note"
            \/ bg[j].at = "saving" /\ bg[j].ph = "voicemail")
               => StepIsFinished(mem[j], bg[j].ph)
        /\ (\/ bg[j].at \in {"mark", "queued", "work"}
            \/ bg[j].at = "saving" /\ bg[j].ph = "media")
               => mem[j].steps[bg[j].ph] = "running"

\* The job's status still tells the voicemail phase, after its save, that the
\* phase has failed: nobody can have retried the job meanwhile.
Told(j) ==
    bg[j].at \in {"note", "saving"} /\ bg[j].ph = "voicemail" /\ ~bg[j].ok =>
        "retry" \notin Env /\ mem[j].status = "failed_retryable"

\* The user does not retry, or neither voicemail nor the store ever fails:
\* without that, a retry during the voicemail phase's save makes the failed
\* phase believe that it has succeeded.
NoLateRetry ==
    \/ "retry" \notin Env
    \/ "voicemail" \notin Env /\ "store" \notin Env

OwnHonest(j) == Honest(mem[j]) /\ Progress(j) /\ Told(j)

HonestInv ==
    /\ \A j \in Job : OwnHonest(j) /\ Honest(disk[j])
    /\ \A i \in Place : Honest(queue[i].rec)

\* What the updates of a record change.
LEMMA RecordFields ==
    ASSUME NEW r \in JobRecord
    PROVE  /\ r.steps \in [Step -> StepState] /\ r.errors \in BOOLEAN
           /\ r.committed \in BOOLEAN
           /\ \A y : /\ WithStatus(r, y).status = y
                     /\ WithStatus(r, y).steps = r.steps
                     /\ WithStatus(r, y).errors = r.errors
                     /\ WithStatus(r, y).committed = r.committed
           /\ \A x \in Step : \A y :
                 /\ WithStep(r, x, y).status = r.status
                 /\ WithStep(r, x, y).errors = r.errors
                 /\ WithStep(r, x, y).committed = r.committed
                 /\ WithStep(r, x, y).steps = [r.steps EXCEPT ![x] = y]
           /\ Failed(r).status = "failed_retryable" /\ Failed(r).errors
           /\ Failed(r).steps = r.steps /\ Failed(r).committed = r.committed
  BY DEF JobRecord, WithStatus, WithStep, Failed

\* Going on to a phase, or to the end.
LEMMA EnterHonest ==
    ASSUME mem \in [Job -> JobRecord], JobsOK, NEW j \in Job,
           NEW r \in JobRecord, NEW n \in Nat, NEW q, Enter(j, r, n, q),
           Honest(r), \A x \in Step : Order[x] < n => StepIsFinished(r, x)
    PROVE  OwnHonest(j)'
  <1>0. \A x \in Step : Order[x] \in Nat
    BY DEF Order, Step
  <1>1. CASE Ahead(r, n) = {}
    <2> DEFINE m == WithStatus(r, IF r.errors THEN "completed_with_errors"
                                  ELSE "completed")
    <2>1. \A x \in Step : StepIsFinished(r, x)
      BY <1>0, <1>1 DEF Ahead
    <2>2. /\ m.status = IF r.errors THEN "completed_with_errors"
                        ELSE "completed"
          /\ m.steps = r.steps /\ m.errors = r.errors
      BY RecordFields
    <2>3. /\ Set("bg", j, m, q)
          /\ bg' = [bg EXCEPT ![j] = At("final", "voicemail", TRUE)]
      BY <1>1 DEF Enter
    <2> HIDE DEF m
    <2>4. mem'[j] = m /\ bg'[j].at = "final"
      BY <2>3 DEF Set, JobsOK, At
    <2>5. Honest(m)
      BY <2>1, <2>2 DEF Honest, StepIsFinished
    <2> QED BY <2>4, <2>5 DEF OwnHonest, Progress, Told
  <1>2. CASE Ahead(r, n) # {}
    <2>1. PICK x \in First(Ahead(r, n)) :
              /\ Set("bg", j, WithStep(WithStatus(r, RunningStatus[x]),
                                       x, "running"), q)
              /\ bg' = [bg EXCEPT ![j] = At("mark", x, TRUE)]
      BY <1>2 DEF Enter
    <2>2. x \in Step
      BY DEF First, Ahead
    <2> DEFINE r1 == WithStatus(r, RunningStatus[x])
               m == WithStep(r1, x, "running")
    <2>3. RunningStatus[x] \in Running
      BY <2>2 DEF RunningStatus, Running, Step
    <2>4. /\ r1 \in JobRecord /\ r1.steps = r.steps /\ r1.errors = r.errors
          /\ r1.status \in Running
      <3>1. PICK s \in JobStatus : s = RunningStatus[x] /\ s \in Running
        BY <2>3 DEF JobStatus, ActiveStatus
      <3>2. r1 = WithStatus(r, s)
        BY <3>1
      <3> HIDE DEF r1
      <3>3. r1.steps = r.steps /\ r1.errors = r.errors /\ r1.status = s
        BY <3>2, RecordFields
      <3>4. r1 \in JobRecord
        BY <3>2, RecordTypes
      <3> QED BY <3>1, <3>3, <3>4
    <2> HIDE DEF r1
    <2>5. /\ m.steps = [r.steps EXCEPT ![x] = "running"]
          /\ m.errors = r.errors /\ m.status \in Running
      BY <2>2, <2>4, RecordFields
    <2>6. Set("bg", j, m, q) /\ bg' = [bg EXCEPT ![j] = At("mark", x, TRUE)]
      BY <2>1 DEF r1
    <2> HIDE DEF m
    <2>7. mem'[j] = m /\ bg'[j].at = "mark" /\ bg'[j].ph = x
      BY <2>6 DEF Set, JobsOK, At
    <2>8. r.steps \in [Step -> StepState]
      BY RecordFields
    <2>9. Honest(m)
      BY <2>2, <2>5, <2>8 DEF Honest, Running
    <2>10. ASSUME NEW y \in Step, Order[y] < Order[x]
           PROVE  StepIsFinished(m, y)
      <3>1. StepIsFinished(r, y)
        BY <1>0, <2>2, <2>10 DEF First, Ahead
      <3>2. y # x
        BY <1>0, <2>10
      <3> QED BY <2>2, <2>5, <2>8, <3>1, <3>2 DEF StepIsFinished
    <2>11. m.steps[x] = "running"
      BY <2>2, <2>5, <2>8
    <2> QED BY <2>7, <2>9, <2>10, <2>11 DEF OwnHonest, Progress, Told
  <1> QED BY <1>1, <1>2

\* Recording how a phase ended.
LEMMA NoteHonest ==
    ASSUME JobsOK, NEW j \in Job, NEW p \in Step, NEW ok \in BOOLEAN, NEW q,
           Note(j, p, ok, q), Honest(mem[j]), mem[j].status \notin Terminal,
           \A x \in Step : Order[x] < Order[p] => StepIsFinished(mem[j], x),
           p # "media",
           p = "voicemail" /\ ~ok => "retry" \notin Env
    PROVE  OwnHonest(j)'
  <1> DEFINE m == IF ok THEN WithStep(mem[j], p, "finished")
                  ELSE Failed(WithStep(mem[j], p, "failed"))
  <1>1. mem[j] \in JobRecord
    BY DEF JobsOK
  <1>2. /\ m.steps = [mem[j].steps EXCEPT ![p] =
                         IF ok THEN "finished" ELSE "failed"]
        /\ ok => m.errors = mem[j].errors /\ m.status = mem[j].status
        /\ ~ok => m.errors /\ m.status = "failed_retryable"
    <2>1. CASE ok
      BY <1>1, <2>1, RecordFields
    <2>2. CASE ~ok
      <3>1. WithStep(mem[j], p, "failed") \in JobRecord
        BY <1>1, RecordTypes DEF StepState
      <3> QED BY <1>1, <2>2, <3>1, RecordFields
    <2> QED BY <2>1, <2>2
  <1>3. Set("bg", j, m, q) /\ bg' = [bg EXCEPT ![j] = At("note", p, ok)]
    BY DEF Note
  <1> HIDE DEF m
  <1>4. /\ mem'[j] = m /\ bg'[j].at = "note" /\ bg'[j].ph = p
        /\ bg'[j].ok = ok
    BY <1>3 DEF Set, JobsOK, At
  <1>5. mem[j].steps \in [Step -> StepState]
    BY <1>1, RecordFields
  <1>6. Honest(m)
    BY <1>2, <1>5 DEF Honest, Terminal
  <1>7. ASSUME NEW x \in Step, Order[x] < Order[p]
        PROVE  StepIsFinished(m, x)
    BY <1>2, <1>5, <1>7 DEF StepIsFinished
  <1>8. StepIsFinished(m, p)
    BY <1>2, <1>5 DEF StepIsFinished
  <1>9. Progress(j)'
    BY <1>4, <1>7, <1>8 DEF Progress
  <1>10. Told(j)'
    BY <1>2, <1>4 DEF Told
  <1> QED BY <1>4, <1>6, <1>9, <1>10 DEF OwnHonest

\* The catch, and a job whose promise is gone.
LEMMA CatchHonest ==
    ASSUME JobsOK, NEW j \in Job, NEW q, Catch(j, q)
    PROVE  OwnHonest(j)'
  <1>1. mem[j] \in JobRecord
    BY DEF JobsOK
  <1>2. Honest(Failed(mem[j]))
    BY <1>1, RecordFields DEF Honest
  <1>3. mem'[j] = Failed(mem[j]) /\ bg'[j].at = "catch"
    BY DEF Catch, Set, JobsOK, At
  <1> QED BY <1>2, <1>3 DEF OwnHonest, Progress, Told

LEMMA IdleHonest ==
    ASSUME NEW j \in Job, bg'[j].at = "idle", Honest(mem'[j])
    PROVE  OwnHonest(j)'
  BY DEF OwnHonest, Progress, Told

LEMMA StartHonest ==
    ASSUME JobsOK, NEW j \in Job, NEW q, StartBackground(j, q), OwnHonest(j)
    PROVE  OwnHonest(j)'
  <1>1. mem \in [Job -> JobRecord] /\ mem[j] \in JobRecord
    BY DEF JobsOK
  <1>2. CASE bg[j].at # "idle" \/ ~mem[j].committed
    BY <1>2 DEF StartBackground, OwnHonest, Progress, Told, Failing
  <1>3. CASE bg[j].at = "idle" /\ mem[j].committed /\ loaded
    <2>1. Enter(j, mem[j], 1, q) /\ Honest(mem[j])
      BY <1>3 DEF StartBackground, OwnHonest
    <2>2. \A x \in Step : ~(Order[x] < 1)
      BY DEF Order, Step
    <2> QED BY <1>1, <2>1, <2>2, EnterHonest
  <1>4. CASE bg[j].at = "idle" /\ mem[j].committed /\ ~loaded
    <2>1. Honest(Failed(mem[j]))
      BY <1>1, RecordFields DEF Honest
    <2>2. mem'[j] = Failed(mem[j]) /\ bg'[j].at = "catch"
      BY <1>4 DEF StartBackground, Set, JobsOK, At
    <2> QED BY <2>1, <2>2 DEF OwnHonest, Progress, Told
  <1> QED BY <1>2, <1>3, <1>4

\* What a background job that has not failed relies on.
LEMMA AtPhase ==
    ASSUME IndInv, WriteInv, HonestInv, NEW j \in Job, bg[j].at # "idle"
    PROVE  /\ JobsOK /\ mem \in [Job -> JobRecord] /\ mem[j] \in JobRecord
           /\ Sound(j) /\ Honest(mem[j]) /\ Progress(j) /\ Told(j)
           /\ bg[j].ph \in Step /\ bg[j].ok \in BOOLEAN
           /\ bg[j].at \in {"mark", "queued", "work", "saving", "note"}
                  => mem[j].status \notin Terminal
           /\ ~Failing(j) => mem[j].status # "failed_retryable"
           /\ \A x \in Step : Order[x] \in Nat /\ Order[x] + 1 \in Nat
           /\ \A x \in Step, y \in Step :
                 Order[y] < Order[x] + 1 => Order[y] < Order[x] \/ y = x
  <1>1. /\ JobsOK /\ mem \in [Job -> JobRecord] /\ mem[j] \in JobRecord
        /\ Sound(j) /\ Honest(mem[j]) /\ Progress(j) /\ Told(j)
        /\ bg[j].ph \in Step /\ bg[j].ok \in BOOLEAN
    BY AtWork DEF HonestInv, OwnHonest, JobsOK
  <1>2. /\ bg[j].at \in {"mark", "queued", "work", "saving", "note"}
               => mem[j].status \notin Terminal
        /\ ~Failing(j) => mem[j].status # "failed_retryable"
    BY <1>1 DEF Sound, RunStatus
  <1>3. \A x \in Step : Order[x] \in Nat /\ Order[x] + 1 \in Nat
    BY DEF Order, Step
  <1>4. \A x \in Step, y \in Step :
            Order[y] < Order[x] + 1 => Order[y] < Order[x] \/ y = x
    BY DEF Order, Step
  <1> QED BY <1>1, <1>2, <1>3, <1>4

\* The memory and rollup phases.
LEMMA MemoryHonest ==
    ASSUME IndInv, WriteInv, HonestInv, NEW j \in Job,
           Marked(j) \/ MemoryAnswers(j) \/ MemoryNoted(j)
    PROVE  OwnHonest(j)'
  <1>a. bg[j].at # "idle"
    BY DEF Marked, MemoryAnswers, MemoryNoted, Sleeps
  <1>0. /\ JobsOK /\ mem \in [Job -> JobRecord] /\ mem[j] \in JobRecord
        /\ Honest(mem[j]) /\ Progress(j)
        /\ bg[j].ph \in Step
        /\ bg[j].at \in {"mark", "queued", "work", "saving", "note"}
               => mem[j].status \notin Terminal
        /\ \A x \in Step : Order[x] + 1 \in Nat
        /\ \A x \in Step, y \in Step :
              Order[y] < Order[x] + 1 => Order[y] < Order[x] \/ y = x
    BY <1>a, AtPhase
  <1>1. CASE Marked(j)
    <2>1. /\ bg[j].at = "mark"
          /\ \A x \in Step : Order[x] < Order[bg[j].ph]
                                 => StepIsFinished(mem[j], x)
          /\ mem[j].steps[bg[j].ph] = "running"
      BY <1>0, <1>1 DEF Marked, Progress, Failing
    <2>2. CASE bg[j].ph = "rollup" /\ Note(j, "rollup", TRUE, Tail(queue))
      BY <1>0, <2>1, <2>2, NoteHonest
    <2>3. CASE /\ UNCHANGED mem
               /\ \/ bg' = [bg EXCEPT ![j].at = "work"]
                  \/ bg' = [bg EXCEPT ![j].at = "queued"]
      <3>1. bg'[j].at \in {"work", "queued"} /\ bg'[j].ph = bg[j].ph
        BY <1>0, <2>3 DEF JobsOK
      <3> QED BY <1>0, <2>1, <2>3, <3>1
              DEF OwnHonest, Progress, Told, StepIsFinished
    <2> QED BY <1>1, <2>2, <2>3 DEF Marked
  <1>2. CASE MemoryAnswers(j)
    <2>1. PICK x \in {"memory", "rollup"}, ok \in BOOLEAN :
              Sleeps(j, "work", x) /\ Note(j, x, ok, queue)
      BY <1>2 DEF MemoryAnswers
    <2>2. /\ bg[j].at = "work" /\ x \in Step /\ x # "media"
          /\ x # "voicemail" /\ bg[j].ph = x
      BY <2>1 DEF Sleeps, Step
    <2>3. \A y \in Step : Order[y] < Order[x] => StepIsFinished(mem[j], y)
      BY <1>0, <2>2 DEF Progress, Failing
    <2> QED BY <1>0, <2>1, <2>2, <2>3, NoteHonest
  <1>3. CASE MemoryNoted(j)
    <2>1. bg[j].at = "note" /\ bg[j].ph \in {"memory", "rollup"}
      BY <1>3 DEF MemoryNoted
    <2>2. CASE bg[j].ok /\ Enter(j, mem[j], Order[bg[j].ph] + 1, Tail(queue))
      <3> DEFINE n == Order[bg[j].ph] + 1
      <3>1. \A x \in Step : Order[x] < n => StepIsFinished(mem[j], x)
        BY <1>0, <2>1, <2>2 DEF Progress, Failing
      <3>2. n \in Nat /\ Enter(j, mem[j], n, Tail(queue))
        BY <1>0, <2>2
      <3> HIDE DEF n
      <3> QED BY <1>0, <3>1, <3>2, EnterHonest
    <2>3. CASE bg' = [bg EXCEPT ![j] = Idle] /\ UNCHANGED mem
      <3>1. bg'[j].at = "idle"
        BY <1>0, <2>3 DEF JobsOK, Idle, At
      <3> QED BY <1>0, <2>3, <3>1, IdleHonest DEF Honest
    <2> QED BY <1>3, <2>2, <2>3 DEF MemoryNoted
  <1> QED BY <1>1, <1>2, <1>3

\* The media phase.
LEMMA MediaHonest ==
    ASSUME IndInv, WriteInv, HonestInv, NEW j \in Job,
           StartMedia(j) \/ SinkAnswers(j) \/ MediaSaved(j) \/ MediaNoted(j)
    PROVE  OwnHonest(j)'
  <1>a. bg[j].at # "idle" /\ bg[j].ph = "media"
    BY DEF StartMedia, SinkAnswers, MediaSaved, MediaNoted, Sleeps
  <1>0. /\ JobsOK /\ mem \in [Job -> JobRecord] /\ mem[j] \in JobRecord
        /\ Honest(mem[j]) /\ Progress(j)
        /\ bg[j].ok \in BOOLEAN /\ "media" \in Step
        /\ bg[j].at \in {"mark", "queued", "work", "saving", "note"}
               => mem[j].status \notin Terminal
        /\ \A x \in Step : Order[x] + 1 \in Nat
        /\ \A x \in Step, y \in Step :
              Order[y] < Order[x] + 1 => Order[y] < Order[x] \/ y = x
    BY <1>a, AtPhase
  <1>b. bg[j].at \in {"queued", "work", "saving", "note"}
    BY DEF StartMedia, SinkAnswers, MediaSaved, MediaNoted, Sleeps
  <1>c. /\ \A x \in Step : Order[x] < Order["media"]
                               => StepIsFinished(mem[j], x)
        /\ bg[j].at = "note" => StepIsFinished(mem[j], "media")
        /\ bg[j].at # "note" => mem[j].steps["media"] = "running"
    BY <1>a, <1>b, <1>0 DEF Progress, Failing
  <1>1. CASE StartMedia(j) \/ SinkAnswers(j)
    <2>1. /\ bg'[j].at \in {"saving", "work"} /\ bg'[j].ph = "media"
          /\ mem' = mem /\ bg[j].at # "note"
      BY <1>a, <1>0, <1>1 DEF StartMedia, SinkAnswers, JobsOK, At, Sleeps
    <2> QED BY <1>0, <1>c, <2>1 DEF OwnHonest, Progress, Told, StepIsFinished
  <1>2. CASE MediaSaved(j)
    <2> DEFINE x1 == IF bg[j].ok THEN "finished" ELSE "failed"
               r1 == WithStep(mem[j], "media", x1)
               r == [r1 EXCEPT !.errors = @ \/ ~bg[j].ok]
    <2>1. /\ r1 \in JobRecord /\ r1.errors = mem[j].errors
          /\ r1.status = mem[j].status
          /\ r1.steps = [mem[j].steps EXCEPT !["media"] = x1]
      <3>1. x1 \in StepState
        BY DEF StepState
      <3> HIDE DEF x1
      <3>2. r1 \in JobRecord
        BY <1>0, <3>1, RecordTypes
      <3> QED BY <1>0, <3>2, RecordFields
    <2> HIDE DEF r1
    <2>2. /\ r.errors = (r1.errors \/ ~bg[j].ok) /\ r.steps = r1.steps
          /\ r.status = r1.status
      BY <2>1 DEF JobRecord
    <2>3. Set("bg", j, r, queue) /\ bg' = [bg EXCEPT ![j].at = "note"]
      BY <1>2 DEF MediaSaved, r1
    <2> HIDE DEF r
    <2>4. mem'[j] = r /\ bg'[j].at = "note" /\ bg'[j].ph = "media"
      BY <1>a, <1>0, <2>3 DEF Set, JobsOK
    <2>5. mem[j].steps \in [Step -> StepState] /\ mem[j].errors \in BOOLEAN
      BY <1>0, RecordFields
    <2>6. r.status # "completed"
      BY <1>0, <1>2, <2>1, <2>2 DEF MediaSaved, Sleeps, Terminal
    <2>7. ASSUME ~r.errors, NEW x \in Step
          PROVE  r.steps[x] # "failed"
      <3>1. ~mem[j].errors /\ bg[j].ok
        BY <1>0, <2>1, <2>2, <2>7
      <3> QED BY <1>0, <2>1, <2>2, <2>5, <3>1 DEF Honest
    <2>8. ASSUME NEW x \in Step, Order[x] < Order["media"]
          PROVE  StepIsFinished(r, x)
      BY <1>0, <1>c, <2>1, <2>2, <2>5, <2>8 DEF StepIsFinished
    <2>9. StepIsFinished(r, "media")
      BY <1>0, <2>1, <2>2, <2>5 DEF StepIsFinished
    <2> QED BY <2>4, <2>6, <2>7, <2>8, <2>9
            DEF OwnHonest, Honest, Progress, Told
  <1>3. CASE MediaNoted(j)
    <2>0. bg[j].at = "note"
      BY <1>3 DEF MediaNoted, Sleeps
    <2>2. CASE Enter(j, mem[j], Order["media"] + 1, Tail(queue))
      <3> DEFINE n == Order["media"] + 1
      <3>1. \A x \in Step : Order[x] < n => StepIsFinished(mem[j], x)
        BY <1>0, <1>c, <2>0
      <3>2. n \in Nat /\ Enter(j, mem[j], n, Tail(queue))
        BY <1>0, <2>2
      <3> HIDE DEF n
      <3> QED BY <1>0, <3>1, <3>2, EnterHonest
    <2>3. CASE /\ Set("bg", j, WithStatus(mem[j], "failed_retryable"),
                      Tail(queue))
               /\ bg' = [bg EXCEPT ![j].at = "fail"]
      <3>1. Honest(WithStatus(mem[j], "failed_retryable"))
        BY <1>0, RecordFields DEF Honest
      <3>2. /\ mem'[j] = WithStatus(mem[j], "failed_retryable")
            /\ bg'[j].at = "fail"
        BY <1>0, <2>3 DEF Set, JobsOK
      <3> QED BY <3>1, <3>2 DEF OwnHonest, Progress, Told
    <2> QED BY <1>3, <2>2, <2>3 DEF MediaNoted
  <1> QED BY <1>1, <1>2, <1>3

\* The voicemail phase.
LEMMA VoicemailHonest ==
    ASSUME IndInv, WriteInv, HonestInv, NoLateRetry, NEW j \in Job,
           \/ StartVoicemail(j) \/ VoicemailAnswers(j)
           \/ VoicemailNoted(j) \/ VoicemailSaved(j)
    PROVE  OwnHonest(j)'
  <1>a. bg[j].at \in {"queued", "work", "note", "saving"}
        /\ bg[j].ph = "voicemail"
    BY DEF StartVoicemail, VoicemailAnswers, VoicemailNoted, VoicemailSaved,
           Sleeps
  <1>0. /\ JobsOK /\ mem \in [Job -> JobRecord] /\ mem[j] \in JobRecord
        /\ Honest(mem[j]) /\ Progress(j) /\ Told(j)
        /\ bg[j].ok \in BOOLEAN /\ "voicemail" \in Step
        /\ mem[j].status \notin Terminal
        /\ \A x \in Step : Order[x] + 1 \in Nat
        /\ \A x \in Step, y \in Step :
              Order[y] < Order[x] + 1 => Order[y] < Order[x] \/ y = x
    BY <1>a, AtPhase
  <1>1. CASE StartVoicemail(j)
    <2>1. /\ bg'[j].at = "work" /\ bg'[j].ph = "voicemail" /\ mem' = mem
          /\ bg[j].at = "queued"
      BY <1>0, <1>1 DEF StartVoicemail, JobsOK, Sleeps
    <2>2. /\ \A x \in Step : Order[x] < Order["voicemail"]
                                 => StepIsFinished(mem[j], x)
          /\ mem[j].steps["voicemail"] = "running"
      BY <1>a, <1>0, <2>1 DEF Progress, Failing
    <2> QED BY <1>0, <2>1, <2>2 DEF OwnHonest, Progress, Told, StepIsFinished
  <1>2. CASE VoicemailAnswers(j)
    <2>1. PICK ok \in BOOLEAN : /\ ok \/ "voicemail" \in Env
                                /\ Note(j, "voicemail", ok, queue)
      BY <1>2 DEF VoicemailAnswers
    <2>2. bg[j].at = "work"
      BY <1>2 DEF VoicemailAnswers, Sleeps
    <2>3. \A x \in Step : Order[x] < Order["voicemail"]
                              => StepIsFinished(mem[j], x)
      BY <1>a, <1>0, <2>2 DEF Progress, Failing
    <2> QED BY <1>0, <2>1, <2>3, NoteHonest DEF NoLateRetry
  <1>3. CASE VoicemailNoted(j)
    <2>1. /\ bg'[j].at = "saving" /\ bg'[j].ph = "voicemail" /\ mem' = mem
          /\ bg'[j].ok = bg[j].ok /\ bg[j].at = "note"
      BY <1>a, <1>0, <1>3 DEF VoicemailNoted, JobsOK, Sleeps
    <2>2. bg[j].ok => /\ \A x \in Step : Order[x] < Order["voicemail"]
                                             => StepIsFinished(mem[j], x)
                      /\ StepIsFinished(mem[j], "voicemail")
      BY <1>a, <1>0, <2>1 DEF Progress, Failing
    <2>3. Failing(j)' <=> ~bg[j].ok
      BY <2>1 DEF Failing
    <2> QED BY <1>a, <1>0, <2>1, <2>2, <2>3
            DEF OwnHonest, Progress, Told, StepIsFinished
  <1>4. CASE VoicemailSaved(j)
    <2>1. bg[j].at = "saving"
      BY <1>4 DEF VoicemailSaved, Sleeps
    <2>2. CASE /\ mem[j].status # "failed_retryable"
               /\ Enter(j, mem[j], Order["voicemail"] + 1, queue)
      <3>1. bg[j].ok
        BY <1>a, <1>0, <2>1, <2>2 DEF Told
      <3> DEFINE n == Order["voicemail"] + 1
      <3>2. \A x \in Step : Order[x] < n => StepIsFinished(mem[j], x)
        BY <1>a, <1>0, <2>1, <3>1 DEF Progress, Failing
      <3>3. n \in Nat /\ Enter(j, mem[j], n, queue)
        BY <1>0, <2>2
      <3> HIDE DEF n
      <3> QED BY <1>0, <3>2, <3>3, EnterHonest
    <2>3. CASE bg' = [bg EXCEPT ![j] = Idle] /\ UNCHANGED mem
      <3>1. bg'[j].at = "idle"
        BY <1>0, <2>3 DEF JobsOK, Idle, At
      <3> QED BY <1>0, <2>3, <3>1, IdleHonest DEF Honest
    <2> QED BY <1>4, <2>2, <2>3 DEF VoicemailSaved
  <1> QED BY <1>1, <1>2, <1>3, <1>4

\* The last write, and the writes and saves that reject.
LEMMA SettleHonest ==
    ASSUME IndInv, WriteInv, HonestInv, NoLateRetry, NEW j \in Job,
           Settled(j) \/ StoreRejects(j) \/ SaveRejects(j)
    PROVE  OwnHonest(j)'
  <1>a. bg[j].at # "idle"
    BY DEF Settled, StoreRejects, SaveRejects
  <1>0. /\ JobsOK /\ mem[j] \in JobRecord
        /\ Honest(mem[j]) /\ Progress(j) /\ bg[j].ph \in Step
        /\ bg[j].at \in {"mark", "queued", "work", "saving", "note"}
               => mem[j].status \notin Terminal
    BY <1>a, AtPhase
  <1>1. CASE bg' = [bg EXCEPT ![j] = Idle] /\ UNCHANGED mem
    <2>1. bg'[j].at = "idle"
      BY <1>0, <1>1 DEF JobsOK, Idle, At
    <2> QED BY <1>0, <1>1, <2>1, IdleHonest DEF Honest
  <1>2. CASE StoreRejects(j) /\ Guarded(j)
             /\ Note(j, bg[j].ph, FALSE, Tail(queue))
    <2>1. bg[j].at = "note" /\ bg[j].ok /\ bg[j].ph # "media"
      BY <1>2 DEF Guarded
    <2>2. \A x \in Step : Order[x] < Order[bg[j].ph]
                              => StepIsFinished(mem[j], x)
      BY <1>0, <2>1 DEF Progress, Failing
    <2>3. "retry" \notin Env
      BY <1>2 DEF StoreRejects, Broken, NoLateRetry
    <2> QED BY <1>0, <1>2, <2>1, <2>2, <2>3, NoteHonest
  <1>3. CASE \E q : Catch(j, q)
    BY <1>0, <1>3, CatchHonest
  <1> QED BY <1>1, <1>2, <1>3 DEF Settled, StoreRejects, SaveRejects

\* An endCall builds its job and hands it over.
LEMMA EndingHonest ==
    ASSUME IndInv, WriteInv, HonestInv, NEW j \in Job, Ending(j)
    PROVE  OwnHonest(j)'
  <1>0. /\ JobsOK /\ mem[j] \in JobRecord /\ OwnHonest(j) /\ Honest(mem[j])
        /\ bg[j].at = "idle" /\ mem[j].status \notin Terminal
    BY AtEnd DEF HonestInv, OwnHonest
  <1>1. ASSUME NEW r, NEW q, Set("end", j, r, q), Honest(r), UNCHANGED bg
        PROVE  OwnHonest(j)'
    <2>1. mem'[j] = r
      BY <1>0, <1>1 DEF Set, JobsOK
    <2> QED BY <1>0, <1>1, <2>1, IdleHonest
  <1>2. CASE JobBuilt(j)
    <2>1. PICK deferred \in BOOLEAN : Set("end", j, Closing(deferred), queue)
      <3> DEFINE d == end'[j].exit \in WithMedia
      <3>1. Set("end", j, Closing(d), queue)
        BY <1>2 DEF JobBuilt
      <3>2. d \in BOOLEAN
        OBVIOUS
      <3> HIDE DEF d
      <3> QED BY <3>1, <3>2
    <2>2. Honest(Closing(deferred))
      BY DEF Closing, Rec, NewSteps, Honest
    <2> QED BY <1>1, <1>2, <2>1, <2>2 DEF JobBuilt
  <1>3. CASE SyncSaved(j)
    <2>1. Honest(SyncResult(mem[j], end[j].plan))
      <3>1. CASE end[j].plan = "aborted"
        BY <1>0, <3>1, RecordFields DEF SyncResult, Honest
      <3>2. CASE end[j].plan # "aborted"
        <4> DEFINE r == [mem[j] EXCEPT !.status = "committed",
                                       !.committed = TRUE]
        <4>1. r.status = "committed" /\ r.errors = mem[j].errors
              /\ r.steps = mem[j].steps
          BY <1>0 DEF JobRecord
        <4>2. SyncResult(mem[j], end[j].plan) = r
          BY <3>2 DEF SyncResult
        <4> HIDE DEF r
        <4> QED BY <1>0, <4>1, <4>2 DEF Honest
      <3> QED BY <3>1, <3>2
    <2> QED BY <1>1, <1>3, <2>1 DEF SyncSaved
  <1>4. CASE JobCommitted(j)
    <2>1. Honest(WithStatus(mem[j], "background_pending"))
      BY <1>0, RecordFields DEF Honest
    <2> QED BY <1>1, <1>4, <2>1 DEF JobCommitted
  <1>5. CASE JobKicked(j)
    BY <1>0, <1>5, StartHonest DEF JobKicked
  <1>6. CASE UNCHANGED <<mem, bg>>
    BY <1>0, <1>6, IdleHonest DEF Honest
  <1> QED BY <1>2, <1>3, <1>4, <1>5, <1>6
          DEF Ending, ExitSelected, NoExit, AbortCall, CallAborted, HooksDone,
              JobRegistered, RunSyncEffects, JobFailed, EndStoreRejects,
              EndSaveRejects, jobVars

\* A retry and the recovery.
LEMMA RestartHonest ==
    ASSUME IndInv, WriteInv, HonestInv, NEW j \in Job,
           Retry(j) \/ Retrying(j) \/ Recovering(j)
    PROVE  OwnHonest(j)'
  <1>0. /\ JobsOK /\ StoreOK /\ mem[j] \in JobRecord /\ disk[j] \in JobRecord
        /\ OwnHonest(j) /\ Honest(disk[j]) /\ Sound(j)
    BY DEF IndInv, TypeOK, JobsOK, StoreOK, HonestInv, WriteInv
  <1>1. CASE Retry(j)
    <2>1. /\ mem[j].status = "failed_retryable" /\ "retry" \in Env
          /\ Set("retry", j, Reset(mem[j]), queue) /\ UNCHANGED bg
      BY <1>1 DEF Retry, Retryable
    <2>2. bg[j].at = "idle" \/ Failing(j)
      BY <1>0, <2>1 DEF Sound, RunStatus
    <2>3. /\ Reset(mem[j]).status = "background_pending"
          /\ \A x \in Step : Reset(mem[j]).steps[x] # "failed"
      BY <1>0 DEF Reset, JobRecord
    <2>4. mem'[j] = Reset(mem[j])
      BY <1>0, <2>1 DEF Set, JobsOK
    <2>5. Failing(j)' <=> Failing(j)
      BY <2>1 DEF Failing
    <2> QED BY <1>0, <2>1, <2>2, <2>3, <2>4, <2>5
            DEF OwnHonest, Honest, Progress, Told
  <1>2. CASE \E q : StartBackground(j, q)
    BY <1>0, <1>2, StartHonest
  <1>3. CASE UNCHANGED <<mem, bg>>
    BY <1>0, <1>3 DEF OwnHonest, Honest, Progress, Told, Failing,
                      StepIsFinished
  <1>4. CASE RecoverTerminal(j) \/ RecoverJob(j)
    <2>1. bg'[j].at = "idle"
      <3>1. j \in recov.todo
        BY <1>4 DEF RecoverTerminal, RecoverJob, Visitable
      <3> QED BY <1>4, <3>1 DEF IndInv, ToVisit, RecoverTerminal, RecoverJob
    <2>2. CASE RecoverTerminal(j)
      <3>1. mem'[j] = disk[j]
        BY <1>0, <2>2 DEF RecoverTerminal, JobsOK
      <3> QED BY <1>0, <2>1, <3>1, IdleHonest
    <2>3. CASE RecoverJob(j)
      <3> DEFINE r == IF Resumable(j)
                      THEN WithStatus(disk[j], "background_pending")
                      ELSE Failed(disk[j])
      <3>1. Set("recover", j, r, queue)
        BY <2>3 DEF RecoverJob
      <3>2. Honest(r)
        BY <1>0, RecordFields DEF Honest
      <3> HIDE DEF r
      <3>3. mem'[j] = r
        BY <1>0, <3>1 DEF Set, JobsOK
      <3> QED BY <2>1, <3>2, <3>3, IdleHonest
    <2> QED BY <1>4, <2>2, <2>3
  <1> QED BY <1>1, <1>2, <1>3, <1>4
          DEF Retrying, RetryStarts, RetryRejects, Recovering, JobRecovered,
              RecoverRejects

LEMMA NextKeepsHonest ==
    ASSUME IndInv, IndInv', WriteInv, NoLateRetry, HonestInv, [Next]_vars
    PROVE  HonestInv'
  <1>0. StoreOK /\ mem' \in [Job -> JobRecord]
    BY DEF IndInv, TypeOK, JobsOK
  <1>1. CASE UNCHANGED <<end, bg, recov, mem, disk, queue>>
    BY <1>1 DEF HonestInv, OwnHonest, Honest, Progress, Told, Failing, Place,
                StepIsFinished
  <1>2. ASSUME NEW j \in Job, JobTurn(j), OwnHonest(j)'
        PROVE  HonestInv'
    <2>1. PICK p, n : Turn(j, p, n) /\ OthersKeep(j)
      BY <1>2 DEF JobTurn
    <2> DEFINE d == IF p = "none" THEN 0 ELSE 1
    <2>2. \A i \in Place' :
              \/ i + d \in Place /\ queue'[i] = queue[i + d]
              \/ queue'[i] = Write(n, j, mem'[j])
      BY <1>0, <2>1, TurnPlaces
    <2>3. \A i \in Place' : Honest(queue'[i].rec)
      BY <1>2, <2>2 DEF HonestInv, Write, OwnHonest, Honest
    <2>4. ASSUME NEW k \in Job PROVE OwnHonest(k)'
      <3>1. CASE k = j
        BY <1>2, <3>1
      <3>2. CASE k # j
        <4>1. mem'[k] = mem[k] /\ bg'[k] = bg[k] /\ end'[k] = end[k]
          BY <2>1, <3>2 DEF OthersKeep
        <4> QED BY <4>1 DEF HonestInv, OwnHonest, Honest, Progress, Told,
                            Failing, StepIsFinished
      <3> QED BY <3>1, <3>2
    <2>5. ASSUME NEW k \in Job PROVE Honest(disk'[k])
      <3>1. CASE UNCHANGED disk
        BY <3>1 DEF HonestInv
      <3>2. CASE disk' # disk
        <4>1. /\ NextWrite(p, j) /\ ~Missing(Head(queue)) /\ p \in Who
              /\ disk' = [disk EXCEPT ![j] = Head(queue).rec]
          BY <2>1, <3>2 DEF Turn, Filed
        <4>2. 1 \in Place /\ queue[1] = Head(queue)
          BY <1>0, <4>1, HeadFirst
        <4>3. Honest(Head(queue).rec) /\ Honest(disk[k])
          BY <4>2 DEF HonestInv
        <4>4. disk \in [Job -> JobRecord]
          BY <1>0 DEF StoreOK
        <4> QED BY <4>1, <4>3, <4>4 DEF Honest
      <3> QED BY <3>1, <3>2
    <2> QED BY <2>3, <2>4, <2>5 DEF HonestInv, Honest
  <1>3. ASSUME NEW j \in Job,
               \/ Ending(j) \/ Background(j)
               \/ Retry(j) \/ Retrying(j) \/ Recovering(j)
        PROVE  HonestInv'
    <2>1. JobTurn(j)
      BY <1>3, EndingTurns, BackgroundTurns, RetryWrites, RetryingWrites,
         RecoveringWrites
    <2>2. OwnHonest(j)'
      BY <1>3, MemoryHonest, MediaHonest, VoicemailHonest, SettleHonest,
         EndingHonest, RestartHonest DEF Background
    <2> QED BY <1>2, <2>1, <2>2
  <1>4. ASSUME NEW j \in Job, NEW s \in Session, EndCall(j, s)
        PROVE  HonestInv'
    <2>1. UNCHANGED <<mem, bg, disk, queue>>
      BY <1>4 DEF EndCall, jobVars, storeVars
    <2> QED BY <2>1 DEF HonestInv, OwnHonest, Honest, Progress, Told, Failing,
                        Place, StepIsFinished
  <1>5. CASE CreateMissing
    <2>1. UNCHANGED <<bg, mem, disk>>
      BY <1>5 DEF CreateMissing, jobVars
    <2>2. PICK From \in [Place' -> Place] :
              \A i \in Place' : queue'[i].rec = queue[From[i]].rec
      BY <1>0, <1>5, Rotated
    <2>3. \A i \in Place' : Honest(queue'[i].rec)
      BY <2>2 DEF HonestInv
    <2> QED BY <2>1, <2>3 DEF HonestInv, OwnHonest, Honest, Progress, Told,
                              Failing, StepIsFinished
  <1>6. CASE Crash
    <2>1. /\ Place' = {} /\ \A j \in Job : bg'[j].at = "idle"
          /\ \A j \in Job : mem'[j] = Absent /\ disk'[j] = Reclaim(disk[j])
      BY <1>6 DEF Crash, Place, Idle, At
    <2>2. Honest(Absent)
      BY DEF Absent, Rec, NewSteps, Honest
    <2>3. ASSUME NEW j \in Job PROVE Honest(Reclaim(disk[j]))
      <3>1. disk[j] \in JobRecord /\ Honest(disk[j])
        BY <1>0 DEF StoreOK, HonestInv
      <3> QED BY <3>1, RecordFields DEF Reclaim, Honest
    <2> QED BY <2>1, <2>2, <2>3, IdleHonest DEF HonestInv, Honest
  <1>7. ASSUME NEW s \in Session,
               BeginCall(s) \/ CallBegun(s) \/ ComposeFails(s)
        PROVE  UNCHANGED <<end, bg, recov, mem, disk, queue>>
    BY <1>7 DEF BeginCall, CallBegun, ComposeFails, jobVars, storeVars
  <1>8. CASE EnsureProfile \/ UNCHANGED vars
    BY <1>1, <1>8 DEF EnsureProfile, vars, callVars, jobVars, storeVars
  <1> QED BY <1>1, <1>3, <1>4, <1>5, <1>6, <1>7, <1>8 DEF Next

LEMMA InitHonest == Init => HonestInv
  <1>1. Honest(Absent)
    BY DEF Absent, Rec, NewSteps, Honest
  <1>2. Init => /\ Place = {}
                /\ \A j \in Job : /\ bg[j].at = "idle"
                                  /\ mem[j] = Absent /\ disk[j] = Absent
    BY DEF Init, Place, Idle, At
  <1> QED BY <1>1, <1>2 DEF HonestInv, OwnHonest, Progress, Told

\* A job that reports completed did every step and recorded no failure,
\* whatever failed, was retried or restarted on the way there.
THEOREM CompletedMeansDone ==
    ASSUME NoLateRetry
    PROVE  Spec => []CompletedJobsFinished
  <1>1. Init => HonestInv
    BY InitHonest
  <1>2. IndInv /\ IndInv' /\ WriteInv /\ HonestInv /\ [Next]_vars
            => HonestInv'
    BY NextKeepsHonest
  <1>3. HonestInv => CompletedJobsFinished
    BY DEF HonestInv, OwnHonest, Honest, CompletedJobsFinished
  <1> QED BY <1>1, <1>2, <1>3, WritesTakeTurns, PTL DEF Spec

-----------------------------------------------------------------------------
(* Nobody is on the phone with an agent whose call is being worked off.    *)
(* NoCallDuringEffects is not inductive: beginCall looks at the statuses   *)
(* of the jobs and not at their promises, and it looks before the prompt   *)
(* is composed.  What holds at every step is that a job that bars an agent *)
(* and a call with that agent belong to each other, and that a job that    *)
(* can be worked off is the job of a call that is over.                    *)

\* A beginCall at the prompt, or a call in progress.
OnThePhone == {"composing", "in_call", "ending"}

\* The job of another call with the agent of s is closed or not there yet.
AgentFree ==
    \A s \in Session, j \in Job :
        /\ call[s] \in OnThePhone /\ mem[j].status \in ActiveStatus
        /\ AgentOf[end[j].sess] = AgentOf[s]
        => end[j].sess = s

\* A job is committed once its call is over.
CommittedOver ==
    \A j \in Job : mem[j].committed => call[end[j].sess] = "ended"

\* No restart: there is nothing to recover.
NoRecovery == recov.todo = {} /\ recov.job = None

QuietInv == NoRecovery /\ AgentFree /\ CommittedOver

\* A job that is not committed is left alone by everything but its endCall.
LEMMA UncommittedStays ==
    ASSUME IndInv, WriteInv, NEW j \in Job, ~mem[j].committed,
           Background(j) \/ Retry(j) \/ Retrying(j)
    PROVE  mem'[j] = mem[j]
  <1>1. bg[j].at = "idle"
    BY DEF WriteInv, Sound, RunStatus
  <1>2. ~Background(j) /\ ~Retry(j)
    BY <1>1 DEF Background, Marked, MemoryAnswers, MemoryNoted, StartMedia,
                SinkAnswers, MediaSaved, MediaNoted, StartVoicemail,
                VoicemailAnswers, VoicemailNoted, VoicemailSaved, Settled,
                StoreRejects, SaveRejects, Sleeps, Retry, Retryable
  <1> QED BY <1>1, <1>2
          DEF Retrying, RetryStarts, RetryRejects, StartBackground

\* The background job and its retries bar no agent anew, and commit nothing.
LEMMA RunsQuietly ==
    ASSUME IndInv, WriteInv, "store" \notin Env, NEW j \in Job,
           Background(j) \/ Retry(j) \/ Retrying(j)
    PROVE  /\ mem'[j].committed => mem[j].committed
           /\ mem'[j].status \in ActiveStatus => mem[j].status \in ActiveStatus
  <1>1. mem[j].status \in ActiveStatus \cup Terminal \cup {"absent"}
    <2>1. mem[j] \in JobRecord
      BY DEF IndInv, TypeOK, JobsOK
    <2> QED BY <2>1 DEF JobRecord
  <1>2. mem[j].status = "absent" => ~mem[j].committed
    <2>1. mem[j].status = "absent" => mem[j] = Absent
      BY DEF WriteInv, Sound, InStore
    <2> QED BY <2>1 DEF Absent, Rec
  <1>3. ~mem[j].committed => mem'[j] = mem[j]
    BY UncommittedStays
  <1>4. mem[j].status \in Terminal => mem'[j] = mem[j]
    BY ClosedStays
  <1> QED BY <1>1, <1>2, <1>3, <1>4

\* While an endCall hangs up nobody else is on the phone.
LEMMA HangsUpAlone ==
    ASSUME IndInv, OneCallInv, NEW j \in Job, end[j].at \in Hanging,
           NEW s \in Session, call[s] \in OnThePhone
    PROVE  s = end[j].sess
  <1>1. end[j].sess \in Session /\ None \notin Session
    BY HostAssumption DEF IndInv, TypeOK, CallsOK, Hanging
  <1>2. call[end[j].sess] = "ending" /\ active = end[j].sess
    BY <1>1 DEF OneCallInv, HangsUpActive, LiveIsActive, Live
  <1> QED BY <1>1, <1>2 DEF OnThePhone, OneCallInv, LiveIsActive, Live,
                            ComposesAlone

\* The places of an endCall that write the record of its job.
Writing == {"preload", "saving", "commit", "kick"}

\* What endCall j does to the record of its job.
LEMMA EndingRecord ==
    ASSUME IndInv, WriteInv, NEW j \in Job, Ending(j), mem'[j] # mem[j]
    PROVE  /\ end[j].at \in Writing
           /\ end[j].at = "preload" => ~mem'[j].committed
           /\ end[j].at = "saving" => call'[end[j].sess] = "ended"
  <1>1. JobsOK /\ CallsOK
    BY AtEnd
  <1>2. CASE ExitSelected(j) \/ HooksDone(j) \/ NoExit(j) \/ AbortCall(j)
             \/ CallAborted(j) \/ JobRegistered(j) \/ RunSyncEffects(j)
             \/ JobFailed(j) \/ EndStoreRejects(j) \/ EndSaveRejects(j)
    BY <1>2 DEF ExitSelected, HooksDone, NoExit, AbortCall, CallAborted,
                JobRegistered, RunSyncEffects, JobFailed, EndStoreRejects,
                EndSaveRejects, jobVars
  <1>3. CASE JobBuilt(j)
    <2>1. mem' = [mem EXCEPT ![j] = Closing(end'[j].exit \in WithMedia)]
      BY <1>3 DEF JobBuilt, Set
    <2>2. mem'[j] = Closing(end'[j].exit \in WithMedia)
      BY <1>1, <2>1 DEF JobsOK
    <2> QED BY <1>3, <2>2 DEF JobBuilt, Closing, Rec, Writing
  <1>4. CASE SyncSaved(j)
    BY <1>1, <1>4, EndingEnds DEF SyncSaved, Writing, CallsOK
  <1>5. CASE JobCommitted(j) \/ JobKicked(j)
    BY <1>5 DEF JobCommitted, JobKicked, Writing
  <1> QED BY <1>2, <1>3, <1>4, <1>5 DEF Ending

LEMMA EndingQuietly ==
    ASSUME IndInv, IndInv', WriteInv, OneCallInv, QuietInv,
           NEW j \in Job, Ending(j)
    PROVE  QuietInv'
  <1> DEFINE s == end[j].sess
  <1>0. /\ call \in [Session -> CallStatus] /\ EndStatus(j)
        /\ \A k \in Job : end[k].at # "idle" => end[k].sess \in Session
        /\ \A k \in Job : mem[k].committed => end[k].at # "idle"
    BY DEF IndInv, TypeOK, CallsOK, CallStatus, WriteInv, Sound, Fresh,
           Absent, Rec
  <1>1. /\ \A k \in Job : end'[k].sess = end[k].sess
        /\ s \in Session /\ end[j].at \notin Over \cup {"idle"}
        /\ end[j].at \in EndAt
    BY EndingEnds DEF IndInv, TypeOK, CallsOK, EndRecord
  <1>2. \A k \in Job \ {j} : mem'[k] = mem[k]
    BY EndingTurns DEF JobTurn, OthersKeep
  <1>3. NoRecovery'
    <2>1. UNCHANGED recov
      BY DEF Ending, ExitSelected, HooksDone, NoExit, AbortCall, CallAborted,
             JobBuilt, JobRegistered, RunSyncEffects, SyncSaved,
             JobCommitted, JobKicked, JobFailed, EndStoreRejects,
             EndSaveRejects, jobVars
    <2> QED BY <2>1 DEF QuietInv, NoRecovery
  <1>4. /\ \A t \in Session \ {s} : call'[t] = call[t]
        /\ call'[s] \in OnThePhone => call[s] \in OnThePhone
        /\ end[j].at \notin Hanging \cup {"abort_save"} => call' = call
    BY <1>0, <1>1, EndingMoves
    DEF GoesOn, Aborts, Frees, Leaves, Hanging, OnThePhone, OneCallInv,
        HangsUpActive
  <1>5. mem[j].committed => end[j].at \in {"commit", "kick"}
    BY <1>0, <1>1 DEF EndStatus, EndAt, Over, Absent, Rec
  <1>6. mem'[j].committed => call'[s] = "ended"
    <2>1. CASE mem'[j] = mem[j]
      BY <1>4, <1>5, <2>1 DEF QuietInv, CommittedOver, Hanging
    <2>2. CASE mem'[j] # mem[j]
      <3>1. end[j].at \in {"commit", "kick"} => mem[j].committed
        BY <1>0 DEF EndStatus
      <3> QED BY <1>4, <2>2, <3>1, EndingRecord
              DEF Writing, QuietInv, CommittedOver, Hanging
    <2> QED BY <2>1, <2>2
  <1>7. CommittedOver'
    <2> SUFFICES ASSUME NEW k \in Job, mem'[k].committed, k # j
                 PROVE  call'[end[k].sess] = "ended"
      BY <1>1, <1>6 DEF CommittedOver
    <2>1. mem[k].committed /\ end[k].sess \in Session /\ end[k].sess # s
      BY <1>0, <1>1, <1>2 DEF OneCallInv, OneHangUp
    <2> QED BY <1>4, <2>1 DEF QuietInv, CommittedOver
  <1>8. AgentFree'
    <2> SUFFICES ASSUME NEW t \in Session, NEW k \in Job,
                        call'[t] \in OnThePhone,
                        mem'[k].status \in ActiveStatus,
                        AgentOf[end[k].sess] = AgentOf[t]
                 PROVE  end[k].sess = t
      BY <1>1 DEF AgentFree
    <2>1. call[t] \in OnThePhone
      BY <1>4
    <2>2. CASE mem'[k] = mem[k]
      BY <2>1, <2>2 DEF QuietInv, AgentFree
    <2>3. CASE k = j /\ mem'[k] # mem[k]
      <3>1. CASE end[j].at \in Hanging
        BY <2>1, <2>3, <3>1, HangsUpAlone
      <3>2. CASE end[j].at \in {"commit", "kick"}
        <4>1. mem[j].status \in ActiveStatus
          BY <1>0, <3>2 DEF EndStatus, ActiveStatus
        <4> QED BY <2>1, <2>3, <4>1 DEF QuietInv, AgentFree
      <3> QED BY <2>3, <3>1, <3>2, EndingRecord DEF Writing, Hanging
    <2> QED BY <1>2, <2>2, <2>3
  <1> QED BY <1>3, <1>7, <1>8 DEF QuietInv

LEMMA NextKeepsQuiet ==
    ASSUME "store" \notin Env, "crash" \notin Env
    PROVE  IndInv /\ IndInv' /\ WriteInv /\ OneCallInv /\ QuietInv
               /\ [Next]_vars => QuietInv'
  <1> SUFFICES ASSUME IndInv, IndInv', WriteInv, OneCallInv, QuietInv,
                      [Next]_vars
               PROVE  QuietInv'
    OBVIOUS
  <1>0. /\ call \in [Session -> CallStatus] /\ end \in [Job -> EndRecord]
        /\ \A k \in Job : end[k].at # "idle" => end[k].sess \in Session
        /\ \A k \in Job : end[k].at = "idle" => mem[k] = Absent
        /\ Absent.status = "absent" /\ ~Absent.committed
        /\ None \notin Job
    BY HostAssumption
    DEF IndInv, TypeOK, CallsOK, CallStatus, Fresh, Absent, Rec
  <1>1. CASE UNCHANGED <<call, end, mem, recov>>
    BY <1>1 DEF QuietInv, NoRecovery, AgentFree, CommittedOver
  <1>2. ASSUME NEW s \in Session,
               BeginCall(s) \/ CallBegun(s) \/ ComposeFails(s)
        PROVE  QuietInv'
    <2>1. /\ UNCHANGED <<end, mem, recov>>
          /\ call[s] \in {"none", "composing"}
          /\ \A t \in Session \ {s} : call'[t] = call[t]
          /\ call[s] = "composing" \/ ~Busy(AgentOf[s])
      BY <1>0, <1>2 DEF BeginCall, CallBegun, ComposeFails, jobVars, Admits
    <2>2. CommittedOver'
      <3> SUFFICES ASSUME NEW k \in Job, mem[k].committed
                   PROVE  call'[end[k].sess] = "ended"
        BY <2>1 DEF CommittedOver
      <3>1. call[end[k].sess] = "ended" /\ end[k].sess \in Session
        BY <1>0 DEF QuietInv, CommittedOver
      <3> QED BY <2>1, <3>1
    <2>3. AgentFree'
      <3> SUFFICES ASSUME NEW t \in Session, NEW k \in Job,
                          call'[t] \in OnThePhone,
                          mem[k].status \in ActiveStatus,
                          AgentOf[end[k].sess] = AgentOf[t]
                   PROVE  end[k].sess = t
        BY <2>1 DEF AgentFree
      <3>1. call[t] \in OnThePhone
        BY <2>1 DEF OnThePhone, Busy
      <3> QED BY <3>1 DEF QuietInv, AgentFree
    <2> QED BY <2>1, <2>2, <2>3 DEF QuietInv, NoRecovery
  <1>3. ASSUME NEW j \in Job, NEW s \in Session, EndCall(j, s)
        PROVE  QuietInv'
    <2>1. /\ \A k \in Job \ {j} : end'[k] = end[k]
          /\ mem[j] = Absent /\ UNCHANGED <<mem, recov>>
          /\ call[s] \in {"in_call", "ending"} /\ call'[s] \in OnThePhone
          /\ \A t \in Session \ {s} : call'[t] = call[t]
      BY <1>0, <1>3 DEF EndCall, Endable, jobVars, OnThePhone
    <2>2. \A k \in Job : mem[k].status \in ActiveStatus \/ mem[k].committed
              => /\ k # j /\ end'[k] = end[k]
                 /\ end[k].sess \in Session
      BY <1>0, <2>1 DEF ActiveStatus, Running
    <2>3. \A t \in Session : call'[t] \in OnThePhone => call[t] \in OnThePhone
      BY <2>1 DEF OnThePhone
    <2>4. AgentFree'
      BY <2>1, <2>2, <2>3 DEF QuietInv, AgentFree
    <2>5. CommittedOver'
      <3> SUFFICES ASSUME NEW k \in Job, mem[k].committed
                   PROVE  call'[end[k].sess] = "ended"
        BY <2>1, <2>2 DEF CommittedOver
      <3>1. call[end[k].sess] = "ended"
        BY DEF QuietInv, CommittedOver
      <3> QED BY <2>1, <2>2, <3>1
    <2> QED BY <2>1, <2>4, <2>5 DEF QuietInv, NoRecovery
  <1>4. ASSUME NEW j \in Job, Ending(j)
        PROVE  QuietInv'
    BY <1>4, EndingQuietly
  <1>5. ASSUME NEW j \in Job, Background(j) \/ Retry(j) \/ Retrying(j)
        PROVE  QuietInv'
    <2>1. UNCHANGED <<call, end>>
      BY <1>5, JobsKeepCalls DEF SameCalls
    <2>2. UNCHANGED recov
      BY <1>5 DEF Background, Marked, MemoryAnswers, MemoryNoted, StartMedia,
                  SinkAnswers, MediaSaved, MediaNoted, StartVoicemail,
                  VoicemailAnswers, VoicemailNoted, VoicemailSaved, Settled,
                  StoreRejects, SaveRejects, Retry, Retrying, RetryStarts,
                  RetryRejects
    <2>3. JobTurn(j)
      BY <1>5, BackgroundTurns, RetryWrites, RetryingWrites
    <2>4. \A k \in Job \ {j} : mem'[k] = mem[k]
      BY <2>3, OthersRecord
    <2>5. \A k \in Job :
              /\ mem'[k].committed => mem[k].committed
              /\ mem'[k].status \in ActiveStatus
                     => mem[k].status \in ActiveStatus
      BY <1>5, <2>4, RunsQuietly
    <2> QED BY <2>1, <2>2, <2>5
            DEF QuietInv, NoRecovery, AgentFree, CommittedOver
  <1>6. ASSUME NEW j \in Job
        PROVE  ~Recovering(j)
    BY <1>0 DEF QuietInv, NoRecovery, Recovering, RecoverTerminal, RecoverJob,
                JobRecovered, RecoverRejects, Visitable
  <1>7. ~Crash
    BY DEF Crash
  <1>8. CASE CreateMissing \/ EnsureProfile \/ UNCHANGED vars
    BY <1>1, <1>8 DEF CreateMissing, EnsureProfile, vars, callVars, jobVars
  <1> QED BY <1>2, <1>3, <1>4, <1>5, <1>6, <1>7, <1>8 DEF Next

\* While the effects of a call are worked off nobody is on the phone with its
\* agent, however the jobs fail and are retried, as long as no two beginCalls
\* overlap at the prompt, no call is hung up twice, the store takes its
\* writes and the server does not restart.
THEOREM AgentAloneAtWork ==
    ASSUME "overlap" \notin Env, "double_end" \notin Env,
           "store" \notin Env, "crash" \notin Env
    PROVE  Spec => []NoCallDuringEffects
  <1>1. Init => OneCallInv /\ QuietInv
    BY DEF Init, OneCallInv, HungUp, AbortsKnown, LiveIsActive, ComposesAlone,
           HangsUpActive, OneHangUp, Hanging, NoEnd, Live, QuietInv,
           NoRecovery, NotRecovering, AgentFree, CommittedOver, OnThePhone,
           Absent, Rec
  <1>2. IndInv /\ IndInv' /\ WriteInv /\ OneCallInv /\ QuietInv
            /\ [Next]_vars => OneCallInv' /\ QuietInv'
    BY NextKeepsOne, NextKeepsQuiet
  <1>3. IndInv /\ WriteInv /\ QuietInv => NoCallDuringEffects
    <2> SUFFICES ASSUME IndInv, WriteInv, QuietInv,
                        NEW s \in Session, NEW j \in Job, Live(s), Working(j),
                        AgentOf[end[j].sess] = AgentOf[s]
                 PROVE  FALSE
      BY DEF NoCallDuringEffects
    <2>1. mem[j].status \in ActiveStatus /\ mem[j].committed
      BY DEF IndInv, BusyWhileWorking, WriteInv, Sound, RunStatus, Working
    <2>2. call[end[j].sess] = "ended" /\ end[j].sess = s
      BY <2>1 DEF QuietInv, CommittedOver, AgentFree, OnThePhone, Live
    <2> QED BY <2>2 DEF Live
  <1> QED BY <1>1, <1>2, <1>3, WritesTakeTurns, PTL DEF Spec

-----------------------------------------------------------------------------
(* The sink takes the media effects of an exit once.  Between the look at  *)
(* the ledger and the sink's answer other jobs of the call run: what keeps *)
(* a second one from asking the sink too is the profile chain, which the   *)
(* job at the sink holds, and that the key it has computed before is the   *)
(* one the others look for, since the call keeps its exit.                 *)

\* The background job waits for the sink's answer.
AtSink(j) == bg[j].at = "work" /\ bg[j].ph = "media"

\* A call has the exit that any of its endCalls selected.
ExitKept ==
    \A j \in Job : end[j].at # "idle" /\ end[j].exit # None
        => session[end[j].sess].exit = end[j].exit

MediaKey(s, x, y) == <<x, y, "media">> \in session[s].ledger

\* A job at the sink holds the chain, its effect is not in the ledger yet.
SinkAlone ==
    \A j \in Job : AtSink(j) =>
        /\ Holds("bg", j)
        /\ end[j].exit # None => bg[j].exit = end[j].exit
        /\ ~MediaKey(end[j].sess, bg[j].exit, end[j].exit)

PlayedOnce ==
    \A s \in Session, x \in Exit :
        \/ played[<<s, x>>] = 0
        \/ played[<<s, x>>] = 1 /\ MediaKey(s, x, x)

MediaInv == ExitKept /\ SinkAlone /\ PlayedOnce

\* A job that waits for the sink has just asked it, or was left alone.
LEMMA AtSinkFrom ==
    ASSUME IndInv, IndInv', WriteInv, [Next]_vars, ~Crash,
           NEW j \in Job, AtSink(j)'
    PROVE  \/ StartMedia(j)
           \/ AtSink(j) /\ bg'[j] = bg[j] /\ end'[j] = end[j]
  <1>0. JobsOK /\ Sound(j)
    BY DEF IndInv, TypeOK, WriteInv
  <1>1. CASE UNCHANGED <<bg, end>>
    BY <1>1 DEF AtSink
  <1>2. ASSUME NEW k \in Job, JobTurn(k), k # j
        PROVE  bg'[j] = bg[j] /\ end'[j] = end[j]
    BY <1>2 DEF JobTurn, OthersKeep
  <1>3. ASSUME NEW q, StartBackground(j, q)
        PROVE  UNCHANGED bg
    BY <1>0, <1>3, StartShape DEF AtSink
  <1>4. CASE Background(j)
    <2>1. /\ \A q, n : \A r \in JobRecord : ~Enter(j, r, n, q)
          /\ \A q : ~Catch(j, q)
          /\ \A q : \A p \in Step, ok \in BOOLEAN : ~Note(j, p, ok, q)
      <3>1. mem \in [Job -> JobRecord]
        BY <1>0 DEF JobsOK
      <3> QED BY <1>0, <3>1, EnterShape, NoteShape, CatchShape DEF AtSink
    <2>2. /\ mem[j] \in JobRecord /\ bg \in [Job -> BgRecord]
          /\ bg[j].ph \in Step /\ bg[j].ok \in BOOLEAN
      BY <1>0 DEF JobsOK, BgRecord
    <2>3. ~Marked(j)
      <3>1. ~Note(j, "rollup", TRUE, Tail(queue))
        BY <2>1 DEF Step
      <3> QED BY <2>2, <3>1 DEF Marked, AtSink, BgRecord
    <2>4. ~(MemoryAnswers(j) \/ MemoryNoted(j) \/ MediaNoted(j)
            \/ VoicemailAnswers(j) \/ VoicemailSaved(j) \/ StoreRejects(j)
            \/ SaveRejects(j) \/ Settled(j))
      <3>1. /\ bg' # [bg EXCEPT ![j] = Idle]
            /\ bg' # [bg EXCEPT ![j].at = "fail"]
        BY <2>2 DEF Idle, At, AtSink, BgRecord
      <3>2. ~MemoryAnswers(j) /\ ~VoicemailAnswers(j)
        BY <2>1 DEF MemoryAnswers, VoicemailAnswers, Step
      <3>3. ~MemoryNoted(j)
        BY <2>1, <2>2, <3>1 DEF MemoryNoted
      <3>4. ~MediaNoted(j)
        BY <2>1, <2>2, <3>1 DEF MediaNoted
      <3>5. ~VoicemailSaved(j)
        BY <2>1, <2>2, <3>1 DEF VoicemailSaved
      <3>6. ~StoreRejects(j)
        BY <2>1, <2>2, <3>1 DEF StoreRejects
      <3>7. ~SaveRejects(j) /\ ~Settled(j)
        BY <2>1, <3>1 DEF SaveRejects, Settled
      <3> QED BY <3>2, <3>3, <3>4, <3>5, <3>6, <3>7
    <2>5. ~(SinkAnswers(j) \/ MediaSaved(j) \/ StartVoicemail(j)
            \/ VoicemailNoted(j))
      BY <2>2 DEF SinkAnswers, MediaSaved, StartVoicemail, VoicemailNoted,
                  Sleeps, At, AtSink, BgRecord
    <2> QED BY <1>4, <2>3, <2>4, <2>5 DEF Background
  <1>5. ASSUME NEW k \in Job, Background(k), k # j
        PROVE  bg'[j] = bg[j] /\ end'[j] = end[j]
    BY <1>2, <1>5, BackgroundTurns
  <1>6. ASSUME NEW k \in Job, Ending(k)
        PROVE  bg'[j] = bg[j] /\ end'[j] = end[j]
    <2>1. CASE k # j
      BY <1>2, <1>6, <2>1, EndingTurns
    <2>2. CASE k = j
      <3>1. bg[j].at = "idle"
        BY <1>6, <2>2, AtEnd
      <3>2. UNCHANGED bg
        BY <1>3, <1>6, <2>2
        DEF Ending, ExitSelected, HooksDone, NoExit, AbortCall, CallAborted,
            JobBuilt, JobRegistered, RunSyncEffects, SyncSaved, JobCommitted,
            JobKicked, JobFailed, EndStoreRejects, EndSaveRejects, jobVars
      <3> QED BY <3>1, <3>2 DEF AtSink
    <2> QED BY <2>1, <2>2
  <1>7. ASSUME NEW k \in Job, Retry(k) \/ Retrying(k) \/ Recovering(k)
        PROVE  bg'[j] = bg[j] /\ end'[j] = end[j]
    <2>1. CASE k # j
      BY <1>2, <1>7, <2>1, RetryWrites, RetryingWrites, RecoveringWrites
    <2>2. CASE k = j
      BY <1>3, <1>7, <2>2
      DEF Retry, Retrying, RetryStarts, RetryRejects, Recovering,
          RecoverTerminal, RecoverJob, JobRecovered, RecoverRejects, callVars
    <2> QED BY <2>1, <2>2
  <1>8. ASSUME NEW k \in Job, NEW s \in Session, EndCall(k, s)
        PROVE  bg'[j] = bg[j] /\ end'[j] = end[j]
    <2>1. UNCHANGED bg /\ bg[j].at # "idle"
      BY <1>8 DEF EndCall, jobVars, AtSink
    <2>2. k # j
      BY <1>8, <2>1 DEF EndCall, IndInv, Fresh
    <2> QED BY <1>8, <2>1, <2>2 DEF EndCall, IndInv, TypeOK, CallsOK
  <1>9. ASSUME \/ \E s \in Session : \/ BeginCall(s) \/ CallBegun(s)
                                     \/ ComposeFails(s)
               \/ CreateMissing \/ EnsureProfile \/ UNCHANGED vars
        PROVE  UNCHANGED <<bg, end>>
    BY <1>9 DEF BeginCall, CallBegun, ComposeFails, CreateMissing,
                EnsureProfile, vars, callVars, jobVars
  <1> QED BY <1>1, <1>4, <1>5, <1>6, <1>7, <1>8, <1>9 DEF Next, AtSink

\* Whoever joins the chain or leaves it, the job that holds it holds it.
LEMMA ChainKeeps ==
    ASSUME ProfileOK, NEW j \in Job, Holds("bg", j),
           \/ UNCHANGED chain
           \/ \E p \in Process : chain' = Append(chain, p)
           \/ \E k \in Job : \/ Release("end", k)
                             \/ k # j /\ Release("bg", k)
    PROVE  Holds("bg", j)'
  <1>1. /\ chain \in Seq(Process) /\ chain # <<>>
        /\ Head(chain) = [who |-> "bg", job |-> j]
    BY DEF ProfileOK, Holds, Proc
  <1>2. CASE UNCHANGED chain
    BY <1>2 DEF Holds
  <1>3. ASSUME NEW p \in Process, chain' = Append(chain, p)
        PROVE  Holds("bg", j)'
    <2>1. chain' # <<>> /\ Head(chain') = Head(chain)
      BY <1>1, <1>3, AppendProperties, HeadTailProperties
    <2> QED BY <1>1, <2>1 DEF Holds, Proc
  <1>4. ASSUME NEW k \in Job, Release("end", k) \/ (k # j /\ Release("bg", k))
        PROVE  UNCHANGED chain
    BY <1>1, <1>4 DEF Release, Holds, Proc
  <1> QED BY <1>2, <1>3, <1>4

LEMMA SinkHolds ==
    ASSUME IndInv, [Next]_vars, ~Crash, NEW j \in Job, AtSink(j),
           Holds("bg", j)
    PROVE  Holds("bg", j)'
  <1>0. /\ ProfileOK /\ "bg" \in Who /\ "end" \in Who
        /\ \A k \in Job : /\ Proc("bg", k) \in Process
                          /\ Proc("end", k) \in Process
    BY DEF IndInv, TypeOK, Who, Proc, Process
  <1>1. ASSUME NEW k \in Job, Background(k)
        PROVE  \/ UNCHANGED chain
               \/ \E p \in Process : chain' = Append(chain, p)
               \/ k # j /\ Release("bg", k)
    <2>1. CASE Marked(k)
      BY <1>0, <2>1 DEF Marked
    <2>2. CASE MediaNoted(k) \/ VoicemailSaved(k) \/ StoreRejects(k)
               \/ SaveRejects(k)
      BY <2>2 DEF MediaNoted, VoicemailSaved, StoreRejects, SaveRejects,
                  Sleeps, AtSink
    <2>3. CASE ~(Marked(k) \/ MediaNoted(k) \/ VoicemailSaved(k)
                 \/ StoreRejects(k) \/ SaveRejects(k))
      BY <1>1, <2>3 DEF Background, MemoryAnswers, MemoryNoted, StartMedia,
                        SinkAnswers, MediaSaved, StartVoicemail,
                        VoicemailAnswers, VoicemailNoted, Settled, profVars
    <2> QED BY <2>1, <2>2, <2>3
  <1>2. ASSUME NEW k \in Job, Ending(k)
        PROVE  \/ UNCHANGED chain
               \/ \E p \in Process : chain' = Append(chain, p)
               \/ Release("end", k)
    BY <1>0, <1>2 DEF Ending, ExitSelected, HooksDone, NoExit, AbortCall,
                 CallAborted, JobBuilt, JobRegistered, RunSyncEffects,
                 SyncSaved, JobCommitted, JobKicked, JobFailed,
                 EndStoreRejects, EndSaveRejects, profVars
  <1>3. ASSUME \/ \E k \in Job : Retry(k) \/ Retrying(k) \/ Recovering(k)
               \/ \E s \in Session : \/ BeginCall(s) \/ CallBegun(s)
                                     \/ ComposeFails(s)
                                     \/ \E k \in Job : EndCall(k, s)
               \/ CreateMissing \/ EnsureProfile \/ UNCHANGED vars
        PROVE  UNCHANGED chain
    BY <1>3 DEF Retry, Retrying, RetryStarts, RetryRejects, Recovering,
                RecoverTerminal, RecoverJob, JobRecovered, RecoverRejects,
                BeginCall, CallBegun, ComposeFails, EndCall, CreateMissing,
                EnsureProfile, vars, profVars
  <1> QED BY <1>0, <1>1, <1>2, <1>3, ChainKeeps DEF Next

\* Selecting an exit, and executing an effect, seen from the exits.
LEMMA ExitsStay ==
    ASSUME "other_exit" \notin Env, IndInv, ExitKept, [Next]_vars, ~Crash
    PROVE  ExitKept'
  <1>0. /\ end \in [Job -> EndRecord] /\ session \in [Session -> CallSession]
        /\ \A k \in Job : end[k].at # "idle" => end[k].sess \in Session
        /\ None \notin Exit
    BY HostAssumption DEF IndInv, TypeOK, CallsOK, EffectsOK
  <1>1. CASE UNCHANGED end /\ Kept
    BY <1>0, <1>1 DEF ExitKept, Kept
  <1>2. ASSUME NEW j \in Job, Ending(j)
        PROVE  ExitKept'
    <2> DEFINE s == end[j].sess
    <2>0. /\ s \in Session /\ end[j].at # "idle"
          /\ \A k \in Job : end'[k].sess = end[k].sess
          /\ \A k \in Job \ {j} : end'[k] = end[k]
      BY <1>2, EndingEnds
    <2>1. CASE \E y \in Exit : \E at : Select(j, y, at)
      <3>1. PICK y \in Exit : /\ session[s].exit \in {None, y}
                              /\ session' = [session EXCEPT ![s].exit = y]
                              /\ \E at : end' = [end EXCEPT ![j].exit = y,
                                                           ![j].at = at]
        BY <2>1 DEF Select
      <3>2. /\ session'[s].exit = y /\ end'[j].exit = y
            /\ \A t : t # s => session'[t] = session[t]
        BY <1>0, <2>0, <3>1 DEF CallSession, EndRecord
      <3>3. ASSUME NEW k \in Job, k # j, end[k].at # "idle", end[k].exit # None
            PROVE  session'[end[k].sess].exit = end[k].exit
        <4>1. session[end[k].sess].exit = end[k].exit
          BY <3>3 DEF ExitKept
        <4> QED BY <1>0, <3>1, <3>2, <3>3, <4>1
      <3> QED BY <2>0, <3>2, <3>3 DEF ExitKept
    <2>2. CASE ~\E y \in Exit : \E at : Select(j, y, at)
      <3>1. \A k \in Job : end'[k].exit = end[k].exit
        BY <1>2, <2>0, <2>2, EndingEnds
      <3>2. Kept
        <4>1. CASE UNCHANGED session
          BY <4>1 DEF Kept
        <4> QED BY <1>2, <2>2, <4>1, ExecutedKept, EndingSession
      <3>3. \A k \in Job : end'[k].at # "idle" => end[k].at # "idle"
        BY <2>0
      <3> QED BY <1>0, <2>0, <3>1, <3>2, <3>3 DEF ExitKept, Kept
    <2> QED BY <2>1, <2>2
  <1>3. ASSUME NEW j \in Job,
               Background(j) \/ Retry(j) \/ Retrying(j) \/ Recovering(j)
        PROVE  UNCHANGED end /\ Kept
    <2>1. UNCHANGED end
      BY <1>3, JobsKeepCalls DEF SameCalls
    <2>2. UNCHANGED session \/ \E key : Executed(j, key)
      BY <1>3
      DEF Background, Marked, MemoryAnswers, MemoryNoted, StartMedia,
          SinkAnswers, MediaSaved, MediaNoted, StartVoicemail,
          VoicemailAnswers, VoicemailNoted, VoicemailSaved, Settled,
          StoreRejects, SaveRejects, Retry, Retrying, RetryStarts,
          RetryRejects, Recovering, RecoverTerminal, RecoverJob,
          JobRecovered, RecoverRejects, fxVars
    <2>3. CASE UNCHANGED session
      BY <2>1, <2>3 DEF Kept
    <2> QED BY <2>1, <2>2, <2>3, ExecutedKept
  <1>4. ASSUME NEW j \in Job, NEW s \in Session, EndCall(j, s)
        PROVE  ExitKept'
    <2>1. /\ \A k \in Job \ {j} : end'[k] = end[k]
          /\ end'[j].exit = None /\ UNCHANGED session
      BY <1>0, <1>4 DEF EndCall, NoEnd, fxVars
    <2> QED BY <2>1 DEF ExitKept
  <1>5. ASSUME \/ \E s \in Session : \/ BeginCall(s) \/ CallBegun(s)
                                     \/ ComposeFails(s)
               \/ CreateMissing \/ EnsureProfile \/ UNCHANGED vars
        PROVE  UNCHANGED end /\ Kept
    BY <1>5 DEF BeginCall, CallBegun, ComposeFails, CreateMissing,
                EnsureProfile, vars, callVars, fxVars, Kept
  <1> QED BY <1>1, <1>2, <1>3, <1>4, <1>5 DEF Next

\* The sink accepts the effect of job j.
Plays(j) ==
    /\ AtSink(j) /\ bg'[j].at = "saving" /\ played' = Bump(played, j)
    /\ Executed(j, <<bg[j].exit, end[j].exit, "media">>)

\* No media effect is played or entered in a ledger.
SameMedia ==
    /\ UNCHANGED played
    /\ \A s \in Session : \A x, y : MediaKey(s, x, y)' <=> MediaKey(s, x, y)

\* Only the sink's answer enters a media effect in a ledger.
LEMMA LedgerSteps ==
    ASSUME IndInv, [Next]_vars, ~Crash
    PROVE  SameMedia \/ \E j \in Job : Plays(j)
  <1>0. /\ session \in [Session -> CallSession] /\ bg \in [Job -> BgRecord]
        /\ \A j \in Job, ok \in BOOLEAN :
              bg' = [bg EXCEPT ![j] = At("saving", "media", ok)]
                  => bg'[j].at = "saving"
    BY DEF IndInv, TypeOK, JobsOK, EffectsOK, BgRecord, At
  <1>1. CASE UNCHANGED <<session, played>>
    BY <1>1 DEF SameMedia, MediaKey
  <1>2. ASSUME NEW j \in Job, Ending(j)
        PROVE  SameMedia
    <2>1. UNCHANGED played
      BY <1>2 DEF Ending, ExitSelected, HooksDone, NoExit, AbortCall,
                  CallAborted, JobBuilt, JobRegistered, RunSyncEffects,
                  SyncSaved, JobCommitted, JobKicked, JobFailed,
                  EndStoreRejects, EndSaveRejects, fxVars
    <2>2. CASE UNCHANGED session
      BY <2>1, <2>2 DEF SameMedia, MediaKey
    <2>3. CASE \E y \in Exit : \E at : Select(j, y, at)
      <3>1. \A s \in Session : session'[s].ledger = session[s].ledger
        BY <1>0, <2>3 DEF Select, CallSession
      <3> QED BY <2>1, <3>1 DEF SameMedia, MediaKey
    <2>4. CASE Executed(j, Key(j, "sync"))
      <3>1. \A s \in Session :
               \/ session'[s].ledger = session[s].ledger
               \/ session'[s].ledger = session[s].ledger \cup {Key(j, "sync")}
        BY <1>0, <2>4 DEF Executed, CallSession
      <3>2. \A x, y : <<x, y, "media">> # Key(j, "sync")
        BY DEF Key
      <3> QED BY <2>1, <3>1, <3>2 DEF SameMedia, MediaKey
    <2> QED BY <1>2, <2>2, <2>3, <2>4, EndingSession
  <1>3. ASSUME NEW j \in Job, Background(j)
        PROVE  Plays(j) \/ UNCHANGED <<session, played>>
    <2>1. CASE SinkAnswers(j)
      BY <1>0, <2>1 DEF SinkAnswers, Sleeps, Plays, AtSink
    <2>2. CASE ~SinkAnswers(j)
      BY <1>3, <2>2
      DEF Background, Marked, MemoryAnswers, MemoryNoted, StartMedia,
          MediaSaved, MediaNoted, StartVoicemail, VoicemailAnswers,
          VoicemailNoted, VoicemailSaved, Settled, StoreRejects, SaveRejects,
          fxVars
    <2> QED BY <2>1, <2>2
  <1>4. ASSUME \/ \E k \in Job : Retry(k) \/ Retrying(k) \/ Recovering(k)
               \/ \E s \in Session : \/ BeginCall(s) \/ CallBegun(s)
                                     \/ ComposeFails(s)
                                     \/ \E k \in Job : EndCall(k, s)
               \/ CreateMissing \/ EnsureProfile \/ UNCHANGED vars
        PROVE  UNCHANGED <<session, played>>
    BY <1>4 DEF Retry, Retrying, RetryStarts, RetryRejects, Recovering,
                RecoverTerminal, RecoverJob, JobRecovered, RecoverRejects,
                BeginCall, CallBegun, ComposeFails, EndCall, CreateMissing,
                EnsureProfile, vars, fxVars
  <1> QED BY <1>1, <1>2, <1>3, <1>4 DEF Next

LEMMA NextKeepsMedia ==
    ASSUME "other_exit" \notin Env, "crash" \notin Env
    PROVE  IndInv /\ IndInv' /\ WriteInv /\ MediaInv /\ [Next]_vars
               => MediaInv'
  <1> SUFFICES ASSUME IndInv, IndInv', WriteInv, MediaInv, [Next]_vars
               PROVE  MediaInv'
    OBVIOUS
  <1>0. /\ end \in [Job -> EndRecord] /\ session \in [Session -> CallSession]
        /\ bg \in [Job -> BgRecord]
        /\ played \in [Session \X Choice -> 0..2] /\ ~Crash
        /\ \A k \in Job : end[k].at # "idle" => end[k].sess \in Session
        /\ \A k \in Job : AtSink(k) => end[k].at # "idle"
    BY DEF IndInv, TypeOK, CallsOK, JobsOK, EffectsOK, Crash, Fresh, AtSink,
           BgRecord
  <1>1. ExitKept'
    BY <1>0, ExitsStay DEF MediaInv
  <1>2. ASSUME NEW j \in Job, StartMedia(j), AtSink(j)'
        PROVE  /\ SameMedia /\ Holds("bg", j)'
               /\ end'[j] = end[j] /\ end[j].at # "idle"
               /\ bg'[j].exit = session[end[j].sess].exit
               /\ ~MediaKey(end[j].sess, bg'[j].exit, end[j].exit)
    <2>1. ~Skips(j, "media")
      <3>1. bg'[j].at # "saving"
        BY <1>2 DEF AtSink
      <3> QED BY <1>0, <1>2, <3>1 DEF StartMedia, At
    <2>2. bg' = [bg EXCEPT ![j].at = "work",
                           ![j].exit = session[end[j].sess].exit]
      BY <1>2, <2>1 DEF StartMedia
    <2>3. bg'[j].exit = session[end[j].sess].exit
      BY <1>0, <2>2 DEF BgRecord
    <2>4. end[j].at # "idle" /\ end' = end
      BY <1>2 DEF StartMedia, Sleeps, IndInv, Fresh, callVars
    <2>5. SameMedia /\ Holds("bg", j)'
      BY <1>2 DEF StartMedia, SameMedia, MediaKey, Holds, fxVars
    <2> QED BY <2>1, <2>3, <2>4, <2>5 DEF Skips, Key, MediaKey
  <1>3. ASSUME NEW j \in Job, AtSink(j)', ~StartMedia(j)
        PROVE  /\ AtSink(j) /\ bg'[j] = bg[j] /\ end'[j] = end[j]
               /\ Holds("bg", j) /\ Holds("bg", j)'
               /\ end[j].exit # None => bg[j].exit = end[j].exit
               /\ ~MediaKey(end[j].sess, bg[j].exit, end[j].exit)
    <2>1. AtSink(j) /\ bg'[j] = bg[j] /\ end'[j] = end[j]
      BY <1>0, <1>3, AtSinkFrom
    <2>2. /\ Holds("bg", j)
          /\ end[j].exit # None => bg[j].exit = end[j].exit
          /\ ~MediaKey(end[j].sess, bg[j].exit, end[j].exit)
      BY <2>1 DEF MediaInv, SinkAlone
    <2> QED BY <1>0, <2>1, <2>2, SinkHolds
  <1>4. CASE SameMedia
    <2>1. PlayedOnce'
      BY <1>4 DEF SameMedia, MediaInv, PlayedOnce
    <2>2. SinkAlone'
      <3> SUFFICES ASSUME NEW j \in Job, AtSink(j)'
                   PROVE  /\ Holds("bg", j)'
                          /\ end'[j].exit # None => bg'[j].exit = end'[j].exit
                          /\ ~MediaKey(end[j].sess, bg[j].exit, end[j].exit)'
        BY DEF SinkAlone
      <3>1. CASE StartMedia(j)
        <4>1. end[j].exit # None => session[end[j].sess].exit = end[j].exit
          BY <1>2, <3>1 DEF MediaInv, ExitKept
        <4>2. ~MediaKey(end'[j].sess, bg'[j].exit, end'[j].exit)
          BY <1>2, <3>1
        <4> QED BY <1>0, <1>2, <1>4, <3>1, <4>1, <4>2
                DEF SameMedia, MediaKey
      <3>2. CASE ~StartMedia(j)
        BY <1>0, <1>3, <1>4, <3>2 DEF SameMedia, MediaKey
      <3> QED BY <3>1, <3>2
    <2> QED BY <1>1, <2>1, <2>2 DEF MediaInv
  <1>5. ASSUME NEW j \in Job, Plays(j)
        PROVE  MediaInv'
    <2> DEFINE s == end[j].sess
               y == end[j].exit
               key == <<bg[j].exit, y, "media">>
    <2>1. /\ s \in Session /\ Holds("bg", j)
          /\ y # None => bg[j].exit = y
          /\ ~MediaKey(s, bg[j].exit, y)
      BY <1>0, <1>5 DEF Plays, MediaInv, SinkAlone
    <2>2. /\ session'[s].ledger = session[s].ledger \cup {key}
          /\ \A t \in Session \ {s} : session'[t] = session[t]
          /\ played' = Bump(played, j)
      BY <1>0, <1>5, <2>1 DEF Plays, Executed, CallSession
    <2>3. PlayedOnce'
      <3> SUFFICES ASSUME NEW t \in Session, NEW x \in Exit
                   PROVE  \/ played'[<<t, x>>] = 0
                          \/ played'[<<t, x>>] = 1 /\ MediaKey(t, x, x)'
        BY DEF PlayedOnce
      <3>1. \/ played[<<t, x>>] = 0
            \/ played[<<t, x>>] = 1 /\ MediaKey(t, x, x)
        BY DEF MediaInv, PlayedOnce
      <3>2. MediaKey(t, x, x) => MediaKey(t, x, x)'
        BY <2>2 DEF MediaKey
      <3>3. CASE t = s /\ x = y
        <4>1. y # None /\ bg[j].exit = y /\ ~MediaKey(s, y, y)
          BY <2>1, <3>3, HostAssumption
        <4>2. played[<<t, x>>] = 0
          BY <3>1, <3>3, <4>1
        <4>3. played'[<<t, x>>] = 1
          BY <1>0, <2>2, <3>3, <4>2 DEF Bump, Choice
        <4> QED BY <2>2, <3>3, <4>1, <4>3 DEF MediaKey
      <3>4. CASE ~(t = s /\ x = y)
        <4>1. played'[<<t, x>>] = played[<<t, x>>]
          BY <1>0, <2>2, <3>4 DEF Bump, Choice
        <4> QED BY <3>1, <3>2, <4>1
      <3> QED BY <3>3, <3>4
    <2>4. \A k \in Job : ~AtSink(k)'
      <3> SUFFICES ASSUME NEW k \in Job, AtSink(k)' PROVE FALSE
        OBVIOUS
      <3>1. Holds("bg", k)
        BY <1>3 DEF StartMedia
      <3>2. k = j
        BY <2>1, <3>1 DEF Holds, Proc
      <3> QED BY <1>5, <3>2 DEF Plays, AtSink
    <2> QED BY <1>1, <2>3, <2>4 DEF MediaInv, SinkAlone
  <1> QED BY <1>0, <1>4, <1>5, LedgerSteps

\* The media effects of an exit are accepted by the sink at most once in the
\* life of a server process, whatever fails, however often a job is retried
\* or a call hung up, as long as the hang-ups of a call agree on its exit.
THEOREM PlayedAtMostOnce ==
    ASSUME "other_exit" \notin Env, "crash" \notin Env
    PROVE  Spec => []MediaEffectsOnce
  <1>1. Init => MediaInv
    BY DEF Init, MediaInv, ExitKept, SinkAlone, PlayedOnce, AtSink, Idle, At,
           NoEnd, Choice
  <1>2. IndInv /\ IndInv' /\ WriteInv /\ MediaInv /\ [Next]_vars => MediaInv'
    BY NextKeepsMedia
  <1>3. MediaInv => MediaEffectsOnce
    <2> SUFFICES ASSUME MediaInv, NEW s \in Session, NEW x \in Exit
                 PROVE  played[<<s, x>>] <= 1
      BY DEF MediaEffectsOnce
    <2>1. played[<<s, x>>] = 0 \/ played[<<s, x>>] = 1
      BY DEF MediaInv, PlayedOnce
    <2> QED BY <2>1
  <1> QED BY <1>1, <1>2, <1>3, WritesTakeTurns, PTL DEF Spec

-----------------------------------------------------------------------------
(* The persisted ledger claims what is in the persisted profile, and no    *)
(* more.  A write of a job takes the ledger of its call along, which must  *)
(* not hold an effect whose profile save is still to come: the invariant   *)
(* says which save has what the ledgers are ahead of the file by, and the  *)
(* turns of the writers that no write of the job is under way by then.     *)

SavePlace == 1..Len(saves)

\* `who' sleeps on a profile save for j.
Waits(who, j) ==
    \/ who = "end" /\ end[j].at \in {"saving", "abort_save"}
    \/ who = "bg" /\ bg[j].at = "saving"

SavesAwaited ==
    /\ \A i \in SavePlace : /\ Waits(saves[i].who, saves[i].job)
                            /\ saves[i].content \subseteq profile
    /\ \A i, k \in SavePlace :
           saves[i].who = saves[k].who /\ saves[i].job = saves[k].job => i = k

\* The call of the job whose save is at i.
SaveOf(i) == end[saves[i].job].sess

\* The effect that a ledger entry of s is about.
About(s, key) == <<s, key[2], key[3]>>

\* The save at i follows effects that were executed.
EffectSave(i) == saves[i].who = "end" \/ bg[saves[i].job].ph = "media"

\* A save leaves nothing of the call's ledger behind.
SavesCover ==
    \A i \in SavePlace : \A key \in session[SaveOf(i)].ledger :
        About(SaveOf(i), key) \in saved \cup saves[i].content

\* An executed effect is in the file or its save is on its way.
LedgerSaved ==
    \A s \in Session : \A key \in session[s].ledger :
        \/ About(s, key) \in saved
        \/ \E i \in SavePlace : EffectSave(i) /\ SaveOf(i) = s

\* The effect that the sink is asked for is in the profile already.
SinkInProfile ==
    \A j \in Job : AtSink(j) => EffectOf(j, "media") \in profile

\* The profile in the cache has what the file has.  Before it is loaded
\* nobody is at work on it.
ProfileAhead ==
    IF loaded THEN saved \subseteq profile
    ELSE /\ saves = <<>>
         /\ \A j \in Job : /\ bg[j].at \in {"idle", "catch"}
                           /\ end[j].at \in Over \cup {"idle"}
         /\ \A s \in Session : call[s] \notin OnThePhone

LedgerInv == /\ HungUp /\ AbortsKnown /\ OneHangUp
             /\ SavesAwaited /\ SavesCover /\ LedgerSaved
             /\ SinkInProfile /\ ProfileAhead /\ LedgerBehindProfile

\* Whoever sleeps on a save still does, `who' for j aside.
WaitsKept(who, j) ==
    \A w : \A k \in Job : Waits(w, k) /\ ~(w = who /\ k = j) =>
        /\ Waits(w, k)' /\ bg'[k].ph = bg[k].ph /\ end'[k].sess = end[k].sess

\* In one step the ledger of s takes in the entries L, the others nothing.
LedgersTake(s, L) ==
    \A t \in Session : session'[t].ledger =
        IF t = s THEN session[t].ledger \cup L ELSE session[t].ledger

\* Every step does one of these to the saves.
Rests == /\ UNCHANGED <<saves, saved>> /\ WaitsKept("none", None)
         /\ LedgersTake(None, {})

Takes(who, j) ==
    /\ Saved(who, j) /\ UNCHANGED profile
    /\ WaitsKept(who, j) /\ LedgersTake(None, {})

Issues(who, j) ==
    /\ ~Waits(who, j) /\ Waits(who, j)' /\ UNCHANGED saved
    /\ saves' = Append(saves, [who |-> who, job |-> j, content |-> profile'])
    /\ WaitsKept("none", None) /\ end'[j].sess = end[j].sess
    /\ \E L : /\ LedgersTake(end[j].sess, L)
              /\ \A key \in L : /\ About(end[j].sess, key) \in profile'
                                /\ who = "end" \/ bg'[j].ph = "media"

\* Those who sleep on a save are left alone by the turns of other jobs.
LEMMA TurnWaits ==
    ASSUME NEW j \in Job, JobTurn(j), NEW who, NEW k,
           \A w : Waits(w, j) => \/ w = who /\ j = k
                                 \/ /\ Waits(w, j)' /\ bg'[j].ph = bg[j].ph
                                    /\ end'[j].sess = end[j].sess
    PROVE  WaitsKept(who, k)
  <1>1. \A l \in Job \ {j} : bg'[l] = bg[l] /\ end'[l] = end[l]
    BY DEF JobTurn, OthersKeep
  <1> QED BY <1>1 DEF WaitsKept, Waits

LEMMA LedgersRest ==
    ASSUME IndInv,
           \/ UNCHANGED session
           \/ \E j \in Job : \E x \in Exit : \E at : Select(j, x, at)
    PROVE  \A s : LedgersTake(s, {})
  <1>1. session \in [Session -> CallSession]
    BY DEF IndInv, TypeOK, EffectsOK
  <1>2. \A s \in Session : session'[s].ledger = session[s].ledger
    <2>1. ASSUME NEW j \in Job, NEW x \in Exit, NEW at, Select(j, x, at)
          PROVE  \A s \in Session : session'[s].ledger = session[s].ledger
      <3>1. session' = [session EXCEPT ![end[j].sess].exit = x]
        BY <2>1 DEF Select
      <3> QED BY <1>1, <3>1 DEF CallSession
    <2> QED BY <2>1
  <1> QED BY <1>2 DEF LedgersTake

LEMMA LedgerTakes ==
    ASSUME IndInv, NEW j \in Job, NEW key, Executed(j, key)
    PROVE  LedgersTake(end[j].sess, {key})
  <1>1. session \in [Session -> CallSession]
    BY DEF IndInv, TypeOK, EffectsOK
  <1> QED BY <1>1 DEF Executed, LedgersTake, CallSession

LEMMA EndingSaves ==
    ASSUME IndInv, IndInv', WriteInv, "save" \notin Env,
           NEW j \in Job, Ending(j)
    PROVE  Rests \/ Takes("end", j) \/ Issues("end", j)
  <1>0. /\ JobTurn(j) /\ bg[j].at = "idle" /\ end[j].at \in EndAt
        /\ \A at : Moved(j, at) => end'[j].at = at
        /\ end'[j].sess = end[j].sess /\ end \in [Job -> EndRecord]
    BY EndingTurns, AtEnd, EndingEnds DEF CallsOK, EndRecord
  <1>1. \A w : Waits(w, j) => w = "end" /\ end[j].at \in {"saving", "abort_save"}
    BY <1>0 DEF Waits
  <1>2. WaitsKept("end", j)
    BY <1>0, <1>1, TurnWaits
  <1>3. end[j].at \notin {"saving", "abort_save"} => WaitsKept("none", None)
    BY <1>0, <1>1, TurnWaits
  <1>4. CASE SyncSaved(j) \/ CallAborted(j)
    <2>1. Saved("end", j) /\ UNCHANGED <<profile, session>>
      BY <1>4 DEF SyncSaved, CallAborted, fxVars
    <2> QED BY <1>2, <2>1, LedgersRest DEF Takes
  <1>5. CASE AbortCall(j)
    <2>1. /\ UNCHANGED <<saved, session, profile>>
          /\ IssueSave("end", j, profile)
      BY <1>5 DEF AbortCall, fxVars
    <2>2. ~Waits("end", j) /\ Waits("end", j)'
      BY <1>0, <1>5 DEF AbortCall, Waits
    <2>3. LedgersTake(end[j].sess, {})
      BY <2>1, LedgersRest
    <2>4. WaitsKept("none", None)
      BY <1>3, <1>5 DEF AbortCall
    <2> QED BY <1>0, <2>1, <2>2, <2>3, <2>4 DEF Issues, IssueSave
  <1>6. CASE RunSyncEffects(j)
    <2>1. /\ \E plan : end' = [end EXCEPT ![j].at = "saving", ![j].plan = plan]
          /\ UNCHANGED saved /\ IssueSave("end", j, profile')
          /\ \/ /\ profile' = profile \cup {EffectOf(j, "sync")}
                /\ Executed(j, Key(j, "sync"))
             \/ UNCHANGED <<profile, session>>
          /\ end[j].at = "queued"
      BY <1>6 DEF RunSyncEffects
    <2>2. ~Waits("end", j) /\ Waits("end", j)'
      BY <1>0, <2>1 DEF Waits, EndRecord
    <2>3. WaitsKept("none", None)
      BY <1>3, <2>1
    <2>4. CASE /\ profile' = profile \cup {EffectOf(j, "sync")}
               /\ Executed(j, Key(j, "sync"))
      <3>1. LedgersTake(end[j].sess, {Key(j, "sync")})
        BY <2>4, LedgerTakes
      <3>2. About(end[j].sess, Key(j, "sync")) \in profile'
        BY <2>4 DEF About, Key, EffectOf
      <3> QED BY <1>0, <2>1, <2>2, <2>3, <3>1, <3>2 DEF Issues, IssueSave
    <2>5. CASE UNCHANGED <<profile, session>>
      <3>1. LedgersTake(end[j].sess, {})
        BY <2>5, LedgersRest
      <3> QED BY <1>0, <2>1, <2>2, <2>3, <3>1 DEF Issues, IssueSave
    <2> QED BY <2>1, <2>4, <2>5
  <1>7. CASE ExitSelected(j) \/ HooksDone(j) \/ NoExit(j) \/ JobBuilt(j)
             \/ JobRegistered(j) \/ JobCommitted(j) \/ JobKicked(j)
             \/ JobFailed(j) \/ EndStoreRejects(j)
    <2>1. UNCHANGED <<saves, saved>>
          /\ end[j].at \notin {"saving", "abort_save"}
      BY <1>7 DEF ExitSelected, HooksDone, NoExit, JobBuilt, JobRegistered,
                  JobCommitted, JobKicked, JobFailed, EndStoreRejects,
                  profVars
    <2>2. UNCHANGED session \/ \E x \in Exit : \E at : Select(j, x, at)
      BY <1>7 DEF ExitSelected, HooksDone, NoExit, JobBuilt, JobRegistered,
                  JobCommitted, JobKicked, JobFailed, EndStoreRejects, fxVars
    <2>3. LedgersTake(None, {})
      BY <2>2, LedgersRest
    <2> QED BY <1>3, <2>1, <2>3 DEF Rests
  <1>8. ~EndSaveRejects(j)
    BY DEF EndSaveRejects, SaveBroken
  <1> QED BY <1>4, <1>5, <1>6, <1>7, <1>8 DEF Ending

LEMMA BackgroundSaves ==
    ASSUME IndInv, IndInv', WriteInv, SinkInProfile, "save" \notin Env,
           NEW j \in Job, Background(j)
    PROVE  Rests \/ Takes("bg", j) \/ Issues("bg", j)
  <1>0. /\ JobTurn(j) /\ UNCHANGED end /\ bg \in [Job -> BgRecord]
        /\ bg[j] \in BgRecord
    BY BackgroundTurns, JobsKeepCalls
    DEF SameCalls, IndInv, TypeOK, JobsOK, BgRecord
  <1>1. \A w : Waits(w, j) => w = "bg" /\ bg[j].at = "saving"
    <2>1. bg[j].at # "idle"
      BY DEF Background, Marked, MemoryAnswers, MemoryNoted, StartMedia,
             SinkAnswers, MediaSaved, MediaNoted, StartVoicemail,
             VoicemailAnswers, VoicemailNoted, VoicemailSaved, Settled,
             StoreRejects, SaveRejects, Sleeps
    <2> QED BY <2>1 DEF Waits, WriteInv, Sound, TakeTurns, Over
  <1>2. WaitsKept("bg", j)
    BY <1>0, <1>1, TurnWaits
  <1>3. bg[j].at # "saving" => WaitsKept("none", None)
    BY <1>0, <1>1, TurnWaits
  <1>4. CASE MediaSaved(j) \/ VoicemailSaved(j)
    <2>1. Saved("bg", j) /\ UNCHANGED <<profile, session>>
      BY <1>4 DEF MediaSaved, VoicemailSaved, fxVars
    <2> QED BY <1>2, <2>1, LedgersRest DEF Takes
  <1>5. CASE (StartMedia(j) /\ Skips(j, "media")) \/ VoicemailNoted(j)
    <2>1. /\ UNCHANGED <<saved, session, profile>>
          /\ IssueSave("bg", j, profile) /\ bg[j].at # "saving"
      BY <1>5 DEF StartMedia, VoicemailNoted, Sleeps, fxVars
    <2>2. bg'[j].at = "saving"
      BY <1>0, <1>5 DEF StartMedia, VoicemailNoted, At, BgRecord
    <2>3. LedgersTake(end[j].sess, {})
      BY <2>1, LedgersRest
    <2> QED BY <1>0, <1>3, <2>1, <2>2, <2>3 DEF Issues, IssueSave, Waits
  <1>6. CASE SinkAnswers(j)
    <2>1. /\ AtSink(j) /\ UNCHANGED <<saved, profile>>
          /\ IssueSave("bg", j, profile)
          /\ \/ UNCHANGED session
             \/ Executed(j, <<bg[j].exit, end[j].exit, "media">>)
          /\ \E ok : bg' = [bg EXCEPT ![j] = At("saving", "media", ok)]
      BY <1>6 DEF SinkAnswers, Sleeps, AtSink
    <2>2. bg'[j].at = "saving" /\ bg'[j].ph = "media" /\ bg[j].at # "saving"
      BY <1>0, <2>1 DEF At, AtSink
    <2>3. CASE UNCHANGED session
      <3>1. LedgersTake(end[j].sess, {})
        BY <2>3, LedgersRest
      <3> QED BY <1>0, <1>3, <2>1, <2>2, <3>1 DEF Issues, IssueSave, Waits
    <2>4. CASE Executed(j, <<bg[j].exit, end[j].exit, "media">>)
      <3> DEFINE key == <<bg[j].exit, end[j].exit, "media">>
      <3>1. LedgersTake(end[j].sess, {key})
        BY <2>4, LedgerTakes
      <3>2. About(end[j].sess, key) \in profile'
        BY <2>1 DEF About, EffectOf, SinkInProfile
      <3> HIDE DEF key
      <3> QED BY <1>0, <1>3, <2>1, <2>2, <3>1, <3>2
              DEF Issues, IssueSave, Waits
    <2> QED BY <2>1, <2>3, <2>4
  <1>7. CASE \/ Marked(j) \/ MemoryAnswers(j) \/ MemoryNoted(j)
             \/ (StartMedia(j) /\ ~Skips(j, "media")) \/ MediaNoted(j)
             \/ StartVoicemail(j) \/ VoicemailAnswers(j) \/ Settled(j)
             \/ StoreRejects(j)
    <2>1. UNCHANGED <<saves, saved, session>> /\ bg[j].at # "saving"
      BY <1>7 DEF Marked, MemoryAnswers, MemoryNoted, StartMedia,
                  MediaNoted, StartVoicemail, VoicemailAnswers, Settled,
                  StoreRejects, Sleeps, profVars, fxVars
    <2> QED BY <1>3, <2>1, LedgersRest DEF Rests
  <1>8. ~SaveRejects(j)
    BY DEF SaveRejects, SaveBroken
  <1> QED BY <1>4, <1>5, <1>6, <1>7, <1>8 DEF Background

\* Nobody else touches a save, or a job that sleeps on one.
LEMMA SaveSteps ==
    ASSUME IndInv, IndInv', WriteInv, SinkInProfile, "save" \notin Env,
           [Next]_vars, ~Crash
    PROVE  \/ Rests
           \/ \E j \in Job, who \in {"end", "bg"} :
                  Takes(who, j) \/ Issues(who, j)
  <1>1. CASE UNCHANGED <<saves, saved, session, bg, end>>
    BY <1>1, LedgersRest DEF Rests, WaitsKept, Waits
  <1>2. ASSUME NEW j \in Job, Retry(j) \/ Retrying(j) \/ Recovering(j)
        PROVE  Rests
    <2>1. UNCHANGED <<saves, saved, session, end>>
      BY <1>2 DEF Retry, Retrying, RetryStarts, RetryRejects, Recovering,
                  RecoverTerminal, RecoverJob, JobRecovered, RecoverRejects,
                  profVars, fxVars, callVars
    <2>2. JobTurn(j)
      BY <1>2, RetryWrites, RetryingWrites, RecoveringWrites
    <2>3. bg[j].at = "idle" \/ UNCHANGED bg
      BY <1>2 DEF Retry, Retrying, RetryStarts, RetryRejects, Recovering,
                  RecoverTerminal, RecoverJob, JobRecovered, RecoverRejects,
                  StartBackground
    <2>4. \A w : Waits(w, j) => /\ Waits(w, j)' /\ bg'[j].ph = bg[j].ph
                                /\ end'[j].sess = end[j].sess
      <3>1. CASE bg[j].at = "idle"
        <4>1. ASSUME end[j].at \in {"saving", "abort_save"} PROVE UNCHANGED bg
          <5>1. end[j].at \notin Over /\ recov.job # j /\ j \notin recov.todo
            BY <4>1 DEF WriteInv, Sound, TakeTurns, IndInv, ToVisit, Over
          <5>2. ~mem[j].committed
            BY <4>1 DEF WriteInv, Sound, EndStatus, Absent, Rec
          <5> QED BY <1>2, <5>1, <5>2
                  DEF Retry, Retryable, Retrying, RetryStarts, RetryRejects,
                      Recovering, RecoverTerminal, RecoverJob, JobRecovered,
                      Visitable, RecoverRejects, StartBackground
        <4> QED BY <2>1, <3>1, <4>1 DEF Waits
      <3> QED BY <2>1, <2>3, <3>1 DEF Waits
    <2>5. WaitsKept("none", None)
      BY <2>2, <2>4, TurnWaits
    <2> QED BY <2>1, <2>5, LedgersRest DEF Rests
  <1>3. ASSUME NEW j \in Job, NEW s \in Session, EndCall(j, s)
        PROVE  Rests
    <2>1. /\ UNCHANGED <<saves, saved, session, bg>> /\ end[j].at = "idle"
          /\ \A k \in Job \ {j} : end'[k] = end[k]
      BY <1>3 DEF EndCall, profVars, fxVars, jobVars, IndInv, TypeOK, CallsOK
    <2>2. bg[j].at = "idle"
      BY <2>1 DEF IndInv, Fresh
    <2> QED BY <2>1, <2>2, LedgersRest DEF Rests, WaitsKept, Waits
  <1>4. ASSUME \/ \E s \in Session : \/ BeginCall(s) \/ CallBegun(s)
                                     \/ ComposeFails(s)
               \/ CreateMissing \/ EnsureProfile \/ UNCHANGED vars
        PROVE  UNCHANGED <<saves, saved, session, bg, end>>
    BY <1>4 DEF BeginCall, CallBegun, ComposeFails, CreateMissing,
                EnsureProfile, vars, callVars, jobVars, profVars, fxVars
  <1> QED BY <1>1, <1>2, <1>3, <1>4, EndingSaves, BackgroundSaves DEF Next

\* Before the profile is loaded nothing starts that would save it.
LEMMA UnloadedRests ==
    ASSUME IndInv, ProfileAhead, ~loaded, [Next]_vars, ~Crash
    PROVE  \/ EnsureProfile
           \/ /\ ~loaded'
              /\ \A j \in Job : /\ bg'[j].at \in {"idle", "catch"}
                                /\ end'[j].at \in Over \cup {"idle"}
              /\ \A s \in Session : call'[s] \notin OnThePhone
  <1>0. /\ bg \in [Job -> BgRecord]
        /\ \A j \in Job : /\ bg[j].at \in {"idle", "catch"}
                          /\ end[j].at \in Over \cup {"idle"}
        /\ \A s \in Session : call[s] \notin OnThePhone
    BY DEF IndInv, TypeOK, JobsOK, BgRecord, ProfileAhead
  <1>1. CASE UNCHANGED <<loaded, bg, end, call>>
    BY <1>0, <1>1
  <1>2. ASSUME NEW j \in Job, NEW q, StartBackground(j, q)
        PROVE  \A k \in Job : bg'[k].at \in {"idle", "catch"}
    BY <1>0, <1>2 DEF StartBackground, At
  <1>3. ASSUME NEW j \in Job, Retry(j) \/ Retrying(j) \/ Recovering(j)
        PROVE  /\ UNCHANGED <<loaded, end, call>>
               /\ \A k \in Job : bg'[k].at \in {"idle", "catch"}
    BY <1>0, <1>2, <1>3
    DEF Retry, Retrying, RetryStarts, RetryRejects, Recovering,
        RecoverTerminal, RecoverJob, JobRecovered, RecoverRejects, profVars,
        callVars
  <1>4. ASSUME NEW j \in Job, Background(j)
        PROVE  /\ UNCHANGED <<loaded, end, call>>
               /\ \A k \in Job : bg'[k].at \in {"idle", "catch"}
    <2>1. bg[j].at \in {"idle", "catch"}
      BY <1>0
    <2>2. Settled(j) \/ StoreRejects(j)
      BY <1>4, <2>1
      DEF Background, Marked, MemoryAnswers, MemoryNoted, StartMedia,
          SinkAnswers, MediaSaved, MediaNoted, StartVoicemail,
          VoicemailAnswers, VoicemailNoted, VoicemailSaved, SaveRejects,
          Sleeps
    <2>3. bg' = [bg EXCEPT ![j] = Idle] /\ UNCHANGED <<loaded, callVars>>
      BY <2>1, <2>2 DEF Settled, StoreRejects, Guarded, profVars
    <2> QED BY <1>0, <2>3 DEF Idle, At, callVars
  <1>5. ASSUME NEW j \in Job PROVE ~Ending(j)
    BY <1>0, EndingEnds
  <1>6. ASSUME NEW s \in Session
        PROVE  /\ ~BeginCall(s) /\ ~CallBegun(s) /\ ~ComposeFails(s)
               /\ \A j \in Job : ~EndCall(j, s)
    BY <1>0 DEF BeginCall, Admits, CallBegun, ComposeFails, EndCall, Endable,
                OnThePhone
  <1>7. ASSUME CreateMissing \/ UNCHANGED vars
        PROVE  UNCHANGED <<loaded, bg, end, call>>
    BY <1>7 DEF CreateMissing, vars, callVars, jobVars, profVars
  <1> QED BY <1>0, <1>1, <1>3, <1>4, <1>5, <1>6, <1>7 DEF Next

\* A loaded profile only grows.
LEMMA ProfileGrows ==
    ASSUME loaded, [Next]_vars, ~Crash
    PROVE  loaded' /\ profile \subseteq profile'
  BY DEF Next, BeginCall, CallBegun, ComposeFails, EndCall, Ending,
         ExitSelected, HooksDone, NoExit, AbortCall, CallAborted, JobBuilt,
         JobRegistered, RunSyncEffects, SyncSaved, JobCommitted, JobKicked,
         JobFailed, EndStoreRejects, EndSaveRejects, Background, Marked,
         MemoryAnswers, MemoryNoted, StartMedia, SinkAnswers, MediaSaved,
         MediaNoted, StartVoicemail, VoicemailAnswers, VoicemailNoted,
         VoicemailSaved, Settled, StoreRejects, SaveRejects, Retry, Retrying,
         RetryStarts, RetryRejects, Recovering, RecoverTerminal, RecoverJob,
         JobRecovered, RecoverRejects, CreateMissing, EnsureProfile, vars,
         profVars

\* While a save is due that follows effects, no write of the job is.
LEMMA SavingWritesNot ==
    ASSUME IndInv, WriteInv, NEW j \in Job,
           \/ end[j].at \in {"saving", "abort_save"}
           \/ bg[j].at = "saving" /\ bg[j].ph = "media"
    PROVE  NoWrite(j)
  <1>1. Sound(j) /\ Queued(j) /\ StoreOK
    BY DEF WriteInv, IndInv, TypeOK
  <1>2. \A who \in Who : Awaits(who, j) => who = "retry" /\ Calm(j)
    BY <1>1 DEF Sound, TakeTurns, Awaits, Over, Who, Calm, Failing
  <1>3. \A i \in Place : queue[i].job = j =>
            queue[i].who \in Who /\ Awaits(queue[i].who, j)
    <2> SUFFICES ASSUME NEW i \in Place, queue[i].job = j
                 PROVE  queue[i].who \in Who /\ Awaits(queue[i].who, j)
      OBVIOUS
    <2>1. queue[i] \in StoreWrite
      BY <1>1, ElementOfSeq DEF StoreOK, Place
    <2> QED BY <1>1, <2>1 DEF Queued, Awaited, StoreWrite
  <1> QED BY <1>1, <1>2, <1>3 DEF NoWrite, Queued, RetryLast

\* The store takes the ledger of a call along with a write of its job.
LEMMA SnapshotSteps ==
    ASSUME IndInv, [Next]_vars, ~Crash, NEW s \in Session
    PROVE  \/ snapshot'[s] = snapshot[s]
           \/ /\ snapshot'[s] = session[s]
              /\ \E j \in Job : ~NoWrite(j) /\ end[j].sess = s
  <1>0. StoreOK /\ \A j \in Job : end[j].at # "idle" => end[j].sess \in Session
    BY DEF IndInv, TypeOK, CallsOK
  <1>1. CASE UNCHANGED snapshot
    BY <1>1
  <1>2. ASSUME NEW j \in Job, NEW who, Landed(who, j)
        PROVE  \/ snapshot'[s] = snapshot[s]
               \/ snapshot'[s] = session[s] /\ ~NoWrite(j) /\ end[j].sess = s
    <2>1. ~NoWrite(j)
      <3>1. queue \in Seq(StoreWrite) /\ queue # <<>> /\ Head(queue).job = j
        BY <1>0, <1>2 DEF StoreOK, Landed, NextWrite
      <3>2. 1 \in Place /\ queue[1] = Head(queue)
        BY <3>1, HeadTailProperties, EmptySeq, LenProperties DEF Place
      <3> QED BY <3>1, <3>2 DEF NoWrite
    <2>2. \/ UNCHANGED snapshot
          \/ snapshot' = [snapshot EXCEPT ![end[j].sess] =
                              session[end[j].sess]]
      BY <1>2 DEF Landed
    <2> QED BY <1>0, <2>1, <2>2 DEF StoreOK
  <1>3. ASSUME NEW j \in Job,
               \/ Ending(j) \/ Background(j)
               \/ Retry(j) \/ Retrying(j) \/ Recovering(j)
        PROVE  UNCHANGED snapshot \/ \E who : Landed(who, j)
    <2>1. CASE Ending(j)
      BY <2>1 DEF Ending, ExitSelected, HooksDone, NoExit, AbortCall,
           CallAborted, JobBuilt, JobRegistered, RunSyncEffects, SyncSaved,
           JobCommitted, JobKicked, JobFailed, EndStoreRejects,
           EndSaveRejects, Broken, storeVars
    <2>2. CASE Background(j)
      BY <2>2 DEF Background, Marked, MemoryAnswers, MemoryNoted, StartMedia,
           SinkAnswers, MediaSaved, MediaNoted, StartVoicemail,
           VoicemailAnswers, VoicemailNoted, VoicemailSaved, Settled,
           StoreRejects, SaveRejects, Broken, storeVars
    <2>3. CASE Retry(j) \/ Retrying(j) \/ Recovering(j)
      BY <2>3 DEF Retry, Retrying, RetryStarts, RetryRejects, Recovering,
           RecoverTerminal, RecoverJob, JobRecovered, RecoverRejects, Broken,
           storeVars
    <2> QED BY <1>3, <2>1, <2>2, <2>3
  <1>4. ASSUME \/ \E t \in Session : \/ BeginCall(t) \/ CallBegun(t)
                                     \/ ComposeFails(t)
                                     \/ \E j \in Job : EndCall(j, t)
               \/ CreateMissing \/ EnsureProfile \/ UNCHANGED vars
        PROVE  UNCHANGED snapshot
    BY <1>4 DEF BeginCall, CallBegun, ComposeFails, EndCall, CreateMissing,
                EnsureProfile, vars, storeVars
  <1> QED BY <1>1, <1>2, <1>3, <1>4 DEF Next

\* Without a second hang-up every job has its call for itself.
LEMMA NextKeepsOneHangUp ==
    ASSUME "double_end" \notin Env, IndInv, HungUp, OneHangUp, [Next]_vars
    PROVE  OneHangUp'
  <1>1. ASSUME NEW j \in Job, NEW s \in Session, EndCall(j, s)
        PROVE  OneHangUp'
    <2>1. /\ \A k \in Job \ {j} : end'[k] = end[k]
          /\ end'[j].sess = s /\ call[s] = "in_call"
      BY <1>1 DEF EndCall, NoEnd, IndInv, TypeOK, CallsOK
    <2>2. \A k \in Job : end[k].at # "idle" => end[k].sess # s
      BY <2>1 DEF HungUp, HungUpStatus
    <2> QED BY <2>1, <2>2 DEF OneHangUp
  <1>2. ASSUME NEW j \in Job, Ending(j)
        PROVE  OneHangUp'
    <2>1. /\ \A k \in Job : end'[k].sess = end[k].sess
          /\ \A k \in Job \ {j} : end'[k] = end[k]
          /\ end[j].at # "idle"
      BY <1>2, EndingEnds
    <2> QED BY <2>1 DEF OneHangUp
  <1>3. CASE Crash
    BY <1>3, CrashCalls DEF OneHangUp
  <1>4. CASE UNCHANGED end
    BY <1>4 DEF OneHangUp
  <1>5. ASSUME NEW s \in Session,
               BeginCall(s) \/ CallBegun(s) \/ ComposeFails(s)
        PROVE  UNCHANGED end
    BY <1>5 DEF BeginCall, CallBegun, ComposeFails
  <1> QED BY <1>1, <1>2, <1>3, <1>4, <1>5, JobsKeepCalls DEF Next, SameCalls

\* Where the saves are after one is taken from the head, or one is issued.
LEMMA SavePlaces ==
    ASSUME ProfileOK
    PROVE  /\ \A i \in SavePlace : i \in Nat /\ i >= 1
           /\ \A i \in SavePlace : saves[i] \in ProfileSave
           /\ saves # <<>> => 1 \in SavePlace /\ saves[1] = Head(saves)
           /\ saves # <<>> /\ saves' = Tail(saves) =>
                 /\ \A i \in SavePlace' : /\ i + 1 \in SavePlace
                                          /\ saves'[i] = saves[i + 1]
                 /\ \A i \in SavePlace : i # 1 =>
                        i - 1 \in SavePlace' /\ saves'[i - 1] = saves[i]
           /\ \A e : saves' = Append(saves, e) =>
                 /\ \A i \in SavePlace' :
                        \/ i \in SavePlace /\ saves'[i] = saves[i]
                        \/ i = Len(saves') /\ saves'[i] = e
                 /\ \A i \in SavePlace : /\ i \in SavePlace'
                                         /\ saves'[i] = saves[i]
                 /\ Len(saves') \in SavePlace' /\ saves'[Len(saves')] = e
  <1>1. saves \in Seq(ProfileSave) /\ Len(saves) \in Nat
    BY LenProperties DEF ProfileOK
  <1>2. /\ \A i \in SavePlace : i \in Nat /\ i >= 1
        /\ \A i \in SavePlace : saves[i] \in ProfileSave
    BY <1>1, ElementOfSeq DEF SavePlace
  <1>3. saves # <<>> => 1 \in SavePlace /\ saves[1] = Head(saves)
    BY <1>1, HeadTailProperties, EmptySeq DEF SavePlace
  <1>4. ASSUME saves # <<>>, saves' = Tail(saves)
        PROVE  /\ \A i \in SavePlace' : /\ i + 1 \in SavePlace
                                        /\ saves'[i] = saves[i + 1]
               /\ \A i \in SavePlace : i # 1 =>
                      i - 1 \in SavePlace' /\ saves'[i - 1] = saves[i]
    BY <1>1, <1>4, HeadTailProperties DEF SavePlace
  <1>5. ASSUME NEW e, saves' = Append(saves, e)
        PROVE  /\ \A i \in SavePlace' :
                      \/ i \in SavePlace /\ saves'[i] = saves[i]
                      \/ i = Len(saves') /\ saves'[i] = e
               /\ \A i \in SavePlace : /\ i \in SavePlace'
                                       /\ saves'[i] = saves[i]
               /\ Len(saves') \in SavePlace' /\ saves'[Len(saves')] = e
    BY <1>1, <1>5 DEF SavePlace
  <1> QED BY <1>2, <1>3, <1>4, <1>5

\* The saves on their way, after a step that takes none and issues none.
LEMMA RestingSaves ==
    ASSUME IndInv, LedgerInv, Rests, profile \subseteq profile'
    PROVE  SavesAwaited' /\ SavesCover' /\ LedgerSaved'
  <1>0. /\ SavePlace' = SavePlace /\ saves' = saves /\ saved' = saved
        /\ \A i \in SavePlace : saves[i] \in ProfileSave
    BY SavePlaces DEF Rests, SavePlace, IndInv, TypeOK
  <1>1. \A i \in SavePlace : saves[i].job \in Job /\ saves[i].who # "none"
    BY <1>0 DEF ProfileSave, Who
  <1>2. \A i \in SavePlace :
           /\ Waits(saves[i].who, saves[i].job)'
           /\ Waits(saves[i].who, saves[i].job)
           /\ saves[i].content \subseteq profile
           /\ EffectSave(i)' <=> EffectSave(i)
           /\ SaveOf(i)' = SaveOf(i)
    BY <1>0, <1>1 DEF LedgerInv, SavesAwaited, Rests, WaitsKept, EffectSave,
                      SaveOf
  <1>3. \A s \in Session : session'[s].ledger = session[s].ledger
    BY DEF Rests, LedgersTake
  <1>4. SavesAwaited'
    BY <1>0, <1>2 DEF LedgerInv, SavesAwaited
  <1>5. \A i \in SavePlace : SaveOf(i) \in Session
    BY <1>1, <1>2 DEF SaveOf, Waits, IndInv, TypeOK, CallsOK, Fresh
  <1>6. SavesCover'
    <2> SUFFICES ASSUME NEW i \in SavePlace,
                        NEW key \in session[SaveOf(i)].ledger
                 PROVE  About(SaveOf(i), key) \in saved \cup saves[i].content
      BY <1>0, <1>2, <1>3, <1>5 DEF SavesCover, About
    <2> QED BY DEF LedgerInv, SavesCover
  <1>7. LedgerSaved'
    BY <1>0, <1>2, <1>3 DEF LedgerInv, LedgerSaved, About
  <1> QED BY <1>4, <1>6, <1>7

\* After the save of `who' for j is through.
LEMMA TakenSaves ==
    ASSUME IndInv, LedgerInv, NEW j \in Job, NEW who \in {"end", "bg"},
           Takes(who, j), loaded
    PROVE  /\ SavesAwaited' /\ SavesCover' /\ LedgerSaved'
           /\ saved \subseteq saved' /\ saved' \subseteq profile
  <1>0. /\ saves # <<>> /\ saves' = Tail(saves) /\ profile' = profile
        /\ Head(saves).who = who /\ Head(saves).job = j
        /\ saved' \in {saved \cup Head(saves).content, profile}
        /\ saved \subseteq profile
    BY DEF Takes, Saved, NextSave, LedgerInv, ProfileAhead
  <1>1. /\ 1 \in SavePlace /\ saves[1] = Head(saves)
        /\ \A i \in SavePlace' : /\ i + 1 \in SavePlace
                                 /\ saves'[i] = saves[i + 1]
        /\ \A i \in SavePlace : i # 1 =>
               i - 1 \in SavePlace' /\ saves'[i - 1] = saves[i]
        /\ \A i \in SavePlace : saves[i] \in ProfileSave
        /\ \A i \in SavePlace : i \in Nat /\ i >= 1
    BY <1>0, SavePlaces DEF IndInv, TypeOK
  <1>2. /\ \A i \in SavePlace : /\ Waits(saves[i].who, saves[i].job)
                                /\ saves[i].content \subseteq profile
                                /\ saves[i].job \in Job
        /\ \A i \in SavePlace : i # 1 =>
               ~(saves[i].who = who /\ saves[i].job = j)
    BY <1>0, <1>1 DEF LedgerInv, SavesAwaited, ProfileSave
  <1>3. /\ saved \subseteq saved' /\ saved' \subseteq profile
        /\ saved \cup Head(saves).content \subseteq saved'
    BY <1>0, <1>1, <1>2
  <1>4. \A i \in SavePlace : i # 1 => \A w : \A k \in Job :
           w = saves[i].who /\ k = saves[i].job =>
               /\ Waits(w, k)' /\ bg'[k].ph = bg[k].ph
               /\ end'[k].sess = end[k].sess
    BY <1>2 DEF Takes, WaitsKept
  <1>5. \A i \in SavePlace' : \E k \in SavePlace :
           /\ k = i + 1 /\ k # 1 /\ saves'[i] = saves[k]
           /\ SaveOf(i)' = SaveOf(k) /\ (EffectSave(i)' <=> EffectSave(k))
    <2> SUFFICES ASSUME NEW i \in SavePlace'
                 PROVE  /\ i + 1 \in SavePlace /\ i + 1 # 1
                        /\ saves'[i] = saves[i + 1]
                        /\ SaveOf(i)' = SaveOf(i + 1)
                        /\ EffectSave(i)' <=> EffectSave(i + 1)
      OBVIOUS
    <2>1. i + 1 \in SavePlace /\ i + 1 # 1 /\ saves'[i] = saves[i + 1]
      BY <1>1 DEF SavePlace
    <2> QED BY <1>2, <1>4, <2>1 DEF SaveOf, EffectSave
  <1>6. \A i \in SavePlace : i # 1 => \E k \in SavePlace' :
           SaveOf(k)' = SaveOf(i) /\ (EffectSave(k)' <=> EffectSave(i))
    <2> SUFFICES ASSUME NEW i \in SavePlace, i # 1
                 PROVE  /\ i - 1 \in SavePlace'
                        /\ SaveOf(i - 1)' = SaveOf(i)
                        /\ EffectSave(i - 1)' <=> EffectSave(i)
      OBVIOUS
    <2>1. i - 1 \in SavePlace' /\ saves'[i - 1] = saves[i]
      BY <1>1
    <2> QED BY <1>2, <1>4, <2>1 DEF SaveOf, EffectSave
  <1>7. \A s \in Session : session'[s].ledger = session[s].ledger
    BY DEF Takes, LedgersTake
  <1>8. SavesAwaited'
    <2>1. \A i \in SavePlace' : /\ Waits(saves[i].who, saves[i].job)'
                                /\ saves'[i].content \subseteq profile'
      <3> SUFFICES ASSUME NEW i \in SavePlace'
                   PROVE  /\ Waits(saves[i].who, saves[i].job)'
                          /\ saves'[i].content \subseteq profile'
        OBVIOUS
      <3>1. PICK k \in SavePlace : k # 1 /\ saves'[i] = saves[k]
        BY <1>5
      <3>2. saves[k].job \in Job
        BY <1>2
      <3>3. PICK w, l : l \in Job /\ w = saves[k].who /\ l = saves[k].job
        BY <3>2
      <3>4. Waits(w, l)'
        BY <1>4, <3>1, <3>3
      <3>5. Waits(saves[i].who, saves[i].job)'
        BY <3>1, <3>3, <3>4 DEF Waits
      <3>6. saves'[i].content \subseteq profile'
        BY <1>0, <1>2, <3>1
      <3> QED BY <3>5, <3>6
    <2>2. ASSUME NEW i \in SavePlace', NEW l \in SavePlace',
                 saves'[i].who = saves'[l].who, saves'[i].job = saves'[l].job
          PROVE  i = l
      <3>1. i + 1 \in SavePlace /\ l + 1 \in SavePlace /\ i \in Nat /\ l \in Nat
            /\ saves'[i] = saves[i + 1] /\ saves'[l] = saves[l + 1]
        BY <1>1 DEF SavePlace
      <3>2. i + 1 = l + 1
        BY <2>2, <3>1 DEF LedgerInv, SavesAwaited
      <3> QED BY <3>1, <3>2
    <2> QED BY <2>1, <2>2 DEF SavesAwaited
  <1>9. \A i \in SavePlace : SaveOf(i) \in Session
    BY <1>2 DEF SaveOf, Waits, IndInv, TypeOK, CallsOK, Fresh
  <1>10. SavesCover'
    <2> SUFFICES ASSUME NEW i \in SavePlace',
                        NEW key \in session'[SaveOf(i)'].ledger
                 PROVE  About(SaveOf(i)', key) \in saved' \cup saves'[i].content
      BY DEF SavesCover, About
    <2>1. PICK k \in SavePlace : saves'[i] = saves[k] /\ SaveOf(i)' = SaveOf(k)
      BY <1>5
    <2>2. key \in session[SaveOf(k)].ledger
      BY <1>7, <1>9, <2>1
    <2>3. About(SaveOf(k), key) \in saved \cup saves[k].content
      BY <2>2 DEF LedgerInv, SavesCover
    <2> QED BY <1>3, <2>1, <2>3
  <1>11. LedgerSaved'
    <2> SUFFICES ASSUME NEW s \in Session, NEW key \in session[s].ledger,
                        About(s, key) \notin saved'
                 PROVE  \E i \in SavePlace' : EffectSave(i)' /\ SaveOf(i)' = s
      BY <1>7 DEF LedgerSaved, About
    <2>1. PICK i \in SavePlace : EffectSave(i) /\ SaveOf(i) = s
      BY <1>3 DEF LedgerInv, LedgerSaved
    <2>2. i # 1
      BY <1>1, <1>3, <2>1 DEF LedgerInv, SavesCover
    <2> QED BY <1>6, <2>1, <2>2
  <1> QED BY <1>3, <1>8, <1>10, <1>11

\* After `who' has issued a save for j: the job had none on its way, and the
\* call has no other job.
LEMMA IssuedSaves ==
    ASSUME IndInv, IndInv', WriteInv', LedgerInv, OneHangUp',
           profile \subseteq profile',
           NEW j \in Job, NEW who \in {"end", "bg"}, Issues(who, j)
    PROVE  SavesAwaited' /\ SavesCover' /\ LedgerSaved'
  <1> DEFINE e == [who |-> who, job |-> j, content |-> profile']
             s == end[j].sess
  <1>0. PICK N : N = Len(saves')
    OBVIOUS
  <1>1. /\ \A i \in SavePlace' : \/ i \in SavePlace /\ saves'[i] = saves[i]
                                 \/ i = N /\ saves'[i] = e
        /\ \A i \in SavePlace : i \in SavePlace' /\ saves'[i] = saves[i]
        /\ N \in SavePlace' /\ saves'[N] = e
        /\ \A i \in SavePlace : saves[i] \in ProfileSave
    <2>1. saves' = Append(saves, e)
      BY DEF Issues
    <2> HIDE DEF e
    <2> QED BY <1>0, <2>1, SavePlaces DEF IndInv, TypeOK
  <1>2. \A i \in SavePlace : /\ Waits(saves[i].who, saves[i].job)
                             /\ saves[i].content \subseteq profile
                             /\ saves[i].job \in Job
                             /\ saves[i].who # "none"
    BY <1>1 DEF LedgerInv, SavesAwaited, ProfileSave, Who
  <1>3. \A i \in SavePlace : \A w : \A k \in Job :
           w = saves[i].who /\ k = saves[i].job =>
               /\ Waits(w, k)' /\ bg'[k].ph = bg[k].ph
               /\ end'[k].sess = end[k].sess
    BY <1>2 DEF Issues, WaitsKept
  <1>4. \A w : \A k \in Job : Waits(w, k)' => end'[k].at # "idle"
    BY DEF Waits, IndInv, Fresh
  <1>5. \A w : Waits(w, j)' => w = who
    <2>1. Waits(who, j)'
      BY DEF Issues
    <2>2. end'[j].at \in {"saving", "abort_save"} => bg'[j].at # "saving"
      BY DEF WriteInv, Sound, TakeTurns, Over
    <2> QED BY <2>1, <2>2 DEF Waits
  <1>6. \A i \in SavePlace : saves[i].job # j
    <2> SUFFICES ASSUME NEW i \in SavePlace, saves[i].job = j PROVE FALSE
      OBVIOUS
    <2>1. saves[i].who = who
      BY <1>3, <1>5
    <2> QED BY <1>2, <2>1 DEF Issues
  <1>7. \A i \in SavePlace : SaveOf(i) # s
    <2> SUFFICES ASSUME NEW i \in SavePlace, end[saves[i].job].sess = s
                 PROVE  FALSE
      BY DEF SaveOf
    <2>1. PICK k \in Job : k = saves[i].job
      BY <1>2
    <2>2. end'[k].at # "idle" /\ end'[k].sess = s
      BY <1>3, <1>4, <2>1
    <2>3. end'[j].at # "idle" /\ end'[j].sess = s
      BY <1>4 DEF Issues
    <2> QED BY <1>6, <2>1, <2>2, <2>3 DEF OneHangUp
  <1>8. PICK L : /\ LedgersTake(s, L)
                 /\ \A key \in L : /\ About(s, key) \in profile'
                                   /\ who = "end" \/ bg'[j].ph = "media"
    BY DEF Issues
  <1>9. /\ s \in Session
        /\ \A t \in Session \ {s} : session'[t].ledger = session[t].ledger
        /\ session'[s].ledger = session[s].ledger \cup L
    <2>1. s \in Session
      BY <1>4 DEF Issues, IndInv, TypeOK, CallsOK
    <2> QED BY <1>8, <2>1 DEF LedgersTake
  <1>10. /\ saved' = saved /\ SaveOf(N)' = s
         /\ \A i \in SavePlace : /\ SaveOf(i)' = SaveOf(i)
                                 /\ EffectSave(i)' <=> EffectSave(i)
    <2>1. saved' = saved
      BY DEF Issues
    <2>3. saves'[N].job = j
      BY <1>1
    <2>4. end'[j].sess = s
      BY DEF Issues
    <2>5. SaveOf(N)' = s
      BY <2>3, <2>4 DEF SaveOf
    <2>2. ASSUME NEW i \in SavePlace
          PROVE  SaveOf(i)' = SaveOf(i) /\ (EffectSave(i)' <=> EffectSave(i))
      BY <1>1, <1>2, <1>3, <2>2 DEF SaveOf, EffectSave
    <2> QED BY <2>1, <2>2, <2>5
  <1>11. SavesAwaited'
    <2>1. ASSUME NEW i \in SavePlace'
          PROVE  /\ Waits(saves[i].who, saves[i].job)'
                 /\ saves'[i].content \subseteq profile'
      <3>1. CASE i \in SavePlace /\ saves'[i] = saves[i]
        <4>1. PICK w, k : k \in Job /\ w = saves[i].who /\ k = saves[i].job
          BY <1>2, <3>1
        <4>2. Waits(w, k)'
          BY <1>3, <3>1, <4>1
        <4>3. Waits(saves[i].who, saves[i].job)'
          BY <3>1, <4>1, <4>2 DEF Waits
        <4> QED BY <1>2, <3>1, <4>3
      <3>2. CASE saves'[i] = e
        <4>1. saves'[i].who = who /\ saves'[i].job = j
              /\ saves'[i].content = profile'
          BY <3>2
        <4>2. Waits(who, j)'
          BY DEF Issues
        <4>3. Waits(saves[i].who, saves[i].job)'
          BY <4>1, <4>2 DEF Waits
        <4> QED BY <4>1, <4>3
      <3> QED BY <1>1, <3>1, <3>2
    <2>2. ASSUME NEW i \in SavePlace', NEW l \in SavePlace',
                 saves'[i].who = saves'[l].who, saves'[i].job = saves'[l].job
          PROVE  i = l
      <3>1. e.job = j
        OBVIOUS
      <3> HIDE DEF e
      <3>2. CASE i \in SavePlace /\ l \in SavePlace
        BY <1>1, <2>2, <3>2 DEF LedgerInv, SavesAwaited
      <3>3. CASE i = N \/ l = N
        BY <1>1, <1>6, <2>2, <3>1, <3>3
      <3> QED BY <1>1, <3>2, <3>3
    <2> QED BY <2>1, <2>2 DEF SavesAwaited
  <1>12. SavesCover'
    <2> SUFFICES ASSUME NEW i \in SavePlace',
                        NEW key \in session'[SaveOf(i)'].ledger
                 PROVE  About(SaveOf(i)', key) \in saved' \cup saves'[i].content
      BY DEF SavesCover, About
    <2>1. CASE i \in SavePlace
      <3>1. SaveOf(i)' = SaveOf(i) /\ SaveOf(i) # s /\ saves'[i] = saves[i]
        BY <1>1, <1>7, <1>10, <2>1
      <3>2. SaveOf(i) \in Session
        BY <1>2, <2>1 DEF SaveOf, Waits, IndInv, TypeOK, CallsOK, Fresh
      <3>3. key \in session[SaveOf(i)].ledger
        BY <1>9, <3>1, <3>2
      <3>4. About(SaveOf(i), key) \in saved \cup saves[i].content
        BY <2>1, <3>3 DEF LedgerInv, SavesCover
      <3> QED BY <1>10, <3>1, <3>4
    <2>2. CASE i = N
      <3>1. SaveOf(i)' = s /\ saves'[i].content = profile'
        BY <1>1, <1>10, <2>2
      <3>2. CASE key \in L
        BY <1>8, <3>1, <3>2
      <3>3. CASE key \in session[s].ledger
        BY <1>7, <1>9, <1>10, <3>1, <3>3 DEF LedgerInv, LedgerSaved
      <3> QED BY <1>9, <3>1, <3>2, <3>3
    <2> QED BY <1>1, <2>1, <2>2
  <1>13. LedgerSaved'
    <2> SUFFICES ASSUME NEW t \in Session, NEW key \in session'[t].ledger,
                        About(t, key) \notin saved
                 PROVE  \E i \in SavePlace' : EffectSave(i)' /\ SaveOf(i)' = t
      BY <1>10 DEF LedgerSaved, About
    <2>1. CASE key \in session[t].ledger
      BY <1>1, <1>10, <2>1 DEF LedgerInv, LedgerSaved
    <2>2. CASE key \notin session[t].ledger
      <3>1. t = s /\ key \in L
        BY <1>9, <2>2
      <3>2. EffectSave(N)'
        BY <1>1, <1>8, <3>1 DEF EffectSave
      <3> QED BY <1>1, <1>10, <3>1, <3>2
    <2> QED BY <2>1, <2>2
  <1> QED BY <1>11, <1>12, <1>13

\* The effect is in the profile before the sink is asked.
LEMMA SinkKeepsProfile ==
    ASSUME IndInv, IndInv', WriteInv, LedgerInv, [Next]_vars, ~Crash
    PROVE  SinkInProfile'
  <1> SUFFICES ASSUME NEW j \in Job, AtSink(j)'
               PROVE  <<end'[j].sess, end'[j].exit, "media">> \in profile'
    BY DEF SinkInProfile, EffectOf
  <1>1. CASE StartMedia(j)
    <2>1. bg \in [Job -> BgRecord]
      BY DEF IndInv, TypeOK, JobsOK, BgRecord
    <2>2. ~Skips(j, "media")
      <3>1. bg'[j].at # "saving"
        BY DEF AtSink
      <3> QED BY <1>1, <2>1, <3>1 DEF StartMedia, At
    <2> QED BY <1>1, <2>2 DEF StartMedia, EffectOf, callVars
  <1>2. CASE AtSink(j) /\ end'[j] = end[j]
    <2>1. loaded
      BY <1>2 DEF LedgerInv, ProfileAhead, AtSink
    <2> QED BY <1>2, <2>1, ProfileGrows DEF LedgerInv, SinkInProfile, EffectOf
  <1> QED BY <1>1, <1>2, AtSinkFrom

\* A snapshot is taken of a call whose executed effects are all saved.
LEMMA SnapshotBehind ==
    ASSUME IndInv, WriteInv, LedgerInv, [Next]_vars, ~Crash,
           saved \subseteq saved'
    PROVE  LedgerBehindProfile'
  <1> SUFFICES ASSUME NEW s \in Session, NEW key \in snapshot'[s].ledger
               PROVE  About(s, key) \in saved
    BY DEF LedgerBehindProfile, About
  <1>1. CASE snapshot'[s] = snapshot[s]
    BY <1>1 DEF LedgerInv, LedgerBehindProfile, About
  <1>2. CASE snapshot'[s] # snapshot[s]
    <2>1. PICK j \in Job : ~NoWrite(j) /\ end[j].sess = s
      BY <1>2, SnapshotSteps
    <2>2. key \in session[s].ledger
      BY <1>2, SnapshotSteps
    <2>3. ASSUME NEW i \in SavePlace, EffectSave(i), SaveOf(i) = s
          PROVE  FALSE
      <3>1. PICK k \in Job : k = saves[i].job
        <4>1. saves[i] \in ProfileSave
          BY SavePlaces DEF IndInv, TypeOK
        <4> QED BY <4>1 DEF ProfileSave
      <3>2. Waits(saves[i].who, k)
        BY <3>1 DEF LedgerInv, SavesAwaited
      <3>3. NoWrite(k) /\ end[k].at # "idle"
        BY <2>3, <3>1, <3>2, SavingWritesNot
        DEF Waits, EffectSave, IndInv, Fresh
      <3>4. end[j].at # "idle"
        BY <2>1 DEF NoWrite, WriteInv, Queued, Awaited
      <3> QED BY <2>1, <2>3, <3>1, <3>3, <3>4 DEF SaveOf, LedgerInv, OneHangUp
    <2> QED BY <2>2, <2>3 DEF LedgerInv, LedgerSaved
  <1> QED BY <1>1, <1>2

LEMMA NextKeepsLedger ==
    ASSUME "save" \notin Env, "double_end" \notin Env
    PROVE  IndInv /\ IndInv' /\ WriteInv /\ WriteInv' /\ LedgerInv
               /\ [Next]_vars => LedgerInv'
  <1> SUFFICES ASSUME IndInv, IndInv', WriteInv, WriteInv', LedgerInv,
                      [Next]_vars
               PROVE  LedgerInv'
    OBVIOUS
  <1>1. HungUp' /\ AbortsKnown' /\ OneHangUp'
    BY NextKeepsHungUp, NextKeepsOneHangUp DEF LedgerInv
  <1>2. CASE Crash
    <2>1. /\ saves' = <<>> /\ SavePlace' = {} /\ ~loaded'
          /\ session' = snapshot /\ UNCHANGED <<saved, snapshot>>
          /\ \A j \in Job : bg'[j].at = "idle"
      BY <1>2 DEF Crash, SavePlace, Idle, At
    <2>2. SavesAwaited' /\ SavesCover' /\ SinkInProfile'
      BY <2>1 DEF SavesAwaited, SavesCover, SinkInProfile, AtSink
    <2>3. LedgerSaved' /\ LedgerBehindProfile'
      BY <2>1 DEF LedgerSaved, LedgerInv, LedgerBehindProfile, About
    <2>4. ProfileAhead'
      BY <1>2, <2>1, CrashCalls DEF ProfileAhead, OnThePhone
    <2> QED BY <1>1, <2>2, <2>3, <2>4 DEF LedgerInv
  <1>3. CASE ~Crash /\ loaded
    <2>1. loaded' /\ profile \subseteq profile'
      BY <1>3, ProfileGrows
    <2>2. /\ SavesAwaited' /\ SavesCover' /\ LedgerSaved'
          /\ saved \subseteq saved' /\ saved' \subseteq profile'
      <3>0. saved \subseteq profile
        BY <1>3 DEF LedgerInv, ProfileAhead
      <3>1. CASE Rests
        BY <2>1, <3>0, <3>1, RestingSaves DEF Rests
      <3>2. ASSUME NEW j \in Job, NEW who \in {"end", "bg"}, Takes(who, j)
            PROVE  /\ SavesAwaited' /\ SavesCover' /\ LedgerSaved'
                   /\ saved \subseteq saved' /\ saved' \subseteq profile'
        BY <1>3, <2>1, <3>2, TakenSaves
      <3>3. ASSUME NEW j \in Job, NEW who \in {"end", "bg"}, Issues(who, j)
            PROVE  /\ SavesAwaited' /\ SavesCover' /\ LedgerSaved'
                   /\ saved \subseteq saved' /\ saved' \subseteq profile'
        <4>1. saved' = saved
          BY <3>3 DEF Issues
        <4> QED BY <1>1, <2>1, <3>0, <3>3, <4>1, IssuedSaves
      <3>4. SinkInProfile
        BY DEF LedgerInv
      <3> QED BY <1>3, <3>1, <3>2, <3>3, <3>4, SaveSteps
    <2>3. SinkInProfile' /\ LedgerBehindProfile'
      BY <1>3, <2>2, SinkKeepsProfile, SnapshotBehind
    <2> QED BY <1>1, <2>1, <2>2, <2>3 DEF LedgerInv, ProfileAhead
  <1>4. CASE ~Crash /\ ~loaded
    <2>0. saves = <<>> /\ SavePlace = {} /\ ProfileAhead /\ SinkInProfile
      BY <1>4 DEF LedgerInv, ProfileAhead, SavePlace
    <2>1. CASE EnsureProfile
      <3>1. /\ UNCHANGED <<saves, saved, session, snapshot, bg, end>>
            /\ loaded' /\ profile' = saved
        BY <2>1 DEF EnsureProfile, callVars, jobVars, storeVars, fxVars
      <3>2. SavesAwaited' /\ SavesCover' /\ LedgerSaved'
        BY <2>0, <3>1 DEF SavesAwaited, SavesCover, LedgerSaved, SavePlace,
                          LedgerInv, About
      <3>3. SinkInProfile'
        BY <1>4, <2>0, <3>1 DEF SinkInProfile, AtSink, ProfileAhead
      <3>4. ProfileAhead' /\ LedgerBehindProfile'
        BY <3>1 DEF ProfileAhead, LedgerInv, LedgerBehindProfile
      <3> QED BY <1>1, <3>2, <3>3, <3>4 DEF LedgerInv
    <2>2. CASE ~EnsureProfile
      <3>1. /\ ~loaded'
            /\ \A j \in Job : /\ bg'[j].at \in {"idle", "catch"}
                              /\ end'[j].at \in Over \cup {"idle"}
            /\ \A s \in Session : call'[s] \notin OnThePhone
        BY <1>4, <2>0, <2>2, UnloadedRests
      <3>2. Rests
        <4>1. \A j \in Job : \A who : ~Takes(who, j)
          BY <2>0 DEF Takes, Saved, NextSave
        <4>2. \A j \in Job : \A who : ~Issues(who, j)
          BY <3>1 DEF Issues, Waits, Over
        <4> QED BY <1>4, <2>0, <4>1, <4>2, SaveSteps
      <3>3. saves' = <<>> /\ SavePlace' = {} /\ saved' = saved
        BY <2>0, <3>2 DEF Rests, SavePlace
      <3>4. SavesAwaited' /\ SavesCover'
        BY <3>3 DEF SavesAwaited, SavesCover
      <3>5. LedgerSaved'
        <4>1. \A s \in Session : session'[s].ledger = session[s].ledger
          BY <3>2 DEF Rests, LedgersTake
        <4> QED BY <2>0, <3>3, <4>1 DEF LedgerSaved, LedgerInv, About
      <3>6. SinkInProfile' /\ ProfileAhead'
        BY <3>1, <3>3 DEF SinkInProfile, AtSink, ProfileAhead
      <3>7. LedgerBehindProfile'
        BY <1>4, <3>3, SnapshotBehind
      <3> QED BY <1>1, <3>4, <3>5, <3>6, <3>7 DEF LedgerInv
    <2> QED BY <2>1, <2>2
  <1> QED BY <1>2, <1>3, <1>4

\* A persisted ledger never claims an effect that the persisted profile does
\* not hold, whenever the server restarts and whichever writes of jobs
\* reject, as long as the profile's saves do not and no call is hung up
\* while it is ending: an effect is never skipped, after a restart, without
\* being there.
THEOREM LedgerClaimsTrue ==
    ASSUME "save" \notin Env, "double_end" \notin Env
    PROVE  Spec => []LedgerBehindProfile
  <1>1. Init => LedgerInv
    BY DEF Init, LedgerInv, HungUp, AbortsKnown, OneHangUp, SavesAwaited,
           SavesCover, LedgerSaved, SinkInProfile, AtSink, ProfileAhead,
           LedgerBehindProfile, SavePlace, NoEnd, NewSession, Idle, At
  <1>2. IndInv /\ IndInv' /\ WriteInv /\ WriteInv' /\ LedgerInv
            /\ [Next]_vars => LedgerInv'
    BY NextKeepsLedger
  <1>3. LedgerInv => LedgerBehindProfile
    BY DEF LedgerInv
  <1> QED BY <1>1, <1>2, <1>3, WritesTakeTurns, PTL DEF Spec

=============================================================================
