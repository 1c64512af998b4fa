--------------------------- MODULE JobWrites_proofs ---------------------------
(***************************************************************************)
(* Who writes the record of a job when: endCall, background job, retry and *)
(* recovery take turns, and a retry's write never reaches the store after  *)
(* that of a job which has not failed.  The invariant holds whatever the   *)
(* environment does; what the store and the host promise of a job's record *)
(* follows from it.                                                        *)
(***************************************************************************)
EXTENDS EngineHost_proofs

-----------------------------------------------------------------------------
(* The writes on their way *)

Place == 1..Len(queue)

\* `who' sleeps on a write of j; several retries may.
Awaits(who, j) ==
    \/ who = "end" /\ end[j].at \in {"register", "commit", "kick", "fail"}
    \/ who = "bg" /\ bg[j].at \in {"mark", "note", "fail", "final", "catch"}
    \/ who = "recover" /\ recov.job = j
    \/ who = "retry" /\ end[j].at \in Over

\* Of two writes of one job, the one at i reaches the file first: an update
\* that finds no record comes back as a creation at the end of the queue.
Before(i, k) ==
    \/ queue[i].op = "create" /\ queue[k].op = "update"
    \/ queue[i].op = queue[k].op /\ i < k

\* The background job has failed, what it awaits is all it will do.
Failing(j) ==
    \/ bg[j].at \in {"fail", "catch"}
    \/ /\ ~bg[j].ok
       /\ \/ bg[j].at = "note" /\ bg[j].ph # "media"
          \/ bg[j].at = "saving" /\ bg[j].ph = "voicemail"

\* No retry of j is on its way to the file.
Calm(j) ==
    \/ bg[j].at \in {"queued", "work", "saving"} /\ ~Failing(j)
    \/ mem[j].status \in Terminal /\ bg[j].at = "idle"

-----------------------------------------------------------------------------
(* The invariant *)

\* endCall, recovery and background job come one after the other.
TakeTurns(j) ==
    /\ end[j].at \notin Over => bg[j].at = "idle" /\ recov.job # j
    /\ recov.job = j => bg[j].at = "idle"

\* What the record of a job shows while an endCall is at work on it.
EndStatus(j) ==
    /\ end[j].at \in {"hooks", "preload", "aborting", "abort_save"}
           => mem[j] = Absent
    /\ end[j].at \in {"register", "queued", "saving"}
           => mem[j].status = "closing" /\ ~mem[j].committed
    /\ end[j].at = "commit" => mem[j].status = "committed" /\ mem[j].committed
    /\ end[j].at = "kick"
           => mem[j].status = "background_pending" /\ mem[j].committed
    /\ end[j].at = "fail"
           => mem[j].status = "failed_retryable" /\ ~mem[j].committed

\* What it shows while the job runs or is recovered.
RunStatus(j) ==
    /\ bg[j].at # "idle" => mem[j].committed
    /\ bg[j].at \in {"fail", "catch"} \/ recov.job = j
           => mem[j].status \in {"failed_retryable", "background_pending"}
    /\ bg[j].at = "final" => mem[j].status \in Terminal
    /\ mem[j].status \in Terminal => bg[j].at \in {"idle", "final"}
    /\ mem[j].status = "failed_retryable" /\ bg[j].at # "idle" => Failing(j)

\* The store has a job of the call once the closing job was registered, and
\* a record is there as a whole or not at all.
InStore(j) ==
    /\ (\/ mem[j].committed \/ recov.job = j \/ j \in recov.todo
        \/ end[j].at \in {"queued", "saving", "commit", "kick", "fail"})
           => Known(j)
    /\ j \in recov.todo => disk[j].status # "absent"
    /\ disk[j].status = "absent" => disk[j] = Absent
    /\ mem[j].status = "absent" => mem[j] = Absent

\* A write on its way has someone who waits for it.
Awaited(j) ==
    \A i \in Place : queue[i].job = j =>
        /\ Awaits(queue[i].who, j)
        /\ j \notin recov.todo /\ end[j].at # "idle"
        /\ queue[i].rec.status # "absent"
        /\ disk[j].status # "absent" => queue[i].op = "update"
        /\ end[j].at = "register" \/ Known(j)

\* Everyone but retries waits for one write at a time.
OneEach(j) ==
    \A i, k \in Place :
        /\ queue[i].job = j /\ queue[k].job = j
        /\ queue[i].who = queue[k].who /\ queue[i].who # "retry"
        => i = k

\* A retry's write comes after that of the recovery, and after that of the
\* background job only if that one has failed.
RetryLast(j) ==
    /\ recov.job = j =>
           \E i \in Place : queue[i].job = j /\ queue[i].who = "recover"
    /\ \A i, k \in Place :
           queue[i].job = j /\ queue[k].job = j /\ queue[k].who = "retry" =>
               /\ queue[i].who = "recover" => Before(i, k)
               /\ queue[i].who = "bg" /\ Before(i, k) => Failing(j)
    /\ Calm(j) => \A k \in Place : queue[k].job = j => queue[k].who # "retry"

Sound(j) == TakeTurns(j) /\ EndStatus(j) /\ RunStatus(j) /\ InStore(j)

Queued(j) == Awaited(j) /\ OneEach(j) /\ RetryLast(j)

WriteInv == \A j \in Job : Sound(j) /\ Queued(j)

-----------------------------------------------------------------------------
(* A turn of a job: a write of p lands or rejects, n queues a new one *)

\* The write at the head of the queue is in the file.
Filed(j) ==
    IF Duplicate(Head(queue)) THEN UNCHANGED disk
    ELSE disk' = [disk EXCEPT ![j] = Head(queue).rec]

Turn(j, p, n) ==
    /\ \/ p = "none" /\ UNCHANGED disk
       \/ /\ p \in Who /\ NextWrite(p, j) /\ ~Missing(Head(queue))
          /\ \/ Filed(j)
             \/ "store" \in Env /\ UNCHANGED disk
    /\ queue' = LET q == IF p = "none" THEN queue ELSE Tail(queue) IN
                IF n = "none" THEN q ELSE Append(q, Write(n, j, mem'[j]))
    /\ n \in Who \cup {"none"}

\* The other jobs are left alone.
OthersKeep(j) ==
    /\ \A k \in Job \ {j} : /\ end'[k] = end[k] /\ bg'[k] = bg[k]
                            /\ mem'[k] = mem[k]
    /\ end[j].at # "idle" => end'[j].sess = end[j].sess
    /\ end'[j].at # "idle"
    /\ \/ recov'.job = recov.job
       \/ recov.job \in {None, j} /\ recov'.job \in {None, j}
    /\ \A k \in Job : k \in recov'.todo => k \in recov.todo /\ k # j

\* endCall or background job is between two writes.
Between(j) == \/ end[j].at \in {"queued", "saving"}
              \/ bg[j].at \in {"queued", "work", "saving"}

\* What the turn must observe for the queue to stay in order.
InTurn(j, p, n) ==
    /\ \A who \in Who : Awaits(who, j) /\ who # p => Awaits(who, j)'
    /\ n # "none" =>
           /\ Awaits(n, j)' /\ (n = "retry" \/ n = p \/ ~Awaits(n, j))
           /\ mem'[j].status # "absent"
           /\ end'[j].at = "register" \/ Known(j)
    /\ recov'.job = j => \/ n = "recover"
                         \/ recov.job = j /\ p # "recover"
    /\ Awaits("bg", j) /\ p # "bg" /\ (Failing(j) \/ n = "retry")
           => Failing(j)'
    /\ n = "recover" => j \in recov.todo
    /\ Calm(j)' => /\ n # "retry"
                   /\ \/ Calm(j) \/ j \in recov.todo
                      \/ p = "bg" /\ ~Failing(j)
    /\ end[j].at = "register"
           => \/ end'[j].at = "register"
              \/ p = "end" /\ n = "none"
    /\ n # "none" => end[j].at # "idle"
    /\ end[j].at \in Over => end'[j].at \in Over
    /\ n = "none" => \/ mem'[j] = mem[j]
                     \/ j \in recov.todo /\ mem'[j] = disk[j]
    /\ p = "none" /\ Between(j)' => Between(j)
    /\ p \in Who \ {"retry"} /\ n = "none" /\ Between(j)' => Filed(j)
    /\ n = "retry" => "retry" \in Env

\* What it leaves of the job itself.
Settles(j) ==
    /\ TakeTurns(j) /\ EndStatus(j) /\ RunStatus(j)
    /\ mem[j].status = "absent" => mem[j] = Absent

\* A job that is now, or again, known to the host is known to the store.
Registered(j) ==
    (\/ mem'[j].committed \/ recov'.job = j
     \/ end'[j].at \in {"queued", "saving", "commit", "kick", "fail"})
        => (Known(j) /\ end[j].at # "idle") \/ Known(j)'

JobTurn(j) ==
    \E p, n : /\ Turn(j, p, n) /\ OthersKeep(j) /\ InTurn(j, p, n)
              /\ Settles(j)' /\ Registered(j)

\* Where the writes of the queue are after a turn.
LEMMA TurnPlaces ==
    ASSUME StoreOK, NEW j \in Job, NEW p, NEW n, Turn(j, p, n),
           mem' \in [Job -> JobRecord],
           NEW d, d = IF p = "none" THEN 0 ELSE 1
    PROVE  /\ \A i \in Place' :
                 \/ i + d \in Place /\ queue'[i] = queue[i + d]
                 \/ /\ n # "none" /\ i = Len(queue')
                    /\ queue'[i] = Write(n, j, mem'[j])
           /\ \A i \in Place : i > d => /\ i - d \in Place'
                                       /\ queue'[i - d] = queue[i]
           /\ n # "none" => \A i \in Place : i - d < Len(queue')
           /\ n # "none" => /\ Len(queue') \in Place'
                            /\ queue'[Len(queue')] = Write(n, j, mem'[j])
           /\ d = 1 => 1 \in Place /\ queue[1].who = p /\ queue[1].job = j
           /\ Len(queue) \in Nat /\ Len(queue') \in Nat
  <1> DEFINE q == IF p = "none" THEN queue ELSE Tail(queue)
  <1>1. queue \in Seq(StoreWrite) /\ (p # "none" => queue # <<>>)
    BY DEF StoreOK, Turn, NextWrite
  <1>2. /\ q \in Seq(StoreWrite) /\ Len(q) \in Nat /\ Len(queue) \in Nat
        /\ Len(q) = Len(queue) - d
        /\ \A i \in 1..Len(q) : q[i] = queue[i + d]
    BY <1>1, HeadTailProperties
  <1>3. d = 1 => 1 \in Place /\ queue[1].who = p /\ queue[1].job = j
    BY <1>1, <1>2 DEF Turn, NextWrite, Place
  <1> HIDE DEF q
  <1>4. CASE n = "none"
    <2>1. queue' = q
      BY <1>4 DEF Turn, q
    <2> QED BY <1>2, <1>3, <1>4, <2>1 DEF Place
  <1>5. CASE n # "none"
    <2> DEFINE w == Write(n, j, mem'[j])
    <2>1. queue' = Append(q, w)
      BY <1>5 DEF Turn, q
    <2>2. w \in StoreWrite
      BY <1>5 DEF Turn, Write, StoreWrite
    <2> HIDE DEF w
    <2>3. /\ Len(queue') = Len(q) + 1
          /\ \A i \in 1..Len(q) : queue'[i] = q[i]
          /\ queue'[Len(q) + 1] = w
      BY <1>2, <2>1, <2>2, AppendProperties
    <2> QED BY <1>2, <1>3, <1>5, <2>3 DEF Place, w
  <1> QED BY <1>4, <1>5

\* What a write of the queue is made of.
LEMMA WriteTypes ==
    ASSUME StoreOK, NEW k \in Place
    PROVE  /\ queue[k].who \in Who /\ queue[k].job \in Job
           /\ queue[k].rec \in JobRecord
           /\ queue[k].op \in {"update", "create"}
           /\ k \in Nat /\ k >= 1 /\ k <= Len(queue)
  <1>1. queue \in Seq(StoreWrite) /\ Len(queue) \in Nat
    BY DEF StoreOK
  <1>2. queue[k] \in StoreWrite
    BY <1>1, ElementOfSeq DEF Place
  <1>3. k \in Nat /\ k >= 1 /\ k <= Len(queue)
    BY <1>1 DEF Place
  <1> QED BY <1>2, <1>3 DEF StoreWrite

\* The write at the head reaches the file before all others of its job.
LEMMA HeadFirst ==
    ASSUME StoreOK, WriteInv, NEW j \in Job, NEW p \in Who, NextWrite(p, j),
           ~Missing(Head(queue))
    PROVE  /\ 1 \in Place /\ queue[1] = Head(queue)
           /\ queue[1].who = p /\ queue[1].job = j
           /\ \A k \in Place : queue[k].job = j /\ k # 1 => Before(1, k)
  <1>1. /\ queue \in Seq(StoreWrite) /\ queue # <<>>
        /\ Len(queue) \in Nat /\ Len(queue) # 0
    BY EmptySeq DEF StoreOK, NextWrite
  <1>2. /\ 1 \in Place /\ queue[1] = Head(queue)
        /\ queue[1].who = p /\ queue[1].job = j
    BY <1>1 DEF Place, NextWrite
  <1>3. \A k \in Place : /\ queue[k].op \in {"update", "create"}
                         /\ k \in Nat /\ k >= 1
    BY WriteTypes
  <1>4. ASSUME NEW k \in Place, queue[k].job = j, k # 1
        PROVE  Before(1, k)
    <2>1. disk[j].status # "absent" => queue[k].op = "update"
      BY <1>4 DEF WriteInv, Queued, Awaited
    <2>2. queue[1].op = "create" \/ disk[j].status # "absent"
      BY <1>2, <1>3 DEF Missing
    <2>3. 1 \in Nat /\ k \in Nat /\ 1 < k
      BY <1>3, <1>4
    <2>4. queue[1].op \in {"update", "create"}
      BY <1>2, <1>3
    <2> QED BY <1>2, <2>1, <2>2, <2>3, <2>4, <1>3 DEF Before
  <1> QED BY <1>2, <1>4

\* While the write of a background job that has not failed is at the head, no
\* retry is on its way; a retry at the head is alone with an idle job.
LEMMA HeadFacts ==
    ASSUME StoreOK, WriteInv, NEW j \in Job, NEW p \in Who, NextWrite(p, j),
           ~Missing(Head(queue))
    PROVE  /\ p = "bg" /\ ~Failing(j) =>
                  \A k \in Place : queue[k].job = j => queue[k].who # "retry"
           /\ p = "retry" => recov.job # j /\ ~Calm(j)
           /\ Awaits(p, j)
           /\ end[j].at = "register" \/ Known(j)
  <1>1. /\ 1 \in Place /\ queue[1].who = p /\ queue[1].job = j
        /\ \A k \in Place : queue[k].job = j /\ k # 1 => Before(1, k)
    BY HeadFirst
  <1>2. Queued(j)
    BY DEF WriteInv
  <1>3. ASSUME p = "bg", ~Failing(j), NEW k \in Place, queue[k].job = j,
               queue[k].who = "retry"
        PROVE  FALSE
    BY <1>1, <1>2, <1>3 DEF Queued, RetryLast
  <1>4. ASSUME p = "retry", recov.job = j
        PROVE  FALSE
    <2>1. PICK i \in Place : queue[i].job = j /\ queue[i].who = "recover"
      BY <1>2, <1>4 DEF Queued, RetryLast
    <2>2. i # 1 /\ Before(1, i) /\ Before(i, 1)
      BY <1>1, <1>2, <1>4, <2>1 DEF Queued, RetryLast
    <2>3. i \in Nat /\ 1 \in Nat
      BY DEF Place
    <2> QED BY <2>2, <2>3 DEF Before
  <1>5. ASSUME p = "retry", Calm(j)
        PROVE  FALSE
    BY <1>1, <1>2, <1>5 DEF Queued, RetryLast
  <1> QED BY <1>1, <1>2, <1>3, <1>4, <1>5 DEF Queued, Awaited

\* A record is never removed from the file, and none is added but by the
\* write that registers its job.
LEMMA FileGrows ==
    ASSUME IndInv, WriteInv, NEW j \in Job, NEW p, NEW n, Turn(j, p, n)
    PROVE  /\ \A k \in Job \ {j} : disk'[k] = disk[k]
           /\ disk[j].status # "absent" => disk'[j].status # "absent"
           /\ disk'[j] # disk[j] => disk'[j].status # "absent"
           /\ disk[j].status = "absent" /\ disk'[j].status # "absent"
                  => p = "end" /\ end[j].at = "register"
  <1>1. CASE UNCHANGED disk
    BY <1>1
  <1>2. CASE disk' # disk
    <2> DEFINE h == Head(queue)
    <2>1. /\ p \in Who /\ NextWrite(p, j) /\ ~Missing(h)
          /\ ~Duplicate(h) /\ disk' = [disk EXCEPT ![j] = h.rec]
      BY <1>2 DEF Turn, Filed
    <2>2. /\ disk \in [Job -> JobRecord] /\ queue \in Seq(StoreWrite)
          /\ StoreOK
      BY DEF IndInv, TypeOK, StoreOK
    <2>3. 1 \in Place /\ queue[1] = h /\ h.who = p /\ h.job = j
      BY <2>1, <2>2, HeadFirst
    <2>4. /\ h.rec.status # "absent" /\ Awaits(p, j)
          /\ end[j].at = "register" \/ Known(j)
      BY <2>3 DEF WriteInv, Queued, Awaited
    <2>5. disk'[j] = h.rec /\ \A k \in Job \ {j} : disk'[k] = disk[k]
      BY <2>1, <2>2
    <2>6. ASSUME disk[j].status = "absent"
          PROVE  p = "end" /\ end[j].at = "register"
      <3>1. h.op = "create"
        <4>1. h.op \in {"update", "create"}
          BY <2>2, <2>3, WriteTypes
        <4> QED BY <2>1, <2>3, <2>6, <4>1 DEF Missing
      <3>2. ~Known(j)
        BY <2>1, <2>3, <3>1 DEF Duplicate
      <3>3. end[j].at = "register"
        BY <2>4, <3>2
      <3>4. bg[j].at = "idle" /\ recov.job # j
        BY <3>3 DEF WriteInv, Sound, TakeTurns, Over
      <3> QED BY <2>1, <2>4, <3>3, <3>4 DEF Awaits, Who, Over
    <2> QED BY <2>4, <2>5, <2>6
  <1> QED BY <1>1, <1>2

\* A call that has a job in the store keeps it.
LEMMA KnownStays ==
    ASSUME IndInv, WriteInv, NEW j \in Job, NEW p, NEW n, Turn(j, p, n),
           OthersKeep(j), NEW k \in Job, end[k].at # "idle", Known(k)
    PROVE  Known(k)'
  <1>1. PICK m \in Job : /\ disk[m].status # "absent"
                         /\ end[m].sess = end[k].sess
    BY DEF Known
  <1>2. end[m].at # "idle"
    BY <1>1 DEF IndInv, Fresh
  <1>3. end'[m].sess = end[m].sess /\ end'[k].sess = end[k].sess
    BY <1>2 DEF OthersKeep
  <1>4. disk'[m].status # "absent"
    BY <1>1, FileGrows
  <1> QED BY <1>1, <1>3, <1>4 DEF Known

\* What the turn of j means for someone who waits, and for whom.
LEMMA TurnAwaits ==
    ASSUME IndInv, NEW j \in Job, NEW p, NEW n, OthersKeep(j), InTurn(j, p, n),
           NEW who \in Who, NEW k \in Job, Awaits(who, k), k # j \/ who # p
    PROVE  Awaits(who, k)'
  <1>1. k # None
    BY HostAssumption
  <1>2. CASE k # j
    BY <1>1, <1>2 DEF OthersKeep, Awaits
  <1>3. CASE k = j
    BY <1>3 DEF InTurn
  <1> QED BY <1>2, <1>3

\* Every write still has its waiter after the turn.
LEMMA TurnAwaited ==
    ASSUME IndInv, IndInv', WriteInv, NEW j \in Job, NEW p, NEW n,
           Turn(j, p, n), OthersKeep(j), InTurn(j, p, n), NEW k \in Job
    PROVE  Awaited(k)'
  <1>0. /\ StoreOK /\ mem' \in [Job -> JobRecord]
        /\ \A l \in Job : l \in recov'.todo => l \in recov.todo
    BY DEF IndInv, TypeOK, JobsOK, OthersKeep
  <1> DEFINE d == IF p = "none" THEN 0 ELSE 1
  <1> SUFFICES ASSUME NEW i \in Place', queue'[i].job = k
               PROVE  /\ Awaits(queue[i].who, k)'
                      /\ k \notin recov'.todo /\ end'[k].at # "idle"
                      /\ queue'[i].rec.status # "absent"
                      /\ disk'[k].status # "absent" => queue'[i].op = "update"
                      /\ end'[k].at = "register" \/ Known(k)'
    BY DEF Awaited
  <1>1. CASE i + d \in Place /\ queue'[i] = queue[i + d]
    <2> DEFINE m == i + d
    <2>1. /\ queue[m].job = k /\ queue[m].who \in Who
          /\ queue[m].op \in {"update", "create"}
      BY <1>0, <1>1, WriteTypes
    <2>0. PICK who \in Who : who = queue[m].who
      BY <2>1
    <2>2. /\ Awaits(who, k)
          /\ k \notin recov.todo /\ end[k].at # "idle"
          /\ queue[m].rec.status # "absent"
          /\ disk[k].status # "absent" => queue[m].op = "update"
          /\ end[k].at = "register" \/ Known(k)
      BY <1>1, <2>0, <2>1 DEF WriteInv, Queued, Awaited
    <2>3. p # "none" => /\ d = 1 /\ 1 \in Place /\ queue[1].who = p
                        /\ queue[1].job = j
      BY <1>0, TurnPlaces
    <2>4. k = j /\ p \in Who \ {"retry"} => queue[m].who # p
      <3> SUFFICES ASSUME k = j, p \in Who \ {"retry"}, queue[m].who = p
                   PROVE  FALSE
        OBVIOUS
      <3>1. p # "none" /\ d = 1 /\ 1 \in Place /\ queue[1].who = p
            /\ queue[1].job = j
        BY <2>3 DEF Who
      <3>2. OneEach(j)
        BY DEF WriteInv, Queued
      <3>3. m = 1
        BY <1>1, <2>1, <3>1, <3>2 DEF OneEach
      <3>4. i \in Nat /\ i >= 1
        BY DEF Place
      <3> QED BY <3>1, <3>3, <3>4
    <2>5. Awaits(who, k)'
      <3>1. CASE k = j /\ who = p
        <4>1. who = "retry"
          BY <2>0, <2>4, <3>1
        <4>2. end[j].at \in Over
          BY <2>2, <3>1, <4>1 DEF Awaits
        <4>3. end'[j].at \in Over
          BY <4>2 DEF InTurn
        <4> QED BY <3>1, <4>1, <4>3 DEF Awaits
      <3>2. CASE k # j \/ who # p
        BY <2>0, <2>2, <3>2, TurnAwaits
      <3> QED BY <3>1, <3>2
    <2>6. end'[k].at # "idle"
      BY <2>2 DEF OthersKeep
    <2>7. disk'[k].status # "absent" => queue[m].op = "update"
      <3> SUFFICES ASSUME disk'[k].status # "absent", disk[k].status = "absent"
                   PROVE  FALSE
        BY <2>2
      <3>1. k = j /\ p = "end" /\ end[j].at = "register"
        BY FileGrows
      <3>2. bg[j].at = "idle" /\ recov.job # j
        BY <3>1 DEF WriteInv, Sound, TakeTurns, Over
      <3>3. queue[m].who = "end"
        BY <2>0, <2>2, <3>1, <3>2 DEF Awaits, Over
      <3> QED BY <2>4, <3>1, <3>3 DEF Who
    <2>8. end'[k].at = "register" \/ Known(k)'
      <3>1. CASE Known(k)
        BY <2>2, <3>1, KnownStays
      <3>2. CASE k # j /\ end[k].at = "register"
        BY <3>2 DEF OthersKeep
      <3>3. CASE k = j /\ end[k].at = "register"
        <4>1. CASE p = "end"
          <5>1. bg[j].at = "idle" /\ recov.job # j
            BY <3>3 DEF WriteInv, Sound, TakeTurns, Over
          <5>2. queue[m].who = "end"
            BY <2>0, <2>2, <3>3, <5>1 DEF Awaits, Over
          <5> QED BY <2>4, <3>3, <4>1, <5>2 DEF Who
        <4>2. CASE p # "end"
          BY <3>3, <4>2 DEF InTurn
        <4> QED BY <4>1, <4>2
      <3> QED BY <2>2, <3>1, <3>2, <3>3
    <2>9. Awaits(queue[i].who, k)'
      BY <1>1, <2>0, <2>5
    <2> QED BY <1>0, <1>1, <2>2, <2>6, <2>7, <2>8, <2>9
  <1>2. CASE n # "none" /\ i = Len(queue') /\ queue'[i] = Write(n, j, mem'[j])
    <2>1. /\ k = j /\ queue'[i].who = n /\ queue'[i].rec = mem'[j]
          /\ queue'[i].op = "update"
      BY <1>2 DEF Write
    <2>2. /\ Awaits(n, j)' /\ mem'[j].status # "absent"
          /\ end'[j].at = "register" \/ Known(j)
          /\ end'[j].at # "idle" /\ j \notin recov'.todo
      BY <1>2 DEF InTurn, OthersKeep
    <2>3. end'[j].at = "register" \/ Known(j)'
      BY <1>2, <2>2, KnownStays DEF InTurn
    <2>4. Awaits(queue[i].who, k)'
      BY <2>1, <2>2
    <2> QED BY <2>1, <2>2, <2>3, <2>4
  <1> QED BY <1>0, <1>1, <1>2, TurnPlaces

\* A write that is left in the queue is not the one that landed, nor one of
\* the same waiter unless that is a retry.
LEMMA TurnLeft ==
    ASSUME IndInv, WriteInv, NEW j \in Job, NEW p, NEW n, Turn(j, p, n),
           NEW d, d = IF p = "none" THEN 0 ELSE 1,
           NEW i \in Place', i + d \in Place, queue[i + d].job = j,
           queue[i + d].who # "retry"
    PROVE  queue[i + d].who # p
  <1> SUFFICES ASSUME queue[i + d].who = p PROVE FALSE
    OBVIOUS
  <1>1. StoreOK /\ queue[i + d].who \in Who
    BY WriteTypes DEF IndInv, TypeOK
  <1>2. p # "none" /\ p \in Who /\ NextWrite(p, j) /\ ~Missing(Head(queue))
    BY <1>1 DEF Who, Turn
  <1>3. 1 \in Place /\ queue[1].who = p /\ queue[1].job = j /\ d = 1
    BY <1>1, <1>2, HeadFirst
  <1>4. OneEach(j)
    BY DEF WriteInv, Queued
  <1>5. i + d = 1
    BY <1>3, <1>4 DEF OneEach
  <1>6. i \in Nat /\ i >= 1
    BY DEF Place
  <1> QED BY <1>3, <1>5, <1>6

\* After the turn nobody but retries waits for two writes.
LEMMA TurnOneEach ==
    ASSUME IndInv, IndInv', WriteInv, NEW j \in Job, NEW p, NEW n,
           Turn(j, p, n), OthersKeep(j), InTurn(j, p, n), NEW k \in Job
    PROVE  OneEach(k)'
  <1>0. StoreOK /\ mem' \in [Job -> JobRecord]
    BY DEF IndInv, TypeOK, JobsOK
  <1> DEFINE d == IF p = "none" THEN 0 ELSE 1
             Old(i) == i + d \in Place /\ queue'[i] = queue[i + d]
             New(i) == /\ n # "none" /\ i = Len(queue')
                       /\ queue'[i] = Write(n, j, mem'[j])
  <1>1. \A i \in Place' : /\ Old(i) \/ New(i)
                          /\ i \in Nat
    BY <1>0, TurnPlaces DEF Place
  <1>2. d \in Nat
    OBVIOUS
  <1>3. ASSUME NEW i \in Place', NEW l \in Place', Old(i), New(l),
               queue'[i].job = k, queue'[l].job = k,
               queue'[i].who = queue'[l].who, queue'[i].who # "retry"
        PROVE  FALSE
    <2>1. k = j /\ queue[i + d].who = n /\ n # "none"
      BY <1>3 DEF Write
    <2>2. Awaits(n, j)
      BY <1>3, <2>1 DEF WriteInv, Queued, Awaited
    <2>3. n = p
      BY <1>3, <2>1, <2>2 DEF InTurn
    <2> QED BY <1>3, <2>1, <2>3, TurnLeft
  <1>4. ASSUME NEW i \in Place', NEW l \in Place', Old(i), Old(l),
               queue'[i].job = k, queue'[l].job = k,
               queue'[i].who = queue'[l].who, queue'[i].who # "retry"
        PROVE  i = l
    <2>1. i + d = l + d
      BY <1>4 DEF WriteInv, Queued, OneEach
    <2> QED BY <1>1, <1>2, <2>1
  <1> HIDE DEF d
  <1> QED BY <1>1, <1>3, <1>4 DEF OneEach

\* The landing order of the writes that are left does not change.
LEMMA BeforeShift ==
    ASSUME NEW i \in Nat, NEW l \in Nat, NEW d \in Nat,
           queue'[i] = queue[i + d], queue'[l] = queue[l + d]
    PROVE  Before(i, l)' <=> Before(i + d, l + d)
  BY DEF Before

\* After the turn a retry's write still comes last.
LEMMA TurnRetryLast ==
    ASSUME IndInv, IndInv', WriteInv, NEW j \in Job, NEW p, NEW n,
           Turn(j, p, n), OthersKeep(j), InTurn(j, p, n), NEW k \in Job
    PROVE  RetryLast(k)'
  <1>0. StoreOK /\ StoreOK' /\ mem' \in [Job -> JobRecord] /\ k # None
    BY HostAssumption DEF IndInv, TypeOK, JobsOK
  <1> DEFINE d == IF p = "none" THEN 0 ELSE 1
             Old(i) == i + d \in Place /\ queue'[i] = queue[i + d]
             New(i) == /\ n # "none" /\ i = Len(queue')
                       /\ queue'[i] = Write(n, j, mem'[j])
  <1>1. \A i \in Place' : Old(i) \/ New(i)
    BY <1>0, TurnPlaces
  <1>2. \A i \in Place' : i \in Nat /\ i <= Len(queue') /\ Len(queue') \in Nat
    BY <1>0 DEF Place, StoreOK
  <1>3. d \in {0, 1} /\ (d = 1 => p # "none") /\ (p # "none" => d = 1)
    OBVIOUS
  <1>4. d = 1 => 1 \in Place /\ queue[1].who = p /\ queue[1].job = j
    BY <1>0, TurnPlaces
  <1>5. \A i \in Place : i > d => i - d \in Place' /\ queue'[i - d] = queue[i]
    BY <1>0, TurnPlaces
  <1>6. n # "none" => /\ Len(queue') \in Place'
                      /\ queue'[Len(queue')] = Write(n, j, mem'[j])
                      /\ \A i \in Place : i - d < Len(queue')
    BY <1>0, TurnPlaces
  <1>7. \A i \in Place' : queue[i].op' \in {"update", "create"}
    <2>1. \A i \in Place : queue[i].op \in {"update", "create"}
      BY <1>0, WriteTypes
    <2> QED BY <1>1, <2>1 DEF Write
  <1>8. \A m \in Place : m \in Nat /\ m >= 1
    BY <1>0, WriteTypes
  <1>9. k # j => /\ bg'[k] = bg[k] /\ mem'[k] = mem[k]
                 /\ (recov'.job = k => recov.job = k)
    BY <1>0 DEF OthersKeep
  <1>10. \A i \in Place' : queue'[i].job = k /\ k # j => Old(i)
    BY <1>1 DEF Write
  <1>11. ASSUME NEW m \in Place, queue[m].job = k
         PROVE  Awaits(queue[m].who, k) /\ k \notin recov.todo
    BY <1>11 DEF WriteInv, Queued, Awaited
  <1>12. RetryLast(k)
    BY DEF WriteInv, Queued
  <1>13. ASSUME NEW i \in Place', Old(i), k = j, queue'[i].job = k,
                queue'[i].who = "bg"
         PROVE  Awaits("bg", j) /\ p # "bg"
    BY <1>11, <1>13, TurnLeft
  <1>14. ASSUME NEW i \in Place', NEW l \in Place', Old(i), Old(l)
         PROVE  Before(i, l)' <=> Before(i + d, l + d)
    BY <1>2, <1>3, <1>14, BeforeShift
  <1> HIDE DEF d
  <1>20. recov'.job = k =>
             \E i \in Place' : queue'[i].job = k /\ queue'[i].who = "recover"
    <2> SUFFICES ASSUME recov'.job = k
                 PROVE  \E i \in Place' : queue'[i].job = k
                                          /\ queue'[i].who = "recover"
      OBVIOUS
    <2>1. CASE n = "recover" /\ k = j
      BY <1>6, <2>1 DEF Write
    <2>2. CASE ~(n = "recover" /\ k = j)
      <3>1. recov.job = k /\ (k = j => p # "recover")
        BY <1>9, <2>2 DEF InTurn
      <3>2. PICK m \in Place : queue[m].job = k /\ queue[m].who = "recover"
        BY <1>12, <3>1 DEF RetryLast
      <3>3. m > d
        <4>1. d = 1 => m # 1
          BY <1>4, <1>9, <3>1, <3>2
        <4>2. m \in Nat /\ m >= 1
          BY <1>8
        <4> QED BY <1>3, <4>1, <4>2
      <3>4. m - d \in Place' /\ queue'[m - d] = queue[m]
        BY <1>5, <3>3
      <3> QED BY <3>2, <3>4
    <2> QED BY <2>1, <2>2
  <1>21. ASSUME NEW i \in Place', NEW l \in Place', queue'[i].job = k,
                queue'[l].job = k, queue'[l].who = "retry"
         PROVE  /\ queue'[i].who = "recover" => Before(i, l)'
                /\ queue'[i].who = "bg" /\ Before(i, l)' => Failing(k)'
    <2>1. CASE Old(i) /\ Old(l)
      <3>1. /\ queue[i + d].who = "recover" => Before(i + d, l + d)
            /\ queue[i + d].who = "bg" /\ Before(i + d, l + d) => Failing(k)
        BY <1>12, <1>21, <2>1 DEF RetryLast
      <3>2. queue'[i].who = "bg" /\ Failing(k) => Failing(k)'
        <4>1. CASE k # j
          BY <1>9, <4>1 DEF Failing
        <4>2. CASE k = j
          BY <1>13, <1>21, <2>1, <4>2 DEF InTurn
        <4> QED BY <4>1, <4>2
      <3> QED BY <1>14, <2>1, <3>1, <3>2
    <2>2. CASE New(i) /\ Old(l)
      <3>1. k = j /\ queue'[i].who = n /\ queue'[i].op = "update"
        BY <1>21, <2>2 DEF Write
      <3>2. n # "recover"
        BY <1>11, <1>21, <2>2, <3>1 DEF InTurn
      <3>3. ~Before(i, l)'
        BY <1>2, <2>2, <3>1 DEF Before
      <3> QED BY <3>1, <3>2, <3>3
    <2>3. CASE Old(i) /\ New(l)
      <3>1. k = j /\ n = "retry" /\ queue'[l].op = "update" /\ l = Len(queue')
        BY <1>21, <2>3 DEF Write
      <3>2. i < l
        <4>1. i + d \in Place /\ (i + d) - d < Len(queue') /\ i \in Nat
          BY <1>2, <1>6, <2>3, <3>1
        <4> QED BY <1>3, <3>1, <4>1
      <3>3. Before(i, l)'
        BY <1>7, <3>1, <3>2 DEF Before
      <3>4. queue'[i].who = "bg" => Failing(k)'
        BY <1>13, <1>21, <2>3, <3>1 DEF InTurn
      <3> QED BY <3>3, <3>4
    <2>4. CASE New(i) /\ New(l)
      BY <1>21, <2>4 DEF Write
    <2> QED BY <1>1, <2>1, <2>2, <2>3, <2>4
  <1>22. ASSUME Calm(k)', NEW l \in Place', queue'[l].job = k,
                queue'[l].who = "retry"
         PROVE  FALSE
    <2>1. CASE k # j
      <3>1. Calm(k)
        BY <1>9, <1>22, <2>1 DEF Calm, Failing
      <3>2. l + d \in Place /\ queue'[l] = queue[l + d]
        BY <1>10, <1>22, <2>1
      <3> QED BY <1>12, <1>22, <3>1, <3>2 DEF RetryLast
    <2>2. CASE k = j
      <3>1. /\ n # "retry"
            /\ Calm(j) \/ j \in recov.todo \/ (p = "bg" /\ ~Failing(j))
        BY <1>22, <2>2 DEF InTurn
      <3>2. l + d \in Place /\ queue'[l] = queue[l + d]
        BY <1>1, <1>22, <3>1 DEF Write
      <3>3. ~Calm(j) /\ j \notin recov.todo
        BY <1>11, <1>12, <1>22, <2>2, <3>2 DEF RetryLast
      <3>4. p = "bg" /\ ~Failing(j)
        BY <3>1, <3>3
      <3>5. p \in Who /\ NextWrite(p, j) /\ ~Missing(Head(queue))
        BY <3>4 DEF Turn
      <3> QED BY <1>0, <1>22, <2>2, <3>2, <3>4, <3>5, HeadFacts
    <2> QED BY <2>1, <2>2
  <1> QED BY <1>20, <1>21, <1>22 DEF RetryLast

\* What the turn of j leaves of the jobs.
LEMMA TurnSound ==
    ASSUME IndInv, IndInv', WriteInv, NEW j \in Job, NEW p, NEW n,
           Turn(j, p, n), OthersKeep(j), Settles(j)', Registered(j),
           NEW k \in Job
    PROVE  Sound(k)'
  <1>1. /\ Sound(k) /\ k # None
        /\ disk'[k].status = "absent" => disk'[k] = disk[k]
        /\ disk[k].status # "absent" => disk'[k].status # "absent"
    BY FileGrows, HostAssumption DEF WriteInv
  <1>2. disk'[k].status = "absent" => disk'[k] = Absent
    BY <1>1 DEF Sound, InStore
  <1>3. k \in recov'.todo => k \in recov.todo /\ disk'[k].status # "absent"
    BY <1>1 DEF Sound, InStore, OthersKeep
  <1>4. k \in recov'.todo => Known(k)'
    BY <1>3 DEF Known
  <1>5. Known(k) /\ end[k].at # "idle" => Known(k)'
    BY KnownStays
  <1>6. CASE k = j
    BY <1>2, <1>3, <1>4, <1>5, <1>6
       DEF Settles, Sound, InStore, Registered, OthersKeep
  <1>7. CASE k # j
    <2>1. /\ end'[k] = end[k] /\ bg'[k] = bg[k] /\ mem'[k] = mem[k]
          /\ recov'.job = k => recov.job = k
      BY <1>1, <1>7 DEF OthersKeep
    <2>2. TakeTurns(k)' /\ EndStatus(k)' /\ RunStatus(k)'
      BY <1>1, <2>1 DEF Sound, TakeTurns, EndStatus, RunStatus, Failing
    <2>3. end[k].at = "idle" => /\ ~mem[k].committed /\ recov.job # k
                                /\ k \notin recov.todo
      BY DEF IndInv, Fresh, Absent, Rec
    <2>4. /\ (\/ mem[k].committed \/ recov.job = k
              \/ end[k].at \in {"queued", "saving", "commit", "kick", "fail"})
                 => Known(k) /\ end[k].at # "idle"
          /\ mem[k].status = "absent" => mem[k] = Absent
      BY <1>1, <2>3 DEF Sound, InStore
    <2>5. (\/ mem'[k].committed \/ recov'.job = k \/ k \in recov'.todo
           \/ end'[k].at \in {"queued", "saving", "commit", "kick", "fail"})
              => Known(k)'
      BY <1>4, <1>5, <2>1, <2>4
    <2>6. mem'[k].status = "absent" => mem'[k] = Absent
      BY <2>1, <2>4
    <2>7. InStore(k)'
      BY <1>2, <1>3, <2>5, <2>6 DEF InStore
    <2> QED BY <2>2, <2>7 DEF Sound
  <1> QED BY <1>6, <1>7

\* A turn keeps the invariant.
LEMMA TurnKeeps ==
    ASSUME IndInv, IndInv', WriteInv, NEW j \in Job, NEW p, NEW n,
           Turn(j, p, n), OthersKeep(j), InTurn(j, p, n), Settles(j)',
           Registered(j)
    PROVE  WriteInv'
  <1> SUFFICES ASSUME NEW k \in Job PROVE Sound(k)' /\ Queued(k)'
    BY DEF WriteInv
  <1>1. Sound(k)'
    BY TurnSound
  <1>2. Awaited(k)' /\ OneEach(k)' /\ RetryLast(k)'
    BY TurnAwaited, TurnOneEach, TurnRetryLast
  <1> QED BY <1>1, <1>2 DEF Queued

-----------------------------------------------------------------------------
(* The turns of a background job *)

\* A write that landed or rejected makes a turn, whatever is queued next.
LEMMA WriteTurn ==
    ASSUME NEW j \in Job, NEW p \in Who, Landed(p, j) \/ Broken(p, j),
           NEW n \in Who \cup {"none"},
           queue' = IF n = "none" THEN Tail(queue)
                    ELSE Append(Tail(queue), Write(n, j, mem'[j]))
    PROVE  Turn(j, p, n)
  <1>1. p # "none"
    BY DEF Who
  <1>2. /\ NextWrite(p, j) /\ ~Missing(Head(queue))
        /\ Filed(j) \/ ("store" \in Env /\ UNCHANGED disk)
    BY DEF Landed, Broken, Filed
  <1> QED BY <1>1, <1>2 DEF Turn

\* So does a step that leaves the store alone.
LEMMA QuietTurn ==
    ASSUME NEW j \in Job, UNCHANGED disk, NEW n \in Who \cup {"none"},
           queue' = IF n = "none" THEN queue
                    ELSE Append(queue, Write(n, j, mem'[j]))
    PROVE  Turn(j, "none", n)
  BY DEF Turn

\* The other jobs' records and promises stay as they are.
OtherJobs(j) == \A k \in Job \ {j} : bg'[k] = bg[k] /\ mem'[k] = mem[k]

\* What is queued and set when the job goes on to a phase or to its end.
LEMMA EnterShape ==
    ASSUME mem \in [Job -> JobRecord], JobsOK, NEW j \in Job,
           NEW r \in JobRecord, NEW n, NEW q, Enter(j, r, n, q)
    PROVE  /\ OtherJobs(j)
           /\ queue' = Append(q, Write("bg", j, mem'[j]))
           /\ mem'[j].committed = r.committed
           /\ \/ bg'[j].at = "final" /\ mem'[j].status \in Terminal
              \/ bg'[j].at = "mark" /\ mem'[j].status \in Running
  <1>1. CASE Ahead(r, n) = {}
    <2> DEFINE m == WithStatus(r, IF r.errors THEN "completed_with_errors"
                                  ELSE "completed")
    <2>1. m.committed = r.committed /\ m.status \in Terminal
      BY DEF WithStatus, Terminal, JobRecord
    <2>2. /\ Set("bg", j, m, q)
          /\ bg' = [bg EXCEPT ![j] = At("final", "voicemail", TRUE)]
      BY <1>1 DEF Enter
    <2> HIDE DEF m
    <2> QED BY <2>1, <2>2 DEF Set, JobsOK, OtherJobs, At
  <1>2. CASE Ahead(r, n) # {}
    <2>1. PICK x \in First(Ahead(r, n)) :
              /\ Set("bg", j, WithStep(WithStatus(r, RunningStatus[x]),
                                       x, "running"), q)
              /\ bg' = [bg EXCEPT ![j] = At("mark", x, TRUE)]
      BY <1>2 DEF Enter
    <2> DEFINE m == WithStep(WithStatus(r, RunningStatus[x]), x, "running")
    <2>2. x \in Step
      BY DEF First, Ahead
    <2>3. m.committed = r.committed /\ m.status \in Running
      BY <2>2 DEF WithStatus, WithStep, Running, RunningStatus, JobRecord, Step
    <2>4. /\ Set("bg", j, m, q)
          /\ bg' = [bg EXCEPT ![j] = At("mark", x, TRUE)]
      BY <2>1
    <2> HIDE DEF m
    <2> QED BY <2>3, <2>4 DEF Set, JobsOK, OtherJobs, At
  <1> QED BY <1>1, <1>2

\* When the result of a phase is recorded.
LEMMA NoteShape ==
    ASSUME JobsOK, NEW j \in Job, NEW p \in Step, NEW ok \in BOOLEAN, NEW q,
           Note(j, p, ok, q)
    PROVE  /\ OtherJobs(j)
           /\ queue' = Append(q, Write("bg", j, mem'[j]))
           /\ mem'[j].committed = mem[j].committed
           /\ bg'[j].at = "note" /\ bg'[j].ph = p /\ bg'[j].ok = ok
           /\ mem'[j].status = IF ok THEN mem[j].status ELSE "failed_retryable"
  <1> DEFINE m == IF ok THEN WithStep(mem[j], p, "finished")
                  ELSE Failed(WithStep(mem[j], p, "failed"))
  <1>1. mem[j] \in JobRecord
    BY DEF JobsOK
  <1>2. /\ m.committed = mem[j].committed
        /\ m.status = IF ok THEN mem[j].status ELSE "failed_retryable"
    BY <1>1 DEF WithStep, Failed, JobRecord
  <1>3. Set("bg", j, m, q) /\ bg' = [bg EXCEPT ![j] = At("note", p, ok)]
    BY DEF Note
  <1> HIDE DEF m
  <1> QED BY <1>2, <1>3 DEF Set, JobsOK, OtherJobs, At

\* When the outermost catch records a failure.
LEMMA CatchShape ==
    ASSUME JobsOK, NEW j \in Job, NEW q, Catch(j, q)
    PROVE  /\ OtherJobs(j)
           /\ queue' = Append(q, Write("bg", j, mem'[j]))
           /\ mem'[j].committed = mem[j].committed
           /\ bg'[j].at = "catch" /\ mem'[j].status = "failed_retryable"
  <1>1. mem[j] \in JobRecord
    BY DEF JobsOK
  <1>2. /\ Failed(mem[j]).committed = mem[j].committed
        /\ Failed(mem[j]).status = "failed_retryable"
    BY <1>1 DEF Failed, JobRecord
  <1> QED BY <1>2 DEF Catch, Set, JobsOK, OtherJobs, At

\* When a job is started, or not since its promise lives.
LEMMA StartShape ==
    ASSUME JobsOK, NEW j \in Job, NEW q, StartBackground(j, q)
    PROVE  /\ OtherJobs(j)
           /\ mem'[j].committed = mem[j].committed
           /\ \/ queue' = q /\ UNCHANGED <<mem, bg>>
              \/ /\ bg[j].at = "idle" /\ mem[j].committed
                 /\ queue' = Append(q, Write("bg", j, mem'[j]))
                 /\ \/ bg'[j].at = "final" /\ mem'[j].status \in Terminal
                    \/ bg'[j].at = "mark" /\ mem'[j].status \in Running
                    \/ /\ bg'[j].at = "catch"
                       /\ mem'[j].status = "failed_retryable"
  <1>1. mem[j] \in JobRecord /\ mem \in [Job -> JobRecord]
    BY DEF JobsOK
  <1>2. CASE bg[j].at # "idle" \/ ~mem[j].committed
    BY <1>2 DEF StartBackground, OtherJobs
  <1>3. CASE bg[j].at = "idle" /\ mem[j].committed /\ loaded
    <2>1. Enter(j, mem[j], 1, q)
      BY <1>3 DEF StartBackground
    <2> QED BY <1>1, <1>3, <2>1, EnterShape
  <1>4. CASE bg[j].at = "idle" /\ mem[j].committed /\ ~loaded
    <2>1. /\ Failed(mem[j]).committed = mem[j].committed
          /\ Failed(mem[j]).status = "failed_retryable"
      BY <1>1 DEF Failed, JobRecord
    <2>2. /\ Set("bg", j, Failed(mem[j]), q)
          /\ bg' = [bg EXCEPT ![j] = At("catch", "memory", FALSE)]
      BY <1>4 DEF StartBackground
    <2> QED BY <1>4, <2>1, <2>2 DEF Set, JobsOK, OtherJobs, At
  <1> QED BY <1>2, <1>3, <1>4

\* A background job takes its turns on its own: nobody else is at work on the
\* job, retries aside.
LEMMA BgTurn ==
    ASSUME IndInv, IndInv', WriteInv, NEW j \in Job, NEW p \in {"bg", "none"},
           NEW n \in {"bg", "none"}, Turn(j, p, n), UNCHANGED <<end, recov>>,
           OtherJobs(j), bg[j].at # "idle",
           Awaits("bg", j) <=> p = "bg", Awaits("bg", j)' <=> n = "bg",
           mem'[j].committed = mem[j].committed, mem'[j].status # "absent",
           RunStatus(j)',
           Calm(j)' => Calm(j) \/ (p = "bg" /\ ~Failing(j)),
           n = "none" => mem'[j] = mem[j],
           p = "none" /\ Between(j)' => Between(j),
           p = "bg" /\ n = "none" /\ Between(j)' => Filed(j)
    PROVE  JobTurn(j)
  <1>1. Sound(j) /\ Queued(j)
    BY DEF WriteInv
  <1>2. end[j].at \in Over /\ recov.job # j /\ mem[j].committed
    BY <1>1 DEF Sound, TakeTurns, RunStatus
  <1>3. Known(j) /\ end[j].at # "idle" /\ end[j].at # "register"
    BY <1>1, <1>2 DEF Sound, InStore, Over
  <1>4. OthersKeep(j)
    <2>1. \A k \in Job : k \in recov.todo => k # j
      BY DEF IndInv, ToVisit
    <2> QED BY <1>3, <2>1 DEF OthersKeep, OtherJobs
  <1>5. \A who \in Who : Awaits(who, j) /\ who # p => Awaits(who, j)'
    BY DEF Awaits, Who
  <1>6. InTurn(j, p, n)
    BY <1>2, <1>3, <1>5 DEF InTurn, Who
  <1>7. Settles(j)'
    <2>1. TakeTurns(j)' /\ EndStatus(j)'
      BY <1>2 DEF TakeTurns, EndStatus, Over
    <2> QED BY <2>1 DEF Settles
  <1>8. Registered(j)
    BY <1>3 DEF Registered
  <1> QED BY <1>4, <1>6, <1>7, <1>8 DEF JobTurn

\* What is known of a job with a promise.
LEMMA AtWork ==
    ASSUME IndInv, WriteInv, NEW j \in Job, bg[j].at # "idle"
    PROVE  /\ JobsOK /\ mem \in [Job -> JobRecord] /\ mem[j] \in JobRecord
           /\ Sound(j)
           /\ "bg" \in Who /\ "bg" \in Who \cup {"none"}
           /\ "none" \in Who \cup {"none"}
           /\ mem[j].committed /\ mem[j].status # "absent" /\ recov.job # j
           /\ Landed("bg", j) => Filed(j)
           /\ end[j].at \notin {"queued", "saving"}
  <1>1. /\ JobsOK /\ mem \in [Job -> JobRecord] /\ mem[j] \in JobRecord
        /\ Sound(j)
    BY DEF IndInv, TypeOK, JobsOK, WriteInv
  <1>2. mem[j].committed /\ recov.job # j
    BY <1>1 DEF Sound, TakeTurns, RunStatus
  <1>3. mem[j].status # "absent"
    <2>1. ~Absent.committed
      BY DEF Absent, Rec
    <2> QED BY <1>1, <1>2, <2>1 DEF Sound, InStore
  <1>4. Landed("bg", j) => Filed(j)
    BY DEF Landed, Filed
  <1>5. end[j].at \notin {"queued", "saving"}
    BY <1>1 DEF Sound, TakeTurns, Over
  <1> QED BY <1>1, <1>2, <1>3, <1>4, <1>5 DEF Who

\* The memory and rollup phases.
LEMMA MemoryWrites ==
    ASSUME IndInv, IndInv', WriteInv, NEW j \in Job,
           Marked(j) \/ MemoryAnswers(j) \/ MemoryNoted(j)
    PROVE  JobTurn(j)
  <1>a. bg[j].at # "idle" /\ UNCHANGED <<end, recov>>
    BY DEF Marked, MemoryAnswers, MemoryNoted, Sleeps, callVars
  <1>0. /\ JobsOK /\ mem \in [Job -> JobRecord] /\ mem[j] \in JobRecord
        /\ Sound(j)
        /\ "bg" \in Who /\ "bg" \in Who \cup {"none"}
        /\ "none" \in Who \cup {"none"}
        /\ mem[j].committed /\ mem[j].status # "absent" /\ recov.job # j
        /\ Landed("bg", j) => Filed(j)
        /\ end[j].at \notin {"queued", "saving"}
    BY <1>a, AtWork
  <1>1. CASE Marked(j)
    <2>1. /\ bg[j].at = "mark" /\ Landed("bg", j) /\ ~Failing(j)
          /\ mem[j].status # "failed_retryable"
          /\ mem[j].status \notin Terminal
      BY <1>0, <1>1 DEF Marked, Sound, RunStatus, Failing
    <2>2. CASE Note(j, "rollup", TRUE, Tail(queue))
      <3>1. /\ OtherJobs(j) /\ bg'[j].at = "note" /\ bg'[j].ok
            /\ queue' = Append(Tail(queue), Write("bg", j, mem'[j]))
            /\ mem'[j].committed = mem[j].committed
            /\ mem'[j].status = mem[j].status
        BY <1>0, <2>2, NoteShape DEF Step
      <3>2. Turn(j, "bg", "bg")
        BY <1>0, <2>1, <3>1, WriteTurn
      <3>3. RunStatus(j)' /\ ~Calm(j)'
        BY <1>a, <1>0, <2>1, <3>1 DEF RunStatus, Calm
      <3> QED BY <1>a, <1>0, <2>1, <3>1, <3>2, <3>3, BgTurn DEF Awaits, Between
    <2>3. CASE /\ bg' = [bg EXCEPT ![j].at = "work"] \/
                  bg' = [bg EXCEPT ![j].at = "queued"]
               /\ queue' = Tail(queue) /\ UNCHANGED mem
      <3>1. /\ OtherJobs(j) /\ bg'[j].at \in {"work", "queued"}
        BY <1>0, <2>3 DEF OtherJobs, JobsOK
      <3>2. Turn(j, "bg", "none")
        BY <1>0, <2>1, <2>3, WriteTurn
      <3>3. RunStatus(j)'
        BY <1>a, <1>0, <2>1, <2>3, <3>1 DEF RunStatus
      <3> QED BY <1>a, <1>0, <2>1, <2>3, <3>1, <3>2, <3>3, BgTurn
             DEF Awaits, Between
    <2> QED BY <1>1, <2>2, <2>3 DEF Marked
  <1>2. CASE MemoryAnswers(j)
    <2>1. PICK x \in {"memory", "rollup"}, ok \in BOOLEAN :
              Sleeps(j, "work", x) /\ Note(j, x, ok, queue)
      BY <1>2 DEF MemoryAnswers
    <2>2. /\ bg[j].at = "work" /\ x \in Step /\ x # "media"
          /\ mem[j].status # "failed_retryable"
          /\ mem[j].status \notin Terminal
      BY <1>0, <2>1 DEF Sleeps, Step, Sound, RunStatus, Failing
    <2>3. /\ OtherJobs(j)
          /\ bg'[j].at = "note" /\ bg'[j].ph = x /\ bg'[j].ok = ok
          /\ queue' = Append(queue, Write("bg", j, mem'[j]))
          /\ mem'[j].committed = mem[j].committed
          /\ mem'[j].status = IF ok THEN mem[j].status ELSE "failed_retryable"
      BY <1>0, <2>1, <2>2, NoteShape
    <2>4. Turn(j, "none", "bg")
      BY <1>0, <1>2, <2>3, QuietTurn DEF MemoryAnswers
    <2>5. RunStatus(j)' /\ ~Calm(j)'
      BY <1>a, <1>0, <2>2, <2>3 DEF RunStatus, Failing, Calm, Terminal
    <2> QED BY <1>a, <1>0, <2>2, <2>3, <2>4, <2>5, BgTurn DEF Awaits, Between
  <1>3. CASE MemoryNoted(j)
    <2>1. /\ bg[j].at = "note" /\ Landed("bg", j)
          /\ mem[j].status \notin Terminal
      BY <1>0, <1>3 DEF MemoryNoted, Sound, RunStatus
    <2>2. CASE Enter(j, mem[j], Order[bg[j].ph] + 1, Tail(queue))
      <3>1. /\ OtherJobs(j) /\ mem'[j].committed = mem[j].committed
            /\ queue' = Append(Tail(queue), Write("bg", j, mem'[j]))
            /\ \/ bg'[j].at = "final" /\ mem'[j].status \in Terminal
               \/ bg'[j].at = "mark" /\ mem'[j].status \in Running
        BY <1>0, <2>2, EnterShape
      <3>2. Turn(j, "bg", "bg")
        BY <1>0, <2>1, <3>1, WriteTurn
      <3>3. RunStatus(j)' /\ ~Calm(j)' /\ mem'[j].status # "absent"
        BY <1>a, <1>0, <3>1 DEF RunStatus, Calm, Terminal, Running
      <3> QED BY <1>a, <1>0, <2>1, <3>1, <3>2, <3>3, BgTurn DEF Awaits, Between
    <2>3. CASE /\ queue' = Tail(queue) /\ bg' = [bg EXCEPT ![j] = Idle]
               /\ UNCHANGED mem
      <3>1. OtherJobs(j) /\ bg'[j].at = "idle"
        BY <1>0, <2>3 DEF OtherJobs, JobsOK, Idle, At
      <3>2. Turn(j, "bg", "none")
        BY <1>0, <2>1, <2>3, WriteTurn
      <3>3. RunStatus(j)' /\ ~Calm(j)'
        BY <1>a, <1>0, <2>1, <2>3, <3>1 DEF RunStatus, Calm
      <3> QED BY <1>a, <1>0, <2>1, <2>3, <3>1, <3>2, <3>3, BgTurn
             DEF Awaits, Between
    <2> QED BY <1>3, <2>2, <2>3 DEF MemoryNoted
  <1> QED BY <1>1, <1>2, <1>3

\* The media phase.
LEMMA MediaWrites ==
    ASSUME IndInv, IndInv', WriteInv, NEW j \in Job,
           StartMedia(j) \/ SinkAnswers(j) \/ MediaSaved(j) \/ MediaNoted(j)
    PROVE  JobTurn(j)
  <1>a. bg[j].at # "idle" /\ UNCHANGED <<end, recov>>
    BY DEF StartMedia, SinkAnswers, MediaSaved, MediaNoted, Sleeps, callVars
  <1>0. /\ JobsOK /\ mem \in [Job -> JobRecord] /\ mem[j] \in JobRecord
        /\ Sound(j)
        /\ "bg" \in Who /\ "bg" \in Who \cup {"none"}
        /\ "none" \in Who \cup {"none"}
        /\ mem[j].committed /\ mem[j].status # "absent" /\ recov.job # j
        /\ Landed("bg", j) => Filed(j)
        /\ end[j].at \notin {"queued", "saving"}
    BY <1>a, AtWork
  <1>1. CASE StartMedia(j) \/ SinkAnswers(j)
    <2>1. /\ bg[j].at \in {"queued", "work"} /\ ~Failing(j)
          /\ mem[j].status # "failed_retryable"
          /\ mem[j].status \notin Terminal
      BY <1>0, <1>1
         DEF StartMedia, SinkAnswers, Sleeps, Sound, RunStatus, Failing
    <2>2. /\ OtherJobs(j) /\ bg'[j].at \in {"saving", "work"}
          /\ UNCHANGED <<mem, disk, queue>>
      BY <1>0, <1>1
         DEF StartMedia, SinkAnswers, OtherJobs, JobsOK, At, storeVars
    <2>3. Turn(j, "none", "none")
      BY <2>2, QuietTurn
    <2>4. RunStatus(j)'
      BY <1>a, <1>0, <2>1, <2>2 DEF RunStatus
    <2>5. Calm(j)
      BY <2>1 DEF Calm
    <2> QED BY <1>a, <1>0, <2>1, <2>2, <2>3, <2>4, <2>5, BgTurn
           DEF Awaits, Between
  <1>2. CASE MediaSaved(j)
    <2>1. /\ bg[j].at = "saving" /\ bg[j].ph = "media" /\ ~Failing(j)
          /\ mem[j].status # "failed_retryable"
          /\ mem[j].status \notin Terminal
      BY <1>0, <1>2 DEF MediaSaved, Sleeps, Sound, RunStatus, Failing
    <2> DEFINE r == [WithStep(mem[j], "media",
                              IF bg[j].ok THEN "finished" ELSE "failed")
                        EXCEPT !.errors = @ \/ ~bg[j].ok]
    <2>2. r.committed = mem[j].committed /\ r.status = mem[j].status
      BY <1>0 DEF WithStep, JobRecord
    <2>3. Set("bg", j, r, queue) /\ bg' = [bg EXCEPT ![j].at = "note"]
      BY <1>2 DEF MediaSaved
    <2> HIDE DEF r
    <2>4. /\ OtherJobs(j) /\ bg'[j].at = "note" /\ mem'[j] = r
          /\ queue' = Append(queue, Write("bg", j, mem'[j]))
      BY <1>0, <2>3 DEF Set, OtherJobs, JobsOK
    <2>5. Turn(j, "none", "bg")
      BY <1>0, <1>2, <2>4, QuietTurn DEF MediaSaved
    <2>6. RunStatus(j)' /\ ~Calm(j)'
      BY <1>a, <1>0, <2>1, <2>2, <2>4 DEF RunStatus, Calm
    <2> QED BY <1>a, <1>0, <2>1, <2>2, <2>4, <2>5, <2>6, BgTurn
           DEF Awaits, Between
  <1>3. CASE MediaNoted(j)
    <2>1. bg[j].at = "note" /\ Landed("bg", j)
      BY <1>3 DEF MediaNoted, Sleeps
    <2>2. CASE Enter(j, mem[j], Order["media"] + 1, Tail(queue))
      <3>1. /\ OtherJobs(j) /\ mem'[j].committed = mem[j].committed
            /\ queue' = Append(Tail(queue), Write("bg", j, mem'[j]))
            /\ \/ bg'[j].at = "final" /\ mem'[j].status \in Terminal
               \/ bg'[j].at = "mark" /\ mem'[j].status \in Running
        BY <1>0, <2>2, EnterShape
      <3>2. Turn(j, "bg", "bg")
        BY <1>0, <2>1, <3>1, WriteTurn
      <3>3. RunStatus(j)' /\ ~Calm(j)' /\ mem'[j].status # "absent"
        BY <1>a, <1>0, <3>1 DEF RunStatus, Calm, Terminal, Running
      <3> QED BY <1>a, <1>0, <2>1, <3>1, <3>2, <3>3, BgTurn DEF Awaits, Between
    <2>3. CASE /\ Set("bg", j, WithStatus(mem[j], "failed_retryable"),
                      Tail(queue))
               /\ bg' = [bg EXCEPT ![j].at = "fail"]
      <3>1. WithStatus(mem[j], "failed_retryable").status = "failed_retryable"
            /\ WithStatus(mem[j], "failed_retryable").committed
        BY <1>0 DEF WithStatus, JobRecord
      <3>2. /\ OtherJobs(j) /\ bg'[j].at = "fail"
            /\ mem'[j].committed /\ mem'[j].status = "failed_retryable"
            /\ queue' = Append(Tail(queue), Write("bg", j, mem'[j]))
        BY <1>0, <2>3, <3>1 DEF Set, OtherJobs, JobsOK
      <3>3. Turn(j, "bg", "bg")
        BY <1>0, <2>1, <3>2, WriteTurn
      <3>4. RunStatus(j)' /\ ~Calm(j)'
        BY <1>a, <1>0, <3>2 DEF RunStatus, Calm, Failing, Terminal
      <3> QED BY <1>a, <1>0, <2>1, <3>2, <3>3, <3>4, BgTurn DEF Awaits, Between
    <2> QED BY <1>3, <2>2, <2>3 DEF MediaNoted
  <1> QED BY <1>1, <1>2, <1>3

\* The voicemail phase.
LEMMA VoicemailWrites ==
    ASSUME IndInv, IndInv', WriteInv, NEW j \in Job,
           \/ StartVoicemail(j) \/ VoicemailAnswers(j)
           \/ VoicemailNoted(j) \/ VoicemailSaved(j)
    PROVE  JobTurn(j)
  <1>a. bg[j].at # "idle" /\ UNCHANGED <<end, recov>>
    BY DEF StartVoicemail, VoicemailAnswers, VoicemailNoted, VoicemailSaved,
           Sleeps, callVars
  <1>0. /\ JobsOK /\ mem \in [Job -> JobRecord] /\ mem[j] \in JobRecord
        /\ Sound(j)
        /\ "bg" \in Who /\ "bg" \in Who \cup {"none"}
        /\ "none" \in Who \cup {"none"}
        /\ mem[j].committed /\ mem[j].status # "absent" /\ recov.job # j
        /\ Landed("bg", j) => Filed(j)
        /\ end[j].at \notin {"queued", "saving"}
    BY <1>a, AtWork
  <1>1. CASE StartVoicemail(j)
    <2>1. /\ bg[j].at = "queued" /\ ~Failing(j)
          /\ mem[j].status # "failed_retryable"
          /\ mem[j].status \notin Terminal
      BY <1>0, <1>1 DEF StartVoicemail, Sleeps, Sound, RunStatus, Failing
    <2>2. /\ OtherJobs(j) /\ bg'[j].at = "work"
          /\ UNCHANGED <<mem, disk, queue>>
      BY <1>0, <1>1 DEF StartVoicemail, OtherJobs, JobsOK, storeVars
    <2>3. Turn(j, "none", "none")
      BY <2>2, QuietTurn
    <2>4. RunStatus(j)' /\ Calm(j)
      BY <1>a, <1>0, <2>1, <2>2 DEF RunStatus, Calm
    <2> QED BY <1>a, <1>0, <2>1, <2>2, <2>3, <2>4, BgTurn DEF Awaits, Between
  <1>2. CASE VoicemailAnswers(j)
    <2>1. PICK ok \in BOOLEAN : Note(j, "voicemail", ok, queue)
      BY <1>2 DEF VoicemailAnswers
    <2>2. /\ bg[j].at = "work" /\ mem[j].status # "failed_retryable"
          /\ mem[j].status \notin Terminal
      BY <1>0, <1>2 DEF VoicemailAnswers, Sleeps, Sound, RunStatus, Failing
    <2>3. /\ OtherJobs(j)
          /\ bg'[j].at = "note" /\ bg'[j].ph = "voicemail" /\ bg'[j].ok = ok
          /\ queue' = Append(queue, Write("bg", j, mem'[j]))
          /\ mem'[j].committed = mem[j].committed
          /\ mem'[j].status = IF ok THEN mem[j].status ELSE "failed_retryable"
      BY <1>0, <2>1, NoteShape DEF Step
    <2>4. Turn(j, "none", "bg")
      BY <1>0, <1>2, <2>3, QuietTurn DEF VoicemailAnswers
    <2>5. RunStatus(j)' /\ ~Calm(j)'
      BY <1>a, <1>0, <2>2, <2>3 DEF RunStatus, Failing, Calm, Terminal
    <2> QED BY <1>a, <1>0, <2>2, <2>3, <2>4, <2>5, BgTurn DEF Awaits, Between
  <1>3. CASE VoicemailNoted(j)
    <2>1. /\ bg[j].at = "note" /\ bg[j].ph = "voicemail" /\ Landed("bg", j)
          /\ mem[j].status \notin Terminal
          /\ mem[j].status = "failed_retryable" => Failing(j)
      BY <1>0, <1>3 DEF VoicemailNoted, Sleeps, Sound, RunStatus
    <2>2. /\ OtherJobs(j) /\ bg'[j].at = "saving" /\ bg'[j].ph = "voicemail"
          /\ bg'[j].ok = bg[j].ok /\ queue' = Tail(queue) /\ UNCHANGED mem
      BY <1>0, <1>3, <2>1 DEF VoicemailNoted, OtherJobs, JobsOK
    <2>3. Turn(j, "bg", "none")
      BY <1>0, <2>1, <2>2, WriteTurn
    <2>4. Failing(j)' <=> Failing(j)
      BY <2>1, <2>2 DEF Failing
    <2>5. RunStatus(j)' /\ (Calm(j)' => ~Failing(j))
      BY <1>a, <1>0, <2>1, <2>2, <2>4 DEF RunStatus, Calm
    <2> QED BY <1>a, <1>0, <2>1, <2>2, <2>3, <2>5, BgTurn DEF Awaits, Between
  <1>4. CASE VoicemailSaved(j)
    <2>1. bg[j].at = "saving" /\ mem[j].status \notin Terminal
      BY <1>0, <1>4 DEF VoicemailSaved, Sleeps, Sound, RunStatus
    <2>2. CASE Enter(j, mem[j], Order["voicemail"] + 1, queue)
      <3>1. /\ OtherJobs(j) /\ mem'[j].committed = mem[j].committed
            /\ queue' = Append(queue, Write("bg", j, mem'[j]))
            /\ \/ bg'[j].at = "final" /\ mem'[j].status \in Terminal
               \/ bg'[j].at = "mark" /\ mem'[j].status \in Running
        BY <1>0, <2>2, EnterShape
      <3>2. Turn(j, "none", "bg")
        BY <1>0, <1>4, <3>1, QuietTurn DEF VoicemailSaved
      <3>3. RunStatus(j)' /\ ~Calm(j)' /\ mem'[j].status # "absent"
        BY <1>a, <1>0, <3>1 DEF RunStatus, Calm, Terminal, Running
      <3> QED BY <1>a, <1>0, <2>1, <3>1, <3>2, <3>3, BgTurn DEF Awaits, Between
    <2>3. CASE bg' = [bg EXCEPT ![j] = Idle] /\ UNCHANGED <<mem, queue>>
      <3>1. OtherJobs(j) /\ bg'[j].at = "idle" /\ mem'[j] = mem[j]
        BY <1>0, <2>3 DEF OtherJobs, JobsOK, Idle, At
      <3>2. Turn(j, "none", "none")
        BY <1>4, <2>3, QuietTurn DEF VoicemailSaved
      <3>3. RunStatus(j)' /\ ~Calm(j)'
        BY <1>a, <1>0, <2>1, <3>1 DEF RunStatus, Calm
      <3> QED BY <1>a, <1>0, <2>1, <3>1, <3>2, <3>3, BgTurn DEF Awaits, Between
    <2> QED BY <1>4, <2>2, <2>3 DEF VoicemailSaved
  <1> QED BY <1>1, <1>2, <1>3, <1>4

\* The last write, and the writes and saves that reject.
LEMMA SettleWrites ==
    ASSUME IndInv, IndInv', WriteInv, NEW j \in Job,
           Settled(j) \/ StoreRejects(j) \/ SaveRejects(j)
    PROVE  JobTurn(j)
  <1>a. bg[j].at # "idle" /\ UNCHANGED <<end, recov>>
    BY DEF Settled, StoreRejects, SaveRejects, callVars
  <1>0. /\ JobsOK /\ mem \in [Job -> JobRecord] /\ mem[j] \in JobRecord
        /\ Sound(j)
        /\ "bg" \in Who /\ "bg" \in Who \cup {"none"}
        /\ "none" \in Who \cup {"none"}
        /\ mem[j].committed /\ mem[j].status # "absent" /\ recov.job # j
        /\ Landed("bg", j) => Filed(j)
        /\ end[j].at \notin {"queued", "saving"}
    BY <1>a, AtWork
  <1>1. ASSUME bg[j].at \in {"fail", "final", "catch"},
               Landed("bg", j) \/ Broken("bg", j), bg[j].at = "final" =>
               Landed("bg", j), queue' = Tail(queue),
               bg' = [bg EXCEPT ![j] = Idle], UNCHANGED mem
        PROVE  JobTurn(j)
    <2>1. OtherJobs(j) /\ bg'[j].at = "idle" /\ mem'[j] = mem[j]
      BY <1>0, <1>1 DEF OtherJobs, JobsOK, Idle, At
    <2>2. Turn(j, "bg", "none")
      BY <1>0, <1>1, WriteTurn
    <2>3. RunStatus(j)' /\ (Calm(j)' => ~Failing(j))
      BY <1>a, <1>0, <1>1, <2>1 DEF RunStatus, Calm, Failing, Sound
    <2> QED BY <1>a, <1>0, <1>1, <2>1, <2>2, <2>3, BgTurn DEF Awaits, Between
  <1>2. ASSUME NEW p \in {"bg", "none"}, Awaits("bg", j) <=> p = "bg",
               Turn(j, p, "bg"), OtherJobs(j), bg'[j].at = "catch",
               mem'[j].committed, mem'[j].status = "failed_retryable"
        PROVE  JobTurn(j)
    <2>1. RunStatus(j)' /\ ~Calm(j)'
      BY <1>a, <1>0, <1>2 DEF RunStatus, Calm, Failing, Terminal
    <2> QED BY <1>a, <1>0, <1>2, <2>1, BgTurn DEF Awaits, Between
  <1>3. CASE Settled(j)
    BY <1>1, <1>3 DEF Settled
  <1>4. CASE StoreRejects(j)
    <2>1. Broken("bg", j) /\ Awaits("bg", j)
      BY <1>4 DEF StoreRejects, Awaits
    <2>2. CASE bg[j].at = "catch"
      <3>1. bg' = [bg EXCEPT ![j] = Idle] /\ queue' = Tail(queue)
            /\ UNCHANGED mem
        BY <1>4, <2>2 DEF StoreRejects, Guarded
      <3> QED BY <1>1, <2>1, <2>2, <3>1
    <2>3. CASE Guarded(j) /\ Note(j, bg[j].ph, FALSE, Tail(queue))
      <3>1. bg[j].ph \in Step /\ bg[j].ph # "media" /\ bg[j].at = "note"
        BY <1>0, <2>3 DEF JobsOK, Guarded
      <3>2. /\ OtherJobs(j)
            /\ bg'[j].at = "note" /\ bg'[j].ph = bg[j].ph /\ ~bg'[j].ok
            /\ queue' = Append(Tail(queue), Write("bg", j, mem'[j]))
            /\ mem'[j].committed = mem[j].committed
            /\ mem'[j].status = "failed_retryable"
        BY <1>0, <2>3, <3>1, NoteShape
      <3>3. Turn(j, "bg", "bg")
        BY <1>0, <2>1, <3>2, WriteTurn
      <3>4. RunStatus(j)' /\ ~Calm(j)'
        BY <1>a, <1>0, <3>1, <3>2 DEF RunStatus, Calm, Failing, Terminal
      <3> QED BY <1>a, <1>0, <2>1, <3>1, <3>2, <3>3, <3>4, BgTurn
             DEF Awaits, Between
    <2>4. CASE Catch(j, Tail(queue))
      <3>1. /\ OtherJobs(j) /\ bg'[j].at = "catch"
            /\ queue' = Append(Tail(queue), Write("bg", j, mem'[j]))
            /\ mem'[j].committed = mem[j].committed
            /\ mem'[j].status = "failed_retryable"
        BY <1>0, <2>4, CatchShape
      <3>2. Turn(j, "bg", "bg")
        BY <1>0, <2>1, <3>1, WriteTurn
      <3> QED BY <1>0, <1>2, <2>1, <3>1, <3>2
    <2> QED BY <1>4, <2>2, <2>3, <2>4 DEF StoreRejects
  <1>5. CASE SaveRejects(j)
    <2>1. bg[j].at = "saving" /\ Catch(j, queue) /\ UNCHANGED disk
      BY <1>5 DEF SaveRejects
    <2>2. /\ OtherJobs(j) /\ bg'[j].at = "catch"
          /\ queue' = Append(queue, Write("bg", j, mem'[j]))
          /\ mem'[j].committed = mem[j].committed
          /\ mem'[j].status = "failed_retryable"
      BY <1>0, <2>1, CatchShape
    <2>3. Turn(j, "none", "bg") /\ ~Awaits("bg", j)
      BY <1>0, <2>1, <2>2, QuietTurn DEF Awaits
    <2> QED BY <1>0, <1>2, <2>2, <2>3
  <1> QED BY <1>3, <1>4, <1>5

-----------------------------------------------------------------------------
(* The turns of an endCall *)

\* An endCall that is not over is alone with its job.
LEMMA EndTurn ==
    ASSUME IndInv, IndInv', WriteInv, NEW j \in Job, Ending(j),
           NEW p \in {"end", "none"}, NEW n \in {"end", "none"}, Turn(j, p, n),
           UNCHANGED <<bg, recov>>, \A k \in Job \ {j} : mem'[k] = mem[k],
           end'[j].at # "idle",
           Awaits("end", j) <=> p = "end", Awaits("end", j)' <=> n = "end",
           EndStatus(j)', mem'[j].status \notin Terminal,
           mem'[j].status = "absent" => mem'[j] = Absent,
           n = "end" => /\ mem'[j].status # "absent"
                        /\ end'[j].at = "register" \/ Known(j),
           end[j].at = "register" => p = "end" /\ n = "none",
           n = "none" => mem'[j] = mem[j],
           p = "none" /\ Between(j)' => Between(j),
           p = "end" /\ n = "none" /\ Between(j)' => Filed(j),
           Registered(j)
    PROVE  JobTurn(j)
  <1>1. Sound(j) /\ end[j].at \notin Over /\ end[j].at # "idle"
    BY EndingEnds DEF WriteInv
  <1>2. bg[j].at = "idle" /\ recov.job # j
    BY <1>1 DEF Sound, TakeTurns
  <1>3. OthersKeep(j)
    <2>1. \A k \in Job : k \in recov.todo => k # j
      BY <1>1 DEF IndInv, ToVisit
    <2> QED BY <2>1, EndingEnds DEF OthersKeep
  <1>4. \A who \in Who : Awaits(who, j) /\ who # p => Awaits(who, j)'
    BY <1>1, <1>2 DEF Awaits, Who
  <1>5. InTurn(j, p, n)
    <2>1. ~Awaits("bg", j) /\ ~Calm(j)' /\ recov'.job # j
      BY <1>2 DEF Awaits, Calm
    <2>2. n # "recover" /\ n # "retry"
      OBVIOUS
    <2> QED BY <1>1, <1>4, <2>1, <2>2 DEF InTurn, Who
  <1>6. Settles(j)'
    <2>1. TakeTurns(j)' /\ RunStatus(j)'
      BY <1>2 DEF TakeTurns, RunStatus
    <2> QED BY <2>1 DEF Settles
  <1> QED BY <1>3, <1>5, <1>6 DEF JobTurn

\* What is known of the job of an endCall that is not over.
LEMMA AtEnd ==
    ASSUME IndInv, WriteInv, NEW j \in Job, Ending(j)
    PROVE  /\ CallsOK /\ JobsOK /\ mem[j] \in JobRecord /\ Sound(j)
           /\ end[j].at \notin Over \cup {"idle"}
           /\ mem[j].status \notin Terminal /\ ~Absent.committed
           /\ Absent.status = "absent"
           /\ "end" \in Who /\ "end" \in Who \cup {"none"}
           /\ "none" \in Who \cup {"none"} /\ "bg" \in Who \cup {"none"}
           /\ \A at : Moved(j, at) => end'[j].at = at
           /\ \A x \in Exit : \A at : Select(j, x, at) => end'[j].at = at
           /\ bg[j].at = "idle" /\ (Landed("end", j) => Filed(j))
  <1>1. CallsOK /\ JobsOK /\ mem[j] \in JobRecord /\ Sound(j)
    BY DEF IndInv, TypeOK, JobsOK, WriteInv
  <1>2. end[j].at \notin Over \cup {"idle"}
    BY EndingEnds
  <1>3. ~Absent.committed /\ Absent.status = "absent"
    BY DEF Absent, Rec
  <1>4. mem[j].status \notin Terminal
    <2>1. end[j].at \in EndAt
      BY <1>1 DEF CallsOK, EndRecord
    <2> QED BY <1>1, <1>2, <1>3, <2>1
            DEF Sound, EndStatus, EndAt, Over, Terminal, RunStatus, TakeTurns
  <1>5. end \in [Job -> EndRecord]
    BY <1>1 DEF CallsOK
  <1>6. \A at : Moved(j, at) => end'[j].at = at
    BY <1>5 DEF Moved, EndRecord
  <1>7. \A x \in Exit : \A at : Select(j, x, at) => end'[j].at = at
    BY <1>5 DEF Select, EndRecord
  <1>8. bg[j].at = "idle"
    BY <1>1, <1>2 DEF Sound, TakeTurns
  <1>9. Landed("end", j) => Filed(j)
    BY DEF Landed, Filed
  <1> QED BY <1>1, <1>2, <1>3, <1>4, <1>6, <1>7, <1>8, <1>9 DEF Who

\* The steps of an endCall that queue no write and wait for none.
LEMMA EndingQuiet ==
    ASSUME IndInv, IndInv', WriteInv, NEW j \in Job, Ending(j),
           \/ ExitSelected(j) \/ HooksDone(j) \/ NoExit(j) \/ AbortCall(j)
           \/ CallAborted(j) \/ RunSyncEffects(j) \/ EndSaveRejects(j)
    PROVE  JobTurn(j)
  <1>0. /\ CallsOK /\ Sound(j) /\ mem[j].status \notin Terminal
        /\ ~Absent.committed /\ "none" \in Who \cup {"none"}
        /\ \A at : Moved(j, at) => end'[j].at = at
        /\ \A x \in Exit : \A at : Select(j, x, at) => end'[j].at = at
        /\ bg[j].at = "idle" /\ (Landed("end", j) => Filed(j))
    BY AtEnd
  <1>1. UNCHANGED <<bg, recov, mem, disk, queue>>
    BY DEF ExitSelected, HooksDone, NoExit, AbortCall, CallAborted,
           RunSyncEffects, EndSaveRejects, jobVars, storeVars
  <1>2. \/ /\ end[j].at \in {"hooks", "aborting"}
           /\ end'[j].at \in {"preload", "aborting", "abort_save"}
        \/ end[j].at = "queued" /\ end'[j].at = "saving"
        \/ /\ end[j].at \in {"abort_save", "saving"}
           /\ end'[j].at \in {"returned", "rejected"}
    <2>1. CASE RunSyncEffects(j)
      <3>1. PICK plan \in Plan :
               end' = [end EXCEPT ![j].at = "saving", ![j].plan = plan]
        BY <2>1 DEF RunSyncEffects
      <3>2. end'[j].at = "saving"
        BY <1>0, <3>1 DEF CallsOK, EndRecord
      <3> QED BY <2>1, <3>2 DEF RunSyncEffects
    <2>2. CASE ExitSelected(j) \/ HooksDone(j) \/ NoExit(j) \/ AbortCall(j)
      BY <1>0, <2>2 DEF ExitSelected, HooksDone, NoExit, AbortCall
    <2>3. CASE CallAborted(j) \/ EndSaveRejects(j)
      BY <1>0, <2>3 DEF CallAborted, EndSaveRejects
    <2> QED BY <2>1, <2>2, <2>3
  <1>3. EndStatus(j)' /\ ~Awaits("end", j) /\ ~Awaits("end", j)'
    BY <1>0, <1>1, <1>2 DEF Sound, EndStatus, Awaits
  <1>4. Turn(j, "none", "none")
    BY <1>1, QuietTurn
  <1>5. Registered(j)
    BY <1>0, <1>1, <1>2 DEF Sound, InStore, EndStatus, TakeTurns, Registered,
                            Over
  <1>6. mem'[j].status = "absent" => mem'[j] = Absent
    BY <1>0, <1>1 DEF Sound, InStore
  <1> QED BY <1>0, <1>1, <1>2, <1>3, <1>4, <1>5, <1>6, EndTurn DEF Between

\* The job is built, registered, committed.
LEMMA EndingWrites ==
    ASSUME IndInv, IndInv', WriteInv, NEW j \in Job, Ending(j),
           \/ JobBuilt(j) \/ JobRegistered(j) \/ SyncSaved(j)
           \/ JobCommitted(j) \/ JobFailed(j) \/ EndStoreRejects(j)
    PROVE  JobTurn(j)
  <1>0. /\ CallsOK /\ JobsOK /\ mem[j] \in JobRecord /\ Sound(j)
        /\ mem[j].status \notin Terminal /\ ~Absent.committed
        /\ Absent.status = "absent"
        /\ "end" \in Who /\ "end" \in Who \cup {"none"}
        /\ "none" \in Who \cup {"none"}
        /\ \A at : Moved(j, at) => end'[j].at = at
        /\ \A x \in Exit : \A at : Select(j, x, at) => end'[j].at = at
        /\ bg[j].at = "idle" /\ (Landed("end", j) => Filed(j))
    BY AtEnd
  <1>1. UNCHANGED <<bg, recov>>
    BY DEF JobBuilt, JobRegistered, SyncSaved, JobCommitted, JobFailed,
           EndStoreRejects, jobVars
  <1>2. ASSUME NEW r \in JobRecord, NEW q, Set("end", j, r, q)
        PROVE  /\ \A k \in Job \ {j} : mem'[k] = mem[k]
               /\ mem'[j] = r /\ queue' = Append(q, Write("end", j, mem'[j]))
    BY <1>0, <1>2 DEF Set, JobsOK
  <1>3. CASE JobBuilt(j)
    <2>1. end[j].at = "preload" /\ end'[j].at = "register"
      BY <1>0, <1>3 DEF JobBuilt
    <2>0. PICK deferred \in BOOLEAN : Set("end", j, Closing(deferred), queue)
      <3> DEFINE d == end'[j].exit \in WithMedia
      <3>1. Set("end", j, Closing(d), queue)
        BY <1>3 DEF JobBuilt
      <3>2. d \in BOOLEAN
        OBVIOUS
      <3> HIDE DEF d
      <3> QED BY <3>1, <3>2
    <2> DEFINE r == Closing(deferred)
    <2>2. r \in JobRecord /\ r.status = "closing" /\ ~r.committed
      BY NewRecordTypes DEF Closing, Rec
    <2>3. Set("end", j, r, queue) /\ UNCHANGED disk
      BY <1>3, <2>0 DEF JobBuilt
    <2> HIDE DEF r
    <2>4. /\ \A k \in Job \ {j} : mem'[k] = mem[k]
          /\ mem'[j] = r /\ queue' = Append(queue, Write("end", j, mem'[j]))
      BY <1>2, <2>2, <2>3
    <2>5. Turn(j, "none", "end")
      BY <1>0, <2>3, <2>4, QuietTurn
    <2>6. EndStatus(j)' /\ ~Awaits("end", j) /\ Awaits("end", j)'
      BY <2>1, <2>2, <2>4 DEF EndStatus, Awaits
    <2>7. Registered(j)
      BY <1>0, <1>1, <2>1, <2>2, <2>4 DEF Registered, Sound, TakeTurns, Over
    <2>8. mem'[j].status \notin Terminal /\ mem'[j].status # "absent"
      BY <2>2, <2>4 DEF Terminal
    <2> QED BY <1>0, <1>1, <2>1, <2>4, <2>5, <2>6, <2>7, <2>8, EndTurn
           DEF Between
  <1>4. CASE JobRegistered(j)
    <2>1. /\ end[j].at = "register" /\ end'[j].at = "queued"
          /\ Landed("end", j) /\ queue' = Tail(queue) /\ UNCHANGED mem
      BY <1>0, <1>4 DEF JobRegistered, jobVars
    <2>2. Turn(j, "end", "none")
      BY <1>0, <2>1, WriteTurn
    <2>3. EndStatus(j)' /\ Awaits("end", j) /\ ~Awaits("end", j)'
      BY <1>0, <2>1 DEF Sound, EndStatus, Awaits
    <2>4. Known(j) \/ Known(j)'
      <3>1. CASE Duplicate(Head(queue))
        BY <2>1, <3>1 DEF Duplicate, Landed, NextWrite
      <3>2. CASE ~Duplicate(Head(queue))
        <4>1. StoreOK
          BY DEF IndInv, TypeOK
        <4>2. 1 \in Place /\ queue[1] = Head(queue) /\ queue[1].job = j
          BY <1>0, <2>1, <4>1, HeadFirst DEF Landed
        <4>3. Head(queue).rec.status # "absent"
          BY <4>2 DEF WriteInv, Queued, Awaited
        <4>4. disk'[j] = Head(queue).rec
          BY <2>1, <3>2, <4>1 DEF Landed, StoreOK
        <4> QED BY <4>3, <4>4 DEF Known
      <3> QED BY <3>1, <3>2
    <2>5. Registered(j)
      BY <2>1, <2>4 DEF Registered
    <2>6. mem'[j].status = "absent" => mem'[j] = Absent
      BY <1>0, <2>1 DEF Sound, InStore
    <2> QED BY <1>0, <1>1, <2>1, <2>2, <2>3, <2>5, <2>6, EndTurn DEF Between
  <1>5. CASE SyncSaved(j)
    <2>1. /\ end[j].at = "saving" /\ Known(j) /\ UNCHANGED disk
          /\ end'[j].at = IF end[j].plan = "aborted" THEN "fail" ELSE "commit"
      BY <1>0, <1>5 DEF SyncSaved, Sound, InStore
    <2> DEFINE r == SyncResult(mem[j], end[j].plan)
    <2>2. r \in JobRecord
      BY <1>0, RecordTypes
    <2>3. /\ end[j].plan = "aborted" => /\ r.status = "failed_retryable"
                                        /\ ~r.committed
          /\ end[j].plan # "aborted" => r.status = "committed" /\ r.committed
      BY <1>0, <2>1 DEF SyncResult, Failed, Sound, EndStatus, JobRecord
    <2>4. Set("end", j, r, queue)
      BY <1>5 DEF SyncSaved
    <2> HIDE DEF r
    <2>5. /\ \A k \in Job \ {j} : mem'[k] = mem[k]
          /\ mem'[j] = r /\ queue' = Append(queue, Write("end", j, mem'[j]))
      BY <1>2, <2>2, <2>4
    <2>6. Turn(j, "none", "end")
      BY <1>0, <2>1, <2>5, QuietTurn
    <2>7. EndStatus(j)' /\ ~Awaits("end", j) /\ Awaits("end", j)'
      BY <2>1, <2>3, <2>5 DEF EndStatus, Awaits
    <2>8. Registered(j)
      BY <2>1 DEF Registered
    <2>9. mem'[j].status \notin Terminal /\ mem'[j].status # "absent"
      BY <2>3, <2>5 DEF Terminal
    <2> QED BY <1>0, <1>1, <2>1, <2>5, <2>6, <2>7, <2>8, <2>9, EndTurn
           DEF Between
  <1>6. CASE JobCommitted(j)
    <2>1. /\ end[j].at = "commit" /\ Known(j) /\ Landed("end", j)
          /\ end'[j].at = "kick" /\ mem[j].committed
      BY <1>0, <1>6 DEF JobCommitted, Sound, InStore, EndStatus
    <2> DEFINE r == WithStatus(mem[j], "background_pending")
    <2>2. r \in JobRecord
      BY <1>0, RecordTypes DEF JobStatus, ActiveStatus
    <2>3. r.status = "background_pending" /\ r.committed
      BY <1>0, <2>1 DEF WithStatus, JobRecord
    <2>4. Set("end", j, r, Tail(queue))
      BY <1>6 DEF JobCommitted
    <2> HIDE DEF r
    <2>5. /\ \A k \in Job \ {j} : mem'[k] = mem[k] /\ mem'[j] = r
          /\ queue' = Append(Tail(queue), Write("end", j, mem'[j]))
      BY <1>2, <2>2, <2>4
    <2>6. mem'[j] = r
      BY <1>2, <2>2, <2>4
    <2>7. Turn(j, "end", "end")
      BY <1>0, <2>1, <2>5, WriteTurn
    <2>8. EndStatus(j)' /\ Awaits("end", j) /\ Awaits("end", j)'
      BY <2>1, <2>3, <2>6 DEF EndStatus, Awaits
    <2>9. Registered(j)
      BY <2>1 DEF Registered
    <2>10. mem'[j].status \notin Terminal /\ mem'[j].status # "absent"
      BY <2>3, <2>6 DEF Terminal
    <2> QED BY <1>0, <1>1, <2>1, <2>5, <2>7, <2>8, <2>9, <2>10, EndTurn
           DEF Between
  <1>7. CASE JobFailed(j) \/ EndStoreRejects(j)
    <2>1. /\ end[j].at \in {"register", "commit", "kick", "fail"}
          /\ end'[j].at \in {"returned", "rejected"} /\ UNCHANGED mem
          /\ Landed("end", j) \/ Broken("end", j)
          /\ queue' = Tail(queue)
      BY <1>0, <1>7 DEF JobFailed, EndStoreRejects, jobVars
    <2>2. Turn(j, "end", "none")
      BY <1>0, <2>1, WriteTurn
    <2>3. EndStatus(j)' /\ Awaits("end", j) /\ ~Awaits("end", j)'
      BY <2>1 DEF EndStatus, Awaits
    <2>4. Registered(j)
      BY <1>0, <1>1, <2>1
         DEF Registered, Sound, InStore, EndStatus, TakeTurns, Over
    <2>5. mem'[j].status = "absent" => mem'[j] = Absent
      BY <1>0, <2>1 DEF Sound, InStore
    <2> QED BY <1>0, <1>1, <2>1, <2>2, <2>3, <2>4, <2>5, EndTurn DEF Between
  <1> QED BY <1>3, <1>4, <1>5, <1>6, <1>7

-----------------------------------------------------------------------------
(* Starting a job: the end of an endCall, a retry, the recovery *)

\* Whoever starts a job hands it over to its promise: `p' waits for nothing
\* any more, unless it is one of several retries.
LEMMA StartTurn ==
    ASSUME IndInv, IndInv', WriteInv, NEW j \in Job,
           NEW p \in {"end", "retry", "recover"}, Landed(p, j),
           StartBackground(j, Tail(queue)),
           end[j].at \notin Over => p = "end" /\ end'[j].at \in Over,
           end[j].at \in Over => end'[j] = end[j],
           \A k \in Job \ {j} : end'[k] = end[k],
           end'[j].sess = end[j].sess, p = "end" <=> end[j].at \notin Over,
           recov'.job = IF p = "recover" THEN None ELSE recov.job,
           recov'.todo \subseteq recov.todo
    PROVE  JobTurn(j)
  <1>0. /\ JobsOK /\ StoreOK /\ Sound(j) /\ j # None
        /\ p \in Who /\ "none" \in Who \cup {"none"}
        /\ "bg" \in Who \cup {"none"}
    BY HostAssumption DEF IndInv, TypeOK, WriteInv, Who
  <1>1. NextWrite(p, j) /\ ~Missing(Head(queue))
    BY DEF Landed
  <1>2. /\ Awaits(p, j) /\ (p = "retry" => recov.job # j /\ ~Calm(j))
        /\ end[j].at = "register" \/ Known(j)
    BY <1>0, <1>1, HeadFacts
  <1>3. end[j].at # "idle" /\ j \notin recov.todo /\ end'[j].at \in Over
    <2>1. 1 \in Place /\ queue[1].job = j
      BY <1>0, <1>1, HeadFirst
    <2> QED BY <2>1 DEF WriteInv, Queued, Awaited
  <1>4. recov'.job # j /\ (recov.job = j => p = "recover")
    BY <1>0, <1>2, <1>3 DEF Sound, TakeTurns
  <1>5. OthersKeep(j) <=>
            \A k \in Job \ {j} : bg'[k] = bg[k] /\ mem'[k] = mem[k]
    <2>1. recov'.job = recov.job \/ (recov.job = j /\ recov'.job = None)
      BY <1>2 DEF Awaits
    <2>2. end'[j].at # "idle"
      BY <1>3 DEF Over
    <2> QED BY <1>3, <2>1, <2>2 DEF OthersKeep
  <1>6. /\ OtherJobs(j) /\ mem'[j].committed = mem[j].committed
        /\ \/ queue' = Tail(queue) /\ UNCHANGED <<mem, bg>>
           \/ /\ bg[j].at = "idle" /\ mem[j].committed
              /\ queue' = Append(Tail(queue), Write("bg", j, mem'[j]))
              /\ \/ bg'[j].at = "final" /\ mem'[j].status \in Terminal
                 \/ bg'[j].at = "mark" /\ mem'[j].status \in Running
                 \/ /\ bg'[j].at = "catch"
                    /\ mem'[j].status = "failed_retryable"
    BY <1>0, StartShape
  <1>7. TakeTurns(j)' /\ EndStatus(j)'
    BY <1>3, <1>4 DEF TakeTurns, EndStatus, Over
  <1>8. \A who \in Who : Awaits(who, j) /\ who \notin {p, "bg"}
                             => Awaits(who, j)'
    BY <1>2, <1>3, <1>4 DEF Awaits, Who, Over
  <1>9. Registered(j) <=> ~mem'[j].committed \/ Known(j) \/ Known(j)'
    BY <1>3, <1>4 DEF Registered, Over
  <1>10. mem[j].committed => Known(j)
    BY <1>0 DEF Sound, InStore
  <1>12. CASE queue' = Tail(queue) /\ UNCHANGED <<mem, bg>>
    <2>1. Turn(j, p, "none")
      BY <1>0, <1>12, WriteTurn
    <2>2. RunStatus(j)'
      BY <1>0, <1>4, <1>12 DEF RunStatus, Sound, Failing
    <2>3. InTurn(j, p, "none")
      <3>1. \A who \in Who : Awaits(who, j) /\ who # p => Awaits(who, j)'
        BY <1>8, <1>12 DEF Awaits
      <3>2. /\ Failing(j)' <=> Failing(j)
            /\ Calm(j)' <=> Calm(j)
        BY <1>12 DEF Failing, Calm
      <3>3. p # "retry" => ~Between(j)'
        BY <1>0, <1>2, <1>3, <1>12
           DEF Awaits, Between, Sound, TakeTurns, Over
      <3> QED BY <1>3, <1>4, <1>12, <3>1, <3>2, <3>3 DEF InTurn
    <2>4. Settles(j)'
      BY <1>0, <1>7, <1>12, <2>2 DEF Settles, Sound, InStore
    <2>5. OthersKeep(j) /\ Registered(j)
      BY <1>5, <1>6, <1>9, <1>10, <1>12 DEF OtherJobs
    <2> QED BY <2>1, <2>3, <2>4, <2>5 DEF JobTurn
  <1>13. CASE queue' # Tail(queue) \/ ~UNCHANGED <<mem, bg>>
    <2>1. /\ bg[j].at = "idle" /\ mem[j].committed
          /\ queue' = Append(Tail(queue), Write("bg", j, mem'[j]))
          /\ \/ bg'[j].at = "final" /\ mem'[j].status \in Terminal
             \/ bg'[j].at = "mark" /\ mem'[j].status \in Running
             \/ bg'[j].at = "catch" /\ mem'[j].status = "failed_retryable"
      BY <1>6, <1>13
    <2>2. Turn(j, p, "bg")
      BY <1>0, <2>1, WriteTurn
    <2>3. RunStatus(j)' /\ ~Calm(j)' /\ mem'[j].status # "absent"
      BY <1>4, <1>6, <2>1 DEF RunStatus, Calm, Failing, Terminal, Running
    <2>4. InTurn(j, p, "bg")
      <3>1. Awaits("bg", j)' /\ ~Awaits("bg", j)
        BY <2>1 DEF Awaits
      <3>2. \A who \in Who : Awaits(who, j) /\ who # p => Awaits(who, j)'
        BY <1>8, <3>1
      <3>3. end[j].at # "register" /\ Known(j)
        BY <1>0, <1>10, <2>1 DEF Sound, EndStatus
      <3>4. ~(Awaits("bg", j) /\ p # "bg" /\ (Failing(j) \/ "bg" = "retry"))
        BY <3>1
      <3> QED BY <1>3, <1>4, <2>3, <3>1, <3>2, <3>3, <3>4 DEF InTurn
    <2>5. Settles(j)'
      BY <1>7, <2>3 DEF Settles
    <2>6. OthersKeep(j) /\ Registered(j)
      BY <1>5, <1>6, <1>9, <1>10, <2>1 DEF OtherJobs
    <2> QED BY <2>2, <2>4, <2>5, <2>6 DEF JobTurn
  <1> QED BY <1>12, <1>13

\* The end of an endCall hands its job over.
LEMMA KickWrites ==
    ASSUME IndInv, IndInv', WriteInv, NEW j \in Job, JobKicked(j)
    PROVE  JobTurn(j)
  <1>1. Ending(j)
    BY DEF Ending
  <1>2. end[j].at = "kick" /\ end'[j].at = "returned" /\ UNCHANGED recov
    BY <1>1, AtEnd DEF JobKicked
  <1>3. /\ end'[j].sess = end[j].sess /\ end[j].at \notin Over
        /\ \A k \in Job \ {j} : end'[k] = end[k]
    BY <1>1, EndingEnds
  <1>4. Landed("end", j) /\ StartBackground(j, Tail(queue))
    BY DEF JobKicked
  <1>5. end'[j].at \in Over
    BY <1>2 DEF Over
  <1> QED BY <1>2, <1>3, <1>4, <1>5, StartTurn

\* Every step of an endCall.
LEMMA EndingTurns ==
    ASSUME IndInv, IndInv', WriteInv, NEW j \in Job, Ending(j)
    PROVE  JobTurn(j)
  BY EndingQuiet, EndingWrites, KickWrites DEF Ending

\* Every step of a background job.
LEMMA BackgroundTurns ==
    ASSUME IndInv, IndInv', WriteInv, NEW j \in Job, Background(j)
    PROVE  JobTurn(j)
  BY MemoryWrites, MediaWrites, VoicemailWrites, SettleWrites DEF Background

\* The user retries a job: its write comes after all the others'.
LEMMA RetryWrites ==
    ASSUME IndInv, IndInv', WriteInv, NEW j \in Job, Retry(j)
    PROVE  JobTurn(j)
  <1>0. /\ JobsOK /\ CallsOK /\ mem[j] \in JobRecord /\ Sound(j)
        /\ j # None /\ "retry" \in Who \cup {"none"} /\ ~Absent.committed
    BY HostAssumption DEF IndInv, TypeOK, JobsOK, WriteInv, Who, Absent, Rec
  <1>1. /\ mem[j].status = "failed_retryable" /\ mem[j].committed
        /\ Set("retry", j, Reset(mem[j]), queue) /\ "retry" \in Env
        /\ UNCHANGED <<end, bg, recov, disk>>
    BY DEF Retry, Retryable, callVars
  <1>2. /\ Reset(mem[j]).status = "background_pending"
        /\ Reset(mem[j]).committed
    BY <1>0, <1>1 DEF Reset, JobRecord
  <1>3. /\ OtherJobs(j) /\ mem'[j] = Reset(mem[j])
        /\ queue' = Append(queue, Write("retry", j, mem'[j]))
    BY <1>0, <1>1 DEF Set, JobsOK, OtherJobs
  <1>4. end[j].at \in Over
    <2>1. end[j].at \in EndAt
      BY <1>0 DEF CallsOK, EndRecord
    <2>2. mem[j] # Absent
      BY <1>0, <1>1
    <2>3. end[j].at # "idle"
      BY <2>2 DEF IndInv, Fresh
    <2> QED BY <1>0, <1>1, <2>1, <2>2, <2>3 DEF Sound, EndStatus, EndAt, Over
  <1>5. Known(j)
    BY <1>0, <1>1 DEF Sound, InStore
  <1>6. Turn(j, "none", "retry")
    BY <1>0, <1>1, <1>3, QuietTurn
  <1>7. bg[j].at # "idle" => Failing(j)
    BY <1>0, <1>1 DEF Sound, RunStatus
  <1>8. OthersKeep(j)
    <2>1. \A k \in Job : k \in recov.todo => k # j
      <3>1. j \notin recov.todo
        BY <1>0, <1>1 DEF IndInv, ToVisit
      <3> QED BY <3>1
    <2> QED BY <1>1, <1>3, <1>4, <2>1 DEF OthersKeep, OtherJobs, Over
  <1>9. ~Calm(j)'
    <2>1. Failing(j)' <=> Failing(j)
      BY <1>1 DEF Failing
    <2> QED BY <1>1, <1>2, <1>3, <1>7, <2>1 DEF Calm, Terminal
  <1>10. InTurn(j, "none", "retry")
    <2>1. \A who \in Who : Awaits(who, j) => Awaits(who, j)'
      BY <1>1 DEF Awaits
    <2>2. Awaits("retry", j)' /\ end[j].at # "register" /\ end[j].at # "idle"
      BY <1>1, <1>4 DEF Awaits, Over
    <2>3. Awaits("bg", j) => Failing(j)'
      BY <1>1, <1>7 DEF Awaits, Failing
    <2>4. Between(j)' <=> Between(j)
      BY <1>1 DEF Between
    <2> QED BY <1>1, <1>2, <1>3, <1>5, <1>9, <2>1, <2>2, <2>3, <2>4 DEF InTurn
  <1>11. Settles(j)'
    <2>1. TakeTurns(j)' /\ EndStatus(j)'
      BY <1>0, <1>1, <1>4 DEF Sound, TakeTurns, EndStatus, Over
    <2>2. RunStatus(j)'
      BY <1>0, <1>1, <1>2, <1>3 DEF Sound, RunStatus, Terminal
    <2> QED BY <1>2, <1>3, <2>1, <2>2 DEF Settles
  <1>12. Registered(j)
    BY <1>4, <1>5 DEF Registered, Over
  <1> QED BY <1>6, <1>8, <1>10, <1>11, <1>12 DEF JobTurn

\* The write of a retry lands or rejects.
LEMMA RetryingWrites ==
    ASSUME IndInv, IndInv', WriteInv, NEW j \in Job, Retrying(j)
    PROVE  JobTurn(j)
  <1>0. /\ StoreOK /\ Sound(j) /\ "retry" \in Who
        /\ "none" \in Who \cup {"none"} /\ UNCHANGED <<end, recov>>
    BY DEF IndInv, TypeOK, WriteInv, Who, Retrying, RetryStarts, RetryRejects,
           callVars
  <1>1. NextWrite("retry", j) /\ ~Missing(Head(queue))
    BY DEF Retrying, RetryStarts, RetryRejects, Landed, Broken
  <1>2. /\ Awaits("retry", j) /\ recov.job # j /\ ~Calm(j)
        /\ end[j].at \in Over
    <2>1. Awaits("retry", j) /\ recov.job # j /\ ~Calm(j)
      BY <1>0, <1>1, HeadFacts
    <2> QED BY <2>1 DEF Awaits
  <1>3. CASE RetryStarts(j)
    <2>1. Landed("retry", j) /\ StartBackground(j, Tail(queue))
      BY <1>3 DEF RetryStarts
    <2> QED BY <1>0, <1>2, <2>1, StartTurn
  <1>4. CASE RetryRejects(j)
    <2>1. /\ Broken("retry", j) /\ queue' = Tail(queue)
          /\ UNCHANGED <<end, recov, bg, mem>>
      BY <1>0, <1>4 DEF RetryRejects
    <2>2. Turn(j, "retry", "none")
      BY <1>0, <2>1, WriteTurn
    <2>3. /\ end[j].at # "idle" /\ end[j].at # "register"
          /\ j \notin recov.todo
      <3>1. 1 \in Place /\ queue[1].job = j
        BY <1>0, <1>1, HeadFirst
      <3> QED BY <1>2, <3>1 DEF Over, WriteInv, Queued, Awaited
    <2>4. OthersKeep(j)
      BY <2>1, <2>3 DEF OthersKeep
    <2>5. InTurn(j, "retry", "none")
      BY <1>2, <2>1, <2>3 DEF InTurn, Awaits, Calm, Failing
    <2>6. Settles(j)'
      BY <1>0, <2>1 DEF Settles, Sound, TakeTurns, EndStatus, RunStatus,
                        InStore, Failing
    <2>7. Registered(j)
      BY <1>0, <2>1, <2>3 DEF Registered, Sound, InStore
    <2> QED BY <2>2, <2>4, <2>5, <2>6, <2>7 DEF JobTurn
  <1> QED BY <1>3, <1>4 DEF Retrying

\* The recovery reads a job from the store, resumes it, or gives up.
LEMMA RecoveringWrites ==
    ASSUME IndInv, IndInv', WriteInv, NEW j \in Job, Recovering(j)
    PROVE  JobTurn(j)
  <1>0. /\ StoreOK /\ JobsOK /\ Sound(j) /\ j # None /\ UNCHANGED <<end>>
        /\ "recover" \in Who /\ "recover" \in Who \cup {"none"}
        /\ "none" \in Who \cup {"none"} /\ disk[j] \in JobRecord
    BY HostAssumption
       DEF IndInv, TypeOK, StoreOK, WriteInv, Who, Recovering, RecoverTerminal,
           RecoverJob, JobRecovered, RecoverRejects, callVars
  <1>1. ASSUME j \in recov.todo, recov.job = None
        PROVE  /\ end[j].at \in Over /\ bg[j].at = "idle" /\ Known(j)
               /\ end[j].at \notin {"idle", "register"}
               /\ disk[j].status # "absent"
    BY <1>0, <1>1 DEF IndInv, ToVisit, Sound, InStore, Over
  <1>2. CASE RecoverTerminal(j)
    <2>1. /\ j \in recov.todo /\ recov.job = None
          /\ mem' = [mem EXCEPT ![j] = disk[j]] /\ disk[j].status \in Terminal
          /\ recov' = [recov EXCEPT !.todo = @ \ {j}]
          /\ UNCHANGED <<bg, queue, disk>>
      BY <1>2 DEF RecoverTerminal, Visitable, storeVars
    <2>2. /\ mem'[j] = disk[j] /\ recov'.job = None
          /\ recov'.todo = recov.todo \ {j}
          /\ \A k \in Job \ {j} : mem'[k] = mem[k]
      BY <1>0, <2>1 DEF JobsOK
    <2>3. Turn(j, "none", "none")
      BY <1>0, <2>1, QuietTurn
    <2>4. OthersKeep(j)
      BY <1>0, <1>1, <2>1, <2>2 DEF OthersKeep
    <2>5. InTurn(j, "none", "none")
      BY <1>0, <1>1, <2>1, <2>2 DEF InTurn, Awaits, Between, Who
    <2>6. Settles(j)'
      BY <1>0, <1>1, <2>1, <2>2
         DEF Settles, TakeTurns, EndStatus, RunStatus, Terminal, Over
    <2>7. Registered(j)
      BY <1>1, <2>1 DEF Registered
    <2> QED BY <2>3, <2>4, <2>5, <2>6, <2>7 DEF JobTurn
  <1>3. CASE RecoverJob(j)
    <2> DEFINE r == IF Resumable(j)
                    THEN WithStatus(disk[j], "background_pending")
                    ELSE Failed(disk[j])
    <2>1. /\ j \in recov.todo /\ recov.job = None
          /\ Set("recover", j, r, queue)
          /\ recov' = [todo |-> recov.todo \ {j}, job |-> j,
                       start |-> Resumable(j)]
          /\ UNCHANGED <<bg, disk>>
      BY <1>3 DEF RecoverJob, Visitable
    <2>2. r.status \in {"background_pending", "failed_retryable"}
      BY <1>0 DEF WithStatus, Failed, JobRecord
    <2> HIDE DEF r
    <2>3. /\ mem'[j] = r /\ recov'.job = j /\ recov'.todo = recov.todo \ {j}
          /\ queue' = Append(queue, Write("recover", j, mem'[j]))
          /\ \A k \in Job \ {j} : mem'[k] = mem[k]
      BY <1>0, <2>1 DEF Set, JobsOK
    <2>4. Turn(j, "none", "recover")
      BY <1>0, <2>1, <2>3, QuietTurn
    <2>5. OthersKeep(j)
      BY <1>0, <1>1, <2>1, <2>3 DEF OthersKeep
    <2>6. InTurn(j, "none", "recover")
      <3>1. ~Calm(j)' /\ ~Awaits("bg", j)
        BY <1>1, <2>1, <2>2, <2>3 DEF Calm, Awaits, Terminal
      <3>2. ~Awaits("recover", j) /\ Awaits("recover", j)'
        BY <1>0, <2>1, <2>3 DEF Awaits
      <3>3. \A who \in Who : Awaits(who, j) => Awaits(who, j)'
        BY <1>0, <2>1, <3>2 DEF Awaits
      <3>4. mem'[j].status # "absent" /\ Known(j)
        BY <1>1, <2>1, <2>2, <2>3
      <3>5. end[j].at \in Over /\ end[j].at \notin {"idle", "register"}
        BY <1>1, <2>1
      <3>6. Between(j)' <=> Between(j)
        BY <1>0, <2>1 DEF Between
      <3> QED BY <1>0, <2>1, <2>3, <3>1, <3>2, <3>3, <3>4, <3>5, <3>6
              DEF InTurn
    <2>7. Settles(j)'
      BY <1>0, <1>1, <2>1, <2>2, <2>3
         DEF Settles, TakeTurns, EndStatus, RunStatus, Terminal, Over
    <2>8. Registered(j)
      BY <1>1, <2>1 DEF Registered
    <2> QED BY <2>4, <2>5, <2>6, <2>7, <2>8 DEF JobTurn
  <1>4. ASSUME recov.job = j
        PROVE  /\ end[j].at \in Over /\ bg[j].at = "idle" /\ Known(j)
               /\ end[j].at \notin {"idle", "register"}
               /\ mem[j].status \notin Terminal /\ j \notin recov.todo
    <2>1. end[j].at \in Over /\ bg[j].at = "idle" /\ Known(j)
      BY <1>0, <1>4 DEF Sound, TakeTurns, InStore
    <2>2. mem[j].status \notin Terminal /\ j \notin recov.todo
      BY <1>0, <1>4 DEF Sound, RunStatus, IndInv, ToVisit, Terminal
    <2> QED BY <2>1, <2>2 DEF Over
  <1>5. CASE JobRecovered(j) /\ recov.start
    <2>1. /\ recov.job = j /\ Landed("recover", j)
          /\ StartBackground(j, Tail(queue))
          /\ recov' = [recov EXCEPT !.job = None, !.start = FALSE]
      BY <1>5 DEF JobRecovered
    <2>2. recov'.job = None /\ recov'.todo = recov.todo
      BY <1>0, <2>1 DEF JobsOK
    <2>3. end[j].at \in Over
      BY <1>4, <2>1
    <2> QED BY <1>0, <2>1, <2>2, <2>3, StartTurn
  <1>6. CASE (JobRecovered(j) /\ ~recov.start) \/ RecoverRejects(j)
    <2>1. /\ recov.job = j
          /\ Landed("recover", j) \/ Broken("recover", j)
          /\ queue' = Tail(queue) /\ UNCHANGED <<mem, bg>>
          /\ \/ recov' = [recov EXCEPT !.job = None, !.start = FALSE]
             \/ recov' = NotRecovering
      BY <1>6 DEF JobRecovered, RecoverRejects
    <2>2. recov'.job = None /\ recov'.todo \subseteq recov.todo
      <3>1. recov \in [todo : SUBSET Job, job : Job \cup {None},
                       start : BOOLEAN]
        BY <1>0 DEF JobsOK
      <3>2. CASE recov' = [recov EXCEPT !.job = None, !.start = FALSE]
        BY <3>1, <3>2
      <3>3. CASE recov' = NotRecovering
        BY <3>3 DEF NotRecovering
      <3> QED BY <2>1, <3>2, <3>3
    <2>3. /\ recov.job = j
          /\ Landed("recover", j) \/ Broken("recover", j)
          /\ queue' = Tail(queue) /\ UNCHANGED <<mem, bg>>
      BY <2>1
    <2>4. Turn(j, "recover", "none")
      BY <1>0, <2>3, WriteTurn
    <2>5. OthersKeep(j)
      BY <1>0, <1>4, <2>2, <2>3 DEF OthersKeep
    <2>6. InTurn(j, "recover", "none")
      BY <1>0, <1>4, <2>2, <2>3 DEF InTurn, Awaits, Calm, Failing, Between,
                                    Over
    <2>7. Settles(j)'
      BY <1>0, <1>4, <2>2, <2>3
         DEF Settles, Sound, TakeTurns, EndStatus, RunStatus, InStore, Over
    <2>8. Registered(j)
      BY <1>4, <2>3 DEF Registered
    <2> QED BY <2>4, <2>5, <2>6, <2>7, <2>8 DEF JobTurn
  <1> QED BY <1>2, <1>3, <1>5, <1>6 DEF Recovering

-----------------------------------------------------------------------------
(* The steps that belong to no job *)

\* An update that found no record joins the end of the queue as a creation,
\* behind the creations that are there: the landing order stays.
LEMMA Rotated ==
    ASSUME StoreOK, CreateMissing
    PROVE  \E From \in [Place' -> Place] :
              /\ \A i \in Place' :
                    /\ queue'[i].who = queue[From[i]].who
                    /\ queue'[i].job = queue[From[i]].job
                    /\ queue'[i].rec = queue[From[i]].rec
                    /\ \/ queue'[i].op = queue[From[i]].op
                       \/ disk[queue'[i].job].status = "absent"
              /\ \A i \in Place : \E l \in Place' : From[l] = i
              /\ \A i, l \in Place' : From[i] = From[l] => i = l
              /\ \A i, l \in Place' :
                    Before(i, l)' <=> Before(From[i], From[l])
  <1>0. queue # <<>>
    BY DEF CreateMissing
  <1> DEFINE h == Head(queue)
             w == [h EXCEPT !.op = "create"]
             N == Len(queue)
             F == [i \in Place' |-> IF i = N THEN 1 ELSE i + 1]
  <1>1. /\ h \in StoreWrite /\ w \in StoreWrite
        /\ w.who = h.who /\ w.job = h.job /\ w.rec = h.rec /\ w.op = "create"
        /\ h.op = "update" /\ disk[h.job].status = "absent"
    <2>1. h \in StoreWrite
      BY <1>0, TailTypes DEF StoreOK
    <2> QED BY <2>1 DEF StoreWrite, CreateMissing, Missing
  <1>2. queue' = Append(Tail(queue), w)
    BY DEF CreateMissing
  <1>3. /\ N \in Nat /\ N >= 1 /\ queue[1] = h
        /\ Len(queue') = N /\ queue'[N] = w
        /\ \A i \in 1..(N - 1) : queue'[i] = queue[i + 1]
    <2> HIDE DEF w
    <2>1. /\ Tail(queue) \in Seq(StoreWrite) /\ N \in Nat /\ N # 0
          /\ Len(Tail(queue)) = N - 1 /\ queue[1] = h
          /\ \A i \in 1..(N - 1) : Tail(queue)[i] = queue[i + 1]
      BY <1>0, EmptySeq DEF StoreOK
    <2>2. /\ Len(queue') = (N - 1) + 1 /\ queue'[(N - 1) + 1] = w
          /\ \A i \in 1..(N - 1) : queue'[i] = Tail(queue)[i]
      BY <1>1, <1>2, <2>1, AppendProperties
    <2>3. N >= 1 /\ (N - 1) + 1 = N
      BY <2>1
    <2> QED BY <2>1, <2>2, <2>3
  <1> HIDE DEF h, w, N
  <1>4. Place' = 1..N /\ Place = 1..N
    BY <1>3 DEF Place, N
  <1>5. \A i \in Place' : F[i] = IF i = N THEN 1 ELSE i + 1
    OBVIOUS
  <1>6. F \in [Place' -> Place]
    BY <1>3, <1>4
  <1> HIDE DEF F
  <1>7. ASSUME NEW i \in Place'
        PROVE  /\ queue'[i].who = queue[F[i]].who
               /\ queue'[i].job = queue[F[i]].job
               /\ queue'[i].rec = queue[F[i]].rec
               /\ i # N => queue'[i] = queue[i + 1]
    <2>1. CASE i = N
      BY <1>1, <1>3, <1>5, <2>1
    <2>2. CASE i # N
      <3>1. i \in 1..(N - 1)
        BY <1>3, <1>4, <2>2
      <3> QED BY <1>3, <1>5, <2>2, <3>1
    <2> QED BY <2>1, <2>2
  <1>8. ASSUME NEW i \in Place PROVE \E l \in Place' : F[l] = i
    <2>1. CASE i = 1
      <3>1. N \in Place' /\ F[N] = i
        BY <1>3, <1>4, <1>5, <2>1
      <3> QED BY <3>1
    <2>2. CASE i # 1
      <3>1. i - 1 \in Place' /\ F[i - 1] = i
        BY <1>3, <1>4, <1>5, <2>2
      <3> QED BY <3>1
    <2> QED BY <2>1, <2>2
  <1>9. \A i, l \in Place' : F[i] = F[l] => i = l
    BY <1>3, <1>4, <1>5
  <1>10. ASSUME NEW i \in Place', NEW l \in Place'
         PROVE  Before(i, l)' <=> Before(F[i], F[l])
    <2>1. queue[F[i]].op \in {"update", "create"}
          /\ queue[F[l]].op \in {"update", "create"}
      BY <1>6, WriteTypes
    <2> QED BY <1>1, <1>3, <1>4, <1>5, <1>7, <2>1 DEF Before
  <1>11. ASSUME NEW i \in Place'
         PROVE  \/ queue'[i].op = queue[F[i]].op
                \/ disk[queue'[i].job].status = "absent"
    BY <1>1, <1>3, <1>5, <1>7
  <1> QED BY <1>6, <1>7, <1>8, <1>9, <1>10, <1>11

LEMMA CreateMissingWrites ==
    ASSUME IndInv, IndInv', WriteInv, CreateMissing
    PROVE  WriteInv'
  <1>0. StoreOK /\ UNCHANGED <<end, bg, recov, mem, disk>>
    BY DEF IndInv, TypeOK, CreateMissing, callVars, jobVars
  <1>1. PICK From \in [Place' -> Place] :
              /\ \A i \in Place' :
                    /\ queue'[i].who = queue[From[i]].who
                    /\ queue'[i].job = queue[From[i]].job
                    /\ queue'[i].rec = queue[From[i]].rec
                    /\ \/ queue'[i].op = queue[From[i]].op
                       \/ disk[queue'[i].job].status = "absent"
              /\ \A i \in Place : \E l \in Place' : From[l] = i
              /\ \A i, l \in Place' : From[i] = From[l] => i = l
              /\ \A i, l \in Place' :
                    Before(i, l)' <=> Before(From[i], From[l])
    BY <1>0, Rotated
  <1> SUFFICES ASSUME NEW k \in Job PROVE Sound(k)' /\ Queued(k)'
    BY DEF WriteInv
  <1>10. /\ Sound(k) /\ Queued(k) /\ (Known(k)' <=> Known(k))
         /\ (Failing(k)' <=> Failing(k)) /\ (Calm(k)' <=> Calm(k))
         /\ \A who : Awaits(who, k)' <=> Awaits(who, k)
    BY <1>0 DEF WriteInv, Known, Failing, Calm, Awaits
  <1>11. Sound(k)'
    BY <1>0, <1>10 DEF Sound, TakeTurns, EndStatus, RunStatus, InStore
  <1>12. Awaited(k)'
    <2> SUFFICES ASSUME NEW i \in Place', queue'[i].job = k
                 PROVE  /\ Awaits(queue[i].who, k)'
                        /\ k \notin recov'.todo /\ end'[k].at # "idle"
                        /\ queue'[i].rec.status # "absent"
                        /\ disk'[k].status # "absent"
                               => queue'[i].op = "update"
                        /\ end'[k].at = "register" \/ Known(k)'
      BY DEF Awaited
    <2>1. PICK m \in Place : m = From[i]
      OBVIOUS
    <2>2. /\ Awaits(queue[m].who, k)
          /\ k \notin recov.todo /\ end[k].at # "idle"
          /\ queue[m].rec.status # "absent"
          /\ disk[k].status # "absent" => queue[m].op = "update"
          /\ end[k].at = "register" \/ Known(k)
      BY <1>1, <1>10, <2>1 DEF Queued, Awaited
    <2>3. PICK who : who = queue[m].who
      OBVIOUS
    <2>4. Awaits(who, k)' /\ who = queue'[i].who
      BY <1>1, <1>10, <2>1, <2>2, <2>3
    <2>5. Awaits(queue[i].who, k)'
      BY <2>4
    <2>6. disk'[k].status # "absent" => queue'[i].op = "update"
      BY <1>0, <1>1, <2>1, <2>2
    <2> QED BY <1>0, <1>1, <1>10, <2>1, <2>2, <2>5, <2>6
  <1>13. OneEach(k)'
    BY <1>1, <1>10 DEF Queued, OneEach
  <1>14. RetryLast(k)'
    <2>1. recov'.job = k =>
              \E i \in Place' : queue'[i].job = k /\ queue'[i].who = "recover"
      BY <1>0, <1>1, <1>10 DEF Queued, RetryLast
    <2>2. ASSUME NEW i \in Place', NEW l \in Place', queue'[i].job = k,
                 queue'[l].job = k, queue'[l].who = "retry"
          PROVE  /\ queue'[i].who = "recover" => Before(i, l)'
                 /\ queue'[i].who = "bg" /\ Before(i, l)' => Failing(k)'
      BY <1>1, <1>10, <2>2 DEF Queued, RetryLast
    <2>3. Calm(k)' => \A l \in Place' : queue'[l].job = k
                                        => queue'[l].who # "retry"
      BY <1>1, <1>10 DEF Queued, RetryLast
    <2> QED BY <2>1, <2>2, <2>3 DEF RetryLast
  <1> QED BY <1>11, <1>12, <1>13, <1>14 DEF Queued

\* A restart: nothing is on its way, every job of the store is to be visited.
LEMMA CrashWrites ==
    ASSUME IndInv, IndInv', WriteInv, Crash
    PROVE  WriteInv'
  <1>0. disk \in [Job -> JobRecord] /\ CallsOK
    BY DEF IndInv, TypeOK, StoreOK
  <1> SUFFICES ASSUME NEW j \in Job PROVE Sound(j)' /\ Queued(j)'
    BY DEF WriteInv
  <1>1. /\ end'[j].at \in Over \cup {"idle"}
        /\ bg'[j].at = "idle" /\ mem'[j] = Absent
        /\ recov'.job = None /\ j # None
        /\ j \in recov'.todo => disk[j].status # "absent"
        /\ queue' = <<>> /\ disk'[j] = Reclaim(disk[j])
    <2>1. end'[j].at \in Over \cup {"idle"}
      <3>1. end' = [k \in Job |->
                       IF end[k].at \in {"idle", "returned", "rejected"}
                       THEN end[k] ELSE [end[k] EXCEPT !.at = "crashed"]]
        BY DEF Crash
      <3>2. [end[j] EXCEPT !.at = "crashed"].at = "crashed"
        BY <1>0 DEF CallsOK, EndRecord
      <3> QED BY <3>1, <3>2 DEF Over
    <2>2. bg'[j].at = "idle" /\ mem'[j] = Absent
      BY DEF Crash, Idle, At
    <2>3. /\ recov'.job = None
          /\ recov'.todo = {k \in Job : disk[k].status # "absent"}
      BY DEF Crash, NotRecovering
    <2>4. queue' = <<>> /\ disk'[j] = Reclaim(disk[j])
      BY DEF Crash
    <2> QED BY <2>1, <2>2, <2>3, <2>4, HostAssumption
  <1>2. /\ Reclaim(disk[j]).status = "absent" => Reclaim(disk[j]) = disk[j]
        /\ Reclaim(disk[j]).status = "absent" <=> disk[j].status = "absent"
    BY <1>0 DEF Reclaim, WithStatus, Reclaimed, Running, JobRecord
  <1>3. Absent.status = "absent" /\ ~Absent.committed
    BY DEF Absent, Rec
  <1>4. TakeTurns(j)' /\ EndStatus(j)' /\ RunStatus(j)'
    BY <1>1, <1>3 DEF TakeTurns, EndStatus, RunStatus, Over, Terminal
  <1>5. InStore(j)'
    <2>1. j \in recov'.todo => Known(j)'
      BY <1>1, <1>2 DEF Known
    <2>2. disk[j].status = "absent" => disk[j] = Absent
      BY DEF WriteInv, Sound, InStore
    <2>3. end'[j].at \notin {"queued", "saving", "commit", "kick", "fail"}
      BY <1>1 DEF Over
    <2> QED BY <1>1, <1>2, <1>3, <2>1, <2>2, <2>3 DEF InStore
  <1>6. Place' = {}
    BY <1>1 DEF Place
  <1>7. Queued(j)'
    BY <1>1, <1>6 DEF Queued, Awaited, OneEach, RetryLast
  <1> QED BY <1>4, <1>5, <1>7 DEF Sound

\* A call is hung up: its endCall finds no job of its own anywhere.
LEMMA EndCallWrites ==
    ASSUME IndInv, IndInv', WriteInv, NEW j \in Job, NEW s \in Session,
           EndCall(j, s)
    PROVE  JobTurn(j)
  <1>0. /\ CallsOK /\ Sound(j) /\ j # None /\ ~Absent.committed
        /\ "none" \in Who \cup {"none"} /\ Absent.status = "absent"
    BY HostAssumption DEF IndInv, TypeOK, WriteInv, Absent, Rec
  <1>1. /\ end[j].at = "idle" /\ UNCHANGED <<bg, recov, mem, disk, queue>>
        /\ end' = [end EXCEPT ![j] = [NoEnd EXCEPT !.at = "hooks", !.sess = s]]
    BY DEF EndCall, jobVars, storeVars
  <1>2. end'[j].at = "hooks" /\ \A k \in Job \ {j} : end'[k] = end[k]
    BY <1>0, <1>1 DEF CallsOK, NoEnd
  <1>3. bg[j].at = "idle" /\ mem[j] = Absent /\ recov.job # j
        /\ j \notin recov.todo
    BY <1>1 DEF IndInv, Fresh
  <1>4. Turn(j, "none", "none")
    BY <1>0, <1>1, QuietTurn
  <1>5. OthersKeep(j)
    BY <1>1, <1>2, <1>3 DEF OthersKeep
  <1>6. InTurn(j, "none", "none")
    <2>1. ~Calm(j)' /\ \A who : ~Awaits(who, j)
      BY <1>0, <1>1, <1>3 DEF Calm, Awaits, Over, Terminal
    <2>2. ~Between(j)'
      BY <1>1, <1>2, <1>3 DEF Between
    <2> QED BY <1>1, <1>2, <1>3, <2>1, <2>2 DEF InTurn, Over
  <1>7. Settles(j)'
    BY <1>0, <1>1, <1>2, <1>3
       DEF Settles, TakeTurns, EndStatus, RunStatus, Terminal
  <1>8. Registered(j)
    BY <1>0, <1>1, <1>2, <1>3 DEF Registered
  <1> QED BY <1>4, <1>5, <1>6, <1>7, <1>8 DEF JobTurn

\* A step is a turn of some job, or belongs to none.
LEMMA NextTurns ==
    ASSUME IndInv, IndInv', WriteInv, [Next]_vars
    PROVE  \/ UNCHANGED <<end, bg, recov, mem, disk, queue>>
           \/ CreateMissing \/ Crash
           \/ \E j \in Job : JobTurn(j)
  <1>1. ASSUME NEW s \in Session,
               BeginCall(s) \/ CallBegun(s) \/ ComposeFails(s)
        PROVE  UNCHANGED <<end, bg, recov, mem, disk, queue>>
    BY <1>1 DEF BeginCall, CallBegun, ComposeFails, jobVars, storeVars
  <1>2. CASE EnsureProfile \/ UNCHANGED vars
    BY <1>2 DEF EnsureProfile, vars, callVars, jobVars, storeVars
  <1>3. ASSUME NEW j \in Job,
               \/ Ending(j) \/ Background(j)
               \/ Retry(j) \/ Retrying(j) \/ Recovering(j)
        PROVE  JobTurn(j)
    BY <1>3, EndingTurns, BackgroundTurns, RetryWrites, RetryingWrites,
       RecoveringWrites
  <1>4. ASSUME NEW j \in Job, NEW s \in Session, EndCall(j, s)
        PROVE  JobTurn(j)
    BY <1>4, EndCallWrites
  <1> QED BY <1>1, <1>2, <1>3, <1>4 DEF Next

\* Every step keeps the invariant.
LEMMA NextKeepsWrites ==
    ASSUME IndInv, IndInv', WriteInv, [Next]_vars
    PROVE  WriteInv'
  <1>1. CASE UNCHANGED <<end, bg, recov, mem, disk, queue>>
    BY <1>1 DEF WriteInv, Sound, Queued, TakeTurns, EndStatus, RunStatus,
                InStore, Awaited, OneEach, RetryLast, Place, Awaits, Before,
                Failing, Calm, Known
  <1>2. ASSUME NEW j \in Job, JobTurn(j)
        PROVE  WriteInv'
    BY <1>2, TurnKeeps DEF JobTurn
  <1> QED BY <1>1, <1>2, NextTurns, CreateMissingWrites, CrashWrites

\* Nothing is on its way at the start, and nobody is at work.
LEMMA InitWrites == Init => WriteInv
  <1> SUFFICES ASSUME Init, NEW j \in Job PROVE Sound(j) /\ Queued(j)
    BY DEF WriteInv
  <1>1. /\ end[j].at = "idle" /\ bg[j].at = "idle" /\ mem[j] = Absent
        /\ recov.job = None /\ recov.todo = {} /\ disk[j] = Absent
        /\ Place = {} /\ j # None
        /\ Absent.status = "absent" /\ ~Absent.committed
    BY HostAssumption DEF Init, NoEnd, Idle, At, NotRecovering, Place, Absent,
                          Rec
  <1>2. Sound(j)
    BY <1>1 DEF Sound, TakeTurns, EndStatus, RunStatus, InStore, Terminal
  <1>3. Queued(j)
    BY <1>1 DEF Queued, Awaited, OneEach, RetryLast
  <1> QED BY <1>2, <1>3

\* Whatever the environment does, endCall, background job and recovery of a
\* job take turns, each has one write on its way, and a retry's comes last.
THEOREM WritesTakeTurns == Spec => [](IndInv /\ WriteInv)
  <1>1. Init => IndInv /\ WriteInv
    BY InitInv, InitWrites
  <1>2. IndInv /\ WriteInv /\ [Next]_vars => (IndInv /\ WriteInv)'
    BY NextKeeps, NextKeepsWrites
  <1> QED BY <1>1, <1>2, PTL DEF Spec

=============================================================================
