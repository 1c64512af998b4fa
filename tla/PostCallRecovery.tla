-------------------------- MODULE PostCallRecovery --------------------------
(***************************************************************************)
(* What brings a PostCallJob back: retryPostCallJob on the user's request, *)
(* and recoverPostCallJobs once after the server process has started.      *)
(***************************************************************************)
EXTENDS PostCallJob

\* Variants: the failed steps stay failed, or get a status nobody knows.
ResetKeepsSteps(r) ==
    [r EXCEPT !.status = "background_pending", !.errors = FALSE]

ResetToRetry(r) ==
    [ResetKeepsSteps(r) EXCEPT !.steps = [p \in Step |->
        IF r.steps[p] = "failed" THEN "retry" ELSE r.steps[p]]]

\* Failed steps become pending again, failedSteps is emptied.
Reset(r) ==
    [r EXCEPT !.status = "background_pending", !.errors = FALSE,
              !.steps = [p \in Step |-> IF r.steps[p] = "failed"
                                        THEN "pending" ELSE r.steps[p]]]

\* Variant: any committed job may be retried.
RetryableOnceCommitted(r) == r.committed

Retryable(r) == r.status = "failed_retryable" /\ r.committed

\* The user retries a failed job.  A second retry is possible while the first
\* is suspended, when the job's living promise has failed again meanwhile.
Retry(j) ==
    /\ "retry" \in Env
    /\ Retryable(mem[j])
    /\ Set("retry", j, Reset(mem[j]), queue)
    /\ retrying' = [retrying EXCEPT ![j] = @ + 1]
    /\ UNCHANGED <<callVars, bg, recov, disk, snapshot, profVars, fxVars,
                   crashes>>

\* The reset job is on disk: start it, or nothing if its promise lives.
RetryStarts(j) ==
    /\ retrying[j] > 0
    /\ Landed("retry", j)
    /\ StartBackground(j, Tail(queue))
    /\ retrying' = [retrying EXCEPT ![j] = @ - 1]
    /\ UNCHANGED <<callVars, recov, profVars, fxVars, crashes>>

RetryRejects(j) ==
    /\ retrying[j] > 0
    /\ Broken("retry", j)
    /\ queue' = Tail(queue)
    /\ retrying' = [retrying EXCEPT ![j] = @ - 1]
    /\ UNCHANGED <<callVars, bg, recov, mem, profVars, fxVars, crashes>>

-----------------------------------------------------------------------------
(* Restart *)

NotRecovering == [todo |-> {}, job |-> None, start |-> FALSE]

\* Variant: every job is put back to pending.
ReclaimAll(r) == IF r.status = "absent" THEN r
                 ELSE WithStatus(r, "background_pending")

\* reclaimRunningJobs on one job.
Reclaim(r) == IF r.status \in Reclaimed
              THEN WithStatus(r, "background_pending") ELSE r

\* The server process dies and is started again: memory and what was on its
\* way to a file are gone; the store reclaims and lists its jobs.  No call
\* is ended between the start and that listing.
Crash ==
    /\ "crash" \in Env /\ crashes < MaxCrash
    /\ crashes' = crashes + 1
    /\ call' = [s \in Session |->
                  IF call[s] \in {"composing", "in_call", "ending"}
                  THEN "lost" ELSE call[s]]
    /\ active' = None
    /\ end' = [j \in Job |->
                 IF end[j].at \in {"idle", "returned", "rejected"} THEN end[j]
                 ELSE [end[j] EXCEPT !.at = "crashed"]]
    /\ bg' = [j \in Job |-> Idle]
    /\ retrying' = [j \in Job |-> 0]
    /\ mem' = [j \in Job |-> Absent]
    /\ disk' = [j \in Job |-> Reclaim(disk[j])]
    /\ recov' = [NotRecovering EXCEPT !.todo =
                    {j \in Job : disk[j].status # "absent"}]
    /\ queue' = <<>> /\ chain' = <<>> /\ saves' = <<>>
    /\ loaded' = FALSE /\ profile' = {}
    /\ session' = snapshot
    /\ UNCHANGED <<saved, snapshot, applied, played>>

\* The shell loads the user's profile (ensureProfile).
EnsureProfile ==
    /\ ~loaded
    /\ loaded' = TRUE
    /\ profile' = saved
    /\ UNCHANGED <<callVars, jobVars, storeVars, chain, saved, saves, fxVars,
                   crashes>>

Visitable(j) == j \in recov.todo /\ recov.job = None

\* recoverOneJob on a job with a terminal status.
RecoverTerminal(j) ==
    /\ Visitable(j)
    /\ disk[j].status \in Terminal
    /\ mem' = [mem EXCEPT ![j] = disk[j]]
    /\ recov' = [recov EXCEPT !.todo = @ \ {j}]
    /\ UNCHANGED <<callVars, bg, retrying, storeVars, profVars, fxVars,
                   crashes>>

\* A job that recoverOneJob can resume.
Resumable(j) == loaded /\ disk[j].committed

\* recoverOneJob on another job: resume it, or record why it cannot be.
RecoverJob(j) ==
    /\ Visitable(j)
    /\ disk[j].status \notin Terminal
    /\ Set("recover", j, IF Resumable(j)
                         THEN WithStatus(disk[j], "background_pending")
                         ELSE Failed(disk[j]), queue)
    /\ recov' = [todo |-> recov.todo \ {j}, job |-> j, start |-> Resumable(j)]
    /\ UNCHANGED <<callVars, bg, retrying, disk, snapshot, profVars,
                   fxVars, crashes>>

JobRecovered(j) ==
    /\ recov.job = j
    /\ Landed("recover", j)
    /\ IF recov.start THEN StartBackground(j, Tail(queue))
       ELSE queue' = Tail(queue) /\ UNCHANGED <<mem, bg>>
    /\ recov' = [recov EXCEPT !.job = None, !.start = FALSE]
    /\ UNCHANGED <<callVars, retrying, profVars, fxVars, crashes>>

\* The write rejects and recoverPostCallJobs with it: the jobs after this
\* one are not visited.
RecoverRejects(j) ==
    /\ recov.job = j
    /\ Broken("recover", j)
    /\ queue' = Tail(queue)
    /\ recov' = NotRecovering
    /\ UNCHANGED <<callVars, bg, retrying, mem, profVars, fxVars, crashes>>

Retrying(j) == RetryStarts(j) \/ RetryRejects(j)

Recovering(j) == \/ RecoverTerminal(j) \/ RecoverJob(j)
                 \/ JobRecovered(j) \/ RecoverRejects(j)

=============================================================================
