------------------------------ MODULE DurableJob ------------------------------
(***************************************************************************)
(* What the PostCallJob store promises of every job, across interleavings, *)
(* failed stages, retries and restarts of the server.  A job is registered *)
(* when a call is hung up, committed once its sync effects are safe, and   *)
(* from then on only gets closer to its end: a step that is done stays     *)
(* done, a job that was never committed is never run, a job that completed *)
(* is never reopened, and it completes cleanly only with no step left.     *)
(***************************************************************************)
CONSTANTS Job, Step

VARIABLE job

NoJob == [status |-> "none", committed |-> FALSE, left |-> {}]

Init == job = [j \in Job |-> NoJob]

Become(j, status, committed, left) ==
    job' = [job EXCEPT ![j] = [status |-> status, committed |-> committed,
                               left |-> left]]

Register(j) == /\ job[j].status = "none"
               /\ \E left \in SUBSET Step : Become(j, "open", FALSE, left)

Commit(j) == /\ job[j].status = "open" /\ ~job[j].committed
             /\ Become(j, "open", TRUE, job[j].left)

\* Some of the steps left are done.
Advance(j) == /\ job[j].status = "open" /\ job[j].committed
              /\ \E left \in SUBSET job[j].left : Become(j, "open", TRUE, left)

\* The record of a failure may be the first to carry earlier progress.
Fail(j) == /\ job[j].status = "open"
           /\ \E left \in SUBSET job[j].left :
                 Become(j, "failed", job[j].committed, left)

\* A failed job is taken up again, if its sync effects were committed.
Resume(j) == /\ job[j].status = "failed" /\ job[j].committed
             /\ Become(j, "open", TRUE, job[j].left)

Complete(j) == /\ job[j].status = "open" /\ job[j].committed
               /\ job[j].left = {}
               /\ Become(j, "completed", TRUE, {})

CompleteWithErrors(j) ==
    /\ job[j].status = "open" /\ job[j].committed
    /\ Become(j, "completed_with_errors", TRUE, job[j].left)

Next == \E j \in Job : \/ Register(j) \/ Commit(j) \/ Advance(j) \/ Fail(j)
                       \/ Resume(j) \/ Complete(j) \/ CompleteWithErrors(j)

Spec == Init /\ [][Next]_job

=============================================================================
