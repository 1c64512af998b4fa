----------------------------- MODULE PostCallJob -----------------------------
(***************************************************************************)
(* The background half of a hang-up: postCallJobRuntime starts one promise *)
(* per job, postCallJobPhases runs memory, rollup, media and voicemail in  *)
(* that order.  bg[j].at names the await the promise sleeps on:            *)
(*   mark    the write that marks phase ph as running                      *)
(*   queued  the user's profile chain (media and voicemail only)           *)
(*   work    the memory, rollup, effect-sink or voicemail port             *)
(*   saving  the profile file                                              *)
(*   note    the write that records the result of phase ph                 *)
(*   fail    the media phase's second write, status failed_retryable       *)
(*   final   the write of the final status                                 *)
(*   catch   the write of the outermost catch                              *)
(* and idle when backgroundJobPromises has no entry for j; bg[j].exit is    *)
(* the exit in the ledger key that the media phase has computed.           *)
(***************************************************************************)
EXTENDS HostState

At(at, p, ok) == [at |-> at, ph |-> p, ok |-> ok, exit |-> None]

Idle == At("idle", "memory", TRUE)

\* stepIsFinished: a failed step counts as finished.
StepIsFinished(r, p) == r.steps[p] \in {"finished", "failed"}

\* The phases from number n on that the job still has to run.
Ahead(r, n) == {p \in Step : Order[p] >= n /\ ~StepIsFinished(r, p)}

First(phases) ==
    {p \in phases : \A x \in phases : Order[p] <= Order[x]}

\* Start the first phase of number n or more that is not finished, or, when
\* there is none, set the final status: runs up to the write it awaits.
Enter(j, r, n, q) ==
    IF Ahead(r, n) = {}
    THEN /\ Set("bg", j, WithStatus(r, IF r.errors THEN "completed_with_errors"
                                       ELSE "completed"), q)
         /\ bg' = [bg EXCEPT ![j] = At("final", "voicemail", TRUE)]
    ELSE \E p \in First(Ahead(r, n)) :
             /\ Set("bg", j, WithStep(WithStatus(r, RunningStatus[p]),
                                      p, "running"), q)
             /\ bg' = [bg EXCEPT ![j] = At("mark", p, TRUE)]

\* startPostCallBackgroundJob: nothing when the job has a promise already,
\* and runPostCallBackgroundJob up to its first await otherwise.
StartBackground(j, q) ==
    IF bg[j].at # "idle" \/ ~mem[j].committed
    THEN queue' = q /\ UNCHANGED <<mem, bg>>
    ELSE IF loaded
         THEN Enter(j, mem[j], 1, q)
         ELSE /\ Set("bg", j, Failed(mem[j]), q)
              /\ bg' = [bg EXCEPT ![j] = At("catch", "memory", FALSE)]

\* The catch around the phases: status and failedSteps, no step is touched.
Catch(j, q) ==
    /\ Set("bg", j, Failed(mem[j]), q)
    /\ bg' = [bg EXCEPT ![j] = At("catch", bg[j].ph, FALSE)]

Sleeps(j, at, p) == bg[j].at = at /\ bg[j].ph = p

\* Record how phase p ended; the failed form also sets failed_retryable.
Note(j, p, ok, q) ==
    /\ Set("bg", j, IF ok THEN WithStep(mem[j], p, "finished")
                    ELSE Failed(WithStep(mem[j], p, "failed")), q)
    /\ bg' = [bg EXCEPT ![j] = At("note", p, ok)]

-----------------------------------------------------------------------------
(* Memory and rollup: mark, call the port, record.                         *)

\* The mark is on disk: memory and rollup call their port, media and
\* voicemail queue behind the user's profile writes.  A port that cannot
\* roll up has the step skipped.
Marked(j) ==
    /\ bg[j].at = "mark"
    /\ Landed("bg", j)
    /\ \/ /\ bg[j].ph = "rollup" /\ "no_rollup" \in Env
          /\ Note(j, "rollup", TRUE, Tail(queue))
          /\ UNCHANGED chain
       \/ /\ \/ bg[j].ph = "memory"
             \/ bg[j].ph = "rollup" /\ "no_rollup" \notin Env
          /\ bg' = [bg EXCEPT ![j].at = "work"]
          /\ queue' = Tail(queue)
          /\ UNCHANGED <<mem, chain>>
       \/ /\ bg[j].ph \in {"media", "voicemail"}
          /\ bg' = [bg EXCEPT ![j].at = "queued"]
          /\ chain' = Append(chain, Proc("bg", j))
          /\ queue' = Tail(queue)
          /\ UNCHANGED mem
    /\ UNCHANGED <<callVars, retrying, recov, loaded, profile, saved, saves,
                   fxVars, crashes>>

\* commitAfterCall or rollupIfNeeded answers or throws.
MemoryAnswers(j) ==
    /\ \E p \in {"memory", "rollup"} :
          /\ Sleeps(j, "work", p)
          /\ \E ok \in BOOLEAN : (ok \/ p \in Env) /\ Note(j, p, ok, queue)
    /\ UNCHANGED <<callVars, retrying, recov, disk, snapshot, profVars,
                   fxVars, crashes>>

\* The record is on disk: on to the next phase, or stop.
MemoryNoted(j) ==
    /\ bg[j].at = "note" /\ bg[j].ph \in {"memory", "rollup"}
    /\ Landed("bg", j)
    /\ IF bg[j].ok
       THEN Enter(j, mem[j], Order[bg[j].ph] + 1, Tail(queue))
       ELSE /\ queue' = Tail(queue)
            /\ bg' = [bg EXCEPT ![j] = Idle]
            /\ UNCHANGED mem
    /\ UNCHANGED <<callVars, retrying, recov, profVars, fxVars, crashes>>

-----------------------------------------------------------------------------
(* Media: executeEffects on the deferred effects inside the profile chain. *)

\* Variant: the ledger is not consulted.
SkipsNothing(j, kind) == FALSE

\* executeEffects skips an effect its session's ledger has as executed.
Skips(j, kind) == Key(j, kind) \in session[end[j].sess].ledger

\* Nothing to do: straight to the save.  Otherwise the stub goes into the
\* profile before the sink is asked.
StartMedia(j) ==
    /\ Sleeps(j, "queued", "media")
    /\ Holds("bg", j)
    /\ IF Skips(j, "media")
       THEN /\ \E ok \in BOOLEAN : /\ ok \/ "sink" \in Env
                                  /\ bg' = [bg EXCEPT
                                          ![j] = At("saving", "media", ok)]
            /\ IssueSave("bg", j, profile)
            /\ UNCHANGED profile
       ELSE /\ bg' = [bg EXCEPT ![j].at = "work",
                                ![j].exit = session[end[j].sess].exit]
            /\ profile' = profile \cup {EffectOf(j, "media")}
            /\ UNCHANGED saves
    /\ UNCHANGED <<callVars, retrying, recov, mem, storeVars, chain, loaded,
                   saved, fxVars, crashes>>

\* EffectSink.applyMediaEffect accepts, or fails and leaves the ledger alone.
SinkAnswers(j) ==
    /\ Sleeps(j, "work", "media")
    /\ \E ok \in BOOLEAN :
          /\ ok \/ "sink" \in Env
          /\ bg' = [bg EXCEPT ![j] = At("saving", "media", ok)]
          /\ \/ /\ Executed(j, <<bg[j].exit, end[j].exit, "media">>)
                /\ played' = Bump(played, j)
             \/ ~ok /\ UNCHANGED <<session, played>>
    /\ IssueSave("bg", j, profile)
    /\ UNCHANGED <<callVars, retrying, recov, mem, storeVars, chain, loaded,
                   profile, saved, applied, crashes>>

\* The step is recorded with the status still media_running.
MediaSaved(j) ==
    /\ Sleeps(j, "saving", "media")
    /\ Saved("bg", j)
    /\ Set("bg", j, [WithStep(mem[j], "media",
                              IF bg[j].ok THEN "finished" ELSE "failed")
                        EXCEPT !.errors = @ \/ ~bg[j].ok], queue)
    /\ bg' = [bg EXCEPT ![j].at = "note"]
    /\ UNCHANGED <<callVars, retrying, recov, disk, snapshot, chain,
                   loaded, profile, fxVars, crashes>>

\* The chain is released; mediaStepFailed decides.
MediaNoted(j) ==
    /\ Sleeps(j, "note", "media")
    /\ Landed("bg", j)
    /\ Release("bg", j)
    /\ IF mem[j].steps["media"] # "failed"
       THEN Enter(j, mem[j], Order["media"] + 1, Tail(queue))
       ELSE /\ Set("bg", j, WithStatus(mem[j], "failed_retryable"),
                   Tail(queue))
            /\ bg' = [bg EXCEPT ![j].at = "fail"]
    /\ UNCHANGED <<callVars, retrying, recov, loaded, profile, saved, saves,
                   fxVars, crashes>>

-----------------------------------------------------------------------------
(* Voicemail: record inside the chain, save whatever the result, then look *)
(* at the job's status to learn whether the phase failed.                  *)

StartVoicemail(j) ==
    /\ Sleeps(j, "queued", "voicemail")
    /\ Holds("bg", j)
    /\ bg' = [bg EXCEPT ![j].at = "work"]
    /\ UNCHANGED <<callVars, retrying, recov, mem, storeVars, profVars,
                   fxVars, crashes>>

VoicemailAnswers(j) ==
    /\ Sleeps(j, "work", "voicemail")
    /\ \E ok \in BOOLEAN :
          (ok \/ "voicemail" \in Env) /\ Note(j, "voicemail", ok, queue)
    /\ UNCHANGED <<callVars, retrying, recov, disk, snapshot, profVars,
                   fxVars, crashes>>

VoicemailNoted(j) ==
    /\ Sleeps(j, "note", "voicemail")
    /\ Landed("bg", j)
    /\ queue' = Tail(queue)
    /\ IssueSave("bg", j, profile)
    /\ bg' = [bg EXCEPT ![j].at = "saving"]
    /\ UNCHANGED <<callVars, retrying, recov, mem, chain, loaded, profile,
                   saved, fxVars, crashes>>

VoicemailSaved(j) ==
    /\ Sleeps(j, "saving", "voicemail")
    /\ Saved("bg", j)
    /\ Release("bg", j)
    /\ IF mem[j].status # "failed_retryable"
       THEN Enter(j, mem[j], Order["voicemail"] + 1, queue)
       ELSE bg' = [bg EXCEPT ![j] = Idle] /\ UNCHANGED <<mem, queue>>
    /\ UNCHANGED <<callVars, retrying, recov, disk, snapshot, loaded,
                   profile, fxVars, crashes>>

-----------------------------------------------------------------------------
(* The last write of a job, and the writes that reject.                    *)

\* Variant: the promise entry outlives a job that failed.
SettledKeepsPromise(j) ==
    /\ bg[j].at \in {"final", "fail", "catch"}
    /\ Landed("bg", j)
    /\ queue' = Tail(queue)
    /\ bg' = IF bg[j].at = "final" THEN [bg EXCEPT ![j] = Idle] ELSE bg
    /\ UNCHANGED <<callVars, retrying, recov, mem, profVars, fxVars, crashes>>

\* After the final status, the catch or the media failure nothing is left:
\* the promise settles and its entry goes.
Settled(j) ==
    /\ bg[j].at \in {"final", "fail", "catch"}
    /\ Landed("bg", j)
    /\ queue' = Tail(queue)
    /\ bg' = [bg EXCEPT ![j] = Idle]
    /\ UNCHANGED <<callVars, retrying, recov, mem, profVars, fxVars, crashes>>

\* The phase's own try block covers the write that records success (Free
\* memory, rollup, voicemail; not Story memory, nor a skipped rollup).
Guarded(j) ==
    /\ bg[j].at = "note" /\ bg[j].ok
    /\ \/ bg[j].ph = "voicemail"
       \/ bg[j].ph = "rollup" /\ "no_rollup" \notin Env
       \/ bg[j].ph = "memory" /\ end[j].sess \notin Story

\* A store write of the background job rejects; one made inside the profile
\* chain makes that function settle.
StoreRejects(j) ==
    /\ bg[j].at \in {"mark", "note", "fail", "final", "catch"}
    /\ Broken("bg", j)
    /\ \/ /\ bg[j].at = "catch"       \* nobody catches this one
          /\ bg' = [bg EXCEPT ![j] = Idle]
          /\ queue' = Tail(queue)
          /\ UNCHANGED <<mem, chain>>
       \/ /\ Guarded(j)
          /\ Note(j, bg[j].ph, FALSE, Tail(queue))
          /\ UNCHANGED chain
       \/ /\ bg[j].at # "catch" /\ ~Guarded(j)
          /\ Catch(j, Tail(queue))
          /\ Release("bg", j)
    /\ UNCHANGED <<callVars, retrying, recov, loaded, profile, saved, saves,
                   fxVars, crashes>>

\* A profile save of the background job rejects.
SaveRejects(j) ==
    /\ bg[j].at = "saving"
    /\ SaveBroken("bg", j)
    /\ Catch(j, queue)
    /\ Release("bg", j)
    /\ UNCHANGED <<callVars, retrying, recov, disk, snapshot, loaded,
                   profile, fxVars, crashes>>

Background(j) ==
    \/ Marked(j) \/ MemoryAnswers(j) \/ MemoryNoted(j)
    \/ StartMedia(j) \/ SinkAnswers(j) \/ MediaSaved(j) \/ MediaNoted(j)
    \/ StartVoicemail(j) \/ VoicemailAnswers(j) \/ VoicemailNoted(j)
    \/ VoicemailSaved(j)
    \/ Settled(j) \/ StoreRejects(j) \/ SaveRejects(j)

=============================================================================
