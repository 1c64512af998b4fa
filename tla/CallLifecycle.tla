---------------------------- MODULE CallLifecycle ----------------------------
(***************************************************************************)
(* beginCall and endCall of the EngineHost.  call[s] groups the statuses   *)
(* of a CallSession: composing is a beginCall that waits for the prompt    *)
(* (no session exists yet), ending is evaluating, selecting_exit or        *)
(* executing_effects, ended is completed, completed_with_errors or         *)
(* aborted, lost is a call whose process died.  end[j].at names the await  *)
(* endCall j sleeps on:                                                    *)
(*   hooks       the afterHangup hooks of the capability packs             *)
(*   preload     the cards that the exit's effects may schedule            *)
(*   aborting    the memory commit of a story call without an exit         *)
(*   abort_save  its profile save, which is not in the profile chain       *)
(*   register    the write that creates the closing job                    *)
(*   queued      the user's profile chain                                  *)
(*   saving      the profile save inside the chain                         *)
(*   commit, fail, kick   the write of committed, of failed_retryable, of  *)
(*                        background_pending                               *)
(***************************************************************************)
EXTENDS PostCallJob

Plan == {"completed", "completed_with_errors", "aborted"}

NoEnd == [at |-> "idle", sess |-> None, exit |-> None, plan |-> "completed"]

Moved(j, at) == end' = [end EXCEPT ![j].at = at]

\* Variant: a job whose phases have started no longer bars its agent.
BusyUntilStarted(agent) ==
    \E j \in Job : /\ mem[j].status \in ActiveStatus \ Running
                   /\ AgentOf[end[j].sess] = agent

\* The job of a call with this agent for which beginCall answers BUSY.
Busy(agent) == \E j \in Job : /\ mem[j].status \in ActiveStatus
                              /\ AgentOf[end[j].sess] = agent

-----------------------------------------------------------------------------
(* beginCall *)

\* Variant: the active call is not looked at.
AdmitsAnyUser(s) == ~Busy(AgentOf[s]) /\ loaded

\* None of CONFLICT_ACTIVE_CALL, AGENT_POST_CALL_BUSY, USER_REQUIRED.
Admits(s) == active = None /\ ~Busy(AgentOf[s]) /\ loaded

\* The prompt is composed for a call that is admitted.
BeginCall(s) ==
    /\ call[s] = "none"
    /\ Admits(s)
    /\ "overlap" \in Env \/ \A t \in Session : call[t] # "composing"
    /\ call' = [call EXCEPT ![s] = "composing"]
    /\ UNCHANGED <<active, end, jobVars, storeVars, profVars, fxVars, crashes>>

\* The prompt is there: the session exists and is the user's active one,
\* whatever happened meanwhile.
CallBegun(s) ==
    /\ call[s] = "composing"
    /\ call' = [call EXCEPT ![s] = "in_call"]
    /\ active' = s
    /\ UNCHANGED <<end, jobVars, storeVars, profVars, fxVars, crashes>>

\* composeBeginCallRenderedPrompt answers an EngineError: no session.
ComposeFails(s) ==
    /\ "compose" \in Env
    /\ call[s] = "composing"
    /\ call' = [call EXCEPT ![s] = "none"]
    /\ UNCHANGED <<active, end, jobVars, storeVars, profVars, fxVars, crashes>>

-----------------------------------------------------------------------------
(* endCall *)

\* The statuses with which a call may be ended.
Endable(s) == call[s] \in {"in_call", "ending"}

EndCall(j, s) ==
    /\ end[j].at = "idle"
    /\ Endable(s)
    /\ "double_end" \in Env \/ call[s] = "in_call"
    /\ end' = [end EXCEPT ![j] = [NoEnd EXCEPT !.at = "hooks", !.sess = s]]
    /\ call' = [call EXCEPT ![s] = "ending"]
    /\ UNCHANGED <<active, jobVars, storeVars, profVars, fxVars, crashes>>

\* The outcome of endCall j selects exit x: it becomes the session's, over
\* whatever another endCall of the call has selected.  A Free call that does
\* without an exit selects one without media here, and an exit without sync
\* effects is one whose sync effects all succeed.
Select(j, x, at) ==
    LET s == end[j].sess IN
    /\ "other_exit" \in Env \/ session[s].exit \in {None, x}
    /\ session' = [session EXCEPT ![s].exit = x]
    /\ end' = [end EXCEPT ![j].exit = x, ![j].at = at]

\* Story: the hooks are done and the outcome matches an exit.
ExitSelected(j) ==
    /\ end[j].at = "hooks" /\ end[j].sess \in Story
    /\ \E x \in Exit : Select(j, x, "preload")
    /\ call' = [call EXCEPT ![end[j].sess] = "ending"]
    /\ UNCHANGED <<active, jobVars, storeVars, profVars, applied, played,
                   crashes>>

\* Free: the hooks are done, the exit is selected after the preload.
HooksDone(j) ==
    /\ end[j].at = "hooks" /\ end[j].sess \notin Story
    /\ call' = [call EXCEPT ![end[j].sess] = "ending"]
    /\ Moved(j, "preload")
    /\ UNCHANGED <<active, jobVars, storeVars, profVars, fxVars, crashes>>

\* The cards are loaded: select the exit if that is still to be done, build
\* the job and register it.
JobBuilt(j) ==
    /\ end[j].at = "preload"
    /\ \/ /\ end[j].sess \in Story
          /\ Moved(j, "register")
          /\ UNCHANGED session
       \/ /\ end[j].sess \notin Story
          /\ \E x \in Exit : Select(j, x, "register")
    /\ Set("end", j, Closing(end'[j].exit \in WithMedia), queue)
    /\ UNCHANGED <<call, active, bg, retrying, recov, disk, snapshot, profVars,
                   applied, played, crashes>>

\* The outcome of a story call matches no exit.
NoExit(j) ==
    /\ end[j].at = "hooks"
    /\ "no_exit" \in Env
    /\ end[j].sess \in Story
    /\ call' = [call EXCEPT ![end[j].sess] = "ending"]
    /\ Moved(j, "aborting")
    /\ UNCHANGED <<active, jobVars, storeVars, profVars, fxVars, crashes>>

\* Status aborted first, then the save.
AbortCall(j) ==
    /\ end[j].at = "aborting"
    /\ call' = [call EXCEPT ![end[j].sess] = "ended"]
    /\ IssueSave("end", j, profile)
    /\ Moved(j, "abort_save")
    /\ UNCHANGED <<active, jobVars, storeVars, chain, loaded, profile, saved,
                   fxVars, crashes>>

\* Variant: the entry of activeByUser is kept.
FreeNobody == UNCHANGED active

\* finalizeEndedCall after the save: the user has no active call any more,
\* whichever call is the active one.
FreeUser == active' = None

CallAborted(j) ==
    /\ end[j].at = "abort_save"
    /\ Saved("end", j)
    /\ FreeUser
    /\ Moved(j, "returned")
    /\ UNCHANGED <<call, jobVars, storeVars, chain, loaded, profile, fxVars,
                   crashes>>

\* The closing job is on disk: queue behind the user's profile writes.
JobRegistered(j) ==
    /\ end[j].at = "register"
    /\ Landed("end", j)
    /\ queue' = Tail(queue)
    /\ chain' = Append(chain, Proc("end", j))
    /\ Moved(j, "queued")
    /\ UNCHANGED <<call, active, jobVars, loaded, profile, saved, saves,
                   fxVars, crashes>>

\* executeEffects on the sync effects, then the save is issued.  A memory patch
\* among them is awaited inside the chain, its ledger key already computed:
\* nobody can tell that await from the one on the save.
RunSyncEffects(j) ==
    /\ end[j].at = "queued"
    /\ Holds("end", j)
    /\ \E plan \in Plan :
          /\ plan = "completed" \/ "sync" \in Env
          /\ end' = [end EXCEPT ![j].at = "saving", ![j].plan = plan]
          /\ \/ /\ ~Skips(j, "sync")
                /\ profile' = profile \cup {EffectOf(j, "sync")}
                /\ Executed(j, Key(j, "sync"))
                /\ applied' = Bump(applied, j)
             \/ /\ Skips(j, "sync") \/ plan # "completed"
                /\ UNCHANGED <<profile, session, applied>>
    /\ IssueSave("end", j, profile')
    /\ UNCHANGED <<call, active, jobVars, storeVars, chain, loaded, saved,
                   played, crashes>>

\* commitOrFailSyncPlan: what the job becomes once the profile is saved.
SyncResult(r, plan) ==
    IF plan = "aborted" THEN Failed(r)
    ELSE [r EXCEPT !.status = "committed", !.committed = TRUE]

\* The profile is saved: the user is free, the session's status is final.
SyncSaved(j) ==
    /\ end[j].at = "saving"
    /\ Saved("end", j)
    /\ Release("end", j)
    /\ FreeUser
    /\ call' = [call EXCEPT ![end[j].sess] = "ended"]
    /\ Set("end", j, SyncResult(mem[j], end[j].plan), queue)
    /\ Moved(j, IF end[j].plan = "aborted" THEN "fail" ELSE "commit")
    /\ UNCHANGED <<bg, retrying, recov, disk, snapshot, loaded, profile,
                   fxVars, crashes>>

JobCommitted(j) ==
    /\ end[j].at = "commit"
    /\ Landed("end", j)
    /\ Set("end", j, WithStatus(mem[j], "background_pending"), Tail(queue))
    /\ Moved(j, "kick")
    /\ UNCHANGED <<call, active, bg, retrying, recov, profVars, fxVars,
                   crashes>>

\* kickBackgroundOrInline with a store: start the job and return.
JobKicked(j) ==
    /\ end[j].at = "kick"
    /\ Landed("end", j)
    /\ StartBackground(j, Tail(queue))
    /\ Moved(j, "returned")
    /\ UNCHANGED <<call, active, retrying, recov, profVars, fxVars, crashes>>

JobFailed(j) ==
    /\ end[j].at = "fail"
    /\ Landed("end", j)
    /\ queue' = Tail(queue)
    /\ Moved(j, "returned")
    /\ UNCHANGED <<call, active, jobVars, profVars, fxVars, crashes>>

\* A store write of endCall rejects, and endCall with it.
EndStoreRejects(j) ==
    /\ end[j].at \in {"register", "commit", "kick", "fail"}
    /\ Broken("end", j)
    /\ queue' = Tail(queue)
    /\ Moved(j, "rejected")
    /\ UNCHANGED <<call, active, jobVars, profVars, fxVars, crashes>>

\* The profile save rejects: activeByUser keeps its entry.
EndSaveRejects(j) ==
    /\ end[j].at \in {"saving", "abort_save"}
    /\ SaveBroken("end", j)
    /\ Release("end", j)
    /\ Moved(j, "rejected")
    /\ UNCHANGED <<call, active, jobVars, storeVars, loaded, profile, fxVars,
                   crashes>>

Ending(j) ==
    \/ ExitSelected(j) \/ NoExit(j) \/ AbortCall(j) \/ CallAborted(j)
    \/ HooksDone(j) \/ JobBuilt(j) \/ JobRegistered(j)
    \/ RunSyncEffects(j) \/ SyncSaved(j)
    \/ JobCommitted(j) \/ JobKicked(j) \/ JobFailed(j)
    \/ EndStoreRejects(j) \/ EndSaveRejects(j)

=============================================================================
