------------------------------- MODULE Mailbox -------------------------------
(***************************************************************************)
(* The voicemails of one user: the effects that leave them, the clock that *)
(* makes them due, the job after a call that generates them, the calls     *)
(* that listen to them and the shell's unread lamp, over the profile store *)
(* with Studio's own writes.                                               *)
(*                                                                         *)
(* call[c] is a call with its endCall and its post-call job:               *)
(*   in_call     the call goes on                                          *)
(*   queued      endCall waits for its turn in the user's write chain      *)
(*   aborting    no exit of a story call matches; memory is committed      *)
(*   saving      the profile save of endCall                               *)
(*   job         the job waits for the voicemail phase's turn in the chain *)
(*   generating  entries are generated one by one                          *)
(*   noted       the shell was told; the job's record is written           *)
(*   jobsave     the profile save of the phase                             *)
(* The other phases and effects, and a retry of a job, are in EngineHost.  *)
(***************************************************************************)
EXTENDS ProfileStore

CONSTANTS
    Call,       \* the calls that can be under way with their jobs
    Agent       \* who is called

ASSUME MailboxAssumption ==
    /\ Call \subseteq Saver /\ AgentOf \in [Voicemail -> Agent]
    /\ MaxExec \in [Voicemail -> Nat] /\ None \notin Voicemail

VARIABLES
    call,       \* the calls
    lamp,       \* the last onVoicemailUnreadChanged, None before the first
    execs       \* history: the executions of each effect

vars == <<storeVars, call, lamp, execs>>

At == {"idle", "in_call", "queued", "aborting", "saving", "abort_save", "job",
       "generating", "noted", "jobsave"}

\* obj is the profile object held, hand what was taken from the stack, took
\* whether that was anything.
CallRecord ==
    [at : At, agent : Agent \cup {None}, opened : Voicemail \cup {None},
     obj : Nat, hand : SUBSET Voicemail, took : BOOLEAN]

NoCall == [at |-> "idle", agent |-> None, opened |-> None, obj |-> 0,
           hand |-> {}, took |-> FALSE]

TypeOK ==
    /\ StoreOK
    /\ call \in [Call -> CallRecord]
    /\ \A c \in Call : call[c].obj \in 0..Len(heap)
    /\ lamp \in BOOLEAN \cup {None}
    /\ execs \in [Voicemail -> Nat]
    /\ \A v \in Voicemail : execs[v] <= MaxExec[v]

Init ==
    /\ StoreInit
    /\ call = [c \in Call |-> NoCall]
    /\ lamp = None
    /\ execs = [v \in Voicemail |-> 0]

Stays == UNCHANGED <<file, cur, request, kept, broken, crashes>>

-----------------------------------------------------------------------------
(* The clock *)

\* A due row is fired. The clock's saves are autosaves.
Tick(v) ==
    /\ cur # 0 /\ MailOf(cur).due[v] > 0
    /\ Change(cur, Fire(MailOf(cur), v))
    /\ Stays /\ UNCHANGED <<saves, call, lamp, execs>>

-----------------------------------------------------------------------------
(* Calls *)

Active(c) == call[c].at \in {"in_call", "queued", "aborting", "saving",
                             "abort_save"}

Busy(a) == \E c \in Call : call[c].agent = a /\ call[c].at # "idle"

\* beginCall: with an agent, or on a slot of the mailbox (resolveMailboxOpen).
BeginCall(c, a, v) ==
    /\ call[c].at = "idle"
    /\ cur # 0
    /\ \A d \in Call : ~Active(d)
    /\ ~Busy(a)
    /\ v # None => AgentOf[v] = a /\ MailOf(cur).box[v] # <<>>
    /\ call' = [call EXCEPT ![c] = [NoCall EXCEPT !.at = "in_call",
                                        !.agent = a, !.opened = v]]
    /\ UNCHANGED <<storeVars, lamp, execs>>

\* endCall takes the profile; an exit was chosen, or a story call has none.
EndCall(c, next) ==
    /\ call[c].at = "in_call" /\ next \in {"queued", "aborting"}
    /\ cur # 0
    /\ call' = [call EXCEPT ![c].at = next, ![c].obj = cur]
    /\ UNCHANGED <<storeVars, lamp, execs>>

\* enqueueProfileWrite: one function of the user's chain at a time.
InChain == {"saving", "generating", "noted", "jobsave"}
ChainFree == \A c \in Call : call[c].at \notin InChain

\* The shell hears of a change of the derived flag only.
Lamp(before, after) ==
    lamp' = IF HasUnread(before) # HasUnread(after) THEN HasUnread(after)
            ELSE lamp

\* The voicemail is marked in the object m when the outcome says it was heard.
Heard(c, m, heard) ==
    IF heard THEN Listened(m, call[c].opened) ELSE m

\* What endCall leaves behind is saved; without a cached profile the save is
\* refused: endCall rejects, and the chain goes on.
Saves(c, at) ==
    /\ IssueSave(c)
    /\ call' = IF cur = 0 THEN [call EXCEPT ![c] = NoCall]
               ELSE [call EXCEPT ![c] = at]

\* The exit's effects are executed: at most one of them leaves a voicemail.
RunEffects(c, v, heard) ==
    LET m == MailOf(call[c].obj)
        left == IF v = None THEN m ELSE Leave(m, v)
        after == Heard(c, left, heard)
    IN
    /\ call[c].at = "queued" /\ ChainFree
    /\ v # None => execs[v] < MaxExec[v]
    /\ heard => call[c].opened # None
    /\ execs' = [w \in Voicemail |-> execs[w] + IF w = v THEN 1 ELSE 0]
    /\ Change(call[c].obj, after)
    /\ Lamp(left, after)
    /\ Saves(c, [call[c] EXCEPT !.at = "saving"])
    /\ Stays

\* abortStoryNoExit: what was heard is marked, outside the chain.
AbortCall(c, heard) ==
    LET m == MailOf(call[c].obj)
        after == Heard(c, m, heard)
    IN
    /\ call[c].at = "aborting"
    /\ heard => call[c].opened # None
    /\ Change(call[c].obj, after)
    /\ Lamp(m, after)
    /\ Saves(c, [call[c] EXCEPT !.at = "abort_save"])
    /\ Stays /\ UNCHANGED execs

\* The save is done: the user is free, and a committed job starts on the
\* profile that is cached now.  An aborted call or plan has no such job.
CallSaved(c, committed) ==
    /\ call[c].at \in {"saving", "abort_save"} /\ SaveOver(c)
    /\ committed => call[c].at = "saving"
    /\ call' = [call EXCEPT ![c] =
                  IF committed /\ cur # 0
                  THEN [NoCall EXCEPT !.at = "job", !.agent = call[c].agent,
                                      !.obj = cur]
                  ELSE NoCall]
    /\ UNCHANGED <<storeVars, lamp, execs>>

-----------------------------------------------------------------------------
(* The voicemail phase of the job *)

\* runVoicemailMaterializePipeline takes all entries of the stack.
Takes(c) ==
    LET m == MailOf(call[c].obj) IN
    /\ call[c].at = "job" /\ ChainFree
    /\ Change(call[c].obj, Take(m))
    /\ call' = [call EXCEPT ![c].at = "generating", ![c].hand = m.stack,
                                ![c].took = m.stack # {}]
    /\ Stays /\ UNCHANGED <<saves, lamp, execs>>

\* Variant: an exception of the generator ends the phase.
GenerateThrows(c, v, status) ==
    LET m == MailOf(call[c].obj) IN
    /\ call[c].at = "generating" /\ v \in call[c].hand
    /\ IF status = "unread" THEN Change(call[c].obj, Deliver(m, v, status))
       ELSE UNCHANGED heap
    /\ call' = [call EXCEPT ![c].hand = IF status = "unread" THEN @ \ {v}
                                        ELSE {}]
    /\ Stays /\ UNCHANGED <<saves, lamp, execs>>

\* One entry is generated or, without a card, a port or a text, has failed.
Generate(c, v, status) ==
    /\ call[c].at = "generating" /\ v \in call[c].hand
    /\ Change(call[c].obj, Deliver(MailOf(call[c].obj), v, status))
    /\ call' = [call EXCEPT ![c].hand = @ \ {v}]
    /\ Stays /\ UNCHANGED <<saves, lamp, execs>>

\* Variant: the flag is reported the first time only.
NotesFirst(c) ==
    /\ call[c].at = "generating" /\ call[c].hand = {}
    /\ lamp' = IF call[c].took /\ lamp = None
               THEN HasUnread(MailOf(call[c].obj)) ELSE lamp
    /\ call' = [call EXCEPT ![c].at = "noted"]
    /\ UNCHANGED <<storeVars, execs>>

\* The shell hears of the unread flag when there were entries.
Notes(c) ==
    /\ call[c].at = "generating" /\ call[c].hand = {}
    /\ lamp' = IF call[c].took THEN HasUnread(MailOf(call[c].obj)) ELSE lamp
    /\ call' = [call EXCEPT ![c].at = "noted"]
    /\ UNCHANGED <<storeVars, execs>>

PhaseSaves(c) ==
    /\ call[c].at = "noted"
    /\ Saves(c, [call[c] EXCEPT !.at = "jobsave"])
    /\ Stays /\ UNCHANGED <<heap, lamp, execs>>

PhaseOver(c) ==
    /\ call[c].at = "jobsave" /\ SaveOver(c)
    /\ call' = [call EXCEPT ![c] = NoCall]
    /\ UNCHANGED <<storeVars, lamp, execs>>

-----------------------------------------------------------------------------

Crash ==
    /\ StoreCrash
    /\ call' = [c \in Call |-> NoCall] /\ lamp' = None
    /\ UNCHANGED execs

Store ==
    /\ \/ Serialize \/ SaveLands
       \/ \E who \in Saver \ Call : Autosave(who)
       \/ \E r \in Request : Studio(r)
    /\ UNCHANGED <<call, lamp, execs>>

Ends(c) ==
    \/ \E v \in Voicemail \cup {None}, heard \in BOOLEAN : RunEffects(c, v, heard)
    \/ \E heard \in BOOLEAN : AbortCall(c, heard)
    \/ \E committed \in BOOLEAN : CallSaved(c, committed)

Materializes(c) ==
    \/ Takes(c)
    \/ \E v \in Voicemail, s \in {"unread", "generate_failed"} :
          Generate(c, v, s)
    \/ Notes(c) \/ PhaseSaves(c) \/ PhaseOver(c)

Next ==
    \/ \E v \in Timed : Tick(v)
    \/ \E c \in Call :
          \/ \E a \in Agent, v \in Voicemail \cup {None} : BeginCall(c, a, v)
          \/ \E next \in {"queued", "aborting"} : EndCall(c, next)
          \/ Ends(c) \/ Materializes(c)
    \/ Store
    \/ Crash

Spec == Init /\ [][Next]_vars

\* The event loop resumes every settled promise, the port ends its writes and
\* the pump goes on.  Nobody has to call, and Studio has to ask for nothing.
StoreWrites == (Serialize \/ SaveLands) /\ UNCHANGED <<call, lamp, execs>>

Fairness ==
    /\ WF_vars(StoreWrites)
    /\ \A v \in Timed : WF_vars(Tick(v))
    /\ \A c \in Call : WF_vars(Ends(c)) /\ SF_vars(Materializes(c))

FairSpec == Spec /\ Fairness

-----------------------------------------------------------------------------
(* What the mailbox promises *)

InHand(g, v) ==
    \E c \in Call : call[c].obj = g /\ v \in call[c].hand

\* The entries and slots of a card in the cached profile, and those a job is
\* about to put there.
Entries(card) ==
    {v \in Voicemail : CardOf[v] = card /\ (v \in MailOf(cur).stack \/ InHand(cur, v))}

Slots(card) == {v \in Voicemail : CardOf[v] = card /\ MailOf(cur).box[v] # <<>>}

\* As long as the profile object is not replaced, a voicemail that was left
\* does not vanish: not when its card is already waiting, not when another one
\* falls due while a job generates, not when the generator fails
\* (pushVoicemailGenStack, runVoicemailMaterializePipeline).
MailKept ==
    [][~broken' => \A v \in Voicemail :
          \/ v \in Timed /\ MailOf(cur).due[v] > 0
          \/ Entries(CardOf[v]) # {} \/ Slots(CardOf[v]) # {}
          => \/ v \in Timed /\ (MailOf(cur).due[v] > 0)'
             \/ (Entries(CardOf[v]) # {})' \/ (Slots(CardOf[v]) # {})']_vars

\* One execution of an effect leaves at most one voicemail, in the cached
\* profile and in the file, whatever jobs take the stack, saves and restarts
\* come in between.
Copies(m, v) == Len(m.box[v]) + (IF v \in m.stack THEN 1 ELSE 0)
                + (IF v \in Timed THEN m.due[v] ELSE 0)

DeliveredOnce ==
    \A v \in Voicemail :
        /\ cur # 0 => Copies(MailOf(cur), v)
                        + Cardinality({c \in Call : call[c].obj = cur /\
                                                    v \in call[c].hand})
                      <= execs[v]
        /\ file # None => Copies(file.mail, v) <= execs[v]

\* The lamp shows what the mailbox has: no job, no listening and no aborted
\* call that runs beside a job leaves it wrong (onVoicemailUnreadChanged).
LampTrue ==
    /\ ~broken /\ lamp # None
    /\ \A c \in Call : call[c].at # "generating"
    => lamp = HasUnread(MailOf(cur))

Arrived(v) == cur = 0 \/ broken \/ Slots(CardOf[v]) # {}

\* An attached voicemail whose call is done and committed reaches the mailbox.
StackedArrives ==
    \A v \in Voicemail :
        (\E c \in Call : /\ call[c].at = "job" /\ call[c].obj = cur
                         /\ v \in MailOf(cur).stack)
        ~> Arrived(v)

=============================================================================
