# A TLA+ model of the airpc engine host

airpc is a phone game engine: a player dials (or is dialled by) characters, a
call is a session with a frozen card and a prompt, and hanging up selects an
exit whose effects change the player's profile, the schedule, the memories and
the media that the shell plays.  What is hard in it is not any single
computation but the *host*: asynchronous handlers of one Node process that
share maps in memory, two files with their own write queues, ports that fail,
retries, and a server that is restarted in the middle of it.  This directory
models that core, checks it with TLC and proves part of it with TLAPS.

Paths below are relative to `src/`; `engine/` is `packages/rpg-engine/src/` and
`studio/` is `apps/studioV2/`.

## 1. Inventory

### Call lifecycle: `engine/host/createEngineHost.ts`, `endCallWithPostCallJob.ts`

* State: `sessions`, `activeByUser`, `profiles`, per session its status, frozen
  card, selected exit and effect ledger.
* Operations: `resolve`, `beginCall`, chat and playback inside a call,
  `endCall` (a Story call must match an exit or is aborted; a Free call goes
  on without one), `markOutboundMissed`, `resetRuntime`.
* Interactions: composes the prompt (an await), reads the map of jobs to
  refuse a busy agent, registers a `PostCallJob`, runs the sync effects inside
  the user's profile write chain, saves the profile, starts the background job.
* Hard: `beginCall` checks before an await and writes after it; a call that is
  already ending may be hung up again; a save or a store write may reject
  between any two steps; nothing undoes the steps already made.
* Correct when: one active call per user; a hang-up ends, and frees the user;
  effects of an exit happen once; an agent whose effects are still being worked
  off is not on the phone.

### Post-call jobs: `engine/host/postCallJobRuntime.ts`, `postCallJobPhases.ts`, `postCallJobHostApi.ts`

* State: `postCallJobs` (the map), `backgroundJobPromises`, and in each job its
  status, four steps (memory, rollup, media, voicemail), `syncCommitted`,
  `failedSteps` and a snapshot of the session.
* Operations: start and run the phases, `retryPostCallJob`,
  `recoverPostCallJobs`, `listPostCallJobs`, `drainPostCallJobs`.
* Interactions: every change of a job is mirrored to the store; media and
  voicemail run inside the user's profile write chain and save the profile.
* Hard: four writers of the same record (endCall, background job, retry,
  recovery); a retry can arrive while the failed promise is still alive;
  decisions are read from the map after an await.
* Correct when: a terminal job is final, a completed job has done all its
  steps, every started job settles, memory and store agree when nothing is on
  its way, the store's record only moves forward.

### Job store: `studio/engineIOModule/postCallJob/`

* State: `post-call-jobs.json` and its write chain.
* Operations: create (a second job of a session is refused silently), update,
  `claimJob`, `reclaimRunningJobs`, list.
* Hard: read-modify-write of one file; writes that reject; what a restart finds.
* Correct when: one job per session, writes in order, the running ones are put
  back to pending at boot and nothing else is.

### Profile cache and file: `engine/host/profileViaPort.ts`, `studio/engineIOModule/profile/fsProfilePort.ts`

* State: `profiles` (one shared mutable object per user), `profileWriteChains`,
  the file with its own queue.
* Operations: ensure, save, evict, reload, import, reset.
* Hard: the object is serialised when its turn comes, not when the save was
  issued; handlers keep the object across awaits while evict or reload may
  replace it; the saves of `abortStoryNoExit` and of the schedule do not go
  through the chain.
* Correct when: no handler's change is lost; the ledger in the job store never
  runs ahead of the profile file.

### Effect executor: `engine/runtime/effectExecutor.ts`, `effectSink.ts`

* State: `session.effectLedger`, keyed by instance, card, *the session's exit*
  and effect id; the profile.
* Operations: `executeEffects` (skip what the ledger has, apply, ask the sink
  for media, record, stop at a critical failure).
* Correct when: an effect that is in the ledger is never applied again.

### Schedule: `engine/runtime/scheduleTick.ts`, `scheduleOnceFire.ts`, `scheduleCallCardEffect.ts`, `engine/schedule/`

* State, all of it in the profile: the logical clock, the recurring intents
  (rules), the once intents.
* Operations: advance by a delta, set, jump to the next intent; each disables
  rules whose card is lost, materialises the occurrences of the interval it
  passes and fires what is due; exits schedule cards and write rules; a call
  consumes the intents of its card, the end of a story cancels its intents.
* Hard: half-open intervals at day boundaries, jumps over several days, intents
  put off outside the player's window, the same effect executed twice, a clock
  that falls back to what was saved when the server restarts.
* Correct when: no occurrence is lost or jumped over, what is due is taken up,
  and nothing rings for a card that was already called.

### Outbound: `engine/host/outbound/`, `engine/runtime/scheduleOutboundPending.ts`, `studio/src/utils/server/debugger/`

* State: incoming-call events in memory, pending cards in the profile.
* Operations: dispatch of what fired, list, accept, dismiss (the card is
  missed); in the studio server the pump of the clock and the requests that
  answer and reject.
* Hard: the event lives in memory while the schedule is persisted as fired; an
  answer resolves, begins the call and only then accepts the event, with awaits
  in between, while the same ring may be rejected or the card dialled.
* Correct when: a fired intent rings once, the card of a live call stays taken,
  a missed card can be called back.

### Story line: `engine/runtime/activeStoryLock.ts`, `resolvePendingStoryCard.ts`, `pickPendingForUserDial.ts`, `end_story` in `effectExecutor.ts`

* State, in the profile: each chapter's status and lock, the pending cards of
  every agent with their statuses and entry modes.
* Operations: the gate of the lock in effect (asked when a call is resolved),
  the pick of a card, activation (when the call begins), `attach_call_card`,
  `keep_card_pending`, `end_story` with the entry of the next chapter.
* Hard: the gate is asked before an await and the chapter activated after it;
  `end_story` completes, clears the board and then puts the next entry on it, in
  an order on which everything depends; a card in hand may be off the board.
* Correct when: the next chapter can be begun, no card of a finished chapter is
  offered, and no outsider is on the phone against the lock.

### Voicemail: `engine/runtime/voicemail/`

* State, in the profile: once intents for the mailbox, the generation stack, the
  slots with their status; in the shell, the unread lamp.
* Operations: leave a voicemail at once or for later, fire a due one, generate
  what is on the stack (a phase of the post-call job), listen to one.
* Hard: the stack is emptied before the generator answers, while the clock goes
  on pushing; a call that listens and a job that generates both report the lamp.
* Correct when: no voicemail vanishes or comes twice, and the lamp is right.

### Turns, tools and memory: `studio/src/utils/server/debugger/session/`, `engine/tools/`, `studio/engineIOModule/memory/`

* State: the session's turns, exit candidates and tool trace; SQLite tables of
  entries and rollups.
* Operations: opening turn, message, rounds of tools, hang-up; commit after a
  call, rollup of month and quarter, clearing of an agent's memory.
* Hard: the model's reply, its tools and the port's answers arrive after the
  hang-up, while the job extracts; a retried phase commits again; any write of
  the job's record may reject between two writes to the memory; rollups are
  made from what is there at the time, at the end of a month, and are cut.
* Correct when: what is said in time is remembered, or the job shows that it is
  not, and nothing after the hang-up is; no entry is there twice, and rollups
  tell what is there.

### Studio's own writes: `studio/src/utils/server/users/`, `studio/app/api/users/`

* Operations: routes that edit the user's data, edit the schedule, or delete the
  user, each by reading and writing `profile.save.json` itself; then the host's
  cached profile is reloaded or dropped (or is not).
* Hard: the host saves its own object at any time, and handlers hold it.
* Correct when: an edit that settled is not undone, a deleted user stays deleted.

### The rest

Exit selection and conditions, call-flow prompt selection: pure computations.
Prompt composition, workspace loading and validation, world lore, engine log,
shell control, capability packs: no state that two handlers fight over.  Studio
applications, editors and plugins: user interface.

`PROJECT.json` lists every component with its status, and 40 hazards with the
line at which each bites.

## 2. The modules

| module | models |
| --- | --- |
| `HostState` | the state of one host for one user; job records, sessions and ledger, the store's write chain, the profile chain and the file's queue, as operators the other modules use |
| `PostCallJob` | the background job: start, four phases, failures, the outermost catch |
| `CallLifecycle` | `beginCall` and `endCall`, Story and Free |
| `PostCallRecovery` | `retryPostCallJob`, restart with `reclaimRunningJobs`, `recoverPostCallJobs`, `ensureProfile` |
| `EngineHost` | composes them: `Init`, `Next`, fairness, all properties, the refinement mapping |
| `DurableJob` | abstract: what the store promises of a job |
| `MCEngineHost` | instances of `EngineHost` for TLC |
| `Schedule` | what the engine does to the schedule and the board of one agent in a profile: synchronous code, as operators from profile to profile |
| `Outbound` | the state machine around it: pump and jumps of the clock, events, the requests that dial, answer and reject, the effects of an exit, saves, restart; its properties |
| `MCOutbound` | instances of `Outbound` for TLC |
| `ProfileStore` | the cached profile object, the file, the port's writes, loads, Studio's edits and deletions |
| `Voicemail` | what the engine does to the voicemails in a profile, as operators |
| `Mailbox` | composes `ProfileStore` and `Voicemail` with the calls, their jobs and the clock |
| `MCMailbox` | instances of `Mailbox` (and so of `ProfileStore`) for TLC |
| `StoryLock` | the lock: which is in effect, the gate's table, activation, completion, planning |
| `StoryCalls` | the calls that play the cards of chapters, their exits' effects on the story line |
| `MCStory` | an instance of `StoryCalls` for TLC |
| `Memory` | commit and rollup of the memory port, as operators |
| `CallMemory` | the turns and tools of calls and the memory and rollup phases of their jobs |
| `MCCallMemory` | instances of `CallMemory` for TLC |
| `EngineHost_proofs` | type correctness, `BusyWhileWorking`, `UniquePersistedJob`; the calls: `SyncEffectsOnce`, `ActiveCallIsLive`, `OneActiveCall` |
| `JobWrites_proofs` | who writes a job's record when: one writer at a time, one write each |
| `JobRecords_proofs` | what is written: `TerminalIsFinal`, `MirrorAgrees`, `CompletedJobsFinished`; the effects of a job: `NoCallDuringEffects`, `MediaEffectsOnce`, `LedgerBehindProfile` |
| `StoreRefinement_proofs` | the refinement of `DurableJob` |
| `CallMemory_proofs` | type correctness of `CallMemory`, `NothingAfterHangUp`, `SameTextOnce`, `RollupsReal`, `RollupsCover` |
| `Mailbox_proofs` | type correctness of `Mailbox`, `UserEditKept`, `DeletedStaysDeleted`, `DeliveredOnce`, `LampTrue`, `MailKept` |
| `Outbound_proofs` | type correctness of `Outbound`, `NoOccurrenceSkipped`, `NothingJumpedOver`, `NoRingAfterCall`, `RingsOnce`, `LiveCardTaken` |
| `StoryCalls_proofs` | type correctness of `StoryCalls`, `LockHolds`, `OldChapterCleared`, `NextChapterReachable` |

### How the model reads

The engine is one JavaScript process, so code between two awaits is atomic.  A
process of the model is a suspended async call, and **an action is the
completion of the await it sleeps on together with everything the code does up
to its next await**.  `end[j].at` and `bg[j].at` name the await; each action is
one of those completions:

| await | modelled by |
| --- | --- |
| prompt of `beginCall` | `BeginCall` .. `CallBegun` / `ComposeFails` |
| hooks, preload of the cards | `end` at `hooks`, `preload` |
| a store write | an element of `queue`; `Landed`, `Broken` or `CreateMissing` at its head |
| the user's turn in `enqueueProfileWrite` | an element of `chain`; `Holds` when at its head |
| the profile file | an element of `saves`; `Saved` or `SaveBroken` at its head |
| memory, rollup, sink, voicemail | `bg` at `work`, a nondeterministic answer |

`mirrorPostCallJob` is an update followed by a create when the update finds no
job; the create joins the end of the chain, and that is what `CreateMissing`
does.  A second job of a session is refused there (`Duplicate`) and lives in
memory only.

The profile is the set of effects it holds, `profile` in memory and `saved` in
the file.  `Saved` writes either what the profile held when the save was issued
or what it holds when the write is done: the two extremes of a serialisation
that happens in between.  `snapshot` is the session inside the persisted job,
serialised when the write lands, because the job shares the session object.

`session[s]` has the selected exit and the ledger.  A ledger key names the
session's exit *at the time the effects run* and the effect (which belongs to
the exit that this endCall selected): `<<session's exit, owning exit, kind>>`.
In the code the two may differ: the remarks in section 3 say what follows.

The environment's freedoms are named strings in the constant `Env` (see
`Behaviour` in `HostState`); a run switches on those its question needs, the
theorems hold for every subset that meets their conditions (section 4).

### Schedule and outbound

`Schedule` has one operator per function of the code, and a profile is a value:
`Forward(p, cards, to)` is reconcile, set the clock and materialise;
`Fire(p, f)` is `tickScheduleOnce`; `Begin(p, i)` is what `beginCall` does to the
card and its intents.  In the code a tick goes through the intents in the order
in which they were pushed, and `find` takes the first instance of a card; the
model does not keep these orders, so `Finds(p)` has every choice of the instance
that a card's due intents may find or create, and `Dialable` every instance
that the pick by priority, redial slot and age may come to.  Random ids become
the name of what created the thing: an instance is named by its occurrence or
by the execution of its effect.

`Outbound` follows the same rule for awaits as `EngineHost`: `flow[f].at` names
the await a request sleeps on (`looking`: resolve, `composing`: the prompt,
`saving`: the profile save).  Overlapping `beginCall`s and the post-call job are
the business of `EngineHost`; here a call is begun only when none is, and an
exit's effects are any of the effects in any order.

* The clock has `DayLen` units a day and stops at `Horizon`; there the pump goes
  on without moving it.  `MaxExec` bounds how often an effect is executed,
  `MaxCrash` the restarts.
* The player's window is a free choice in every tick.
* Left out: paused and cancelled rules; the once intents of voicemail cards are
  in `Voicemail`, `end_story` and the story lock in `StoryCalls`.

### Profile store and mailbox

`ProfileStore` follows the profile *object*.  Each load makes a new one
(`structuredClone`), `cur` is the one in the host's map, and whoever took an
object before an await (`call[c].obj`) goes on with it after the map has
another.  A save takes its place in the port's queue with the object that is
cached then, is serialised when its turn comes (`Serialize`) and lands
(`SaveLands`); the two are separate because the object may change in between.
Studio's requests read the file, write it and then reload, or do not.

A profile is the set of Studio's edits that it has and the mail of the host.
Two reductions keep the instances small: mail is not followed in the file after
its last possible reader (`Stored`), and `kept`, the history of the edits that
settled, only takes in a request that was done while nothing older than it was
on its way.  An edit that was overtaken by an older save at once is *not*
claimed to stay: the code gives no such promise, and the one it gives, in a
comment of `profileViaPort.ts`, is the later autosave.

`Mailbox` adds the calls.  The write chain of the user is the guard `ChainFree`;
`abortStoryNoExit` runs outside of it, as in the code.  The clock fires due rows
at any time.  A voicemail is named by the effect that leaves it, which is its id
in the code.  Left out: what a voicemail says, and a call that plays a voicemail
card without coming from the mailbox, which marks a slot by agent and card.

### Story line

`StoryLock` has the gate's decision table and what begins, ends and plans a
chapter; no code of the engine creates a lock, so locks come with the profile
(`Seeds`).  In `StoryCalls` a ring of the shell is a request with intent
`agent_outbound` that may come at any time, the choice among pickable cards
(redial slot, priority, age) is free, and a played instance is dropped when its
call is over because nothing reads it any more (`Over`).  `simulate_start` plays
an instance that is not on the board, which is how an exit can keep a card that
was never there.  That an agent is busy after a call belongs to `EngineHost`.

### Turns and memory

`CallMemory` has one request per message of the user and one for the opening
turn.  An action is again the completion of an await: the model's answer, its
failure, or one tool of a round; the port's answer to a lookup is another await.
One tool per round is enough, since every round is counted and several tools of
one round follow each other without anything new to see.  A session whose
job is over is read no more (`Over`).

After the hang-up `call[c].at` is where the call's job is, with one action for each
await of its attempt: the write that the memory phase begins (`Marks`), the model and
the commit (`Commits`, `Refuses`), the write of its step (`Notes`), the rollup phase
(`Rolls`).  An attempt works at one time, `since`.  Each of them has its failure:

| in the code | action |
| --- | --- |
| sync plan aborted, a write of `endCall` rejects | `HangUpFails`, `record` is what the disk has |
| `abortStoryNoExit`, with its own commit | `Aborts`, then `Commits` or `AbortFails` |
| no profile, or the write of `memory_committing` rejects | `MarkFails` |
| `commitAfterCall` answers that it is not ok | `Refuses`: the step is skipped |
| `commitAfterCall` throws | `CommitFails` |
| the write of the memory step rejects | `NoteFails` |
| the write of `rollup_running` rejects | `RollMarkFails` |
| a statement of the rollup or the write of its step fails | `RollFails`, with the rollups written so far |
| the second statement of a clearing fails, or a restart comes before it | `ClearFails`, `CrashClearing` |
| a restart | `Crash`: the job is resumed, failed or stuck (`Resumption`), with the steps that the disk has |

A write of a job's record changes the job in memory first, so the step in memory
(`memory`, `rollup`) and the one on the disk (`kept`) may differ, and the write that
records a failure may itself land or not (`lands`).  A job that failed waits for a
retry (`stopped`); one that nobody may retry is `stuck` and keeps the agent.  The
last two awaits of the rollup phase are one step: what is between them shows
only in their failures, and `RollFails` and `Crash` have both outcomes.  A recovery
that breaks off at the job of another agent and so never visits this one is left
out.

`Memory` follows the episodic layer, the one that rollups read: of each commit the
summary of the call and its vignettes, by what makes their hash (call, kind, text).
A rollup is the set of the entries whose snippets are whole in its text.  The code
takes the `maxEntriesPerPeriod` (40) oldest entries of a period, joins a snippet of
each and cuts the text at `maxSummaryChars` (400), so how many are whole depends on
how long they are: `Digests` leaves that open, from `Fits` of them to `Limit`.  A
full snippet of a summary of a call has 108 characters with its separator and the
header has up to 22, so `Fits` stands for 3.  The four periods are written one after
the other, each by a statement of its own (`Firsts`).  Left out: the other layers,
projections, search and ranking, the policy that offers tools, `applyPatch`, which
can only write to the semantic layer.

### Abstractions of the host

* One user.  Everything in the host is keyed by user; the job store's chain is
  shared by users, which only adds waiting.
* One representative sync and one media effect per exit.  Any other effect of
  the same list may fail when the representative does not, so the plan's status
  and the representative's execution are independent.
* A sync effect that patches the memory is awaited inside the chain with its
  key already computed; that await and the following one on the save are one.
* Steps `done` and `skipped` are one value (`finished`): every guard treats
  them alike.  `failedSteps` is a flag, `errors`.
* The flag by which a job learns that there is a voicemail to record is left
  out: the voicemail phase always asks the port.
* A write reaches its file whole or not at all.  A torn file is not modelled.
* A restart is one step with the reclaim and the listing that precede recovery:
  no endCall falls between them.  The first `beginCall` of the shell after a
  restart is not ordered with the recovery, in the model as in the code.
* `resetRuntime`, eviction and reload of a profile, `claimJob` (which the engine
  never calls), dialogue and playback are left out.
* Counters: `MaxCrash` bounds restarts; `applied` and `played` stop at two,
  which is all their properties tell apart.

## 3. The runs

Behaviours of the bounded instances may really stop when their calls, hang-ups,
effects or loads are used up: deadlock is checked where something always goes
on, in the `outbound_` runs (the pump) and in `story_calls` (the user can always
dial).

| run | instance | shows |
| --- | --- | --- |
| `host_calls` | `EngineHost`: 3 calls, 2 agents, 2 hang-ups; prompt, sync, memory, rollup and sink fail, retry; no store or save failure, no restart | `TypeOK`; `OneActiveCall`; `NoCallDuringEffects`; `ActiveCallIsLive`; `CompletedJobsFinished`; `MirrorAgrees`; `TerminalIsFinal`; under fairness `EndedCallFreesUser` and `JobsSettle` |
| `host_double_end` | `EngineHost`: 2 calls of one agent, 2 hang-ups that may be of one call, 2 exits of which one has media; store and profile writes, sink and voicemail fail, retry | `BusyWhileWorking`, `UniquePersistedJob`, `SyncEffectsOnce`, `MediaEffectsOnce` |
| `host_recovery` | `EngineHost`: 2 calls, 2 hang-ups, 2 exits, one restart at any moment, store writes reject, no rollup in the memory port | `LedgerBehindProfile`, and the records in the store refine `DurableJob` |
| `host_overlap` | `EngineHost`: 2 overlapping `beginCall`s | violates `OneActiveCall` |
| `outbound_calls` | `Outbound`: 1 story card, 2 requests at a time, one effect that schedules it (twice) and one that attaches it, 2 clock units | `TypeOK`, `RingsOnce`, `LiveCardTaken`, `NoRingAfterCall` |
| `outbound_restart` | `Outbound`: 1 card with a daily rule, 2 days of 2 units, 1 request, 1 restart, the card may be deleted | `NoOccurrenceSkipped`, `NothingJumpedOver`, under fairness `DueFires` |
| `mailbox` | `Mailbox`: 2 calls at a time with 2 agents, one voicemail attached (twice) and one scheduled on one card, a poller that loads, 1 restart | `DeliveredOnce`, `LampTrue`, `MailKept`, under fairness `StackedArrives` |
| `profile_store` | `Mailbox` without voicemails: an edit of the user, an edit of the schedule, a deletion, a poller, a call with its job, the pump's saves, 3 loads, 1 restart | `TypeOK`, `UserEditKept`, `DeletedStaysDeleted` |
| `profile_edit` | the same | violates `ScheduleEditKept` |
| `story_calls` | `StoryCalls`: 3 agents, 3 cards in 2 chapters, every kind of lock on the first, dials, rings, Free calls, simulations, a call at a time | `TypeOK`, `NextChapterReachable`, `OldChapterCleared`, `LockHolds` |
| `call_turns` | `CallMemory`: 1 call with opening turn and 2 messages at a time, 1 exit to register, 2 rounds of tools, failures of the model, the port and every write, an aborted plan, no exit; 2 restarts or retries | `TypeOK`, `NothingAfterHangUp`, under fairness `RequestsEnd` and `TalkRemembered` |
| `call_memory` | `CallMemory`: 2 calls, one message each, 2 texts and 1 vignette, from the last month of a quarter to the first of the next, the same failures, 1 restart or retry, 1 clearing, whole or cut off | `SameTextOnce`, `RollupsReal`, `RollupsCover` |

### Why these bounds

Three calls with two agents are the least in which, while a job of the first
call is at work, a call with the other agent is legal, and one with the same
agent is not.  Two hang-ups are needed for two jobs to meet in the chain, in
the store (two jobs of one call) and in the ledger.  Both a Story and a Free
call are in each instance with two calls.  Two exits, one with and one without
media, make both forms of a closing job.  One restart interrupts every await
once; after it everything starts from the two files, and a second restart finds
a state of the same shape.

Two requests are the least for an answer to meet a dial, a rejection or an older
answer of the same ring; two executions of the scheduling effect give two
intents on one instance, and an instance that rings again after its first ring
was rejected and its call was held.  Two days with an occurrence on the second
unit of each have an interval that ends on an occurrence, one that starts on
one, one inside a day and one that spans both; a restart takes the clock back to
any saved moment.  A week's pattern (`RuleDays`) is not exercised beyond "every
day".

Two calls at a time are the least in `Mailbox` for a job that generates to meet
another call that listens, is aborted or generates too; a voicemail executed
twice and two on one card are what the stack's "one entry per card" is about.
`profile_store` needs three loads: the first object, one by a poller and one by
the reload of an edit, so that a late load replaces a newer object.  In
`story_calls` two agents are inside the lock and one outside; four instances of
a card suffice for the ones on the board and in the hands of the call, and a run
with five finds nothing new.  In `call_turns` two messages at a time and an
opening that is still asked for are the ways in which replies overlap, and two
rounds have a round that is not the last; two restarts or retries (`MaxResumed`
counts both) are the least for a job that fails, is resumed by a restart without the
failed step and is then retried.  In `call_memory` two calls, a second text after a
retry and a vignette for each put up to five entries into a period of which
`Fits = 2` are sure of their place and `Limit = 3` may have one; three moments are
two of one month and one of the next quarter.  One opening and no tools are enough
there (`Opening`, `MaxRounds`), because of what was said only the outcome of the gate
matters for the memory.  For the same reason TLC identifies states by `MemoryView`:
of a job it keeps what its next steps read, and of the disk's record nothing once no
restart is left.  The invariants are of the entries, the rollups and the jobs' ends,
all of which are in the view.

### The conditions of the passing runs

The conditions matter and are part of what is shown:

* `OneActiveCall` needs that `beginCall`s do not overlap (`host_overlap`) and
  that no call is hung up twice: `finalizeEndedCall` clears the user's entry,
  whichever call it names, so a late second hang-up frees a user who is in the
  next call.
* `ActiveCallIsLive` and `EndedCallFreesUser` are checked without rejecting
  profile saves: `abortStoryNoExit` sets the status before it saves, so a
  rejected save leaves an aborted call active that nobody can end.
* `JobsSettle` is checked without rejecting store writes: `retryPostCallJob`
  resets the job before its write, and a rejected write leaves it pending with
  no promise.
* `CompletedJobsFinished` and the refinement of `DurableJob` need that no retry
  meets a failing voicemail phase (`NoLateRetry`).  The phase learns from the job's
  status, after the profile save, whether it failed (`postCallJobPhases.ts:346-370`).
  A user who retries during that save resets the status and the failed steps;
  `startPostCallJob` starts nothing because the promise still lives
  (`postCallJobRuntime.ts:140`), and the promise takes the reset status for a
  success: the job goes to `completed` with its voicemail step pending.  TLC shows
  it with one call, one job and `Env = {"no_rollup", "voicemail", "retry"}`.  The
  host's contract says of a retry that it continues at the first unfinished step
  (`engineHostApi.ts:108`).  A rejected write of the failure is the other way to
  the same end, hence `"store"` in the condition.
* `MirrorAgrees` and `TerminalIsFinal` are checked without rejecting store
  writes: the map is changed before its write, so a rejected write leaves the
  two apart until the next one, and a rejected write of the final status makes
  the outermost catch reopen the job.
* `NoCallDuringEffects` is checked without restarts: a call served before the
  recovery has run finds an empty map.  It needs what `OneActiveCall` needs, and
  store writes that do not reject: the catch around the closing write marks a job
  failed whose agent may be on the phone already.
* `SyncEffectsOnce` needs that the hang-ups of a call select the same exit: the
  ledger key has the session's exit, which a further hang-up overwrites, so
  that with different exits the effects of one may be applied twice.
* `MediaEffectsOnce` is about one life of the process: a crash between the
  sink's answer and the next write of the job loses the ledger entry.  It also needs
  that the hang-ups of a call select the same exit, as `SyncEffectsOnce` does.
* `LedgerBehindProfile` is checked without double hang-ups and with profile
  saves that do not reject: the ledger entry is made before the save, so any
  other store write of the same session in between (of a second job of the
  call, or of the catch after a rejected save) puts the ledger ahead.
* `MailKept` and `LampTrue` hold as long as the cached object is the one that the
  calls and jobs work on.  A reload for an edit, or a load that overlaps another,
  replaces it, and what was not saved yet is gone.
* `LockHolds` is shown for one request at a time: the gate is asked when a call is
  resolved, so that with two requests an outsider's call may begin under a lock
  that began during its prompt (`Overlap = TRUE` and two requests show it).
* `TalkRemembered` is about a job whose sync stage is committed and begins an attempt,
  and what it promises is a talk that is remembered or a job that shows that it is
  not.  That is so when the port refused the commit, which counts as skipped and is
  never retried; when the commit failed (after a restart its step still says so,
  and the job is resumed without it); when any write of the job's record rejects
  before the commit, so that the job has failed and waits for a retry; and when the
  write of a retry or of the recovery rejects, so that it stands still.  Nothing is
  promised of a call whose job never got that far: an aborted sync plan, a rejected
  write of `endCall` itself, or a story call without exit whose own commit failed.
* `RollupsCover` is about calls whose memory and rollup phases ran in one attempt: an
  attempt that is retried in a later month commits at its own time, but one whose
  commit is done and whose rollup is retried after two months leaves the month of
  the entry without it, and a rollup that failed before a restart is left out after it.
  It promises a place in the text only while entries that are not newer leave one:
  with full snippets that is three entries of a month or quarter, vignettes included,
  long before the limit of 40.
* `RollupsReal` excepts a clearing of which only the first statement was done (`torn`),
  until the next clearing.

### Fairness

`FairSpec` has weak fairness for each suspended call by itself: each endCall,
each background job, each retry, the recovery of each job, the composition of
each prompt, and the second half of a mirrored write.  It stands for the event
loop, which runs the continuation of every settled promise, and for ports that
answer in the end, with success or failure.  Nothing is assumed of the user
(no call, hang-up or retry has to happen), of failures, or of restarts.

In `Outbound` fairness is about the clock alone: the pump's interval timer goes
on while the studio runs, so its saves end (weak fairness), and the player's
window opens every day, so a pump that is possible again and again with the
window open happens (strong fairness: each pump makes the next one wait for its
save).  Nobody has to dial, answer, reject or hang up.

In `Mailbox` the port's writes, the clock and the end of each call are weakly
fair, as above; the phases of a job that wait for the user's write chain
(`ChainFree`) are strongly fair, because the chain is a queue and every function
in it ends.  In `CallMemory` every reply is weakly fair, that is, the model and the
port answer or fail in the end: the client of the model has no timeout of its
own, so this is an assumption about the service.  So are the steps of a call that is
hung up (`Works`); a retry is not.

### Findings

`PROJECT.json` has the two disagreements between code and its own documents that
violation runs exhibit:

1. `host_overlap`: two `beginCall`s that overlap in the prompt composition both
   become active, against "at most one active session per user".
2. `profile_edit`: the schedule route edits the profile file and does not reload the
   host's cached profile; the next autosave of the host overwrites the edit,
   which is what the comments of `reloadProfileViaPort` and
   `syncHostProfileAfterFsWrite` warn of.

### Remarks

What else the work on the models brought up, seen in a trace of TLC or in the code
beside a definition; no run of the project is kept for these:

* An aborted sync plan leaves a job that bars the agent until a restart, which no
  retry accepts; the host's contract points the user to a new call.
* Recovery runs at boot before any profile is loaded and so records every
  unfinished job as failed instead of resuming it.
* A card that a recurring rule put on the board has the mode `outbound_auto`; when its
  ring is rejected it is missed, "for the user to call back", but a user's dial
  never picks that mode.
* `end_story` clears the story cards of *all* chapters, also of those still open
  (`clearStoryPendingCards`).  If arranging the next chapter then throws, the
  chapter is completed and has no successor; the effect is recorded as failed.
* A story call that is aborted leaves its card `active` on the board, and its
  chapter active with its lock: nothing offers the card again.
* A call whose opening turn fails after `beginCall` goes on in the host, while the
  client never learns its id; the user is busy until a restart.  Accepting a
  ring has the same form: the event is consumed before the opening turn.
* A memory phase that is redone after a restart asks the model again and commits
  another text, hence a second summary of the call: the hash only knows equal
  texts.
* A result of `search_memory` that arrives after the hang-up is still traced into
  the session, while a reply is refused.  A running job writes into a memory that
  was cleared meanwhile.
* A rollup keeps the oldest entries of its period, and the cut at 400 characters comes
  long before the limit of 40 entries: of long snippets three are sure to be in it,
  and what was said last in the month is what is missing.  Vignettes take their
  place among the summaries of calls.
* A step that failed counts as finished (`stepIsFinished`), which a retry takes back
  and the recovery does not: after a restart the job is completed without the memory
  or the rollup that failed before it.
* What was said in a story call without exit is committed inside `endCall` and comes
  into a rollup only by a later call; that call has no job that could be retried.
* Clearing an agent's memory is a statement for the entries and one for the rollups
  with no transaction around them: when the second fails, rollups tell of entries
  that are gone.
* Two slots of one effect have one id, and only the first is ever marked as heard.
  A scheduled voicemail that falls due is stacked and waits for the next
  call's job; at boot nobody tells the shell of unread ones.
* Reloading the profile after an edit of the user's data drops what the host had
  changed and not saved.
* The scheduler of plug-in tasks puts a task back after the handler's await that was
  cancelled during it (`pluginTaskScheduler.server.ts`).

### Mutants

For each property of a passing run `PROJECT.json` names a plausible bug, written
as a second form of the mapped definition ("Variant:" in its comment), that
breaks it: a dropped guard (`AdmitsAnyUser`), a mirror of the old record
(`SetMirrorsOld`), a duplicate check by job id (`KnownById`), a chain that does
not make its functions wait (`HoldsAnywhere`), an event that still counts after it
was taken (`DispatchUnlessHeld`), a peek that starts tomorrow (`PeekTomorrow`), an
edit that does not reload (`AnswersAtOnce`), a generator whose failure ends the
phase (`GenerateThrows`), a chapter planned before the board is cleared
(`EndsAfterNext`), a hash that covers the time (`InsertTimed`), and so on.

## 4. The proofs

For every set of calls, endCalls, agents, exits, messages, voicemails, cards, rules
and requests, every `Env` and every bound on restarts, loads, rounds and time, TLAPS
checks the theorems below.  The assumptions (`HostAssumption`, `MemoryAssumption`,
`CallMemoryAssumption`, `ProfileAssumption`, `MailboxAssumption`,
`ScheduleAssumption`, `OutboundAssumption`, `StoryLockAssumption`,
`StoryCallsAssumption`) only say that the constants are of the right kind and that
the kinds are apart; TLC evaluates them on every run.

| theorem | states |
| --- | --- |
| `Invariance` | `Spec => []IndInv` |
| `TypeCorrect` | `Spec => []TypeOK` |
| `AgentBusyWhileWorking` | `Spec => []BusyWhileWorking` |
| `OneJobPerCall` | `Spec => []UniquePersistedJob` |
| `SyncOnce` | `Spec => []SyncEffectsOnce`, if `"other_exit"` is not in `Env` |
| `UserNeverStuck` | `Spec => []ActiveCallIsLive`, if not both `"save"` and `"no_exit"` are in `Env` |
| `OneCallAtATime` | `Spec => []OneActiveCall`, if neither `"overlap"` nor `"double_end"` is in `Env` |
| `WritesTakeTurns` | `Spec => [](IndInv /\ WriteInv)` |
| `ClosedForGood` | `Spec => TerminalIsFinal`, if `"store"` is not in `Env` |
| `StoreHasTheRecord` | `Spec => []MirrorAgrees`, if `"store"` is not in `Env` |
| `CompletedMeansDone` | `Spec => []CompletedJobsFinished`, if `NoLateRetry` |
| `AgentAloneAtWork` | `Spec => []NoCallDuringEffects`, if none of `"overlap"`, `"double_end"`, `"store"` and `"crash"` is in `Env` |
| `PlayedAtMostOnce` | `Spec => []MediaEffectsOnce`, if neither `"other_exit"` nor `"crash"` is in `Env` |
| `LedgerClaimsTrue` | `Spec => []LedgerBehindProfile`, if neither `"save"` nor `"double_end"` is in `Env` |
| `StoreKeepsItsPromise` | `Spec => ImplementsDurableJob`, if `NoLateRetry` |
| `SilenceAfterHangUp` | `Spec => NothingAfterHangUp` |
| `SameTextIsOnce` | `Spec => []SameTextOnce` |
| `RollupsAreReal` | `Spec => []RollupsReal` |
| `RollupsCoverCalls` | `Spec => []RollupsCover` |
| `MemoryTypeCorrect` | `Spec => []TypeOK` of `CallMemory`, if `Message` is finite |
| `ProfileTyped` | `Spec => []TypeOK` of `Mailbox` |
| `EditsSurviveSaves` | `Spec => []UserEditKept` |
| `DeletionsSurviveSaves` | `Spec => []DeletedStaysDeleted` |
| `DeliveryInvariant` | `Spec => [](MailboxInv /\ Delivery)` |
| `NoVoicemailTwice` | `Spec => []DeliveredOnce` |
| `LampShowsMailbox` | `Spec => []LampTrue` |
| `NoVoicemailLost` | `Spec => MailKept` |
| `ScheduleHolds` | `Spec => []ScheduleInvariant` |
| `OutboundTypeCorrect` | `Spec => []TypeOK` of `Outbound` |
| `NothingSkipped` | `Spec => []NoOccurrenceSkipped` |
| `NextIsNext` | `Spec => NothingJumpedOver` |
| `CalledIsHeard` | `Spec => NoRingAfterCall` |
| `OneRing` | `Spec => []RingsOnce` |
| `TakenStaysTaken` | `Spec => []LiveCardTaken` |
| `StoryTypeCorrect` | `Spec => []TypeOK` of `StoryCalls` |
| `CallsObeyLock` | `Spec => []LockHolds`, if `Overlap` is `FALSE` |
| `OldCardsGone` | `Spec => []OldChapterCleared`, if `Overlap` is `FALSE` and `ExitsProper` |
| `NextChapterOpens` | `Spec => []NextChapterReachable`, if moreover `EntriesOpen`, `CopiesUnbounded` and nothing is simulated |

The first fifteen are about `EngineHost`, the next five about `CallMemory`, the next
seven about `Mailbox`, the next seven about `Outbound`, the last four about
`StoryCalls`.

**The conditions.**  `Env` is the set of what may go wrong; a theorem without a
condition holds for every `Env`.  Each condition is needed: section 3 says for each
what the code does without it, and TLC finds it.  None of them takes the
interesting part away: `ClosedForGood` and `StoreHasTheRecord` still have double
hang-ups, retries, failing phases and saves and restarts; `PlayedAtMostOnce` has
double hang-ups, retries and rejecting saves and store writes, `LedgerClaimsTrue`
restarts, retries and rejecting store writes; `StoreKeepsItsPromise` has
either all failures and no retry, or retries with every failure but those of the
voicemail phase and of the store's writes.

**The inductive invariant.**  `IndInv == TypeOK /\ Fresh /\ ToVisit /\
BusyWhileWorking`.  `TypeOK` alone is not inductive: an effect is looked up
through the call of its endCall, so a job whose endCall was not made must not be
found at work, in the map, in the store or in the recovery (`Fresh`).
`BusyWhileWorking` alone is not either: the recovery copies terminal records
into the map, so a job it has yet to visit must not be at work (`ToVisit`), which
holds because the recovery begins when nothing else is there and each later
start comes from an endCall, a retry or the recovery itself.

**The frame.**  Most steps belong to one job j: they leave all other jobs'
records, promises and endCalls alone.  `OwnStepKeeps` proves once that such a
step keeps `IndInv` when it does so at j; `SetFrame`, `EnterFrame`, `NoteFrame`,
`CatchFrame`, `StartFrame` and `EndFrame` give the parts for the operators the
actions are made of, and each action's step cites those.

**One job per call** (`OneJobPerCall`).  A record becomes present in the store
only when a `create` lands that found no job of the call, and no step changes
the call of an endCall that has one.

**Sync effects once** (`SyncOnce`).  `SyncInv == HungUp /\ SameExit /\
AppliedOnce`: a call that was hung up is never in progress again; while an
endCall that selected an exit is suspended, the session keeps that exit; and an
exit whose sync effects were applied was applied once, and either its key is in
the session's ledger or the call is dead: over or lost, with no endCall of it
suspended.  The last case is the restart, which sets the session back to its
snapshot and may lose the key, when nobody can hang up the call any more.

**Calls** (`UserNeverStuck`, `OneCallAtATime`).  The user's entry names a call in
progress or one whose `abortStoryNoExit` is in its save (`ActiveInv`): a hang-up
whose outcome matches no exit is the only end that clears the entry after a save.
For one call at a time `OneCallInv` says who may touch the entry: a call in progress
is the active one, a `beginCall` that composes is alone and finds no active call,
and a hang-up under way is of the active call or of one that is free already.

**The writes of a job** (`WritesTakeTurns`).  Four kinds of handler write the whole
record of a job through one chain: endCall, background job, retry and recovery.
`Sound` says which of them may be under way together: the background job begins
when the endCall has returned, the recovery has a job to itself, and what status
they leave behind; `Queued` says that each of them has at most one write in the
chain, that it waits for it, and that a retry's write comes behind that of the
recovery, and behind that of the background job only if the job has failed and will
write no more.  Every step of the host is a `Turn` of one job: at most one write of
it leaves the head of the chain and at most one joins the end.

**The records** (`ClosedForGood`, `StoreHasTheRecord`, `CompletedMeansDone`).  Of the
writes of a job in the chain the last has the record of the map, and if there is
none the file has it (`MirrorInv`); that each writer has one write at most and that
they take turns makes an older record impossible behind a newer one.
`HonestInv` says of each record, in the map, the chain and the file, that
`completed` means that all steps are done and none failed, and of the background
job that the steps before its phase are.

**The agent's time** (`AgentAloneAtWork`).  `beginCall` looks at the statuses of the
jobs before it asks for the prompt, and the call exists only when the prompt is
there.  So the invariant is about calls from that look on: while a call is
composed, goes on or ends, a job that bars its agent is its own (`AgentFree`), and
a job's effects are committed to the background only when its call is over
(`CommittedOver`).  What could break it is a job that comes to bar an agent later:
by a retry, which bars only if it barred already (a failed job does), or by an
endCall, which has the user's one call.

**Media once** (`PlayedAtMostOnce`).  A job that waits for the sink holds the user's
profile chain, so no other job of the call, which has the same effect to play,
is at the sink or between the sink and its entry in the ledger (`SinkAlone`); it went
there with a key that is not in the ledger, and the key is that of the exit on
which all hang-ups of the call agree (`ExitKept`).  Then whatever was played has its
entry (`PlayedOnce`), also when the save that follows rejects and the phase is
retried.

**The ledger and the profile** (`LedgerClaimsTrue`).  The ledger is serialised with
the job, the effects with the profile, each in a file of its own.  `LedgerSaved`
says that an effect in a ledger is in the profile's file or under way in a save
that its call waits for, `SavesCover` that such a save brings all of the ledger with
it.  A job writes its record, and with it the ledger, only when it is not waiting
for such a save; with one job for each call (`OneHangUp`) nobody else writes that
ledger meanwhile.  `ProfileAhead` is for the restart: the profile that is loaded
then has all that the file had.

**The refinement** (`StoreKeepsItsPromise`).  A record in the file lags behind the
map by the writes in the chain.  `RefInv` orders them: the first write of a job that
waits in the chain may follow what the file has by a step of `DurableJob`, and each
later write an earlier one (`Follow`); should a write of the background job reject,
the record of the failure may follow what the file still has (`OpenDisk`).  A turn
then either leaves the file alone, which is a stutter, or lands the head of the
chain, which is one abstract step.

**Memory** (`ShapeHolds` and what follows).  `Shape` has the kinds of values and, of
each call (`Sound`), that the disk has its job from the hang-up on and that only an
attempt of a job is whole, which is what keeps a restart or a failure from making a
call done and whole.  The steps of a call after its hang-up are of one form, `Moves`:
one call changes and its transcript and exits do not, unless it is over; all but the
rollup of the call `MovesOn`, that is, leave no call done and whole.  `Steps` sums up
every action: it keeps `Shape`, is `Silent` (it changes neither transcript nor registered
exits of a call that is over, unless it sets the call back), and either leaves the
memory alone or is a commit, a rollup, a failing rollup or a clearing; it `Settles` no
call, but for the rollup of its own.  `SilenceAfterHangUp` is the second of these.
`SameTextOnce` and `RollupsReal` are preserved by each commit, rollup and clearing.
For `RollupsCover` a commit leaves the rollups alone, and the call that commits is not
done yet (`CommitCovers`).  A rollup makes of each of its periods one of its
`Digests` (`RollupMakes`), whatever the lengths of its snippets; one that leaves an
entry out has `Fits` others that are not newer (`DigestMisses`), since the oldest are
taken first.  A period that the rollup does not make is not one of the call that it
settles, because the current month and quarter are always made (`RollCovers`), and a
rollup that fails after some of its periods settles nothing.

That every variable of `CallMemory` has its type needs a bound on the length of a
transcript: no message is said twice by one side (`TurnsOnce`), so there are at most
two turns for each, and `Message` has to be finite.

**The profile** (`MailboxInvariant`).  `UserEditKept` is about the file only; what is
inductive is that an edit that was kept is in *everything that can still reach the
file*: the texts of queued saves and the objects they point to, what every request
of Studio has read, and the cached object, which is what the next save takes
(`EditsOnTheWay`).  Likewise a deletion that was kept leaves no queued save, no
text in a request and no cached object (`GoneForGood`).  The steps of calls, jobs
and the clock are all `HostStep`s: they change the mail of an object, never its
edits, and append a save of the *cached* object.  That a job works on an object the
cache dropped long ago does no harm to the edits, because nobody saves that object:
`saveProfile` takes the cached one.

**The mailbox** (`DeliveryInvariant`).  One job at a time is in the user's write
chain, and only that job holds voicemails in its hand (`Chain`).  `DeliveredOnce`
speaks of the cached object and the file; what is inductive bounds the copies of a
voicemail, scheduled, stacked and slotted, in *every* object and every text that can
still become one of them, by the executions of its effect, and leaves room for the
one that a job has in its hand (`Copied`).  `LampTrue` is about the states in which
no job generates; in between the lamp lags behind only from the moment a job took
the stack to the moment it reports (`LampFollows`).  `MailKept` is a property of
steps: a voicemail goes from the schedule to the stack, from the stack to a job's
hand and on to a slot in one object, as long as nobody replaces it (`Unbroken`).

**The schedule** (`ScheduleHolds`).  Everything the code does to a profile is an
operator of `Schedule`, and for each of them a lemma says that it keeps a `Sane`
profile sane: it has its type; no occurrence of an active rule up to the clock is
without its intent, and no rule is ahead of the clock (`Covered`); and an intent whose
card was called does not wait (`Heard`).  The invariant says so of the cached profile
*and of the file*, because a restart makes the one the other.  `ForwardIs` is the step
with something in it: an occurrence that the clock passes lies on one of the days of
the interval that `DueDays` looks at (`DayBetween`), and `last`, which excludes what was
materialised before, is never ahead of the clock.  `NoOccurrenceSkipped` and
`NoRingAfterCall` then follow at once.  For `NothingJumpedOver` (`PeekIs`) the window
of two weeks has to be enough: for an occurrence behind it, `SameWeekday` finds an
earlier one of the same rule inside.

**The rings** (`OneRing`).  `Rings` says that an instance has at most one pending event
and that an intent that fired and was not taken has one.  A new event is told
from those that requests still hold by a number; that one is left for it is the
pigeonhole argument of `NewEventIs`, from `Flow` being finite.

**The card of a call** (`TakenStaysTaken`).  `CallInvariant` adds to the schedule's
invariant who has the user (`OneCall`: one call goes on, or one is about to begin, or
neither) and that the card of the call about to begin waits or was missed, so
that beginning takes it (`CardHeld`).  Clock, intents and rejections move an
instance only from nothing to waiting and from waiting to missed (`BoardMoves`), and
effects, which may do anything to the board, run in a call that is already hung up.

**The story line.**  That requests do not overlap is what makes `Serial`, and it is
needed: the gate is asked before the prompt and the chapter activated after it.
`CallsObeyLock` rests on `PassedGate`: from the gate to the hang-up a call has a
place in the lock in effect.  What could take it away is the chapter that the call
itself activates, with a lock of its own; that lock is the profile's
(`LocksSeeded`: no step makes one) and allows the agents of its chapter's cards.
`OldCardsGone` needs of an exit that it attaches cards of its own chapter and ends
the chapter with its last effect (`ExitsProper`); then, as long as effects are left,
the call's chapter is active (`OwnChapterOn`).  For `NextChapterOpens` the content
must make the entry of the next chapter one that can be dialled, with an agent whom
the locks of third chapters allow (`EntriesOpen`); the instance of the run satisfies
both.  `NextInvariant` says that while a chapter is planned its entry waits and
*nothing else does*, so that a call on a card, whichever it is, begins that
chapter.  Two conditions keep it from covering the run: an instance always finds an
unused number (`CopiesUnbounded`, as with the random ids of the code), and no card is
simulated, since the end of a simulated chapter clears the board of the planned one's
entry (in the run every first chapter leads to the same second one).

**Only model-checked.**  Liveness, out of this prover's reach under fairness:
`EndedCallFreesUser`, `JobsSettle`, `StackedArrives`, `RequestsEnd`,
`TalkRemembered`, `DueFires`.  Every invariant and every action property of a
passing run is also a theorem, under the conditions stated above.

## 5. Plan

Theorems to come: weaker conditions, where the code allows them: with retries that
come at any time, what remains true of a completed job; with store writes that
reject, that file and map agree about a job none of whose writes rejected.

Model: listening by agent and card in `Voicemail`; the story line with overlapping
requests, if the code comes to ask the gate again in `beginCall`; what the
remaining effect types do to the profile.

## 6. Not modelled

The engine and the studio server's handlers around it are a small part of the
repository.  The rest does not hold state that several steps of several actors
change: editors and pages of the two studio applications, their ajax and
internationalisation helpers, the scripts that check structure and quality,
text assembly of prompts, content loading and validation, lore generation, logs,
speech and model back ends, and demo plug-ins.  A model of a page or of a linter
would restate it.  Of the engine itself exit conditions, prompt text and the
effects that only set a number or a flag in the profile are left out: wherever
they matter to a property the models let them come out any way.

## 7. Commands

    tlc -workers 2 -config mailbox.cfg MCMailbox        # a run, see PROJECT.json
    tlapm EngineHost_proofs.tla                         # the proofs of a module

`host_`, `outbound_`, `story_` and `call_` configurations belong to the modules
`MCEngineHost`, `MCOutbound`, `MCStory` and `MCCallMemory`, `mailbox`,
`profile_store` and `profile_edit` to `MCMailbox`.  No run takes more than three
minutes on two workers.
