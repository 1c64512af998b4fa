------------------------------ MODULE StoryLock ------------------------------
(***************************************************************************)
(* The lock of a story on the profile: which lock is in effect, what it    *)
(* says of a call, and what beginning, ending and planning a story do.     *)
(*                                                                         *)
(* No code of the engine creates a lock: maybeActivateStoryOnBegin passes  *)
(* no acquireLock.  A lock comes with the profile (Seeds).                  *)
(***************************************************************************)
EXTENDS FiniteSets

CONSTANTS
    Agent,      \* the agents of the workspace
    Story,      \* the chapters
    Seeds,      \* the locks a profile may come with: functions on Story
    Early,      \* the chapters planned with acquireLockEarly
    None

Level == {"soft", "hard"}
Policy == {"reject_call", "force_free_suppressed", "allow_with_warning"}
Lock == [level : Level, policy : Policy, allowed : SUBSET Agent]

Intent == {"user_dial", "agent_outbound", "free_call"}

\* "none": the profile has no entry for the chapter yet, or one without a
\* status (a seeded lock).
StoryStatus == {"none", "inactive", "active", "completed"}
Save == [status : StoryStatus, lock : Lock \cup {None}]

\* "At most one hard lock" is what the engine's design allows a profile.
ASSUME StoryLockAssumption ==
    /\ Early \subseteq Story /\ None \notin Lock
    /\ Seeds \subseteq [Story -> Lock \cup {None}]
    /\ \A seed \in Seeds, s, t \in Story :
          /\ seed[s] # None /\ seed[s].level = "hard"
          /\ seed[t] # None /\ seed[t].level = "hard"
          => s = t

-----------------------------------------------------------------------------
(* Reading *)

\* findActiveStoryLock: of the active chapters, a hard lock, else a soft one.
\* Which one, when there are several, depends on the order of the keys.
Held(stories) == {stories[s].lock : s \in {t \in Story :
                                           stories[t].status = "active"}}
                 \ {None}

InEffect(stories) ==
    LET hard == {l \in Held(stories) : l.level = "hard"} IN
    IF hard # {} THEN hard
    ELSE IF Held(stories) # {} THEN Held(stories) ELSE {None}

\* Variant: a call that an agent places is judged by the policy.
GateByPolicy(l, g, intent) ==
    IF l = None THEN "allow"
    ELSE IF g \in l.allowed THEN "allow"
    ELSE CASE l.policy = "reject_call" ->
                 IF l.level = "hard" THEN "reject" ELSE "force_free"
           [] l.policy = "force_free_suppressed" -> "force_free"
           [] OTHER -> "warn"

\* evaluateStoryLockGate
Gate(l, g, intent) ==
    IF l = None THEN "allow"
    ELSE IF g \in l.allowed THEN "allow"
    ELSE IF intent = "agent_outbound"
    THEN IF l.level = "hard" THEN "reject" ELSE "warn"
    ELSE CASE l.policy = "reject_call" ->
                 IF l.level = "hard" THEN "reject" ELSE "force_free"
           [] l.policy = "force_free_suppressed" -> "force_free"
           [] OTHER -> "warn"

-----------------------------------------------------------------------------
(* Writing *)

\* activateStoryOnBegin: the chapter's own lock is kept.
Activate(stories, s) == [stories EXCEPT ![s].status = "active"]

\* end_story, first half.
Complete(stories, s) ==
    [stories EXCEPT ![s] = [status |-> "completed", lock |-> None]]

\* arrangeChapterNext, first half: the lock is taken over only early.
Planned(stories, s) ==
    [stories EXCEPT ![s] = [status |-> "inactive",
                            lock |-> IF s \in Early THEN @.lock ELSE None]]

=============================================================================
