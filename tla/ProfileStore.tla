----------------------------- MODULE ProfileStore -----------------------------
(***************************************************************************)
(* One user's profile: the host's cached object, the file, the port's      *)
(* queue of writes, and Studio's requests that write the file themselves.  *)
(*                                                                         *)
(* heap[g] is the profile object that the g-th load made; the host works   *)
(* on it in place.  Whoever took an object before an await keeps it, also  *)
(* when the cache has dropped it.  A save writes the object that was       *)
(* cached when it was issued, as it is when its turn in the queue comes.   *)
(*                                                                         *)
(* The content of a profile is the set of Studio's edits it has, and what  *)
(* the host keeps in it, its mail (Voicemail).                             *)
(***************************************************************************)
EXTENDS Voicemail

CONSTANTS
    Put,        \* the requests that edit the user's data
    Plan,       \* the requests that edit the schedule
    Delete,     \* the requests that delete the user
    Loader,     \* the requests that only ask for the profile
    Saver,      \* those who save it
    MaxLoad,    \* bound on the loads in one life of the process
    MaxCrash,   \* bound on restarts
    None        \* no file, no text

Edit == Put \cup Plan
Request == Edit \cup Delete \cup Loader
Content == [edits : SUBSET Edit, mail : MailRecord]
Text == Content \cup {None}

ASSUME ProfileAssumption ==
    /\ MaxLoad \in Nat \ {0} /\ MaxCrash \in Nat
    /\ Put \cap Plan = {} /\ Edit \cap Delete = {}
    /\ Loader \cap (Edit \cup Delete) = {}
    /\ None \notin Content

VARIABLES
    file,       \* profile.save.json
    heap,       \* the profile objects made in this life of the process
    cur,        \* profiles.get(userId): the cached one, 0 when there is none
    saves,      \* profileWriteQueues: the writes of the port
    request,    \* Studio's requests
    kept,       \* history: requests that were done while nothing older than
                \* them was on its way to the file or to the cache
    broken,     \* history: the process restarted or the cache was dropped
    crashes     \* number of restarts so far

storeVars == <<file, heap, cur, saves, request, kept, broken, crashes>>

RequestRecord ==
    [at : {"idle", "read", "written", "loading", "loaded", "removed", "done"},
     text : Text]

Save == [who : Saver, obj : Nat, text : Text]

StoreOK ==
    /\ file \in Text
    /\ heap \in Seq(Content) /\ Len(heap) <= MaxLoad
    /\ cur \in 0..Len(heap)
    /\ saves \in Seq(Save)
    /\ \A i \in 1..Len(saves) : saves[i].obj \in 1..Len(heap)
    /\ request \in [Request -> RequestRecord]
    /\ kept \subseteq Edit \cup Delete
    /\ broken \in BOOLEAN /\ crashes \in 0..MaxCrash

NewContent == [edits |-> {}, mail |-> EmptyMail]

StoreInit ==
    /\ file = NewContent
    /\ heap = <<NewContent>> /\ cur = 1
    /\ saves = <<>>
    /\ request = [r \in Request |-> [at |-> "idle", text |-> None]]
    /\ kept = {} /\ broken = FALSE /\ crashes = 0

Moved(r, at, text) ==
    request' = [request EXCEPT ![r] = [at |-> at, text |-> text]]

\* What the host changes, it changes in the object it holds.
Change(g, m) == heap' = [heap EXCEPT ![g].mail = m]

MailOf(g) == heap[g].mail

-----------------------------------------------------------------------------
(* Saves *)

\* Variant: the object that is not there is saved.
IssueAlways(who) ==
    saves' = Append(saves, [who |-> who, obj |-> cur, text |-> None])

\* saveProfile of a user who is not cached is refused.
IssueSave(who) ==
    saves' = IF cur = 0 THEN saves
             ELSE Append(saves, [who |-> who, obj |-> cur, text |-> None])

SaveOver(who) == \A i \in 1..Len(saves) : saves[i].who # who

\* Only a restart, a load or an edit reads the file: what the host keeps is
\* not followed in it after the last one.
Stored(text) ==
    IF \/ crashes < MaxCrash \/ cur = 0
       \/ \E r \in Request : request[r].at # IF r \in Loader THEN "idle" ELSE "done"
    THEN text
    ELSE [text EXCEPT !.mail = EmptyMail]

\* The turn of the first write comes: the object is serialised.
Serialize ==
    /\ saves # <<>> /\ Head(saves).text = None
    /\ saves' = [saves EXCEPT ![1].text = Stored(heap[saves[1].obj])]
    /\ UNCHANGED <<file, heap, cur, request, kept, broken, crashes>>

\* The temporary file is renamed; the directory was made anew if need be.
SaveLands ==
    /\ saves # <<>> /\ Head(saves).text # None
    /\ file' = Head(saves).text
    /\ saves' = Tail(saves)
    /\ UNCHANGED <<heap, cur, request, kept, broken, crashes>>

\* A save that no change goes with.
Autosave(who) ==
    /\ cur # 0 /\ SaveOver(who)
    /\ IssueSave(who)
    /\ UNCHANGED <<file, heap, cur, request, kept, broken, crashes>>

-----------------------------------------------------------------------------
(* Loads *)

\* ensureProfile finds nothing in the cache and asks the port.
LoadStarts(r) ==
    /\ r \in Loader /\ request[r].at = "idle"
    /\ cur = 0
    /\ Moved(r, "loading", None)
    /\ UNCHANGED <<file, heap, cur, saves, kept, broken, crashes>>

Over(r) == IF r \in Loader THEN "idle" ELSE "done"

\* readProfile; without a file the load ends with NOT_FOUND.
LoadReads(r) ==
    /\ request[r].at = "loading"
    /\ IF file = None THEN Moved(r, Over(r), None)
       ELSE Moved(r, "loaded", file)
    /\ UNCHANGED <<file, heap, cur, saves, kept, broken, crashes>>

\* The file has the edit, and so has every text that a write, a load of the
\* requests R or one of their edits has on its way.
Settled(r, R) ==
    LET has(text) == text = None \/ r \in text.edits IN
    /\ file' # None /\ r \in file'.edits
    /\ \A i \in 1..Len(saves) : has(heap[saves[i].obj]) /\ has(saves[i].text)
    /\ \A q \in R : has(request[q].text)

Keep(r) ==
    kept' = IF r \in Put /\ Settled(r, Request) THEN kept \cup {r} ELSE kept

\* A copy of what was read is the new cached object, whoever cached another
\* one meanwhile.
LoadSets(r) ==
    /\ request[r].at = "loaded"
    /\ Len(heap) < MaxLoad
    /\ heap' = Append(heap, request[r].text)
    /\ cur' = Len(heap) + 1
    /\ broken' = (broken \/ cur # 0)
    /\ Moved(r, Over(r), None)
    /\ UNCHANGED <<file, saves, crashes>>
    /\ Keep(r)

-----------------------------------------------------------------------------
(* Studio writes the file itself *)

\* readPlayerProfile of an edit.
EditReads(r) ==
    /\ r \in Edit /\ request[r].at = "idle"
    /\ file # None
    /\ Moved(r, "read", file)
    /\ UNCHANGED <<file, heap, cur, saves, kept, broken, crashes>>

\* updateProfileUser: the whole profile is written with the edit.
PutWrites(r) ==
    /\ r \in Put /\ request[r].at = "read"
    /\ file' = [request[r].text EXCEPT !.edits = @ \cup {r}]
    /\ Moved(r, "written", None)
    /\ UNCHANGED <<heap, cur, saves, kept, broken, crashes>>

\* Variant: the cached object stays.
AnswersAtOnce(r) ==
    /\ r \in Put /\ request[r].at = "written"
    /\ Moved(r, "done", None)
    /\ UNCHANGED <<file, heap, cur, saves, broken, crashes>>
    /\ Keep(r)

\* syncHostProfileAfterFsWrite: the cache is dropped and a load starts.
PutReloads(r) ==
    /\ r \in Put /\ request[r].at = "written"
    /\ cur' = 0 /\ broken' = TRUE
    /\ Moved(r, "loading", None)
    /\ UNCHANGED <<file, heap, saves, kept, crashes>>

\* upsertAgentScheduleIntent, deleteAgentScheduleIntent: nothing follows the
\* write.
PlanWrites(r) ==
    /\ r \in Plan /\ request[r].at = "read"
    /\ file' = [request[r].text EXCEPT !.edits = @ \cup {r}]
    /\ Moved(r, "done", None)
    /\ UNCHANGED <<heap, cur, saves, broken, crashes>>
    /\ kept' = IF Settled(r, Request \ {r}) THEN kept \cup {r} ELSE kept

\* deleteUserProfile.
DeleteRemoves(r) ==
    /\ r \in Delete /\ request[r].at = "idle"
    /\ file # None
    /\ file' = None
    /\ Moved(r, "removed", None)
    /\ UNCHANGED <<heap, cur, saves, kept, broken, crashes>>

Unfollowed(r) ==
    /\ file = None /\ saves = <<>>
    /\ \A q \in Request : request[q].text = None

\* Variant: the cached object stays.
DeleteOnly(r) ==
    /\ r \in Delete /\ request[r].at = "removed"
    /\ Moved(r, "done", None)
    /\ kept' = IF Unfollowed(r) THEN kept \cup {r} ELSE kept
    /\ UNCHANGED <<file, heap, cur, saves, broken, crashes>>

\* evictHostProfileAfterFsDelete.
DeleteEvicts(r) ==
    /\ r \in Delete /\ request[r].at = "removed"
    /\ cur' = 0 /\ broken' = TRUE
    /\ Moved(r, "done", None)
    /\ kept' = IF Unfollowed(r) THEN kept \cup {r} ELSE kept
    /\ UNCHANGED <<file, heap, saves, crashes>>

Studio(r) ==
    \/ LoadStarts(r) \/ LoadReads(r) \/ LoadSets(r)
    \/ EditReads(r) \/ PutWrites(r) \/ PutReloads(r) \/ PlanWrites(r)
    \/ DeleteRemoves(r) \/ DeleteEvicts(r)

\* The process restarts; a request that was under way is not answered.
StoreCrash ==
    /\ crashes < MaxCrash
    /\ crashes' = crashes + 1
    /\ heap' = <<>> /\ cur' = 0 /\ saves' = <<>> /\ broken' = TRUE
    /\ request' = [r \in Request |->
                     IF request[r].at \in {"idle", "done"} THEN request[r]
                     ELSE [at |-> Over(r), text |-> None]]
    /\ UNCHANGED <<file, kept>>

-----------------------------------------------------------------------------
(* What Studio's writes can rely on *)

\* The user's data, once edited while nothing older was on its way, is never
\* undone by a later save of the host, whatever calls, jobs, loads and other
\* requests are under way (syncHostProfileAfterFsWrite).
UserEditKept == \A r \in kept \cap Put : file # None => r \in file.edits

\* A deleted user whose profile nobody had on its way to the file stays
\* deleted (evictHostProfileAfterFsDelete).
DeletedStaysDeleted == kept \cap Delete # {} => file = None

\* "Studio writes the file itself and must reload, else the autosave
\* overwrites the file with the old memory": an edit of the schedule stays.
ScheduleEditKept == \A r \in kept \cap Plan : file # None => r \in file.edits

=============================================================================
