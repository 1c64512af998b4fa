---------------------------- MODULE Mailbox_proofs ----------------------------
(***************************************************************************)
(* What holds of a profile, its file and Studio's writes beside the calls  *)
(* and jobs of the mailbox, for every set of requests, calls, voicemails   *)
(* and savers, any number of loads and restarts.                           *)
(***************************************************************************)
EXTENDS Mailbox, SequenceTheorems, FiniteSetTheorems, TLAPS

-----------------------------------------------------------------------------
(* The mail of a profile *)

LEMMA EmptyIsMail == EmptyMail \in MailRecord
  <1>1. <<>> \in Seq(Status)
    OBVIOUS
  <1> QED BY <1>1 DEF EmptyMail, MailRecord

LEMMA PushIsMail ==
    ASSUME NEW m \in MailRecord, NEW v \in Voicemail PROVE Push(m, v) \in MailRecord
  BY DEF Push, MailRecord

LEMMA DueIsMail ==
    ASSUME NEW m \in MailRecord, NEW v \in Timed, NEW n \in Nat
    PROVE  [m EXCEPT !.due[v] = n] \in MailRecord
  BY DEF MailRecord

LEMMA LeaveIsMail ==
    ASSUME NEW m \in MailRecord, NEW v \in Voicemail PROVE Leave(m, v) \in MailRecord
  <1>1. CASE v \in Timed
    <2>1. m.due[v] + 1 \in Nat
      BY <1>1 DEF MailRecord
    <2> QED BY <1>1, <2>1, DueIsMail DEF Leave
  <1>2. CASE v \notin Timed
    BY <1>2, PushIsMail DEF Leave
  <1> QED BY <1>1, <1>2

LEMMA FireIsMail ==
    ASSUME NEW m \in MailRecord, NEW v \in Timed, m.due[v] > 0
    PROVE  Fire(m, v) \in MailRecord
  <1>1. m.due[v] - 1 \in Nat
    BY DEF MailRecord
  <1>2. [m EXCEPT !.due[v] = m.due[v] - 1] \in MailRecord
    BY <1>1, DueIsMail
  <1>3. v \in Voicemail
    BY DEF Voicemail
  <1> QED BY <1>2, <1>3, PushIsMail DEF Fire

LEMMA TakeIsMail ==
    ASSUME NEW m \in MailRecord PROVE Take(m) \in MailRecord
  BY DEF Take, MailRecord

LEMMA BoxIsMail ==
    ASSUME NEW m \in MailRecord, NEW v \in Voicemail, NEW s \in Seq(Status)
    PROVE  [m EXCEPT !.box[v] = s] \in MailRecord
  BY DEF MailRecord

LEMMA DeliverIsMail ==
    ASSUME NEW m \in MailRecord, NEW v \in Voicemail, NEW s \in Status
    PROVE  Deliver(m, v, s) \in MailRecord
  <1>1. m.box[v] \in Seq(Status)
    BY DEF MailRecord
  <1>2. Append(m.box[v], s) \in Seq(Status)
    BY <1>1, AppendProperties
  <1> QED BY <1>2, BoxIsMail DEF Deliver

LEMMA ListenedIsMail ==
    ASSUME NEW m \in MailRecord, NEW v \in Voicemail
    PROVE  Listened(m, v) \in MailRecord
  <1>1. m.box[v] \in Seq(Status) /\ "listened" \in Status
    BY DEF MailRecord, Status
  <1>2. CASE m.box[v] # <<>>
    <2>1. [m.box[v] EXCEPT ![1] = "listened"] \in Seq(Status)
      BY <1>1, <1>2, ExceptSeq
    <2>2. [m EXCEPT !.box[v] = [m.box[v] EXCEPT ![1] = "listened"]] \in MailRecord
      BY <2>1, BoxIsMail
    <2>3. Listened(m, v) = [m EXCEPT !.box[v] = [m.box[v] EXCEPT ![1] = "listened"]]
      BY <1>2 DEF Listened, MailRecord
    <2> QED BY <2>2, <2>3
  <1> QED BY <1>2 DEF Listened

-----------------------------------------------------------------------------
(* The store: what is on its way to the file and to the cache *)

Has(r, text) == text = None \/ r \in text.edits

\* Who has read something has read a profile.
Reads == \A r \in Request :
            request[r].at \in {"read", "loaded"} => request[r].text # None

\* An edit that was kept is in everything that can still reach the file.
EditsOnTheWay ==
    \A r \in kept \cap Put :
        /\ Has(r, file)
        /\ \A i \in 1..Len(saves) : /\ r \in heap[saves[i].obj].edits
                                    /\ Has(r, saves[i].text)
        /\ \A q \in Request : Has(r, request[q].text)
        /\ cur # 0 => r \in heap[cur].edits

\* After a deletion that was kept nothing can reach the file.
GoneForGood ==
    kept \cap Delete # {} =>
        /\ file = None /\ saves = <<>> /\ cur = 0
        /\ \A q \in Request : request[q].text = None

StoreInv == StoreOK /\ Reads /\ EditsOnTheWay /\ GoneForGood

LEMMA NewIsContent == NewContent \in Content
  BY EmptyIsMail DEF NewContent, Content

LEMMA NoneIsNoContent == None \notin Content
  BY ProfileAssumption

LEMMA ContentParts ==
    ASSUME NEW k \in Content
    PROVE  k.edits \in SUBSET Edit /\ k.mail \in MailRecord
  BY DEF Content

LEMMA MailChanges ==
    ASSUME NEW k \in Content, NEW m \in MailRecord
    PROVE  [k EXCEPT !.mail = m] \in Content /\ [k EXCEPT !.mail = m].edits = k.edits
  BY DEF Content

LEMMA EditAdds ==
    ASSUME NEW k \in Content, NEW q \in Edit
    PROVE  /\ [k EXCEPT !.edits = @ \cup {q}] \in Content
           /\ [k EXCEPT !.edits = @ \cup {q}].edits = k.edits \cup {q}
  BY DEF Content

\* What a save writes has the edits of the object.
LEMMA StoredKeepsEdits ==
    ASSUME NEW k \in Content
    PROVE  Stored(k) \in Content /\ Stored(k).edits = k.edits
  <1>1. [k EXCEPT !.mail = EmptyMail] \in Content
        /\ [k EXCEPT !.mail = EmptyMail].edits = k.edits
    BY EmptyIsMail, MailChanges
  <1>2. Stored(k) = k \/ Stored(k) = [k EXCEPT !.mail = EmptyMail]
    BY DEF Stored
  <1> QED BY <1>1, <1>2

\* A request of Studio goes on.
LEMMA RequestMoves ==
    ASSUME StoreOK, NEW r \in Request,
           NEW at \in {"idle", "read", "written", "loading", "loaded",
                       "removed", "done"},
           NEW text \in Text, Moved(r, at, text)
    PROVE  /\ request' \in [Request -> RequestRecord]
           /\ request'[r].at = at /\ request'[r].text = text
           /\ \A q \in Request \ {r} : request'[q] = request[q]
  <1>1. request \in [Request -> RequestRecord]
    BY DEF StoreOK
  <1>2. [at |-> at, text |-> text] \in RequestRecord
    BY DEF RequestRecord
  <1> QED BY <1>1, <1>2 DEF Moved

LEMMA SaveParts ==
    ASSUME StoreOK, NEW i \in 1..Len(saves)
    PROVE  /\ saves[i] \in Save
           /\ saves[i].obj \in 1..Len(heap)
           /\ saves[i].text \in Text
           /\ heap[saves[i].obj] \in Content
  <1>1. saves[i] \in Save
    BY ElementOfSeq DEF StoreOK
  <1>2. saves[i].obj \in 1..Len(heap)
    BY DEF StoreOK
  <1>3. heap[saves[i].obj] \in Content
    BY <1>2, ElementOfSeq DEF StoreOK
  <1> QED BY <1>1, <1>2, <1>3 DEF Save

LEMMA InitStore == StoreInit => StoreInv
  <1> SUFFICES ASSUME StoreInit PROVE StoreInv
    OBVIOUS
  <1>1. heap \in Seq(Content) /\ Len(heap) = 1
    BY NewIsContent DEF StoreInit
  <1>2. saves \in Seq(Save) /\ Len(saves) = 0
    BY DEF StoreInit
  <1>3. request \in [Request -> RequestRecord]
    BY DEF StoreInit, RequestRecord, Text
  <1>4. file \in Text /\ cur \in 0..Len(heap) /\ Len(heap) <= MaxLoad
    BY <1>1, NewIsContent, ProfileAssumption DEF StoreInit, Text
  <1>5. crashes \in 0..MaxCrash /\ broken \in BOOLEAN /\ kept = {}
    <2>1. crashes = 0 /\ broken = FALSE /\ kept = {}
      BY DEF StoreInit
    <2>2. 0 \in 0..MaxCrash
      BY ProfileAssumption
    <2> QED BY <2>1, <2>2
  <1>6. StoreOK
    BY <1>1, <1>2, <1>3, <1>4, <1>5 DEF StoreOK
  <1> QED BY <1>2, <1>6 DEF StoreInit, StoreInv, Reads, EditsOnTheWay, GoneForGood

-----------------------------------------------------------------------------
(* Steps of the host: it changes the mail of an object and saves *)

HeapChanged ==
    \/ heap' = heap
    \/ \E g \in 1..Len(heap), m \in MailRecord : Change(g, m)

SaveIssued == saves' = saves \/ \E who \in Saver : IssueSave(who)

HostStep ==
    /\ HeapChanged /\ SaveIssued
    /\ UNCHANGED <<file, cur, request, kept, broken, crashes>>

LEMMA HeapKeepsEdits ==
    ASSUME StoreOK, HeapChanged
    PROVE  /\ heap' \in Seq(Content) /\ Len(heap') = Len(heap)
           /\ \A i \in 1..Len(heap) : heap'[i].edits = heap[i].edits
  <1>1. CASE heap' = heap
    BY <1>1 DEF StoreOK
  <1>2. ASSUME NEW g \in 1..Len(heap), NEW m \in MailRecord, Change(g, m)
        PROVE  /\ heap' \in Seq(Content) /\ Len(heap') = Len(heap)
               /\ \A i \in 1..Len(heap) : heap'[i].edits = heap[i].edits
    <2> DEFINE k == [heap[g] EXCEPT !.mail = m]
    <2>1. heap \in Seq(Content)
      BY DEF StoreOK
    <2>2. heap[g] \in Content
      BY <2>1, ElementOfSeq
    <2>3. k \in Content /\ k.edits = heap[g].edits
      BY <2>2, MailChanges
    <2>4. heap' = [heap EXCEPT ![g] = k]
      BY <1>2 DEF Change
    <2> HIDE DEF k
    <2> QED BY <2>1, <2>3, <2>4, ExceptSeq
  <1> QED BY <1>1, <1>2 DEF HeapChanged

LEMMA IssueAppends ==
    ASSUME StoreOK, SaveIssued
    PROVE  \/ saves' = saves
           \/ /\ cur # 0
              /\ saves' \in Seq(Save) /\ Len(saves') = Len(saves) + 1
              /\ \A i \in 1..Len(saves) : saves'[i] = saves[i]
              /\ saves'[Len(saves) + 1].obj = cur
              /\ saves'[Len(saves) + 1].text = None
  <1> SUFFICES ASSUME NEW who \in Saver, IssueSave(who), cur # 0
               PROVE  /\ saves' \in Seq(Save) /\ Len(saves') = Len(saves) + 1
                      /\ \A i \in 1..Len(saves) : saves'[i] = saves[i]
                      /\ saves'[Len(saves) + 1].obj = cur
                      /\ saves'[Len(saves) + 1].text = None
    BY DEF SaveIssued, IssueSave
  <1> DEFINE e == [who |-> who, obj |-> cur, text |-> None]
  <1>1. e \in Save /\ e.obj = cur /\ e.text = None
    BY DEF StoreOK, Save, Text
  <1>2. saves' = Append(saves, e)
    BY DEF IssueSave
  <1>3. saves \in Seq(Save)
    BY DEF StoreOK
  <1> HIDE DEF e
  <1> QED BY <1>1, <1>2, <1>3, AppendProperties

LEMMA HostKeeps ==
    ASSUME StoreInv, HostStep PROVE StoreInv'
  <1>1. /\ heap' \in Seq(Content) /\ Len(heap') = Len(heap)
        /\ \A i \in 1..Len(heap) : heap'[i].edits = heap[i].edits
    BY HeapKeepsEdits DEF StoreInv, HostStep
  <1>2. \/ saves' = saves
        \/ /\ cur # 0
           /\ saves' \in Seq(Save) /\ Len(saves') = Len(saves) + 1
           /\ \A i \in 1..Len(saves) : saves'[i] = saves[i]
           /\ saves'[Len(saves) + 1].obj = cur
           /\ saves'[Len(saves) + 1].text = None
    BY IssueAppends DEF StoreInv, HostStep
  <1>3. saves \in Seq(Save) /\ Len(saves) \in Nat /\ cur \in 0..Len(heap)
        /\ \A i \in 1..Len(saves) : saves[i].obj \in 1..Len(heap)
    BY DEF StoreInv, StoreOK
  <1>4. UNCHANGED <<file, cur, request, kept, broken, crashes>>
    BY DEF HostStep
  <1>5. saves' \in Seq(Save) /\ \A i \in 1..Len(saves') : saves'[i].obj \in 1..Len(heap)
    BY <1>2, <1>3
  <1>6. StoreOK'
    BY <1>1, <1>3, <1>4, <1>5 DEF StoreInv, StoreOK
  <1>7. Reads' /\ GoneForGood'
    BY <1>2, <1>4 DEF StoreInv, Reads, GoneForGood
  <1>8. ASSUME NEW r \in (kept \cap Put)' PROVE
          /\ Has(r, file')
          /\ \A i \in 1..Len(saves') : /\ r \in heap'[saves'[i].obj].edits
                                       /\ Has(r, saves'[i].text)
          /\ \A q \in Request : Has(r, request'[q].text)
          /\ cur' # 0 => r \in heap'[cur'].edits
    <2>1. /\ Has(r, file)
          /\ \A i \in 1..Len(saves) : /\ r \in heap[saves[i].obj].edits
                                      /\ Has(r, saves[i].text)
          /\ \A q \in Request : Has(r, request[q].text)
          /\ cur # 0 => r \in heap[cur].edits
      BY <1>4, <1>8 DEF StoreInv, EditsOnTheWay
    <2>2. cur' # 0 => r \in heap'[cur'].edits
      BY <1>1, <1>3, <1>4, <2>1
    <2>3. ASSUME NEW i \in 1..Len(saves')
          PROVE  r \in heap'[saves'[i].obj].edits /\ Has(r, saves'[i].text)
      <3>1. CASE i \in 1..Len(saves) /\ saves'[i] = saves[i]
        BY <1>1, <1>3, <2>1, <3>1
      <3>2. CASE saves'[i].obj = cur /\ saves'[i].text = None /\ cur # 0
        BY <1>1, <1>3, <2>1, <3>2 DEF Has
      <3>3. (i \in 1..Len(saves) /\ saves'[i] = saves[i])
            \/ (saves'[i].obj = cur /\ saves'[i].text = None /\ cur # 0)
        BY <1>2, <1>3, <2>3
      <3> QED BY <3>1, <3>2, <3>3
    <2> QED BY <1>4, <2>1, <2>2, <2>3
  <1>9. EditsOnTheWay'
    BY <1>8 DEF EditsOnTheWay
  <1> QED BY <1>6, <1>7, <1>9 DEF StoreInv

-----------------------------------------------------------------------------
(* Steps of the port *)

LEMMA SerializeKeeps ==
    ASSUME StoreInv, Serialize PROVE StoreInv'
  <1> DEFINE k == [saves[1] EXCEPT !.text = Stored(heap[saves[1].obj])]
  <1>1. saves \in Seq(Save) /\ saves # <<>> /\ 1 \in 1..Len(saves)
    BY EmptySeq DEF StoreInv, StoreOK, Serialize
  <1>2. saves[1] \in Save /\ heap[saves[1].obj] \in Content
    BY <1>1, SaveParts DEF StoreInv
  <1>3. /\ Stored(heap[saves[1].obj]) \in Content
        /\ Stored(heap[saves[1].obj]).edits = heap[saves[1].obj].edits
    BY <1>2, StoredKeepsEdits
  <1>4. k \in Save /\ k.obj = saves[1].obj /\ k.text \in Content
        /\ k.text.edits = heap[saves[1].obj].edits
    BY <1>2, <1>3 DEF Save, Text
  <1>5. saves' = [saves EXCEPT ![1] = k]
    BY DEF Serialize
  <1>6. UNCHANGED <<file, heap, cur, request, kept, broken, crashes>>
    BY DEF Serialize
  <1> HIDE DEF k
  <1>7. /\ saves' \in Seq(Save) /\ Len(saves') = Len(saves)
        /\ \A i \in 1..Len(saves) : saves'[i] = IF i = 1 THEN k ELSE saves[i]
    BY <1>1, <1>4, <1>5, ExceptSeq
  <1>8. \A i \in 1..Len(saves) : saves'[i].obj = saves[i].obj
    BY <1>4, <1>7
  <1>9. StoreOK'
    BY <1>6, <1>7, <1>8 DEF StoreInv, StoreOK
  <1>10. Reads' /\ GoneForGood'
    BY <1>1, <1>6 DEF StoreInv, Reads, GoneForGood
  <1>11. EditsOnTheWay'
    BY <1>1, <1>4, <1>6, <1>7, <1>8 DEF StoreInv, EditsOnTheWay, Has
  <1> QED BY <1>9, <1>10, <1>11 DEF StoreInv

LEMMA SaveLandsKeeps ==
    ASSUME StoreInv, SaveLands PROVE StoreInv'
  <1>1. saves \in Seq(Save) /\ saves # <<>> /\ 1 \in 1..Len(saves)
    BY EmptySeq DEF StoreInv, StoreOK, SaveLands
  <1>2. /\ saves' \in Seq(Save) /\ Len(saves') = Len(saves) - 1
        /\ \A i \in 1..Len(saves') : saves'[i] = saves[i + 1]
    BY <1>1, HeadTailProperties DEF SaveLands
  <1>3. Head(saves) = saves[1]
    BY <1>1
  <1>4. saves[1].text \in Text /\ file' = saves[1].text /\ file' # None
    BY <1>1, <1>3, SaveParts DEF StoreInv, SaveLands
  <1>5. UNCHANGED <<heap, cur, request, kept, broken, crashes>>
    BY DEF SaveLands
  <1>6. \A i \in 1..Len(saves') : i + 1 \in 1..Len(saves)
    BY <1>1, <1>2
  <1>7. StoreOK'
    BY <1>2, <1>4, <1>5, <1>6 DEF StoreInv, StoreOK
  <1>8. Reads' /\ GoneForGood'
    BY <1>1, <1>5 DEF StoreInv, Reads, GoneForGood
  <1>9. EditsOnTheWay'
    BY <1>1, <1>2, <1>4, <1>5, <1>6 DEF StoreInv, EditsOnTheWay
  <1> QED BY <1>7, <1>8, <1>9 DEF StoreInv

LEMMA CrashKeeps ==
    ASSUME StoreInv, StoreCrash PROVE StoreInv'
  <1>1. request \in [Request -> RequestRecord]
    BY DEF StoreInv, StoreOK
  <1>2. \A q \in Request :
           \/ request'[q] = request[q]
           \/ request'[q] = [at |-> Over(q), text |-> None]
    BY <1>1 DEF StoreCrash
  <1>3. \A q \in Request : [at |-> Over(q), text |-> None] \in RequestRecord
    BY DEF Over, RequestRecord, Text
  <1>4. \A q \in Request :
           /\ request'[q].text = request[q].text \/ request'[q].text = None
           /\ request'[q].at \in {"read", "loaded"} => request'[q] = request[q]
    <2> SUFFICES ASSUME NEW q \in Request,
                        request'[q] = [at |-> Over(q), text |-> None]
                 PROVE  request'[q].text = None
                        /\ request'[q].at \notin {"read", "loaded"}
      BY <1>2
    <2>1. Over(q) \notin {"read", "loaded"}
      BY DEF Over
    <2> QED BY <2>1
  <1>5. request' \in [Request -> RequestRecord]
    BY <1>1, <1>3 DEF StoreCrash
  <1>6. heap' \in Seq(Content) /\ Len(heap') = 0 /\ cur' = 0
    BY DEF StoreCrash
  <1>7. saves' = <<>> /\ saves' \in Seq(Save) /\ Len(saves') = 0
    BY DEF StoreCrash
  <1>8. Len(heap') <= MaxLoad
    BY <1>6, ProfileAssumption
  <1>9. crashes' \in 0..MaxCrash /\ broken' \in BOOLEAN
    BY ProfileAssumption DEF StoreInv, StoreOK, StoreCrash
  <1>10. file' = file /\ kept' = kept
    BY DEF StoreCrash
  <1>11. StoreOK'
    BY <1>5, <1>6, <1>7, <1>8, <1>9, <1>10 DEF StoreInv, StoreOK
  <1>12. Reads'
    BY <1>4 DEF StoreInv, Reads
  <1>13. EditsOnTheWay'
    BY <1>4, <1>6, <1>7, <1>10 DEF StoreInv, EditsOnTheWay, Has
  <1>14. GoneForGood'
    BY <1>4, <1>6, <1>7, <1>10 DEF StoreInv, GoneForGood
  <1> QED BY <1>11, <1>12, <1>13, <1>14 DEF StoreInv

-----------------------------------------------------------------------------
(* Studio's requests *)

LEMMA LoadStartsKeeps ==
    ASSUME StoreInv, NEW r \in Request, LoadStarts(r) PROVE StoreInv'
  <1>1. Moved(r, "loading", None) /\ None \in Text
    BY DEF LoadStarts, Text
  <1>2. /\ request' \in [Request -> RequestRecord]
        /\ request'[r].at = "loading" /\ request'[r].text = None
        /\ \A q \in Request \ {r} : request'[q] = request[q]
    BY <1>1, RequestMoves DEF StoreInv
  <1>3. UNCHANGED <<file, heap, cur, saves, kept, broken, crashes>>
    BY DEF LoadStarts
  <1>4. StoreOK'
    BY <1>2, <1>3 DEF StoreInv, StoreOK
  <1>5. Reads' /\ GoneForGood'
    BY <1>2, <1>3 DEF StoreInv, Reads, GoneForGood
  <1>6. EditsOnTheWay'
    BY <1>2, <1>3 DEF StoreInv, EditsOnTheWay, Has
  <1> QED BY <1>4, <1>5, <1>6 DEF StoreInv

\* A request takes what the file has.
LEMMA FileRead ==
    ASSUME StoreInv, NEW r \in Request, NEW at \in {"read", "loaded"},
           file # None, Moved(r, at, file),
           UNCHANGED <<file, heap, cur, saves, kept, broken, crashes>>
    PROVE  StoreInv'
  <1>1. file \in Text /\ at \in {"idle", "read", "written", "loading", "loaded",
                                 "removed", "done"}
    BY DEF StoreInv, StoreOK
  <1>2. /\ request' \in [Request -> RequestRecord]
        /\ request'[r].at = at /\ request'[r].text = file
        /\ \A q \in Request \ {r} : request'[q] = request[q]
    BY <1>1, RequestMoves DEF StoreInv
  <1>3. StoreOK'
    BY <1>2 DEF StoreInv, StoreOK
  <1>4. Reads' /\ GoneForGood'
    BY <1>2 DEF StoreInv, Reads, GoneForGood
  <1>5. EditsOnTheWay'
    BY <1>2 DEF StoreInv, EditsOnTheWay
  <1> QED BY <1>3, <1>4, <1>5 DEF StoreInv

\* A request goes on with nothing in its hand.
LEMMA EmptyHanded ==
    ASSUME StoreInv, NEW r \in Request,
           NEW at \in {"idle", "written", "loading", "removed", "done"},
           Moved(r, at, None),
           UNCHANGED <<file, heap, saves, kept, crashes>>,
           cur' = cur \/ cur' = 0, broken' \in BOOLEAN
    PROVE  StoreInv'
  <1>1. None \in Text
    BY DEF Text
  <1>2. /\ request' \in [Request -> RequestRecord]
        /\ request'[r].at = at /\ request'[r].text = None
        /\ \A q \in Request \ {r} : request'[q] = request[q]
    BY <1>1, RequestMoves DEF StoreInv
  <1>3. cur' \in 0..Len(heap)
    BY LenProperties DEF StoreInv, StoreOK
  <1>4. StoreOK'
    BY <1>2, <1>3 DEF StoreInv, StoreOK
  <1>5. Reads' /\ GoneForGood'
    BY <1>2 DEF StoreInv, Reads, GoneForGood
  <1>6. EditsOnTheWay'
    BY <1>2 DEF StoreInv, EditsOnTheWay, Has
  <1> QED BY <1>4, <1>5, <1>6 DEF StoreInv

LEMMA LoadReadsKeeps ==
    ASSUME StoreInv, NEW r \in Request, LoadReads(r) PROVE StoreInv'
  <1>1. CASE file = None
    <2>1. Moved(r, Over(r), None) /\ Over(r) \in {"idle", "done"}
      BY <1>1 DEF LoadReads, Over
    <2>2. /\ UNCHANGED <<file, heap, saves, kept, crashes>> /\ cur' = cur
          /\ broken' \in BOOLEAN
      BY DEF LoadReads, StoreInv, StoreOK
    <2> QED BY <2>1, <2>2, EmptyHanded
  <1>2. CASE file # None
    BY <1>2, FileRead DEF LoadReads
  <1> QED BY <1>1, <1>2

LEMMA EditReadsKeeps ==
    ASSUME StoreInv, NEW r \in Request, EditReads(r) PROVE StoreInv'
  BY FileRead DEF EditReads

LEMMA PutReloadsKeeps ==
    ASSUME StoreInv, NEW r \in Request, PutReloads(r) PROVE StoreInv'
  BY EmptyHanded DEF PutReloads

\* The file gets what a request has read, with an edit.
LEMMA FileEdited ==
    ASSUME StoreInv, NEW r \in Edit, NEW at \in {"written", "done"},
           request[r].at = "read",
           file' = [request[r].text EXCEPT !.edits = @ \cup {r}],
           Moved(r, at, None),
           UNCHANGED <<heap, cur, saves, broken, crashes>>,
           kept' = kept \/ (r \in Plan /\ kept' = kept \cup {r})
    PROVE  StoreInv'
  <1> DEFINE k == request[r].text
             e == [k EXCEPT !.edits = @ \cup {r}]
  <1>1. r \in Request /\ None \in Text
    BY DEF Request, Text
  <1>2. request[r].text \in Content
    BY <1>1 DEF StoreInv, StoreOK, Reads, RequestRecord, Text
  <1>3. e \in Content /\ e.edits = k.edits \cup {r}
    BY <1>2, EditAdds
  <1>4. file' = e
    OBVIOUS
  <1> HIDE DEF e
  <1>5. /\ request' \in [Request -> RequestRecord]
        /\ request'[r].at = at /\ request'[r].text = None
        /\ \A q \in Request \ {r} : request'[q] = request[q]
    BY <1>1, RequestMoves DEF StoreInv
  <1>6. file' \in Text /\ kept' \subseteq Edit \cup Delete
    BY <1>3, <1>4 DEF StoreInv, StoreOK, Text
  <1>7. StoreOK'
    BY <1>5, <1>6 DEF StoreInv, StoreOK
  <1>8. Reads'
    BY <1>5 DEF StoreInv, Reads
  <1>9. kept' \cap Delete = kept \cap Delete /\ kept' \cap Put = kept \cap Put
    BY ProfileAssumption DEF Edit
  <1>10. k # None
    BY <1>2, NoneIsNoContent
  <1>11. GoneForGood'
    BY <1>1, <1>9, <1>10 DEF StoreInv, GoneForGood
  <1>12. EditsOnTheWay'
    <2> SUFFICES ASSUME NEW p \in (kept \cap Put)'
                 PROVE  /\ Has(p, file')
                        /\ \A i \in 1..Len(saves') :
                              /\ p \in heap'[saves'[i].obj].edits
                              /\ Has(p, saves'[i].text)
                        /\ \A q \in Request : Has(p, request'[q].text)
                        /\ cur' # 0 => p \in heap'[cur'].edits
      BY DEF EditsOnTheWay
    <2>1. p \in kept \cap Put
      BY <1>9
    <2>2. Has(p, k)
      BY <1>1, <2>1 DEF StoreInv, EditsOnTheWay
    <2>3. Has(p, file')
      BY <1>3, <1>4, <1>10, <2>2 DEF Has
    <2>4. \A q \in Request : Has(p, request'[q].text)
      BY <1>5, <2>1 DEF StoreInv, EditsOnTheWay, Has
    <2> QED BY <2>1, <2>3, <2>4 DEF StoreInv, EditsOnTheWay
  <1> QED BY <1>7, <1>8, <1>11, <1>12 DEF StoreInv

LEMMA PutWritesKeeps ==
    ASSUME StoreInv, NEW r \in Request, PutWrites(r) PROVE StoreInv'
  BY FileEdited DEF PutWrites, Edit

LEMMA PlanWritesKeeps ==
    ASSUME StoreInv, NEW r \in Request, PlanWrites(r) PROVE StoreInv'
  BY FileEdited DEF PlanWrites, Edit

LEMMA DeleteRemovesKeeps ==
    ASSUME StoreInv, NEW r \in Request, DeleteRemoves(r) PROVE StoreInv'
  <1>1. Moved(r, "removed", None) /\ None \in Text
    BY DEF DeleteRemoves, Text
  <1>2. /\ request' \in [Request -> RequestRecord]
        /\ request'[r].at = "removed" /\ request'[r].text = None
        /\ \A q \in Request \ {r} : request'[q] = request[q]
    BY <1>1, RequestMoves DEF StoreInv
  <1>3. UNCHANGED <<heap, cur, saves, kept, broken, crashes>>
    BY DEF DeleteRemoves
  <1>4. file' = None /\ file # None
    BY DEF DeleteRemoves
  <1>5. StoreOK'
    BY <1>1, <1>2, <1>3, <1>4 DEF StoreInv, StoreOK
  <1>6. Reads' /\ GoneForGood'
    BY <1>2, <1>3, <1>4 DEF StoreInv, Reads, GoneForGood
  <1>7. EditsOnTheWay'
    BY <1>2, <1>3, <1>4 DEF StoreInv, EditsOnTheWay, Has
  <1> QED BY <1>5, <1>6, <1>7 DEF StoreInv

\* The deletion that is kept finds nothing that could bring the file back.
LEMMA DeleteEvictsKeeps ==
    ASSUME StoreInv, NEW r \in Request, DeleteEvicts(r) PROVE StoreInv'
  <1>1. Moved(r, "done", None) /\ None \in Text /\ r \in Delete
    BY DEF DeleteEvicts, Text
  <1>2. /\ request' \in [Request -> RequestRecord]
        /\ request'[r].at = "done" /\ request'[r].text = None
        /\ \A q \in Request \ {r} : request'[q] = request[q]
    BY <1>1, RequestMoves DEF StoreInv
  <1>3. UNCHANGED <<file, heap, saves, crashes>> /\ cur' = 0 /\ broken' \in BOOLEAN
    BY DEF DeleteEvicts
  <1>4. kept' = kept \/ (kept' = kept \cup {r} /\ Unfollowed(r))
    BY DEF DeleteEvicts
  <1>5. kept' \subseteq Edit \cup Delete /\ kept' \cap Put = kept \cap Put
    BY <1>1, <1>4, ProfileAssumption DEF StoreInv, StoreOK, Edit
  <1>6. cur' \in 0..Len(heap')
    BY <1>3, LenProperties DEF StoreInv, StoreOK
  <1>7. StoreOK'
    BY <1>2, <1>3, <1>5, <1>6 DEF StoreInv, StoreOK
  <1>8. Reads'
    BY <1>2 DEF StoreInv, Reads
  <1>9. EditsOnTheWay'
    BY <1>2, <1>3, <1>5 DEF StoreInv, EditsOnTheWay, Has
  <1>10. GoneForGood'
    <2>1. CASE kept' = kept
      BY <1>2, <1>3, <2>1 DEF StoreInv, GoneForGood
    <2>2. CASE Unfollowed(r)
      BY <1>2, <1>3, <2>2 DEF Unfollowed, GoneForGood
    <2> QED BY <1>4, <2>1, <2>2
  <1> QED BY <1>7, <1>8, <1>9, <1>10 DEF StoreInv

\* The edit that is kept is in whatever could undo it.
LEMMA LoadSetsKeeps ==
    ASSUME StoreInv, NEW r \in Request, LoadSets(r) PROVE StoreInv'
  <1> DEFINE k == request[r].text
             n == Len(heap) + 1
  <1>1. Moved(r, Over(r), None) /\ None \in Text /\ Over(r) \in {"idle", "done"}
    BY DEF LoadSets, Text, Over
  <1>2. /\ request' \in [Request -> RequestRecord]
        /\ request'[r].at = Over(r) /\ request'[r].text = None
        /\ \A q \in Request \ {r} : request'[q] = request[q]
    BY <1>1, RequestMoves DEF StoreInv
  <1>3. UNCHANGED <<file, saves, crashes>> /\ broken' \in BOOLEAN /\ cur' = n
    BY DEF LoadSets, StoreInv, StoreOK
  <1>4. k # None /\ k \in Content
    BY DEF LoadSets, StoreInv, StoreOK, Reads, RequestRecord, Text
  <1>5. heap \in Seq(Content) /\ Len(heap) \in Nat /\ Len(heap) < MaxLoad
    BY LenProperties DEF LoadSets, StoreInv, StoreOK
  <1>6. heap' = Append(heap, k)
    BY DEF LoadSets
  <1>7. /\ heap' \in Seq(Content) /\ Len(heap') = n /\ heap'[n] = k
        /\ \A i \in 1..Len(heap) : heap'[i] = heap[i]
    BY <1>4, <1>5, <1>6, AppendProperties
  <1>8. kept' = kept \/ (r \in Put /\ Settled(r, Request) /\ kept' = kept \cup {r})
    BY DEF LoadSets, Keep
  <1>9. \A i \in 1..Len(saves) : saves[i].obj \in 1..Len(heap)
    BY DEF StoreInv, StoreOK
  <1>10. \A i \in 1..Len(saves) : heap'[saves[i].obj] = heap[saves[i].obj]
    BY <1>7, <1>9
  <1>11. kept' \subseteq Edit \cup Delete /\ kept' \cap Delete = kept \cap Delete
    BY <1>8, ProfileAssumption DEF StoreInv, StoreOK, Edit
  <1>12. cur' \in 0..Len(heap') /\ Len(heap') <= MaxLoad
    BY <1>3, <1>5, <1>7, ProfileAssumption
  <1>13. \A i \in 1..Len(saves) : saves[i].obj \in 1..Len(heap')
    BY <1>5, <1>7, <1>9
  <1>14. StoreOK'
    BY <1>2, <1>3, <1>7, <1>11, <1>12, <1>13 DEF StoreInv, StoreOK
  <1>15. Reads'
    BY <1>1, <1>2 DEF StoreInv, Reads
  <1>16. GoneForGood'
    BY <1>4, <1>11 DEF StoreInv, GoneForGood
  <1>17. ASSUME NEW p \in (kept \cap Put)' PROVE
          /\ Has(p, file')
          /\ \A i \in 1..Len(saves') : /\ p \in heap'[saves'[i].obj].edits
                                       /\ Has(p, saves'[i].text)
          /\ \A q \in Request : Has(p, request'[q].text)
          /\ cur' # 0 => p \in heap'[cur'].edits
    <2>1. /\ Has(p, file)
          /\ \A i \in 1..Len(saves) : /\ p \in heap[saves[i].obj].edits
                                      /\ Has(p, saves[i].text)
          /\ \A q \in Request : Has(p, request[q].text)
      <3>1. CASE p \in kept
        BY <3>1, <1>17 DEF StoreInv, EditsOnTheWay
      <3>2. CASE p = r /\ Settled(r, Request)
        <4>1. \A i \in 1..Len(saves) : heap[saves[i].obj] # None
          BY SaveParts, NoneIsNoContent DEF StoreInv
        <4> QED BY <1>3, <3>2, <4>1 DEF Settled, Has
      <3> QED BY <1>8, <1>17, <3>1, <3>2
    <2>2. p \in k.edits
      BY <1>4, <2>1 DEF Has
    <2>3. \A q \in Request : Has(p, request'[q].text)
      BY <1>2, <2>1 DEF Has
    <2> QED BY <1>3, <1>7, <1>10, <2>1, <2>2, <2>3
  <1>18. EditsOnTheWay'
    BY <1>17 DEF EditsOnTheWay
  <1> QED BY <1>14, <1>15, <1>16, <1>18 DEF StoreInv

LEMMA StudioKeeps ==
    ASSUME StoreInv, NEW r \in Request, Studio(r) PROVE StoreInv'
  BY LoadStartsKeeps, LoadReadsKeeps, LoadSetsKeeps, EditReadsKeeps,
     PutWritesKeeps, PutReloadsKeeps, PlanWritesKeeps, DeleteRemovesKeeps,
     DeleteEvictsKeeps DEF Studio

\* No step of Studio takes an object away.
LEMMA StudioGrows ==
    ASSUME StoreOK, NEW r \in Request, Studio(r)
    PROVE  Len(heap) \in Nat /\ Len(heap') \in Nat /\ Len(heap') >= Len(heap)
  <1>1. heap \in Seq(Content) /\ Len(heap) \in Nat
    BY LenProperties DEF StoreOK
  <1>2. CASE LoadSets(r)
    BY <1>1, <1>2 DEF LoadSets
  <1>3. CASE ~LoadSets(r)
    <2>1. heap' = heap
      BY <1>3 DEF Studio, LoadStarts, LoadReads, EditReads, PutWrites, PutReloads,
                  PlanWrites, DeleteRemoves, DeleteEvicts
    <2> QED BY <1>1, <2>1
  <1> QED BY <1>2, <1>3

-----------------------------------------------------------------------------
(* Calls, jobs and the clock *)

\* A call whose endCall has begun, and its job, hold an object.
Holding == \A c \in Call :
              call[c].at \notin {"idle", "in_call"} => call[c].obj \in 1..Len(heap)

Calls ==
    /\ call \in [Call -> CallRecord]
    /\ \A c \in Call : call[c].obj \in 0..Len(heap)
    /\ Holding

Lamps == lamp \in BOOLEAN \cup {None}

Counted == /\ execs \in [Voicemail -> Nat]
           /\ \A v \in Voicemail : execs[v] <= MaxExec[v]

MailboxInv == StoreInv /\ Calls /\ Lamps /\ Counted

LEMMA NoCallIsACall == NoCall \in CallRecord
  BY DEF NoCall, CallRecord, At

LEMMA UnreadIsBoolean == \A m \in MailRecord : HasUnread(m) \in BOOLEAN
  BY DEF HasUnread

LEMMA CallsGoOn ==
    ASSUME Calls, NEW c \in Call, NEW k \in CallRecord,
           Len(heap) \in Nat, Len(heap') = Len(heap),
           call' = [call EXCEPT ![c] = k],
           k.obj \in 0..Len(heap),
           k.at \notin {"idle", "in_call"} => k.obj # 0
    PROVE  Calls'
  <1>1. \A d \in Call : call'[d] = IF d = c THEN k ELSE call[d]
    BY DEF Calls
  <1>2. call' \in [Call -> CallRecord]
    BY DEF Calls
  <1>3. \A d \in Call : call'[d].obj \in 0..Len(heap)
    BY <1>1 DEF Calls
  <1>4. k.at \notin {"idle", "in_call"} => k.obj \in 1..Len(heap)
    OBVIOUS
  <1>5. Holding'
    BY <1>1, <1>4 DEF Calls, Holding
  <1> QED BY <1>2, <1>3, <1>5 DEF Calls

LEMMA CallEnds ==
    ASSUME Calls, NEW c \in Call, Len(heap) \in Nat, Len(heap') = Len(heap),
           call' = [call EXCEPT ![c] = NoCall]
    PROVE  Calls'
  <1> DEFINE k == NoCall
  <1>1. k \in CallRecord /\ k.at = "idle" /\ k.obj = 0
    BY NoCallIsACall DEF NoCall
  <1>2. k.obj \in 0..Len(heap)
    BY <1>1
  <1>3. call' = [call EXCEPT ![c] = k]
    OBVIOUS
  <1> HIDE DEF k
  <1> QED BY <1>1, <1>2, <1>3, CallsGoOn

LEMMA CallsStay ==
    ASSUME Calls, UNCHANGED call, Len(heap) \in Nat, Len(heap') \in Nat,
           Len(heap') >= Len(heap)
    PROVE  Calls'
  BY DEF Calls, Holding

\* What a call holds is an object.
LEMMA HoldsContent ==
    ASSUME MailboxInv, NEW c \in Call, call[c].at \notin {"idle", "in_call"}
    PROVE  /\ call[c].obj \in 1..Len(heap)
           /\ MailOf(call[c].obj) \in MailRecord
  <1>1. call[c].obj \in 1..Len(heap)
    BY DEF MailboxInv, Calls, Holding
  <1>2. heap \in Seq(Content)
    BY DEF MailboxInv, StoreInv, StoreOK
  <1>3. heap[call[c].obj] \in Content
    BY <1>1, <1>2, ElementOfSeq
  <1> QED BY <1>1, <1>3, ContentParts DEF MailOf

LEMMA HeapLength ==
    ASSUME StoreOK PROVE Len(heap) \in Nat /\ cur \in 0..Len(heap)
  BY LenProperties DEF StoreOK

LEMMA HostStepLength ==
    ASSUME StoreInv, HostStep
    PROVE  Len(heap) \in Nat /\ Len(heap') = Len(heap)
  BY HeapKeepsEdits, HeapLength DEF HostStep, StoreInv

LEMMA InitMailbox == Init => MailboxInv
  <1> SUFFICES ASSUME Init PROVE MailboxInv
    OBVIOUS
  <1>1. StoreInv
    BY InitStore DEF Init
  <1>2. Calls
    <2>1. call \in [Call -> CallRecord]
      BY NoCallIsACall DEF Init
    <2>2. \A c \in Call : call[c].at = "idle" /\ call[c].obj = 0
      BY DEF Init, NoCall
    <2>3. 0 \in 0..Len(heap)
      BY <1>1, HeapLength DEF StoreInv
    <2> QED BY <2>1, <2>2, <2>3 DEF Calls, Holding
  <1>3. Lamps /\ Counted
    BY MailboxAssumption DEF Init, Lamps, Counted
  <1> QED BY <1>1, <1>2, <1>3 DEF MailboxInv

LEMMA TickKeeps ==
    ASSUME MailboxInv, NEW v \in Timed, Tick(v) PROVE MailboxInv'
  <1>1. cur \in 1..Len(heap)
    BY HeapLength DEF MailboxInv, StoreInv, Tick
  <1>2. heap[cur] \in Content
    BY <1>1, ElementOfSeq DEF MailboxInv, StoreInv, StoreOK
  <1>3. Fire(MailOf(cur), v) \in MailRecord
    BY <1>2, ContentParts, FireIsMail DEF MailOf, Tick
  <1>4. HostStep
    BY <1>1, <1>3 DEF HostStep, HeapChanged, SaveIssued, Tick, Stays
  <1>5. StoreInv'
    BY <1>4, HostKeeps DEF MailboxInv
  <1>6. Len(heap) \in Nat /\ Len(heap') = Len(heap)
    BY <1>4, HostStepLength DEF MailboxInv
  <1>7. Calls'
    BY <1>6, CallsStay DEF MailboxInv, Tick
  <1>8. Lamps' /\ Counted'
    BY DEF MailboxInv, Lamps, Counted, Tick
  <1> QED BY <1>5, <1>7, <1>8 DEF MailboxInv

LEMMA StoreUnchanged ==
    ASSUME StoreInv, UNCHANGED storeVars
    PROVE  StoreInv' /\ Len(heap) \in Nat /\ Len(heap') = Len(heap)
  <1>1. StoreInv'
    BY DEF StoreInv, StoreOK, Reads, EditsOnTheWay, GoneForGood, storeVars
  <1> QED BY <1>1, HeapLength DEF StoreInv, storeVars

LEMMA BeginCallKeeps ==
    ASSUME MailboxInv, NEW c \in Call, NEW a \in Agent,
           NEW v \in Voicemail \cup {None}, BeginCall(c, a, v)
    PROVE  MailboxInv'
  <1> DEFINE k == [NoCall EXCEPT !.at = "in_call", !.agent = a, !.opened = v]
  <1>1. k \in CallRecord /\ k.obj = 0 /\ k.at = "in_call"
    BY DEF NoCall, CallRecord, At
  <1>2. call' = [call EXCEPT ![c] = k]
    BY DEF BeginCall
  <1>3. UNCHANGED storeVars /\ UNCHANGED <<lamp, execs>>
    BY DEF BeginCall
  <1> HIDE DEF k
  <1>4. StoreInv' /\ Len(heap) \in Nat /\ Len(heap') = Len(heap)
    BY <1>3, StoreUnchanged DEF MailboxInv
  <1>5. k.obj \in 0..Len(heap)
    BY <1>1, <1>4
  <1>6. Calls'
    BY <1>1, <1>2, <1>4, <1>5, CallsGoOn DEF MailboxInv
  <1> QED BY <1>3, <1>4, <1>6 DEF MailboxInv, Lamps, Counted

LEMMA EndCallKeeps ==
    ASSUME MailboxInv, NEW c \in Call, NEW next \in {"queued", "aborting"},
           EndCall(c, next)
    PROVE  MailboxInv'
  <1> DEFINE k == [call[c] EXCEPT !.at = next, !.obj = cur]
  <1>1. call[c] \in CallRecord /\ cur \in 0..Len(heap) /\ cur # 0 /\ cur \in Nat
    BY HeapLength DEF MailboxInv, Calls, StoreInv, EndCall
  <1>2. k \in CallRecord /\ k.obj = cur
    BY <1>1 DEF CallRecord, At
  <1>3. call' = [call EXCEPT ![c] = k]
    BY DEF EndCall, MailboxInv, Calls
  <1>4. UNCHANGED storeVars /\ UNCHANGED <<lamp, execs>>
    BY DEF EndCall
  <1> HIDE DEF k
  <1>5. StoreInv' /\ Len(heap) \in Nat /\ Len(heap') = Len(heap)
    BY <1>4, StoreUnchanged DEF MailboxInv
  <1>6. Calls'
    BY <1>1, <1>2, <1>3, <1>5, CallsGoOn DEF MailboxInv
  <1> QED BY <1>4, <1>5, <1>6 DEF MailboxInv, Lamps, Counted

LEMMA SaverIssues ==
    ASSUME NEW c \in Call, IssueSave(c) PROVE SaveIssued
  BY MailboxAssumption DEF SaveIssued

LEMMA LampTold ==
    ASSUME Lamps, NEW m \in MailRecord, NEW n \in MailRecord, Lamp(m, n)
    PROVE  Lamps'
  <1>1. HasUnread(n) \in BOOLEAN
    BY UnreadIsBoolean
  <1> QED BY <1>1 DEF Lamp, Lamps

LEMMA HeardIsMail ==
    ASSUME MailboxInv, NEW c \in Call, NEW m \in MailRecord,
           NEW heard \in BOOLEAN, heard => call[c].opened # None
    PROVE  Heard(c, m, heard) \in MailRecord
  <1>1. heard => call[c].opened \in Voicemail
    BY DEF MailboxInv, Calls, CallRecord
  <1> QED BY <1>1, ListenedIsMail DEF Heard

\* The save of a call or job that goes on, or is refused.
LEMMA SavesKeep ==
    ASSUME MailboxInv, NEW c \in Call, NEW at \in At,
           call[c].at \notin {"idle", "in_call"},
           Saves(c, [call[c] EXCEPT !.at = at]),
           Len(heap) \in Nat, Len(heap') = Len(heap)
    PROVE  Calls'
  <1> DEFINE k == [call[c] EXCEPT !.at = at]
  <1>1. call[c] \in CallRecord /\ call[c].obj \in 1..Len(heap)
    BY DEF MailboxInv, Calls, Holding
  <1>2. k \in CallRecord /\ k.obj = call[c].obj
    BY <1>1 DEF CallRecord
  <1>3. k.obj \in 0..Len(heap) /\ k.obj # 0
    BY <1>1, <1>2
  <1>4. \/ call' = [call EXCEPT ![c] = k]
        \/ call' = [call EXCEPT ![c] = NoCall]
    BY DEF Saves
  <1> HIDE DEF k
  <1>5. CASE call' = [call EXCEPT ![c] = k]
    BY <1>2, <1>3, <1>5, CallsGoOn DEF MailboxInv
  <1>6. CASE call' = [call EXCEPT ![c] = NoCall]
    BY <1>6, CallEnds DEF MailboxInv
  <1> QED BY <1>4, <1>5, <1>6

LEMMA RunEffectsKeeps ==
    ASSUME MailboxInv, NEW c \in Call, NEW v \in Voicemail \cup {None},
           NEW heard \in BOOLEAN, RunEffects(c, v, heard)
    PROVE  MailboxInv'
  <1> DEFINE m == MailOf(call[c].obj)
             left == IF v = None THEN m ELSE Leave(m, v)
             after == Heard(c, left, heard)
  <1>1. call[c].at = "queued"
    BY DEF RunEffects
  <1>2. call[c].obj \in 1..Len(heap) /\ m \in MailRecord
    BY <1>1, HoldsContent
  <1>3. left \in MailRecord
    BY <1>2, LeaveIsMail
  <1>4. after \in MailRecord
    <2> HIDE DEF left
    <2> QED BY <1>3, HeardIsMail DEF RunEffects
  <1>5. Change(call[c].obj, after) /\ Lamp(left, after)
    BY DEF RunEffects
  <1>6. Saves(c, [call[c] EXCEPT !.at = "saving"])
    BY DEF RunEffects
  <1>7. UNCHANGED <<file, cur, request, kept, broken, crashes>>
    BY DEF RunEffects, Stays
  <1> HIDE DEF m, left, after
  <1>8. HostStep
    BY <1>2, <1>4, <1>5, <1>6, <1>7, SaverIssues DEF HostStep, HeapChanged, Saves
  <1>9. StoreInv' /\ Len(heap) \in Nat /\ Len(heap') = Len(heap)
    BY <1>8, HostKeeps, HostStepLength DEF MailboxInv
  <1>10. Calls'
    BY <1>1, <1>6, <1>9, SavesKeep DEF At
  <1>11. Lamps'
    BY <1>3, <1>4, <1>5, LampTold DEF MailboxInv
  <1>12. Counted'
    <2>1. execs' = [w \in Voicemail |-> execs[w] + IF w = v THEN 1 ELSE 0]
          /\ (v # None => execs[v] < MaxExec[v])
      BY DEF RunEffects
    <2>2. execs \in [Voicemail -> Nat] /\ \A w \in Voicemail : execs[w] <= MaxExec[w]
      BY DEF MailboxInv, Counted
    <2>3. ASSUME NEW w \in Voicemail
          PROVE  execs'[w] \in Nat /\ execs'[w] <= MaxExec[w]
      <3>1. execs[w] \in Nat /\ MaxExec[w] \in Nat /\ execs[w] <= MaxExec[w]
        BY <2>2, MailboxAssumption
      <3>2. CASE w = v
        BY <2>1, <3>1, <3>2, MailboxAssumption
      <3>3. CASE w # v
        BY <2>1, <3>1, <3>3
      <3> QED BY <3>2, <3>3
    <2> QED BY <2>1, <2>3 DEF Counted
  <1> QED BY <1>9, <1>10, <1>11, <1>12 DEF MailboxInv

LEMMA AbortCallKeeps ==
    ASSUME MailboxInv, NEW c \in Call, NEW heard \in BOOLEAN, AbortCall(c, heard)
    PROVE  MailboxInv'
  <1> DEFINE m == MailOf(call[c].obj)
             after == Heard(c, m, heard)
  <1>1. call[c].at = "aborting"
    BY DEF AbortCall
  <1>2. call[c].obj \in 1..Len(heap) /\ m \in MailRecord
    BY <1>1, HoldsContent
  <1>3. after \in MailRecord
    <2> HIDE DEF m
    <2> QED BY <1>2, HeardIsMail DEF AbortCall
  <1>4. Change(call[c].obj, after) /\ Lamp(m, after)
    BY DEF AbortCall
  <1>5. Saves(c, [call[c] EXCEPT !.at = "abort_save"])
    BY DEF AbortCall
  <1>6. UNCHANGED <<file, cur, request, kept, broken, crashes>> /\ UNCHANGED execs
    BY DEF AbortCall, Stays
  <1> HIDE DEF m, after
  <1>7. HostStep
    BY <1>2, <1>3, <1>4, <1>5, <1>6, SaverIssues DEF HostStep, HeapChanged, Saves
  <1>8. StoreInv' /\ Len(heap) \in Nat /\ Len(heap') = Len(heap)
    BY <1>7, HostKeeps, HostStepLength DEF MailboxInv
  <1>9. Calls'
    BY <1>1, <1>5, <1>8, SavesKeep DEF At
  <1>10. Lamps'
    BY <1>2, <1>3, <1>4, LampTold DEF MailboxInv
  <1>11. Counted'
    BY <1>6 DEF MailboxInv, Counted
  <1> QED BY <1>8, <1>9, <1>10, <1>11 DEF MailboxInv

\* A call is over, or its job starts on the object that is cached.
LEMMA CallSavedKeeps ==
    ASSUME MailboxInv, NEW c \in Call, NEW committed \in BOOLEAN,
           CallSaved(c, committed)
    PROVE  MailboxInv'
  <1> DEFINE k == [NoCall EXCEPT !.at = "job", !.agent = call[c].agent,
                                 !.obj = cur]
  <1>1. call[c] \in CallRecord /\ cur \in 0..Len(heap) /\ cur \in Nat
    BY HeapLength DEF MailboxInv, Calls, StoreInv
  <1>2. k \in CallRecord /\ k.obj = cur
    BY <1>1 DEF CallRecord, NoCall, At
  <1>3. \/ call' = [call EXCEPT ![c] = k] /\ cur # 0
        \/ call' = [call EXCEPT ![c] = NoCall]
    BY DEF CallSaved
  <1>4. UNCHANGED storeVars /\ UNCHANGED <<lamp, execs>>
    BY DEF CallSaved
  <1> HIDE DEF k
  <1>5. StoreInv' /\ Len(heap) \in Nat /\ Len(heap') = Len(heap)
    BY <1>4, StoreUnchanged DEF MailboxInv
  <1>6. Calls'
    <2>1. CASE call' = [call EXCEPT ![c] = k] /\ cur # 0
      BY <1>1, <1>2, <1>5, <2>1, CallsGoOn DEF MailboxInv
    <2>2. CASE call' = [call EXCEPT ![c] = NoCall]
      BY <1>5, <2>2, CallEnds DEF MailboxInv
    <2> QED BY <1>3, <2>1, <2>2
  <1> QED BY <1>4, <1>5, <1>6 DEF MailboxInv, Lamps, Counted

LEMMA TakesKeeps ==
    ASSUME MailboxInv, NEW c \in Call, Takes(c) PROVE MailboxInv'
  <1> DEFINE m == MailOf(call[c].obj)
             k == [call[c] EXCEPT !.at = "generating", !.hand = m.stack,
                                  !.took = m.stack # {}]
  <1>1. call[c].at = "job"
    BY DEF Takes
  <1>2. call[c].obj \in 1..Len(heap) /\ m \in MailRecord
    BY <1>1, HoldsContent
  <1>3. Take(m) \in MailRecord /\ m.stack \in SUBSET Voicemail
    BY <1>2, TakeIsMail DEF MailRecord
  <1>4. /\ Change(call[c].obj, Take(m))
        /\ UNCHANGED <<file, cur, request, kept, broken, crashes>>
        /\ saves' = saves /\ UNCHANGED <<lamp, execs>>
    BY DEF Takes, Stays
  <1>5. call' = [call EXCEPT ![c] = k]
    BY DEF Takes
  <1>6. call[c] \in CallRecord
    BY DEF MailboxInv, Calls
  <1>7. (m.stack # {}) \in BOOLEAN
    OBVIOUS
  <1>8. k \in CallRecord /\ k.obj = call[c].obj
    <2> HIDE DEF m
    <2> QED BY <1>3, <1>6, <1>7 DEF CallRecord, At
  <1> HIDE DEF m, k
  <1>9. HostStep
    BY <1>2, <1>3, <1>4 DEF HostStep, HeapChanged, SaveIssued
  <1>10. StoreInv' /\ Len(heap) \in Nat /\ Len(heap') = Len(heap)
    BY <1>9, HostKeeps, HostStepLength DEF MailboxInv
  <1>11. k.obj \in 0..Len(heap) /\ k.obj # 0
    BY <1>2, <1>8
  <1>12. Calls'
    BY <1>5, <1>8, <1>10, <1>11, CallsGoOn DEF MailboxInv
  <1> QED BY <1>4, <1>10, <1>12 DEF MailboxInv, Lamps, Counted

LEMMA GenerateKeeps ==
    ASSUME MailboxInv, NEW c \in Call, NEW v \in Voicemail,
           NEW s \in {"unread", "generate_failed"}, Generate(c, v, s)
    PROVE  MailboxInv'
  <1> DEFINE m == MailOf(call[c].obj)
             k == [call[c] EXCEPT !.hand = @ \ {v}]
  <1>1. call[c].at = "generating"
    BY DEF Generate
  <1>2. call[c].obj \in 1..Len(heap) /\ m \in MailRecord
    BY <1>1, HoldsContent
  <1>3. Deliver(m, v, s) \in MailRecord
    BY <1>2, DeliverIsMail DEF Status
  <1>4. /\ Change(call[c].obj, Deliver(m, v, s))
        /\ UNCHANGED <<file, cur, request, kept, broken, crashes>>
        /\ saves' = saves /\ UNCHANGED <<lamp, execs>>
    BY DEF Generate, Stays
  <1>5. call' = [call EXCEPT ![c] = k]
    BY DEF Generate
  <1>6. call[c] \in CallRecord
    BY DEF MailboxInv, Calls
  <1>7. k \in CallRecord /\ k.obj = call[c].obj
    BY <1>6 DEF CallRecord
  <1> HIDE DEF m, k
  <1>8. HostStep
    BY <1>2, <1>3, <1>4 DEF HostStep, HeapChanged, SaveIssued
  <1>9. StoreInv' /\ Len(heap) \in Nat /\ Len(heap') = Len(heap)
    BY <1>8, HostKeeps, HostStepLength DEF MailboxInv
  <1>10. k.obj \in 0..Len(heap) /\ k.obj # 0
    BY <1>2, <1>7
  <1>11. Calls'
    BY <1>5, <1>7, <1>9, <1>10, CallsGoOn DEF MailboxInv
  <1> QED BY <1>4, <1>9, <1>11 DEF MailboxInv, Lamps, Counted

LEMMA NotesKeeps ==
    ASSUME MailboxInv, NEW c \in Call, Notes(c) PROVE MailboxInv'
  <1> DEFINE m == MailOf(call[c].obj)
             k == [call[c] EXCEPT !.at = "noted"]
  <1>1. call[c].at = "generating"
    BY DEF Notes
  <1>2. call[c].obj \in 1..Len(heap) /\ m \in MailRecord
    BY <1>1, HoldsContent
  <1>3. HasUnread(m) \in BOOLEAN
    BY <1>2, UnreadIsBoolean
  <1>4. lamp' = IF call[c].took THEN HasUnread(m) ELSE lamp
    BY DEF Notes
  <1>5. UNCHANGED storeVars /\ execs' = execs
    BY DEF Notes
  <1>6. call' = [call EXCEPT ![c] = k]
    BY DEF Notes
  <1>7. call[c] \in CallRecord
    BY DEF MailboxInv, Calls
  <1>8. k \in CallRecord /\ k.obj = call[c].obj
    BY <1>7 DEF CallRecord, At
  <1> HIDE DEF m, k
  <1>9. StoreInv' /\ Len(heap) \in Nat /\ Len(heap') = Len(heap)
    BY <1>5, StoreUnchanged DEF MailboxInv
  <1>10. k.obj \in 0..Len(heap) /\ k.obj # 0
    BY <1>2, <1>8
  <1>11. Calls'
    BY <1>6, <1>8, <1>9, <1>10, CallsGoOn DEF MailboxInv
  <1>12. Lamps'
    BY <1>3, <1>4 DEF MailboxInv, Lamps
  <1>13. Counted'
    BY <1>5 DEF MailboxInv, Counted
  <1> QED BY <1>9, <1>11, <1>12, <1>13 DEF MailboxInv

LEMMA PhaseSavesKeeps ==
    ASSUME MailboxInv, NEW c \in Call, PhaseSaves(c) PROVE MailboxInv'
  <1>1. call[c].at = "noted" /\ Saves(c, [call[c] EXCEPT !.at = "jobsave"])
    BY DEF PhaseSaves
  <1>2. /\ UNCHANGED <<file, cur, request, kept, broken, crashes>>
        /\ heap' = heap /\ UNCHANGED <<lamp, execs>>
    BY DEF PhaseSaves, Stays
  <1>3. HostStep
    BY <1>1, <1>2, SaverIssues DEF HostStep, HeapChanged, Saves
  <1>4. StoreInv' /\ Len(heap) \in Nat /\ Len(heap') = Len(heap)
    BY <1>3, HostKeeps, HostStepLength DEF MailboxInv
  <1>5. Calls'
    BY <1>1, <1>4, SavesKeep DEF At
  <1> QED BY <1>2, <1>4, <1>5 DEF MailboxInv, Lamps, Counted

LEMMA PhaseOverKeeps ==
    ASSUME MailboxInv, NEW c \in Call, PhaseOver(c) PROVE MailboxInv'
  <1>1. call' = [call EXCEPT ![c] = NoCall]
    BY DEF PhaseOver
  <1>2. UNCHANGED storeVars /\ UNCHANGED <<lamp, execs>>
    BY DEF PhaseOver
  <1>3. StoreInv' /\ Len(heap) \in Nat /\ Len(heap') = Len(heap)
    BY <1>2, StoreUnchanged DEF MailboxInv
  <1>4. Calls'
    BY <1>1, <1>3, CallEnds DEF MailboxInv
  <1> QED BY <1>2, <1>3, <1>4 DEF MailboxInv, Lamps, Counted

-----------------------------------------------------------------------------
(* The store's own steps, and a restart *)

LEMMA StoreKeeps ==
    ASSUME MailboxInv, Store PROVE MailboxInv'
  <1>1. UNCHANGED <<call, lamp, execs>>
    BY DEF Store
  <1>2. StoreInv' /\ Len(heap) \in Nat /\ Len(heap') \in Nat /\ Len(heap') >= Len(heap)
    <2>1. CASE Serialize
      BY <2>1, SerializeKeeps, HeapLength DEF MailboxInv, StoreInv, Serialize
    <2>2. CASE SaveLands
      BY <2>2, SaveLandsKeeps, HeapLength DEF MailboxInv, StoreInv, SaveLands
    <2>3. ASSUME NEW who \in Saver, Autosave(who)
          PROVE  StoreInv' /\ Len(heap) \in Nat /\ Len(heap') = Len(heap)
      <3>1. HostStep
        BY <2>3 DEF Autosave, HostStep, HeapChanged, SaveIssued
      <3> QED BY <3>1, HostKeeps, HostStepLength DEF MailboxInv
    <2>4. ASSUME NEW r \in Request, Studio(r)
          PROVE  StoreInv' /\ Len(heap) \in Nat /\ Len(heap') \in Nat
                 /\ Len(heap') >= Len(heap)
      BY <2>4, StudioKeeps, StudioGrows DEF MailboxInv, StoreInv
    <2> QED BY <2>1, <2>2, <2>3, <2>4 DEF Store
  <1>3. Calls'
    BY <1>1, <1>2, CallsStay DEF MailboxInv
  <1> QED BY <1>1, <1>2, <1>3 DEF MailboxInv, Lamps, Counted

LEMMA RestartKeeps ==
    ASSUME MailboxInv, Crash PROVE MailboxInv'
  <1>1. StoreInv'
    BY CrashKeeps DEF MailboxInv, Crash
  <1>2. Calls'
    <2>1. call' \in [Call -> CallRecord]
      BY NoCallIsACall DEF Crash
    <2>2. \A c \in Call : call'[c].at = "idle" /\ call'[c].obj = 0
      BY DEF Crash, NoCall
    <2>3. heap' = <<>> /\ 0 \in 0..Len(heap')
      BY DEF Crash, StoreCrash
    <2> QED BY <2>1, <2>2, <2>3 DEF Calls, Holding
  <1>3. Lamps' /\ Counted'
    BY DEF MailboxInv, Lamps, Counted, Crash
  <1> QED BY <1>1, <1>2, <1>3 DEF MailboxInv

-----------------------------------------------------------------------------
(* The theorems *)

LEMMA MailboxSteps == MailboxInv /\ [Next]_vars => MailboxInv'
  <1> SUFFICES ASSUME MailboxInv, [Next]_vars PROVE MailboxInv'
    OBVIOUS
  <1>1. ASSUME NEW v \in Timed, Tick(v) PROVE MailboxInv'
    BY <1>1, TickKeeps
  <1>2. ASSUME NEW c \in Call, NEW a \in Agent, NEW v \in Voicemail \cup {None},
               BeginCall(c, a, v)
        PROVE  MailboxInv'
    BY <1>2, BeginCallKeeps
  <1>3. ASSUME NEW c \in Call, NEW next \in {"queued", "aborting"},
               EndCall(c, next)
        PROVE  MailboxInv'
    BY <1>3, EndCallKeeps
  <1>4. ASSUME NEW c \in Call, Ends(c) PROVE MailboxInv'
    BY <1>4, RunEffectsKeeps, AbortCallKeeps, CallSavedKeeps DEF Ends
  <1>5. ASSUME NEW c \in Call, Materializes(c) PROVE MailboxInv'
    BY <1>5, TakesKeeps, GenerateKeeps, NotesKeeps, PhaseSavesKeeps,
       PhaseOverKeeps DEF Materializes
  <1>6. CASE Store
    BY <1>6, StoreKeeps
  <1>7. CASE Crash
    BY <1>7, RestartKeeps
  <1>8. CASE UNCHANGED vars
    <2>1. UNCHANGED storeVars /\ UNCHANGED <<call, lamp, execs>>
      BY <1>8 DEF vars
    <2>2. StoreInv' /\ Len(heap) \in Nat /\ Len(heap') = Len(heap)
      BY <2>1, StoreUnchanged DEF MailboxInv
    <2>3. Calls'
      BY <2>1, <2>2, CallsStay DEF MailboxInv
    <2> QED BY <2>1, <2>2, <2>3 DEF MailboxInv, Lamps, Counted
  <1> QED BY <1>1, <1>2, <1>3, <1>4, <1>5, <1>6, <1>7, <1>8 DEF Next

\* The inductive invariant: what is typed, which object a call holds, and what
\* everything on its way to the file has in it.
THEOREM MailboxInvariant == Spec => []MailboxInv
  BY InitMailbox, MailboxSteps, PTL DEF Spec

\* The profile, its file, the port's queue, Studio's requests, the calls and the
\* lamp keep values of their kind, and no call holds an object that is not there
\* (ensureProfile, saveProfile, endCall).
THEOREM ProfileTyped == Spec => []TypeOK
  <1>1. MailboxInv => TypeOK
    BY DEF MailboxInv, StoreInv, Calls, Lamps, Counted, TypeOK
  <1> QED BY <1>1, MailboxInvariant, PTL

\* The user's data, once edited while nothing older was on its way, is never
\* undone by a later save of the host, whatever calls, jobs, loads, other
\* requests and restarts come in between (syncHostProfileAfterFsWrite).
THEOREM EditsSurviveSaves == Spec => []UserEditKept
  <1>1. MailboxInv => UserEditKept
    BY DEF MailboxInv, StoreInv, EditsOnTheWay, Has, UserEditKept
  <1> QED BY <1>1, MailboxInvariant, PTL

\* A user who was deleted while nobody had the profile on its way to the file
\* does not come back by a save, a load or an edit (evictHostProfileAfterFsDelete).
THEOREM DeletionsSurviveSaves == Spec => []DeletedStaysDeleted
  <1>1. MailboxInv => DeletedStaysDeleted
    BY DEF MailboxInv, StoreInv, GoneForGood, DeletedStaysDeleted
  <1> QED BY <1>1, MailboxInvariant, PTL

-----------------------------------------------------------------------------
(* How often a voicemail is in a mail *)

Stacked(m, w) == IF w \in m.stack THEN 1 ELSE 0

Dues(m, w) == IF w \in Timed THEN m.due[w] ELSE 0

Is(w, v) == IF w = v THEN 1 ELSE 0

LEMMA CopiesAreCounted ==
    ASSUME NEW m \in MailRecord, NEW w \in Voicemail
    PROVE  /\ Copies(m, w) = Len(m.box[w]) + Stacked(m, w) + Dues(m, w)
           /\ Len(m.box[w]) \in Nat
           /\ Stacked(m, w) \in {0, 1} /\ Stacked(m, w) \in Nat
           /\ Dues(m, w) \in Nat
           /\ Copies(m, w) \in Nat
  <1>1. m.box[w] \in Seq(Status) /\ (w \in Timed => m.due[w] \in Nat)
    BY DEF MailRecord
  <1>2. Len(m.box[w]) \in Nat
    BY <1>1, LenProperties
  <1>3. Stacked(m, w) \in {0, 1} /\ Dues(m, w) \in Nat
    BY <1>1 DEF Stacked, Dues
  <1>4. Copies(m, w) = Len(m.box[w]) + Stacked(m, w) + Dues(m, w)
    BY DEF Copies, Stacked, Dues
  <1> QED BY <1>2, <1>3, <1>4

\* The copies of two mails, part by part.
LEMMA CopiesCompared ==
    ASSUME NEW m \in MailRecord, NEW n \in MailRecord, NEW w \in Voicemail,
           NEW d \in Int,
           \/ /\ Len(n.box[w]) = Len(m.box[w]) /\ Stacked(n, w) = Stacked(m, w)
              /\ Dues(n, w) = Dues(m, w) + d
           \/ /\ Len(n.box[w]) = Len(m.box[w]) /\ Dues(n, w) = Dues(m, w)
              /\ Stacked(n, w) = Stacked(m, w) + d
           \/ /\ Stacked(n, w) = Stacked(m, w) /\ Dues(n, w) = Dues(m, w)
              /\ Len(n.box[w]) = Len(m.box[w]) + d
    PROVE  Copies(n, w) = Copies(m, w) + d
  <1> DEFINE a == Len(m.box[w])
             b == Stacked(m, w)
             c == Dues(m, w)
             aa == Len(n.box[w])
             bb == Stacked(n, w)
             cc == Dues(n, w)
  <1>1. Copies(m, w) = a + b + c /\ a \in Nat /\ b \in Nat /\ c \in Nat
    BY CopiesAreCounted
  <1>2. Copies(n, w) = aa + bb + cc /\ aa \in Nat /\ bb \in Nat /\ cc \in Nat
    BY CopiesAreCounted
  <1>3. \/ aa = a /\ bb = b /\ cc = c + d
        \/ aa = a /\ cc = c /\ bb = b + d
        \/ bb = b /\ cc = c /\ aa = a + d
    OBVIOUS
  <1> HIDE DEF a, b, c, aa, bb, cc
  <1> QED BY <1>1, <1>2, <1>3

LEMMA CopiesEmpty == \A w \in Voicemail : Copies(EmptyMail, w) = 0
  <1> SUFFICES ASSUME NEW w \in Voicemail PROVE Copies(EmptyMail, w) = 0
    OBVIOUS
  <1>1. Copies(EmptyMail, w)
          = Len(EmptyMail.box[w]) + Stacked(EmptyMail, w) + Dues(EmptyMail, w)
    BY EmptyIsMail, CopiesAreCounted
  <1>2. EmptyMail.box[w] = <<>> /\ Stacked(EmptyMail, w) = 0 /\ Dues(EmptyMail, w) = 0
    BY DEF EmptyMail, Stacked, Dues
  <1> QED BY <1>1, <1>2

LEMMA CopiesPush ==
    ASSUME NEW m \in MailRecord, NEW v \in Voicemail, NEW w \in Voicemail
    PROVE  /\ Copies(Push(m, v), w) <= Copies(m, w) + Is(w, v)
           /\ Push(m, v).box = m.box /\ Push(m, v).due = m.due
           /\ m.stack \subseteq Push(m, v).stack
           /\ \E u \in Push(m, v).stack : u \in Voicemail /\ CardOf[u] = CardOf[v]
  <1> DEFINE n == Push(m, v)
  <1>1. /\ n.box = m.box /\ n.due = m.due
        /\ n.stack = m.stack \/ n.stack = m.stack \cup {v}
        /\ \E u \in n.stack : u \in Voicemail /\ CardOf[u] = CardOf[v]
    BY DEF Push, MailRecord
  <1>2. n \in MailRecord
    BY PushIsMail
  <1> HIDE DEF n
  <1>3. Len(n.box[w]) = Len(m.box[w]) /\ Dues(n, w) = Dues(m, w)
    BY <1>1, CopiesAreCounted DEF Dues
  <1>4. PICK b \in {0, 1} : Stacked(n, w) = Stacked(m, w) + b /\ (w # v => b = 0)
    BY <1>1 DEF Stacked
  <1>5. Copies(n, w) = Copies(m, w) + b
    BY <1>2, <1>3, <1>4, CopiesCompared
  <1>6. b <= Is(w, v) /\ Is(w, v) \in Nat
    BY <1>4 DEF Is
  <1>7. Copies(n, w) <= Copies(m, w) + Is(w, v)
    BY <1>5, <1>6, CopiesAreCounted
  <1> QED BY <1>1, <1>7 DEF n

\* An execution of an effect adds one copy at most.
LEMMA CopiesLeave ==
    ASSUME NEW m \in MailRecord, NEW v \in Voicemail, NEW w \in Voicemail
    PROVE  /\ Copies(Leave(m, v), w) <= Copies(m, w) + Is(w, v)
           /\ Leave(m, v).box = m.box
           /\ m.stack \subseteq Leave(m, v).stack
           /\ w \in Timed => m.due[w] <= Leave(m, v).due[w]
  <1>1. CASE v \in Timed
    <2> DEFINE n == Leave(m, v)
    <2>1. /\ n.box = m.box /\ n.stack = m.stack
          /\ \A u \in Timed : n.due[u] = m.due[u] + Is(u, v)
      BY <1>1 DEF Leave, MailRecord, Is
    <2>2. n \in MailRecord
      BY LeaveIsMail
    <2> HIDE DEF n
    <2>3. Len(n.box[w]) = Len(m.box[w]) /\ Stacked(n, w) = Stacked(m, w)
      BY <2>1, CopiesAreCounted DEF Stacked
    <2>4. Is(w, v) \in Nat /\ (w \notin Timed => Is(w, v) = 0)
      BY <1>1 DEF Is
    <2>5. Dues(n, w) = Dues(m, w) + Is(w, v)
      BY <2>1, <2>4 DEF Dues
    <2>6. Copies(n, w) = Copies(m, w) + Is(w, v)
      BY <2>2, <2>3, <2>4, <2>5, CopiesCompared
    <2>7. w \in Timed => m.due[w] \in Nat
      BY DEF MailRecord
    <2> QED BY <2>1, <2>4, <2>6, <2>7, CopiesAreCounted DEF n
  <1>2. CASE v \notin Timed
    <2>1. w \in Timed => m.due[w] \in Nat
      BY DEF MailRecord
    <2> QED BY <1>2, <2>1, CopiesPush DEF Leave
  <1> QED BY <1>1, <1>2

\* A row that is fired adds none.
LEMMA CopiesFire ==
    ASSUME NEW m \in MailRecord, NEW v \in Timed, m.due[v] > 0, NEW w \in Voicemail
    PROVE  /\ Copies(Fire(m, v), w) <= Copies(m, w)
           /\ Fire(m, v).box = m.box
           /\ m.stack \subseteq Fire(m, v).stack
           /\ w \in Timed /\ w # v => Fire(m, v).due[w] = m.due[w]
           /\ \E u \in Fire(m, v).stack : u \in Voicemail /\ CardOf[u] = CardOf[v]
  <1> DEFINE k == [m EXCEPT !.due[v] = m.due[v] - 1]
  <1>1. m.due[v] \in Nat /\ m.due[v] - 1 \in Nat
    BY DEF MailRecord
  <1>2. k \in MailRecord
    BY <1>1, DueIsMail
  <1>3. /\ k.box = m.box /\ k.stack = m.stack
        /\ k.due[v] = m.due[v] - 1
        /\ \A u \in Timed : u # v => k.due[u] = m.due[u]
    BY <1>1 DEF MailRecord
  <1>4. Fire(m, v) = Push(k, v)
    BY DEF Fire
  <1> HIDE DEF k
  <1>5. v \in Voicemail
    BY DEF Voicemail
  <1>6. /\ Copies(Push(k, v), w) <= Copies(k, w) + Is(w, v)
        /\ Push(k, v).box = k.box /\ Push(k, v).due = k.due
        /\ k.stack \subseteq Push(k, v).stack
        /\ \E u \in Push(k, v).stack : u \in Voicemail /\ CardOf[u] = CardOf[v]
    BY <1>2, <1>5, CopiesPush
  <1>7. Len(k.box[w]) = Len(m.box[w]) /\ Stacked(k, w) = Stacked(m, w)
    BY <1>3, CopiesAreCounted DEF Stacked
  <1>8. Dues(m, w) = Dues(k, w) + Is(w, v) /\ Is(w, v) \in Nat
    <2>1. CASE w = v
      BY <1>1, <1>3, <2>1 DEF Dues, Is
    <2>2. CASE w # v
      BY <1>3, <2>2, CopiesAreCounted DEF Dues, Is
    <2> QED BY <2>1, <2>2
  <1>9. Copies(m, w) = Copies(k, w) + Is(w, v)
    BY <1>2, <1>7, <1>8, CopiesCompared
  <1>10. /\ Copies(Push(k, v), w) \in Nat /\ Copies(m, w) \in Nat
         /\ Copies(k, w) \in Nat
    BY <1>2, <1>5, PushIsMail, CopiesAreCounted
  <1>11. Copies(Fire(m, v), w) <= Copies(m, w)
    BY <1>4, <1>6, <1>8, <1>9, <1>10
  <1> QED BY <1>3, <1>4, <1>6, <1>11

\* Taking the stack takes one copy of each entry.
LEMMA CopiesTake ==
    ASSUME NEW m \in MailRecord, NEW w \in Voicemail
    PROVE  /\ Copies(Take(m), w) <= Copies(m, w)
           /\ w \in m.stack => Copies(Take(m), w) < Copies(m, w)
           /\ Take(m).box = m.box /\ Take(m).due = m.due
  <1> DEFINE n == Take(m)
  <1>1. n.box = m.box /\ n.due = m.due /\ n.stack = {}
    BY DEF Take, MailRecord
  <1>2. n \in MailRecord
    BY TakeIsMail
  <1> HIDE DEF n
  <1>3. Len(n.box[w]) = Len(m.box[w]) /\ Dues(n, w) = Dues(m, w)
    BY <1>1, CopiesAreCounted DEF Dues
  <1>4. Stacked(m, w) = Stacked(n, w) + Stacked(m, w)
        /\ Stacked(m, w) \in Nat
    BY <1>1 DEF Stacked
  <1>5. Copies(m, w) = Copies(n, w) + Stacked(m, w)
    BY <1>2, <1>3, <1>4, CopiesCompared
  <1>6. w \in m.stack => Stacked(m, w) = 1
    BY DEF Stacked
  <1>7. Copies(m, w) \in Nat /\ Copies(n, w) \in Nat
    BY <1>2, CopiesAreCounted
  <1> QED BY <1>1, <1>4, <1>5, <1>6, <1>7 DEF n

\* A slot is a copy.
LEMMA CopiesDeliver ==
    ASSUME NEW m \in MailRecord, NEW v \in Voicemail, NEW s \in Status,
           NEW w \in Voicemail
    PROVE  /\ Copies(Deliver(m, v, s), w) = Copies(m, w) + Is(w, v)
           /\ Deliver(m, v, s).stack = m.stack /\ Deliver(m, v, s).due = m.due
           /\ Deliver(m, v, s).box[v] # <<>>
           /\ m.box[w] # <<>> => Deliver(m, v, s).box[w] # <<>>
  <1> DEFINE n == Deliver(m, v, s)
  <1>1. m.box[v] \in Seq(Status) /\ Len(m.box[v]) \in Nat
    BY LenProperties DEF MailRecord
  <1>2. /\ n.stack = m.stack /\ n.due = m.due
        /\ n.box[v] = Append(m.box[v], s)
        /\ w # v => n.box[w] = m.box[w]
    BY DEF Deliver, MailRecord
  <1>3. n \in MailRecord
    BY DeliverIsMail
  <1>4. Len(Append(m.box[v], s)) = Len(m.box[v]) + 1 /\ Append(m.box[v], s) # <<>>
    BY <1>1, AppendProperties
  <1> HIDE DEF n
  <1>5. Len(n.box[w]) = Len(m.box[w]) + Is(w, v) /\ Is(w, v) \in Nat
    <2>1. CASE w = v
      BY <1>2, <1>4, <2>1 DEF Is
    <2>2. CASE w # v
      BY <1>2, <2>2, CopiesAreCounted DEF Is
    <2> QED BY <2>1, <2>2
  <1>6. Stacked(n, w) = Stacked(m, w) /\ Dues(n, w) = Dues(m, w)
    BY <1>2, CopiesAreCounted DEF Stacked, Dues
  <1>7. Copies(n, w) = Copies(m, w) + Is(w, v)
    BY <1>3, <1>5, <1>6, CopiesCompared
  <1> QED BY <1>2, <1>4, <1>7 DEF n

LEMMA CopiesListened ==
    ASSUME NEW m \in MailRecord, NEW v \in Voicemail, NEW w \in Voicemail
    PROVE  /\ Copies(Listened(m, v), w) = Copies(m, w)
           /\ Listened(m, v).stack = m.stack /\ Listened(m, v).due = m.due
           /\ m.box[w] # <<>> => Listened(m, v).box[w] # <<>>
  <1>1. CASE m.box[v] = <<>>
    BY <1>1 DEF Listened
  <1>2. CASE m.box[v] # <<>>
    <2> DEFINE s == [m.box[v] EXCEPT ![1] = "listened"]
               n == [m EXCEPT !.box[v] = s]
    <2>1. Listened(m, v) = n
      BY <1>2 DEF Listened, MailRecord
    <2>2. m.box[v] \in Seq(Status) /\ "listened" \in Status
      BY DEF MailRecord, Status
    <2>3. Len(s) = Len(m.box[v]) /\ s \in Seq(Status) /\ s # <<>>
      BY <1>2, <2>2, ExceptSeq
    <2> HIDE DEF s
    <2>4. /\ n.stack = m.stack /\ n.due = m.due /\ n.box[v] = s
          /\ w # v => n.box[w] = m.box[w]
      BY DEF MailRecord
    <2>5. n \in MailRecord
      BY <2>3, BoxIsMail
    <2> HIDE DEF n
    <2>6. Len(n.box[w]) = Len(m.box[w]) /\ (m.box[w] # <<>> => n.box[w] # <<>>)
      BY <2>3, <2>4
    <2>7. Stacked(n, w) = Stacked(m, w) /\ Dues(n, w) = Dues(m, w)
      BY <2>4 DEF Stacked, Dues
    <2>8. Copies(n, w) = Copies(m, w)
      BY <2>5, <2>6, <2>7, CopiesAreCounted
    <2> QED BY <2>1, <2>4, <2>6, <2>8
  <1> QED BY <1>1, <1>2

-----------------------------------------------------------------------------
(* Voicemails are counted, and the lamp follows *)

\* One function of the user's chain at a time, and only a job that generates
\* has entries in hand.
Chain ==
    /\ \A c, d \in Call : call[c].at \in InChain /\ call[d].at \in InChain => c = d
    /\ \A c \in Call : call[c].hand # {} => call[c].at = "generating" /\ call[c].took

\* As long as the cache was not dropped there is one object, and all hold it.
Unbroken ==
    ~broken => /\ cur = 1 /\ Len(heap) = 1
               /\ \A c \in Call :
                     call[c].at \notin {"idle", "in_call"} => call[c].obj = 1

\* The lamp, once it was told, lags behind only while a job generates.
LampFollows ==
    /\ ~broken /\ lamp # None
    /\ \A c \in Call : call[c].at = "generating" => ~call[c].took
    => lamp = HasUnread(MailOf(cur))

\* A mail has no more copies of a voicemail than its effect was executed.
Bounded(m) == \A v \in Voicemail : Copies(m, v) <= execs[v]

Fits(text) == text # None => Bounded(text.mail)

\* So has everything that can become the profile or its file.
Copied ==
    /\ Fits(file)
    /\ \A q \in Request : Fits(request[q].text)
    /\ \A i \in 1..Len(saves) : Fits(saves[i].text)
    /\ \A g \in 1..Len(heap) : Bounded(heap[g].mail)
    /\ \A c \in Call : \A v \in call[c].hand :
          Copies(MailOf(call[c].obj), v) < execs[v]

Delivery == Chain /\ Unbroken /\ LampFollows /\ Copied

LEMMA EmptyFits == Counted => Bounded(EmptyMail)
  BY CopiesEmpty DEF Counted, Bounded

LEMMA StoredFits ==
    ASSUME Counted, NEW k \in Content, Bounded(k.mail) PROVE Bounded(Stored(k).mail)
  <1>1. [k EXCEPT !.mail = EmptyMail].mail = EmptyMail
    BY DEF Content
  <1>2. Stored(k) = k \/ Stored(k) = [k EXCEPT !.mail = EmptyMail]
    BY DEF Stored
  <1> QED BY <1>1, <1>2, EmptyFits

\* What a change leaves in the heap.
LEMMA Changed ==
    ASSUME StoreOK, NEW g \in 1..Len(heap), NEW m \in MailRecord, Change(g, m)
    PROVE  /\ heap'[g].mail = m /\ Len(heap') = Len(heap)
           /\ \A i \in 1..Len(heap) : i # g => heap'[i] = heap[i]
  <1> DEFINE k == [heap[g] EXCEPT !.mail = m]
  <1>1. heap \in Seq(Content)
    BY DEF StoreOK
  <1>2. heap[g] \in Content
    BY <1>1, ElementOfSeq
  <1>3. k.mail = m /\ k \in Content
    BY <1>2 DEF Content
  <1>4. heap' = [heap EXCEPT ![g] = k]
    BY DEF Change
  <1> HIDE DEF k
  <1> QED BY <1>1, <1>3, <1>4, ExceptSeq

LEMMA HandIsMail ==
    ASSUME MailboxInv, NEW c \in Call PROVE call[c].hand \subseteq Voicemail
  BY DEF MailboxInv, Calls, CallRecord

LEMMA ObjectIsMail ==
    ASSUME MailboxInv, NEW g \in 1..Len(heap) PROVE heap[g].mail \in MailRecord
  <1>1. heap[g] \in Content
    BY ElementOfSeq DEF MailboxInv, StoreInv, StoreOK
  <1> QED BY <1>1, ContentParts

\* A call goes on.
LEMMA ChainKept ==
    ASSUME MailboxInv, Chain, NEW c \in Call, NEW k,
           call' = [call EXCEPT ![c] = k],
           k.at \in InChain => call[c].at \in InChain \/ ChainFree,
           k.hand # {} => k.at = "generating" /\ k.took
    PROVE  Chain'
  <1>1. \A d \in Call : call'[d] = IF d = c THEN k ELSE call[d]
    BY DEF MailboxInv, Calls
  <1>2. ASSUME NEW d \in Call, NEW e \in Call,
               call'[d].at \in InChain, call'[e].at \in InChain
        PROVE  d = e
    <2>1. CASE ChainFree
      BY <1>1, <1>2, <2>1 DEF ChainFree
    <2>2. CASE ~ChainFree
      BY <1>1, <1>2, <2>2 DEF Chain
    <2> QED BY <2>1, <2>2
  <1>3. \A d \in Call :
           call'[d].hand # {} => call'[d].at = "generating" /\ call'[d].took
    BY <1>1 DEF Chain
  <1> QED BY <1>2, <1>3 DEF Chain

LEMMA UnbrokenKept ==
    ASSUME MailboxInv, Unbroken, NEW c \in Call, NEW k,
           call' = [call EXCEPT ![c] = k],
           ~broken /\ k.at \notin {"idle", "in_call"} => k.obj = 1,
           UNCHANGED <<cur, broken>>, Len(heap') = Len(heap)
    PROVE  Unbroken'
  <1>1. \A d \in Call : call'[d] = IF d = c THEN k ELSE call[d]
    BY DEF MailboxInv, Calls
  <1> QED BY <1>1 DEF Unbroken

\* A lamp that nobody touches is as true as it was.
LEMMA LampKept ==
    ASSUME MailboxInv, LampFollows, NEW c \in Call, NEW k,
           call' = [call EXCEPT ![c] = k],
           call[c].at = "generating" /\ call[c].took
             => k.at = "generating" /\ k.took,
           lamp' = lamp, broken' = broken,
           \/ HasUnread(MailOf(cur))' = HasUnread(MailOf(cur))
           \/ k.at = "generating" /\ k.took
    PROVE  LampFollows'
  <1>1. \A d \in Call : call'[d] = IF d = c THEN k ELSE call[d]
    BY DEF MailboxInv, Calls
  <1>2. CASE k.at = "generating" /\ k.took
    BY <1>1, <1>2 DEF LampFollows
  <1>3. CASE ~(k.at = "generating" /\ k.took)
    BY <1>1, <1>3 DEF LampFollows
  <1> QED BY <1>2, <1>3

Raised == /\ execs' \in [Voicemail -> Nat]
          /\ \A v \in Voicemail : execs[v] <= execs'[v]

LEMMA BoundedRaised ==
    ASSUME Counted, Raised, NEW m \in MailRecord, Bounded(m)
    PROVE  \A v \in Voicemail : Copies(m, v) <= execs'[v]
  <1> SUFFICES ASSUME NEW v \in Voicemail PROVE Copies(m, v) <= execs'[v]
    OBVIOUS
  <1>1. Copies(m, v) \in Nat
    BY CopiesAreCounted
  <1>2. execs[v] \in Nat /\ execs'[v] \in Nat /\ execs[v] <= execs'[v]
    BY DEF Counted, Raised
  <1>3. Copies(m, v) <= execs[v]
    BY DEF Bounded
  <1> QED BY <1>1, <1>2, <1>3

LEMMA TextRaised ==
    ASSUME Counted, Raised, NEW text \in Text, Fits(text), text # None
    PROVE  \A v \in Voicemail : Copies(text.mail, v) <= execs'[v]
  <1>1. text.mail \in MailRecord /\ Bounded(text.mail)
    BY ContentParts DEF Text, Fits
  <1> QED BY <1>1, BoundedRaised

\* The file, the requests and the saves stay within what was executed.
LEMMA TextsKept ==
    ASSUME MailboxInv, Copied, Raised, SaveIssued, UNCHANGED <<file, request>>
    PROVE  /\ Fits(file)'
           /\ \A q \in Request : Fits(request[q].text)'
           /\ \A i \in 1..Len(saves') : Fits(saves[i].text)'
  <1>1. Fits(file)'
    BY TextRaised DEF MailboxInv, StoreInv, StoreOK, Copied, Fits, Bounded
  <1>2. ASSUME NEW q \in Request PROVE Fits(request[q].text)'
    <2>1. request[q].text \in Text /\ Fits(request[q].text)
      BY DEF MailboxInv, StoreInv, StoreOK, RequestRecord, Copied
    <2> QED BY <2>1, TextRaised DEF MailboxInv, Fits, Bounded
  <1>3. ASSUME NEW i \in 1..Len(saves) PROVE saves[i].text # None =>
            \A v \in Voicemail : Copies(saves[i].text.mail, v) <= execs'[v]
    <2>1. saves[i].text \in Text /\ Fits(saves[i].text)
      BY SaveParts DEF MailboxInv, StoreInv, Copied
    <2> QED BY <2>1, TextRaised DEF MailboxInv
  <1>4. \/ saves' = saves
        \/ /\ Len(saves') = Len(saves) + 1
           /\ \A i \in 1..Len(saves) : saves'[i] = saves[i]
           /\ saves'[Len(saves) + 1].text = None
    BY IssueAppends DEF MailboxInv, StoreInv
  <1>5. Len(saves) \in Nat
    BY LenProperties DEF MailboxInv, StoreInv, StoreOK
  <1>6. ASSUME NEW i \in 1..Len(saves') PROVE Fits(saves[i].text)'
    <2>1. CASE saves' = saves
      BY <1>3, <2>1 DEF Fits, Bounded
    <2>2. CASE /\ Len(saves') = Len(saves) + 1
               /\ \A j \in 1..Len(saves) : saves'[j] = saves[j]
               /\ saves'[Len(saves) + 1].text = None
      <3>1. i \in 1..Len(saves) \/ i = Len(saves) + 1
        BY <1>5, <2>2
      <3> QED BY <1>3, <2>2, <3>1 DEF Fits, Bounded
    <2> QED BY <1>4, <2>1, <2>2
  <1> QED BY <1>1, <1>2, <1>6

\* The mail of one object changes.
LEMMA CopiedAfter ==
    ASSUME MailboxInv, Copied, Raised, SaveIssued, UNCHANGED <<file, request>>,
           NEW g \in 1..Len(heap), NEW m \in MailRecord, Change(g, m),
           \A v \in Voicemail : Copies(m, v) <= execs'[v],
           \A c \in Call : \A v \in call'[c].hand :
              IF call'[c].obj = g THEN Copies(m, v) < execs'[v]
              ELSE /\ call'[c].obj = call[c].obj /\ call[c].obj \in 1..Len(heap)
                   /\ v \in call[c].hand
    PROVE  Copied'
  <1>1. /\ heap'[g].mail = m /\ Len(heap') = Len(heap)
        /\ \A i \in 1..Len(heap) : i # g => heap'[i] = heap[i]
    BY Changed DEF MailboxInv, StoreInv
  <1>2. ASSUME NEW i \in 1..Len(heap') PROVE Bounded(heap[i].mail)'
    <2>1. CASE i = g
      BY <1>1, <2>1 DEF Bounded
    <2>2. CASE i # g
      <3>1. heap[i].mail \in MailRecord /\ Bounded(heap[i].mail)
        BY <1>1, ObjectIsMail DEF Copied
      <3>2. heap'[i].mail = heap[i].mail
        BY <1>1, <2>2
      <3> QED BY <3>1, <3>2, BoundedRaised DEF Bounded, MailboxInv
    <2> QED BY <2>1, <2>2
  <1>3. ASSUME NEW c \in Call, NEW v \in call'[c].hand
        PROVE  Copies(heap'[call'[c].obj].mail, v) < execs'[v]
    <2>1. CASE call'[c].obj = g
      BY <1>1, <2>1
    <2>2. CASE call'[c].obj # g
      <3>1. /\ call'[c].obj = call[c].obj /\ call[c].obj \in 1..Len(heap)
            /\ v \in call[c].hand
        BY <2>2
      <3>2. heap'[call'[c].obj] = heap[call[c].obj]
        BY <1>1, <2>2, <3>1
      <3>3. v \in Voicemail
        BY <3>1, HandIsMail
      <3>4. Copies(heap[call[c].obj].mail, v) < execs[v]
        BY <3>1 DEF Copied, MailOf
      <3>5. Copies(heap[call[c].obj].mail, v) \in Nat
        BY <3>1, <3>3, ObjectIsMail, CopiesAreCounted
      <3>6. execs[v] \in Nat /\ execs'[v] \in Nat /\ execs[v] <= execs'[v]
        BY <3>3 DEF MailboxInv, Counted, Raised
      <3>7. Copies(heap[call[c].obj].mail, v) < execs'[v]
        BY <3>4, <3>5, <3>6
      <3> QED BY <3>2, <3>7
    <2> QED BY <2>1, <2>2
  <1> QED BY <1>2, <1>3, TextsKept DEF Copied, MailOf

\* No mail changes, and nobody takes anything in hand.
LEMMA CopiedStays ==
    ASSUME MailboxInv, Copied, SaveIssued, UNCHANGED <<file, request, heap, execs>>,
           \A c \in Call : \/ call'[c].hand = {}
                           \/ /\ call'[c].hand = call[c].hand
                              /\ call'[c].obj = call[c].obj
    PROVE  Copied'
  <1>1. Raised
    BY DEF MailboxInv, Counted, Raised
  <1>2. \A i \in 1..Len(heap') : Bounded(heap[i].mail)'
    BY DEF Copied, Bounded
  <1>3. \A c \in Call : \A v \in call'[c].hand :
           Copies(heap'[call'[c].obj].mail, v) < execs'[v]
    BY DEF Copied, MailOf
  <1> QED BY <1>1, <1>2, <1>3, TextsKept DEF Copied, MailOf

\* Who does not generate has nothing in hand.
LEMMA EmptyHands ==
    ASSUME Delivery, NEW c \in Call, call[c].at # "generating"
    PROVE  call[c].hand = {}
  BY DEF Delivery, Chain

LEMMA SoleHand ==
    ASSUME Delivery, NEW c \in Call, NEW d \in Call, c # d,
           ChainFree \/ call[c].at \in InChain
    PROVE  call[d].hand = {} /\ call[d].at # "generating"
  BY DEF Delivery, Chain, ChainFree, InChain

LEMMA HandHasObject ==
    ASSUME MailboxInv, Delivery, NEW c \in Call, NEW v \in call[c].hand
    PROVE  call[c].obj \in 1..Len(heap) /\ v \in Voicemail
  BY HandIsMail DEF MailboxInv, Calls, Holding, Delivery, Chain

\* The unbroken object.
LEMMA OneObject ==
    ASSUME Delivery, ~broken, NEW c \in Call,
           call[c].at \notin {"idle", "in_call"}
    PROVE  call[c].obj = 1 /\ cur = 1
  BY DEF Delivery, Unbroken

LEMMA UnreadChange ==
    ASSUME MailboxInv, Delivery, NEW g \in 1..Len(heap), NEW m \in MailRecord,
           Change(g, m), cur' = cur, ~broken => g = 1, ~broken
    PROVE  HasUnread(MailOf(cur))' = HasUnread(m)
  <1>1. heap'[g].mail = m /\ cur' = 1 /\ g = 1
    BY Changed DEF MailboxInv, StoreInv, Delivery, Unbroken
  <1> QED BY <1>1 DEF MailOf

LEMMA SameBoxUnread ==
    ASSUME NEW m, NEW n, m.box = n.box PROVE HasUnread(m) = HasUnread(n)
  BY DEF HasUnread

LEMMA InitDelivers == Init => Delivery
  <1> SUFFICES ASSUME Init PROVE Delivery
    OBVIOUS
  <1>1. \A c \in Call : call[c].at = "idle" /\ call[c].hand = {}
    BY DEF Init, NoCall
  <1>2. Chain /\ LampFollows
    BY <1>1 DEF Chain, InChain, LampFollows, Init
  <1>3. Unbroken
    BY <1>1 DEF Unbroken, Init, StoreInit
  <1>4. MailboxInv /\ Bounded(EmptyMail)
    BY InitMailbox, EmptyFits DEF MailboxInv
  <1>5. file.mail = EmptyMail /\ heap[1].mail = EmptyMail /\ Len(heap) = 1
    BY DEF Init, StoreInit, NewContent
  <1>6. /\ \A q \in Request : request[q].text = None
        /\ Len(saves) = 0
    BY DEF Init, StoreInit
  <1>7. \A g \in 1..Len(heap) : heap[g].mail = EmptyMail
    BY <1>5
  <1>8. Copied
    BY <1>1, <1>4, <1>5, <1>6, <1>7 DEF Copied, Fits
  <1> QED BY <1>2, <1>3, <1>8 DEF Delivery

LEMMA TickDelivers ==
    ASSUME MailboxInv, Delivery, NEW v \in Timed, Tick(v) PROVE Delivery'
  <1> DEFINE m == MailOf(cur)
             n == Fire(m, v)
  <1>1. cur \in 1..Len(heap)
    BY HeapLength DEF MailboxInv, StoreInv, Tick
  <1>2. m \in MailRecord /\ m.due[v] > 0 /\ Bounded(m)
    BY <1>1, ObjectIsMail DEF MailOf, Tick, Delivery, Copied
  <1>3. n \in MailRecord /\ n.box = m.box
    BY <1>2, FireIsMail, CopiesFire DEF Voicemail
  <1>4. \A w \in Voicemail : Copies(n, w) <= Copies(m, w)
    BY <1>2, CopiesFire
  <1>5. /\ Change(cur, n) /\ UNCHANGED <<file, cur, request, broken>>
        /\ saves' = saves /\ UNCHANGED <<call, lamp, execs>>
    BY DEF Tick, Stays
  <1>6. HasUnread(n) = HasUnread(m)
    BY <1>3, SameBoxUnread
  <1>7. \A w \in Voicemail : /\ Copies(n, w) \in Nat /\ Copies(m, w) \in Nat
                             /\ execs[w] \in Nat
    BY <1>2, <1>3, CopiesAreCounted DEF MailboxInv, Counted
  <1>8. m = heap[cur].mail
    BY DEF MailOf
  <1> HIDE DEF m, n
  <1>9. /\ heap'[cur].mail = n /\ Len(heap') = Len(heap)
        /\ \A i \in 1..Len(heap) : i # cur => heap'[i] = heap[i]
    BY <1>1, <1>3, <1>5, Changed DEF MailboxInv, StoreInv
  <1>10. Chain' /\ Unbroken'
    BY <1>5, <1>9 DEF Delivery, Chain, Unbroken
  <1>11. HasUnread(MailOf(cur))' = HasUnread(MailOf(cur))
    BY <1>5, <1>6, <1>8, <1>9 DEF MailOf
  <1>12. LampFollows'
    BY <1>5, <1>11 DEF Delivery, LampFollows
  <1>13. Raised /\ SaveIssued
    BY <1>5 DEF MailboxInv, Counted, Raised, SaveIssued
  <1>14. \A w \in Voicemail : Copies(n, w) <= execs'[w]
    BY <1>2, <1>4, <1>5, <1>7 DEF Bounded
  <1>15. ASSUME NEW c \in Call, NEW w \in call'[c].hand
         PROVE  IF call'[c].obj = cur THEN Copies(n, w) < execs'[w]
                ELSE /\ call'[c].obj = call[c].obj /\ call[c].obj \in 1..Len(heap)
                     /\ w \in call[c].hand
    <2>1. w \in call[c].hand /\ call[c].obj \in 1..Len(heap) /\ w \in Voicemail
      BY <1>5, HandHasObject
    <2>2. Copies(heap[call[c].obj].mail, w) < execs[w]
      BY <2>1 DEF Delivery, Copied, MailOf
    <2>3. CASE call[c].obj = cur
      BY <1>4, <1>5, <1>7, <1>8, <2>1, <2>2, <2>3
    <2>4. CASE call[c].obj # cur
      BY <1>5, <2>1, <2>4
    <2> QED BY <2>3, <2>4
  <1>16. Copied'
    BY <1>1, <1>3, <1>5, <1>13, <1>14, <1>15, CopiedAfter DEF Delivery
  <1> QED BY <1>10, <1>12, <1>16 DEF Delivery

\* A call begins or goes on, and no mail changes.
LEMMA CallGoesOn ==
    ASSUME MailboxInv, Delivery, NEW c \in Call, NEW k,
           call' = [call EXCEPT ![c] = k],
           call[c].at # "generating", k.hand = {}, k.at # "generating",
           k.at \in InChain => call[c].at \in InChain,
           \/ k.at \in {"idle", "in_call"}
           \/ k.obj = cur
           \/ k.obj = call[c].obj /\ call[c].at \notin {"idle", "in_call"},
           SaveIssued, UNCHANGED <<file, heap, cur, request, broken, lamp, execs>>
    PROVE  Delivery'
  <1>1. Chain'
    BY ChainKept DEF Delivery
  <1>2. ~broken /\ k.at \notin {"idle", "in_call"} => k.obj = 1
    BY DEF Delivery, Unbroken
  <1>3. Unbroken'
    BY <1>2, UnbrokenKept DEF Delivery
  <1>4. HasUnread(MailOf(cur))' = HasUnread(MailOf(cur))
    BY DEF MailOf, HasUnread
  <1>5. LampFollows'
    BY <1>4, LampKept DEF Delivery
  <1>6. \A d \in Call : call'[d] = IF d = c THEN k ELSE call[d]
    BY DEF MailboxInv, Calls
  <1>7. \A d \in Call : \/ call'[d].hand = {}
                        \/ /\ call'[d].hand = call[d].hand
                           /\ call'[d].obj = call[d].obj
    BY <1>6
  <1>8. Copied'
    BY <1>7, CopiedStays DEF Delivery
  <1> QED BY <1>1, <1>3, <1>5, <1>8 DEF Delivery

LEMMA BeginCallDelivers ==
    ASSUME MailboxInv, Delivery, NEW c \in Call, NEW a \in Agent,
           NEW v \in Voicemail \cup {None}, BeginCall(c, a, v)
    PROVE  Delivery'
  <1> DEFINE k == [NoCall EXCEPT !.at = "in_call", !.agent = a, !.opened = v]
  <1>1. k.hand = {} /\ k.at = "in_call"
    BY DEF NoCall
  <1>2. call' = [call EXCEPT ![c] = k] /\ call[c].at = "idle"
    BY DEF BeginCall
  <1>3. UNCHANGED storeVars /\ UNCHANGED <<lamp, execs>>
    BY DEF BeginCall
  <1>4. SaveIssued /\ UNCHANGED <<file, heap, cur, request, broken, lamp, execs>>
    BY <1>3 DEF SaveIssued, storeVars
  <1> HIDE DEF k
  <1> QED BY <1>1, <1>2, <1>4, CallGoesOn DEF InChain

LEMMA EndCallDelivers ==
    ASSUME MailboxInv, Delivery, NEW c \in Call, NEW next \in {"queued", "aborting"},
           EndCall(c, next)
    PROVE  Delivery'
  <1> DEFINE k == [call[c] EXCEPT !.at = next, !.obj = cur]
  <1>1. call[c] \in CallRecord /\ call[c].at = "in_call"
    BY DEF MailboxInv, Calls, EndCall
  <1>2. call[c].hand = {}
    BY <1>1, EmptyHands
  <1>3. k.hand = {} /\ k.at = next /\ k.obj = cur
    BY <1>1, <1>2 DEF CallRecord
  <1>4. call' = [call EXCEPT ![c] = k]
    BY DEF EndCall, MailboxInv, Calls
  <1>5. UNCHANGED storeVars /\ UNCHANGED <<lamp, execs>>
    BY DEF EndCall
  <1>6. SaveIssued /\ UNCHANGED <<file, heap, cur, request, broken, lamp, execs>>
    BY <1>5 DEF SaveIssued, storeVars
  <1> HIDE DEF k
  <1> QED BY <1>1, <1>3, <1>4, <1>6, CallGoesOn DEF InChain

LEMMA CallSavedDelivers ==
    ASSUME MailboxInv, Delivery, NEW c \in Call, NEW committed \in BOOLEAN,
           CallSaved(c, committed)
    PROVE  Delivery'
  <1> DEFINE job == [NoCall EXCEPT !.at = "job", !.agent = call[c].agent,
                                   !.obj = cur]
  <1>0. /\ job.hand = {} /\ job.at = "job" /\ job.obj = cur
        /\ NoCall.hand = {} /\ NoCall.at = "idle"
    BY DEF NoCall
  <1>1. PICK k : /\ call' = [call EXCEPT ![c] = k]
                 /\ k = job \/ k = NoCall
    BY DEF CallSaved
  <1> HIDE DEF job
  <1>2. k.hand = {} /\ (k.at = "idle" \/ (k.at = "job" /\ k.obj = cur))
    BY <1>0, <1>1
  <1>3. UNCHANGED storeVars /\ UNCHANGED <<lamp, execs>>
    BY DEF CallSaved
  <1>4. SaveIssued /\ UNCHANGED <<file, heap, cur, request, broken, lamp, execs>>
    BY <1>3 DEF SaveIssued, storeVars
  <1>5. call[c].at # "generating"
    BY DEF CallSaved
  <1> QED BY <1>1, <1>2, <1>4, <1>5, CallGoesOn DEF InChain

LEMMA SavedCall ==
    ASSUME MailboxInv, NEW c \in Call, NEW at, call[c].hand = {},
           Saves(c, [call[c] EXCEPT !.at = at])
    PROVE  \E k : /\ call' = [call EXCEPT ![c] = k]
                  /\ k.hand = {}
                  /\ \/ k.at = at /\ k.obj = call[c].obj
                     \/ k.at = "idle"
  <1> DEFINE k == [call[c] EXCEPT !.at = at]
  <1>1. call[c] \in CallRecord
    BY DEF MailboxInv, Calls
  <1>2. k.at = at /\ k.obj = call[c].obj /\ k.hand = {}
    BY <1>1 DEF CallRecord
  <1>3. NoCall.at = "idle" /\ NoCall.hand = {}
    BY DEF NoCall
  <1>4. \/ call' = [call EXCEPT ![c] = k]
        \/ call' = [call EXCEPT ![c] = NoCall]
    BY DEF Saves
  <1> HIDE DEF k
  <1> QED BY <1>2, <1>3, <1>4

LEMMA PhaseSavesDelivers ==
    ASSUME MailboxInv, Delivery, NEW c \in Call, PhaseSaves(c) PROVE Delivery'
  <1>1. call[c].at = "noted" /\ Saves(c, [call[c] EXCEPT !.at = "jobsave"])
    BY DEF PhaseSaves
  <1>2. call[c].hand = {}
    BY <1>1, EmptyHands
  <1>3. PICK k : /\ call' = [call EXCEPT ![c] = k]
                 /\ k.hand = {}
                 /\ \/ k.at = "jobsave" /\ k.obj = call[c].obj
                    \/ k.at = "idle"
    BY <1>1, <1>2, SavedCall
  <1>4. SaveIssued
    BY <1>1, SaverIssues DEF Saves
  <1>5. UNCHANGED <<file, heap, cur, request, broken, lamp, execs>>
    BY DEF PhaseSaves, Stays
  <1> QED BY <1>1, <1>3, <1>4, <1>5, CallGoesOn DEF InChain

LEMMA PhaseOverDelivers ==
    ASSUME MailboxInv, Delivery, NEW c \in Call, PhaseOver(c) PROVE Delivery'
  <1> DEFINE k == NoCall
  <1>1. k.hand = {} /\ k.at = "idle"
    BY DEF NoCall
  <1>2. call' = [call EXCEPT ![c] = k] /\ call[c].at = "jobsave"
    BY DEF PhaseOver
  <1>3. UNCHANGED storeVars /\ UNCHANGED <<lamp, execs>>
    BY DEF PhaseOver
  <1>4. SaveIssued /\ UNCHANGED <<file, heap, cur, request, broken, lamp, execs>>
    BY <1>3 DEF SaveIssued, storeVars
  <1> HIDE DEF k
  <1> QED BY <1>1, <1>2, <1>4, CallGoesOn DEF InChain

\* The lamp is told of what a hang-up changes, also beside a job.
LEMMA LampMoves ==
    ASSUME MailboxInv, Delivery, NEW c \in Call, NEW k,
           call' = [call EXCEPT ![c] = k],
           call[c].at \notin {"idle", "in_call", "generating"},
           k.at # "generating",
           NEW before \in MailRecord, NEW after \in MailRecord,
           before.box = MailOf(call[c].obj).box,
           Change(call[c].obj, after), Lamp(before, after),
           UNCHANGED <<cur, broken>>
    PROVE  LampFollows'
  <1> SUFFICES ASSUME ~broken, lamp' # None,
                      \A d \in Call : call'[d].at = "generating" => ~call'[d].took
               PROVE  lamp' = HasUnread(MailOf(cur))'
    BY DEF LampFollows
  <1>1. call[c].obj = 1 /\ cur = 1 /\ call[c].obj \in 1..Len(heap)
    BY OneObject, HoldsContent
  <1>2. HasUnread(MailOf(cur))' = HasUnread(after)
    BY <1>1, UnreadChange
  <1>3. \A d \in Call : call[d].at = "generating" => ~call[d].took
    <2>1. \A d \in Call : call'[d] = IF d = c THEN k ELSE call[d]
      BY DEF MailboxInv, Calls
    <2> QED BY <2>1
  <1>4. HasUnread(before) = HasUnread(MailOf(cur))
    BY <1>1, SameBoxUnread
  <1>5. CASE HasUnread(before) = HasUnread(after)
    BY <1>2, <1>3, <1>4, <1>5 DEF Lamp, Delivery, LampFollows
  <1>6. CASE HasUnread(before) # HasUnread(after)
    BY <1>2, <1>6 DEF Lamp
  <1> QED BY <1>5, <1>6

LEMMA HeardCopies ==
    ASSUME MailboxInv, NEW c \in Call, NEW m \in MailRecord,
           NEW heard \in BOOLEAN, heard => call[c].opened # None
    PROVE  /\ \A w \in Voicemail : Copies(Heard(c, m, heard), w) = Copies(m, w)
           /\ Heard(c, m, heard).stack = m.stack /\ Heard(c, m, heard).due = m.due
           /\ \A w \in Voicemail :
                 m.box[w] # <<>> => Heard(c, m, heard).box[w] # <<>>
  <1>1. heard => call[c].opened \in Voicemail
    BY DEF MailboxInv, Calls, CallRecord
  <1>2. CASE heard
    <2>1. PICK v \in Voicemail : Heard(c, m, heard) = Listened(m, v)
      BY <1>1, <1>2 DEF Heard
    <2>2. ASSUME NEW w \in Voicemail
          PROVE  /\ Copies(Listened(m, v), w) = Copies(m, w)
                 /\ m.box[w] # <<>> => Listened(m, v).box[w] # <<>>
      BY CopiesListened
    <2>3. Listened(m, v).stack = m.stack /\ Listened(m, v).due = m.due
      BY CopiesListened
    <2> QED BY <2>1, <2>2, <2>3
  <1>3. CASE ~heard
    BY <1>3 DEF Heard
  <1> QED BY <1>2, <1>3

LEMMA RunEffectsDelivers ==
    ASSUME MailboxInv, Delivery, NEW c \in Call, NEW v \in Voicemail \cup {None},
           NEW heard \in BOOLEAN, RunEffects(c, v, heard)
    PROVE  Delivery'
  <1> DEFINE m == MailOf(call[c].obj)
             left == IF v = None THEN m ELSE Leave(m, v)
             after == Heard(c, left, heard)
  <1>1. call[c].at = "queued" /\ ChainFree
    BY DEF RunEffects
  <1>2. call[c].obj \in 1..Len(heap) /\ m \in MailRecord
    BY <1>1, HoldsContent
  <1>3. left \in MailRecord /\ left.box = m.box
    BY <1>2, LeaveIsMail, CopiesLeave
  <1>4. heard => call[c].opened # None
    BY DEF RunEffects
  <1>5. after \in MailRecord /\ \A w \in Voicemail : Copies(after, w) = Copies(left, w)
    <2> HIDE DEF left
    <2> QED BY <1>3, <1>4, HeardIsMail, HeardCopies
  <1>6. Change(call[c].obj, after) /\ Lamp(left, after)
    BY DEF RunEffects
  <1>7. Saves(c, [call[c] EXCEPT !.at = "saving"])
    BY DEF RunEffects
  <1>8. UNCHANGED <<file, cur, request, kept, broken, crashes>>
    BY DEF RunEffects, Stays
  <1>9. /\ execs' = [w \in Voicemail |-> execs[w] + Is(w, v)]
        /\ \A w \in Voicemail : execs[w] \in Nat /\ Is(w, v) \in Nat
    BY DEF RunEffects, Is, MailboxInv, Counted
  <1>10. Raised
    BY <1>9 DEF Raised
  <1>11. ASSUME NEW w \in Voicemail PROVE Copies(after, w) <= execs'[w]
    <2>1. Copies(m, w) <= execs[w]
      BY <1>2 DEF Delivery, Copied, Bounded, MailOf
    <2>2. Copies(left, w) <= Copies(m, w) + Is(w, v)
      <3>1. CASE v = None
        <4>1. left = m /\ Is(w, v) = 0
          BY <3>1, MailboxAssumption DEF Is
        <4>2. Copies(m, w) \in Nat
          BY <1>2, CopiesAreCounted
        <4> QED BY <4>1, <4>2
      <3>2. CASE v # None
        BY <1>2, <3>2, CopiesLeave
      <3> QED BY <3>1, <3>2
    <2>3. Copies(left, w) \in Nat /\ Copies(m, w) \in Nat
      <3> HIDE DEF left, m
      <3> QED BY <1>2, <1>3, CopiesAreCounted
    <2>4. Copies(after, w) = Copies(left, w)
      BY <1>5
    <2>5. execs'[w] = execs[w] + Is(w, v) /\ execs[w] \in Nat /\ Is(w, v) \in Nat
      BY <1>9
    <2> HIDE DEF after, left, m
    <2> QED BY <2>1, <2>2, <2>3, <2>4, <2>5
  <1> HIDE DEF m, left, after
  <1>12. call[c].hand = {}
    BY <1>1, EmptyHands
  <1>13. PICK k : /\ call' = [call EXCEPT ![c] = k]
                  /\ k.hand = {}
                  /\ \/ k.at = "saving" /\ k.obj = call[c].obj
                     \/ k.at = "idle"
    BY <1>7, <1>12, SavedCall
  <1>14. \A d \in Call : call'[d] = IF d = c THEN k ELSE call[d]
    BY <1>13 DEF MailboxInv, Calls
  <1>15. \A d \in Call : call'[d].hand = {}
    BY <1>1, <1>13, <1>14, SoleHand
  <1>16. Chain'
    BY <1>1, <1>13, ChainKept DEF Delivery
  <1>17. Len(heap') = Len(heap)
    BY <1>2, <1>5, <1>6, Changed DEF MailboxInv, StoreInv
  <1>18. ~broken /\ k.at \notin {"idle", "in_call"} => k.obj = 1
    BY <1>1, <1>13, OneObject
  <1>19. Unbroken'
    BY <1>8, <1>13, <1>17, <1>18, UnbrokenKept DEF Delivery
  <1>20. LampFollows'
    <2>1. left.box = MailOf(call[c].obj).box
      BY <1>3 DEF m
    <2> QED BY <1>1, <1>3, <1>5, <1>6, <1>8, <1>13, <2>1, LampMoves
  <1>21. SaveIssued
    BY <1>7, SaverIssues DEF Saves
  <1>22. Copied'
    BY <1>2, <1>5, <1>6, <1>8, <1>10, <1>11, <1>15, <1>21, CopiedAfter DEF Delivery
  <1> QED BY <1>16, <1>19, <1>20, <1>22 DEF Delivery

LEMMA AbortCallDelivers ==
    ASSUME MailboxInv, Delivery, NEW c \in Call, NEW heard \in BOOLEAN,
           AbortCall(c, heard)
    PROVE  Delivery'
  <1> DEFINE m == MailOf(call[c].obj)
             after == Heard(c, m, heard)
  <1>1. call[c].at = "aborting"
    BY DEF AbortCall
  <1>2. call[c].obj \in 1..Len(heap) /\ m \in MailRecord
    BY <1>1, HoldsContent
  <1>3. heard => call[c].opened # None
    BY DEF AbortCall
  <1>4. after \in MailRecord /\ \A w \in Voicemail : Copies(after, w) = Copies(m, w)
    <2> HIDE DEF m
    <2> QED BY <1>2, <1>3, HeardIsMail, HeardCopies
  <1>5. Change(call[c].obj, after) /\ Lamp(m, after)
    BY DEF AbortCall
  <1>6. Saves(c, [call[c] EXCEPT !.at = "abort_save"])
    BY DEF AbortCall
  <1>7. /\ UNCHANGED <<file, cur, request, kept, broken, crashes>>
        /\ UNCHANGED execs
    BY DEF AbortCall, Stays
  <1>8. Raised
    BY <1>7 DEF Raised, MailboxInv, Counted
  <1>9. m = heap[call[c].obj].mail
    BY DEF MailOf
  <1> HIDE DEF m, after
  <1>10. \A w \in Voicemail : Copies(after, w) <= execs'[w]
    BY <1>2, <1>4, <1>7, <1>9 DEF Delivery, Copied, Bounded
  <1>11. call[c].hand = {}
    BY <1>1, EmptyHands
  <1>12. PICK k : /\ call' = [call EXCEPT ![c] = k]
                  /\ k.hand = {}
                  /\ \/ k.at = "abort_save" /\ k.obj = call[c].obj
                     \/ k.at = "idle"
    BY <1>6, <1>11, SavedCall
  <1>13. \A d \in Call : call'[d] = IF d = c THEN k ELSE call[d]
    BY <1>12 DEF MailboxInv, Calls
  <1>14. k.at \notin InChain /\ k.at # "generating"
    BY <1>12 DEF InChain
  <1>15. Chain'
    BY <1>12, <1>14, ChainKept DEF Delivery
  <1>16. Len(heap') = Len(heap)
    BY <1>2, <1>4, <1>5, Changed DEF MailboxInv, StoreInv
  <1>17. ~broken /\ k.at \notin {"idle", "in_call"} => k.obj = 1
    BY <1>1, <1>12, OneObject
  <1>18. Unbroken'
    BY <1>7, <1>12, <1>16, <1>17, UnbrokenKept DEF Delivery
  <1>19. LampFollows'
    <2>1. m.box = MailOf(call[c].obj).box
      BY DEF m
    <2> QED BY <1>1, <1>2, <1>4, <1>5, <1>7, <1>12, <1>14, <2>1, LampMoves
  <1>20. SaveIssued
    BY <1>6, SaverIssues DEF Saves
  <1>21. ASSUME NEW d \in Call, NEW w \in call'[d].hand
         PROVE  IF call'[d].obj = call[c].obj THEN Copies(after, w) < execs'[w]
                ELSE /\ call'[d].obj = call[d].obj /\ call[d].obj \in 1..Len(heap)
                     /\ w \in call[d].hand
    <2>1. call'[d] = call[d]
      BY <1>12, <1>13, <1>21
    <2>2. call[d].obj \in 1..Len(heap) /\ w \in Voicemail
      BY <1>21, <2>1, HandHasObject
    <2>3. Copies(heap[call[d].obj].mail, w) < execs[w]
      BY <1>21, <2>1 DEF Delivery, Copied, MailOf
    <2> QED BY <1>4, <1>7, <1>9, <1>21, <2>1, <2>2, <2>3
  <1>22. Copied'
    BY <1>2, <1>4, <1>5, <1>7, <1>8, <1>10, <1>20, <1>21, CopiedAfter DEF Delivery
  <1> QED BY <1>15, <1>18, <1>19, <1>22 DEF Delivery

\* The entries go from the stack to the job's hand.
LEMMA TakesDelivers ==
    ASSUME MailboxInv, Delivery, NEW c \in Call, Takes(c) PROVE Delivery'
  <1> DEFINE m == MailOf(call[c].obj)
             n == Take(m)
             k == [call[c] EXCEPT !.at = "generating", !.hand = m.stack,
                                  !.took = m.stack # {}]
  <1>1. call[c].at = "job" /\ ChainFree
    BY DEF Takes
  <1>2. call[c].obj \in 1..Len(heap) /\ m \in MailRecord
    BY <1>1, HoldsContent
  <1>3. /\ n \in MailRecord /\ n.box = m.box
        /\ m.stack \in SUBSET Voicemail
    BY <1>2, TakeIsMail, CopiesTake DEF MailRecord, Take
  <1>4. /\ Change(call[c].obj, n)
        /\ UNCHANGED <<file, cur, request, kept, broken, crashes>>
        /\ saves' = saves /\ UNCHANGED <<lamp, execs>>
    BY DEF Takes, Stays
  <1>5. call' = [call EXCEPT ![c] = k]
    BY DEF Takes
  <1>6. call[c] \in CallRecord
    BY DEF MailboxInv, Calls
  <1>7. /\ k.at = "generating" /\ k.hand = m.stack /\ k.obj = call[c].obj
        /\ k.took = (m.stack # {})
    <2> HIDE DEF m
    <2> QED BY <1>6 DEF CallRecord
  <1>8. m = heap[call[c].obj].mail
    BY DEF MailOf
  <1>9. \A w \in Voicemail : /\ Copies(n, w) <= Copies(m, w)
                             /\ w \in m.stack => Copies(n, w) < Copies(m, w)
                             /\ Copies(n, w) \in Nat /\ Copies(m, w) \in Nat
                             /\ execs[w] \in Nat /\ Copies(m, w) <= execs[w]
    <2>1. ASSUME NEW w \in Voicemail
          PROVE  /\ Copies(n, w) <= Copies(m, w)
                 /\ w \in m.stack => Copies(n, w) < Copies(m, w)
      <3> HIDE DEF m
      <3> QED BY <1>2, CopiesTake
    <2>2. \A w \in Voicemail : Copies(n, w) \in Nat /\ Copies(m, w) \in Nat
      <3> HIDE DEF m, n
      <3> QED BY <1>2, <1>3, CopiesAreCounted
    <2>3. \A w \in Voicemail : execs[w] \in Nat /\ Copies(m, w) <= execs[w]
      BY <1>2 DEF Delivery, Copied, Bounded, MailOf, MailboxInv, Counted
    <2> QED BY <2>1, <2>2, <2>3
  <1> HIDE DEF m, n, k
  <1>10. \A d \in Call : call'[d] = IF d = c THEN k ELSE call[d]
    BY <1>5 DEF MailboxInv, Calls
  <1>11. Chain'
    BY <1>1, <1>5, <1>7, ChainKept DEF Delivery
  <1>12. Len(heap') = Len(heap)
    BY <1>2, <1>3, <1>4, Changed DEF MailboxInv, StoreInv
  <1>13. ~broken => k.obj = 1
    BY <1>1, <1>7, OneObject
  <1>14. Unbroken'
    BY <1>4, <1>5, <1>12, <1>13, UnbrokenKept DEF Delivery
  <1>15. LampFollows'
    <2>1. CASE broken
      BY <1>4, <2>1 DEF LampFollows
    <2>2. CASE ~broken
      <3>1. call[c].obj = 1 /\ cur = 1
        BY <1>1, <2>2, OneObject
      <3>2. HasUnread(MailOf(cur))' = HasUnread(n)
        BY <1>2, <1>3, <1>4, <2>2, <3>1, UnreadChange
      <3>3. HasUnread(n) = HasUnread(MailOf(cur))
        BY <1>3, <1>8, <3>1, SameBoxUnread DEF MailOf
      <3>4. call[c].at # "generating"
        BY <1>1
      <3> QED BY <1>4, <1>5, <3>2, <3>3, <3>4, LampKept DEF Delivery
    <2> QED BY <2>1, <2>2
  <1>16. Raised /\ SaveIssued
    BY <1>4 DEF Raised, MailboxInv, Counted, SaveIssued
  <1>17. \A w \in Voicemail : Copies(n, w) <= execs'[w]
    BY <1>4, <1>9
  <1>18. ASSUME NEW d \in Call, NEW w \in call'[d].hand
         PROVE  IF call'[d].obj = call[c].obj THEN Copies(n, w) < execs'[w]
                ELSE /\ call'[d].obj = call[d].obj /\ call[d].obj \in 1..Len(heap)
                     /\ w \in call[d].hand
    <2>1. d = c
      BY <1>1, <1>10, <1>18, SoleHand
    <2>2. w \in m.stack /\ w \in Voicemail /\ call'[d].obj = call[c].obj
      BY <1>3, <1>7, <1>10, <1>18, <2>1
    <2> QED BY <1>4, <1>9, <2>2
  <1>19. Copied'
    BY <1>2, <1>3, <1>4, <1>16, <1>17, <1>18, CopiedAfter DEF Delivery
  <1> QED BY <1>11, <1>14, <1>15, <1>19 DEF Delivery

\* A slot is made of an entry in hand.
LEMMA GenerateDelivers ==
    ASSUME MailboxInv, Delivery, NEW c \in Call, NEW v \in Voicemail,
           NEW s \in {"unread", "generate_failed"}, Generate(c, v, s)
    PROVE  Delivery'
  <1> DEFINE m == MailOf(call[c].obj)
             n == Deliver(m, v, s)
             k == [call[c] EXCEPT !.hand = @ \ {v}]
  <1>1. call[c].at = "generating" /\ v \in call[c].hand /\ call[c].took
    BY DEF Generate, Delivery, Chain
  <1>2. call[c].obj \in 1..Len(heap) /\ m \in MailRecord
    BY <1>1, HoldsContent
  <1>3. n \in MailRecord
    BY <1>2, DeliverIsMail DEF Status
  <1>4. /\ Change(call[c].obj, n)
        /\ UNCHANGED <<file, cur, request, kept, broken, crashes>>
        /\ saves' = saves /\ UNCHANGED <<lamp, execs>>
    BY DEF Generate, Stays
  <1>5. call' = [call EXCEPT ![c] = k]
    BY DEF Generate
  <1>6. call[c] \in CallRecord
    BY DEF MailboxInv, Calls
  <1>7. /\ k.at = "generating" /\ k.hand = call[c].hand \ {v}
        /\ k.obj = call[c].obj /\ k.took
    BY <1>1, <1>6 DEF CallRecord
  <1>8. m = heap[call[c].obj].mail
    BY DEF MailOf
  <1>9. ASSUME NEW w \in Voicemail
        PROVE  /\ Copies(n, w) <= execs[w]
               /\ w \in call[c].hand \ {v} => Copies(n, w) < execs[w]
    <2>1. Copies(n, w) = Copies(m, w) + Is(w, v)
      <3> HIDE DEF m
      <3> QED BY <1>2, CopiesDeliver DEF Status
    <2>2. Copies(m, w) \in Nat /\ execs[w] \in Nat
      <3> HIDE DEF m
      <3> QED BY <1>2, CopiesAreCounted DEF MailboxInv, Counted
    <2>3. Copies(m, w) <= execs[w]
      BY <1>2 DEF Delivery, Copied, Bounded, MailOf
    <2>4. w \in call[c].hand => Copies(m, w) < execs[w]
      BY DEF Delivery, Copied
    <2>5. w # v => Is(w, v) = 0
      BY DEF Is
    <2>6. w = v => Is(w, v) = 1
      BY DEF Is
    <2> HIDE DEF m, n
    <2> QED BY <1>1, <2>1, <2>2, <2>3, <2>4, <2>5, <2>6
  <1> HIDE DEF m, n, k
  <1>10. \A d \in Call : call'[d] = IF d = c THEN k ELSE call[d]
    BY <1>5 DEF MailboxInv, Calls
  <1>11. Chain'
    BY <1>1, <1>5, <1>7, ChainKept DEF Delivery, InChain
  <1>12. Len(heap') = Len(heap)
    BY <1>2, <1>3, <1>4, Changed DEF MailboxInv, StoreInv
  <1>13. ~broken => k.obj = 1
    BY <1>1, <1>7, OneObject
  <1>14. Unbroken'
    BY <1>4, <1>5, <1>12, <1>13, UnbrokenKept DEF Delivery
  <1>15. LampFollows'
    BY <1>4, <1>5, <1>7, LampKept DEF Delivery
  <1>16. Raised /\ SaveIssued
    BY <1>4 DEF Raised, MailboxInv, Counted, SaveIssued
  <1>17. \A w \in Voicemail : Copies(n, w) <= execs'[w]
    BY <1>4, <1>9
  <1>18. ASSUME NEW d \in Call, NEW w \in call'[d].hand
         PROVE  IF call'[d].obj = call[c].obj THEN Copies(n, w) < execs'[w]
                ELSE /\ call'[d].obj = call[d].obj /\ call[d].obj \in 1..Len(heap)
                     /\ w \in call[d].hand
    <2>1. call[c].at \in InChain
      BY <1>1 DEF InChain
    <2>2. d = c
      BY <1>10, <1>18, <2>1, SoleHand
    <2>3. w \in call[c].hand \ {v} /\ call'[d].obj = call[c].obj
      BY <1>7, <1>10, <1>18, <2>2
    <2>4. w \in Voicemail
      BY <2>3, HandIsMail
    <2> QED BY <1>4, <1>9, <2>3, <2>4
  <1>19. Copied'
    BY <1>2, <1>3, <1>4, <1>16, <1>17, <1>18, CopiedAfter DEF Delivery
  <1> QED BY <1>11, <1>14, <1>15, <1>19 DEF Delivery

\* The job that has delivered tells the lamp what is in the mailbox.
LEMMA NotesDelivers ==
    ASSUME MailboxInv, Delivery, NEW c \in Call, Notes(c) PROVE Delivery'
  <1> DEFINE k == [call[c] EXCEPT !.at = "noted"]
  <1>1. call[c].at = "generating" /\ call[c].hand = {} /\ call[c] \in CallRecord
    BY DEF Notes, MailboxInv, Calls
  <1>2. k.at = "noted" /\ k.hand = {} /\ k.obj = call[c].obj
    BY <1>1 DEF CallRecord
  <1>3. call' = [call EXCEPT ![c] = k]
    BY DEF Notes
  <1>4. UNCHANGED storeVars /\ execs' = execs
    BY DEF Notes
  <1>5. /\ UNCHANGED <<file, heap, cur, saves, request, broken, execs>>
        /\ SaveIssued
    BY <1>4 DEF storeVars, SaveIssued
  <1> HIDE DEF k
  <1>6. \A d \in Call : call'[d] = IF d = c THEN k ELSE call[d]
    BY <1>3 DEF MailboxInv, Calls
  <1>7. Chain'
    BY <1>1, <1>2, <1>3, ChainKept DEF Delivery, InChain
  <1>8. ~broken => k.obj = 1 /\ call[c].obj = 1 /\ cur = 1
    BY <1>1, <1>2, OneObject
  <1>9. Unbroken'
    BY <1>3, <1>5, <1>8, UnbrokenKept DEF Delivery
  <1>10. HasUnread(MailOf(cur))' = HasUnread(MailOf(cur))
    BY <1>5 DEF MailOf, HasUnread
  <1>11. LampFollows'
    <2>1. CASE call[c].took
      <3>1. lamp' = HasUnread(MailOf(call[c].obj))
        BY <2>1 DEF Notes
      <3> QED BY <1>5, <1>8, <1>10, <3>1 DEF LampFollows
    <2>2. CASE ~call[c].took
      <3>1. lamp' = lamp
        BY <2>2 DEF Notes
      <3> QED BY <1>3, <1>5, <1>10, <2>2, <3>1, LampKept DEF Delivery
    <2> QED BY <2>1, <2>2
  <1>12. \A d \in Call : \/ call'[d].hand = {}
                         \/ /\ call'[d].hand = call[d].hand
                            /\ call'[d].obj = call[d].obj
    BY <1>2, <1>6
  <1>13. Copied'
    BY <1>5, <1>12, CopiedStays DEF Delivery
  <1> QED BY <1>7, <1>9, <1>11, <1>13 DEF Delivery

-----------------------------------------------------------------------------
(* The store carries no more than it was given *)

LEMMA EditFits ==
    ASSUME NEW text \in Content, Fits(text), NEW r \in Edit
    PROVE  Fits([text EXCEPT !.edits = @ \cup {r}])
  <1>1. [text EXCEPT !.edits = @ \cup {r}].mail = text.mail
    BY DEF Content
  <1>2. text # None
    BY NoneIsNoContent
  <1> QED BY <1>1, <1>2 DEF Fits

LEMMA SerializeDelivers ==
    ASSUME MailboxInv, Delivery, Serialize, UNCHANGED <<call, lamp, execs>>
    PROVE  Delivery'
  <1> DEFINE text == Stored(heap[saves[1].obj])
             e == [saves[1] EXCEPT !.text = text]
  <1>1. /\ UNCHANGED <<file, heap, cur, request, broken>>
        /\ saves # <<>> /\ saves' = [saves EXCEPT ![1] = e]
    BY DEF Serialize
  <1>2. saves \in Seq(Save) /\ Len(saves) \in Nat /\ 1 \in 1..Len(saves)
    BY <1>1, LenProperties DEF MailboxInv, StoreInv, StoreOK
  <1>3. /\ saves[1] \in Save /\ heap[saves[1].obj] \in Content
        /\ saves[1].obj \in 1..Len(heap)
    BY <1>2, SaveParts DEF MailboxInv, StoreInv
  <1>4. Bounded(heap[saves[1].obj].mail)
    BY <1>3 DEF Delivery, Copied
  <1>5. Fits(text)
    BY <1>3, <1>4, StoredFits DEF MailboxInv, Fits
  <1>6. e.text = text
    BY <1>3 DEF Save
  <1>7. Len(saves') = Len(saves) /\ saves'[1] = e
        /\ \A i \in 1..Len(saves) : i # 1 => saves'[i] = saves[i]
    <2> HIDE DEF e
    <2> QED BY <1>1, <1>2
  <1> HIDE DEF text, e
  <1>8. \A i \in 1..Len(saves') : Fits(saves'[i].text)
    BY <1>5, <1>6, <1>7 DEF Delivery, Copied
  <1>9. \A i \in 1..Len(saves') : Fits(saves[i].text)'
    BY <1>8 DEF Fits, Bounded
  <1>10. Copied'
    BY <1>1, <1>9 DEF Delivery, Copied, Fits, Bounded, MailOf
  <1>11. Chain' /\ Unbroken' /\ LampFollows'
    BY <1>1 DEF Delivery, Chain, Unbroken, LampFollows, MailOf, HasUnread
  <1> QED BY <1>10, <1>11 DEF Delivery

LEMMA SaveLandsDelivers ==
    ASSUME MailboxInv, Delivery, SaveLands, UNCHANGED <<call, lamp, execs>>
    PROVE  Delivery'
  <1>1. /\ UNCHANGED <<heap, cur, request, broken>>
        /\ saves # <<>> /\ file' = saves[1].text /\ saves' = Tail(saves)
    BY DEF SaveLands
  <1>2. saves \in Seq(Save) /\ Len(saves) \in Nat /\ 1 \in 1..Len(saves)
    BY <1>1, LenProperties DEF MailboxInv, StoreInv, StoreOK
  <1>3. Len(saves') = Len(saves) - 1
        /\ \A i \in 1..Len(saves') : saves'[i] = saves[i + 1] /\ i + 1 \in 1..Len(saves)
    BY <1>1, <1>2, HeadTailProperties
  <1>4. \A i \in 1..Len(saves) : Fits(saves[i].text)
    BY DEF Delivery, Copied
  <1>5. \A i \in 1..Len(saves') : Fits(saves'[i].text)
    BY <1>3, <1>4
  <1>6. Fits(file')
    BY <1>1, <1>2, <1>4
  <1>7. Copied'
    BY <1>1, <1>5, <1>6 DEF Delivery, Copied, Fits, Bounded, MailOf
  <1>8. Chain' /\ Unbroken' /\ LampFollows'
    BY <1>1 DEF Delivery, Chain, Unbroken, LampFollows, MailOf, HasUnread
  <1> QED BY <1>7, <1>8 DEF Delivery

\* A step of Studio that makes no object.
LEMMA StudioDelivers ==
    ASSUME MailboxInv, Delivery, NEW r \in Request, NEW text, NEW at,
           Moved(r, at, text), Fits(text),
           file' = file \/ Fits(file'),
           (broken' = broken /\ cur' = cur) \/ broken',
           UNCHANGED <<heap, saves, call, lamp, execs>>
    PROVE  Delivery'
  <1>1. request \in [Request -> RequestRecord]
    BY DEF MailboxInv, StoreInv, StoreOK
  <1>2. \A q \in Request : request'[q].text = request[q].text
                           \/ request'[q].text = text
    BY <1>1 DEF Moved
  <1>3. \A q \in Request : Fits(request'[q].text)
    BY <1>2 DEF Delivery, Copied
  <1>4. Fits(file')
    BY DEF Delivery, Copied
  <1>5. Copied'
    BY <1>3, <1>4 DEF Delivery, Copied, Fits, Bounded, MailOf
  <1>6. Chain'
    BY DEF Delivery, Chain
  <1>7. Unbroken' /\ LampFollows'
    BY DEF Delivery, Unbroken, LampFollows, MailOf, HasUnread
  <1> QED BY <1>5, <1>6, <1>7 DEF Delivery

\* A load makes an object of what was read.
LEMMA LoadSetsDelivers ==
    ASSUME MailboxInv, Delivery, NEW r \in Request, LoadSets(r),
           UNCHANGED <<call, lamp, execs>>
    PROVE  Delivery'
  <1> DEFINE k == request[r].text
  <1>1. k # None /\ k \in Content /\ Bounded(k.mail)
    BY DEF LoadSets, MailboxInv, StoreInv, StoreOK, Reads, RequestRecord, Text,
           Delivery, Copied, Fits
  <1>2. heap \in Seq(Content) /\ Len(heap) \in Nat
    BY LenProperties DEF MailboxInv, StoreInv, StoreOK
  <1>3. heap' = Append(heap, k) /\ UNCHANGED <<file, saves>>
        /\ broken' = (broken \/ cur # 0) /\ Moved(r, Over(r), None)
    BY DEF LoadSets
  <1> HIDE DEF k
  <1>4. /\ Len(heap') = Len(heap) + 1 /\ heap'[Len(heap) + 1] = k
        /\ \A i \in 1..Len(heap) : heap'[i] = heap[i]
    BY <1>1, <1>2, <1>3, AppendProperties
  <1>5. request \in [Request -> RequestRecord]
    BY DEF MailboxInv, StoreInv, StoreOK
  <1>6. \A q \in Request : \/ request'[q].text = request[q].text
                           \/ request'[q].text = None
    BY <1>3, <1>5 DEF Moved
  <1>7. \A q \in Request : Fits(request'[q].text)
    BY <1>6 DEF Delivery, Copied, Fits
  <1>8. \A g \in 1..Len(heap') : Bounded(heap'[g].mail)
    <2> SUFFICES ASSUME NEW g \in 1..Len(heap') PROVE Bounded(heap'[g].mail)
      OBVIOUS
    <2>1. g \in 1..Len(heap) \/ g = Len(heap) + 1
      BY <1>2, <1>4
    <2> QED BY <1>1, <1>4, <2>1 DEF Delivery, Copied
  <1>9. ASSUME NEW c \in Call, NEW v \in call[c].hand
        PROVE  Copies(heap'[call[c].obj].mail, v) < execs[v]
    <2>1. call[c].obj \in 1..Len(heap)
      BY HandHasObject
    <2> QED BY <1>4, <2>1 DEF Delivery, Copied, MailOf
  <1>10. Copied'
    BY <1>3, <1>7, <1>8, <1>9 DEF Delivery, Copied, Fits, Bounded, MailOf
  <1>11. Chain'
    BY DEF Delivery, Chain
  <1>12. broken'
    <2>1. broken \/ cur # 0
      BY DEF Delivery, Unbroken
    <2>2. broken' = (broken \/ cur # 0)
      BY <1>3
    <2> QED BY ONLY <2>1, <2>2, Zenon
  <1>13. Unbroken' /\ LampFollows'
    BY <1>12 DEF Unbroken, LampFollows
  <1> QED BY <1>10, <1>11, <1>13 DEF Delivery

LEMMA StoreDelivers ==
    ASSUME MailboxInv, Delivery, Store PROVE Delivery'
  <1>1. UNCHANGED <<call, lamp, execs>>
    BY DEF Store
  <1>2. ASSUME NEW who \in Saver, Autosave(who) PROVE Delivery'
    <2>1. SaveIssued /\ UNCHANGED <<file, heap, cur, request, broken>>
      BY <1>2 DEF Autosave, SaveIssued
    <2>2. Copied'
      BY <1>1, <2>1, CopiedStays DEF Delivery
    <2>3. Chain' /\ Unbroken' /\ LampFollows'
      BY <1>1, <2>1 DEF Delivery, Chain, Unbroken, LampFollows, MailOf, HasUnread
    <2> QED BY <2>2, <2>3 DEF Delivery
  <1>3. ASSUME NEW r \in Request, Studio(r) PROVE Delivery'
    <2>1. Fits(None) /\ Fits(file)
      BY DEF Fits, Delivery, Copied
    <2>2. CASE LoadStarts(r)
      <3>1. Moved(r, "loading", None) /\ UNCHANGED <<file, heap, cur, saves, broken>>
        BY <2>2 DEF LoadStarts
      <3> QED BY <1>1, <2>1, <3>1, StudioDelivers
    <2>3. CASE LoadReads(r)
      <3>1. \/ Moved(r, Over(r), None)
            \/ Moved(r, "loaded", file)
        BY <2>3 DEF LoadReads
      <3>2. UNCHANGED <<file, heap, cur, saves, broken>>
        BY <2>3 DEF LoadReads
      <3> QED BY <1>1, <2>1, <3>1, <3>2, StudioDelivers
    <2>4. CASE LoadSets(r)
      BY <1>1, <2>4, LoadSetsDelivers
    <2>5. CASE EditReads(r)
      <3>1. Moved(r, "read", file) /\ UNCHANGED <<file, heap, cur, saves, broken>>
        BY <2>5 DEF EditReads
      <3> QED BY <1>1, <2>1, <3>1, StudioDelivers
    <2>6. CASE PutWrites(r) \/ PlanWrites(r)
      <3>1. /\ request[r].at = "read" /\ r \in Edit
            /\ file' = [request[r].text EXCEPT !.edits = @ \cup {r}]
            /\ Moved(r, "written", None) \/ Moved(r, "done", None)
            /\ UNCHANGED <<heap, cur, saves, broken>>
        BY <2>6 DEF PutWrites, PlanWrites, Edit
      <3>2. request[r].text \in Content /\ Fits(request[r].text)
        BY <3>1 DEF MailboxInv, StoreInv, StoreOK, Reads, RequestRecord, Text,
                    Delivery, Copied
      <3>3. Fits(file')
        BY <3>1, <3>2, EditFits
      <3> QED BY <1>1, <2>1, <3>1, <3>3, StudioDelivers
    <2>7. CASE PutReloads(r)
      <3>1. /\ Moved(r, "loading", None) /\ UNCHANGED <<file, heap, saves>>
            /\ broken'
        BY <2>7 DEF PutReloads
      <3> QED BY <1>1, <2>1, <3>1, StudioDelivers
    <2>8. CASE DeleteRemoves(r)
      <3>1. /\ Moved(r, "removed", None) /\ file' = None
            /\ UNCHANGED <<heap, cur, saves, broken>>
        BY <2>8 DEF DeleteRemoves
      <3> QED BY <1>1, <2>1, <3>1, StudioDelivers
    <2>9. CASE DeleteEvicts(r)
      <3>1. /\ Moved(r, "done", None) /\ UNCHANGED <<file, heap, saves>>
            /\ broken'
        BY <2>9 DEF DeleteEvicts
      <3> QED BY <1>1, <2>1, <3>1, StudioDelivers
    <2> QED BY <1>3, <2>2, <2>3, <2>4, <2>5, <2>6, <2>7, <2>8, <2>9 DEF Studio
  <1> QED BY <1>1, <1>2, <1>3, SerializeDelivers, SaveLandsDelivers DEF Store

LEMMA RestartDelivers ==
    ASSUME MailboxInv, Delivery, Crash PROVE Delivery'
  <1>1. /\ \A c \in Call : call'[c].at = "idle" /\ call'[c].hand = {}
        /\ broken' /\ UNCHANGED <<file, execs>>
        /\ Len(heap') = 0 /\ Len(saves') = 0
    BY DEF Crash, StoreCrash, NoCall
  <1>2. request \in [Request -> RequestRecord]
    BY DEF MailboxInv, StoreInv, StoreOK
  <1>3. \A q \in Request : request'[q] = request[q] \/ request'[q].text = None
    BY <1>2 DEF Crash, StoreCrash
  <1>4. \A q \in Request : Fits(request'[q].text)
    BY <1>3 DEF Delivery, Copied, Fits
  <1>5. Copied'
    BY <1>1, <1>4 DEF Delivery, Copied, Fits, Bounded
  <1>6. Chain' /\ Unbroken' /\ LampFollows'
    BY <1>1 DEF Chain, InChain, Unbroken, LampFollows
  <1> QED BY <1>5, <1>6 DEF Delivery

LEMMA DeliverySteps == MailboxInv /\ Delivery /\ [Next]_vars => Delivery'
  <1> SUFFICES ASSUME MailboxInv, Delivery, [Next]_vars PROVE Delivery'
    OBVIOUS
  <1>1. ASSUME NEW v \in Timed, Tick(v) PROVE Delivery'
    BY <1>1, TickDelivers
  <1>2. ASSUME NEW c \in Call, NEW a \in Agent, NEW v \in Voicemail \cup {None},
               BeginCall(c, a, v)
        PROVE  Delivery'
    BY <1>2, BeginCallDelivers
  <1>3. ASSUME NEW c \in Call, NEW next \in {"queued", "aborting"},
               EndCall(c, next)
        PROVE  Delivery'
    BY <1>3, EndCallDelivers
  <1>4. ASSUME NEW c \in Call, Ends(c) PROVE Delivery'
    BY <1>4, RunEffectsDelivers, AbortCallDelivers, CallSavedDelivers DEF Ends
  <1>5. ASSUME NEW c \in Call, Materializes(c) PROVE Delivery'
    BY <1>5, TakesDelivers, GenerateDelivers, NotesDelivers,
       PhaseSavesDelivers, PhaseOverDelivers DEF Materializes
  <1>6. CASE Store
    BY <1>6, StoreDelivers
  <1>7. CASE Crash
    BY <1>7, RestartDelivers
  <1>8. CASE UNCHANGED vars
    <2>1. UNCHANGED <<file, heap, cur, saves, request, broken, call, lamp, execs>>
      BY <1>8 DEF vars, storeVars
    <2>2. Chain' /\ Unbroken' /\ LampFollows'
      BY <2>1 DEF Delivery, Chain, Unbroken, LampFollows, MailOf, HasUnread
    <2>3. Copied'
      BY <2>1 DEF Delivery, Copied, Fits, Bounded, MailOf
    <2> QED BY <2>2, <2>3 DEF Delivery
  <1> QED BY <1>1, <1>2, <1>3, <1>4, <1>5, <1>6, <1>7, <1>8 DEF Next

\* The inductive invariant of what is delivered: one job generates at a time,
\* everything that can become the profile has at most the copies that were
\* executed, and the lamp lags behind only while a job generates.
THEOREM DeliveryInvariant == Spec => [](MailboxInv /\ Delivery)
  BY InitMailbox, MailboxSteps, InitDelivers, DeliverySteps, PTL DEF Spec

\* One execution of an effect leaves at most one voicemail, in the cached profile,
\* in a job's hand and in the file, whatever calls, jobs, saves, loads, edits and
\* restarts come in between (runVoicemailMaterializePipeline, takeVoicemailGenStack).
THEOREM NoVoicemailTwice == Spec => []DeliveredOnce
  <1>1. ASSUME MailboxInv, Delivery PROVE DeliveredOnce
    <2> SUFFICES ASSUME NEW v \in Voicemail
                 PROVE  /\ cur # 0 =>
                             Copies(MailOf(cur), v)
                               + Cardinality({c \in Call : call[c].obj = cur /\
                                                           v \in call[c].hand})
                             <= execs[v]
                        /\ file # None => Copies(file.mail, v) <= execs[v]
      BY DEF DeliveredOnce
    <2> DEFINE H == {c \in Call : call[c].obj = cur /\ v \in call[c].hand}
    <2>1. file # None => Copies(file.mail, v) <= execs[v]
      BY <1>1 DEF Delivery, Copied, Fits, Bounded
    <2>2. ASSUME cur # 0 PROVE Copies(MailOf(cur), v) + Cardinality(H) <= execs[v]
      <3>1. cur \in 1..Len(heap)
        BY <1>1, <2>2, HeapLength DEF MailboxInv, StoreInv
      <3>2. Copies(MailOf(cur), v) <= execs[v] /\ MailOf(cur) \in MailRecord
        BY <1>1, <3>1, ObjectIsMail DEF Delivery, Copied, Bounded, MailOf
      <3>3. Copies(MailOf(cur), v) \in Nat /\ execs[v] \in Nat
        BY <1>1, <3>2, CopiesAreCounted DEF MailboxInv, Counted
      <3>4. CASE H = {}
        <4>1. Cardinality(H) = 0
          BY <3>4, FS_EmptySet
        <4> QED BY <3>2, <3>3, <4>1
      <3>5. CASE H # {}
        <4>1. PICK c \in Call : call[c].obj = cur /\ v \in call[c].hand
          BY <3>5
        <4>2. \A d \in Call : v \in call[d].hand => d = c
          BY <1>1, <4>1 DEF Delivery, Chain, InChain
        <4>3. H = {c}
          BY <4>1, <4>2
        <4>4. Cardinality(H) = 1
          BY <4>3, FS_Singleton
        <4>5. Copies(MailOf(cur), v) < execs[v]
          BY <1>1, <4>1 DEF Delivery, Copied
        <4> QED BY <3>3, <4>4, <4>5
      <3> QED BY <3>4, <3>5
    <2> QED BY <2>1, <2>2
  <1> QED BY <1>1, DeliveryInvariant, PTL

\* The lamp shows what the mailbox has: no job, no listening and no aborted call
\* beside a job leaves it wrong (onVoicemailUnreadChanged).
THEOREM LampShowsMailbox == Spec => []LampTrue
  <1>1. ASSUME Delivery PROVE LampTrue
    BY <1>1 DEF Delivery, LampFollows, LampTrue
  <1> QED BY <1>1, DeliveryInvariant, PTL

-----------------------------------------------------------------------------
(* No voicemail vanishes *)

\* Something is on its way to the mailbox on the card of v, or in it.
Waits(v) ==
    \/ v \in Timed /\ MailOf(cur).due[v] > 0
    \/ Entries(CardOf[v]) # {} \/ Slots(CardOf[v]) # {}

LEMMA WaitsFor ==
    ASSUME NEW v \in Voicemail
    PROVE  Waits(v) <=>
             \/ v \in Timed /\ heap[cur].mail.due[v] > 0
             \/ \E w \in Voicemail :
                   /\ CardOf[w] = CardOf[v]
                   /\ \/ w \in heap[cur].mail.stack
                      \/ \E c \in Call : call[c].obj = cur /\ w \in call[c].hand
                      \/ heap[cur].mail.box[w] # <<>>
  BY DEF Waits, Entries, Slots, InHand, MailOf

\* No step takes anything away and leaves the object what it is.
LEMMA MailStays ==
    ASSUME MailboxInv, cur \in 1..Len(heap), cur' = cur,
           NEW n \in MailRecord, heap'[cur].mail = n,
           \A w \in Timed : heap[cur].mail.due[w] <= n.due[w],
           heap[cur].mail.stack \subseteq n.stack,
           \A w \in Voicemail : heap[cur].mail.box[w] # <<>> => n.box[w] # <<>>,
           \A c \in Call : \A w \in call[c].hand :
              call'[c].obj = call[c].obj /\ w \in call'[c].hand,
           NEW v \in Voicemail, Waits(v)
    PROVE  Waits(v)'
  <1>1. heap[cur].mail \in MailRecord
    BY ObjectIsMail
  <1>2. v \in Timed => heap[cur].mail.due[v] \in Nat /\ n.due[v] \in Nat
    BY <1>1 DEF MailRecord
  <1>3. CASE v \in Timed /\ heap[cur].mail.due[v] > 0
    <2>1. n.due[v] > 0
      BY <1>2, <1>3
    <2> QED BY <1>3, <2>1 DEF Waits, MailOf
  <1>4. ASSUME NEW w \in Voicemail, CardOf[w] = CardOf[v],
               \/ w \in heap[cur].mail.stack
               \/ \E c \in Call : call[c].obj = cur /\ w \in call[c].hand
               \/ heap[cur].mail.box[w] # <<>>
        PROVE  Waits(v)'
    <2>1. CASE w \in heap[cur].mail.stack
      BY <1>4, <2>1 DEF Waits, Entries, MailOf
    <2>2. ASSUME NEW c \in Call, call[c].obj = cur, w \in call[c].hand
          PROVE  Waits(v)'
      <3>1. call'[c].obj = cur' /\ w \in call'[c].hand
        BY <2>2
      <3> QED BY <1>4, <3>1 DEF Waits, Entries, InHand
    <2>3. CASE heap[cur].mail.box[w] # <<>>
      BY <1>4, <2>3 DEF Waits, Slots, MailOf
    <2> QED BY <1>4, <2>1, <2>2, <2>3
  <1> QED BY <1>3, <1>4, WaitsFor

\* The same, where the mail is not touched.
LEMMA HandsStay ==
    ASSUME MailboxInv, cur \in 1..Len(heap), cur' = cur, heap' = heap,
           \A c \in Call : \A w \in call[c].hand :
              call'[c].obj = call[c].obj /\ w \in call'[c].hand,
           NEW v \in Voicemail, Waits(v)
    PROVE  Waits(v)'
  <1>1. heap[cur].mail \in MailRecord
    BY ObjectIsMail
  <1>2. \A w \in Timed : heap[cur].mail.due[w] <= heap[cur].mail.due[w]
    BY <1>1 DEF MailRecord
  <1> QED BY <1>1, <1>2, MailStays

LEMMA StillWhole ==
    ASSUME MailboxInv, Delivery, [Next]_vars, ~broken'
    PROVE  /\ ~broken /\ cur = 1 /\ Len(heap) = 1 /\ cur' = 1
           /\ \A c \in Call : \A w \in call[c].hand : call[c].obj = 1
  <1>1. MailboxInv' /\ Delivery'
    BY MailboxSteps, DeliverySteps
  <1>2. cur' = 1
    BY <1>1 DEF Delivery, Unbroken
  <1>3. broken => broken'
    <2>1. CASE Store
      <3>1. ASSUME NEW r \in Request, Studio(r) PROVE broken => broken'
        BY <3>1, Zenon DEF Studio, LoadStarts, LoadReads, LoadSets, EditReads,
              PutWrites, PutReloads, PlanWrites, DeleteRemoves, DeleteEvicts
      <3>2. ASSUME NEW who \in Saver \ Call, Autosave(who)
            PROVE  broken => broken'
        BY <3>2 DEF Autosave
      <3> QED BY <2>1, <3>1, <3>2, Zenon DEF Store, Serialize, SaveLands
    <2>2. CASE ~Store
      BY <2>2, Zenon DEF Next, vars, storeVars, Tick, Stays, BeginCall, EndCall, Ends,
         RunEffects, AbortCall, CallSaved, Materializes, Takes, Generate, Notes,
         PhaseSaves, PhaseOver, Crash, StoreCrash
    <2> QED BY <2>1, <2>2
  <1>4. ~broken /\ cur = 1 /\ Len(heap) = 1
    BY <1>3 DEF Delivery, Unbroken
  <1>5. \A c \in Call : \A w \in call[c].hand : call[c].obj = 1
    BY <1>4, OneObject DEF Delivery, Chain
  <1> QED BY <1>2, <1>4, <1>5

LEMMA TickWaits ==
    ASSUME MailboxInv, Delivery, NEW u \in Timed, Tick(u), [Next]_vars, ~broken',
           NEW v \in Voicemail, Waits(v)
    PROVE  Waits(v)'
  <1> DEFINE m == heap[cur].mail
             n == Fire(m, u)
  <1>1. cur \in 1..Len(heap) /\ cur' = cur
    BY StillWhole
  <1>2. m \in MailRecord /\ m.due[u] > 0 /\ Change(cur, n)
    BY <1>1, ObjectIsMail DEF Tick, MailOf
  <1>3. u \in Voicemail
    BY DEF Voicemail
  <1>4. n \in MailRecord
    BY <1>2, FireIsMail
  <1>5. /\ n.box = m.box /\ m.stack \subseteq n.stack
        /\ \E w \in n.stack : w \in Voicemail /\ CardOf[w] = CardOf[u]
        /\ \A w \in Timed : w # u => n.due[w] = m.due[w]
    <2> HIDE DEF m
    <2>1. ASSUME NEW w \in Timed, w # u PROVE n.due[w] = m.due[w]
      <3>1. w \in Voicemail
        BY DEF Voicemail
      <3> QED BY <1>2, <2>1, <3>1, CopiesFire
    <2> QED BY <1>2, <1>3, <2>1, CopiesFire
  <1>6. UNCHANGED call
    BY DEF Tick
  <1> HIDE DEF m, n
  <1>7. heap'[cur].mail = n
    BY <1>1, <1>2, <1>4, Changed DEF MailboxInv, StoreInv
  <1>8. CASE CardOf[v] = CardOf[u]
    <2>1. Entries(CardOf[v])' # {}
      BY <1>1, <1>5, <1>7, <1>8 DEF Entries, MailOf
    <2> QED BY <2>1 DEF Waits
  <1>9. CASE CardOf[v] # CardOf[u]
    <2>1. v # u
      BY <1>9
    <2>2. CASE v \in Timed /\ m.due[v] > 0
      BY <1>1, <1>5, <1>7, <2>1, <2>2 DEF Waits, MailOf
    <2>3. ASSUME NEW w \in Voicemail, CardOf[w] = CardOf[v],
                 \/ w \in m.stack
                 \/ \E c \in Call : call[c].obj = cur /\ w \in call[c].hand
                 \/ m.box[w] # <<>>
          PROVE  Waits(v)'
      BY <1>1, <1>5, <1>6, <1>7, <2>3 DEF Waits, Entries, Slots, InHand, MailOf
    <2> QED BY <2>2, <2>3, WaitsFor DEF m
  <1> QED BY <1>8, <1>9

\* What is on the stack goes to the job's hand.
LEMMA TakesWaits ==
    ASSUME MailboxInv, Delivery, NEW c \in Call, Takes(c), [Next]_vars, ~broken',
           NEW v \in Voicemail, Waits(v)
    PROVE  Waits(v)'
  <1> DEFINE m == heap[cur].mail
             n == Take(m)
             k == [call[c] EXCEPT !.at = "generating", !.hand = m.stack,
                                  !.took = m.stack # {}]
  <1>1. cur \in 1..Len(heap) /\ cur' = cur /\ cur = 1 /\ ~broken
    BY StillWhole
  <1>2. call[c].at = "job" /\ ChainFree /\ call[c] \in CallRecord
    BY DEF Takes, MailboxInv, Calls
  <1>3. call[c].obj = cur
    BY <1>1, <1>2, OneObject
  <1>4. m \in MailRecord /\ Change(cur, n)
    BY <1>1, <1>3, ObjectIsMail DEF Takes, MailOf
  <1>5. n \in MailRecord /\ n.box = m.box /\ n.due = m.due
    BY <1>4, TakeIsMail DEF Take, MailRecord
  <1>6. call' = [call EXCEPT ![c] = k]
    BY <1>3 DEF Takes, MailOf
  <1>7. k.hand = m.stack /\ k.obj = cur
    <2> HIDE DEF m
    <2> QED BY <1>2, <1>3 DEF CallRecord
  <1> HIDE DEF m, n, k
  <1>8. heap'[cur].mail = n
    BY <1>1, <1>4, <1>5, Changed DEF MailboxInv, StoreInv
  <1>9. call'[c] = k
    BY <1>6 DEF MailboxInv, Calls
  <1>10. \A d \in Call : call[d].hand = {}
    BY <1>2, SoleHand, EmptyHands
  <1>11. CASE v \in Timed /\ m.due[v] > 0
    BY <1>1, <1>5, <1>8, <1>11 DEF Waits, MailOf
  <1>12. ASSUME NEW w \in Voicemail, CardOf[w] = CardOf[v],
                w \in m.stack \/ m.box[w] # <<>>
         PROVE  Waits(v)'
    <2>1. CASE w \in m.stack
      <3>1. call'[c].obj = cur' /\ w \in call'[c].hand
        BY <1>1, <1>7, <1>9, <2>1
      <3> QED BY <1>12, <3>1 DEF Waits, Entries, InHand
    <2>2. CASE m.box[w] # <<>>
      BY <1>1, <1>5, <1>8, <1>12, <2>2 DEF Waits, Slots, MailOf
    <2> QED BY <1>12, <2>1, <2>2
  <1> QED BY <1>10, <1>11, <1>12, WaitsFor DEF m

\* What is in hand goes to the mailbox.
LEMMA GenerateWaits ==
    ASSUME MailboxInv, Delivery, NEW c \in Call, NEW u \in Voicemail,
           NEW s \in {"unread", "generate_failed"}, Generate(c, u, s),
           [Next]_vars, ~broken', NEW v \in Voicemail, Waits(v)
    PROVE  Waits(v)'
  <1> DEFINE m == heap[cur].mail
             n == Deliver(m, u, s)
             k == [call[c] EXCEPT !.hand = @ \ {u}]
  <1>1. cur \in 1..Len(heap) /\ cur' = cur /\ cur = 1 /\ ~broken
    BY StillWhole
  <1>2. call[c].at = "generating" /\ call[c] \in CallRecord
    BY DEF Generate, MailboxInv, Calls
  <1>3. call[c].obj = cur
    BY <1>1, <1>2, OneObject
  <1>4. m \in MailRecord /\ Change(cur, n) /\ s \in Status
    BY <1>1, <1>3, ObjectIsMail DEF Generate, MailOf, Status
  <1>5. n \in MailRecord
    BY <1>4, DeliverIsMail
  <1>6. call' = [call EXCEPT ![c] = k]
    BY DEF Generate
  <1>7. k.hand = call[c].hand \ {u} /\ k.obj = cur
    BY <1>2, <1>3 DEF CallRecord
  <1>8. ASSUME NEW w \in Voicemail
        PROVE  /\ n.stack = m.stack /\ n.due = m.due /\ n.box[u] # <<>>
               /\ m.box[w] # <<>> => n.box[w] # <<>>
    <2> HIDE DEF m
    <2> QED BY <1>4, CopiesDeliver
  <1> HIDE DEF m, n, k
  <1>9. heap'[cur].mail = n
    BY <1>1, <1>4, <1>5, Changed DEF MailboxInv, StoreInv
  <1>10. \A d \in Call : call'[d] = IF d = c THEN k ELSE call[d]
    BY <1>6 DEF MailboxInv, Calls
  <1>11. CASE v \in Timed /\ m.due[v] > 0
    BY <1>1, <1>8, <1>9, <1>11 DEF Waits, MailOf
  <1>12. ASSUME NEW w \in Voicemail, CardOf[w] = CardOf[v],
                \/ w \in m.stack
                \/ \E d \in Call : call[d].obj = cur /\ w \in call[d].hand
                \/ m.box[w] # <<>>
         PROVE  Waits(v)'
    <2>1. CASE w \in m.stack
      BY <1>1, <1>8, <1>9, <1>12, <2>1 DEF Waits, Entries, MailOf
    <2>2. CASE m.box[w] # <<>>
      BY <1>1, <1>8, <1>9, <1>12, <2>2 DEF Waits, Slots, MailOf
    <2>3. ASSUME NEW d \in Call, call[d].obj = cur, w \in call[d].hand
          PROVE  Waits(v)'
      <3>1. CASE d = c /\ w = u
        <4>1. (MailOf(cur).box[w] # <<>>)'
          BY <1>1, <1>8, <1>9, <3>1 DEF MailOf
        <4> QED BY <1>12, <4>1 DEF Waits, Slots
      <3>2. CASE ~(d = c /\ w = u)
        <4>1. call'[d].obj = cur' /\ w \in call'[d].hand
          BY <1>1, <1>7, <1>10, <2>3, <3>2
        <4> QED BY <1>12, <4>1 DEF Waits, Entries, InHand
      <3> QED BY <3>1, <3>2
    <2> QED BY <1>12, <2>1, <2>2, <2>3
  <1> QED BY <1>11, <1>12, WaitsFor DEF m

LEMMA RunEffectsWaits ==
    ASSUME MailboxInv, Delivery, NEW c \in Call, NEW u \in Voicemail \cup {None},
           NEW heard \in BOOLEAN, RunEffects(c, u, heard), [Next]_vars, ~broken',
           NEW v \in Voicemail, Waits(v)
    PROVE  Waits(v)'
  <1> DEFINE m == heap[cur].mail
             left == IF u = None THEN m ELSE Leave(m, u)
             n == Heard(c, left, heard)
  <1>1. cur \in 1..Len(heap) /\ cur' = cur /\ cur = 1 /\ ~broken
    BY StillWhole
  <1>2. call[c].at = "queued" /\ ChainFree
    BY DEF RunEffects
  <1>3. call[c].obj = cur
    BY <1>1, <1>2, OneObject
  <1>4. m \in MailRecord
    BY <1>1, ObjectIsMail
  <1>5. Change(cur, n) /\ (heard => call[c].opened # None)
    BY <1>3 DEF RunEffects, MailOf
  <1>6. /\ left \in MailRecord /\ left.box = m.box /\ m.stack \subseteq left.stack
        /\ \A w \in Timed : m.due[w] <= left.due[w]
    <2> HIDE DEF m
    <2>1. CASE u = None
      BY <1>4, <2>1 DEF MailRecord
    <2>2. CASE u # None
      <3>1. u \in Voicemail /\ left = Leave(m, u)
        BY <2>2
      <3>2. ASSUME NEW w \in Timed PROVE m.due[w] <= Leave(m, u).due[w]
        <4>1. w \in Voicemail
          BY DEF Voicemail
        <4> QED BY <1>4, <3>1, <4>1, CopiesLeave
      <3> QED BY <1>4, <3>1, <3>2, LeaveIsMail, CopiesLeave
    <2> QED BY <2>1, <2>2
  <1>7. /\ n \in MailRecord /\ n.stack = left.stack /\ n.due = left.due
        /\ \A w \in Voicemail : left.box[w] # <<>> => n.box[w] # <<>>
    <2> HIDE DEF left
    <2> QED BY <1>5, <1>6, HeardIsMail, HeardCopies
  <1> HIDE DEF n, left
  <1>8. heap'[cur].mail = n
    BY <1>1, <1>5, <1>7, Changed DEF MailboxInv, StoreInv
  <1>9. \A d \in Call : call[d].hand = {}
    BY <1>2, SoleHand, EmptyHands
  <1> HIDE DEF m
  <1>10. /\ \A w \in Timed : m.due[w] <= n.due[w]
         /\ m.stack \subseteq n.stack
         /\ \A w \in Voicemail : m.box[w] # <<>> => n.box[w] # <<>>
    BY <1>6, <1>7
  <1> QED BY <1>1, <1>7, <1>8, <1>9, <1>10, MailStays DEF m

LEMMA AbortCallWaits ==
    ASSUME MailboxInv, Delivery, NEW c \in Call, NEW heard \in BOOLEAN,
           AbortCall(c, heard), [Next]_vars, ~broken', NEW v \in Voicemail, Waits(v)
    PROVE  Waits(v)'
  <1> DEFINE m == heap[cur].mail
             n == Heard(c, m, heard)
  <1>1. cur \in 1..Len(heap) /\ cur' = cur /\ cur = 1 /\ ~broken
    BY StillWhole
  <1>2. call[c].at = "aborting"
    BY DEF AbortCall
  <1>3. call[c].obj = cur
    BY <1>1, <1>2, OneObject
  <1>4. m \in MailRecord
    BY <1>1, ObjectIsMail
  <1>5. Change(cur, n) /\ (heard => call[c].opened # None)
    BY <1>3 DEF AbortCall, MailOf
  <1>6. /\ n \in MailRecord /\ n.stack = m.stack /\ n.due = m.due
        /\ \A w \in Voicemail : m.box[w] # <<>> => n.box[w] # <<>>
    <2> HIDE DEF m
    <2> QED BY <1>4, <1>5, HeardIsMail, HeardCopies
  <1> HIDE DEF n
  <1>7. heap'[cur].mail = n
    BY <1>1, <1>5, <1>6, Changed DEF MailboxInv, StoreInv
  <1>8. \A w \in Timed : m.due[w] <= n.due[w]
    BY <1>4, <1>6 DEF MailRecord
  <1>9. \A d \in Call : \A w \in call[d].hand : call'[d] = call[d]
    <2>1. call[c].hand = {}
      BY <1>2, EmptyHands
    <2>2. \A d \in Call \ {c} : call'[d] = call[d]
      BY DEF AbortCall, Saves, MailboxInv, Calls
    <2> QED BY <2>1, <2>2
  <1> HIDE DEF m
  <1>10. m.stack \subseteq n.stack
    BY <1>6
  <1> QED BY <1>1, <1>6, <1>7, <1>8, <1>9, <1>10, MailStays DEF m

\* A step that touches no mail and no hand.
LEMMA OtherWaits ==
    ASSUME MailboxInv, Delivery, [Next]_vars, ~broken', heap' = heap,
           \/ UNCHANGED call
           \/ \E c \in Call : \E k : /\ call' = [call EXCEPT ![c] = k]
                                 /\ call[c].hand = {},
           NEW v \in Voicemail, Waits(v)
    PROVE  Waits(v)'
  <1>1. cur \in 1..Len(heap) /\ cur' = cur
    BY StillWhole
  <1>2. \A c \in Call : \A w \in call[c].hand : call'[c] = call[c]
    BY DEF MailboxInv, Calls
  <1> QED BY <1>1, <1>2, HandsStay

LEMMA NothingVanishes ==
    ASSUME MailboxInv, Delivery, [Next]_vars, ~broken', NEW v \in Voicemail, Waits(v)
    PROVE  Waits(v)'
  <1>1. ASSUME NEW u \in Timed, Tick(u) PROVE Waits(v)'
    BY <1>1, TickWaits
  <1>2. ASSUME NEW c \in Call, NEW a \in Agent, NEW u \in Voicemail \cup {None},
               BeginCall(c, a, u)
        PROVE  Waits(v)'
    <2>1. /\ heap' = heap /\ call[c].at = "idle"
          /\ \E k : call' = [call EXCEPT ![c] = k]
      BY <1>2 DEF BeginCall, storeVars
    <2>2. call[c].hand = {}
      BY <2>1, EmptyHands
    <2> QED BY <2>1, <2>2, OtherWaits
  <1>3. ASSUME NEW c \in Call, NEW next \in {"queued", "aborting"},
               EndCall(c, next)
        PROVE  Waits(v)'
    <2>1. heap' = heap /\ call[c].at = "in_call"
      BY <1>3 DEF EndCall, storeVars
    <2>2. \E k : call' = [call EXCEPT ![c] = k]
      BY <1>3 DEF EndCall, MailboxInv, Calls
    <2>3. call[c].hand = {}
      BY <2>1, EmptyHands
    <2> QED BY <2>1, <2>2, <2>3, OtherWaits
  <1>4. ASSUME NEW c \in Call, NEW committed \in BOOLEAN, CallSaved(c, committed)
        PROVE  Waits(v)'
    <2>1. /\ heap' = heap /\ call[c].at \in {"saving", "abort_save"}
          /\ \E k : call' = [call EXCEPT ![c] = k]
      BY <1>4 DEF CallSaved, storeVars
    <2>2. call[c].hand = {}
      BY <2>1, EmptyHands
    <2> QED BY <2>1, <2>2, OtherWaits
  <1>5. ASSUME NEW c \in Call, Ends(c) PROVE Waits(v)'
    BY <1>4, <1>5, RunEffectsWaits, AbortCallWaits DEF Ends
  <1>6. ASSUME NEW c \in Call, Notes(c) PROVE Waits(v)'
    <2>1. heap' = heap /\ call[c].hand = {} /\ \E k : call' = [call EXCEPT ![c] = k]
      BY <1>6 DEF Notes, storeVars
    <2> QED BY <2>1, OtherWaits
  <1>7. ASSUME NEW c \in Call, PhaseSaves(c) \/ PhaseOver(c) PROVE Waits(v)'
    <2>1. /\ heap' = heap /\ call[c].at \in {"noted", "jobsave"}
          /\ \E k : call' = [call EXCEPT ![c] = k]
      BY <1>7 DEF PhaseSaves, PhaseOver, Saves, storeVars
    <2>2. call[c].hand = {}
      BY <2>1, EmptyHands
    <2> QED BY <2>1, <2>2, OtherWaits
  <1>8. ASSUME NEW c \in Call, Materializes(c) PROVE Waits(v)'
    BY <1>6, <1>7, <1>8, TakesWaits, GenerateWaits DEF Materializes
  <1>9. CASE Store
    <2>1. cur = 1 /\ cur' = 1 /\ Len(heap) = 1 /\ ~broken
      BY StillWhole
    <2>2. ASSUME NEW r \in Request, Studio(r) PROVE heap' = heap
      <3>1. ~LoadSets(r)
        <4>1. LoadSets(r) => cur' = Len(heap) + 1
          BY DEF LoadSets
        <4> QED BY <2>1, <4>1
      <3> QED BY <2>2, <3>1 DEF Studio, LoadStarts, LoadReads, EditReads,
              PutWrites, PutReloads, PlanWrites, DeleteRemoves, DeleteEvicts
    <2>3. heap' = heap /\ UNCHANGED call
      BY <1>9, <2>2 DEF Store, Serialize, SaveLands, Autosave
    <2> QED BY <2>3, OtherWaits
  <1>10. CASE Crash
    BY <1>10 DEF Crash, StoreCrash
  <1>11. CASE UNCHANGED vars
    BY <1>11, OtherWaits DEF vars, storeVars
  <1> QED BY <1>1, <1>2, <1>3, <1>5, <1>8, <1>9, <1>10, <1>11 DEF Next

\* As long as the profile object is not replaced, a voicemail that was left does
\* not vanish: it waits for its hour, on the stack or in a job's hand, or has its
\* slot (pushVoicemailGenStack, runVoicemailMaterializePipeline).
THEOREM NoVoicemailLost == Spec => MailKept
  <1>1. ASSUME MailboxInv, Delivery, [Next]_vars
        PROVE  [~broken' => \A v \in Voicemail :
                   \/ v \in Timed /\ MailOf(cur).due[v] > 0
                   \/ Entries(CardOf[v]) # {} \/ Slots(CardOf[v]) # {}
                   => \/ v \in Timed /\ (MailOf(cur).due[v] > 0)'
                      \/ (Entries(CardOf[v]) # {})' \/ (Slots(CardOf[v]) # {})']_vars
    BY <1>1, NothingVanishes DEF Waits
  <1> QED BY <1>1, DeliveryInvariant, PTL DEF Spec, MailKept

=============================================================================
