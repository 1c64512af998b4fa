-------------------------------- MODULE Memory --------------------------------
(***************************************************************************)
(* What the memory port keeps of ONE user and ONE agent, and what a commit *)
(* after a call and a rollup do to it.                                     *)
(*                                                                         *)
(* Followed is the episodic layer, which rollups read: of each commit the  *)
(* summary of the call and its vignettes, all with one time.  Facts,       *)
(* events, feelings and promises go to other layers in the same            *)
(* transaction, and so does whatever an effect patches: no rollup reads    *)
(* them.                                                                   *)
(*                                                                         *)
(* A rollup is the set of the entries whose snippets are whole in its      *)
(* summary; it is empty while there is none, since the oldest always fits. *)
(***************************************************************************)
EXTENDS Integers, FiniteSets

CONSTANTS
    Call,       \* the calls with the agent
    Text,       \* what the summary of a call may say
    Tale,       \* what a vignette may say
    Start,      \* the time at which the model begins
    MaxTime,    \* bound on the time
    Days,       \* the time units of a month
    Limit,      \* MEMORY_ROLLUP_DEFAULTS.maxEntriesPerPeriod
    Fits        \* the snippets that fit into maxSummaryChars however long

Time == Start..MaxTime
Entry == [call : Call, kind : {"call_summary"}, text : Text, at : Time]
         \cup [call : Call, kind : {"vignette"}, text : Tale, at : Time]

ASSUME MemoryAssumption ==
    /\ Start \in Nat /\ MaxTime \in Nat /\ Start <= MaxTime
    /\ Days \in Nat \ {0} /\ Limit \in Nat /\ Fits \in 1..Limit

-----------------------------------------------------------------------------
(* Entries *)

\* What one commit says of a call: its summary and its vignettes.
Said(c, text, tales, t) ==
    {[call |-> c, kind |-> "call_summary", text |-> text, at |-> t]}
    \cup [call : {c}, kind : {"vignette"}, text : tales, at : {t}]

\* Variant: the hash of an entry covers its time.
InsertTimed(entries, new) == entries \cup new

\* insertEntry: what a call said already is not said again, whatever the time.
Insert(entries, new) ==
    entries \cup {e \in new : \A f \in entries :
                     <<f.call, f.kind, f.text>> # <<e.call, e.kind, e.text>>}

-----------------------------------------------------------------------------
(* Periods *)

Month(t) == t \div Days
Quarter(t) == Month(t) \div 3

Period == [kind : {"month"}, key : Month(Start)..Month(MaxTime)]
          \cup [kind : {"quarter"}, key : Quarter(Start)..Quarter(MaxTime)]

KeyOf(kind, t) == IF kind = "month" THEN Month(t) ELSE Quarter(t)

Within(p, t) == KeyOf(p.kind, t) = p.key

InPeriod(entries, p) == {e \in entries : Within(p, e.at)}

-----------------------------------------------------------------------------
(* Rollups *)

NoRollups == [p \in Period |-> {}]

\* The entries whose snippets may be whole in the summary of S: the oldest, as
\* many as the query's limit and the cut of the joined text leave, but the first
\* Fits always.  Which of two entries of one time comes first is open.
Digests(S) ==
    {D \in SUBSET S :
       /\ Cardinality(D) <= Limit
       /\ \A e \in D, f \in S : f.at < e.at => f \in D
       /\ D = S \/ Cardinality(D) >= Fits}

\* Variant: a period that has its summary is left alone.
DueOnce(entries, rollups, t) ==
    {p \in Period :
       /\ p.key \in {KeyOf(p.kind, t), KeyOf(p.kind, t) - 1}
       /\ InPeriod(entries, p) # {}
       /\ rollups[p] = {}}

\* The current month and quarter are refreshed, the previous ones are made up
\* for when they have none.
Due(entries, rollups, t) ==
    {p \in Period :
       /\ p.key \in {KeyOf(p.kind, t), KeyOf(p.kind, t) - 1}
       /\ InPeriod(entries, p) # {}
       /\ rollups[p] = {} \/ Within(p, t)}

\* The previous periods come before the current ones, the month before the
\* quarter.
Before(q, p, t) ==
    IF Within(q, t) = Within(p, t) THEN q.kind = "month" /\ p.kind = "quarter"
    ELSE Within(p, t)

\* As many of ps as are written when a statement fails.
Firsts(ps, t) == {qs \in SUBSET ps :
                    \A p \in qs, q \in ps : Before(q, p, t) => q \in qs}

\* rollupIfNeeded writes the summaries of ps, each in a statement of its own.
Rollup(entries, rollups, ps) ==
    LET digests == [p \in ps |-> Digests(InPeriod(entries, p))]
        summaries == {s \in [ps -> UNION {digests[p] : p \in ps}] :
                        \A p \in ps : s[p] \in digests[p]}
    IN  {[p \in Period |-> IF p \in ps THEN s[p] ELSE rollups[p]] :
           s \in summaries}

=============================================================================
