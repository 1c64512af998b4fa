----------------------------- MODULE MCCallMemory -----------------------------
(***************************************************************************)
(* A small instance of CallMemory for TLC: one message for each of two     *)
(* calls, or both for one; time units that are half a month, two in the    *)
(* last month of a quarter and one in the first month of the next.         *)
(***************************************************************************)
EXTENDS CallMemory, TLC

CONSTANTS k1, k2, m1, m2, words, summary

OneEach == m1 :> k1 @@ m2 :> k2
BothInOne == m1 :> k1 @@ m2 :> k1

\* What matters of a call for the memory, where no tool is used (MaxRounds = 0):
\* before its end all of it with its requests, afterwards the outcome of the gate
\* in place of what was said, and of a job only what its next steps read.
Matters(c) ==
    LET k == call[c]
        disk == IF resumed < MaxResumed THEN <<k.record, k.kept>> ELSE <<>>
    IN
    CASE k.at = "in_call" ->
           <<k, {<<r, request[r].at>> : r \in {s \in Request : In(s) = c}}>>
      [] k.at \in {"new", "done"} -> <<k.at, k.whole, IF k.whole THEN k.since ELSE 0>>
      [] k.at \in {"ended", "stopped", "stuck"} ->
           <<k.at, k.memory, k.rollup, disk, k.kind, Gate(c)>>
      [] OTHER ->
           <<k.at, k.memory, k.rollup, disk, k.kind, Gate(c), k.since, k.whole>>

\* TLC's view of call_memory: states that agree on it go on alike.
MemoryView ==
    <<[c \in Call |-> Matters(c)], entries, rollups, now, resumed, clears, torn>>

=============================================================================
