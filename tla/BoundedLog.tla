----------------------------- MODULE BoundedLog -----------------------------
(***************************************************************************)
(* What a reader may expect of the in-memory log: the records that were    *)
(* emitted, of which the most recent Capacity are retained.  LogRing shows *)
(* that the circular buffer implements it.                                 *)
(*                                                                         *)
(* A record is its sequence number; the pipeline numbers from 1 without    *)
(* gaps (src/internal/logging/logging.go).                                 *)
(***************************************************************************)
EXTENDS Naturals, SequencesExt

CONSTANTS Capacity, MaxSeq

VARIABLE log

\* The last n elements of s, or all of them.
Latest(s, n) == IF Len(s) <= n THEN s ELSE SubSeq(s, Len(s) - n + 1, Len(s))

Init == log = <<>>

Next ==
    \E seq \in 1..MaxSeq :
        /\ log = <<>> => seq = 1
        /\ log # <<>> => seq = Last(log) + 1
        /\ log' = Latest(Append(log, seq), Capacity)

Spec == Init /\ [][Next]_log

Newest == IF log = <<>> THEN 0 ELSE Last(log)

\* The answer to "what came after this cursor?", and whether it leaves anything out
\* or the cursor is none of this run.
After(cursor) == {s \in ToSet(log) : s > cursor}
Truncated(cursor) == cursor > Newest \/ (cursor + 1)..Newest \ ToSet(log) # {}
=============================================================================
