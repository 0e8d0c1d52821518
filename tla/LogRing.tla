------------------------------ MODULE LogRing ------------------------------
(***************************************************************************)
(* The in-memory ring of the logging pipeline and the pages it answers:    *)
(* src/internal/logging/ring.go, emit in src/internal/logging/logging.go   *)
(* and handleRuntimeLogs in src/internal/server/runtime.go.                *)
(*                                                                         *)
(* emit numbers a record, writes it to the console and the file, and only  *)
(* then appends it to the ring; readers take the ring without the lock     *)
(* that serialises emit.  A record is its sequence number.  The handler    *)
(* keeps nothing about a client: what it answers is a function of the      *)
(* cursor it is given, and the cursor may be any number, as a client may   *)
(* have got it from an earlier run of the application.                     *)
(***************************************************************************)
EXTENDS Naturals, SequencesExt

CONSTANTS
    Capacity,  \* records the ring retains
    PageLimit, \* records a page carries
    MaxSeq     \* bound: records emitted

ASSUME RingAssumption ==
    /\ Capacity \in Nat \ {0}
    /\ PageLimit \in Nat \ {0}
    /\ MaxSeq \in Nat

VARIABLES
    seq,      \* Pipeline.seq
    emitting, \* a record was numbered and is not in the ring yet
    buf, start, count, oldest, newest  \* RingSink

ringVars == <<buf, start, count, oldest, newest>>
logVars == <<seq, emitting, ringVars>>

Seqs == 0..MaxSeq

LogTypeOK ==
    /\ seq \in Seqs /\ emitting \in BOOLEAN
    /\ buf \in [0..Capacity - 1 -> Seqs]
    /\ start \in 0..Capacity - 1 /\ count \in 0..Capacity
    /\ oldest \in Seqs /\ newest \in Seqs

LogInit ==
    /\ seq = 0 /\ emitting = FALSE
    /\ buf = [i \in 0..Capacity - 1 |-> 0]
    /\ start = 0 /\ count = 0 /\ oldest = 0 /\ newest = 0
-----------------------------------------------------------------------------
\* emit gives the record its number and writes it to the console and the file.
Number ==
    /\ ~emitting /\ seq < MaxSeq
    /\ seq' = seq + 1 /\ emitting' = TRUE
    /\ UNCHANGED ringVars

\* The buffer is circular.
Slot(i) == i % Capacity

\* Mutant: the start of a full ring does not move on.
StoreWithoutShift ==
    /\ emitting /\ emitting' = FALSE
    /\ UNCHANGED <<seq, start>>
    /\ IF count < Capacity
       THEN /\ buf' = [buf EXCEPT ![Slot(start + count)] = seq]
            /\ count' = count + 1
       ELSE /\ buf' = [buf EXCEPT ![start] = seq]
            /\ UNCHANGED count
    /\ newest' = seq
    /\ oldest' = IF count' = 1 THEN seq ELSE buf'[start']

\* RingSink.Append: a full ring loses its oldest record.
Store ==
    /\ emitting /\ emitting' = FALSE
    /\ UNCHANGED seq
    /\ IF count < Capacity
       THEN /\ buf' = [buf EXCEPT ![Slot(start + count)] = seq]
            /\ count' = count + 1
            /\ UNCHANGED start
       ELSE /\ buf' = [buf EXCEPT ![start] = seq]
            /\ start' = Slot(start + 1)
            /\ UNCHANGED count
    /\ newest' = seq
    /\ oldest' = IF count' = 1 THEN seq ELSE buf'[start']

LogNext == Number \/ Store

LogSpec == LogInit /\ [][LogNext]_logVars
-----------------------------------------------------------------------------
\* What a loop over s has kept of the set after each of its elements.
Kept(s, set) ==
    LET kept[i \in 0..Len(s)] ==
          IF i = 0 THEN <<>>
          ELSE IF s[i] \in set THEN Append(kept[i - 1], s[i]) ELSE kept[i - 1]
    IN  kept

\* RingSink.Records: the retained records after a cursor, oldest first, and
\* whether the answer is complete.
RingRecords == [i \in 1..count |-> buf[Slot(start + i - 1)]]

Records(from) ==
    IF from > newest \/ count = 0 \/ from = newest THEN <<>>
    ELSE Kept(RingRecords, {s \in Seqs : s > from})[count]

RecordsTruncated(from) ==
    \/ from > newest
    \/ count # 0 /\ from # newest /\ newest - from > newest - oldest + 1

\* Where a page ends: at its last wanted record when it is full, and behind
\* everything that was consumed otherwise.
PageEnd(kept, last) ==
    LET full == {i \in 1..last : Len(kept[i]) = PageLimit}
    IN  IF full = {} THEN last ELSE CHOOSE i \in full : \A j \in full : i <= j

\* Mutant: the cursor of a full page is that of everything that was read.
PageToNewest(from, level) ==
    LET read == Records(from)
        kept == Kept(read, level)
        end == PageEnd(kept, Len(read))
    IN  [records |-> kept[end],
         cursor |-> IF end = 0 THEN from ELSE Last(read),
         truncated |-> RecordsTruncated(from)]

\* handleRuntimeLogs: the records of the wanted level up to the limit of a page, and
\* the cursor for the next page, which a record of another level moves as well.
Page(from, level) ==
    LET read == Records(from)
        kept == Kept(read, level)
        end == PageEnd(kept, Len(read))
    IN  [records |-> kept[end],
         cursor |-> IF end = 0 THEN from ELSE read[end],
         truncated |-> RecordsTruncated(from)]
-----------------------------------------------------------------------------
Log == INSTANCE BoundedLog WITH log <- RingRecords

\* The circular buffer is a log of the most recent records: numbers without gaps,
\* the oldest dropped first, whatever the positions in the buffer (ring.go:69-91).
ImplementsLog == Log!Spec

Ascending(s) == \A i, j \in DOMAIN s : i < j => s[i] < s[j]

\* For every cursor a client could send and every filter, the page is the answer of
\* the retained log: up to the cursor it returns it carries every wanted record, in
\* order and once, it moves on when there is anything to read, and its flag says when
\* the answer is incomplete (ring.go:93-145, runtime.go:304-324).
PageAnswersLog(level) ==
    \A c \in Seqs :
        LET page == Page(c, level) IN
        /\ Ascending(page.records)
        /\ ToSet(page.records) = {s \in Log!After(c) \cap level : s <= page.cursor}
        /\ Len(page.records) <= PageLimit
        /\ Log!After(c) # {} => page.cursor > c
        /\ page.truncated = Log!Truncated(c)
=============================================================================
