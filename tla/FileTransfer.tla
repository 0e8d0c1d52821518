--------------------------- MODULE FileTransfer ---------------------------
(***************************************************************************)
(* The transfer of one file: downloadSingle and downloadMultipart with the *)
(* partial files they leave for the next run (dst.part, dst.part-NN and    *)
(* the layout in dst.parts.json).  A run may be cancelled, paused, aborted *)
(* by another file of its job, give up or be killed; the next one may use  *)
(* another number of connections, or one request instead of several.       *)
(* Source: pkg/hfdownloader/downloader.go.                                 *)
(*                                                                         *)
(* The content of a file is the sequence of the offsets of its bytes, in   *)
(* units; slot 0 is dst.part and slot i is dst.part-(i-1).  A body that    *)
(* ends without an error has brought the range that was asked for (net/http*)
(* compares it with Content-Length).                                       *)
(***************************************************************************)
EXTENDS Integers, Sequences, FiniteSets

CONSTANTS
    NoFile,               \* what stands for the content of a file that does not exist
    Size,                 \* PlanItem.Size, known and at least 1
    Concurrencies,        \* values of Settings.Concurrency
    Retries,              \* Settings.Retries
    MaxAttemptsPerRetry,  \* maxAttemptsPerRetry
    MaxRuns               \* bound: runs of the job

MaxN == CHOOSE n \in Concurrencies : \A m \in Concurrencies : m <= n
Slot == 0..MaxN
Part == 1..MaxN

TransferAssumption ==
    /\ Size \in Nat \ {0} /\ Retries \in Nat /\ MaxAttemptsPerRetry \in Nat
    /\ Concurrencies \subseteq Nat \ {0} /\ Concurrencies # {} /\ IsFiniteSet(Concurrencies)
    /\ MaxRuns \in Nat /\ NoFile \notin Seq(0..(Size - 1))

VARIABLES
    file,    \* content of dst.part and of the part files
    layout,  \* the concurrency in dst.parts.json, 0 if there is none
    dst,     \* content of dst
    phase,   \* where the run is
    n,       \* connections of the run
    ctx,     \* state of the context of the file, and who cancelled it
    failed,  \* partErr is set, or the answer to the run: a permanent error was met
    conn,    \* the request loops, one per part, or the single one
    runs     \* bound: runs so far

disk == <<file, layout, dst>>
vars == <<disk, phase, n, ctx, failed, conn, runs>>

Whole == [i \in 1..Size |-> i - 1]

Chunk(k) == Size \div k
Lo(k, s) == IF s = 0 THEN 0 ELSE (s - 1) * Chunk(k)

Hi(k, s) == IF s \in {0, k} THEN Size - 1 ELSE Lo(k, s) + Chunk(k) - 1
PartRange(k, s) == [i \in 1..(Hi(k, s) - Lo(k, s) + 1) |-> Lo(k, s) + i - 1]

IsPrefixOf(a, b) == Len(a) <= Len(b) /\ \A i \in 1..Len(a) : a[i] = b[i]

Ceiling == (Retries + 1) * MaxAttemptsPerRetry

\* pos, hwm, remaining, attempt: the variables of the loop; next: the offset of the
\* byte that the body brings next; restarted: the server ignored Range; idle counts
\* the requests since the last one that earned a refund (history).
Conn == [state : {"off", "open", "ready", "body", "done", "stopped", "gaveup"},
         pos : 0..Size, hwm : 0..Size, next : 0..Size, restarted : BOOLEAN,
         remaining : 0..Retries, attempt : 0..Ceiling, idle : 0..(Ceiling + 1)]

ConnAt(state, pos) ==
    [state |-> state, pos |-> pos, hwm |-> pos, next |-> 0, restarted |-> FALSE,
     remaining |-> Retries, attempt |-> 0, idle |-> 0]

Off == [s \in Slot |-> ConnAt("off", 0)]

TypeOK ==
    /\ \A s \in Slot : file[s] = NoFile \/ file[s] \in Seq(0..(Size - 1))
    /\ layout \in Concurrencies \cup {0, 1} /\ (dst = NoFile \/ dst \in Seq(0..(Size - 1)))
    /\ phase \in {"idle", "head", "prepare", "wipe", "parts", "single",
                  "assemble", "tidy"}
    /\ n \in Concurrencies \cup {1}
    /\ ctx \in {"live", "cancelled", "paused", "aborted", "killed"}
    /\ failed \in BOOLEAN /\ conn \in [Slot -> Conn]
    /\ runs \in 0..MaxRuns

Init ==
    /\ file = [s \in Slot |-> NoFile] /\ layout = 0 /\ dst = NoFile
    /\ phase = "idle" /\ n \in Concurrencies /\ ctx = "live" /\ failed = FALSE
    /\ conn = Off /\ runs = 0

SetConn(s, c) == conn' = [conn EXCEPT ![s] = c]
SetFile(s, content) == file' = [file EXCEPT ![s] = content]

Parts == {i \in Part : file[i] # NoFile}

\* The parts that wg.Wait waits for.
Working == {i \in 1..n : conn[i].state \in {"open", "ready", "body"}}
Stopped == ctx # "live"

EndRun == phase' = "idle" /\ conn' = Off /\ UNCHANGED <<n, ctx, failed, runs>>

\* Mutant: a pause is taken for a cancel.
CleanupPartialsAlways == file' = [s \in Slot |-> NoFile] /\ layout' = 0

\* cleanupPartialsOnCancel, taken as one step; CleanupPartialsOnCancel answers that the
\* job was cancelled.
CleanupPartialsOnCancel ==
    IF ctx = "cancelled"
    THEN file' = [s \in Slot |-> NoFile] /\ layout' = 0
    ELSE UNCHANGED <<file, layout>>

\* A run that finds its context done ends; an internal abort keeps what can be resumed.
StopRun ==
    /\ IF ctx = "aborted" THEN UNCHANGED <<file, layout>> ELSE CleanupPartialsOnCancel
    /\ UNCHANGED dst /\ EndRun
-----------------------------------------------------------------------------
(* The run begins, and what happens to it from outside. *)

\* Download asks for the file unless it is there (skipCheck); the settings of this run
\* say how.
Start ==
    /\ phase = "idle" /\ dst = NoFile /\ runs < MaxRuns /\ runs' = runs + 1
    /\ ctx' = "live" /\ failed' = FALSE
    /\ \/ /\ phase' = "single" /\ n' = 1
          /\ conn' = [Off EXCEPT ![0] = ConnAt("open", 0)]
       \/ /\ phase' = "head" /\ conn' = Off
          /\ \E k \in Concurrencies : n' = IF Chunk(k) = 0 THEN 1 ELSE k
    /\ UNCHANGED disk

\* CancelJob; PauseJob, UpdateConfig or Close; a permanent error of another file.
StopFromOutside ==
    /\ phase # "idle" /\ ctx = "live" /\ ctx' \in {"cancelled", "paused", "aborted"}
    /\ UNCHANGED <<disk, phase, n, failed, conn, runs>>

\* The process ends; what was written stays.
Kill ==
    /\ phase # "idle" /\ ctx' = "killed" /\ phase' = "idle" /\ conn' = Off
    /\ UNCHANGED <<disk, n, failed, runs>>
-----------------------------------------------------------------------------
(* One request loop. *)

\* out.Seek(0, io.SeekCurrent) after the body broke.
PosAfter(s, c) == Len(file[s])

\* Progress is what lies beyond the highest offset so far, unless the server made the
\* transfer start over.
Advanced(pos, c) == pos > c.hwm /\ ~c.restarted

\* The end of an attempt that failed: the budget, and the next attempt if there is one.
AfterFailure(s, c) ==
    LET pos == IF c.state = "body" THEN PosAfter(s, c) ELSE c.pos
        left == IF Advanced(pos, c) THEN Retries ELSE c.remaining
        idle == IF pos > c.hwm /\ ~c.restarted THEN 0 ELSE c.idle + 1
        tried == [c EXCEPT !.pos = pos, !.hwm = IF pos > @ THEN pos ELSE @,
                           !.restarted = FALSE, !.idle = idle, !.remaining = left]
    IN  IF left = 0 \/ c.attempt >= Ceiling
        THEN [tried EXCEPT !.state = "gaveup"]
        ELSE [tried EXCEPT !.state = "ready", !.remaining = left - 1,
                           !.attempt = c.attempt + 1]

Loops == IF phase = "single" THEN {0} ELSE IF phase = "parts" THEN 1..n ELSE {}

\* The part file is opened without truncating it; one that is too long starts over.
OpenPart(s) ==
    /\ phase = "parts" /\ s \in 1..n /\ conn[s].state = "open"
    /\ LET held == IF file[s] = NoFile THEN <<>> ELSE file[s]
           expected == Hi(n, s) - Lo(n, s) + 1
           kept == IF Len(held) > expected THEN <<>> ELSE held
       IN  /\ SetFile(s, kept)
           /\ SetConn(s, ConnAt(IF Len(kept) = expected THEN "done" ELSE "ready", Len(kept)))
    /\ UNCHANGED <<layout, dst, phase, n, ctx, failed, runs>>

\* A dst.part that is complete becomes dst without a request.
OpenSingle ==
    /\ phase = "single" /\ conn[0].state = "open"
    /\ LET held == IF file[0] = NoFile THEN <<>> ELSE file[0]
           kept == IF Len(held) > Size THEN <<>> ELSE held
       IN  IF Len(kept) = Size
           THEN dst' = kept /\ SetFile(0, NoFile) /\ EndRun
           ELSE /\ SetFile(0, kept) /\ SetConn(0, ConnAt("ready", Len(kept)))
                /\ UNCHANGED <<dst, phase, n, ctx, failed, runs>>
    /\ UNCHANGED layout

\* The server sends the range.
AnswerRange(s) ==
    /\ s \in Loops /\ conn[s].state = "ready" /\ ~Stopped /\ ~failed
    /\ SetConn(s, [conn[s] EXCEPT !.state = "body", !.next = Lo(n, s) + conn[s].pos])
    /\ UNCHANGED <<disk, phase, n, ctx, failed, runs>>

\* The server ignores Range: the single transfer starts over.
AnswerWhole ==
    /\ phase = "single" /\ conn[0].state = "ready" /\ ~Stopped /\ conn[0].pos > 0
    /\ SetFile(0, <<>>)
    /\ SetConn(0, [conn[0] EXCEPT !.state = "body", !.next = 0, !.restarted = TRUE])
    /\ UNCHANGED <<layout, dst, phase, n, ctx, failed, runs>>

\* One unit of the body is written.
Receive(s) ==
    /\ s \in Loops /\ conn[s].state = "body" /\ conn[s].next <= Hi(n, s)
    /\ SetFile(s, Append(file[s], conn[s].next))
    /\ SetConn(s, [conn[s] EXCEPT !.next = @ + 1])
    /\ UNCHANGED <<layout, dst, phase, n, ctx, failed, runs>>

\* The part is complete.
PartDone(s) ==
    /\ phase = "parts" /\ s \in 1..n /\ conn[s].state = "body" /\ conn[s].next > Hi(n, s)
    /\ SetConn(s, [conn[s] EXCEPT !.state = "done"])
    /\ UNCHANGED <<disk, phase, n, ctx, failed, runs>>

SingleDone ==
    /\ phase = "single" /\ conn[0].state = "body" /\ conn[0].next > Hi(n, 0)
    /\ dst' = file[0] /\ SetFile(0, NoFile) /\ UNCHANGED layout /\ EndRun

\* The connection fails, the server throttles or has an error, the body breaks or
\* stalls, or the context is done.
AttemptFails(s) ==
    /\ s \in Loops /\ conn[s].state \in {"ready", "body"}
    /\ LET c == AfterFailure(s, conn[s])
       IN  IF phase = "single" /\ c.state = "gaveup"
           THEN IF Stopped THEN StopRun ELSE UNCHANGED disk /\ EndRun
           ELSE SetConn(s, c) /\ UNCHANGED <<disk, phase, n, ctx, failed, runs>>

\* The loop looks at its context, or sleeps when it is done.
LoopStops(s) ==
    /\ s \in Loops /\ conn[s].state = "ready" /\ (Stopped \/ failed)
    /\ IF phase = "single" THEN StopRun
       ELSE /\ SetConn(s, [conn[s] EXCEPT !.state = "stopped"])
            /\ UNCHANGED <<disk, phase, n, ctx, failed, runs>>

\* 401, 403 and 404 end the transfer and remove a partial file that is empty; other 4xx
\* do not remove it.
PermanentError(s) ==
    /\ s \in Loops /\ conn[s].state = "ready"
    /\ \/ file[s] = <<>> /\ SetFile(s, NoFile)
       \/ UNCHANGED file
    /\ failed' = TRUE
    /\ IF phase = "single" THEN phase' = "idle" /\ conn' = Off
       ELSE SetConn(s, [conn[s] EXCEPT !.state = "stopped"]) /\ UNCHANGED phase
    /\ UNCHANGED <<layout, dst, n, ctx, runs>>
-----------------------------------------------------------------------------
(* Several connections. *)

\* HEAD is answered.
Probe ==
    /\ phase = "head" /\ phase' = "prepare"
    /\ UNCHANGED <<disk, n, ctx, failed, conn, runs>>

\* HEAD gets 401, 403 or 404.
ProbeRefused ==
    /\ phase = "head" /\ phase' = "idle" /\ failed' = TRUE
    /\ IF file[0] = <<>> THEN SetFile(0, NoFile) ELSE UNCHANGED file
    /\ UNCHANGED <<layout, dst, n, ctx, conn, runs>>

\* The connection fails, the retries are used up, or the context is done.
ProbeFails == phase = "head" /\ UNCHANGED disk /\ EndRun

WriteLayout ==
    /\ layout' = n /\ phase' = "parts"
    /\ conn' = [s \in Slot |-> ConnAt(IF s \in 1..n THEN "open" ELSE "off", 0)]

\* prepareMultipartResume: parts of another layout, or of none, are not used.
PrepareMultipartResume ==
    /\ phase = "prepare"
    /\ IF Parts # {} /\ layout # n
       THEN phase' = "wipe" /\ UNCHANGED <<file, layout, conn>>
       ELSE /\ WriteLayout
            /\ file' = [s \in Slot |-> IF s > n THEN NoFile ELSE file[s]]
    /\ UNCHANGED <<dst, n, ctx, failed, runs>>

\* Mutant: the new layout is written before the old parts are gone.
WipeAfterLayout ==
    /\ phase = "wipe"
    /\ IF layout # n
       THEN layout' = n /\ UNCHANGED <<file, phase, conn>>
       ELSE IF Parts # {}
       THEN (\E i \in Parts : SetFile(i, NoFile)) /\ UNCHANGED <<layout, phase, conn>>
       ELSE WriteLayout /\ UNCHANGED file
    /\ UNCHANGED <<dst, n, ctx, failed, runs>>

\* removeMultipartResumeFiles: the parts go, then the layout; the new one is written.
Wipe ==
    /\ phase = "wipe"
    /\ IF Parts # {}
       THEN (\E i \in Parts : SetFile(i, NoFile)) /\ UNCHANGED <<layout, phase, conn>>
       ELSE IF layout # 0 THEN layout' = 0 /\ UNCHANGED <<file, phase, conn>>
       ELSE WriteLayout /\ UNCHANGED file
    /\ UNCHANGED <<dst, n, ctx, failed, runs>>

\* All loops have ended: a permanent error goes first, then the context, then a part
\* that gave up; otherwise dst.part is created.
Join ==
    /\ phase = "parts" /\ Working = {}
    /\ IF failed THEN UNCHANGED disk /\ EndRun
       ELSE IF Stopped THEN StopRun
       ELSE IF \E i \in 1..n : conn[i].state = "gaveup" THEN UNCHANGED disk /\ EndRun
       ELSE /\ phase' = "assemble" /\ SetFile(0, <<>>)
            /\ UNCHANGED <<layout, dst, n, ctx, failed, conn, runs>>

\* The parts one after the other.
Joined ==
    LET upTo[i \in 0..n] == IF i = 0 THEN <<>> ELSE upTo[i - 1] \o file[i] IN upTo[n]

\* removeIncompleteAssembly: an internal abort removes what was assembled and keeps the
\* parts; a pause keeps both.
StopAssembly ==
    IF ctx = "aborted" THEN SetFile(0, NoFile) /\ UNCHANGED <<layout, dst>> /\ EndRun
    ELSE StopRun

\* The next unit is copied; a context that is done ends the copy, also within a part.
Assemble ==
    /\ phase = "assemble" /\ file[0] # Joined
    /\ IF ~Stopped
       THEN /\ SetFile(0, SubSeq(Joined, 1, Len(file[0]) + 1))
            /\ UNCHANGED <<layout, dst, phase, n, ctx, failed, conn, runs>>
       ELSE StopAssembly

PublishAssembly ==
    /\ phase = "assemble" /\ file[0] = Joined
    /\ IF ~Stopped
       THEN /\ dst' = file[0] /\ SetFile(0, NoFile) /\ phase' = "tidy"
            /\ UNCHANGED <<layout, n, ctx, failed, conn, runs>>
       ELSE StopAssembly

\* The parts are removed in order, and the layout last.
Tidy ==
    /\ phase = "tidy"
    /\ LET left == {i \in 1..n : file[i] # NoFile}
       IN  IF left # {}
           THEN /\ SetFile(CHOOSE i \in left : \A j \in left : i <= j, NoFile)
                /\ UNCHANGED <<layout, phase, n, ctx, failed, conn, runs>>
           ELSE layout' = 0 /\ UNCHANGED file /\ EndRun
    /\ UNCHANGED dst
-----------------------------------------------------------------------------
Loop(s) ==
    \/ OpenPart(s) \/ AnswerRange(s) \/ Receive(s) \/ PartDone(s)
    \/ AttemptFails(s) \/ LoopStops(s) \/ PermanentError(s)

RunStep ==
    \/ \E s \in Slot : Loop(s)
    \/ OpenSingle \/ AnswerWhole \/ SingleDone
    \/ Probe \/ ProbeRefused \/ ProbeFails \/ PrepareMultipartResume \/ Wipe \/ Join
    \/ Assemble \/ PublishAssembly \/ Tidy

Next == Start \/ StopFromOutside \/ Kill \/ RunStep

Spec == Init /\ [][Next]_vars

\* A run that has begun goes on; the stall watchdog ends a body that brings nothing.
FairSpec == Spec /\ WF_vars(RunStep)
-----------------------------------------------------------------------------
\* What becomes dst is the whole file, whatever was left by earlier runs with other
\* settings (downloader.go:1401-1420, 1991-2037, 2064-2107).
PublishedIsWhole == dst # NoFile => dst = Whole

\* Every part on disk holds the beginning of its range in the layout on disk, also
\* after a crash anywhere: a part of another layout is never taken for one of this.
\* dst.part is the beginning of the file, so that a single transfer can resume what an
\* assembly left (downloader.go:166-196, 1401-1431, 2064-2107).
PartsMatchLayout ==
    /\ TypeOK
    /\ \A i \in Parts : layout # 0 /\ i <= layout /\ IsPrefixOf(file[i], PartRange(layout, i))
    /\ file[0] # NoFile => IsPrefixOf(file[0], Whole)

\* No more than Retries + 1 requests in a row bring nothing new
\* (docs/API.md:944, downloader.go:1567-1590).
BudgetIsRespected ==
    \A s \in Slot : conn[s].idle <= Retries + 1

\* What earlier runs left, what this one adds and what it publishes fit together.
BytesAreSound == PublishedIsWhole /\ PartsMatchLayout /\ BudgetIsRespected

Held(f, s) == IF f[s] = NoFile THEN 0 ELSE Len(f[s])

\* Bytes of a part are given up only for another layout, once the file is published, or
\* for a cancelled job: a pause, an abort, an error and a crash keep them
\* (downloader.go:1341-1363, 1758-1802, 2116-2131).
ResumableBytesAreKept ==
    [][(\E i \in Part : Held(file', i) < Held(file, i))
       => phase = "wipe" \/ dst # NoFile \/ ctx = "cancelled"]_vars

\* Every run ends: with the file, an error or its context (downloader.go:1461-1613, 1991-1997).
TransferEnds == []<>(phase = "idle")
=============================================================================
