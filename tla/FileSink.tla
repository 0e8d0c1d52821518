------------------------------ MODULE FileSink ------------------------------
(***************************************************************************)
(* The rotating log file (src/internal/logging/file.go) across failures of *)
(* the file system and restarts of the process.                            *)
(*                                                                         *)
(* A write holds the sink's mutex, but the process can be killed between   *)
(* any two system calls of a rotation, so each of them is a step.  What a  *)
(* file holds is a sequence of lines; a line is the record it belongs to,  *)
(* its length, and whether it is complete.  The variables sinkFile and     *)
(* sinkPc are FileSink.file and the next system call.                      *)
(***************************************************************************)
EXTENDS Naturals, Sequences

CONSTANTS
    MaxSize,     \* size at which the file rotates
    MaxBackups,  \* rotated files that are kept
    Lengths,     \* lengths of encoded records
    MaxRecord,   \* bound: records written over all runs
    MaxFailures, \* bound: failing system calls
    MaxCrashes   \* bound: restarts of the process

ASSUME SinkAssumption ==
    /\ MaxSize \in Nat \ {0} /\ MaxBackups \in Nat
    /\ Lengths \subseteq Nat \ {0}
    /\ MaxRecord \in Nat /\ MaxFailures \in Nat /\ MaxCrashes \in Nat

\* A path either holds no file or one with some lines.
Absent == [exists |-> FALSE, lines |-> <<>>, size |-> 0]
Empty == [exists |-> TRUE, lines |-> <<>>, size |-> 0]

VARIABLES
    active,   \* the file at the sink's path
    backups,  \* the rotated files
    sinkFile, \* FileSink.file: open, stale (Close failed) or nil
    size,     \* FileSink.size
    failed,   \* an error was reported to the pipeline
    sinkPc,       \* the next system call of the write in progress
    shift,    \* loop variable of rotate
    rec,      \* the record being written
    records,  \* records handed to the sink so far, over all runs
    unwritten,\* records of this run that are in no file
    failures, crashes  \* counted for the bounds

disk == <<active, backups>>
sink == <<sinkFile, size>>
writeVars == <<sinkPc, shift, rec, records, unwritten>>
bounds == <<failures, crashes>>
sinkVars == <<disk, sink, failed, writeVars, bounds>>

Line == [record : 1..MaxRecord, length : Nat, whole : BOOLEAN]
File == [exists : BOOLEAN, lines : Seq(Line), size : Nat]

\* The file at the sink's path, and the n-th rotated one.
FileAt(n) == IF n = 0 THEN active ELSE backups[n]

SinkTypeOK ==
    /\ active \in File /\ backups \in [1..MaxBackups -> File]
    /\ sinkFile \in {"open", "stale", "nil"} /\ size \in Nat
    /\ failed \in BOOLEAN
    /\ sinkPc \in {"idle", "close", "remove", "shift", "move", "open", "write", "down"}
    /\ shift \in 0..MaxBackups
    /\ rec \in [record : 0..MaxRecord, length : Lengths \cup {0}]
    /\ records \in 0..MaxRecord
    /\ unwritten \subseteq 1..MaxRecord
    /\ failures \in 0..MaxFailures /\ crashes \in 0..MaxCrashes

SinkInit ==
    /\ active = Empty /\ backups = [n \in 1..MaxBackups |-> Absent]
    /\ sinkFile = "open" /\ size = 0 /\ failed = FALSE
    /\ sinkPc = "idle" /\ shift = 0
    /\ rec = [record |-> 0, length |-> 0]
    /\ records = 0 /\ unwritten = {}
    /\ failures = 0 /\ crashes = 0
-----------------------------------------------------------------------------
\* A bounded number of system calls fail; every one on a stale file does.
SystemCallFails ==
    \/ sinkFile = "stale" /\ UNCHANGED failures
    \/ sinkFile # "stale" /\ failures < MaxFailures /\ failures' = failures + 1

\* A system call fails: the write ends with an error, which the pipeline is
\* told, and the record is lost.
Fail ==
    /\ SystemCallFails
    /\ failed' = TRUE
    /\ sinkPc' = "idle"
    /\ unwritten' = unwritten \cup {rec.record}
    /\ UNCHANGED <<shift, rec, records, crashes>>

Proceed(next) ==
    /\ sinkPc' = next
    /\ UNCHANGED <<failed, rec, records, unwritten, bounds>>

\* A record arrives.  A sink without a file takes it and says nothing.
Write(length) ==
    /\ sinkPc = "idle" /\ records < MaxRecord
    /\ records' = records + 1
    /\ rec' = [record |-> records + 1, length |-> length]
    /\ sinkPc' = IF sinkFile = "nil" THEN "idle"
             ELSE IF size > 0 /\ size + length > MaxSize THEN "close"
             ELSE "write"
    /\ unwritten' = IF sinkFile = "nil" THEN unwritten \cup {records + 1} ELSE unwritten
    /\ UNCHANGED <<disk, sink, failed, shift, bounds>>

\* rotate: the active file is closed first.
CloseFile ==
    /\ sinkPc = "close"
    /\ \/ /\ sinkFile = "open" /\ sinkFile' = "nil"
          /\ Proceed(IF MaxBackups > 0 THEN "remove" ELSE "move")
          /\ UNCHANGED shift
       \/ Fail /\ sinkFile' = "stale"
    /\ UNCHANGED <<disk, size>>

\* The oldest rotated file goes; an error is ignored.
RemoveOldest ==
    /\ sinkPc = "remove"
    /\ \/ backups' = [backups EXCEPT ![MaxBackups] = Absent] /\ UNCHANGED failures
       \/ /\ failures < MaxFailures /\ failures' = failures + 1
          /\ UNCHANGED backups
    /\ sinkPc' = "shift" /\ shift' = MaxBackups - 1
    /\ UNCHANGED <<active, sink, failed, rec, records, unwritten, crashes>>

\* Mutant: the files are copied.
ShiftByCopy ==
    /\ sinkPc = "shift"
    /\ IF shift = 0
       THEN Proceed("move") /\ UNCHANGED <<shift, backups>>
       ELSE IF backups[shift] = Absent
       THEN Proceed("shift") /\ shift' = shift - 1 /\ UNCHANGED backups
       ELSE \/ /\ backups' = [backups EXCEPT ![shift + 1] = backups[shift]]
               /\ Proceed("shift") /\ shift' = shift - 1
            \/ Fail /\ UNCHANGED backups
    /\ UNCHANGED <<active, sink>>

\* The others move up by one, the older ones first.
Shift ==
    /\ sinkPc = "shift"
    /\ IF shift = 0
       THEN Proceed("move") /\ UNCHANGED <<shift, backups>>
       ELSE IF backups[shift] = Absent
       THEN Proceed("shift") /\ shift' = shift - 1 /\ UNCHANGED backups
       ELSE \/ /\ backups' = [backups EXCEPT ![shift + 1] = backups[shift],
                                             ![shift] = Absent]
               /\ Proceed("shift") /\ shift' = shift - 1
            \/ Fail /\ UNCHANGED backups
    /\ UNCHANGED <<active, sink>>

\* Mutant: the error is ignored, as that of the removal is.
MoveActiveIgnoresError ==
    /\ sinkPc = "move"
    /\ \/ /\ active' = Absent
          /\ backups' = IF MaxBackups = 0 \/ active = Absent THEN backups
                        ELSE [backups EXCEPT ![1] = active]
       \/ UNCHANGED disk
    /\ Proceed("open")
    /\ UNCHANGED <<shift, sink>>

\* The active file becomes the first rotated one, or goes when none is kept.
MoveActive ==
    /\ sinkPc = "move"
    /\ \/ /\ active' = Absent
          /\ backups' = IF MaxBackups = 0 \/ active = Absent THEN backups
                        ELSE [backups EXCEPT ![1] = active]
          /\ Proceed("open") /\ UNCHANGED shift
       \/ Fail /\ UNCHANGED disk
    /\ UNCHANGED sink

\* open(false): a new, empty file.
OpenNew ==
    /\ sinkPc = "open"
    /\ \/ /\ active' = Empty /\ sinkFile' = "open" /\ size' = 0
          /\ Proceed("write") /\ UNCHANGED shift
       \/ Fail /\ UNCHANGED <<active, sink>>
    /\ UNCHANGED backups

WithLine(length, whole) ==
    [active EXCEPT !.lines = Append(@, [record |-> rec.record, length |-> length,
                                        whole |-> whole]),
                   !.size = @ + length]

\* The line is appended, or only a part of it before an error.
AppendLine ==
    /\ sinkPc = "write"
    /\ \/ /\ sinkFile = "open"
          /\ active' = WithLine(rec.length, TRUE)
          /\ size' = size + rec.length
          /\ Proceed("idle") /\ UNCHANGED shift
       \/ /\ Fail
          /\ \E n \in 0..rec.length - 1 :
               /\ size' = size + n
               /\ active' = IF n = 0 THEN active ELSE WithLine(n, FALSE)
               /\ sinkFile = "stale" => n = 0
    /\ UNCHANGED <<backups, sinkFile>>

\* The process is killed, between any two system calls.
Crash ==
    /\ sinkPc # "down" /\ crashes < MaxCrashes
    /\ crashes' = crashes + 1
    /\ sinkPc' = "down"
    /\ UNCHANGED <<disk, sink, failed, shift, rec, records, unwritten, failures>>

\* NewFileSink: an existing file is kept and its size read (a failing Stat of the
\* file just opened is left out).
Reopen ==
    /\ sinkPc = "down" /\ sinkPc' = "idle"
    /\ active' = [active EXCEPT !.exists = TRUE]
    /\ size' = active.size
    /\ sinkFile' = "open" /\ failed' = FALSE /\ unwritten' = {}
    /\ UNCHANGED <<backups, shift, rec, records, bounds>>

SinkNext ==
    \/ \E length \in Lengths : Write(length)
    \/ CloseFile \/ RemoveOldest \/ Shift \/ MoveActive \/ OpenNew \/ AppendLine
    \/ Crash \/ Reopen

SinkSpec == SinkInit /\ [][SinkNext]_sinkVars
-----------------------------------------------------------------------------
\* The records that have a line in some file.
RecordsIn(f) == {f.lines[i].record : i \in DOMAIN f.lines}
OnDisk == UNION {RecordsIn(FileAt(n)) : n \in 0..MaxBackups}

\* Read from the oldest rotated file to the active one, the records are in the order
\* of emission and none appears twice, also after rotations that failed or were cut
\* short (file.go:159-172).
FilesInOrder ==
    \A n, m \in 0..MaxBackups :
        \A i \in DOMAIN FileAt(n).lines, j \in DOMAIN FileAt(m).lines :
            n > m \/ (n = m /\ i < j)
            => FileAt(n).lines[i].record < FileAt(m).lines[j].record

\* "The active file rotates once it would grow past the configured maximum size":
\* across failed rotations, torn writes and restarts, with the size re-read from the
\* disk, only a file of one record exceeds it (file.go:17-23, 104-106, 130-149).
SizeBounded ==
    /\ SinkTypeOK
    /\ sinkFile = "open" => size = active.size
    /\ \A n \in 0..MaxBackups : FileAt(n).size > MaxSize => Len(FileAt(n).lines) = 1

\* A record that is in no file was reported: once a rotation has failed the sink
\* drops everything without a word, but not before the pipeline was told
\* (file.go:103-105, 107-110, 121-126).
NoSilentLoss == unwritten # {} => failed

\* The log on disk is in order, bounded, and complete unless an error was told.
FilesAreSound == FilesInOrder /\ SizeBounded /\ NoSilentLoss

\* Rotation drops the oldest lines only: a line does not disappear while an older one
\* is kept, whichever step of the rotation fails (file.go:159-176).
OldestGoFirst ==
    [][\A r \in OnDisk \ OnDisk' : \A s \in OnDisk' : s > r]_sinkVars
=============================================================================
