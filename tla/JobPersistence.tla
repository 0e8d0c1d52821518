-------------------------- MODULE JobPersistence --------------------------
(***************************************************************************)
(* The job manager together with its state file, jobs_state.json: saving   *)
(* (saveState, finishClose, saveJobsState), crashes, and the reload at the *)
(* next start (LoadState).                                                 *)
(*                                                                         *)
(* JobManager leaves a save as a step that some time returns.  Here it is  *)
(* taken apart: a snapshot of all jobs, taken under saveMu, and a commit   *)
(* that replaces the file by a rename or leaves it as it was.              *)
(***************************************************************************)
EXTENDS JobManager

VARIABLES
    saves,          \* saves between snapshot and commit, which hold saveMu
    disk,           \* the status of each job in the state file
    lastSaveFailed  \* the latest save of this process did not commit

fileVars == <<saves, disk, lastSaveFailed>>
allVars  == <<vars, fileVars>>

\* A save belongs to a cancel or pause of a job (gen 0), to a run, or to
\* the close coordinator (job 0).
Saver == [job : {0} \cup JobId, gen : Nat]

FileTypeOK ==
    /\ TypeOK
    /\ saves \subseteq [owner : Saver, snap : [JobId -> Terminal \cup {Absent}]]
    /\ disk \in [JobId -> Terminal \cup {Absent}]
    /\ lastSaveFailed \in BOOLEAN

---------------------------------------------------------------------------
\* Active jobs are written as paused, so that they can be resumed.
Clamp(s) == IF s \in {"queued", "running"} THEN "paused" ELSE s

\* Mutant: queued and running jobs are not written at all.
SnapshotOfTerminal ==
    [j \in JobId |-> IF j \in jobs /\ status[j] \in Terminal THEN status[j] ELSE Absent]

Snapshot == [j \in JobId |-> IF j \in jobs THEN Clamp(status[j]) ELSE Absent]

\* Mutant: nothing excludes two saves at once.
NoSaveMu == TRUE

\* saveMu is held from the snapshot to the commit.
SaveMuFree == saves = {}

BeginSave(owner) ==
    /\ SaveMuFree
    /\ saves' = saves \cup {[owner |-> owner, snap |-> Snapshot]}
    /\ UNCHANGED <<vars, disk, lastSaveFailed>>

SaveAfterStop(j) ==
    /\ saveTails[j] > 0
    /\ BeginSave([job |-> j, gen |-> 0])

SaveAfterRun(r) ==
    /\ r.phase = "saving"
    /\ BeginSave([job |-> r.job, gen |-> r.gen])

FinalSave ==
    /\ closing = "draining"
    /\ Drained
    /\ BeginSave([job |-> 0, gen |-> 0])

\* The end of persistStateFile, by which its caller goes on: a failure is
\* logged, or kept as the result of Close.
CommitSave(s, success) ==
    /\ disk' = IF success THEN s.snap ELSE disk
    /\ lastSaveFailed' = ~success
    /\ saves' = saves \ {s}
    /\ \/ s.owner.gen = 0 /\ s.owner.job # 0 /\ StopSaved(s.owner.job)
       \/ \E r \in runs : s.owner = [job |-> r.job, gen |-> r.gen] /\ RunSaved(r)
       \/ s.owner.job = 0 /\ FinishClose

\* The process ends, at any point, and a new one loads the state file.
RestartProcess ==
    /\ jobs' = {j \in JobId : disk[j] # Absent}
    /\ status' = [j \in JobId |-> Clamp(disk[j])]
    /\ starting' = {}
    /\ generation' = [j \in JobId |-> 0]
    /\ cancelGen' = [j \in JobId |-> 0]
    /\ startedBefore' = {}
    /\ fenced' = FALSE
    /\ requeues' = 0
    /\ runs' = {}
    /\ pendingCancels' = {}
    /\ saveTails' = [j \in JobId |-> 0]
    /\ closing' = "open"
    /\ saves' = {}
    /\ lastSaveFailed' = FALSE
    /\ UNCHANGED <<nextId, request, maxActive, disk>>

---------------------------------------------------------------------------
FileInit ==
    /\ Init
    /\ saves = {}
    /\ disk = [j \in JobId |-> Absent]
    /\ lastSaveFailed = FALSE

ManagerStep ==
    /\ \/ UserStep
       \/ \E r \in runs : RunStep(r)
       \/ Issue
       \/ Quiesce
       \/ Close
    /\ UNCHANGED fileVars

SaveStep ==
    \/ \E j \in JobId : SaveAfterStop(j)
    \/ \E r \in runs : SaveAfterRun(r)
    \/ FinalSave
    \/ \E s \in saves, success \in BOOLEAN : CommitSave(s, success)

FileNext ==
    \/ ManagerStep
    \/ SaveStep
    \/ RestartProcess

FileSpec == FileInit /\ [][FileNext]_allVars

---------------------------------------------------------------------------
(* Properties *)

\* A save of the job's present status is still to come.
Owed(j) == saveTails[j] > 0 \/ \E r \in runs : r.job = j /\ r.phase = "saving"

\* When Close has completed, no goroutine is left, and unless its save failed
\* the file holds exactly the manager's final state.
ClosedIsFinal ==
    closing = "closed" =>
        /\ runs = {} /\ saves = {} /\ pendingCancels = {}
        /\ ~lastSaveFailed => disk = Snapshot

\* Once a cancel, a pause or an outcome has been saved, a restart finds it,
\* whatever older or newer saves of other jobs ran around it: no commit ever
\* puts an older snapshot in place of a newer one, and none comes after Close.
\* The file itself never holds a status that a restart would take for a job
\* at work.
SettledIsDurable ==
    /\ FileTypeOK
    /\ ~lastSaveFailed /\ ~Stopping =>
        \A j \in jobs : status[j] \in Terminal /\ ~Owed(j) => disk[j] = status[j]
    /\ ClosedIsFinal

\* A job that has reached the file is not lost from it while the manager
\* lists it: no save that began before the job was created commits after one
\* that knew it.
ListedJobIsNotLost ==
    [][\A j \in jobs : disk[j] # Absent => disk'[j] # Absent]_allVars
===========================================================================
