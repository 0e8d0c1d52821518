----------------------------- MODULE HubPublish -----------------------------
(***************************************************************************)
(* The two writers of a repository in the hub cache: downloads, which      *)
(* store the payload of each file, place its snapshot entry and its        *)
(* friendly entry and then write the ref and the manifest; and the rebuild *)
(* of the friendly view (Sync).  An entry is compared, removed and placed  *)
(* in three steps that other writers can come between.                     *)
(* Source: pkg/hfdownloader/downloader.go (Download), hfcache.go, sync.go, *)
(* internal/server/api.go (handleCacheRebuild).                            *)
(***************************************************************************)
EXTENDS HubStore

CONSTANTS
    Jobs,        \* download jobs of this repository
    JobCommit,   \* plan.Commit of each job
    JobFiles,    \* paths of each job's plan
    MaxActive,   \* Settings.MaxActiveDownloads
    MaxStarts,   \* bound: starts of jobs
    MaxFaults,   \* bound: failing calls, cancellations included
    MaxRebuilds  \* bound: rebuilds

Tasks == UNION {{<<j, f>> : f \in JobFiles[j]} : j \in Jobs}
Commit(t) == JobCommit[t[1]]
Content(t) == Sha[Commit(t)][t[2]]
RebuildProc == <<"rebuild">>

ASSUME PublishAssumption ==
    /\ JobCommit \in [Jobs -> Versions] /\ JobFiles \in [Jobs -> SUBSET Files]
    /\ MaxActive \in Nat \ {0}
    /\ {MaxStarts, MaxFaults, MaxRebuilds} \subseteq Nat

VARIABLES
    temp,      \* contents c with a finished download blobs/tmp-<c>
    job,       \* state of each job
    task,      \* where the goroutine of each file is
    skip,      \* files whose payload was there already
    entry,     \* step of each writer in the placing of its current entry
    rebuild,   \* state of the rebuild
    starts, faults, rebuilds   \* bounds

publishVars == <<temp, job, task, skip, entry, rebuild, starts, faults, rebuilds>>

EntryStep == {"compare", "remove", "place"}
Idle == [stage |-> "idle", commit |-> None, todo |-> {}, at |-> {},
         errors |-> FALSE, alone |-> TRUE]

PublishTypeOK ==
    /\ temp \subseteq Contents
    /\ job \in [Jobs -> {"idle", "files", "ref", "manifest", "completed", "failed"}]
    /\ task \in [Tasks -> {"none", "check", "transfer", "verify", "store", "copy", "snap", "view",
                           "done", "unlinked", "failed"}]
    /\ skip \subseteq Tasks
    /\ entry \in [Tasks \cup {RebuildProc} -> EntryStep]
    /\ rebuild.stage \in {"idle", "repair", "walk", "clean", "unlink"}
    /\ rebuild.todo \subseteq Places

PublishInit ==
    /\ temp = {} /\ job = [j \in Jobs |-> "idle"]
    /\ task = [t \in Tasks |-> "none"] /\ skip = {}
    /\ entry = [p \in Tasks \cup {RebuildProc} |-> "compare"]
    /\ rebuild = Idle
    /\ starts = 0 /\ faults = 0 /\ rebuilds = 0

Active(j) == job[j] \in {"files", "ref", "manifest"}
Ended == {"done", "unlinked", "failed"}
Running == {t \in Tasks : task[t] \notin {"none"} \cup Ended}
Publishing == rebuild.stage # "idle" \/ \E j \in Jobs : Active(j)

Fault == faults < MaxFaults /\ faults' = faults + 1
NoFault == UNCHANGED faults

---------------------------------------------------------------------------
\* Placing one entry (createSnapshotSymlink, createFriendlySymlinkCtx): a
\* writer w works at place p for version v.  A comparison that fails counts
\* as a difference.
EntryIsKept(w, p, v) ==
    entry[w] = "compare" /\ CacheEntryCorrect(p, Source(p, v))
EntryDiffers(w, p, v) ==
    /\ entry[w] = "compare" /\ ~CacheEntryCorrect(p, Source(p, v))
    /\ entry' = [entry EXCEPT ![w] = "remove"]
    /\ UNCHANGED <<disk, linkFailed>>
OldEntryRemoved(w, p) ==
    /\ entry[w] = "remove"
    /\ disk' = [disk EXCEPT ![p] = Absent]
    /\ entry' = [entry EXCEPT ![w] = "place"]
    /\ UNCHANGED linkFailed

Placing(w, p, v, placed) ==
    LET result == PlaceCacheEntry(p, Source(p, v))
    IN /\ entry[w] = "place" /\ placed \in BOOLEAN
       /\ IF placed THEN result.placed /\ NoFault
          ELSE IF result.placed THEN result.copied /\ Fault ELSE NoFault
       /\ disk' = IF placed THEN [disk EXCEPT ![p] = result.entry] ELSE disk
       /\ linkFailed' = result.failed
       /\ entry' = [entry EXCEPT ![w] = "compare"]

\* The entry is in place, or could not be placed (placed = FALSE).
EntryEnds(w, p, v, placed) ==
    \/ placed /\ EntryIsKept(w, p, v) /\ UNCHANGED <<disk, linkFailed, entry, faults>>
    \/ Placing(w, p, v, placed)
EntryGoesOn(w, p, v) ==
    (EntryDiffers(w, p, v) \/ OldEntryRemoved(w, p)) /\ NoFault

---------------------------------------------------------------------------
\* A run of a job; its earlier answers are forgotten.
StartJob(j) ==
    /\ ~Active(j) /\ starts < MaxStarts /\ JobFiles[j] # {}
    /\ starts' = starts + 1
    /\ job' = [job EXCEPT ![j] = "files"]
    /\ task' = [t \in Tasks |-> IF t[1] = j THEN "none" ELSE task[t]]
    /\ skip' = {t \in skip : t[1] # j}
    /\ rebuild' = [rebuild EXCEPT !.alone = @ /\ rebuild.stage = "idle"]
    /\ UNCHANGED <<storeVars, temp, entry, faults, rebuilds>>

Goto(t, stage) == task' = [task EXCEPT ![t] = stage]

\* A goroutine for a file, as many at a time as lim has room for.
BeginFile(t) ==
    /\ job[t[1]] = "files" /\ task[t] = "none"
    /\ Cardinality({u \in Running : u[1] = t[1]}) < MaxActive
    /\ Goto(t, "check")
    /\ UNCHANGED <<storeVars, temp, job, skip, entry, rebuild, starts, faults, rebuilds>>

\* skipCheck: a payload that is there is linked and not fetched again.
SkipCheck(t) ==
    /\ task[t] = "check"
    /\ IF BlobComplete(Content(t))
       THEN Goto(t, "snap") /\ skip' = skip \cup {t}
       ELSE Goto(t, "transfer") /\ UNCHANGED skip
    /\ UNCHANGED <<storeVars, temp, job, entry, rebuild, starts, faults, rebuilds>>

\* downloadSingle or downloadMultipart (FileTransfer) leaves tmp-<sha> whole.
Transferred(t) ==
    /\ task[t] = "transfer" /\ Goto(t, "verify")
    /\ temp' = temp \cup {Content(t)}
    /\ UNCHANGED <<storeVars, job, skip, entry, rebuild, starts, faults, rebuilds>>

\* Verification reads the temporary file, which another job that fetched the
\* same payload may have moved away.
VerifyFile(t) ==
    /\ task[t] = "verify"
    /\ Goto(t, IF Content(t) \in temp THEN "store" ELSE "failed")
    /\ UNCHANGED <<storeVars, temp, job, skip, entry, rebuild, starts, faults, rebuilds>>

\* The file becomes the payload, unless the payload has come in the meantime;
\* a rename that fails (another device) is replaced by a copy.
StoreBlob(t) ==
    LET c == Content(t)
    IN /\ task[t] = "store"
       /\ \/ /\ BlobComplete(c) /\ temp' = temp \ {c} /\ Goto(t, "snap")
             /\ NoFault /\ UNCHANGED disk
          \/ /\ ~BlobComplete(c) /\ c \in temp
             /\ disk' = [disk EXCEPT ![BlobPath(c)] = NewFile(c)]
             /\ temp' = temp \ {c} /\ Goto(t, "snap") /\ NoFault
          \/ /\ ~BlobComplete(c) /\ c \in temp
             /\ Goto(t, "copy") /\ Fault /\ UNCHANGED <<disk, temp>>
          \/ /\ ~BlobComplete(c) /\ c \notin temp
             /\ Goto(t, "failed") /\ NoFault /\ UNCHANGED <<disk, temp>>
       /\ UNCHANGED <<ref, manifest, supports, linkFailed, job, skip, entry, rebuild, starts, rebuilds>>

\* copyFileAtomicCtx of the temporary file to the payload.
CopyBlob(t) ==
    LET c == Content(t)
    IN /\ task[t] = "copy"
       /\ IF c \in temp
          THEN /\ disk' = [disk EXCEPT ![BlobPath(c)] = NewFile(c)]
               /\ temp' = temp \ {c} /\ Goto(t, "snap")
          ELSE Goto(t, "failed") /\ UNCHANGED <<disk, temp>>
       /\ UNCHANGED <<ref, manifest, supports, linkFailed, job, skip, entry, rebuild, starts, faults, rebuilds>>

SnapshotOf(t) == SnapshotPath(Commit(t), t[2])
FriendlyOf(t) == FriendlyPath(t[2])

\* createSnapshotSymlink.  When it fails for a file that is skipped, the file
\* counts as done without an entry.
SnapshotEntry(t) ==
    /\ task[t] = "snap"
    /\ \/ EntryGoesOn(t, SnapshotOf(t), Commit(t)) /\ UNCHANGED task
       \/ EntryEnds(t, SnapshotOf(t), Commit(t), TRUE) /\ Goto(t, "view")
       \/ /\ EntryEnds(t, SnapshotOf(t), Commit(t), FALSE)
          /\ Goto(t, IF t \in skip THEN "unlinked" ELSE "failed")
    /\ UNCHANGED <<ref, manifest, supports, temp, job, skip, rebuild, starts, rebuilds>>

\* createFriendlySymlinkCtx.  Its failure is not reported for a skipped file.
FriendlyEntry(t) ==
    /\ task[t] = "view"
    /\ \/ EntryGoesOn(t, FriendlyOf(t), Commit(t)) /\ UNCHANGED task
       \/ EntryEnds(t, FriendlyOf(t), Commit(t), TRUE) /\ Goto(t, "done")
       \/ /\ EntryEnds(t, FriendlyOf(t), Commit(t), FALSE)
          /\ Goto(t, IF t \in skip THEN "done" ELSE "failed")
    /\ UNCHANGED <<ref, manifest, supports, temp, job, skip, rebuild, starts, rebuilds>>

\* The transfer, the verification or the copy of a payload fails or is
\* cancelled; the temporary file stays.
FileFails(t) ==
    /\ task[t] \in {"transfer", "verify", "copy"}
    /\ Fault /\ Goto(t, "failed")
    /\ UNCHANGED <<storeVars, temp, job, skip, entry, rebuild, starts, rebuilds>>

JobTasks(j) == {t \in Tasks : t[1] = j}

\* wg.Wait has returned.  After an error or a cancellation files may not have
\* been begun.
FilesEnd(j) ==
    /\ job[j] = "files" /\ JobTasks(j) \cap Running = {}
    /\ LET failed == \E t \in JobTasks(j) : task[t] = "failed"
       IN /\ failed \/ \A t \in JobTasks(j) : task[t] \in Ended
          /\ job' = [job EXCEPT ![j] = IF failed THEN "failed" ELSE "ref"]
    /\ UNCHANGED <<storeVars, temp, task, skip, entry, rebuild, starts, faults, rebuilds>>

\* WriteRef, then the manifest; a failure of either is only a warning.
WriteRef(j) ==
    /\ job[j] = "ref"
    /\ job' = [job EXCEPT ![j] = "manifest"]
    /\ \/ ref' = JobCommit[j] /\ NoFault
       \/ Fault /\ UNCHANGED ref
    /\ UNCHANGED <<disk, manifest, supports, linkFailed, temp, task, skip, entry, rebuild, starts, rebuilds>>

WriteManifest(j) ==
    /\ job[j] = "manifest"
    /\ job' = [job EXCEPT ![j] = "completed"]
    /\ \/ manifest' = Written(JobCommit[j], JobFiles[j]) /\ NoFault
       \/ Fault /\ UNCHANGED manifest
    /\ UNCHANGED <<disk, ref, supports, linkFailed, temp, task, skip, entry, rebuild, starts, rebuilds>>

---------------------------------------------------------------------------
\* The rebuild of the friendly view of this repository.  The version is that
\* of refs/main, else a snapshot, else that of the manifest.
SavedVersions == {v \in Versions : \E f \in Files : Exists(SnapshotPath(v, f))}
RebuildCommits ==
    IF ref # None THEN {ref}
    ELSE IF SavedVersions # {} THEN SavedVersions
    ELSE {manifest.commit} \ {None}

\* The entries repairSnapshotEntries looks at.
Repairs(v) ==
    IF manifest.commit # v THEN {}
    ELSE {SnapshotPath(v, f) : f \in {g \in manifest.files : ~IsDeleted(manifest, g, v)}}

StartRebuild ==
    /\ rebuild.stage = "idle" /\ rebuilds < MaxRebuilds
    /\ rebuilds' = rebuilds + 1
    /\ \E v \in RebuildCommits :
         rebuild' = [Idle EXCEPT !.stage = "repair", !.commit = v, !.todo = Repairs(v),
                                 !.alone = \A j \in Jobs : ~Active(j)]
    /\ UNCHANGED <<storeVars, temp, job, task, skip, entry, starts, faults>>

Handed(p) == rebuild' = [rebuild EXCEPT !.at = {p}]
Passed(p, ok) == rebuild' = [rebuild EXCEPT !.todo = @ \ {p}, !.at = {}, !.errors = @ \/ ~ok]

\* repairSnapshotEntries: an entry that is missing or dangles is placed again
\* from a payload that is there.  Regular files are left alone.
NeedsRepair(p) == ~Exists(p) \/ Dangles(p)
Repairable(p) ==
    disk[Source(p, rebuild.commit)].kind = "file" /\ NeedsRepair(p)

NextRepair(p) ==
    /\ rebuild.stage = "repair" /\ rebuild.at = {} /\ p \in rebuild.todo
    /\ IF Repairable(p) THEN Handed(p) ELSE Passed(p, TRUE)
    /\ UNCHANGED <<storeVars, temp, job, task, skip, entry, starts, faults, rebuilds>>

\* The walk over the files of the version: the friendly entry of the same
\* name is judged first; an entry that cannot be compared is only reported,
\* and a snapshot entry that has gone ends the walk.
NextWalk(p) ==
    LET name == FriendlyPath(p[3])
        src == Source(name, rebuild.commit)
    IN /\ rebuild.stage = "walk" /\ rebuild.at = {} /\ p \in rebuild.todo
       /\ CASE ~Exists(p) -> rebuild' = [rebuild EXCEPT !.todo = {}, !.errors = TRUE]
            [] Exists(p) /\ CannotCompare(name, src) -> Passed(p, FALSE)
            [] Exists(p) /\ CacheEntryCorrect(name, src) -> Passed(p, TRUE)
            [] OTHER -> Handed(p)
       /\ UNCHANGED <<storeVars, temp, job, task, skip, entry, starts, faults, rebuilds>>

RebuiltPlace(p) == IF rebuild.stage = "repair" THEN p ELSE FriendlyPath(p[3])

RebuildEntry(p) ==
    /\ rebuild.stage \in {"repair", "walk"} /\ rebuild.at = {p}
    /\ \/ EntryGoesOn(RebuildProc, RebuiltPlace(p), rebuild.commit) /\ UNCHANGED rebuild
       \/ \E ok \in BOOLEAN :
            EntryEnds(RebuildProc, RebuiltPlace(p), rebuild.commit, ok) /\ Passed(p, ok)
    /\ UNCHANGED <<ref, manifest, supports, temp, job, task, skip, starts, rebuilds>>

\* cleanOrphansInDir.
IsOrphan(p) == Dangles(p)

\* A link is followed and, later, removed.
NextClean(p) ==
    /\ rebuild.stage = "clean" /\ p \in rebuild.todo
    /\ \/ rebuild.at = {} /\ (IF IsOrphan(p) THEN Handed(p) ELSE Passed(p, TRUE)) /\ UNCHANGED disk
       \/ rebuild.at = {p} /\ disk' = [disk EXCEPT ![p] = Absent] /\ Passed(p, TRUE)
    /\ UNCHANGED <<ref, manifest, supports, linkFailed, temp, job, task, skip, entry, starts, faults, rebuilds>>

\* The next pass of the rebuild; cleaning is an option of the request.
NextStage ==
    /\ rebuild.stage # "idle" /\ rebuild.todo = {}
    /\ \/ /\ rebuild.stage = "repair"
          /\ rebuild' = [rebuild EXCEPT !.stage = "walk",
                           !.todo = {p \in Snapshots : p[2] = rebuild.commit /\ Exists(p)}]
       \/ /\ rebuild.stage = "walk"
          /\ rebuild' = [rebuild EXCEPT !.stage = "clean", !.todo = {p \in Friendly : Exists(p)}]
       \/ rebuild.stage \in {"walk", "clean"} /\ rebuild' = Idle
    /\ UNCHANGED <<storeVars, temp, job, task, skip, entry, starts, faults, rebuilds>>

---------------------------------------------------------------------------
PublishStep ==
    \/ \E j \in Jobs : FilesEnd(j) \/ WriteRef(j) \/ WriteManifest(j)
    \/ \E t \in Tasks :
         \/ BeginFile(t) \/ SkipCheck(t) \/ Transferred(t) \/ VerifyFile(t) \/ StoreBlob(t)
         \/ CopyBlob(t) \/ SnapshotEntry(t) \/ FriendlyEntry(t) \/ FileFails(t)
    \/ \E p \in Places : NextRepair(p) \/ NextWalk(p) \/ RebuildEntry(p) \/ NextClean(p)
    \/ NextStage

\* The process ends: its goroutines, requests and link memory are gone.
PublishCrash ==
    /\ job' = [j \in Jobs |-> IF Active(j) THEN "failed" ELSE job[j]]
    /\ task' = [t \in Tasks |-> "none"] /\ skip' = {}
    /\ entry' = [p \in Tasks \cup {RebuildProc} |-> "compare"]
    /\ rebuild' = Idle
    /\ linkFailed' = [r \in Roots |-> [sym |-> FALSE, hard |-> FALSE]]
    /\ UNCHANGED <<disk, ref, manifest, supports, temp, starts, rebuilds>>
=============================================================================
