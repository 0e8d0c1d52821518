------------------------------ MODULE HubCache ------------------------------
(***************************************************************************)
(* One repository of the hub cache with everything that writes to it:      *)
(* downloads, rebuilds of the friendly view, deletions of selected files,  *)
(* the end of the process, and the user.                                   *)
(***************************************************************************)
EXTENDS HubDelete

CONSTANTS
    FileSystems,  \* combinations of link kinds the roots may support
    MaxCrashes    \* bound: ends of the process

ASSUME CacheAssumption ==
    FileSystems \subseteq [Roots -> LinkKinds] /\ MaxCrashes \in Nat

VARIABLE crashes

vars == <<storeVars, publishVars, deleteVars, crashes>>

\* Names the user may have put into the friendly view: none, or one that
\* leads to a friendly entry, a snapshot entry, a payload or itself.
AliasTargets(n) ==
    {Absent} \cup {Link(p) : p \in {FriendlyPath(f) : f \in Files \cup {n}}
                                   \cup Snapshots \cup Blobs}

Init ==
    /\ supports \in FileSystems /\ StoreInit
    /\ PublishInit /\ DeleteInit /\ crashes = 0
    /\ \E alias \in [Aliases -> UNION {AliasTargets(n) : n \in Aliases}] :
         /\ \A n \in Aliases : alias[n] \in AliasTargets(n)
         /\ disk = [p \in Places |-> IF p \in Friendly /\ p[2] \in Aliases THEN alias[p[2]] ELSE Absent]

\* Jobs and rebuilds do not begin while a deletion holds the repository
\* (WriteLeases).  A job that asks for a file ends its deletion.
JobBegins(j) ==
    /\ ~Deleting /\ StartJob(j)
    /\ gone' = gone \ {SnapshotPath(JobCommit[j], f) : f \in JobFiles[j]}
    /\ UNCHANGED <<deletion, deletes, touches, crashes>>

RebuildBegins == ~Deleting /\ StartRebuild /\ UNCHANGED <<deleteVars, crashes>>
PublisherSteps == PublishStep /\ UNCHANGED <<deleteVars, crashes>>
DeletionSteps == DeleteStep /\ UNCHANGED crashes
UserSteps == (\E p \in Snapshots \cup Friendly : UserTouches(p)) /\ UNCHANGED crashes

Crash ==
    /\ crashes < MaxCrashes /\ crashes' = crashes + 1
    /\ Publishing \/ Deleting
    /\ PublishCrash /\ deletion' = NoDeletion
    /\ UNCHANGED <<faults, gone, deletes, touches>>

Next ==
    \/ \E j \in Jobs : JobBegins(j)
    \/ RebuildBegins \/ PublisherSteps \/ DeletionSteps \/ UserSteps \/ Crash

Spec == Init /\ [][Next]_vars

TypeOK == StoreTypeOK /\ PublishTypeOK /\ DeleteTypeOK

---------------------------------------------------------------------------
\* Whoever writes, fails or dies at whatever step, no saved version is left
\* with a link to a payload that is not there: payloads come before the
\* entries that need them and go after them.
NoDanglingEntry ==
    TypeOK /\ \A p \in Snapshots : disk[p].kind = "link" => disk[disk[p].to].kind = "file"

\* A job that answers "completed" has every file of its plan readable in the
\* saved version, but for files whose failed linking it has skipped over and
\* entries that another writer has removed to place them again.  (If that
\* writer's call fails, the entry is lost.)
AnotherWrites(p, t) == rebuilds > 0 \/ \E u \in Tasks \ {t} : SnapshotOf(u) = p
AnotherPlaces(p, t) ==
    \/ \E u \in Tasks \ {t} : task[u] = "snap" /\ SnapshotOf(u) = p /\ entry[u] = "place"
    \/ rebuild.stage = "repair" /\ rebuild.at = {p} /\ entry[RebuildProc] = "place"
    \/ faults > 0 /\ AnotherWrites(p, t)
CompletedIsPresent ==
    \A j \in Jobs : job[j] = "ref" => \A t \in JobTasks(j) :
        \/ Readable(disk, SnapshotOf(t), Content(t))
        \/ task[t] = "unlinked"
        \/ AnotherPlaces(SnapshotOf(t), t)

\* A rebuild that ran beside no download and reports no error has made the
\* friendly view show the version, and has repaired every entry of the
\* manifest that was not deleted and whose payload is there.
RebuildConverges ==
    rebuild.stage \in {"walk", "clean"} /\ rebuild.todo = {} /\ rebuild.alone /\ ~rebuild.errors =>
        \A f \in Files :
          LET v == rebuild.commit IN
          /\ Stat(SnapshotPath(v, f)).kind = "file" =>
               SameContent(Stat(SnapshotPath(v, f)), Stat(FriendlyPath(f)))
          /\ SnapshotPath(v, f) \in Repairs(v) /\ BlobComplete(Sha[v][f]) =>
               Exists(SnapshotPath(v, f))

\* What was deleted without an error stays deleted, through rebuilds and
\* downloads of other files, until a job asks for it again.
DeletedStaysDeleted == \A p \in gone : ~Exists(p)

\* A deletion takes the content away from no saved entry that was not selected,
\* from no name of the friendly view but those of the selected paths, and it
\* removes no file that has come into the place of an entry since it looked.
ShowsSelected(n) ==
    n \in DOMAIN deletion.leads /\ n[2] = deletion.leads[n][3]
DeletionSparesTheRest ==
    [][Deleting /\ touches' = touches =>
         /\ \A p \in Snapshots \cup Friendly :
              p \notin deletion.selected /\ ~ShowsSelected(p) /\ Stat(p).kind = "file" =>
                StatIn(disk', p) = Stat(p)
         /\ \A p \in Places : disk[p].kind = "file" /\ disk[p] # deletion.seen[p] =>
              disk'[p] = disk[p]]_vars

\* What the answer says is true: what it calls removed is gone; without an
\* error nothing of the selection is left, no friendly link leads to it, and
\* a payload is left only if another entry or name needed it when the
\* repository was inspected.
AnswerIsTrue ==
    [][deletion.stage = "blobs" /\ deletion'.stage = "answered" =>
         /\ \A p \in deletion.removed : disk'[p] = Absent
         /\ ~deletion.errors =>
              /\ \A p \in deletion.selected : disk'[p] = Absent
              /\ \A n \in Friendly : ~(disk'[n].kind = "link" /\ disk'[n].to \in deletion.selected)
              /\ \A b \in deletion.candidates : disk'[b] # Absent =>
                   \E p \in (Snapshots \cup Friendly) \ (deletion.selected \cup DOMAIN deletion.leads) :
                      StatIn(deletion.seen, p) = disk'[b]]_vars

\* A deletion removes what it answers, all of it, and nothing else.
DeletionIsExact == DeletionSparesTheRest /\ AnswerIsTrue

\* Saved versions are whole.
StoredIsPresent == NoDanglingEntry /\ CompletedIsPresent
=============================================================================
