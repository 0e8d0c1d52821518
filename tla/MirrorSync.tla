----------------------------- MODULE MirrorSync -----------------------------
(***************************************************************************)
(* Mirroring one hub to another: the repositories of both are listed, the  *)
(* missing ones copied file by file, the copies compared, the extra ones   *)
(* deleted.  Copies fail, the process ends, and downloads go on at either  *)
(* side (a job that runs already does not keep a request away).            *)
(* Source: internal/server/mirror.go.                                      *)
(***************************************************************************)
EXTENDS Integers, Sequences, FiniteSets

CONSTANTS
    Repositories,  \* <<type, name>> each
    Files,         \* a repository in the order of a walk, its directory first
    Payloads,      \* the files below blobs, which a commit shares with the next
    Dir, Link,     \* the directory and a link below snapshots, made in one step
    Filters,       \* filters of a request: names, "" for none
    Present,       \* what a hub may hold at first: sets of repositories
    MaxSyncs,      \* bound: requests
    MaxFailures,   \* bound: copies and removals that fail, ends of the process
    MaxUpdates     \* bound: commits downloaded meanwhile

FileSet == {Files[i] : i \in DOMAIN Files}
NameOf(r) == r[2]
Sides == {"source", "target"}

ASSUME MirrorAssumption ==
    /\ Files \in Seq(FileSet) /\ Payloads \cup {Dir, Link} \subseteq FileSet
    /\ Files[1] = Dir /\ Dir # Link /\ {Dir, Link} \cap Payloads = {}
    /\ Present \subseteq SUBSET Repositories /\ {MaxSyncs, MaxFailures, MaxUpdates} \subseteq Nat

\* A file that follows the branch holds a commit, any other is whole; a copy
\* that was cut off leaves a part.
NoFile == 0
Whole == 1
Part == -1
Commits == 1..(MaxUpdates + 1)
NoRepo == [f \in FileSet |-> NoFile]
FirstCommit == [f \in FileSet |-> Whole]
Follows(f) == f \notin Payloads \cup {Dir}

VARIABLES
    hub,        \* files of each repository at the source and the destination
    options,    \* of the request
    sync,       \* step of the request, its plan and its answer
    planned,    \* history: the source, and what was to be copied, at the plan
    syncs, failures, updates   \* bounds

mirrorVars == <<hub, options, sync, planned, syncs, failures, updates>>

Idle == [step |-> "idle", copy |-> {}, delete |-> {}, at |-> <<>>, next |-> 1, ok |-> TRUE]

MirrorTypeOK ==
    /\ hub \in [Sides -> [Repositories -> [FileSet -> {NoFile, Part} \cup Commits]]]
    /\ sync.step \in {"idle", "plan", "copy", "verify", "delete", "answered", "in sync"}
    /\ {sync.copy, sync.delete} \subseteq SUBSET Repositories

\* scanHubForMirror: a repository is there when its directory is.
Listed(side) == {r \in Repositories : hub[side][r][Dir] # NoFile}
NamesAt(side) == {NameOf(r) : r \in Listed(side)}

\* countBlobs and compareRepoIntegrity.
Blobs(side, r) == {f \in Payloads : hub[side][r][f] # NoFile}
NeedsUpdate(r) ==
    \/ hub["target"][r][Dir] = NoFile
    \/ Cardinality(Blobs("source", r)) > Cardinality(Blobs("target", r))

\* handleMirrorDiff keys the repositories by name, and the model comes after
\* the dataset.
Shown(side, name) ==
    IF <<"model", name>> \in Listed(side) THEN <<"model", name>> ELSE <<"dataset", name>>
Outdated(name) ==
    /\ name \in NamesAt("source") \cap NamesAt("target")
    /\ LET ref(side) == hub[side][Shown(side, name)]["ref"]
       IN ref("source") # ref("target") /\ {ref("source"), ref("target")} \subseteq Commits

\* The plan.  The lists are compared by the name of a repository without its
\* type.  A filter is one name, or none.
Wanted(r) == options.filter \in {"", NameOf(r)}

ToCopy ==
    {r \in Listed("source") : Wanted(r) /\
       (NameOf(r) \notin NamesAt("target") \/ (options.force /\ NeedsUpdate(r)))}

\* Mutant: what is not to be copied counts as extra.
ExtraUnlessCopied ==
    {r \in Listed("target") : options.deleteExtra /\ Wanted(r) /\ r \notin ToCopy}

ToDelete ==
    {r \in Listed("target") :
       options.deleteExtra /\ Wanted(r) /\ NameOf(r) \notin NamesAt("source")}

Failure == failures < MaxFailures /\ failures' = failures + 1

\* mirrorSyncHubs, begun by a push or a pull (a selection being deleted at the
\* destination refuses it: beginCacheMutation).
BeginSync ==
    /\ sync.step \in {"idle", "answered", "in sync"} /\ syncs < MaxSyncs
    /\ syncs' = syncs + 1
    /\ \E filter \in Filters, force, verify, deleteExtra \in BOOLEAN :
         options' = [filter |-> filter, force |-> force, verify |-> verify, deleteExtra |-> deleteExtra]
    /\ sync' = [Idle EXCEPT !.step = "plan"]
    /\ UNCHANGED <<hub, planned, failures, updates>>

MakePlan ==
    /\ sync.step = "plan"
    /\ sync' = [Idle EXCEPT !.step = IF ToCopy \cup ToDelete = {} THEN "in sync" ELSE "copy",
                            !.copy = ToCopy, !.delete = ToDelete]
    /\ planned' = [source |-> hub["source"], copy |-> ToCopy, delete |-> ToDelete]
    /\ UNCHANGED <<hub, options, syncs, failures, updates>>

---------------------------------------------------------------------------
\* copyRepoCache: the walk over the files of a repository.  A file is opened
\* for writing in place; an error ends the copy of this repository.
StartRepo(r) ==
    /\ sync.step = "copy" /\ sync.at = <<>> /\ r \in sync.copy
    /\ sync' = [sync EXCEPT !.at = <<r>>, !.next = 1]
    /\ UNCHANGED <<hub, options, planned, syncs, failures, updates>>

Repo == sync.at[1]
RepoCopied(ok) ==
    IF options.verify THEN [sync EXCEPT !.step = "verify", !.ok = @ /\ ok]
    ELSE [sync EXCEPT !.at = <<>>, !.copy = @ \ {Repo}, !.ok = @ /\ ok]

\* Mutant: an error of the copy is not kept.
CopyErrorForgotten(ok) == RepoCopied(TRUE)

RepoEnds(ok) == RepoCopied(ok)

\* What a copy that does not get to its end leaves: a directory as it was, a
\* link as it was or removed, a file truncated.
CutOff(f) ==
    IF f \in {Dir, Link} THEN {hub["target"][Repo][f]} \cup (IF f = Link THEN {NoFile} ELSE {})
    ELSE {Part}

CopyFile ==
    /\ sync.step = "copy" /\ sync.at # <<>> /\ sync.next <= Len(Files)
    /\ LET f == Files[sync.next]
           from == hub["source"][Repo][f]
       IN IF from = NoFile
          THEN sync' = [sync EXCEPT !.next = @ + 1] /\ UNCHANGED <<hub, failures>>
          ELSE \/ /\ hub' = [hub EXCEPT !["target"][Repo][f] = from]
                  /\ sync' = [sync EXCEPT !.next = @ + 1] /\ UNCHANGED failures
               \/ /\ \E left \in CutOff(f) : hub' = [hub EXCEPT !["target"][Repo][f] = left]
                  /\ sync' = RepoEnds(FALSE) /\ Failure
    /\ UNCHANGED <<options, planned, syncs, updates>>

WalkEnds ==
    /\ sync.step = "copy" /\ sync.at # <<>> /\ sync.next > Len(Files)
    /\ sync' = RepoEnds(TRUE)
    /\ UNCHANGED <<hub, options, planned, syncs, failures, updates>>

\* verifyRepoCache compares the sizes of the payloads the source has now.
VerifyRepo ==
    /\ sync.step = "verify"
    /\ LET same == \A f \in Blobs("source", Repo) : hub["target"][Repo][f] = Whole
       IN sync' = [sync EXCEPT !.step = "copy", !.at = <<>>, !.copy = @ \ {Repo}, !.ok = @ /\ same]
    /\ UNCHANGED <<hub, options, planned, syncs, failures, updates>>

CopiesEnd ==
    /\ sync.step = "copy" /\ sync.copy = {}
    /\ sync' = [sync EXCEPT !.step = "delete"]
    /\ UNCHANGED <<hub, options, planned, syncs, failures, updates>>

\* os.RemoveAll of a repository that is extra; one that fails leaves a rest.
DeleteRepo(r) ==
    /\ sync.step = "delete" /\ r \in sync.delete
    /\ \/ hub' = [hub EXCEPT !["target"][r] = NoRepo]
          /\ sync' = [sync EXCEPT !.delete = @ \ {r}] /\ UNCHANGED failures
       \/ \E left \in SUBSET (FileSet \ {Dir}) :
            /\ left # {}
            /\ hub' = [hub EXCEPT !["target"][r] = [f \in FileSet |->
                         IF f \in left \cup {Dir} THEN hub["target"][r][f] ELSE NoFile]]
            /\ sync' = [sync EXCEPT !.delete = @ \ {r}, !.ok = FALSE] /\ Failure
    /\ UNCHANGED <<options, planned, syncs, updates>>

AnswerSync ==
    /\ sync.step = "delete" /\ sync.delete = {}
    /\ sync' = [sync EXCEPT !.step = "answered"]
    /\ UNCHANGED <<hub, options, planned, syncs, failures, updates>>

---------------------------------------------------------------------------
\* A download of a new commit ends at either hub.  It may bring payloads, and
\* a commit that only removes or renames files brings none.
Downloaded(side, r) ==
    /\ updates < MaxUpdates /\ updates' = updates + 1
    /\ \E added \in SUBSET Payloads :
         /\ hub[side][r][Dir] = NoFile => added # {}
         /\ hub' = [hub EXCEPT ![side][r] = [f \in FileSet |->
                      IF Follows(f) THEN updates' + 1
                      ELSE IF f \in added \cup {Dir} THEN Whole ELSE @[f]]]
    /\ UNCHANGED <<options, sync, planned, syncs, failures>>

\* The process ends, in the middle of a file or between two.
MirrorCrash ==
    /\ sync.step \in {"copy", "verify", "delete"} /\ Failure
    /\ \/ /\ sync.step = "copy" /\ sync.at # <<>> /\ sync.next <= Len(Files)
          /\ hub["source"][Repo][Files[sync.next]] # NoFile
          /\ \E left \in CutOff(Files[sync.next]) :
               hub' = [hub EXCEPT !["target"][Repo][Files[sync.next]] = left]
       \/ UNCHANGED hub
    /\ sync' = Idle
    /\ UNCHANGED <<options, planned, syncs, updates>>

MirrorInit ==
    /\ \E source, target \in Present :
         hub = [side \in Sides |-> [r \in Repositories |->
                  IF r \in (IF side = "source" THEN source ELSE target)
                  THEN FirstCommit ELSE NoRepo]]
    /\ options = [filter |-> "", force |-> FALSE, verify |-> FALSE, deleteExtra |-> FALSE]
    /\ sync = Idle /\ planned = [source |-> hub["source"], copy |-> {}, delete |-> {}]
    /\ syncs = 0 /\ failures = 0 /\ updates = 0

MirrorNext ==
    \/ BeginSync \/ MakePlan \/ CopyFile \/ WalkEnds \/ VerifyRepo \/ CopiesEnd \/ AnswerSync
    \/ \E r \in Repositories : StartRepo(r) \/ DeleteRepo(r) \/ \E side \in Sides : Downloaded(side, r)
    \/ MirrorCrash

MirrorSpec == MirrorInit /\ [][MirrorNext]_mirrorVars
---------------------------------------------------------------------------
\* A mirror only takes away repositories the plan found nowhere at the source,
\* and only when it was asked to delete: a copy, a failure or a repository
\* that appears meanwhile never makes one disappear.
SparesTheSource ==
    [][\A r \in Repositories :
        (hub["target"][r][Dir] # NoFile /\ hub'["target"][r] # hub["target"][r]
         /\ \E f \in Payloads : hub["target"][r][f] # NoFile /\ hub'["target"][r][f] = NoFile)
        => /\ options.deleteExtra /\ Wanted(r)
           /\ planned.source[r][Dir] = NoFile]_mirrorVars

\* An answer without an error means that each repository of the plan holds at
\* the destination every file the source had when it was made, none cut off,
\* however the source changed meanwhile, and that the extra ones are gone
\* unless a download brought one back.
SuccessIsComplete ==
    /\ MirrorTypeOK
    /\ (sync.step = "answered" /\ sync.ok) =>
         /\ \A r \in planned.copy, f \in FileSet :
              planned.source[r][f] # NoFile => hub["target"][r][f] \in Commits
         /\ updates = 0 => planned.delete \cap Listed("target") = {}

\* A forced request that answers "nothing to do" has found no repository that
\* is outdated for the diff of the same two hubs, and none cut off.
ForcedSyncRepairs ==
    [][(sync.step = "plan" /\ sync'.step = "in sync" /\ options.force /\ options.filter = "")
       => /\ \A name \in NamesAt("source") : ~Outdated(name)
          /\ \A r \in Listed("source"), f \in Payloads :
               hub["source"][r][f] = Whole => hub["target"][r][f] # Part]_mirrorVars
=============================================================================
