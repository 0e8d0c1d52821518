----------------------------- MODULE HubDelete -----------------------------
(***************************************************************************)
(* The deletion of selected files from the saved versions of a repository: *)
(* everything is inspected first and the deletion refused if anything is   *)
(* unsafe; then the tombstones are written, and the friendly entries, the  *)
(* snapshot entries and the payloads that nothing refers to any more are   *)
(* removed one by one, each only if it still is what was inspected.        *)
(* Source: pkg/hfdownloader/selected_gguf_delete.go,                       *)
(* internal/server/cache_selection_delete.go (handleSelectedCacheDelete).  *)
(***************************************************************************)
EXTENDS HubPublish

CONSTANTS
    Selections,   \* selections that are asked for: sets of snapshot entries
    MaxDeletes,   \* bound: deletions
    MaxTouches    \* bound: entries the user changes during a deletion

ASSUME DeleteAssumption ==
    Selections \subseteq SUBSET Snapshots /\ {MaxDeletes, MaxTouches} \subseteq Nat

VARIABLES
    deletion,     \* state of the deletion and what it has seen and done
    gone,         \* history: entries deleted without an error, not asked for since
    deletes, touches   \* bounds

deleteVars == <<deletion, gone, deletes, touches>>

NoDeletion ==
    [stage |-> "idle", selected |-> {}, seen |-> [p \in Places |-> Absent],
     leads |-> <<>>, candidates |-> {}, refs |-> [b \in Blobs |-> {}],
     retained |-> {}, removed |-> {}, remaining |-> {}, errors |-> FALSE]

DeleteStages == {"idle", "tombstones", "friendly", "snapshots", "blobs", "answered"}

DeleteTypeOK ==
    /\ deletion.stage \in DeleteStages
    /\ deletion.selected \subseteq Snapshots /\ DOMAIN deletion.leads \subseteq Friendly
    /\ gone \subseteq Snapshots
    /\ {deletion.removed, deletion.remaining} \subseteq SUBSET Places

DeleteInit == deletion = NoDeletion /\ gone = {} /\ deletes = 0 /\ touches = 0

Deleting == deletion.stage \notin {"idle", "answered"}

---------------------------------------------------------------------------
\* What the inspection finds.

\* The payloads a place has the same file as.
SharedBlobs(p) == {b \in Blobs : disk[p].kind = "file" /\ SameFile(disk[p], disk[b])}

\* Entries of every saved version that need a payload: links and hard links.
References(b) == {p \in Snapshots : disk[p] = Link(b) \/ b \in SharedBlobs(p)}

SelectedIsUnsafe(p) ==
    \/ ~Exists(p)
    \/ disk[p].kind = "link" /\ disk[disk[p].to].kind # "file"

\* The payload of a selected entry: the target of the link, the payload it is
\* a hard link of, or the one named by the content of a copy.
Payload(p) ==
    IF disk[p].kind = "link" THEN {disk[p].to}
    ELSE IF SharedBlobs(p) # {} THEN SharedBlobs(p)
    ELSE {b \in Blobs : disk[b].kind = "file" /\ b[2] = disk[p].content}

\* A regular file of the friendly view is the projection of a selected entry
\* of the same path and content.
RegularProjection(selected, n) ==
    {p \in selected : /\ disk[n].kind = "file" /\ p[3] = n[2]
                      /\ SameContent(disk[n], Stat(p))}

FriendlyEntries == {n \in Friendly : Exists(n)}

\* One step of resolveFriendly, which does not go on from what is no entry of
\* the view.
LeadsTo(selected, n) ==
    IF n \notin FriendlyEntries THEN n
    ELSE IF disk[n].kind = "link" THEN disk[n].to
    ELSE LET projection == RegularProjection(selected, n)
         IN IF projection = {} THEN n ELSE CHOOSE p \in projection : TRUE

\* resolveFriendly: links of the view are followed through the view, up to a
\* selected entry or out of the view; "cycle" when they never leave it.  A name
\* of the user's leads to an entry of the view that leads out of it, or to
\* itself (AliasTargets), so that fewer steps than these decide.
ResolveFriendly(selected, n) ==
    LET Step(m) == LeadsTo(selected, m)
        end == Step(Step(Step(Step(n))))
    IN IF end \in FriendlyEntries /\ disk[end].kind = "link" THEN "cycle" ELSE end

Projections(selected) ==
    {n \in FriendlyEntries : ResolveFriendly(selected, n) \in selected}

\* The deletion is refused and changes nothing.
Refused(selected) ==
    \/ selected = {} \/ \E p \in selected : SelectedIsUnsafe(p)
    \/ \E n \in FriendlyEntries :
         LET end == ResolveFriendly(selected, n)
         IN end = "cycle" \/ (end \in selected /\ end[3] # n[2])

\* Payloads that names of the friendly view which stay still need.
RetainedCandidates(selected) ==
    {b \in UNION {Payload(p) : p \in selected} :
       \E n \in FriendlyEntries \ Projections(selected) :
         ResolveFriendly(selected, n) = b \/ b \in SharedBlobs(n)}

---------------------------------------------------------------------------
\* reserveSelectedHF: no job may write to the repository and no rebuild runs,
\* and neither begins before the answer.  The inspection follows.
BeginDelete(selected) ==
    /\ ~Deleting /\ ~Publishing /\ deletes < MaxDeletes
    /\ deletes' = deletes + 1
    /\ deletion' =
         IF Refused(selected)
         THEN [NoDeletion EXCEPT !.stage = "answered"]
         ELSE [stage |-> "tombstones", selected |-> selected, seen |-> disk,
               leads |-> [n \in Projections(selected) |-> ResolveFriendly(selected, n)],
               candidates |-> UNION {Payload(p) : p \in selected},
               refs |-> [b \in Blobs |-> References(b)],
               retained |-> RetainedCandidates(selected),
               removed |-> {}, remaining |-> {}, errors |-> FALSE]
    /\ UNCHANGED <<storeVars, publishVars, gone, touches>>

\* recordManifestDeletions, once for each path and version.  The deletion goes
\* on without the tombstones when they cannot be written.
RecordTombstones ==
    /\ deletion.stage = "tombstones"
    /\ \/ /\ manifest' = IF manifest = NoManifest THEN manifest
                         ELSE RecordDeletion(manifest, deletion.selected)
          /\ deletion' = [deletion EXCEPT !.stage = "friendly"] /\ NoFault
       \/ /\ manifest # NoManifest /\ Fault /\ UNCHANGED manifest
          /\ deletion' = [deletion EXCEPT !.stage = "friendly", !.errors = TRUE]
    /\ UNCHANGED <<disk, ref, supports, linkFailed, temp, job, task, skip, entry, rebuild,
                   starts, rebuilds, gone, deletes, touches>>

Remaining(p) == deletion' = [deletion EXCEPT !.remaining = @ \cup {p}, !.errors = TRUE]

\* Mutant: an entry is removed without a look at what it has become.
RemovesBlindly(p, after) ==
    /\ IF Exists(p)
       THEN disk' = [disk EXCEPT ![p] = Absent] /\ after
       ELSE Remaining(p) /\ UNCHANGED disk
    /\ NoFault

\* An entry is removed if it is what the inspection saw; it remains, with an
\* error, when it changed or the removal fails.
RemoveSeen(p, after) ==
    \/ Exists(p) /\ disk[p] = deletion.seen[p] /\ disk' = [disk EXCEPT ![p] = Absent]
       /\ after /\ NoFault
    \/ disk[p] # deletion.seen[p] /\ Remaining(p) /\ UNCHANGED disk /\ NoFault
    \/ disk[p] = deletion.seen[p] /\ Remaining(p) /\ UNCHANGED disk /\ Fault

Removed(p) == deletion' = [deletion EXCEPT !.removed = @ \cup {p}]
Settled == deletion.removed \cup deletion.remaining
StoreUnchanged ==
    UNCHANGED <<ref, manifest, supports, linkFailed, temp, job, task, skip, entry, rebuild,
                starts, rebuilds, gone, deletes, touches>>

RemoveFriendly(n) ==
    /\ deletion.stage = "friendly" /\ n \in DOMAIN deletion.leads \ Settled
    /\ RemoveSeen(n, Removed(n))
    /\ StoreUnchanged

\* A friendly entry that remains keeps the snapshot entry it leads to.
KeptByFriendly ==
    {deletion.leads[n] : n \in DOMAIN deletion.leads \cap deletion.remaining}

RemoveSnapshot(p) ==
    /\ deletion.stage = "snapshots" /\ p \in deletion.selected \ Settled
    /\ IF p \in KeptByFriendly THEN Remaining(p) /\ UNCHANGED disk /\ NoFault
       ELSE RemoveSeen(p, Removed(p))
    /\ StoreUnchanged

\* Mutant: a selected entry that could not be removed is no reference.
IgnoresRemaining(b) == deletion.refs[b] \ deletion.selected # {}

\* An entry that refers to the payload is not selected or was not removed.
StillReferenced(b) == deletion.refs[b] \ deletion.removed # {}

Unneeded == {b \in deletion.candidates \ deletion.retained : ~StillReferenced(b)}

RemovePayload(b) ==
    /\ deletion.stage = "blobs" /\ b \in Unneeded \ Settled
    /\ RemoveSeen(b, Removed(b))
    /\ StoreUnchanged

NextPhase(from, to) == deletion.stage = from /\ deletion' = [deletion EXCEPT !.stage = to]

\* A pass is over; after the last one the answer is given and the
\* reservation released.
NextPass ==
    /\ \/ DOMAIN deletion.leads \subseteq Settled /\ NextPhase("friendly", "snapshots") /\ UNCHANGED gone
       \/ deletion.selected \subseteq Settled /\ NextPhase("snapshots", "blobs") /\ UNCHANGED gone
       \/ /\ deletion.stage = "blobs" /\ Unneeded \subseteq Settled
          /\ deletion' = [NoDeletion EXCEPT !.stage = "answered"]
          /\ gone' = IF deletion.errors THEN gone ELSE gone \cup deletion.selected
    /\ UNCHANGED <<storeVars, publishVars, deletes, touches>>

\* The user, or another program, replaces or removes an entry meanwhile.
UserTouches(p) ==
    /\ Deleting /\ Exists(p) /\ touches < MaxTouches
    /\ touches' = touches + 1
    /\ disk' = [disk EXCEPT ![p] = Absent] \/ disk' = [disk EXCEPT ![p] = File(Foreign, 1)]
    /\ UNCHANGED <<ref, manifest, supports, linkFailed, publishVars, deletion, gone, deletes>>

DeleteStep ==
    \/ \E selected \in Selections : BeginDelete(selected)
    \/ RecordTombstones \/ NextPass
    \/ \E p \in Places : RemoveFriendly(p) \/ RemoveSnapshot(p) \/ RemovePayload(p)
=============================================================================
