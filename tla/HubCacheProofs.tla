---------------------------- MODULE HubCacheProofs ----------------------------
(***************************************************************************)
(* What TLAPS proves about HubCache, for any versions and files, any jobs, *)
(* selections and file systems, and any number of starts, rebuilds,        *)
(* deletions, failures, crashes and changes by the user.                   *)
(***************************************************************************)
EXTENDS HubCache, WellFoundedInduction, TLAPS

---------------------------------------------------------------------------
(* Places and what they hold *)

\* The payload a saved entry is made from.
Origin(p) == BlobPath(Sha[p[2]][p[3]])

LEMMA PlacesAre ==
    /\ \A c \in Contents : BlobPath(c) \in Blobs /\ BlobPath(c)[2] = c
    /\ \A b \in Blobs : b[2] \in Contents /\ b = BlobPath(b[2])
    /\ \A v \in Versions, f \in Files :
         SnapshotPath(v, f) \in Snapshots /\ SnapshotPath(v, f)[2] = v /\ SnapshotPath(v, f)[3] = f
    /\ \A p \in Snapshots : p[2] \in Versions /\ p[3] \in Files /\ p = SnapshotPath(p[2], p[3])
    /\ \A n \in Files \cup Aliases : FriendlyPath(n) \in Friendly /\ FriendlyPath(n)[2] = n
    /\ \A n \in Friendly : n[2] \in Files \cup Aliases /\ n = FriendlyPath(n[2])
  BY DEF BlobPath, Blobs, SnapshotPath, Snapshots, FriendlyPath, Friendly

LEMMA PlacesApart ==
    /\ \A p \in Blobs : p \in Places /\ p \notin Snapshots /\ p \notin Friendly
    /\ \A p \in Snapshots : p \in Places /\ p \notin Blobs /\ p \notin Friendly
    /\ \A p \in Friendly : p \in Places /\ p \notin Blobs /\ p \notin Snapshots
    /\ \A p \in Places : p \in Blobs \/ p \in Snapshots \/ p \in Friendly
  BY DEF BlobPath, Blobs, SnapshotPath, Snapshots, FriendlyPath, Friendly, Places

LEMMA OriginIs ==
    /\ \A p \in Snapshots : Origin(p) \in Blobs /\ Origin(p) \in Places /\ Origin(p)[2] = Sha[p[2]][p[3]]
    /\ \A p \in Snapshots : Sha[p[2]][p[3]] \in Contents
    /\ \A p \in Snapshots : \A v : Source(p, v) = Origin(p)
  <1>1. \A p \in Snapshots : Sha[p[2]][p[3]] \in Contents
    BY PlacesAre, StoreAssumption
  <1>2. QED
    BY <1>1, PlacesAre, PlacesApart DEF Origin, Source

LEMMA EntriesAre ==
    /\ Absent \in Entries /\ Absent.kind = "absent"
    /\ \A p \in Places : Link(p) \in Entries /\ Link(p).kind = "link" /\ Link(p).to = p
    /\ \A c \in Contents \cup {Foreign}, i \in 1..MaxInodes :
         File(c, i) \in Entries /\ File(c, i).kind = "file" /\ File(c, i).content = c
    /\ \A e \in Entries : e.kind \in {"absent", "link", "file"}
    /\ \A e \in Entries : e.kind = "absent" => e = Absent
    /\ \A e \in Entries : e.kind = "link" => e.to \in Places /\ e = Link(e.to)
    /\ \A e \in Entries : e.kind = "file" => e.content \in Contents \cup {Foreign}
    /\ \A e \in Entries : e.kind = "file" => e.ino \in 1..MaxInodes /\ e = File(e.content, e.ino)
  <1>1. /\ Absent \in Entries /\ Absent.kind = "absent"
        /\ \A p \in Places : Link(p) \in Entries
        /\ \A c \in Contents \cup {Foreign}, i \in 1..MaxInodes : File(c, i) \in Entries
    BY DEF Entries, Absent
  <1>2. \A p : Link(p).kind = "link" /\ Link(p).to = p
    BY DEF Link
  <1>3. \A c, i : File(c, i).kind = "file" /\ File(c, i).content = c /\ File(c, i).ino = i
    BY DEF File
  <1>4. \A e \in Entries : \/ e = Absent
                           \/ \E p \in Places : e = Link(p)
                           \/ \E c \in Contents \cup {Foreign}, i \in 1..MaxInodes : e = File(c, i)
    BY DEF Entries
  <1>5. QED
    BY <1>1, <1>2, <1>3, <1>4

\* What a place shows when it holds no link, and what a link to such a place shows.
LEMMA StatIs ==
    ASSUME NEW d, NEW p
    PROVE  /\ d[p].kind # "link" => StatIn(d, p) = d[p]
           /\ d[p].kind = "link" /\ d[d[p].to].kind # "link" => StatIn(d, p) = d[d[p].to]
           /\ /\ d[p].kind = "link" /\ d[d[p].to].kind = "link" 
              /\ d[d[d[p].to].to].kind # "link"
              => StatIn(d, p) = d[d[d[p].to].to]
  <1> DEFINE Follow(e) == IF e.kind = "link" THEN d[e.to] ELSE e
  <1>1. StatIn(d, p) = Follow(Follow(Follow(Follow(d[p]))))
    BY DEF StatIn
  <1>2. \A e : e.kind # "link" => Follow(e) = e
    OBVIOUS
  <1>3. \A e : e.kind = "link" => Follow(e) = d[e.to]
    OBVIOUS
  <1> HIDE DEF Follow
  <1>4. QED
    BY <1>1, <1>2, <1>3

---------------------------------------------------------------------------
(* Types *)

Manifests == [commit : Versions \cup {None}, files : SUBSET Files, deleted : SUBSET (Files \X Versions)]
Rebuilds ==
    [stage : {"idle", "repair", "walk", "clean", "unlink"}, commit : Versions \cup {None},
     todo : SUBSET Places, at : SUBSET Places, errors : BOOLEAN, alone : BOOLEAN]
Leads == UNION {[D -> Snapshots] : D \in SUBSET Friendly}
Deletions ==
    [stage : DeleteStages, selected : SUBSET Snapshots, seen : [Places -> Entries],
     leads : Leads, candidates : SUBSET Blobs, refs : [Blobs -> SUBSET Snapshots],
     retained : SUBSET Blobs, removed : SUBSET Places, remaining : SUBSET Places, errors : BOOLEAN]

StoreTyped ==
    /\ disk \in [Places -> Entries]
    /\ ref \in Versions \cup {None} /\ manifest \in Manifests
    /\ supports \in [Roots -> LinkKinds] /\ linkFailed \in [Roots -> LinkKinds]
JobsTyped ==
    /\ temp \subseteq Contents
    /\ job \in [Jobs -> {"idle", "files", "ref", "manifest", "completed", "failed"}]
    /\ task \in [Tasks -> {"none", "check", "transfer", "verify", "store", "copy", "snap", "view",
                           "done", "unlinked", "failed"}]
    /\ skip \subseteq Tasks
    /\ entry \in [Tasks \cup {RebuildProc} -> EntryStep]
    /\ rebuild \in Rebuilds /\ faults \in Nat /\ rebuilds \in Nat
DeletionTyped == deletion \in Deletions /\ gone \subseteq Snapshots

Typed == StoreTyped /\ JobsTyped /\ DeletionTyped

LEMMA TypedIsTypeOK == Typed => TypeOK
  <1>1. ASSUME StoreTyped PROVE StoreTypeOK
    BY <1>1 DEF StoreTyped, StoreTypeOK, Manifests
  <1>2. ASSUME JobsTyped PROVE PublishTypeOK
    <2>1. rebuild.stage \in {"idle", "repair", "walk", "clean", "unlink"} /\ rebuild.todo \subseteq Places
      BY <1>2 DEF JobsTyped, Rebuilds
    <2>2. QED
      BY <1>2, <2>1 DEF JobsTyped, PublishTypeOK
  <1>3. ASSUME DeletionTyped PROVE DeleteTypeOK
    <2>1. /\ deletion.stage \in DeleteStages /\ deletion.selected \subseteq Snapshots
          /\ deletion.leads \in Leads /\ deletion.removed \in SUBSET Places
          /\ deletion.remaining \in SUBSET Places
      BY <1>3 DEF DeletionTyped, Deletions
    <2>2. DOMAIN deletion.leads \subseteq Friendly
      BY <2>1 DEF Leads
    <2>3. QED
      BY <1>3, <2>1, <2>2 DEF DeletionTyped, DeleteTypeOK
  <1>4. QED
    BY <1>1, <1>2, <1>3 DEF Typed, TypeOK

LEMMA TasksAre ==
    /\ \A t \in Tasks : t[1] \in Jobs /\ t[2] \in JobFiles[t[1]] /\ t[2] \in Files /\ t = <<t[1], t[2]>>
    /\ \A j \in Jobs : \A f \in JobFiles[j] : <<j, f>> \in Tasks
    /\ RebuildProc \notin Tasks
  BY PublishAssumption DEF Tasks, RebuildProc

LEMMA TaskPlaces ==
    ASSUME NEW t \in Tasks
    PROVE  /\ Commit(t) \in Versions /\ Content(t) \in Contents /\ BlobPath(Content(t)) \in Blobs
           /\ SnapshotOf(t) \in Snapshots /\ Origin(SnapshotOf(t)) = BlobPath(Content(t))
           /\ FriendlyOf(t) \in Friendly /\ FriendlyOf(t)[2] = t[2]
           /\ SnapshotOf(t)[2] = Commit(t) /\ SnapshotOf(t)[3] = t[2]
  <1>1. t[1] \in Jobs /\ t[2] \in Files
    BY TasksAre
  <1>2. Commit(t) \in Versions
    BY <1>1, PublishAssumption DEF Commit
  <1>3. Content(t) \in Contents
    BY <1>1, <1>2, StoreAssumption DEF Content
  <1>4. QED
    BY <1>1, <1>2, <1>3, PlacesAre DEF SnapshotOf, FriendlyOf, Origin, Content

\* The least of some numbers.
LEMMA LeastOf ==
    ASSUME NEW S, S \subseteq Nat, S # {}
    PROVE  \E i \in S : \A k \in S : i <= k
  <1> DEFINE Less == {p \in Nat \X Nat : p[1] < p[2]}
  <1>1. IsWellFoundedOn(Less, Nat)
    BY NatLessThanWellFounded DEF OpToRel
  <1>2. \A i, k \in Nat : k < i => <<k, i>> \in Less
    OBVIOUS
  <1> HIDE DEF Less
  <1>3. PICK i \in S : \A k \in S : ~ (<<k, i>> \in Less)
    BY <1>1, WFMin
  <1>4. ASSUME NEW k \in S PROVE i <= k
    <2>1. i \in Nat /\ k \in Nat
      OBVIOUS
    <2>2. ~(k < i)
      BY <1>3, <1>2, <2>1
    <2>3. QED
      BY <2>1, <2>2
  <1>5. QED
    BY <1>4

LEMMA NewFileIs ==
    ASSUME NEW c \in Contents \cup {Foreign}
    PROVE  NewFile(c) \in Entries /\ NewFile(c).kind = "file" /\ NewFile(c).content = c
  <1> DEFINE used == {disk[p].ino : p \in {q \in Places : disk[q].kind = "file" /\ disk[q].content = c}}
             free == (1..MaxInodes) \ used
             number == IF free = {} THEN MaxInodes ELSE CHOOSE i \in free : \A k \in free : i <= k
  <1>1. NewFile(c) = File(c, number)
    BY DEF NewFile
  <1>2. number \in 1..MaxInodes
    <2> HIDE DEF used
    <2>1. free \subseteq Nat /\ free \subseteq 1..MaxInodes
      OBVIOUS
    <2> HIDE DEF free
    <2>2. free # {} => \E i \in free : \A k \in free : i <= k
      BY <2>1, LeastOf
    <2>3. MaxInodes \in 1..MaxInodes
      BY StoreAssumption
    <2>4. QED
      BY <2>1, <2>2, <2>3
  <1> HIDE DEF number
  <1>3. QED
    BY <1>1, <1>2, EntriesAre

\* What placeCacheEntry answers.
LEMMA PlacingIs ==
    ASSUME StoreTyped, NEW p, NEW src, NEW result, result = PlaceCacheEntry(p, src)
    PROVE  /\ result.failed \in [Roots -> LinkKinds]
           /\ result.placed => \/ result.entry = Link(src)
                               \/ /\ Stat(src).kind = "file"
                                  /\ result.entry \in {Stat(src), NewFile(Stat(src).content)}
           /\ Stat(src).kind = "file" => result.placed
  <1> DEFINE root == LinkRoot(p)
             source == Stat(src)
             trySym == ~linkFailed[root].sym
             sym == trySym /\ supports[root].sym /\ ~Exists(p)
             tryHard == ~sym /\ ~linkFailed[root].hard /\ source.kind = "file"
             hard == tryHard /\ supports[root].hard /\ ~Exists(p)
             copy == ~sym /\ ~hard /\ source.kind = "file"
             failed == [linkFailed EXCEPT
                      ![root].sym = @ \/ (trySym /\ ~sym),
                      ![root].hard = @ \/ (tryHard /\ ~hard)]
             e == CASE sym -> Link(src)
                    [] hard -> source
                    [] copy -> NewFile(source.content)
                    [] OTHER -> disk[p]
  <1>1. result = [entry |-> e, failed |-> failed, placed |-> sym \/ hard \/ copy, copied |-> copy]
    BY DEF PlaceCacheEntry
  <1> PICK b \in BOOLEAN : b = (sym \/ hard \/ copy)
    OBVIOUS
  <1> PICK c \in BOOLEAN : c = copy
    OBVIOUS
  <1>2. result.entry = e /\ result.failed = failed /\ result.placed = b
    <2>1. result = [entry |-> e, failed |-> failed, placed |-> b, copied |-> c]
      BY <1>1
    <2> HIDE DEF e, failed
    <2>2. QED
      BY <2>1
  <1>3. failed \in [Roots -> LinkKinds]
    <2>1. root \in Roots /\ linkFailed[root] \in LinkKinds
      BY DEF StoreTyped, LinkRoot, Roots
    <2> DEFINE one == [linkFailed EXCEPT ![root].sym = @ \/ (trySym /\ ~sym)]
    <2>2. one \in [Roots -> LinkKinds] /\ one[root] \in LinkKinds
      <3> PICK given \in BOOLEAN : given = (linkFailed[root].sym \/ (trySym /\ ~sym))
        OBVIOUS
      <3>1. one = [linkFailed EXCEPT ![root] = [linkFailed[root] EXCEPT !.sym = given]]
        BY <2>1 DEF StoreTyped, LinkKinds
      <3>2. [linkFailed[root] EXCEPT !.sym = given] \in LinkKinds
        BY <2>1 DEF LinkKinds
      <3>3. QED
        BY <2>1, <3>1, <3>2 DEF StoreTyped
    <2>3. failed = [one EXCEPT ![root].hard = @ \/ (tryHard /\ ~hard)]
      OBVIOUS
    <2> HIDE DEF one
    <2>4. QED
      <3> PICK given \in BOOLEAN : given = (one[root].hard \/ (tryHard /\ ~hard))
        OBVIOUS
      <3>1. failed = [one EXCEPT ![root] = [one[root] EXCEPT !.hard = given]]
        BY <2>1, <2>2, <2>3 DEF LinkKinds
      <3>2. [one[root] EXCEPT !.hard = given] \in LinkKinds
        BY <2>2 DEF LinkKinds
      <3>3. QED
        BY <2>1, <2>2, <3>1, <3>2
  <1>4. QED
    BY <1>2, <1>3

LEMMA StatTyped ==
    ASSUME NEW d \in [Places -> Entries], NEW p \in Places
    PROVE  StatIn(d, p) \in Entries
  <1> DEFINE Follow(e) == IF e.kind = "link" THEN d[e.to] ELSE e
  <1>1. StatIn(d, p) = Follow(Follow(Follow(Follow(d[p]))))
    BY DEF StatIn
  <1>2. \A e \in Entries : Follow(e) \in Entries
    BY EntriesAre
  <1> HIDE DEF Follow
  <1>3. QED
    BY <1>1, <1>2

---------------------------------------------------------------------------
(* How the records move *)

Put(p, e) == disk' = [disk EXCEPT ![p] = e]

LEMMA PutIs ==
    ASSUME disk \in [Places -> Entries], NEW p \in Places, NEW e \in Entries, Put(p, e)
    PROVE  /\ disk' \in [Places -> Entries] /\ disk'[p] = e
           /\ \A q \in Places \ {p} : disk'[q] = disk[q]
  BY DEF Put

LEMMA HandedIs ==
    ASSUME rebuild \in Rebuilds, NEW p \in Places, Handed(p)
    PROVE  /\ rebuild' \in Rebuilds /\ rebuild'.at = {p}
           /\ rebuild'.stage = rebuild.stage /\ rebuild'.commit = rebuild.commit
           /\ rebuild'.todo = rebuild.todo
           /\ rebuild'.errors = rebuild.errors /\ rebuild'.alone = rebuild.alone
  BY DEF Rebuilds, Handed

LEMMA PassedIs ==
    ASSUME rebuild \in Rebuilds, NEW p, NEW ok \in BOOLEAN, Passed(p, ok)
    PROVE  /\ rebuild' \in Rebuilds /\ rebuild'.at = {}
           /\ rebuild'.stage = rebuild.stage /\ rebuild'.commit = rebuild.commit
           /\ rebuild'.todo = rebuild.todo \ {p}
           /\ (~rebuild'.errors => ~rebuild.errors /\ ok) /\ rebuild'.alone = rebuild.alone
  <1> PICK b \in BOOLEAN : b = (rebuild.errors \/ ~ok)
    OBVIOUS
  <1>1. rebuild' = [rebuild EXCEPT !.todo = rebuild.todo \ {p}, !.at = {}, !.errors = b]
    BY DEF Passed, Rebuilds
  <1>2. /\ rebuild' \in Rebuilds /\ rebuild'.at = {}
        /\ rebuild'.stage = rebuild.stage /\ rebuild'.commit = rebuild.commit
        /\ rebuild'.todo = rebuild.todo \ {p} /\ rebuild'.errors = b /\ rebuild'.alone = rebuild.alone
    BY <1>1 DEF Rebuilds
  <1>3. QED
    BY <1>2

LEMMA WalkEndIs ==
    ASSUME rebuild \in Rebuilds, rebuild' = [rebuild EXCEPT !.todo = {}, !.errors = TRUE]
    PROVE  /\ rebuild' \in Rebuilds /\ rebuild'.at = rebuild.at
           /\ rebuild'.stage = rebuild.stage /\ rebuild'.commit = rebuild.commit
           /\ rebuild'.todo = {} /\ rebuild'.errors /\ rebuild'.alone = rebuild.alone
  BY DEF Rebuilds

LEMMA StageIs ==
    ASSUME rebuild \in Rebuilds, NEW s \in {"walk", "clean"}, NEW S \in SUBSET Places,
           rebuild' = [rebuild EXCEPT !.stage = s, !.todo = S]
    PROVE  /\ rebuild' \in Rebuilds /\ rebuild'.at = rebuild.at
           /\ rebuild'.stage = s /\ rebuild'.commit = rebuild.commit
           /\ rebuild'.todo = S /\ rebuild'.errors = rebuild.errors /\ rebuild'.alone = rebuild.alone
  BY DEF Rebuilds

LEMMA IdleIs == Idle \in Rebuilds /\ Idle.stage = "idle" /\ Idle.at = {} /\ Idle.todo = {} /\ Idle.commit = None
  BY DEF Idle, Rebuilds

LEMMA BegunIs ==
    ASSUME NEW v \in Versions, NEW S \in SUBSET Places, NEW b \in BOOLEAN,
           rebuild' = [Idle EXCEPT !.stage = "repair", !.commit = v, !.todo = S, !.alone = b]
    PROVE  /\ rebuild' \in Rebuilds /\ rebuild'.stage = "repair" /\ rebuild'.commit = v
           /\ rebuild'.todo = S /\ rebuild'.at = {} /\ ~rebuild'.errors /\ rebuild'.alone = b
  BY DEF Idle, Rebuilds

\* A job begins beside a rebuild.
LEMMA JoinedIs ==
    ASSUME rebuild \in Rebuilds,
           rebuild' = [rebuild EXCEPT !.alone = @ /\ rebuild.stage = "idle"]
    PROVE  /\ rebuild' \in Rebuilds /\ rebuild'.at = rebuild.at
           /\ rebuild'.stage = rebuild.stage /\ rebuild'.commit = rebuild.commit
           /\ rebuild'.todo = rebuild.todo /\ rebuild'.errors = rebuild.errors
           /\ (rebuild'.alone => rebuild.stage = "idle")
  <1> PICK b \in BOOLEAN : b = (rebuild.alone /\ rebuild.stage = "idle")
    OBVIOUS
  <1>1. rebuild' = [rebuild EXCEPT !.alone = b]
    BY DEF Rebuilds
  <1>2. /\ rebuild' \in Rebuilds /\ rebuild'.at = rebuild.at
        /\ rebuild'.stage = rebuild.stage /\ rebuild'.commit = rebuild.commit
        /\ rebuild'.todo = rebuild.todo /\ rebuild'.errors = rebuild.errors /\ rebuild'.alone = b
    BY <1>1 DEF Rebuilds
  <1>3. QED
    BY <1>2

\* What a deletion has seen does not change while it goes on.
Inspected == <<deletion.selected, deletion.seen, deletion.leads, deletion.candidates,
               deletion.refs, deletion.retained>>

LEMMA RemovedIs ==
    ASSUME deletion \in Deletions, NEW p \in Places, Removed(p)
    PROVE  /\ deletion' \in Deletions /\ Inspected' = Inspected /\ deletion'.stage = deletion.stage
           /\ deletion'.removed = deletion.removed \cup {p}
           /\ deletion'.remaining = deletion.remaining /\ deletion'.errors = deletion.errors
  BY DEF Deletions, Removed, Inspected

LEMMA RemainingIs ==
    ASSUME deletion \in Deletions, NEW p \in Places, Remaining(p)
    PROVE  /\ deletion' \in Deletions /\ Inspected' = Inspected /\ deletion'.stage = deletion.stage
           /\ deletion'.removed = deletion.removed
           /\ deletion'.remaining = deletion.remaining \cup {p} /\ deletion'.errors
  BY DEF Deletions, Remaining, Inspected

LEMMA PhaseIs ==
    ASSUME deletion \in Deletions, NEW s \in DeleteStages, NEW b \in BOOLEAN,
           \/ deletion' = [deletion EXCEPT !.stage = s] /\ b = deletion.errors
           \/ deletion' = [deletion EXCEPT !.stage = s, !.errors = TRUE] /\ b = TRUE
    PROVE  /\ deletion' \in Deletions /\ Inspected' = Inspected /\ deletion'.stage = s
           /\ deletion'.removed = deletion.removed
           /\ deletion'.remaining = deletion.remaining /\ deletion'.errors = b
  BY DEF Deletions, Inspected

LEMMA NoDeletionIs ==
    /\ NoDeletion \in Deletions /\ NoDeletion.stage = "idle"
    /\ [NoDeletion EXCEPT !.stage = "answered"] \in Deletions
    /\ [NoDeletion EXCEPT !.stage = "answered"].stage = "answered"
  <1>1. /\ [p \in Places |-> Absent] \in [Places -> Entries]
        /\ [b \in Blobs |-> {}] \in [Blobs -> SUBSET Snapshots]
    BY EntriesAre
  <1>2. <<>> \in Leads
    <2>1. <<>> \in [{} -> Snapshots]
      OBVIOUS
    <2>2. QED
      BY <2>1 DEF Leads
  <1>3. QED
    BY <1>1, <1>2 DEF NoDeletion, Deletions, DeleteStages

---------------------------------------------------------------------------
(* How an entry is placed *)

\* What may be placed for a source: a link to it, or a file of its content.
Made(src) ==
    {e \in Entries : \/ e = Link(src)
                     \/ Stat(src).kind = "file" /\ e.kind = "file" /\ e.content = Stat(src).content}

LEMMA EntryGoesOnIs ==
    ASSUME StoreTyped, JobsTyped, NEW w \in Tasks \cup {RebuildProc}, NEW p \in Places, NEW v,
           EntryGoesOn(w, p, v)
    PROVE  /\ entry' \in [Tasks \cup {RebuildProc} -> EntryStep]
           /\ \A u \in (Tasks \cup {RebuildProc}) \ {w} : entry'[u] = entry[u]
           /\ linkFailed' = linkFailed /\ faults' = faults
           /\ \/ disk' = disk /\ entry[w] = "compare" /\ entry'[w] = "remove"
              \/ Put(p, Absent) /\ entry'[w] = "place"
  <1>1. CASE EntryDiffers(w, p, v)
    BY <1>1 DEF EntryDiffers, JobsTyped, EntryStep, EntryGoesOn, NoFault
  <1>2. CASE OldEntryRemoved(w, p)
    BY <1>2 DEF OldEntryRemoved, JobsTyped, EntryStep, EntryGoesOn, NoFault, Put
  <1>3. QED
    BY <1>1, <1>2 DEF EntryGoesOn

LEMMA MadeIs ==
    ASSUME StoreTyped, NEW p \in Places, NEW src \in Places,
           NEW result, result = PlaceCacheEntry(p, src), result.placed
    PROVE  result.entry \in Made(src)
  <1>1. Stat(src) \in Entries
    BY StatTyped DEF StoreTyped, Stat
  <1>2. Stat(src).kind = "file" =>
          LET n == NewFile(Stat(src).content)
          IN n \in Entries /\ n.kind = "file" /\ n.content = Stat(src).content
    BY <1>1, EntriesAre, NewFileIs
  <1>3. \/ result.entry = Link(src)
        \/ Stat(src).kind = "file" /\ result.entry \in {Stat(src), NewFile(Stat(src).content)}
    BY PlacingIs
  <1>4. QED
    BY <1>1, <1>2, <1>3, EntriesAre DEF Made

LEMMA EntryEndsIs ==
    ASSUME StoreTyped, JobsTyped, NEW w \in Tasks \cup {RebuildProc}, NEW p \in Places, NEW v,
           Source(p, v) \in Places, NEW ok \in BOOLEAN, EntryEnds(w, p, v, ok)
    PROVE  /\ entry' \in [Tasks \cup {RebuildProc} -> EntryStep]
           /\ entry'[w] = "compare"
           /\ \A u \in (Tasks \cup {RebuildProc}) \ {w} : entry'[u] = entry[u]
           /\ linkFailed' \in [Roots -> LinkKinds] /\ faults' \in Nat /\ faults' >= faults
           /\ ok => \/ disk' = disk /\ CacheEntryCorrect(p, Source(p, v))
                    \/ \E e \in Made(Source(p, v)) : Put(p, e)
           /\ ~ok => /\ disk' = disk
                     /\ faults' > 0 \/ Stat(Source(p, v)).kind # "file"
  <1>1. CASE ok /\ EntryIsKept(w, p, v) /\ UNCHANGED <<disk, linkFailed, entry, faults>>
    <2>1. entry' = entry /\ disk' = disk /\ linkFailed' = linkFailed /\ faults' = faults
      BY <1>1
    <2>2. QED
      BY <1>1, <2>1 DEF EntryIsKept, JobsTyped, StoreTyped
  <1>2. CASE Placing(w, p, v, ok)
    <2> DEFINE src == Source(p, v)
    <2>1. PICK result : result = PlaceCacheEntry(p, src)
      OBVIOUS
    <2>2. /\ IF ok THEN result.placed /\ NoFault
             ELSE IF result.placed THEN result.copied /\ Fault ELSE NoFault
          /\ disk' = IF ok THEN [disk EXCEPT ![p] = result.entry] ELSE disk
          /\ linkFailed' = result.failed
          /\ entry' = [entry EXCEPT ![w] = "compare"]
      BY <1>2, <2>1 DEF Placing
    <2> HIDE DEF src
    <2>3. /\ result.failed \in [Roots -> LinkKinds]
          /\ Stat(src).kind = "file" => result.placed
      BY <2>1, PlacingIs
    <2>4. /\ entry' \in [Tasks \cup {RebuildProc} -> EntryStep] /\ entry'[w] = "compare"
          /\ \A u \in (Tasks \cup {RebuildProc}) \ {w} : entry'[u] = entry[u]
      BY <2>2 DEF JobsTyped, EntryStep
    <2>5. faults' \in Nat /\ faults' >= faults
      BY <2>2 DEF Fault, NoFault, JobsTyped
    <2>6. ok => \E e \in Made(src) : Put(p, e)
      BY <2>1, <2>2, MadeIs DEF Put, src
    <2>7. ~ok => disk' = disk /\ (faults' > 0 \/ Stat(src).kind # "file")
      BY <2>2, <2>3 DEF Fault, NoFault, JobsTyped
    <2>8. QED
      BY <2>2, <2>3, <2>4, <2>5, <2>6, <2>7 DEF src
  <1>3. QED
    BY <1>1, <1>2 DEF EntryEnds

\* Entries that were compared or made are correct.
LEMMA MadeIsCorrect ==
    ASSUME NEW p, NEW src, NEW e \in Made(src)
    PROVE  /\ e \in Entries /\ e # Absent
           /\ e.kind = "link" => e = Link(src)
           /\ e.kind # "link" => e.kind = "file" /\ Stat(src).kind = "file" /\ e.content = Stat(src).content
  <1>1. Link(src).kind = "link" /\ Absent.kind = "absent"
    BY DEF Link, Absent
  <1>2. QED
    BY <1>1 DEF Made

---------------------------------------------------------------------------
(* Who works when, and the form of the store *)

Busy ==
    /\ \A t \in Running : job[t[1]] = "files"
    /\ Deleting => ~Publishing
    /\ rebuild.at \subseteq rebuild.todo
    /\ rebuild.at = {} \/ \E p \in Places : rebuild.at = {p}
    /\ rebuild.stage \in {"repair", "walk"} =>
         \A p \in rebuild.todo : p \in Snapshots /\ p[2] = rebuild.commit
    /\ rebuild.stage = "clean" => rebuild.todo \subseteq Friendly
    /\ rebuild.stage # "idle" => rebuilds > 0 /\ rebuild.commit \in Versions

\* Payloads are files of their sum; links of saved versions lead to the payload.
Shape ==
    /\ \A b \in Blobs : disk[b] = Absent \/ (disk[b].kind = "file" /\ disk[b].content = b[2])
    /\ \A p \in Snapshots : disk[p].kind = "link" => disk[p] = Link(Origin(p))

Ground == Typed /\ Busy /\ Shape

\* What each place shows.
LEMMA ShapeStatIn ==
    ASSUME NEW d, \A b \in Blobs : d[b].kind # "link",
           \A p \in Snapshots : d[p].kind = "link" => d[p] = Link(Origin(p))
    PROVE  /\ \A b \in Blobs : StatIn(d, b) = d[b]
           /\ \A p \in Snapshots : StatIn(d, p) = IF d[p].kind = "link" THEN d[Origin(p)] ELSE d[p]
  <1>1. ASSUME NEW b \in Blobs PROVE StatIn(d, b) = d[b]
    BY StatIs
  <1>2. ASSUME NEW p \in Snapshots
        PROVE  StatIn(d, p) = IF d[p].kind = "link" THEN d[Origin(p)] ELSE d[p]
    <2>1. CASE d[p].kind # "link"
      BY <2>1, StatIs
    <2>2. CASE d[p].kind = "link"
      <3>1. Origin(p) \in Blobs
        BY OriginIs
      <3>2. d[p].to = Origin(p)
        BY <2>2, <3>1, PlacesApart, EntriesAre
      <3>3. QED
        BY <2>2, <3>1, <3>2, StatIs
    <2>3. QED
      BY <2>1, <2>2
  <1>3. QED
    BY <1>1, <1>2

LEMMA ShapeStat ==
    ASSUME Shape
    PROVE  /\ \A b \in Blobs : Stat(b) = disk[b]
           /\ \A p \in Snapshots : Stat(p) = IF disk[p].kind = "link" THEN disk[Origin(p)] ELSE disk[p]
  <1>1. \A b \in Blobs : disk[b].kind # "link"
    BY EntriesAre DEF Shape
  <1>2. QED
    BY <1>1, ShapeStatIn DEF Shape, Stat

TaskSteps == {"none", "check", "transfer", "verify", "store", "copy", "snap", "view",
              "done", "unlinked", "failed"}

LEMMA GotoIs ==
    ASSUME JobsTyped, NEW t \in Tasks, NEW s \in TaskSteps, Goto(t, s)
    PROVE  /\ task' \in [Tasks -> TaskSteps] /\ task'[t] = s
           /\ \A u \in Tasks \ {t} : task'[u] = task[u]
  BY DEF Goto, JobsTyped, TaskSteps

LEMMA GoesOnWhileBusy ==
    ASSUME JobsTyped, Busy, NEW t \in Tasks, NEW s \in TaskSteps, Goto(t, s), job[t[1]] = "files",
           UNCHANGED <<job, rebuild, rebuilds, deletion>>
    PROVE  Busy'
  <1>1. \A u \in Running' : job'[u[1]] = "files"
    BY GotoIs DEF Busy, Running
  <1>2. Publishing' = Publishing /\ Deleting' = Deleting
    BY DEF Publishing, Deleting, Active
  <1>3. rebuild' = rebuild /\ rebuilds' = rebuilds
    OBVIOUS
  <1>4. QED
    BY <1>1, <1>2, <1>3 DEF Busy

LEMMA StaysBusy ==
    ASSUME Busy, UNCHANGED <<job, task, rebuild, rebuilds>>, Deleting' => Deleting
    PROVE  Busy'
  <1>1. Publishing' = Publishing /\ Running' = Running
    BY DEF Publishing, Active, Running
  <1>2. rebuild' = rebuild /\ rebuilds' = rebuilds /\ job' = job
    OBVIOUS
  <1>3. QED
    BY <1>1, <1>2 DEF Busy

\* The rebuild goes on.
LEMMA RebuildGoesOn ==
    ASSUME Typed, Busy, UNCHANGED <<job, task, rebuilds, deletion>>,
           rebuild' \in Rebuilds, rebuild.stage # "idle",
           rebuild'.stage = rebuild.stage, rebuild'.commit = rebuild.commit,
           rebuild'.todo \subseteq rebuild.todo,
           rebuild'.at \subseteq rebuild'.todo,
           rebuild'.at = {} \/ \E p \in Places : rebuild'.at = {p}
    PROVE  Busy'
  <1>1. Publishing' = Publishing /\ Running' = Running /\ Deleting' = Deleting
    BY DEF Publishing, Active, Running, Deleting
  <1>2. rebuilds' = rebuilds /\ job' = job
    OBVIOUS
  <1>3. QED
    BY <1>1, <1>2 DEF Busy

LEMMA ShapeStays == ASSUME Shape, UNCHANGED disk PROVE Shape'
  BY DEF Shape

LEMMA TypedDisk ==
    ASSUME StoreTyped, disk' \in [Places -> Entries], linkFailed' \in [Roots -> LinkKinds],
           UNCHANGED <<ref, manifest, supports>>
    PROVE  StoreTyped'
  BY DEF StoreTyped

\* A place of the view, or one of the user's files, changes.
LEMMA ShapeOfOthers ==
    ASSUME StoreTyped, Shape, NEW p \in Places, NEW e \in Entries, Put(p, e),
           p \in Friendly \/ e = Absent \/ (p \in Snapshots /\ e.kind = "file")
           \/ (p \in Snapshots /\ e = Link(Origin(p)))
           \/ (p \in Blobs /\ e.kind = "file" /\ e.content = p[2])
    PROVE  Shape'
  <1>1. disk'[p] = e /\ \A q \in Places \ {p} : disk'[q] = disk[q]
    BY PutIs DEF StoreTyped
  <1>2. ASSUME NEW b \in Blobs
        PROVE  disk'[b] = Absent \/ (disk'[b].kind = "file" /\ disk'[b].content = b[2])
    BY <1>1, PlacesApart DEF Shape
  <1>3. ASSUME NEW q \in Snapshots, disk'[q].kind = "link"
        PROVE  disk'[q] = Link(Origin(q))
    BY <1>1, <1>3, PlacesApart, EntriesAre DEF Shape
  <1>4. QED
    BY <1>2, <1>3 DEF Shape

\* A writer works on an entry.
EntryMoves(w, p, v, ok) == EntryGoesOn(w, p, v) \/ EntryEnds(w, p, v, ok)

LEMMA EntryKeepsGround ==
    ASSUME StoreTyped, JobsTyped, Shape, NEW w \in Tasks \cup {RebuildProc}, NEW p \in Snapshots \cup Friendly,
           NEW v, NEW ok \in BOOLEAN, Source(p, v) \in Places, EntryMoves(w, p, v, ok),
           UNCHANGED <<ref, manifest, supports>>
    PROVE  /\ StoreTyped' /\ Shape' /\ faults' \in Nat
           /\ entry' \in [Tasks \cup {RebuildProc} -> EntryStep]
  <1>1. p \in Places
    BY PlacesApart
  <1>2. CASE EntryGoesOn(w, p, v)
    <2>1. disk' = disk \/ Put(p, Absent)
      BY <1>1, <1>2, EntryGoesOnIs
    <2>2. /\ linkFailed' = linkFailed /\ faults' = faults
          /\ entry' \in [Tasks \cup {RebuildProc} -> EntryStep]
      BY <1>1, <1>2, EntryGoesOnIs
    <2>3. Absent \in Entries
      BY EntriesAre
    <2>4. disk' \in [Places -> Entries] /\ Shape'
      <3>1. CASE disk' = disk
        BY <3>1, ShapeStays DEF StoreTyped
      <3>2. CASE Put(p, Absent)
        BY <3>2, <2>3, <1>1, ShapeOfOthers, PutIs DEF StoreTyped
      <3>3. QED
        BY <2>1, <3>1, <3>2
    <2>5. QED
      BY <2>2, <2>4, TypedDisk DEF StoreTyped, JobsTyped
  <1>3. CASE EntryEnds(w, p, v, ok)
    <2>1. disk' = disk \/ \E e \in Made(Source(p, v)) : Put(p, e)
      BY <1>1, <1>3, EntryEndsIs
    <2>2. /\ linkFailed' \in [Roots -> LinkKinds] /\ faults' \in Nat
          /\ entry' \in [Tasks \cup {RebuildProc} -> EntryStep]
      BY <1>1, <1>3, EntryEndsIs
    <2>3. disk' \in [Places -> Entries] /\ Shape'
      <3>1. CASE disk' = disk
        BY <3>1, ShapeStays DEF StoreTyped
      <3>2. ASSUME NEW e \in Made(Source(p, v)), Put(p, e) PROVE disk' \in [Places -> Entries] /\ Shape'
        <4>1. /\ e \in Entries /\ (e.kind = "link" => e = Link(Source(p, v)))
              /\ (e.kind # "link" => e.kind = "file")
          BY MadeIsCorrect
        <4>2. p \in Snapshots => Source(p, v) = Origin(p)
          BY OriginIs
        <4>3. p \in Friendly \/ (p \in Snapshots /\ e.kind = "file") \/ (p \in Snapshots /\ e = Link(Origin(p)))
          BY <4>1, <4>2
        <4>4. QED
          BY <1>1, <3>2, <4>1, <4>3, ShapeOfOthers, PutIs DEF StoreTyped
      <3>3. QED
        BY <2>1, <3>1, <3>2
    <2>4. QED
      BY <2>2, <2>3, TypedDisk DEF StoreTyped
  <1>4. QED
    BY <1>2, <1>3 DEF EntryMoves

LEMMA JobBeginsGround == ASSUME Ground, NEW j \in Jobs, JobBegins(j) PROVE Ground'
  <1>1. /\ ~Deleting /\ ~Active(j) /\ rebuild' = [rebuild EXCEPT !.alone = @ /\ rebuild.stage = "idle"]
        /\ job' = [job EXCEPT ![j] = "files"]
        /\ task' = [t \in Tasks |-> IF t[1] = j THEN "none" ELSE task[t]]
        /\ skip' = {t \in skip : t[1] # j}
        /\ UNCHANGED <<storeVars, temp, entry, faults, rebuilds>>
        /\ gone' = gone \ {SnapshotPath(JobCommit[j], f) : f \in JobFiles[j]}
        /\ UNCHANGED <<deletion, deletes, touches, crashes>>
    BY DEF JobBegins, StartJob
  <1>2. /\ disk' = disk /\ ref' = ref /\ manifest' = manifest /\ supports' = supports
        /\ linkFailed' = linkFailed /\ temp' = temp /\ entry' = entry /\ faults' = faults
        /\ rebuilds' = rebuilds /\ deletion' = deletion
    BY <1>1 DEF storeVars
  <1>3. /\ rebuild' \in Rebuilds /\ rebuild'.at = rebuild.at
        /\ rebuild'.stage = rebuild.stage /\ rebuild'.commit = rebuild.commit
        /\ rebuild'.todo = rebuild.todo
    BY <1>1, JoinedIs DEF Ground, Typed, JobsTyped
  <1>4. Typed'
    <2>1. StoreTyped'
      BY <1>2 DEF Ground, Typed, StoreTyped
    <2>2. job' \in [Jobs -> {"idle", "files", "ref", "manifest", "completed", "failed"}]
      BY <1>1 DEF Ground, Typed, JobsTyped
    <2>3. task' \in [Tasks -> TaskSteps] /\ skip' \subseteq Tasks
      BY <1>1 DEF Ground, Typed, JobsTyped, TaskSteps
    <2>4. JobsTyped'
      BY <1>2, <1>3, <2>2, <2>3 DEF Ground, Typed, JobsTyped, TaskSteps
    <2>5. DeletionTyped'
      BY <1>1, <1>2 DEF Ground, Typed, DeletionTyped
    <2>6. QED
      BY <2>1, <2>4, <2>5 DEF Typed
  <1>5. Shape'
    BY <1>2, ShapeStays DEF Ground
  <1>6. Busy'
    <2>1. \A t \in Running' : job'[t[1]] = "files"
      <3> SUFFICES ASSUME NEW t \in Running' PROVE job'[t[1]] = "files"
        OBVIOUS
      <3>1. t \in Tasks /\ t[1] \in Jobs /\ t[1] # j
        BY <1>1, TasksAre DEF Running
      <3>2. t \in Running
        BY <1>1, <3>1 DEF Running
      <3>3. QED
        BY <1>1, <3>1, <3>2 DEF Ground, Typed, JobsTyped, Busy
    <2>2. ~Deleting'
      BY <1>1, <1>2 DEF Deleting
    <2>3. QED
      BY <1>2, <1>3, <2>1, <2>2 DEF Ground, Busy
  <1>7. QED
    BY <1>4, <1>5, <1>6 DEF Ground

LEMMA RebuildBeginsGround == ASSUME Ground, RebuildBegins PROVE Ground'
  <1>1. /\ ~Deleting /\ rebuild.stage = "idle" /\ rebuilds' = rebuilds + 1
        /\ UNCHANGED <<storeVars, temp, job, task, skip, entry, starts, faults>>
        /\ UNCHANGED <<deleteVars, crashes>>
    BY DEF RebuildBegins, StartRebuild
  <1>2. PICK v \in RebuildCommits :
           rebuild' = [Idle EXCEPT !.stage = "repair", !.commit = v, !.todo = Repairs(v),
                                 !.alone = \A j \in Jobs : ~Active(j)]
    BY DEF RebuildBegins, StartRebuild
  <1>3. /\ disk' = disk /\ ref' = ref /\ manifest' = manifest /\ supports' = supports
        /\ linkFailed' = linkFailed /\ temp' = temp /\ entry' = entry /\ faults' = faults
        /\ job' = job /\ task' = task /\ skip' = skip /\ deletion' = deletion /\ gone' = gone
    BY <1>1 DEF storeVars, deleteVars
  <1>4. v \in Versions
    BY DEF RebuildCommits, SavedVersions, Ground, Typed, StoreTyped, Manifests
  <1>5. \A p \in Repairs(v) : p \in Snapshots /\ p[2] = v
    <2>1. manifest.files \subseteq Files
      BY DEF Ground, Typed, StoreTyped, Manifests
    <2>2. QED
      BY <1>4, <2>1, PlacesAre DEF Repairs
  <1>6. /\ rebuild' \in Rebuilds /\ rebuild'.stage = "repair" /\ rebuild'.commit = v
        /\ rebuild'.todo = Repairs(v) /\ rebuild'.at = {}
    <2>1. Repairs(v) \in SUBSET Places
      BY <1>5, PlacesApart
    <2> PICK b \in BOOLEAN : b = (\A j \in Jobs : ~Active(j))
      OBVIOUS
    <2>2. QED
      BY <1>2, <1>4, <2>1, BegunIs
  <1>7. Typed'
    <2>1. StoreTyped'
      BY <1>3 DEF Ground, Typed, StoreTyped
    <2>2. JobsTyped'
      BY <1>1, <1>3, <1>6 DEF Ground, Typed, JobsTyped
    <2>3. DeletionTyped'
      BY <1>3 DEF Ground, Typed, DeletionTyped
    <2>4. QED
      BY <2>1, <2>2, <2>3 DEF Typed
  <1>8. Shape'
    BY <1>3, ShapeStays DEF Ground
  <1>9. Busy'
    <2>1. \A t \in Running' : job'[t[1]] = "files"
      BY <1>3 DEF Running, Ground, Busy
    <2>2. ~Deleting'
      BY <1>1, <1>3 DEF Deleting
    <2>3. rebuilds' > 0
      BY <1>1 DEF Ground, Typed, JobsTyped
    <2>4. QED
      BY <1>4, <1>5, <1>6, <2>1, <2>2, <2>3 DEF Busy
  <1>10. QED
    BY <1>7, <1>8, <1>9 DEF Ground

\* A job writes its ref or its manifest, or has ended with its files.
LEMMA JobStepsGround ==
    ASSUME Ground, NEW j \in Jobs, FilesEnd(j) \/ WriteRef(j) \/ WriteManifest(j),
           UNCHANGED <<deleteVars, crashes>>
    PROVE  Ground'
  <1>1. /\ Active(j)
        /\ UNCHANGED <<disk, supports, linkFailed, temp, task, skip, entry, rebuild, starts, rebuilds>>
        /\ UNCHANGED <<deletion, gone>>
    BY DEF FilesEnd, WriteRef, WriteManifest, Active, storeVars, deleteVars
  <1>2. /\ \E s \in {"failed", "ref", "manifest", "completed"} : job' = [job EXCEPT ![j] = s]
        /\ \A t \in Running : t[1] # j
    <2>1. CASE FilesEnd(j)
      BY <2>1 DEF FilesEnd, JobTasks, Running
    <2>2. CASE WriteRef(j) \/ WriteManifest(j)
      BY <2>2 DEF WriteRef, WriteManifest, Ground, Busy
    <2>3. QED
      BY <2>1, <2>2
  <1>3. StoreTyped' /\ faults' \in Nat
    <2>1. ref' \in Versions \cup {None} /\ manifest' \in Manifests /\ faults' \in Nat
      <3>1. CASE FilesEnd(j)
        BY <3>1 DEF FilesEnd, storeVars, Ground, Typed, StoreTyped, JobsTyped
      <3>2. CASE WriteRef(j)
        <4>1. JobCommit[j] \in Versions
          BY PublishAssumption
        <4>2. (ref' = JobCommit[j] \/ ref' = ref) /\ manifest' = manifest /\ (faults' = faults + 1 \/ faults' = faults)
          BY <3>2 DEF WriteRef, Fault, NoFault
        <4>3. QED
          BY <4>1, <4>2 DEF Ground, Typed, StoreTyped, JobsTyped
      <3>3. CASE WriteManifest(j)
        <4>1. Written(JobCommit[j], JobFiles[j]) \in Manifests
          BY PublishAssumption DEF Written, Manifests
        <4>2. QED
          BY <3>3, <4>1 DEF WriteManifest, Fault, NoFault, Ground, Typed, StoreTyped, JobsTyped
      <3>4. QED
        BY <3>1, <3>2, <3>3
    <2>2. QED
      BY <1>1, <2>1 DEF Ground, Typed, StoreTyped
  <1>4. Typed'
    <2>1. job' \in [Jobs -> {"idle", "files", "ref", "manifest", "completed", "failed"}]
      BY <1>2 DEF Ground, Typed, JobsTyped
    <2>2. QED
      BY <1>1, <1>3, <2>1 DEF Ground, Typed, JobsTyped, DeletionTyped
  <1>5. Shape'
    BY <1>1, ShapeStays DEF Ground
  <1>6. Busy'
    <2>1. \A t \in Running' : job'[t[1]] = "files"
      BY <1>1, <1>2, TasksAre DEF Running, Ground, Typed, JobsTyped, Busy
    <2>2. ~Deleting'
      BY <1>1 DEF Deleting, Publishing, Ground, Busy
    <2>3. rebuild' = rebuild /\ rebuilds' = rebuilds
      BY <1>1
    <2>4. QED
      BY <2>1, <2>2, <2>3 DEF Ground, Busy
  <1>7. QED
    BY <1>4, <1>5, <1>6 DEF Ground

\* A goroutine takes a step that writes no entry.
LEMMA TaskStepsGround ==
    ASSUME Ground, NEW t \in Tasks,
           \/ BeginFile(t) \/ SkipCheck(t) \/ Transferred(t) \/ VerifyFile(t) \/ StoreBlob(t)
           \/ CopyBlob(t) \/ FileFails(t),
           UNCHANGED <<deleteVars, crashes>>
    PROVE  Ground'
  <1> DEFINE b == BlobPath(Content(t))
  <1>1. /\ UNCHANGED <<ref, manifest, supports, linkFailed, job, entry, rebuild, rebuilds>>
        /\ UNCHANGED <<deletion, gone>>
    BY DEF BeginFile, SkipCheck, Transferred, VerifyFile, StoreBlob, CopyBlob, FileFails,
           storeVars, deleteVars
  <1>2. /\ \E s \in TaskSteps : Goto(t, s)
        /\ skip' \subseteq skip \cup {t}
        /\ temp' \subseteq temp \cup {Content(t)}
        /\ faults' = faults \/ faults' = faults + 1
    BY DEF BeginFile, SkipCheck, Transferred, VerifyFile, StoreBlob, CopyBlob, FileFails,
           NoFault, Fault, TaskSteps
  <1>3. disk' = disk \/ Put(b, NewFile(Content(t)))
    BY DEF BeginFile, SkipCheck, Transferred, VerifyFile, StoreBlob, CopyBlob, FileFails,
           storeVars, Put
  <1>4. job[t[1]] = "files"
    <2>1. BeginFile(t) \/ task[t] \notin {"none"} \cup Ended
      BY DEF BeginFile, SkipCheck, Transferred, VerifyFile, StoreBlob, CopyBlob, FileFails, Ended
    <2>2. QED
      BY <2>1 DEF BeginFile, Running, Ground, Busy
  <1>5. /\ NewFile(Content(t)) \in Entries /\ NewFile(Content(t)).kind = "file"
        /\ NewFile(Content(t)).content = Content(t)
        /\ b \in Blobs /\ b \in Places /\ b[2] = Content(t) /\ Content(t) \in Contents
    BY TaskPlaces, NewFileIs, PlacesAre, PlacesApart
  <1> HIDE DEF b
  <1>6. disk' \in [Places -> Entries] /\ Shape'
    <2>1. CASE disk' = disk
      BY <2>1, ShapeStays DEF Ground, Typed, StoreTyped
    <2>2. CASE Put(b, NewFile(Content(t)))
      BY <2>2, <1>5, ShapeOfOthers, PutIs DEF Ground, Typed, StoreTyped
    <2>3. QED
      BY <1>3, <2>1, <2>2
  <1>7. StoreTyped'
    BY <1>1, <1>6, TypedDisk DEF Ground, Typed, StoreTyped
  <1>8. JobsTyped'
    <2>1. task' \in [Tasks -> TaskSteps]
      BY <1>2, GotoIs DEF Ground, Typed
    <2>2. QED
      BY <1>1, <1>2, <1>5, <2>1 DEF Ground, Typed, JobsTyped, TaskSteps
  <1>9. Busy'
    <2>1. PICK s \in TaskSteps : Goto(t, s)
      BY <1>2
    <2>2. UNCHANGED <<job, rebuild, rebuilds, deletion>>
      BY <1>1
    <2>3. QED
      BY <1>4, <2>1, <2>2, GoesOnWhileBusy DEF Ground, Typed
  <1>10. QED
    BY <1>1, <1>6, <1>7, <1>8, <1>9 DEF Ground, Typed, DeletionTyped

\* Which entry a goroutine writes, and how.
TaskWrites(t, p, ok) ==
    /\ \/ task[t] = "snap" /\ p = SnapshotOf(t)
       \/ task[t] = "view" /\ p = FriendlyOf(t)
    /\ \/ EntryGoesOn(t, p, Commit(t)) /\ UNCHANGED task
       \/ /\ EntryEnds(t, p, Commit(t), ok)
          /\ Goto(t, IF p = SnapshotOf(t) /\ ok THEN "view"
                     ELSE IF ok THEN "done"
                     ELSE IF t \notin skip THEN "failed"
                     ELSE IF p = SnapshotOf(t) THEN "unlinked" ELSE "done")
    /\ UNCHANGED <<ref, manifest, supports, temp, job, skip, rebuild, starts, rebuilds>>

LEMMA TaskWritesIs ==
    ASSUME NEW t \in Tasks, SnapshotEntry(t) \/ FriendlyEntry(t)
    PROVE  \E p \in Snapshots \cup Friendly, ok \in BOOLEAN : TaskWrites(t, p, ok)
  <1>0. SnapshotOf(t) \in Snapshots /\ FriendlyOf(t) \in Friendly /\ SnapshotOf(t) # FriendlyOf(t)
    BY TaskPlaces, PlacesApart
  <1>1. CASE SnapshotEntry(t)
    <2>1. \E ok \in BOOLEAN : TaskWrites(t, SnapshotOf(t), ok)
      <3>1. CASE EntryGoesOn(t, SnapshotOf(t), Commit(t)) /\ UNCHANGED task
        BY <1>1, <3>1 DEF SnapshotEntry, TaskWrites
      <3>2. CASE EntryEnds(t, SnapshotOf(t), Commit(t), TRUE) /\ Goto(t, "view")
        BY <1>1, <3>2 DEF SnapshotEntry, TaskWrites
      <3>3. CASE /\ EntryEnds(t, SnapshotOf(t), Commit(t), FALSE)
                 /\ Goto(t, IF t \in skip THEN "unlinked" ELSE "failed")
        BY <1>1, <3>3 DEF SnapshotEntry, TaskWrites
      <3>4. QED
        BY <1>1, <3>1, <3>2, <3>3 DEF SnapshotEntry
    <2>2. QED
      BY <1>0, <2>1
  <1>2. CASE FriendlyEntry(t)
    <2>1. \E ok \in BOOLEAN : TaskWrites(t, FriendlyOf(t), ok)
      <3>1. CASE EntryGoesOn(t, FriendlyOf(t), Commit(t)) /\ UNCHANGED task
        BY <1>2, <3>1 DEF FriendlyEntry, TaskWrites
      <3>2. CASE EntryEnds(t, FriendlyOf(t), Commit(t), TRUE) /\ Goto(t, "done")
        BY <1>0, <1>2, <3>2 DEF FriendlyEntry, TaskWrites
      <3>3. CASE /\ EntryEnds(t, FriendlyOf(t), Commit(t), FALSE)
                 /\ Goto(t, IF t \in skip THEN "done" ELSE "failed")
        BY <1>0, <1>2, <3>3 DEF FriendlyEntry, TaskWrites
      <3>4. QED
        BY <1>2, <3>1, <3>2, <3>3 DEF FriendlyEntry
    <2>2. QED
      BY <1>0, <2>1
  <1>3. QED
    BY <1>1, <1>2

\* What an entry of a file is made from.
LEMMA TaskSource ==
    ASSUME NEW t \in Tasks
    PROVE  /\ Source(SnapshotOf(t), Commit(t)) = BlobPath(Content(t))
           /\ Source(FriendlyOf(t), Commit(t)) = SnapshotOf(t)
           /\ BlobPath(Content(t)) \in Places /\ SnapshotOf(t) \in Places
  <1>1. Source(SnapshotOf(t), Commit(t)) = BlobPath(Content(t))
    BY TaskPlaces, OriginIs
  <1>2. FriendlyOf(t) \notin Snapshots /\ FriendlyOf(t)[2] = t[2]
    BY TaskPlaces, PlacesApart
  <1>3. Source(FriendlyOf(t), Commit(t)) = SnapshotOf(t)
    BY <1>2 DEF Source, SnapshotOf
  <1>4. QED
    BY <1>1, <1>3, TaskPlaces, PlacesApart

LEMMA TaskWritesGround ==
    ASSUME Ground, NEW t \in Tasks, NEW p \in Snapshots \cup Friendly, NEW ok \in BOOLEAN,
           TaskWrites(t, p, ok), UNCHANGED <<deleteVars, crashes>>
    PROVE  Ground'
  <1>1. /\ UNCHANGED <<ref, manifest, supports, temp, job, skip, rebuild, rebuilds>>
        /\ UNCHANGED <<deletion, gone>>
        /\ EntryMoves(t, p, Commit(t), ok)
    BY DEF TaskWrites, deleteVars, EntryMoves
  <1>2. Source(p, Commit(t)) \in Places
    BY TaskSource DEF TaskWrites
  <1>3. /\ StoreTyped' /\ Shape' /\ faults' \in Nat
        /\ entry' \in [Tasks \cup {RebuildProc} -> EntryStep]
    BY <1>1, <1>2, EntryKeepsGround DEF Ground, Typed
  <1>4. \E s \in TaskSteps : Goto(t, s)
    <2>1. CASE UNCHANGED task
      <3>1. task' = [task EXCEPT ![t] = task[t]] /\ task[t] \in TaskSteps
        BY <2>1 DEF Ground, Typed, JobsTyped, TaskSteps
      <3>2. QED
        BY <3>1 DEF Goto
    <2>2. QED
      BY <2>1 DEF TaskWrites, TaskSteps
  <1>5. job[t[1]] = "files"
    BY DEF TaskWrites, Ground, Busy, Running, Ended
  <1>6. Busy'
    <2>1. PICK s \in TaskSteps : Goto(t, s)
      BY <1>4
    <2>2. UNCHANGED <<job, rebuild, rebuilds, deletion>>
      BY <1>1
    <2>3. QED
      BY <1>5, <2>1, <2>2, GoesOnWhileBusy DEF Ground, Typed
  <1>7. Typed'
    <2>1. task' \in [Tasks -> TaskSteps]
      BY <1>4, GotoIs DEF Ground, Typed
    <2>2. QED
      BY <1>1, <1>3, <2>1 DEF Ground, Typed, JobsTyped, TaskSteps, DeletionTyped
  <1>8. QED
    BY <1>3, <1>6, <1>7 DEF Ground

\* The rebuild looks at the next entry, and writes nothing.
RebuildLooks(p) ==
    \/ NextRepair(p) \/ NextWalk(p)
    \/ NextClean(p) /\ rebuild.at = {} /\ UNCHANGED disk

LEMMA RebuildLooksIs ==
    ASSUME Ground, NEW p \in Places, RebuildLooks(p)
    PROVE  /\ rebuild' \in Rebuilds /\ rebuild.stage # "idle"
           /\ rebuild'.stage = rebuild.stage /\ rebuild'.commit = rebuild.commit
           /\ rebuild'.alone = rebuild.alone
           /\ rebuild.at = {} /\ p \in rebuild.todo
           /\ \/ rebuild'.todo = rebuild.todo /\ rebuild'.at = {p} /\ rebuild'.errors = rebuild.errors
                 /\ Handed(p)
              \/ \E ok \in BOOLEAN : 
                   /\ rebuild'.todo = rebuild.todo \ {p} /\ rebuild'.at = {} /\ Passed(p, ok)
                   /\ (~rebuild'.errors => ok /\ ~rebuild.errors)
              \/ rebuild'.todo = {} /\ rebuild'.at = {} /\ rebuild'.errors
           /\ UNCHANGED <<disk, ref, manifest, supports, linkFailed, temp, job, task, skip, entry,
                          faults, rebuilds>>
  <1>1. /\ rebuild.stage # "idle" /\ rebuild.at = {} /\ p \in rebuild.todo
        /\ UNCHANGED <<disk, ref, manifest, supports, linkFailed, temp, job, task, skip, entry,
                       faults, rebuilds>>
    BY DEF RebuildLooks, NextRepair, NextWalk, NextClean, storeVars
  <1>2. \/ Handed(p) \/ Passed(p, TRUE) \/ Passed(p, FALSE)
        \/ rebuild' = [rebuild EXCEPT !.todo = {}, !.errors = TRUE]
    BY <1>1 DEF RebuildLooks, NextRepair, NextWalk, NextClean
  <1>3. rebuild \in Rebuilds
    BY DEF Ground, Typed, JobsTyped
  <1>4. CASE Handed(p)
    BY <1>1, <1>3, <1>4, HandedIs
  <1>5. ASSUME NEW ok \in BOOLEAN, Passed(p, ok)
        PROVE  /\ rebuild' \in Rebuilds
               /\ rebuild'.stage = rebuild.stage /\ rebuild'.commit = rebuild.commit
               /\ rebuild'.alone = rebuild.alone
               /\ rebuild'.todo = rebuild.todo \ {p} /\ rebuild'.at = {}
               /\ (~rebuild'.errors => ok /\ ~rebuild.errors)
    BY <1>3, <1>5, PassedIs
  <1>6. CASE rebuild' = [rebuild EXCEPT !.todo = {}, !.errors = TRUE]
    BY <1>1, <1>3, <1>6, WalkEndIs
  <1>7. QED
    BY <1>1, <1>2, <1>4, <1>5, <1>6

LEMMA RebuildLooksGround ==
    ASSUME Ground, NEW p \in Places, RebuildLooks(p), UNCHANGED <<deleteVars, crashes>>
    PROVE  Ground'
  <1>1. deletion' = deletion /\ gone' = gone
    BY DEF deleteVars
  <1>2. Typed'
    BY <1>1, RebuildLooksIs DEF Ground, Typed, StoreTyped, JobsTyped, DeletionTyped
  <1>3. Shape'
    BY RebuildLooksIs, ShapeStays DEF Ground
  <1>4. Busy'
    <2>1. /\ rebuild'.todo \subseteq rebuild.todo /\ rebuild'.at \subseteq rebuild'.todo
          /\ rebuild'.at = {} \/ rebuild'.at = {p}
      BY RebuildLooksIs
    <2>2. UNCHANGED <<job, task, rebuilds, deletion>>
      BY <1>1, RebuildLooksIs
    <2>3. QED
      BY <2>1, <2>2, RebuildLooksIs, RebuildGoesOn DEF Ground
  <1>5. QED
    BY <1>2, <1>3, <1>4 DEF Ground

\* The rebuild writes an entry for the place p it is at.
RebuildWrites(p, ok) ==
    /\ rebuild.stage \in {"repair", "walk"} /\ rebuild.at = {p}
    /\ \/ EntryGoesOn(RebuildProc, RebuiltPlace(p), rebuild.commit) /\ UNCHANGED rebuild
       \/ EntryEnds(RebuildProc, RebuiltPlace(p), rebuild.commit, ok) /\ Passed(p, ok)
    /\ UNCHANGED <<ref, manifest, supports, temp, job, task, skip, starts, rebuilds>>

LEMMA RebuildWritesIs ==
    ASSUME NEW p, RebuildEntry(p)
    PROVE  \E ok \in BOOLEAN : RebuildWrites(p, ok)
  BY DEF RebuildEntry, RebuildWrites

\* Where it writes, and what from.
LEMMA RebuildSource ==
    ASSUME Ground, NEW p \in Places, rebuild.at = {p}, rebuild.stage \in {"repair", "walk"}
    PROVE  /\ p \in Snapshots /\ p[2] = rebuild.commit /\ p \in rebuild.todo
           /\ Source(RebuiltPlace(p), rebuild.commit) \in Places
           /\ RebuiltPlace(p) \in Snapshots \cup Friendly
           /\ rebuild.stage = "repair" => /\ RebuiltPlace(p) = p
                                          /\ Source(RebuiltPlace(p), rebuild.commit) = Origin(p)
           /\ rebuild.stage = "walk" => /\ RebuiltPlace(p) = FriendlyPath(p[3])
                                        /\ RebuiltPlace(p) \in Friendly
                                        /\ Source(RebuiltPlace(p), rebuild.commit) = p
  <1>1. p \in rebuild.todo /\ p \in Snapshots /\ p[2] = rebuild.commit
    BY DEF Ground, Busy
  <1>2. /\ FriendlyPath(p[3]) \in Friendly /\ FriendlyPath(p[3]) \notin Snapshots
        /\ FriendlyPath(p[3])[2] = p[3]
    BY <1>1, PlacesAre, PlacesApart
  <1>3. Source(FriendlyPath(p[3]), rebuild.commit) = p
    BY <1>1, <1>2, PlacesAre DEF Source
  <1>4. Source(p, rebuild.commit) = Origin(p) /\ Origin(p) \in Places
    BY <1>1, OriginIs
  <1>5. QED
    BY <1>1, <1>2, <1>3, <1>4 DEF RebuiltPlace

LEMMA RebuildWritesGround ==
    ASSUME Ground, NEW p \in Places, NEW ok \in BOOLEAN, RebuildWrites(p, ok),
           UNCHANGED <<deleteVars, crashes>>
    PROVE  Ground'
  <1>1. /\ UNCHANGED <<ref, manifest, supports, temp, job, task, skip, rebuilds, deletion, gone>>
        /\ EntryMoves(RebuildProc, RebuiltPlace(p), rebuild.commit, ok)
    BY DEF RebuildWrites, deleteVars, EntryMoves
  <1>2. /\ StoreTyped' /\ Shape' /\ faults' \in Nat
        /\ entry' \in [Tasks \cup {RebuildProc} -> EntryStep]
    <2>1. StoreTyped /\ JobsTyped /\ Shape
      BY DEF Ground, Typed
    <2>2. rebuild.at = {p} /\ rebuild.stage \in {"repair", "walk"}
      BY DEF RebuildWrites
    <2>3. /\ RebuiltPlace(p) \in Snapshots \cup Friendly
          /\ Source(RebuiltPlace(p), rebuild.commit) \in Places
      BY <2>2, RebuildSource
    <2> QED
      BY <1>1, <2>1, <2>3, EntryKeepsGround
  <1>3. /\ rebuild' \in Rebuilds /\ rebuild'.stage = rebuild.stage /\ rebuild'.commit = rebuild.commit
        /\ rebuild'.todo \subseteq rebuild.todo /\ rebuild'.at \subseteq rebuild'.todo
        /\ rebuild'.at = {} \/ rebuild'.at = {p}
    <2>1. rebuild \in Rebuilds /\ rebuild.at \subseteq rebuild.todo
      BY DEF Ground, Typed, JobsTyped, Busy
    <2>2. CASE UNCHANGED rebuild
      BY <2>1, <2>2 DEF RebuildWrites
    <2>3. CASE Passed(p, ok)
      BY <2>1, <2>3, PassedIs
    <2>4. QED
      BY <2>2, <2>3 DEF RebuildWrites
  <1>4. Busy'
    <2>1. rebuild.stage # "idle"
      BY DEF RebuildWrites
    <2>2. UNCHANGED <<job, task, rebuilds, deletion>>
      BY <1>1
    <2>3. QED
      BY <1>3, <2>1, <2>2, RebuildGoesOn DEF Ground
  <1>5. QED
    BY <1>1, <1>2, <1>3, <1>4 DEF Ground, Typed, JobsTyped, DeletionTyped

\* The rebuild removes a link of the view that led nowhere.
RebuildCleans(p) == NextClean(p) /\ rebuild.at = {p} /\ Put(p, Absent) /\ Passed(p, TRUE)

LEMMA NextCleanIs ==
    ASSUME NEW p, NextClean(p)
    PROVE  RebuildLooks(p) \/ RebuildCleans(p)
  BY DEF NextClean, RebuildLooks, RebuildCleans, Put

LEMMA RebuildCleansGround ==
    ASSUME Ground, NEW p \in Places, RebuildCleans(p), UNCHANGED <<deleteVars, crashes>>
    PROVE  Ground'
  <1>1. /\ UNCHANGED <<ref, manifest, supports, linkFailed, temp, job, task, skip, entry, faults,
                       rebuilds, deletion, gone>>
        /\ Put(p, Absent) /\ Passed(p, TRUE) /\ rebuild.stage = "clean"
    BY DEF RebuildCleans, NextClean, deleteVars
  <1>2. disk' \in [Places -> Entries] /\ Shape'
    BY <1>1, EntriesAre, PutIs, ShapeOfOthers DEF Ground, Typed, StoreTyped
  <1>3. rebuild \in Rebuilds
    BY DEF Ground, Typed, JobsTyped
  <1>4. /\ rebuild' \in Rebuilds /\ rebuild'.at = {} /\ rebuild'.stage = rebuild.stage
        /\ rebuild'.commit = rebuild.commit /\ rebuild'.todo \subseteq rebuild.todo
    BY <1>1, <1>3, PassedIs
  <1>5. Busy'
    <2>1. UNCHANGED <<job, task, rebuilds, deletion>>
      BY <1>1
    <2>2. QED
      BY <1>1, <1>4, <2>1, RebuildGoesOn DEF Ground
  <1>6. QED
    BY <1>1, <1>2, <1>4, <1>5 DEF Ground, Typed, StoreTyped, JobsTyped, DeletionTyped

\* The next pass, or the end, of the rebuild.
LEMMA NextStageIs ==
    ASSUME Ground, NextStage
    PROVE  /\ rebuild' \in Rebuilds /\ rebuild.stage # "idle" /\ rebuild.todo = {} /\ rebuild'.at = {}
           /\ \/ rebuild' = Idle
              \/ /\ rebuild'.alone = rebuild.alone /\ rebuild'.errors = rebuild.errors
                 /\ rebuild'.commit = rebuild.commit
                 /\ \/ rebuild.stage = "repair" /\ rebuild'.stage = "walk"
                       /\ rebuild'.todo = {p \in Snapshots : p[2] = rebuild.commit /\ Exists(p)}
                    \/ rebuild.stage = "walk" /\ rebuild'.stage = "clean"
                       /\ rebuild'.todo = {p \in Friendly : Exists(p)}
           /\ UNCHANGED <<disk, ref, manifest, supports, linkFailed, temp, job, task, skip, entry,
                          faults, rebuilds>>
  <1>1. /\ rebuild.stage # "idle" /\ rebuild.todo = {} /\ rebuild.at = {} /\ rebuild \in Rebuilds
        /\ UNCHANGED <<disk, ref, manifest, supports, linkFailed, temp, job, task, skip, entry,
                       faults, rebuilds>>
    BY DEF NextStage, storeVars, Ground, Busy, Typed, JobsTyped
  <1>2. CASE rebuild' = Idle
    BY <1>1, <1>2, IdleIs
  <1>3. CASE /\ rebuild.stage = "repair"
             /\ rebuild' = [rebuild EXCEPT !.stage = "walk",
                              !.todo = {p \in Snapshots : p[2] = rebuild.commit /\ Exists(p)}]
    <2>1. {p \in Snapshots : p[2] = rebuild.commit /\ Exists(p)} \in SUBSET Places
      BY PlacesApart
    <2>2. QED
      BY <1>1, <1>3, <2>1, StageIs
  <1>4. CASE /\ rebuild.stage = "walk"
             /\ rebuild' = [rebuild EXCEPT !.stage = "clean", !.todo = {p \in Friendly : Exists(p)}]
    <2>1. {p \in Friendly : Exists(p)} \in SUBSET Places
      BY PlacesApart
    <2>2. QED
      BY <1>1, <1>4, <2>1, StageIs
  <1>5. QED
    BY <1>2, <1>3, <1>4 DEF NextStage

LEMMA NextStageGround ==
    ASSUME Ground, NextStage, UNCHANGED <<deleteVars, crashes>>
    PROVE  Ground'
  <1>1. deletion' = deletion /\ gone' = gone
    BY DEF deleteVars
  <1>2. Typed'
    BY <1>1, NextStageIs DEF Ground, Typed, StoreTyped, JobsTyped, DeletionTyped
  <1>3. Shape'
    BY NextStageIs, ShapeStays DEF Ground
  <1>4. Busy'
    <2>1. Running' = Running /\ job' = job /\ rebuilds' = rebuilds
      BY NextStageIs DEF Running
    <2>2. ~Deleting'
      BY <1>1, NextStageIs DEF Deleting, Ground, Busy, Publishing
    <2>3. CASE rebuild' = Idle
      BY <2>1, <2>2, <2>3, IdleIs DEF Ground, Busy
    <2>4. CASE rebuild' # Idle
      BY <2>1, <2>2, <2>4, NextStageIs DEF Ground, Busy
    <2>5. QED
      BY <2>3, <2>4
  <1>5. QED
    BY <1>2, <1>3, <1>4 DEF Ground

\* The deletion tries to remove what it has seen at a place.
Removes(p) ==
    /\ \/ RemoveFriendly(p) \/ RemoveSnapshot(p) \/ RemovePayload(p)

LEMMA RemovesIs ==
    ASSUME Typed, NEW p \in Places, Removes(p)
    PROVE  /\ Deleting /\ deletion' \in Deletions /\ Inspected' = Inspected
           /\ deletion'.stage = deletion.stage
           /\ UNCHANGED <<ref, manifest, supports, linkFailed, temp, job, task, skip, entry, rebuild,
                          rebuilds, gone>>
           /\ faults' \in Nat
           /\ p \notin Settled
           /\ \/ /\ disk[p] = deletion.seen[p] /\ Exists(p) /\ Put(p, Absent)
                 /\ deletion'.removed = deletion.removed \cup {p}
                 /\ deletion'.remaining = deletion.remaining /\ deletion'.errors = deletion.errors
              \/ /\ disk' = disk /\ deletion'.removed = deletion.removed
                 /\ deletion'.remaining = deletion.remaining \cup {p} /\ deletion'.errors
           /\ \/ deletion.stage = "friendly" /\ p \in DOMAIN deletion.leads
              \/ deletion.stage = "snapshots" /\ p \in deletion.selected
              \/ deletion.stage = "blobs" /\ p \in Unneeded
  <1>1. /\ \/ deletion.stage = "friendly" /\ p \in DOMAIN deletion.leads
           \/ deletion.stage = "snapshots" /\ p \in deletion.selected
           \/ deletion.stage = "blobs" /\ p \in Unneeded
        /\ p \notin Settled /\ StoreUnchanged
        /\ RemoveSeen(p, Removed(p)) \/ (Remaining(p) /\ UNCHANGED disk /\ NoFault)
    BY DEF Removes, RemoveFriendly, RemoveSnapshot, RemovePayload
  <1>2. \/ /\ disk[p] = deletion.seen[p] /\ Exists(p) /\ Put(p, Absent) /\ Removed(p)
        \/ disk' = disk /\ Remaining(p)
    BY <1>1 DEF RemoveSeen, Put
  <1>3. faults' = faults \/ faults' = faults + 1
    BY <1>1 DEF RemoveSeen, Fault, NoFault
  <1>4. deletion \in Deletions /\ faults \in Nat
    BY DEF Typed, DeletionTyped, JobsTyped
  <1>5. Deleting
    BY <1>1 DEF Deleting
  <1>6. UNCHANGED <<ref, manifest, supports, linkFailed, temp, job, task, skip, entry, rebuild,
                    rebuilds, gone>>
    BY <1>1 DEF StoreUnchanged
  <1>7. CASE /\ disk[p] = deletion.seen[p] /\ Exists(p) /\ Put(p, Absent) /\ Removed(p)
    BY <1>1, <1>3, <1>4, <1>5, <1>6, <1>7, RemovedIs
  <1>8. CASE disk' = disk /\ Remaining(p)
    BY <1>1, <1>3, <1>4, <1>5, <1>6, <1>8, RemainingIs
  <1>9. QED
    BY <1>2, <1>7, <1>8

LEMMA RemovesGround == ASSUME Ground, NEW p \in Places, Removes(p) PROVE Ground'
  <1>1. disk' \in [Places -> Entries] /\ Shape'
    <2>1. disk' = disk \/ Put(p, Absent)
      BY RemovesIs DEF Ground
    <2>2. CASE disk' = disk
      BY <2>2, ShapeStays DEF Ground, Typed, StoreTyped
    <2>3. CASE Put(p, Absent)
      BY <2>3, EntriesAre, PutIs, ShapeOfOthers DEF Ground, Typed, StoreTyped
    <2>4. QED
      BY <2>1, <2>2, <2>3
  <1>2. Typed'
    BY <1>1, RemovesIs DEF Ground, Typed, StoreTyped, JobsTyped, DeletionTyped
  <1>3. Busy'
    <2>1. UNCHANGED <<job, task, rebuild, rebuilds>> /\ (Deleting' => Deleting)
      BY RemovesIs DEF Ground
    <2>2. QED
      BY <2>1, StaysBusy DEF Ground
  <1>4. QED
    BY <1>1, <1>2, <1>3 DEF Ground

\* What is found of the selected entries.
LEMMA PayloadIs ==
    ASSUME Ground, NEW p \in Snapshots
    PROVE  /\ Payload(p) \in SUBSET Blobs
           /\ disk[p].kind = "link" => Payload(p) = {Origin(p)}
  <1>1. CASE disk[p].kind = "link"
    BY <1>1, OriginIs, EntriesAre DEF Payload, Ground, Shape
  <1>2. CASE disk[p].kind # "link"
    BY <1>2 DEF Payload, SharedBlobs
  <1>3. QED
    BY <1>1, <1>2

\* A deletion begins, and keeps what it has found.
Begins(selected) ==
    /\ ~Refused(selected)
    /\ deletion'.stage = "tombstones" /\ deletion'.selected = selected /\ deletion'.seen = disk
    /\ deletion'.leads = [n \in Projections(selected) |-> ResolveFriendly(selected, n)]
    /\ deletion'.candidates = UNION {Payload(p) : p \in selected}
    /\ deletion'.refs = [b \in Blobs |-> References(b)]
    /\ deletion'.retained = RetainedCandidates(selected)
    /\ deletion'.removed = {} /\ deletion'.remaining = {} /\ ~deletion'.errors

LEMMA BeginDeleteIs ==
    ASSUME Ground, NEW selected \in Selections, BeginDelete(selected)
    PROVE  /\ ~Deleting /\ ~Publishing /\ deletion' \in Deletions /\ selected \subseteq Snapshots
           /\ Begins(selected) \/ ~Deleting'
           /\ UNCHANGED <<disk, ref, manifest, supports, linkFailed, temp, job, task, skip, entry,
                          rebuild, faults, rebuilds, gone>>
  <1>1. /\ ~Deleting /\ ~Publishing
        /\ UNCHANGED <<storeVars, publishVars, gone, touches>>
    BY DEF BeginDelete
  <1>2. UNCHANGED <<disk, ref, manifest, supports, linkFailed, temp, job, task, skip, entry,
                    rebuild, faults, rebuilds, gone>>
    BY <1>1 DEF storeVars, publishVars
  <1>3. selected \subseteq Snapshots
    BY DeleteAssumption
  <1>4. CASE Refused(selected)
    <2>1. deletion' = [NoDeletion EXCEPT !.stage = "answered"]
      BY <1>4 DEF BeginDelete
    <2>2. deletion' \in Deletions /\ deletion'.stage = "answered"
      BY <2>1, NoDeletionIs
    <2>3. ~Deleting'
      BY <2>2 DEF Deleting
    <2>4. QED
      BY <1>1, <1>2, <1>3, <2>2, <2>3
  <1>5. CASE ~Refused(selected)
    <2> DEFINE leads == [n \in Projections(selected) |-> ResolveFriendly(selected, n)]
               candidates == UNION {Payload(p) : p \in selected}
               refs == [b \in Blobs |-> References(b)]
               retained == RetainedCandidates(selected)
    <2>1. deletion' = [stage |-> "tombstones", selected |-> selected, seen |-> disk,
               leads |-> leads, candidates |-> candidates, refs |-> refs, retained |-> retained,
               removed |-> {}, remaining |-> {}, errors |-> FALSE]
      BY <1>5 DEF BeginDelete
    <2>2. leads \in Leads
      <3>1. /\ Projections(selected) \in SUBSET Friendly
            /\ \A n \in Projections(selected) : ResolveFriendly(selected, n) \in selected
        BY DEF Projections, FriendlyEntries
      <3>2. leads \in [Projections(selected) -> Snapshots]
        BY <3>1, <1>3
      <3>3. QED
        BY <3>1, <3>2 DEF Leads
    <2>3. candidates \in SUBSET Blobs
      <3>1. \A p \in selected : Payload(p) \subseteq Blobs
        BY <1>3, PayloadIs
      <3>2. QED
        BY <3>1
    <2>4. refs \in [Blobs -> SUBSET Snapshots]
      BY DEF References
    <2>5. retained \in SUBSET Blobs
      BY <2>3 DEF RetainedCandidates
    <2>6. disk \in [Places -> Entries]
      BY DEF Ground, Typed, StoreTyped
    <2> HIDE DEF leads, candidates, refs, retained
    <2>7. deletion' \in Deletions
      BY <1>3, <2>1, <2>2, <2>3, <2>4, <2>5, <2>6 DEF Deletions, DeleteStages
    <2>8. /\ deletion'.stage = "tombstones" /\ deletion'.selected = selected /\ deletion'.seen = disk
          /\ deletion'.leads = leads /\ deletion'.candidates = candidates
          /\ deletion'.refs = refs /\ deletion'.retained = retained
          /\ deletion'.removed = {} /\ deletion'.remaining = {} /\ ~deletion'.errors
      BY <2>1
    <2>9. Begins(selected)
      BY <1>5, <2>8 DEF Begins, leads, candidates, refs, retained
    <2>10. QED
      BY <1>1, <1>2, <1>3, <2>7, <2>9
  <1>6. QED
    BY <1>4, <1>5

LEMMA BeginDeleteGround ==
    ASSUME Ground, NEW selected \in Selections, BeginDelete(selected) PROVE Ground'
  <1>1. Typed'
    BY BeginDeleteIs DEF Ground, Typed, StoreTyped, JobsTyped, DeletionTyped
  <1>2. Shape'
    BY BeginDeleteIs, ShapeStays DEF Ground
  <1>3. Busy'
    <2>1. ~Publishing' /\ Running' = Running
      BY BeginDeleteIs DEF Publishing, Active, Running
    <2>2. rebuild' = rebuild /\ job' = job /\ rebuilds' = rebuilds
      BY BeginDeleteIs
    <2>3. QED
      BY <2>1, <2>2 DEF Ground, Busy
  <1>4. QED
    BY <1>1, <1>2, <1>3 DEF Ground

\* The tombstones are written, or are not.
LEMMA TombstonesIs ==
    ASSUME Typed, RecordTombstones
    PROVE  /\ Deleting /\ deletion' \in Deletions /\ Inspected' = Inspected
           /\ deletion.stage = "tombstones" /\ deletion'.stage = "friendly"
           /\ deletion'.removed = deletion.removed /\ deletion'.remaining = deletion.remaining
           /\ faults' \in Nat
           /\ UNCHANGED <<disk, ref, supports, linkFailed, temp, job, task, skip, entry, rebuild,
                          rebuilds, gone>>
           /\ \/ deletion'.errors = deletion.errors
                 /\ manifest' = IF manifest = NoManifest THEN manifest
                                ELSE RecordDeletion(manifest, deletion.selected)
              \/ deletion'.errors /\ manifest' = manifest
  <1>1. deletion \in Deletions /\ faults \in Nat /\ deletion.errors \in BOOLEAN
    BY DEF Typed, DeletionTyped, JobsTyped, Deletions
  <1>2. /\ deletion.stage = "tombstones"
        /\ UNCHANGED <<disk, ref, supports, linkFailed, temp, job, task, skip, entry, rebuild,
                       rebuilds, gone>>
    BY DEF RecordTombstones
  <1>3. \/ /\ manifest' = IF manifest = NoManifest THEN manifest
                          ELSE RecordDeletion(manifest, deletion.selected)
           /\ deletion' = [deletion EXCEPT !.stage = "friendly"] /\ faults' = faults
        \/ /\ manifest' = manifest /\ faults' = faults + 1
           /\ deletion' = [deletion EXCEPT !.stage = "friendly", !.errors = TRUE]
    BY DEF RecordTombstones, Fault, NoFault
  <1>4. /\ deletion' \in Deletions /\ Inspected' = Inspected /\ deletion'.stage = "friendly"
        /\ deletion'.removed = deletion.removed /\ deletion'.remaining = deletion.remaining
    BY <1>1, <1>3, PhaseIs DEF DeleteStages
  <1>5. \/ deletion'.errors = deletion.errors
           /\ manifest' = IF manifest = NoManifest THEN manifest
                          ELSE RecordDeletion(manifest, deletion.selected)
        \/ deletion'.errors /\ manifest' = manifest
    BY <1>1, <1>3 DEF Deletions
  <1>6. QED
    BY <1>1, <1>2, <1>3, <1>4, <1>5 DEF Deleting

LEMMA TombstonesGround == ASSUME Ground, RecordTombstones PROVE Ground'
  <1>1. manifest' \in Manifests
    <2>1. manifest \in Manifests /\ deletion.selected \subseteq Snapshots
      BY DEF Ground, Typed, StoreTyped, DeletionTyped, Deletions
    <2>2. \A p \in deletion.selected : <<p[3], p[2]>> \in Files \X Versions
      BY <2>1, PlacesAre
    <2>3. RecordDeletion(manifest, deletion.selected) \in Manifests
      BY <2>1, <2>2 DEF RecordDeletion, Manifests
    <2>4. QED
      BY <2>1, <2>3, TombstonesIs DEF Ground
  <1>2. Typed'
    BY <1>1, TombstonesIs DEF Ground, Typed, StoreTyped, JobsTyped, DeletionTyped
  <1>3. Shape'
    BY TombstonesIs, ShapeStays DEF Ground
  <1>4. Busy'
    <2>1. UNCHANGED <<job, task, rebuild, rebuilds>> /\ (Deleting' => Deleting)
      BY TombstonesIs DEF Ground
    <2>2. QED
      BY <2>1, StaysBusy DEF Ground
  <1>5. QED
    BY <1>2, <1>3, <1>4 DEF Ground

\* The next pass, or the answer, of a deletion.
LEMMA NextPassIs ==
    ASSUME Typed, NextPass
    PROVE  /\ Deleting /\ deletion' \in Deletions
           /\ UNCHANGED <<disk, ref, manifest, supports, linkFailed, temp, job, task, skip, entry,
                          rebuild, faults, rebuilds>>
           /\ \/ /\ Inspected' = Inspected /\ gone' = gone
                 /\ deletion'.removed = deletion.removed /\ deletion'.remaining = deletion.remaining
                 /\ deletion'.errors = deletion.errors
                 /\ \/ /\ deletion.stage = "friendly" /\ deletion'.stage = "snapshots"
                       /\ DOMAIN deletion.leads \subseteq Settled
                    \/ /\ deletion.stage = "snapshots" /\ deletion'.stage = "blobs"
                       /\ deletion.selected \subseteq Settled
              \/ /\ ~Deleting' /\ deletion.stage = "blobs" /\ deletion'.stage = "answered"
                 /\ Unneeded \subseteq Settled
                 /\ gone' = IF deletion.errors THEN gone ELSE gone \cup deletion.selected
  <1>1. deletion \in Deletions /\ deletion.errors \in BOOLEAN
    BY DEF Typed, DeletionTyped, Deletions
  <1>2. UNCHANGED <<disk, ref, manifest, supports, linkFailed, temp, job, task, skip, entry,
                    rebuild, faults, rebuilds>>
    BY DEF NextPass, storeVars, publishVars
  <1>3. CASE NextPhase("friendly", "snapshots") /\ UNCHANGED gone /\ DOMAIN deletion.leads \subseteq Settled
    BY <1>1, <1>2, <1>3, PhaseIs DEF NextPhase, DeleteStages, Deleting
  <1>4. CASE NextPhase("snapshots", "blobs") /\ UNCHANGED gone /\ deletion.selected \subseteq Settled
    BY <1>1, <1>2, <1>4, PhaseIs DEF NextPhase, DeleteStages, Deleting
  <1>5. CASE /\ deletion.stage = "blobs" /\ Unneeded \subseteq Settled
             /\ deletion' = [NoDeletion EXCEPT !.stage = "answered"]
             /\ gone' = IF deletion.errors THEN gone ELSE gone \cup deletion.selected
    BY <1>1, <1>2, <1>5, NoDeletionIs DEF Deleting
  <1>6. QED
    BY <1>3, <1>4, <1>5 DEF NextPass

LEMMA NextPassGround == ASSUME Ground, NextPass PROVE Ground'
  <1>1. gone' \subseteq Snapshots
    BY NextPassIs DEF Ground, Typed, DeletionTyped, Deletions
  <1>2. Typed'
    BY <1>1, NextPassIs DEF Ground, Typed, StoreTyped, JobsTyped, DeletionTyped
  <1>3. Shape'
    BY NextPassIs, ShapeStays DEF Ground
  <1>4. Busy'
    <2>1. UNCHANGED <<job, task, rebuild, rebuilds>> /\ (Deleting' => Deleting)
      BY NextPassIs DEF Ground
    <2>2. QED
      BY <2>1, StaysBusy DEF Ground
  <1>5. QED
    BY <1>2, <1>3, <1>4 DEF Ground

\* The user replaces or removes an entry.
LEMMA UserTouchesIs ==
    ASSUME Ground, NEW p \in Snapshots \cup Friendly, UserTouches(p)
    PROVE  /\ Deleting /\ Exists(p) /\ p \in Places
           /\ \E e \in Entries : Put(p, e) /\ (e = Absent \/ (e.kind = "file" /\ e.content = Foreign))
           /\ UNCHANGED <<ref, manifest, supports, linkFailed, temp, job, task, skip, entry,
                          rebuild, faults, rebuilds, deletion, gone>>
  <1>1. /\ Deleting /\ Exists(p) /\ p \in Places
        /\ UNCHANGED <<ref, manifest, supports, linkFailed, publishVars, deletion, gone, deletes>>
    BY PlacesApart DEF UserTouches
  <1>2. Put(p, Absent) \/ Put(p, File(Foreign, 1))
    BY DEF UserTouches, Put
  <1>3. /\ Absent \in Entries /\ File(Foreign, 1) \in Entries
        /\ File(Foreign, 1).kind = "file" /\ File(Foreign, 1).content = Foreign
    BY EntriesAre, StoreAssumption
  <1>4. QED
    BY <1>1, <1>2, <1>3 DEF publishVars

LEMMA UserTouchesGround ==
    ASSUME Ground, NEW p \in Snapshots \cup Friendly, UserTouches(p) PROVE Ground'
  <1>1. PICK e \in Entries : Put(p, e) /\ (e = Absent \/ (e.kind = "file" /\ e.content = Foreign))
    BY UserTouchesIs
  <1>2. disk' \in [Places -> Entries] /\ Shape'
    BY <1>1, UserTouchesIs, PutIs, ShapeOfOthers DEF Ground, Typed, StoreTyped
  <1>3. Typed'
    BY <1>2, UserTouchesIs DEF Ground, Typed, StoreTyped, JobsTyped, DeletionTyped
  <1>4. Busy'
    <2>1. UNCHANGED <<job, task, rebuild, rebuilds>> /\ (Deleting' => Deleting)
      BY UserTouchesIs
    <2>2. QED
      BY <2>1, StaysBusy DEF Ground
  <1>5. QED
    BY <1>2, <1>3, <1>4 DEF Ground

LEMMA CrashIs ==
    ASSUME Crash
    PROVE  /\ UNCHANGED <<disk, ref, manifest, supports, temp, faults, rebuilds, gone>>
           /\ deletion' = NoDeletion /\ rebuild' = Idle /\ ~Deleting' /\ Running' = {}
           /\ job' = [j \in Jobs |-> IF Active(j) THEN "failed" ELSE job[j]]
           /\ task' = [t \in Tasks |-> "none"] /\ skip' = {}
           /\ \A j \in Jobs : ~Active(j)'
  <1>1. /\ UNCHANGED <<disk, ref, manifest, supports, temp, faults, rebuilds, gone>>
        /\ deletion' = NoDeletion /\ rebuild' = Idle
        /\ job' = [j \in Jobs |-> IF Active(j) THEN "failed" ELSE job[j]]
        /\ task' = [t \in Tasks |-> "none"] /\ skip' = {}
    BY DEF Crash, PublishCrash
  <1>2. \A j \in Jobs : ~Active(j)'
    BY <1>1 DEF Active
  <1>3. ~Deleting'
    BY <1>1, NoDeletionIs DEF Deleting
  <1>4. Running' = {}
    BY <1>1 DEF Running
  <1>5. QED
    BY <1>1, <1>2, <1>3, <1>4

LEMMA CrashGround == ASSUME Ground, Crash PROVE Ground'
  <1>1. Shape'
    BY CrashIs, ShapeStays DEF Ground
  <1>2. StoreTyped'
    <2>1. linkFailed' = [r \in Roots |-> [sym |-> FALSE, hard |-> FALSE]]
      BY DEF Crash, PublishCrash
    <2>2. linkFailed' \in [Roots -> LinkKinds]
      BY <2>1 DEF LinkKinds
    <2>3. QED
      BY <2>2, CrashIs DEF Ground, Typed, StoreTyped
  <1>3. JobsTyped'
    <2>1. entry' \in [Tasks \cup {RebuildProc} -> EntryStep]
      BY DEF Crash, PublishCrash, EntryStep
    <2>2. job' \in [Jobs -> {"idle", "files", "ref", "manifest", "completed", "failed"}]
      BY CrashIs DEF Ground, Typed, JobsTyped
    <2>3. task' \in [Tasks -> TaskSteps]
      BY CrashIs DEF TaskSteps
    <2>4. QED
      BY <2>1, <2>2, <2>3, CrashIs, IdleIs DEF Ground, Typed, JobsTyped, TaskSteps
  <1>4. DeletionTyped'
    BY CrashIs, NoDeletionIs DEF Ground, Typed, DeletionTyped
  <1>5. Busy'
    BY CrashIs, IdleIs DEF Busy
  <1>6. QED
    BY <1>1, <1>2, <1>3, <1>4, <1>5 DEF Ground, Typed

LEMMA InitIs ==
    ASSUME Init
    PROVE  /\ disk \in [Places -> Entries]
           /\ \A p \in Blobs \cup Snapshots : disk[p] = Absent
           /\ \A p \in Friendly : disk[p] = Absent \/ disk[p].kind = "link"
  <1>1. PICK alias \in [Aliases -> UNION {AliasTargets(n) : n \in Aliases}] :
           /\ \A n \in Aliases : alias[n] \in AliasTargets(n)
           /\ disk = [p \in Places |-> IF p \in Friendly /\ p[2] \in Aliases THEN alias[p[2]] ELSE Absent]
    BY DEF Init
  <1>2. ASSUME NEW n \in Aliases
        PROVE  alias[n] \in Entries /\ (alias[n] = Absent \/ alias[n].kind = "link")
    <2>1. alias[n] \in AliasTargets(n)
      BY <1>1
    <2>2. CASE alias[n] = Absent
      BY <2>2, EntriesAre
    <2>3. ASSUME NEW p \in {FriendlyPath(f) : f \in Files \cup {n}} \cup Snapshots \cup Blobs,
                 alias[n] = Link(p)
          PROVE  alias[n] \in Entries /\ alias[n].kind = "link"
      <3>1. p \in Places
        BY PlacesAre, PlacesApart
      <3>2. QED
        BY <2>3, <3>1, EntriesAre
    <2>4. QED
      BY <2>1, <2>2, <2>3 DEF AliasTargets
  <1>3. ASSUME NEW p \in Places
        PROVE  /\ disk[p] \in Entries /\ (p \notin Friendly => disk[p] = Absent)
               /\ disk[p] = Absent \/ disk[p].kind = "link"
    <2>1. CASE p \in Friendly /\ p[2] \in Aliases
      BY <1>1, <1>2, <2>1
    <2>2. CASE ~(p \in Friendly /\ p[2] \in Aliases)
      BY <1>1, <2>2, EntriesAre
    <2>3. QED
      BY <2>1, <2>2
  <1>4. disk \in [Places -> Entries]
    BY <1>1, <1>3
  <1>5. QED
    BY <1>3, <1>4, PlacesApart

LEMMA InitGround == Init => Ground
  <1> SUFFICES ASSUME Init PROVE Ground
    OBVIOUS
  <1>1. /\ supports \in [Roots -> LinkKinds] /\ ref = None /\ manifest = NoManifest
        /\ linkFailed = [r \in Roots |-> [sym |-> FALSE, hard |-> FALSE]]
    BY CacheAssumption DEF Init, StoreInit
  <1>2. StoreTyped
    <2>1. linkFailed \in [Roots -> LinkKinds]
      BY <1>1 DEF LinkKinds
    <2>2. manifest \in Manifests
      BY <1>1 DEF NoManifest, Manifests
    <2>3. QED
      BY <1>1, <2>1, <2>2, InitIs DEF StoreTyped
  <1>3. /\ temp = {} /\ job = [j \in Jobs |-> "idle"]
        /\ task = [t \in Tasks |-> "none"] /\ skip = {}
        /\ entry = [p \in Tasks \cup {RebuildProc} |-> "compare"]
        /\ rebuild = Idle /\ faults = 0 /\ rebuilds = 0
    BY DEF Init, PublishInit
  <1>4. JobsTyped
    BY <1>3, IdleIs DEF JobsTyped, EntryStep
  <1>5. deletion = NoDeletion /\ gone = {}
    BY DEF Init, DeleteInit
  <1>6. DeletionTyped
    BY <1>5, NoDeletionIs DEF DeletionTyped
  <1>7. Shape
    BY InitIs, EntriesAre DEF Shape
  <1>8. Busy
    <2>1. Running = {}
      BY <1>3 DEF Running
    <2>2. ~Deleting
      BY <1>5, NoDeletionIs DEF Deleting
    <2>3. QED
      BY <1>3, <2>1, <2>2, IdleIs DEF Busy
  <1>9. QED
    BY <1>2, <1>4, <1>6, <1>7, <1>8 DEF Ground, Typed

---------------------------------------------------------------------------
(* The steps, as the proofs below see them *)

Frame == UNCHANGED <<deleteVars, crashes>>
JobStep(j) == (FilesEnd(j) \/ WriteRef(j) \/ WriteManifest(j)) /\ Frame
TaskStep(t) ==
    /\ \/ BeginFile(t) \/ SkipCheck(t) \/ Transferred(t) \/ VerifyFile(t) \/ StoreBlob(t)
       \/ CopyBlob(t) \/ FileFails(t)
    /\ Frame

LEMMA StepsAre ==
    ASSUME Next
    PROVE  \/ \E j \in Jobs : JobBegins(j) \/ JobStep(j)
           \/ RebuildBegins
           \/ \E t \in Tasks : TaskStep(t)
           \/ \E t \in Tasks, p \in Snapshots \cup Friendly, ok \in BOOLEAN : TaskWrites(t, p, ok) /\ Frame
           \/ \E p \in Places : (RebuildLooks(p) \/ RebuildCleans(p)) /\ Frame
           \/ \E p \in Places, ok \in BOOLEAN : RebuildWrites(p, ok) /\ Frame
           \/ NextStage /\ Frame
           \/ \E selected \in Selections : BeginDelete(selected)
           \/ RecordTombstones \/ NextPass
           \/ \E p \in Places : Removes(p)
           \/ \E p \in Snapshots \cup Friendly : UserTouches(p)
           \/ Crash
  <1>1. CASE PublisherSteps
    <2>1. Frame
      BY <1>1 DEF PublisherSteps, Frame
    <2>2. ASSUME NEW t \in Tasks, SnapshotEntry(t) \/ FriendlyEntry(t)
          PROVE  \E p \in Snapshots \cup Friendly, ok \in BOOLEAN : TaskWrites(t, p, ok) /\ Frame
      BY <2>1, <2>2, TaskWritesIs
    <2>3. ASSUME NEW p \in Places, NextRepair(p) \/ NextWalk(p) \/ NextClean(p)
          PROVE  (RebuildLooks(p) \/ RebuildCleans(p)) /\ Frame
      BY <2>1, <2>3, NextCleanIs DEF RebuildLooks
    <2>4. ASSUME NEW p \in Places, RebuildEntry(p)
          PROVE  \E ok \in BOOLEAN : RebuildWrites(p, ok) /\ Frame
      BY <2>1, <2>4, RebuildWritesIs
    <2>5. CASE \E j \in Jobs : FilesEnd(j) \/ WriteRef(j) \/ WriteManifest(j)
      BY <2>1, <2>5 DEF JobStep
    <2>6. CASE \E t \in Tasks :
                 \/ BeginFile(t) \/ SkipCheck(t) \/ Transferred(t) \/ VerifyFile(t) \/ StoreBlob(t)
                 \/ CopyBlob(t) \/ FileFails(t)
      BY <2>1, <2>6 DEF TaskStep
    <2>7. QED
      BY <1>1, <2>1, <2>2, <2>3, <2>4, <2>5, <2>6 DEF PublisherSteps, PublishStep
  <1>2. CASE DeletionSteps
    BY <1>2 DEF DeletionSteps, DeleteStep, Removes
  <1>3. CASE UserSteps
    BY <1>3 DEF UserSteps
  <1>4. QED
    BY <1>1, <1>2, <1>3 DEF Next

LEMMA NextGround == ASSUME Ground, Next PROVE Ground'
  <1>1. ASSUME NEW j \in Jobs, JobBegins(j) \/ JobStep(j) PROVE Ground'
    BY <1>1, JobBeginsGround, JobStepsGround DEF JobStep, Frame
  <1>2. ASSUME NEW t \in Tasks, TaskStep(t) PROVE Ground'
    BY <1>2, TaskStepsGround DEF TaskStep, Frame
  <1>3. ASSUME NEW t \in Tasks, NEW p \in Snapshots \cup Friendly, NEW ok \in BOOLEAN,
               TaskWrites(t, p, ok) /\ Frame
        PROVE  Ground'
    BY <1>3, TaskWritesGround DEF Frame
  <1>4. ASSUME NEW p \in Places, (RebuildLooks(p) \/ RebuildCleans(p)) /\ Frame PROVE Ground'
    BY <1>4, RebuildLooksGround, RebuildCleansGround DEF Frame
  <1>5. ASSUME NEW p \in Places, NEW ok \in BOOLEAN, RebuildWrites(p, ok) /\ Frame PROVE Ground'
    BY <1>5, RebuildWritesGround DEF Frame
  <1>6. CASE NextStage /\ Frame
    BY <1>6, NextStageGround DEF Frame
  <1>7. QED
    BY <1>1, <1>2, <1>3, <1>4, <1>5, <1>6, StepsAre, RebuildBeginsGround, BeginDeleteGround,
       TombstonesGround, NextPassGround, RemovesGround, UserTouchesGround, CrashGround

---------------------------------------------------------------------------
(* Links of saved versions lead to payloads that are there *)

LinksLead == \A p \in Snapshots : disk[p].kind = "link" => disk[Origin(p)].kind = "file"

\* Who is about to place an entry has its payload.
PayloadsThere ==
    /\ \A t \in Tasks : task[t] = "snap" => disk[BlobPath(Content(t))].kind = "file"
    /\ rebuild.stage = "repair" => \A p \in rebuild.at : disk[Origin(p)].kind = "file"

\* A deletion knows every link to a payload, and what it has removed is gone.
DeletionKnows ==
    Deleting =>
      /\ \A p \in Snapshots : disk[p].kind = "link" => p \in deletion.refs[Origin(p)]
      /\ \A p \in deletion.removed : disk[p] = Absent
      /\ ~deletion.errors => deletion.remaining = {}
      /\ deletion.stage = "blobs" => deletion.selected \subseteq Settled

Whole == LinksLead /\ PayloadsThere /\ DeletionKnows

\* Payloads stay; an entry that changes becomes none, a file, or a link that leads.
LEMMA LinksStay ==
    ASSUME Ground, LinksLead,
           \A b \in Blobs : disk[b].kind = "file" => disk'[b].kind = "file",
           \A p \in Snapshots : disk'[p] # disk[p] /\ disk'[p].kind = "link" => disk[Origin(p)].kind = "file"
    PROVE  LinksLead'
  <1> SUFFICES ASSUME NEW p \in Snapshots, disk'[p].kind = "link" PROVE disk'[Origin(p)].kind = "file"
    BY DEF LinksLead, Origin
  <1>1. disk[Origin(p)].kind = "file"
    BY DEF LinksLead
  <1>2. QED
    BY <1>1, OriginIs

LEMMA PayloadsStay ==
    ASSUME PayloadsThere,
           \A b \in Blobs : disk[b].kind = "file" => disk'[b].kind = "file",
           \A t \in Tasks : task'[t] = "snap" => task[t] = "snap",
           rebuild'.stage = "repair" => rebuild.stage = "repair" /\ rebuild'.at \subseteq rebuild.at
                                        /\ rebuild.at \subseteq Snapshots
    PROVE  PayloadsThere'
  <1>1. ASSUME NEW t \in Tasks, task'[t] = "snap" PROVE disk'[BlobPath(Content(t))].kind = "file"
    BY <1>1, TaskPlaces DEF PayloadsThere
  <1>2. ASSUME rebuild'.stage = "repair", NEW p \in rebuild'.at PROVE disk'[Origin(p)].kind = "file"
    BY <1>2, OriginIs DEF PayloadsThere
  <1>3. QED
    BY <1>1, <1>2 DEF PayloadsThere, Origin

\* No entry is written and no payload removed by these.
LEMMA RepairPlaces ==
    ASSUME Ground
    PROVE  /\ rebuild.stage = "repair" => rebuild.at \subseteq Snapshots
           /\ Running # {} \/ (\E j \in Jobs : Active(j)) \/ rebuild.stage # "idle" => ~Deleting
  <1>1. rebuild.stage = "repair" => rebuild.at \subseteq Snapshots
    BY DEF Ground, Busy
  <1>2. ASSUME NEW t \in Running PROVE ~Deleting
    BY TasksAre DEF Ground, Busy, Publishing, Active, Running
  <1>3. QED
    BY <1>1, <1>2 DEF Ground, Busy, Publishing

LEMMA TaskStepWhole == ASSUME Ground, Whole, NEW t \in Tasks, TaskStep(t) PROVE Whole'
  <1> DEFINE b == BlobPath(Content(t))
  <1>1. /\ \A q \in Blobs : Stat(q) = disk[q]
        /\ b \in Blobs /\ b \in Places
        /\ NewFile(Content(t)) \in Entries /\ NewFile(Content(t)).kind = "file"
    BY TaskPlaces, PlacesApart, NewFileIs, ShapeStat DEF Ground
  <1>2. UNCHANGED rebuild /\ UNCHANGED deletion
    BY DEF TaskStep, BeginFile, SkipCheck, Transferred, VerifyFile, StoreBlob, CopyBlob, FileFails,
           Frame, deleteVars
  <1>3. job[t[1]] = "files"
    <2>1. BeginFile(t) \/ task[t] \notin {"none"} \cup Ended
      BY DEF TaskStep, BeginFile, SkipCheck, Transferred, VerifyFile, StoreBlob, CopyBlob, FileFails, Ended
    <2>2. QED
      BY <2>1 DEF BeginFile, Running, Ground, Busy
  <1>4. ~Deleting'
    BY <1>2, <1>3, TasksAre, RepairPlaces DEF Active, Deleting
  <1>5. /\ \E s \in TaskSteps : Goto(t, s) /\ (s = "snap" => disk'[b].kind = "file")
        /\ disk' = disk \/ Put(b, NewFile(Content(t)))
    <2>1. CASE SkipCheck(t)
      BY <1>1, <2>1 DEF SkipCheck, BlobComplete, storeVars, TaskSteps
    <2>2. CASE StoreBlob(t)
      <3>1. CASE BlobComplete(Content(t)) /\ Goto(t, "snap") /\ UNCHANGED disk
        BY <1>1, <3>1 DEF BlobComplete, TaskSteps
      <3>2. CASE Put(b, NewFile(Content(t))) /\ Goto(t, "snap")
        BY <1>1, <3>2, PutIs DEF TaskSteps, Ground, Typed, StoreTyped
      <3>3. CASE UNCHANGED disk /\ (Goto(t, "copy") \/ Goto(t, "failed"))
        BY <3>3 DEF TaskSteps
      <3>4. QED
        BY <2>2, <3>1, <3>2, <3>3 DEF StoreBlob, Put
    <2>3. CASE CopyBlob(t)
      <3>1. CASE Put(b, NewFile(Content(t))) /\ Goto(t, "snap")
        BY <1>1, <3>1, PutIs DEF TaskSteps, Ground, Typed, StoreTyped
      <3>2. CASE UNCHANGED disk /\ Goto(t, "failed")
        BY <3>2 DEF TaskSteps
      <3>3. QED
        BY <2>3, <3>1, <3>2 DEF CopyBlob, Put
    <2>4. CASE BeginFile(t) \/ Transferred(t) \/ VerifyFile(t) \/ FileFails(t)
      BY <2>4 DEF BeginFile, Transferred, VerifyFile, FileFails, storeVars, TaskSteps
    <2>5. QED
      BY <2>1, <2>2, <2>3, <2>4 DEF TaskStep
  <1> HIDE DEF b
  <1>6. /\ \A q \in Blobs : disk[q].kind = "file" => disk'[q].kind = "file"
        /\ \A p \in Snapshots : disk'[p] = disk[p]
    <2>1. CASE Put(b, NewFile(Content(t)))
      BY <1>1, <2>1, PutIs, PlacesApart DEF Ground, Typed, StoreTyped
    <2>2. QED
      BY <1>5, <2>1
  <1>7. LinksLead'
    BY <1>6, LinksStay DEF Whole
  <1>8. PayloadsThere'
    <2>1. ASSUME NEW u \in Tasks, task'[u] = "snap" PROVE disk'[BlobPath(Content(u))].kind = "file"
      <3>1. CASE u = t
        BY <1>5, <2>1, <3>1, GotoIs DEF Ground, Typed, b
      <3>2. CASE u # t
        BY <1>5, <1>6, <2>1, <3>2, GotoIs, TaskPlaces DEF Ground, Typed, Whole, PayloadsThere
      <3>3. QED
        BY <3>1, <3>2
    <2>2. ASSUME rebuild'.stage = "repair", NEW p \in rebuild'.at PROVE disk'[Origin(p)].kind = "file"
      BY <1>2, <1>6, <2>2, RepairPlaces, OriginIs DEF Whole, PayloadsThere
    <2>3. QED
      BY <2>1, <2>2 DEF PayloadsThere, Origin
  <1>9. QED
    BY <1>4, <1>7, <1>8 DEF Whole, DeletionKnows

\* What a write does to the places of the store.
LEMMA TaskWriteDoes ==
    ASSUME Ground, NEW t \in Tasks, NEW p \in Snapshots \cup Friendly, NEW ok \in BOOLEAN,
           TaskWrites(t, p, ok)
    PROVE  /\ p \in Places /\ t \in Running
           /\ \A q \in Places \ {p} : disk'[q] = disk[q]
           /\ \/ disk' = disk
              \/ Put(p, Absent)
              \/ ok /\ \E e \in Made(Source(p, Commit(t))) : Put(p, e)
           /\ p \in Snapshots => p = SnapshotOf(t) /\ task[t] = "snap"
           /\ p \in Friendly => p = FriendlyOf(t) /\ task[t] = "view"
  <1>1. Source(p, Commit(t)) \in Places /\ p \in Places
    BY TaskSource, PlacesApart DEF TaskWrites
  <1>2. \/ disk' = disk
        \/ Put(p, Absent)
        \/ ok /\ \E e \in Made(Source(p, Commit(t))) : Put(p, e)
    <2>1. CASE EntryGoesOn(t, p, Commit(t))
      BY <1>1, <2>1, EntryGoesOnIs DEF Ground, Typed
    <2>2. CASE EntryEnds(t, p, Commit(t), ok)
      BY <1>1, <2>2, EntryEndsIs DEF Ground, Typed
    <2>3. QED
      BY <2>1, <2>2 DEF TaskWrites
  <1>3. \A e : e \in Made(Source(p, Commit(t))) => e \in Entries
    BY DEF Made
  <1>4. \A q \in Places \ {p} : disk'[q] = disk[q]
    BY <1>1, <1>2, <1>3, PutIs, EntriesAre DEF Ground, Typed, StoreTyped
  <1>5. t \in Running
    BY DEF TaskWrites, Running, Ended
  <1>6. /\ p \in Snapshots => p = SnapshotOf(t) /\ task[t] = "snap"
        /\ p \in Friendly => p = FriendlyOf(t) /\ task[t] = "view"
    BY TaskPlaces, PlacesApart DEF TaskWrites
  <1>7. QED
    BY <1>1, <1>2, <1>4, <1>5, <1>6

LEMMA TaskWritesWhole ==
    ASSUME Ground, Whole, NEW t \in Tasks, NEW p \in Snapshots \cup Friendly, NEW ok \in BOOLEAN,
           TaskWrites(t, p, ok), Frame
    PROVE  Whole'
  <1>1. UNCHANGED rebuild /\ UNCHANGED deletion
    BY DEF TaskWrites, Frame, deleteVars
  <1>2. ~Deleting'
    BY <1>1, TaskWriteDoes, RepairPlaces DEF Deleting
  <1>3. \A b \in Blobs : disk'[b] = disk[b]
    BY TaskWriteDoes, PlacesApart
  <1>4. ASSUME NEW q \in Snapshots, disk'[q] # disk[q] PROVE disk[Origin(q)].kind = "file"
    <2>1. q = p /\ p = SnapshotOf(t) /\ task[t] = "snap"
      BY <1>4, TaskWriteDoes, PlacesApart
    <2>2. QED
      BY <2>1, TaskPlaces DEF Whole, PayloadsThere
  <1>5. LinksLead'
    BY <1>3, <1>4, LinksStay DEF Whole
  <1>6. \A u \in Tasks : task'[u] = "snap" => task[u] = "snap"
    <2>1. CASE UNCHANGED task
      BY <2>1
    <2>2. CASE \E s \in {"view", "done", "failed", "unlinked"} : Goto(t, s)
      BY <2>2, GotoIs DEF Ground, Typed, TaskSteps
    <2>3. QED
      BY <2>1, <2>2 DEF TaskWrites
  <1>7. PayloadsThere'
    BY <1>1, <1>3, <1>6, RepairPlaces, PayloadsStay DEF Whole
  <1>8. QED
    BY <1>2, <1>5, <1>7 DEF Whole, DeletionKnows

LEMMA RebuildWriteDoes ==
    ASSUME Ground, NEW p \in Places, NEW ok \in BOOLEAN, RebuildWrites(p, ok)
    PROVE  /\ p \in Snapshots /\ p[2] = rebuild.commit
           /\ RebuiltPlace(p) \in Places
           /\ \A q \in Places \ {RebuiltPlace(p)} : disk'[q] = disk[q]
           /\ \/ disk' = disk
              \/ Put(RebuiltPlace(p), Absent)
              \/ ok /\ \E e \in Made(Source(RebuiltPlace(p), rebuild.commit)) : Put(RebuiltPlace(p), e)
           /\ \/ rebuild.stage = "repair" /\ RebuiltPlace(p) = p
                 /\ Source(RebuiltPlace(p), rebuild.commit) = Origin(p)
              \/ rebuild.stage = "walk" /\ RebuiltPlace(p) = FriendlyPath(p[3])
                 /\ RebuiltPlace(p) \in Friendly
                 /\ Source(RebuiltPlace(p), rebuild.commit) = p
           /\ rebuild'.stage = rebuild.stage /\ rebuild'.commit = rebuild.commit
           /\ rebuild'.alone = rebuild.alone
           /\ \/ rebuild' = rebuild /\ EntryGoesOn(RebuildProc, RebuiltPlace(p), rebuild.commit)
              \/ /\ rebuild'.at = {} /\ rebuild'.todo = rebuild.todo \ {p}
                 /\ (~rebuild'.errors => ok /\ ~rebuild.errors)
                 /\ EntryEnds(RebuildProc, RebuiltPlace(p), rebuild.commit, ok)
  <1>1. /\ rebuild.at = {p} /\ rebuild.stage \in {"repair", "walk"} /\ rebuild \in Rebuilds
        /\ EntryMoves(RebuildProc, RebuiltPlace(p), rebuild.commit, ok)
    BY DEF RebuildWrites, EntryMoves, Ground, Typed, JobsTyped
  <1>2. /\ p \in Snapshots /\ p[2] = rebuild.commit
        /\ Source(RebuiltPlace(p), rebuild.commit) \in Places
        /\ RebuiltPlace(p) \in Snapshots \cup Friendly
        /\ \/ rebuild.stage = "repair" /\ RebuiltPlace(p) = p
              /\ Source(RebuiltPlace(p), rebuild.commit) = Origin(p)
           \/ rebuild.stage = "walk" /\ RebuiltPlace(p) = FriendlyPath(p[3])
              /\ RebuiltPlace(p) \in Friendly
              /\ Source(RebuiltPlace(p), rebuild.commit) = p
    BY <1>1, RebuildSource
  <1> DEFINE place == RebuiltPlace(p)
             v == rebuild.commit
  <1>3. place \in Places /\ RebuildProc \in Tasks \cup {RebuildProc}
    BY <1>2, PlacesApart
  <1>4. \/ disk' = disk
        \/ Put(place, Absent)
        \/ ok /\ \E e \in Made(Source(place, v)) : Put(place, e)
    <2>1. CASE EntryGoesOn(RebuildProc, place, v)
      BY <1>3, <2>1, EntryGoesOnIs DEF Ground, Typed
    <2>2. CASE EntryEnds(RebuildProc, place, v, ok)
      BY <1>2, <1>3, <2>2, EntryEndsIs DEF Ground, Typed
    <2>3. QED
      BY <1>1, <2>1, <2>2 DEF EntryMoves
  <1>5. \A q \in Places \ {place} : disk'[q] = disk[q]
    <2>1. \A e : e \in Made(Source(place, v)) => e \in Entries
      BY DEF Made
    <2> HIDE DEF place, v
    <2>2. QED
      BY <1>3, <1>4, <2>1, PutIs, EntriesAre DEF Ground, Typed, StoreTyped
  <1>6. /\ rebuild'.stage = rebuild.stage /\ rebuild'.commit = rebuild.commit
        /\ rebuild'.alone = rebuild.alone
        /\ \/ rebuild' = rebuild /\ EntryGoesOn(RebuildProc, place, v)
           \/ /\ rebuild'.at = {} /\ rebuild'.todo = rebuild.todo \ {p}
              /\ (~rebuild'.errors => ok /\ ~rebuild.errors)
              /\ EntryEnds(RebuildProc, place, v, ok)
    <2>1. CASE EntryGoesOn(RebuildProc, place, v) /\ UNCHANGED rebuild
      BY <2>1
    <2>2. CASE EntryEnds(RebuildProc, place, v, ok) /\ Passed(p, ok)
      BY <1>1, <2>2, PassedIs
    <2>3. QED
      BY <2>1, <2>2 DEF RebuildWrites
  <1>7. QED
    BY <1>2, <1>3, <1>4, <1>5, <1>6

LEMMA RebuildWritesWhole ==
    ASSUME Ground, Whole, NEW p \in Places, NEW ok \in BOOLEAN, RebuildWrites(p, ok), Frame
    PROVE  Whole'
  <1>1. UNCHANGED task /\ UNCHANGED deletion /\ rebuild.at = {p} /\ rebuild.stage # "idle"
    BY DEF RebuildWrites, Frame, deleteVars
  <1>2. ~Deleting'
    BY <1>1, RepairPlaces DEF Deleting
  <1>3. \A b \in Blobs : disk'[b] = disk[b]
    BY RebuildWriteDoes, PlacesApart
  <1>4. ASSUME NEW q \in Snapshots, disk'[q] # disk[q] PROVE disk[Origin(q)].kind = "file"
    <2>1. q = p /\ rebuild.stage = "repair"
      BY <1>4, RebuildWriteDoes, PlacesApart
    <2>2. QED
      BY <1>1, <2>1 DEF Whole, PayloadsThere
  <1>5. LinksLead'
    BY <1>3, <1>4, LinksStay DEF Whole
  <1>6. rebuild'.stage = "repair" => rebuild.stage = "repair" /\ rebuild'.at \subseteq rebuild.at
    BY RebuildWriteDoes
  <1>7. PayloadsThere'
    BY <1>1, <1>3, <1>6, RepairPlaces, PayloadsStay DEF Whole
  <1>8. QED
    BY <1>2, <1>5, <1>7 DEF Whole, DeletionKnows

LEMMA RebuildCleansDoes ==
    ASSUME Ground, NEW p \in Places, RebuildCleans(p)
    PROVE  /\ p \in Friendly /\ rebuild.stage = "clean" /\ rebuild.at = {p}
           /\ disk'[p] = Absent /\ \A q \in Places \ {p} : disk'[q] = disk[q]
           /\ rebuild'.stage = "clean" /\ rebuild'.at = {} /\ rebuild'.commit = rebuild.commit
           /\ rebuild'.alone = rebuild.alone /\ (~rebuild'.errors => ~rebuild.errors)
           /\ UNCHANGED <<ref, manifest, supports, linkFailed, job, task, skip, entry, faults, rebuilds>>
  <1>1. /\ rebuild.stage = "clean" /\ rebuild.at = {p} /\ Put(p, Absent) /\ Passed(p, TRUE)
        /\ UNCHANGED <<ref, manifest, supports, linkFailed, job, task, skip, entry, faults, rebuilds>>
    BY DEF RebuildCleans, NextClean
  <1>2. p \in Friendly /\ rebuild \in Rebuilds
    BY <1>1 DEF Ground, Busy, Typed, JobsTyped
  <1>3. disk'[p] = Absent /\ \A q \in Places \ {p} : disk'[q] = disk[q]
    BY <1>1, PutIs, EntriesAre DEF Ground, Typed, StoreTyped
  <1>4. QED
    BY <1>1, <1>2, <1>3, PassedIs

LEMMA RebuildCleansWhole ==
    ASSUME Ground, Whole, NEW p \in Places, RebuildCleans(p), Frame PROVE Whole'
  <1>1. UNCHANGED task /\ UNCHANGED deletion
    BY RebuildCleansDoes DEF Frame, deleteVars
  <1>2. ~Deleting'
    BY <1>1, RebuildCleansDoes, RepairPlaces DEF Deleting
  <1>3. \A q \in Blobs \cup Snapshots : disk'[q] = disk[q]
    BY RebuildCleansDoes, PlacesApart
  <1>4. LinksLead'
    BY <1>3, LinksStay DEF Whole
  <1>5. PayloadsThere'
    BY <1>1, <1>3, RebuildCleansDoes, PayloadsStay DEF Whole
  <1>6. QED
    BY <1>2, <1>4, <1>5 DEF Whole, DeletionKnows

\* Steps that write nothing, and during which no deletion goes on.
LEMMA QuietWhole ==
    ASSUME Ground, Whole, ~Deleting', disk' = disk,
           \A t \in Tasks : task'[t] = "snap" => task[t] = "snap",
           rebuild'.stage = "repair" =>
              \A p \in rebuild'.at : p \in Snapshots /\ disk[Origin(p)].kind = "file"
    PROVE  Whole'
  <1>1. LinksLead'
    BY DEF Whole, LinksLead, Origin
  <1>2. PayloadsThere'
    BY DEF Whole, PayloadsThere, Origin
  <1>3. QED
    BY <1>1, <1>2 DEF Whole, DeletionKnows

LEMMA RebuildLooksWhole ==
    ASSUME Ground, Whole, NEW p \in Places, RebuildLooks(p), Frame PROVE Whole'
  <1>1. UNCHANGED task /\ UNCHANGED deletion /\ disk' = disk /\ rebuild.stage # "idle"
    BY RebuildLooksIs DEF Frame, deleteVars
  <1>2. ~Deleting'
    BY <1>1, RepairPlaces DEF Deleting
  <1>3. ASSUME rebuild'.stage = "repair", NEW q \in rebuild'.at
        PROVE  q \in Snapshots /\ disk[Origin(q)].kind = "file"
    <2>1. rebuild.stage = "repair" /\ q = p /\ p \in rebuild.todo /\ rebuild'.at = {p}
      BY <1>3, RebuildLooksIs
    <2>2. p \in Snapshots
      BY <2>1 DEF Ground, Busy
    <2>3. Repairable(p)
      <3>1. NextRepair(p)
        BY <2>1 DEF RebuildLooks, NextWalk, NextClean
      <3>2. Passed(p, TRUE) => rebuild'.at = {}
        BY PassedIs DEF Ground, Typed, JobsTyped
      <3>3. QED
        BY <2>1, <3>1, <3>2 DEF NextRepair
    <2>4. QED
      BY <2>1, <2>2, <2>3, OriginIs DEF Repairable
  <1>4. QED
    BY <1>1, <1>2, <1>3, QuietWhole

LEMMA QuietStepsWhole ==
    ASSUME Ground, Whole,
           \/ RebuildBegins
           \/ \E j \in Jobs : JobBegins(j) \/ JobStep(j)
           \/ NextStage /\ Frame
           \/ Crash
    PROVE  Whole'
  <1>1. CASE RebuildBegins
    <2>1. UNCHANGED <<disk, task, deletion>> /\ ~Deleting /\ rebuild'.at = {}
      <3>1. UNCHANGED <<storeVars, temp, job, task, skip, entry, starts, faults>>
            /\ UNCHANGED <<deleteVars, crashes>> /\ ~Deleting
        BY <1>1 DEF RebuildBegins, StartRebuild
      <3>2. rebuild'.at = {}
        <4>1. PICK v : rebuild' = [Idle EXCEPT !.stage = "repair", !.commit = v, !.todo = Repairs(v),
                                 !.alone = \A j \in Jobs : ~Active(j)]
          BY <1>1 DEF RebuildBegins, StartRebuild
        <4> DEFINE S == Repairs(v)
        <4> PICK b \in BOOLEAN : b = (\A j \in Jobs : ~Active(j))
          OBVIOUS
        <4>2. rebuild' = [Idle EXCEPT !.stage = "repair", !.commit = v, !.todo = S, !.alone = b]
          BY <4>1
        <4> HIDE DEF S
        <4>3. QED
          BY <4>2 DEF Idle
      <3>3. QED
        BY <3>1, <3>2 DEF storeVars, deleteVars
    <2>2. ~Deleting'
      BY <2>1 DEF Deleting
    <2>3. QED
      BY <2>1, <2>2, QuietWhole
  <1>2. ASSUME NEW j \in Jobs, JobBegins(j) PROVE Whole'
    <2>1. /\ disk' = disk /\ deletion' = deletion /\ ~Deleting
          /\ task' = [t \in Tasks |-> IF t[1] = j THEN "none" ELSE task[t]]
          /\ rebuild' = [rebuild EXCEPT !.alone = @ /\ rebuild.stage = "idle"]
      BY <1>2 DEF JobBegins, StartJob, storeVars
    <2>2. rebuild'.stage = rebuild.stage /\ rebuild'.at = rebuild.at
      BY <2>1, JoinedIs DEF Ground, Typed, JobsTyped
    <2>3. ~Deleting'
      BY <2>1 DEF Deleting
    <2>4. rebuild'.stage = "repair" =>
              \A p \in rebuild'.at : p \in Snapshots /\ disk[Origin(p)].kind = "file"
      BY <2>2, RepairPlaces DEF Whole, PayloadsThere
    <2>5. QED
      BY <2>1, <2>3, <2>4, QuietWhole
  <1>3. ASSUME NEW j \in Jobs, JobStep(j) PROVE Whole'
    <2>1. UNCHANGED <<disk, task, rebuild, deletion>> /\ Active(j)
      BY <1>3 DEF JobStep, Frame, deleteVars, FilesEnd, WriteRef, WriteManifest, storeVars, Active
    <2>2. ~Deleting'
      BY <2>1, RepairPlaces DEF Deleting
    <2>3. QED
      BY <2>1, <2>2, RepairPlaces, QuietWhole DEF Whole, PayloadsThere
  <1>4. CASE NextStage /\ Frame
    <2>1. UNCHANGED <<disk, task, deletion>> /\ rebuild'.at = {} /\ rebuild.stage # "idle"
      BY <1>4, NextStageIs DEF Frame, deleteVars
    <2>2. ~Deleting'
      BY <2>1, RepairPlaces DEF Deleting
    <2>3. QED
      BY <2>1, <2>2, QuietWhole
  <1>5. CASE Crash
    BY <1>5, CrashIs, IdleIs, QuietWhole
  <1>6. QED
    BY <1>1, <1>2, <1>3, <1>4, <1>5

\* While a deletion goes on, nobody else works.
LEMMA DeletionAlone ==
    ASSUME Ground, Deleting
    PROVE  /\ \A t \in Tasks : task[t] # "snap" /\ task[t] # "view"
           /\ rebuild.stage = "idle" /\ \A j \in Jobs : ~Active(j)
  <1>1. rebuild.stage = "idle" /\ \A j \in Jobs : ~Active(j)
    BY DEF Ground, Busy, Publishing
  <1>2. Running = {}
    BY RepairPlaces
  <1>3. QED
    BY <1>1, <1>2 DEF Running, Ended

LEMMA InspectedIs ==
    ASSUME Inspected' = Inspected
    PROVE  /\ deletion'.selected = deletion.selected /\ deletion'.seen = deletion.seen
           /\ deletion'.leads = deletion.leads /\ deletion'.candidates = deletion.candidates
           /\ deletion'.refs = deletion.refs /\ deletion'.retained = deletion.retained
  BY DEF Inspected

LEMMA PayloadsThereWhileDeleting ==
    ASSUME Ground, Deleting, UNCHANGED <<task, rebuild>>
    PROVE  PayloadsThere'
  BY DeletionAlone DEF PayloadsThere

LEMMA BeginDeleteWhole ==
    ASSUME Ground, Whole, NEW selected \in Selections, BeginDelete(selected) PROVE Whole'
  <1>1. disk' = disk /\ task' = task /\ rebuild' = rebuild
    BY BeginDeleteIs
  <1>2. LinksLead' /\ PayloadsThere'
    BY <1>1 DEF Whole, LinksLead, PayloadsThere, Origin
  <1>3. DeletionKnows'
    <2>1. CASE ~Deleting'
      BY <2>1 DEF DeletionKnows
    <2>2. CASE Begins(selected)
      <3>1. ASSUME NEW p \in Snapshots, disk'[p].kind = "link" PROVE p \in deletion'.refs[Origin(p)]
        <4>1. disk[p] = Link(Origin(p)) /\ Origin(p) \in Blobs
          BY <1>1, <3>1, OriginIs DEF Ground, Shape
        <4>2. p \in References(Origin(p))
          BY <4>1 DEF References
        <4>3. QED
          BY <2>2, <4>1, <4>2 DEF Begins
      <3>2. deletion'.removed = {} /\ deletion'.remaining = {} /\ deletion'.stage = "tombstones"
        BY <2>2 DEF Begins
      <3>3. QED
        BY <3>1, <3>2 DEF DeletionKnows, Origin
    <2>3. QED
      BY <2>1, <2>2, BeginDeleteIs
  <1>4. QED
    BY <1>2, <1>3 DEF Whole

\* A step of the deletion that removes nothing.
LEMMA DeletionGoesOnWhole ==
    ASSUME Ground, Whole, RecordTombstones \/ NextPass PROVE Whole'
  <1>1. disk' = disk /\ task' = task /\ rebuild' = rebuild /\ Deleting
    BY TombstonesIs, NextPassIs DEF Ground
  <1>2. LinksLead' /\ PayloadsThere'
    BY <1>1, PayloadsThereWhileDeleting DEF Whole, LinksLead, Origin
  <1>3. DeletionKnows'
    <2>1. CASE ~Deleting'
      BY <2>1 DEF DeletionKnows
    <2>2. CASE /\ Inspected' = Inspected
               /\ deletion'.removed = deletion.removed /\ deletion'.remaining = deletion.remaining
               /\ (~deletion'.errors => ~deletion.errors)
               /\ deletion'.stage = "blobs" => deletion.selected \subseteq Settled
      <3>1. Settled' = Settled /\ deletion'.refs = deletion.refs /\ deletion'.selected = deletion.selected
        BY <2>2, InspectedIs DEF Settled
      <3>2. QED
        BY <1>1, <2>2, <3>1 DEF Whole, DeletionKnows, Origin
    <2>3. QED
      BY <2>1, <2>2, TombstonesIs, NextPassIs DEF Ground
  <1>4. QED
    BY <1>2, <1>3 DEF Whole

LEMMA RemovesWhole == ASSUME Ground, Whole, NEW p \in Places, Removes(p) PROVE Whole'
  <1>1. /\ Deleting /\ Deleting' /\ task' = task /\ rebuild' = rebuild
        /\ deletion'.selected = deletion.selected /\ deletion'.refs = deletion.refs
        /\ deletion'.stage = deletion.stage
        /\ disk' = disk \/ (Put(p, Absent) /\ deletion'.removed = deletion.removed \cup {p})
        /\ deletion'.removed \in {deletion.removed, deletion.removed \cup {p}}
        /\ disk' = disk => deletion'.removed = deletion.removed \/ disk[p] = Absent
    <2>1. \/ /\ Put(p, Absent) /\ Exists(p) /\ deletion'.removed = deletion.removed \cup {p}
          \/ disk' = disk /\ deletion'.removed = deletion.removed
      BY RemovesIs DEF Ground
    <2>2. Put(p, Absent) /\ Exists(p) => disk' # disk
      BY PutIs, EntriesAre DEF Exists, Ground, Typed, StoreTyped
    <2>3. /\ Deleting /\ Inspected' = Inspected /\ deletion'.stage = deletion.stage
          /\ task' = task /\ rebuild' = rebuild
      BY RemovesIs DEF Ground
    <2>4. QED
      BY <2>1, <2>2, <2>3, InspectedIs DEF Deleting
  <1>2. /\ \A q \in Places : disk'[q] = disk[q] \/ (disk'[q] = Absent /\ q = p)
        /\ \A q \in deletion'.removed : disk'[q] = Absent
    <2>1. \A q \in deletion.removed : disk[q] = Absent /\ q \in Places
      BY <1>1 DEF Whole, DeletionKnows, Ground, Typed, DeletionTyped, Deletions
    <2>2. CASE disk' = disk
      BY <1>1, <2>1, <2>2
    <2>3. CASE Put(p, Absent)
      BY <1>1, <2>1, <2>3, PutIs, EntriesAre DEF Ground, Typed, StoreTyped
    <2>4. QED
      BY <1>1, <2>2, <2>3
  <1>3. LinksLead'
    <2> SUFFICES ASSUME NEW q \in Snapshots, disk'[q].kind = "link" PROVE disk'[Origin(q)].kind = "file"
      BY DEF LinksLead, Origin
    <2>1. /\ disk[q].kind = "link" /\ disk[Origin(q)].kind = "file" /\ q \in deletion.refs[Origin(q)]
          /\ Origin(q) \in Blobs /\ q \in Places /\ Origin(q) \in Places
      BY <1>1, <1>2, EntriesAre, OriginIs, PlacesApart DEF Whole, LinksLead, DeletionKnows
    <2>2. CASE disk'[Origin(q)] = disk[Origin(q)]
      BY <2>1, <2>2
    <2>3. CASE p = Origin(q)
      <3>1. p \in Unneeded
        <4>1. p \notin Friendly /\ p \notin Snapshots
          BY <2>1, <2>3, PlacesApart
        <4>2. deletion.selected \subseteq Snapshots /\ DOMAIN deletion.leads \subseteq Friendly
          BY DEF Ground, Typed, DeletionTyped, Deletions, Leads
        <4>3. QED
          BY <4>1, <4>2, RemovesIs DEF Ground
      <3>2. deletion.refs[p] \ deletion.removed = {}
        BY <3>1 DEF Unneeded, StillReferenced
      <3>3. q \in deletion.removed
        BY <2>1, <2>3, <3>2
      <3>4. QED
        BY <1>1, <2>1, <3>3, EntriesAre DEF Whole, DeletionKnows
    <2>4. QED
      BY <1>2, <2>1, <2>2, <2>3
  <1>4. PayloadsThere'
    BY <1>1, PayloadsThereWhileDeleting
  <1>5. DeletionKnows'
    <2>1. \A q \in Snapshots : disk'[q].kind = "link" => q \in deletion'.refs[Origin(q)]
      BY <1>1, <1>2, EntriesAre, PlacesApart DEF Whole, DeletionKnows
    <2>2. ~deletion'.errors => deletion'.remaining = {}
      BY <1>1, RemovesIs DEF Ground, Whole, DeletionKnows
    <2>3. Settled \subseteq Settled'
      BY RemovesIs DEF Ground, Settled
    <2>4. deletion'.stage = "blobs" => deletion'.selected \subseteq Settled'
      BY <1>1, <2>3 DEF Whole, DeletionKnows
    <2>5. QED
      BY <1>2, <2>1, <2>2, <2>4 DEF DeletionKnows, Origin
  <1>6. QED
    BY <1>3, <1>4, <1>5 DEF Whole

LEMMA UserTouchesWhole ==
    ASSUME Ground, Whole, NEW p \in Snapshots \cup Friendly, UserTouches(p) PROVE Whole'
  <1>1. PICK e \in Entries : Put(p, e) /\ (e = Absent \/ (e.kind = "file" /\ e.content = Foreign))
    BY UserTouchesIs
  <1>2. Deleting /\ Exists(p) /\ p \in Places /\ UNCHANGED <<task, rebuild, deletion>>
    BY UserTouchesIs
  <1>3. /\ disk'[p].kind # "link" /\ \A q \in Places \ {p} : disk'[q] = disk[q]
        /\ \A b \in Blobs : disk'[b] = disk[b]
    BY <1>1, <1>2, PutIs, EntriesAre, PlacesApart DEF Ground, Typed, StoreTyped
  <1>4. LinksLead'
    <2>1. ASSUME NEW q \in Snapshots, disk'[q] # disk[q], disk'[q].kind = "link" PROVE FALSE
      BY <1>3, <2>1, PlacesApart
    <2>2. QED
      BY <1>3, <2>1, LinksStay DEF Whole
  <1>5. PayloadsThere'
    BY <1>2, PayloadsThereWhileDeleting
  <1>6. DeletionKnows'
    <2>1. \A q \in Snapshots : disk'[q].kind = "link" => q \in deletion'.refs[Origin(q)]
      BY <1>2, <1>3, PlacesApart DEF Whole, DeletionKnows
    <2>2. \A q \in deletion'.removed : disk'[q] = Absent
      <3>1. \A q \in deletion.removed : disk[q] = Absent /\ q \in Places
        BY <1>2 DEF Whole, DeletionKnows, Ground, Typed, DeletionTyped, Deletions
      <3>2. p \notin deletion.removed
        BY <1>2, <3>1, EntriesAre DEF Exists
      <3>3. QED
        BY <1>2, <1>3, <3>1, <3>2
    <2>3. Settled' = Settled
      BY <1>2 DEF Settled
    <2>4. deletion' = deletion
      BY <1>2
    <2>5. QED
      BY <1>2, <2>1, <2>2, <2>3, <2>4 DEF Whole, DeletionKnows, Origin
  <1>7. QED
    BY <1>4, <1>5, <1>6 DEF Whole

LEMMA NextWhole == ASSUME Ground, Whole, Next PROVE Whole'
  <1>1. ASSUME NEW t \in Tasks, NEW p \in Snapshots \cup Friendly, NEW ok \in BOOLEAN,
               TaskWrites(t, p, ok) /\ Frame
        PROVE  Whole'
    BY <1>1, TaskWritesWhole
  <1>2. ASSUME NEW p \in Places, NEW ok \in BOOLEAN, RebuildWrites(p, ok) /\ Frame PROVE Whole'
    BY <1>2, RebuildWritesWhole
  <1>3. ASSUME NEW p \in Places, (RebuildLooks(p) \/ RebuildCleans(p)) /\ Frame PROVE Whole'
    BY <1>3, RebuildLooksWhole, RebuildCleansWhole
  <1>4. QED
    BY <1>1, <1>2, <1>3, StepsAre, QuietStepsWhole, TaskStepWhole, BeginDeleteWhole,
       DeletionGoesOnWhole, RemovesWhole, UserTouchesWhole

LEMMA InitWhole == Init => Whole
  <1> SUFFICES ASSUME Init PROVE Whole
    OBVIOUS
  <1>1. LinksLead
    BY InitIs, EntriesAre DEF LinksLead
  <1>2. /\ task = [t \in Tasks |-> "none"] /\ rebuild = Idle /\ deletion = NoDeletion
    BY DEF Init, PublishInit, DeleteInit
  <1>3. PayloadsThere
    BY <1>2, IdleIs DEF PayloadsThere
  <1>4. ~Deleting
    BY <1>2, NoDeletionIs DEF Deleting
  <1>5. QED
    BY <1>1, <1>3, <1>4 DEF Whole, DeletionKnows

---------------------------------------------------------------------------
(* What is deleted stays deleted *)

\* The manifest does not ask for the entry to be repaired.
Marked(p) ==
    manifest.commit = p[2] /\ p[3] \in manifest.files => <<p[3], p[2]>> \in manifest.deleted

Goal(j) == {SnapshotPath(JobCommit[j], f) : f \in JobFiles[j]}

GoneStays ==
    /\ \A p \in gone : disk[p] = Absent /\ Marked(p)
    /\ \A j \in Jobs : Active(j) => Goal(j) \cap gone = {}
    /\ rebuild.stage = "repair" => rebuild.todo \cap gone = {}
    /\ Deleting /\ ~deletion.errors /\ deletion.stage # "tombstones" =>
         \A p \in deletion.selected : Marked(p)

LEMMA GoneIs == ASSUME Ground PROVE \A p \in gone : p \in Snapshots /\ p \in Places
  BY PlacesApart DEF Ground, Typed, DeletionTyped

\* A writer of an entry changes none that is gone.
LEMMA WritersSpareGone ==
    ASSUME Ground, GoneStays,
           \/ \E t \in Tasks, p \in Snapshots \cup Friendly, ok \in BOOLEAN : TaskWrites(t, p, ok)
           \/ \E p \in Places, ok \in BOOLEAN : RebuildWrites(p, ok)
           \/ \E p \in Places : RebuildCleans(p)
           \/ \E t \in Tasks : TaskStep(t)
    PROVE  \A q \in gone : disk'[q] = disk[q]
  <1>1. ASSUME NEW t \in Tasks, NEW p \in Snapshots \cup Friendly, NEW ok \in BOOLEAN,
               TaskWrites(t, p, ok), NEW q \in gone
        PROVE  disk'[q] = disk[q]
    <2>1. p # q
      <3> SUFFICES ASSUME p = q PROVE FALSE
        OBVIOUS
      <3>1. p = SnapshotOf(t) /\ t \in Running
        BY <1>1, GoneIs, TaskWriteDoes
      <3>2. t[1] \in Jobs /\ t[2] \in JobFiles[t[1]] /\ Active(t[1])
        BY <3>1, TasksAre DEF Ground, Busy, Active
      <3>3. SnapshotOf(t) \in Goal(t[1])
        BY <3>2 DEF SnapshotOf, Goal, Commit
      <3>4. QED
        BY <3>1, <3>2, <3>3 DEF GoneStays
    <2>2. QED
      BY <1>1, <2>1, GoneIs, TaskWriteDoes
  <1>2. ASSUME NEW p \in Places, NEW ok \in BOOLEAN, RebuildWrites(p, ok), NEW q \in gone
        PROVE  disk'[q] = disk[q]
    <2>1. CASE rebuild.stage = "walk"
      <3>1. RebuiltPlace(p) # q
        BY <1>2, <2>1, GoneIs, RebuildWriteDoes, PlacesApart
      <3>2. QED
        BY <1>2, <3>1, GoneIs, RebuildWriteDoes
    <2>2. CASE rebuild.stage = "repair"
      <3>1. p \in rebuild.todo /\ p # q
        BY <1>2, <2>2 DEF RebuildWrites, Ground, Busy, GoneStays
      <3>2. RebuiltPlace(p) = p
        BY <1>2, <2>2, RebuildWriteDoes
      <3>3. QED
        BY <1>2, <3>1, <3>2, GoneIs, RebuildWriteDoes
    <2>3. QED
      BY <1>2, <2>1, <2>2 DEF RebuildWrites
  <1>3. ASSUME NEW p \in Places, RebuildCleans(p), NEW q \in gone PROVE disk'[q] = disk[q]
    BY <1>3, GoneIs, RebuildCleansDoes, PlacesApart
  <1>4. ASSUME NEW t \in Tasks, TaskStep(t), NEW q \in gone PROVE disk'[q] = disk[q]
    <2>1. disk' = disk \/ Put(BlobPath(Content(t)), NewFile(Content(t)))
      BY <1>4 DEF TaskStep, BeginFile, SkipCheck, Transferred, VerifyFile, StoreBlob, CopyBlob,
                  FileFails, storeVars, Put
    <2>2. q \in Places /\ BlobPath(Content(t)) \in Places /\ q # BlobPath(Content(t))
      BY <1>4, GoneIs, TaskPlaces, PlacesApart
    <2>3. NewFile(Content(t)) \in Entries
      BY TaskPlaces, NewFileIs
    <2>4. QED
      BY <2>1, <2>2, <2>3, PutIs DEF Ground, Typed, StoreTyped
  <1>5. QED
    BY <1>1, <1>2, <1>3, <1>4

\* The steps that leave the manifest, the set of what is gone, and the deletion.
LEMMA GoneKept ==
    ASSUME Ground, GoneStays, UNCHANGED <<manifest, gone, deletion>>,
           \A q \in gone : disk'[q] = disk[q],
           \A j \in Jobs : Active(j)' => Active(j),
           rebuild'.stage = "repair" => rebuild.stage = "repair" /\ rebuild'.todo \subseteq rebuild.todo
    PROVE  GoneStays'
  <1>1. \A p : Marked(p)' <=> Marked(p)
    BY DEF Marked
  <1>2. Deleting' <=> Deleting
    BY DEF Deleting
  <1>3. \A j : Goal(j)' = Goal(j)
    BY DEF Goal
  <1>4. deletion' = deletion /\ gone' = gone
    OBVIOUS
  <1>5. QED
    BY <1>1, <1>2, <1>3, <1>4 DEF GoneStays

LEMMA PublisherGone ==
    ASSUME Ground, GoneStays,
           \/ \E t \in Tasks : TaskStep(t)
           \/ \E t \in Tasks, p \in Snapshots \cup Friendly, ok \in BOOLEAN : TaskWrites(t, p, ok) /\ Frame
           \/ \E p \in Places : (RebuildLooks(p) \/ RebuildCleans(p)) /\ Frame
           \/ \E p \in Places, ok \in BOOLEAN : RebuildWrites(p, ok) /\ Frame
           \/ NextStage /\ Frame
    PROVE  GoneStays'
  <1>1. UNCHANGED <<manifest, gone, deletion>> /\ job' = job
    BY NextStageIs, RebuildLooksIs, RebuildCleansDoes
       DEF TaskStep, BeginFile, SkipCheck, Transferred, VerifyFile, StoreBlob, CopyBlob, FileFails,
           storeVars, Frame, deleteVars, TaskWrites, RebuildWrites
  <1>2. \A q \in gone : disk'[q] = disk[q]
    <2>1. CASE \E p \in Places : RebuildLooks(p)
      BY <2>1, RebuildLooksIs
    <2>2. CASE NextStage
      BY <2>2, NextStageIs
    <2>3. QED
      BY <2>1, <2>2, WritersSpareGone
  <1>3. rebuild'.stage = "repair" => rebuild.stage = "repair" /\ rebuild'.todo \subseteq rebuild.todo
    <2>1. CASE \E p \in Places : RebuildLooks(p)
      BY <2>1, RebuildLooksIs
    <2>2. CASE NextStage
      BY <2>2, NextStageIs, IdleIs
    <2>3. CASE \E t \in Tasks : TaskStep(t)
      BY <2>3 DEF TaskStep, BeginFile, SkipCheck, Transferred, VerifyFile, StoreBlob, CopyBlob, FileFails
    <2>4. CASE \E t \in Tasks, p \in Snapshots \cup Friendly, ok \in BOOLEAN : TaskWrites(t, p, ok)
      BY <2>4 DEF TaskWrites
    <2>5. CASE \E p \in Places : RebuildCleans(p)
      BY <2>5, RebuildCleansDoes
    <2>6. CASE \E p \in Places, ok \in BOOLEAN : RebuildWrites(p, ok)
      BY <2>6, RebuildWriteDoes
    <2>7. QED
      BY <2>1, <2>2, <2>3, <2>4, <2>5, <2>6
  <1>4. \A j \in Jobs : Active(j)' => Active(j)
    BY <1>1 DEF Active
  <1>5. QED
    BY <1>1, <1>2, <1>3, <1>4, GoneKept

LEMMA JobBeginsGone == ASSUME Ground, GoneStays, NEW j \in Jobs, JobBegins(j) PROVE GoneStays'
  <1>1. /\ disk' = disk /\ manifest' = manifest /\ deletion' = deletion /\ ~Deleting
        /\ gone' = gone \ Goal(j) /\ job' = [job EXCEPT ![j] = "files"]
        /\ rebuild' = [rebuild EXCEPT !.alone = @ /\ rebuild.stage = "idle"]
    BY DEF JobBegins, StartJob, storeVars, Goal
  <1>2. rebuild'.stage = rebuild.stage /\ rebuild'.todo = rebuild.todo
    BY <1>1, JoinedIs DEF Ground, Typed, JobsTyped
  <1>3. \A p : Marked(p)' <=> Marked(p)
    BY <1>1 DEF Marked
  <1>4. ~Deleting'
    BY <1>1 DEF Deleting
  <1>5. \A i \in Jobs : Goal(i)' = Goal(i) /\ (Active(i)' => i = j \/ Active(i))
    BY <1>1 DEF Goal, Active, Ground, Typed, JobsTyped
  <1>6. QED
    BY <1>1, <1>2, <1>3, <1>4, <1>5 DEF GoneStays

LEMMA RebuildBeginsGone == ASSUME Ground, GoneStays, RebuildBegins PROVE GoneStays'
  <1>1. /\ UNCHANGED <<storeVars, temp, job, task, skip, entry, starts, faults>>
        /\ UNCHANGED <<deleteVars, crashes>> /\ ~Deleting
    BY DEF RebuildBegins, StartRebuild
  <1>2. disk' = disk /\ manifest' = manifest /\ deletion' = deletion /\ job' = job /\ gone' = gone
    BY <1>1 DEF storeVars, deleteVars
  <1>3. \E v \in Versions : rebuild'.todo = Repairs(v)
    <2>1. PICK v \in RebuildCommits :
             rebuild' = [Idle EXCEPT !.stage = "repair", !.commit = v, !.todo = Repairs(v),
                                     !.alone = \A j \in Jobs : ~Active(j)]
      BY DEF RebuildBegins, StartRebuild
    <2> DEFINE S == Repairs(v)
    <2> PICK b \in BOOLEAN : b = (\A j \in Jobs : ~Active(j))
      OBVIOUS
    <2>2. rebuild' = [Idle EXCEPT !.stage = "repair", !.commit = v, !.todo = S, !.alone = b]
      BY <2>1
    <2>3. v \in Versions
      BY DEF RebuildCommits, SavedVersions, Ground, Typed, StoreTyped, Manifests
    <2> HIDE DEF S
    <2>4. rebuild'.todo = S
      BY <2>2 DEF Idle
    <2>5. QED
      BY <2>3, <2>4 DEF S
  <1>4. ASSUME NEW v \in Versions, NEW p \in Repairs(v) PROVE p \notin gone
    <2>1. PICK f \in manifest.files :
             p = SnapshotPath(v, f) /\ ~IsDeleted(manifest, f, v) /\ manifest.commit = v
      BY <1>4 DEF Repairs
    <2>2. f \in Files
      BY DEF Ground, Typed, StoreTyped, Manifests
    <2>3. p[2] = v /\ p[3] = f
      BY <2>1, <2>2, PlacesAre
    <2>4. ~Marked(p)
      BY <2>1, <2>3 DEF Marked, IsDeleted
    <2>5. QED
      BY <2>4 DEF GoneStays
  <1>5. \A p : Marked(p)' <=> Marked(p)
    BY <1>2 DEF Marked
  <1>6. ~Deleting' /\ \A j \in Jobs : Goal(j)' = Goal(j) /\ (Active(j)' <=> Active(j))
    BY <1>1, <1>2 DEF Deleting, Goal, Active
  <1>7. QED
    BY <1>2, <1>3, <1>4, <1>5, <1>6 DEF GoneStays

LEMMA JobStepGone == ASSUME Ground, GoneStays, NEW j \in Jobs, JobStep(j) PROVE GoneStays'
  <1>1. UNCHANGED <<disk, rebuild, deletion, gone>> /\ Active(j)
    BY DEF JobStep, Frame, deleteVars, FilesEnd, WriteRef, WriteManifest, storeVars, Active
  <1>2. \A i \in Jobs : Active(i)' => Active(i)
    <2>1. \E s : job' = [job EXCEPT ![j] = s]
      BY DEF JobStep, FilesEnd, WriteRef, WriteManifest
    <2>2. QED
      BY <1>1, <2>1 DEF Active, Ground, Typed, JobsTyped
  <1>3. manifest' = manifest \/ manifest' = Written(JobCommit[j], JobFiles[j])
    BY DEF JobStep, FilesEnd, WriteRef, WriteManifest, storeVars
  <1>4. ASSUME NEW p \in gone PROVE Marked(p)'
    <2>1. CASE manifest' = manifest
      BY <2>1 DEF Marked, GoneStays
    <2>2. CASE manifest' = Written(JobCommit[j], JobFiles[j])
      <3>1. manifest'.commit = JobCommit[j] /\ manifest'.files = JobFiles[j]
        BY <2>2 DEF Written
      <3>2. ~(JobCommit[j] = p[2] /\ p[3] \in JobFiles[j])
        <4>1. p = SnapshotPath(p[2], p[3])
          BY GoneIs, PlacesAre
        <4>2. JobCommit[j] = p[2] /\ p[3] \in JobFiles[j] => p \in Goal(j)
          BY <4>1 DEF Goal
        <4>3. QED
          BY <1>1, <4>2 DEF GoneStays
      <3>3. QED
        BY <3>1, <3>2 DEF Marked
    <2>3. QED
      BY <1>3, <2>1, <2>2
  <1>5. ~Deleting'
    BY <1>1, RepairPlaces DEF Deleting
  <1>6. \A i \in Jobs : Goal(i)' = Goal(i)
    BY DEF Goal
  <1>7. QED
    BY <1>1, <1>2, <1>4, <1>5, <1>6 DEF GoneStays

\* Steps of a deletion: no job and no rebuild is at work.
LEMMA DeletionGone ==
    ASSUME Ground, GoneStays, UNCHANGED <<job, rebuild>>, Deleting \/ (~Publishing /\ Deleting'),
           \A p \in gone' : disk'[p] = Absent /\ Marked(p)',
           Deleting' /\ ~deletion'.errors /\ deletion'.stage # "tombstones" =>
             \A p \in deletion'.selected : Marked(p)'
    PROVE  GoneStays'
  <1>1. (\A j \in Jobs : ~Active(j)') /\ rebuild'.stage = "idle"
    BY DeletionAlone DEF Active, Publishing
  <1>2. QED
    BY <1>1 DEF GoneStays

LEMMA BeginDeleteGone ==
    ASSUME Ground, GoneStays, NEW selected \in Selections, BeginDelete(selected) PROVE GoneStays'
  <1>1. /\ disk' = disk /\ manifest' = manifest /\ gone' = gone /\ job' = job /\ rebuild' = rebuild
        /\ ~Publishing
    BY BeginDeleteIs
  <1>2. \A p : Marked(p)' <=> Marked(p)
    BY <1>1 DEF Marked
  <1>3. \A j \in Jobs : ~Active(j)'
    BY <1>1 DEF Active, Publishing
  <1>4. rebuild'.stage = "idle"
    BY <1>1 DEF Publishing
  <1>5. Deleting' => deletion'.stage = "tombstones"
    BY BeginDeleteIs DEF Begins
  <1>6. QED
    BY <1>1, <1>2, <1>3, <1>4, <1>5 DEF GoneStays

LEMMA TombstonesGone == ASSUME Ground, GoneStays, RecordTombstones PROVE GoneStays'
  <1>1. /\ Deleting /\ disk' = disk /\ gone' = gone /\ job' = job /\ rebuild' = rebuild
        /\ deletion'.selected = deletion.selected
    BY TombstonesIs, InspectedIs DEF Ground
  <1>2. \/ manifest' = RecordDeletion(manifest, deletion.selected)
        \/ manifest' = manifest /\ (manifest = NoManifest \/ deletion'.errors)
    BY TombstonesIs DEF Ground
  <1>3. ASSUME manifest' = RecordDeletion(manifest, deletion.selected)
        PROVE  /\ \A p : Marked(p) => Marked(p)'
               /\ \A p \in deletion.selected : Marked(p)'
    <2>1. /\ manifest'.commit = manifest.commit /\ manifest'.files = manifest.files
          /\ manifest'.deleted = manifest.deleted \cup {<<p[3], p[2]>> : p \in deletion.selected}
      BY <1>3 DEF RecordDeletion, Ground, Typed, StoreTyped, Manifests
    <2>2. QED
      BY <2>1 DEF Marked
  <1>4. \A p \in gone' : disk'[p] = Absent /\ Marked(p)'
    <2>1. CASE manifest' = manifest
      BY <1>1, <2>1 DEF Marked, GoneStays
    <2>2. QED
      BY <1>1, <1>2, <1>3, <2>1 DEF GoneStays
  <1>5. ASSUME ~deletion'.errors, NEW p \in deletion'.selected PROVE Marked(p)'
    <2>1. CASE manifest' = manifest /\ manifest = NoManifest
      <3>1. p \in Snapshots
        BY <1>1, <1>5 DEF Ground, Typed, DeletionTyped, Deletions
      <3>2. manifest'.commit = None /\ p[2] \in Versions
        BY <2>1, <3>1, PlacesAre DEF NoManifest
      <3>3. QED
        BY <3>2, StoreAssumption DEF Marked
    <2>2. QED
      BY <1>1, <1>2, <1>3, <1>5, <2>1
  <1>6. QED
    BY <1>1, <1>4, <1>5, DeletionGone

LEMMA NextPassGone == ASSUME Ground, Whole, GoneStays, NextPass PROVE GoneStays'
  <1>1. /\ Deleting /\ disk' = disk /\ manifest' = manifest /\ job' = job /\ rebuild' = rebuild
    BY NextPassIs DEF Ground
  <1>2. \A p : Marked(p)' <=> Marked(p)
    BY <1>1 DEF Marked
  <1>3. CASE /\ Inspected' = Inspected /\ gone' = gone /\ deletion'.errors = deletion.errors
             /\ deletion.stage # "tombstones"
    BY <1>1, <1>2, <1>3, InspectedIs, DeletionGone DEF GoneStays
  <1>4. CASE /\ ~Deleting' /\ deletion.stage = "blobs"
             /\ gone' = IF deletion.errors THEN gone ELSE gone \cup deletion.selected
    <2>1. ASSUME ~deletion.errors, NEW p \in deletion.selected PROVE disk[p] = Absent /\ Marked(p)
      <3>1. p \in deletion.removed
        BY <1>1, <1>4, <2>1 DEF Whole, DeletionKnows, Settled
      <3>2. QED
        BY <1>1, <1>4, <2>1, <3>1 DEF Whole, DeletionKnows, GoneStays
    <2>2. \A p \in gone' : disk'[p] = Absent /\ Marked(p)'
      BY <1>1, <1>2, <1>4, <2>1 DEF GoneStays
    <2>3. QED
      BY <1>1, <1>4, <2>2, DeletionGone
  <1>5. QED
    <2>1. deletion.stage \in {"friendly", "snapshots"} => deletion.stage # "tombstones"
      OBVIOUS
    <2>2. QED
      BY <1>3, <1>4, <2>1, NextPassIs DEF Ground

LEMMA RemovesGone == ASSUME Ground, GoneStays, NEW p \in Places, Removes(p) PROVE GoneStays'
  <1>1. /\ Deleting /\ manifest' = manifest /\ gone' = gone /\ job' = job /\ rebuild' = rebuild
        /\ deletion'.selected = deletion.selected /\ deletion'.stage = deletion.stage
        /\ (~deletion'.errors => ~deletion.errors)
        /\ disk' = disk \/ Put(p, Absent)
    BY RemovesIs, InspectedIs DEF Ground
  <1>2. \A q : Marked(q)' <=> Marked(q)
    BY <1>1 DEF Marked
  <1>3. \A q \in Places : disk'[q] \in {disk[q], Absent}
    BY <1>1, PutIs, EntriesAre DEF Ground, Typed, StoreTyped
  <1>4. \A q \in gone' : disk'[q] = Absent /\ Marked(q)'
    BY <1>1, <1>2, <1>3, GoneIs DEF GoneStays
  <1>5. QED
    BY <1>1, <1>2, <1>4, DeletionGone DEF GoneStays

LEMMA UserTouchesGone ==
    ASSUME Ground, GoneStays, NEW p \in Snapshots \cup Friendly, UserTouches(p) PROVE GoneStays'
  <1>1. PICK e \in Entries : Put(p, e)
    BY UserTouchesIs
  <1>2. /\ Deleting /\ Exists(p) /\ p \in Places
        /\ UNCHANGED <<manifest, job, rebuild, deletion, gone>>
    BY UserTouchesIs
  <1>3. p \notin gone
    BY <1>2, EntriesAre DEF Exists, GoneStays
  <1>4. \A q \in gone : disk'[q] = disk[q]
    BY <1>1, <1>2, <1>3, GoneIs, PutIs DEF Ground, Typed, StoreTyped
  <1>5. \A j \in Jobs : Active(j)' => Active(j)
    BY <1>2 DEF Active
  <1>6. QED
    BY <1>2, <1>4, <1>5, GoneKept

LEMMA CrashGone == ASSUME Ground, GoneStays, Crash PROVE GoneStays'
  <1>1. \A p : Marked(p)' <=> Marked(p)
    BY CrashIs DEF Marked
  <1>2. \A p \in gone' : disk'[p] = Absent /\ Marked(p)'
    BY <1>1, CrashIs DEF GoneStays
  <1>3. QED
    BY <1>2, CrashIs, IdleIs DEF GoneStays

LEMMA NextGone == ASSUME Ground, Whole, GoneStays, Next PROVE GoneStays'
  BY StepsAre, PublisherGone, JobBeginsGone, RebuildBeginsGone, JobStepGone, BeginDeleteGone,
     TombstonesGone, NextPassGone, RemovesGone, UserTouchesGone, CrashGone

LEMMA InitGone == Init => GoneStays
  <1> SUFFICES ASSUME Init PROVE GoneStays
    OBVIOUS
  <1>1. gone = {} /\ deletion = NoDeletion /\ rebuild = Idle /\ job = [j \in Jobs |-> "idle"]
    BY DEF Init, PublishInit, DeleteInit
  <1>2. \A j \in Jobs : ~Active(j)
    BY <1>1 DEF Active
  <1>3. QED
    BY <1>1, <1>2, IdleIs, NoDeletionIs DEF GoneStays, Deleting

---------------------------------------------------------------------------
(* What a job has stored is there *)

\* The entry leads to, or is a file of, its content.
Good(p) ==
    disk[p] = Link(Origin(p)) \/ (disk[p].kind = "file" /\ disk[p].content = Sha[p[2]][p[3]])

Stored ==
    /\ \A t \in Tasks : task[t] \in {"view", "done"} /\ Active(t[1]) =>
         Good(SnapshotOf(t)) \/ AnotherPlaces(SnapshotOf(t), t)
    /\ \A j \in Jobs : job[j] = "ref" => \A t \in JobTasks(j) : task[t] \in {"done", "unlinked"}

\* Counts never fall.
LEMMA CountsGrow ==
    ASSUME Ground, Next
    PROVE  (faults > 0 => faults' > 0) /\ (rebuilds > 0 => rebuilds' > 0)
  <1>0. faults \in Nat /\ rebuilds \in Nat
    BY DEF Ground, Typed, JobsTyped
  <1>1. faults' = faults \/ faults' = faults + 1 \/ (faults' \in Nat /\ faults' >= faults)
    <2>1. ASSUME NEW t \in Tasks, NEW p \in Snapshots \cup Friendly, NEW ok \in BOOLEAN,
                 TaskWrites(t, p, ok)
          PROVE  faults' \in Nat /\ faults' >= faults
      <3>1. Source(p, Commit(t)) \in Places /\ p \in Places
        BY <2>1, TaskSource, PlacesApart DEF TaskWrites
      <3>2. QED
        BY <1>0, <2>1, <3>1, EntryGoesOnIs, EntryEndsIs DEF TaskWrites, Ground, Typed
    <2>2. ASSUME NEW p \in Places, NEW ok \in BOOLEAN, RebuildWrites(p, ok)
          PROVE  faults' \in Nat /\ faults' >= faults
      <3>1. Source(RebuiltPlace(p), rebuild.commit) \in Places /\ RebuiltPlace(p) \in Places
        BY <2>2, RebuildSource, PlacesApart DEF RebuildWrites
      <3>2. QED
        BY <1>0, <2>2, <3>1, EntryGoesOnIs, EntryEndsIs DEF RebuildWrites, Ground, Typed
    <2>3. ASSUME NEW t \in Tasks, TaskStep(t) PROVE faults' = faults \/ faults' = faults + 1
      BY <2>3 DEF TaskStep, BeginFile, SkipCheck, Transferred, VerifyFile, StoreBlob, CopyBlob,
                  FileFails, Fault, NoFault
    <2>4. ASSUME NEW j \in Jobs, JobBegins(j) \/ JobStep(j)
          PROVE  faults' = faults \/ faults' = faults + 1
      BY <2>4 DEF JobBegins, StartJob, JobStep, FilesEnd, WriteRef, WriteManifest, Fault, NoFault
    <2>5. ASSUME NEW p \in Places, Removes(p) PROVE faults' = faults \/ faults' = faults + 1
      BY <2>5 DEF Removes, RemoveFriendly, RemoveSnapshot, RemovePayload, RemoveSeen, Fault, NoFault
    <2>6. RecordTombstones => faults' = faults \/ faults' = faults + 1
      BY DEF RecordTombstones, Fault, NoFault
    <2>7. RebuildBegins => faults' = faults
      BY DEF RebuildBegins, StartRebuild
    <2>8. (\E p \in Snapshots \cup Friendly : UserTouches(p)) => faults' = faults
      BY UserTouchesIs
    <2>9. (\E p \in Places : RebuildLooks(p) \/ RebuildCleans(p)) => faults' = faults
      BY RebuildLooksIs, RebuildCleansDoes
    <2>10. QED
      BY <2>1, <2>2, <2>3, <2>4, <2>5, <2>6, <2>7, <2>8, <2>9, StepsAre, NextStageIs, BeginDeleteIs,
         NextPassIs, CrashIs DEF Ground
  <1>2. rebuilds' = rebuilds \/ rebuilds' = rebuilds + 1
    <2>1. RebuildBegins => rebuilds' = rebuilds + 1
      BY DEF RebuildBegins, StartRebuild
    <2>2. ASSUME NEW t \in Tasks, TaskStep(t) PROVE rebuilds' = rebuilds
      BY <2>2 DEF TaskStep, BeginFile, SkipCheck, Transferred, VerifyFile, StoreBlob, CopyBlob, FileFails
    <2>3. ASSUME NEW j \in Jobs, JobBegins(j) \/ JobStep(j) PROVE rebuilds' = rebuilds
      BY <2>3 DEF JobBegins, StartJob, JobStep, FilesEnd, WriteRef, WriteManifest
    <2>4. ASSUME \E t, p, ok : TaskWrites(t, p, ok) PROVE rebuilds' = rebuilds
      BY <2>4 DEF TaskWrites
    <2>5. ASSUME \E p, ok : RebuildWrites(p, ok) PROVE rebuilds' = rebuilds
      BY <2>5 DEF RebuildWrites
    <2>6. (\E p \in Places : RebuildLooks(p) \/ RebuildCleans(p)) => rebuilds' = rebuilds
      BY RebuildLooksIs, RebuildCleansDoes
    <2>7. (\E p \in Places : Removes(p)) \/ RecordTombstones => rebuilds' = rebuilds
      BY RemovesIs, TombstonesIs DEF Ground
    <2>8. (\E p \in Snapshots \cup Friendly : UserTouches(p)) => rebuilds' = rebuilds
      BY UserTouchesIs
    <2>9. QED
      BY <2>1, <2>2, <2>3, <2>4, <2>5, <2>6, <2>7, <2>8, StepsAre, NextStageIs, BeginDeleteIs,
         NextPassIs, CrashIs DEF Ground
  <1>3. QED
    BY <1>0, <1>1, <1>2

\* Whoever has removed an entry to place it again goes on.
LEMMA AnotherStays ==
    ASSUME NEW t \in Tasks, NEW p \in Snapshots, AnotherPlaces(p, t),
           faults > 0 => faults' > 0, rebuilds > 0 => rebuilds' > 0,
           \A u \in Tasks \ {t} : SnapshotOf(u) = p /\ task[u] = "snap" /\ entry[u] = "place" =>
              task'[u] = "snap" /\ entry'[u] = "place",
           rebuild.stage = "repair" /\ rebuild.at = {p} /\ entry[RebuildProc] = "place" =>
              rebuild'.stage = "repair" /\ rebuild'.at = {p} /\ entry'[RebuildProc] = "place"
    PROVE  AnotherPlaces(p, t)'
  BY DEF AnotherPlaces, AnotherWrites

\* An entry that was found correct, or was made, from the payload is good.
LEMMA PlacedIsGood ==
    ASSUME Ground, NEW p \in Snapshots, disk[Origin(p)].kind = "file",
           \/ disk' = disk /\ CacheEntryCorrect(p, Origin(p))
           \/ \E e \in Made(Origin(p)) : Put(p, e)
    PROVE  Good(p)'
  <1>1. /\ Origin(p) \in Blobs /\ Stat(Origin(p)) = disk[Origin(p)]
        /\ disk[Origin(p)].content = Sha[p[2]][p[3]] /\ p \in Places
    BY OriginIs, ShapeStat, PlacesApart, EntriesAre DEF Ground, Shape
  <1>2. CASE disk' = disk /\ CacheEntryCorrect(p, Origin(p))
    BY <1>1, <1>2 DEF CacheEntryCorrect, SameContent, Good, Origin
  <1>3. ASSUME NEW e \in Made(Origin(p)), Put(p, e) PROVE Good(p)'
    <2>1. disk'[p] = e
      BY <1>1, <1>3, MadeIsCorrect, PutIs DEF Ground, Typed, StoreTyped
    <2>2. e = Link(Origin(p)) \/ (e.kind = "file" /\ e.content = Sha[p[2]][p[3]])
      BY <1>1, MadeIsCorrect
    <2>3. QED
      BY <2>1, <2>2 DEF Good, Origin
  <1>4. QED
    BY <1>2, <1>3

Present(t) ==
    task[t] \in {"view", "done"} /\ Active(t[1]) =>
        Good(SnapshotOf(t)) \/ AnotherPlaces(SnapshotOf(t), t)

\* Steps that change neither the entry nor a writer that has removed it.
LEMMA PresentStays ==
    ASSUME Ground, Next, NEW t \in Tasks, Present(t),
           task'[t] \in {"view", "done"} /\ Active(t[1])' => task[t] \in {"view", "done"} /\ Active(t[1]),
           disk'[SnapshotOf(t)] = disk[SnapshotOf(t)],
           \A u \in Tasks \ {t} : SnapshotOf(u) = SnapshotOf(t) /\ task[u] = "snap" /\ entry[u] = "place" =>
              task'[u] = "snap" /\ entry'[u] = "place",
           rebuild.stage = "repair" /\ rebuild.at = {SnapshotOf(t)} /\ entry[RebuildProc] = "place" =>
              rebuild'.stage = "repair" /\ rebuild'.at = {SnapshotOf(t)} /\ entry'[RebuildProc] = "place"
    PROVE  Present(t)'
  <1> SUFFICES ASSUME NEW p \in Snapshots, p = SnapshotOf(t),
                      task[t] \in {"view", "done"} /\ Active(t[1])
               PROVE  Good(p)' \/ AnotherPlaces(p, t)'
    BY TaskPlaces DEF Present, SnapshotOf, Commit
  <1>1. CASE Good(p)
    BY <1>1 DEF Good, Origin
  <1>2. CASE AnotherPlaces(p, t)
    BY <1>2, CountsGrow, AnotherStays
  <1>3. QED
    BY <1>1, <1>2 DEF Present

LEMMA TaskStepDoes ==
    ASSUME Ground, NEW t \in Tasks, TaskStep(t)
    PROVE  /\ job[t[1]] = "files" /\ task[t] \notin {"snap", "view", "done", "unlinked"}
           /\ UNCHANGED <<job, entry, rebuild, manifest, ref>>
           /\ \E s \in TaskSteps \ {"view", "done"} : Goto(t, s)
           /\ disk' = disk \/ Put(BlobPath(Content(t)), NewFile(Content(t)))
           /\ \A p \in Snapshots \cup Friendly : disk'[p] = disk[p]
  <1>1. task[t] \notin {"snap", "view", "done", "unlinked"}
    BY DEF TaskStep, BeginFile, SkipCheck, Transferred, VerifyFile, StoreBlob, CopyBlob, FileFails
  <1>2. UNCHANGED <<job, entry, rebuild, manifest, ref>>
    BY DEF TaskStep, BeginFile, SkipCheck, Transferred, VerifyFile, StoreBlob, CopyBlob, FileFails, storeVars
  <1>3. \E s \in TaskSteps \ {"view", "done"} : Goto(t, s)
    BY DEF TaskStep, BeginFile, SkipCheck, Transferred, VerifyFile, StoreBlob, CopyBlob, FileFails, TaskSteps
  <1>4. disk' = disk \/ Put(BlobPath(Content(t)), NewFile(Content(t)))
    BY DEF TaskStep, BeginFile, SkipCheck, Transferred, VerifyFile, StoreBlob, CopyBlob, FileFails,
           storeVars, Put
  <1>5. \A p \in Snapshots \cup Friendly : disk'[p] = disk[p]
    BY <1>4, TaskPlaces, NewFileIs, PutIs, PlacesApart DEF Ground, Typed, StoreTyped
  <1>6. job[t[1]] = "files"
    <2>1. BeginFile(t) \/ task[t] \notin {"none"} \cup Ended
      BY DEF TaskStep, BeginFile, SkipCheck, Transferred, VerifyFile, StoreBlob, CopyBlob, FileFails, Ended
    <2>2. QED
      BY <2>1 DEF BeginFile, Running, Ground, Busy
  <1>7. QED
    BY <1>1, <1>2, <1>3, <1>4, <1>5, <1>6

LEMMA TaskStepPresent ==
    ASSUME Ground, Next, NEW u \in Tasks, TaskStep(u), NEW t \in Tasks, Present(t) PROVE Present(t)'
  <1>1. PICK s \in TaskSteps \ {"view", "done"} : Goto(u, s)
    BY TaskStepDoes
  <1>2. task'[u] = s /\ \A w \in Tasks \ {u} : task'[w] = task[w]
    BY <1>1, GotoIs DEF Ground, Typed
  <1>3. task'[t] \in {"view", "done"} /\ Active(t[1])' => task[t] \in {"view", "done"} /\ Active(t[1])
    BY <1>2, TaskStepDoes DEF Active
  <1>4. \A w \in Tasks : task[w] = "snap" /\ entry[w] = "place" => task'[w] = "snap" /\ entry'[w] = "place"
    BY <1>2, TaskStepDoes
  <1>5. disk'[SnapshotOf(t)] = disk[SnapshotOf(t)]
    BY TaskPlaces, TaskStepDoes
  <1>6. UNCHANGED <<rebuild, entry>>
    BY TaskStepDoes
  <1>7. QED
    BY <1>3, <1>4, <1>5, <1>6, PresentStays

\* Another goroutine writes.
LEMMA OtherWritesPresent ==
    ASSUME Ground, Whole, Next, NEW u \in Tasks, NEW q \in Snapshots \cup Friendly, NEW ok \in BOOLEAN,
           TaskWrites(u, q, ok), NEW t \in Tasks, t # u, Present(t)
    PROVE  Present(t)'
  <1> DEFINE p == SnapshotOf(t)
  <1>0. /\ p \in Snapshots /\ p \in Places /\ q \in Places /\ u \in Tasks \cup {RebuildProc}
        /\ RebuildProc \notin Tasks /\ Source(q, Commit(u)) \in Places
    BY TaskPlaces, TasksAre, PlacesApart, TaskSource, TaskWriteDoes DEF TaskWrites
  <1>1. \A w \in Tasks \ {u} : task'[w] = task[w]
    BY GotoIs DEF TaskWrites, Ground, Typed, TaskSteps
  <1>2. UNCHANGED <<rebuild, job>>
    BY DEF TaskWrites
  <1>3. /\ \A w \in (Tasks \cup {RebuildProc}) \ {u} : entry'[w] = entry[w]
        /\ entry'[RebuildProc] = entry[RebuildProc]
    BY <1>0, EntryGoesOnIs, EntryEndsIs DEF TaskWrites, Ground, Typed
  <1>4. task'[t] \in {"view", "done"} /\ Active(t[1])' => task[t] \in {"view", "done"} /\ Active(t[1])
    BY <1>1, <1>2 DEF Active
  <1>5. CASE q # p
    <2>1. disk'[p] = disk[p]
      BY <1>0, <1>5, TaskWriteDoes
    <2>2. ASSUME NEW w \in Tasks \ {t}, SnapshotOf(w) = p, task[w] = "snap", entry[w] = "place"
          PROVE  task'[w] = "snap" /\ entry'[w] = "place"
      <3>1. w # u
        BY <1>5, <2>2, TaskWriteDoes DEF TaskWrites
      <3>2. QED
        BY <1>1, <1>3, <2>2, <3>1
    <2>3. QED
      BY <1>2, <1>3, <1>4, <2>1, <2>2, PresentStays
  <1>6. CASE q = p
    <2>0. /\ task[u] = "snap" /\ q = SnapshotOf(u) /\ disk[Origin(p)].kind = "file"
          /\ Source(q, Commit(u)) = Origin(p) /\ Stat(Origin(p)) = disk[Origin(p)]
      BY <1>0, <1>6, TaskWriteDoes, TaskPlaces, OriginIs, ShapeStat DEF Whole, PayloadsThere, Ground
    <2>1. ASSUME EntryGoesOn(u, q, Commit(u)), UNCHANGED task PROVE Present(t)'
      <3>1. CASE disk' = disk /\ entry[u] = "compare"
        <4>1. \A w \in Tasks \ {t} : SnapshotOf(w) = p /\ task[w] = "snap" /\ entry[w] = "place" =>
                 task'[w] = "snap" /\ entry'[w] = "place"
          BY <1>3, <2>1, <3>1
        <4>2. QED
          BY <1>2, <1>3, <1>4, <3>1, <4>1, PresentStays
      <3>2. CASE entry'[u] = "place"
        <4>1. AnotherPlaces(p, t)'
          BY <1>6, <2>0, <2>1, <3>2 DEF AnotherPlaces
        <4>2. QED
          BY <4>1 DEF Present, SnapshotOf, Commit
      <3>3. QED
        BY <1>0, <2>1, <3>1, <3>2, EntryGoesOnIs DEF Ground, Typed
    <2>2. ASSUME EntryEnds(u, q, Commit(u), ok) PROVE Present(t)'
      <3>1. CASE ok
        <4>1. Good(p)'
          BY <1>0, <1>6, <2>0, <2>2, <3>1, EntryEndsIs, PlacedIsGood DEF Ground, Typed
        <4>2. QED
          BY <4>1 DEF Present, SnapshotOf, Commit
      <3>2. CASE ~ok
        <4>1. faults' > 0
          BY <1>0, <2>0, <2>2, <3>2, EntryEndsIs DEF Ground, Typed
        <4>2. AnotherPlaces(p, t)'
          BY <1>6, <2>0, <4>1 DEF AnotherPlaces, AnotherWrites
        <4>3. QED
          BY <4>2 DEF Present, SnapshotOf, Commit
      <3>3. QED
        BY <3>1, <3>2
    <2>3. QED
      BY <2>1, <2>2 DEF TaskWrites
  <1>7. QED
    BY <1>5, <1>6

\* The goroutine writes itself.
LEMMA OwnWritesPresent ==
    ASSUME Ground, Whole, Next, NEW t \in Tasks, NEW q \in Snapshots \cup Friendly, NEW ok \in BOOLEAN,
           TaskWrites(t, q, ok), Present(t)
    PROVE  Present(t)'
  <1> DEFINE p == SnapshotOf(t)
  <1>0. /\ p \in Snapshots /\ p \in Places /\ q \in Places /\ t \in Tasks \cup {RebuildProc}
        /\ RebuildProc \notin Tasks /\ Source(q, Commit(t)) \in Places
    BY TaskPlaces, TasksAre, PlacesApart, TaskSource, TaskWriteDoes DEF TaskWrites
  <1>1. /\ UNCHANGED <<rebuild, job>>
        /\ \A w \in Tasks \ {t} : task'[w] = task[w]
        /\ \A w \in (Tasks \cup {RebuildProc}) \ {t} : entry'[w] = entry[w]
        /\ entry'[RebuildProc] = entry[RebuildProc]
    BY <1>0, GotoIs, EntryGoesOnIs, EntryEndsIs DEF TaskWrites, Ground, Typed, TaskSteps
  <1>2. CASE task[t] = "view"
    <2>1. disk'[p] = disk[p] /\ Active(t[1])
      BY <1>0, <1>2, TaskWriteDoes, PlacesApart, TasksAre DEF TaskWrites, Ground, Busy, Active
    <2>2. QED
      BY <1>1, <1>2, <2>1, PresentStays
  <1>3. CASE task[t] = "snap"
    <2>0. /\ q = p /\ disk[Origin(p)].kind = "file" /\ Source(q, Commit(t)) = Origin(p)
      BY <1>0, <1>3, TaskPlaces, OriginIs DEF TaskWrites, Whole, PayloadsThere
    <2>1. CASE EntryEnds(t, q, Commit(t), ok) /\ ok
      <3>1. Good(p)'
        BY <1>0, <2>0, <2>1, EntryEndsIs, PlacedIsGood DEF Ground, Typed
      <3>2. QED
        BY <3>1 DEF Present, SnapshotOf, Commit
    <2>2. CASE ~(EntryEnds(t, q, Commit(t), ok) /\ ok)
      <3>1. task'[t] \notin {"view", "done"}
        <4>1. \/ UNCHANGED task
              \/ Goto(t, "failed") \/ Goto(t, "unlinked")
          BY <2>0, <2>2 DEF TaskWrites
        <4>2. QED
          BY <1>3, <4>1, GotoIs DEF Ground, Typed, TaskSteps
      <3>2. QED
        BY <3>1 DEF Present
    <2>3. QED
      BY <2>1, <2>2
  <1>4. QED
    BY <1>2, <1>3 DEF TaskWrites

LEMMA RebuildWritesPresent ==
    ASSUME Ground, Whole, Next, NEW q \in Places, NEW ok \in BOOLEAN,
           RebuildWrites(q, ok), NEW t \in Tasks, Present(t)
    PROVE  Present(t)'
  <1> DEFINE p == SnapshotOf(t)
             place == RebuiltPlace(q)
             v == rebuild.commit
  <1>0. /\ p \in Snapshots /\ p \in Places /\ place \in Places /\ rebuild.at = {q}
        /\ RebuildProc \in Tasks \cup {RebuildProc} /\ RebuildProc \notin Tasks
        /\ UNCHANGED <<task, job>> /\ rebuild.stage # "idle"
    BY TaskPlaces, TasksAre, PlacesApart, RebuildWriteDoes DEF RebuildWrites
  <1>1. /\ Source(place, v) \in Places
        /\ EntryGoesOn(RebuildProc, place, v) \/ EntryEnds(RebuildProc, place, v, ok)
    BY RebuildWriteDoes, PlacesApart, OriginIs
  <1>2. \A w \in Tasks : entry'[w] = entry[w]
    BY <1>0, <1>1, EntryGoesOnIs, EntryEndsIs DEF Ground, Typed
  <1>3. task'[t] \in {"view", "done"} /\ Active(t[1])' => task[t] \in {"view", "done"} /\ Active(t[1])
    BY <1>0 DEF Active
  <1>4. CASE ~(rebuild.stage = "repair" /\ q = p)
    <2>1. disk'[p] = disk[p]
      BY <1>0, <1>4, RebuildWriteDoes, PlacesApart
    <2>2. ~(rebuild.stage = "repair" /\ rebuild.at = {p})
      BY <1>0, <1>4
    <2>3. QED
      BY <1>0, <1>2, <1>3, <2>1, <2>2, PresentStays
  <1>5. CASE rebuild.stage = "repair" /\ q = p
    <2>0. /\ place = p /\ Source(place, v) = Origin(p) /\ disk[Origin(p)].kind = "file"
          /\ Stat(Origin(p)) = disk[Origin(p)]
      BY <1>0, <1>5, RebuildWriteDoes, ShapeStat, OriginIs DEF Whole, PayloadsThere, Ground
    <2>1. CASE rebuild' = rebuild /\ EntryGoesOn(RebuildProc, place, v)
      <3>1. CASE disk' = disk /\ entry[RebuildProc] = "compare"
        BY <1>0, <1>2, <1>3, <3>1, PresentStays
      <3>2. CASE entry'[RebuildProc] = "place"
        <4>1. AnotherPlaces(p, t)'
          BY <1>0, <1>5, <2>1, <3>2 DEF AnotherPlaces
        <4>2. QED
          BY <4>1 DEF Present, SnapshotOf, Commit
      <3>3. QED
        BY <1>0, <2>1, <3>1, <3>2, EntryGoesOnIs DEF Ground, Typed
    <2>2. CASE EntryEnds(RebuildProc, place, v, ok)
      <3>1. CASE ok
        <4>1. \/ disk' = disk /\ CacheEntryCorrect(place, Source(place, v))
              \/ \E e \in Made(Source(place, v)) : Put(place, e)
          <5> HIDE DEF place, v
          <5>1. QED
            BY <1>0, <1>1, <2>2, <3>1, EntryEndsIs DEF Ground, Typed
        <4>2. \/ disk' = disk /\ CacheEntryCorrect(p, Origin(p))
              \/ \E e \in Made(Origin(p)) : Put(p, e)
          <5> HIDE DEF place, v, p
          <5>1. QED
            BY <2>0, <4>1
        <4>3. Good(p)'
          BY <1>0, <2>0, <4>2, PlacedIsGood
        <4>4. QED
          BY <4>3 DEF Present, SnapshotOf, Commit
      <3>2. CASE ~ok
        <4>1. faults' > 0
          BY <1>0, <1>1, <2>0, <2>2, <3>2, EntryEndsIs DEF Ground, Typed
        <4>2. rebuilds' > 0
          BY <1>0 DEF RebuildWrites, Ground, Busy
        <4>3. AnotherPlaces(p, t)'
          BY <4>1, <4>2 DEF AnotherPlaces, AnotherWrites
        <4>4. QED
          BY <4>3 DEF Present, SnapshotOf, Commit
      <3>3. QED
        BY <3>1, <3>2
    <2>3. QED
      BY <2>1, <2>2, RebuildWriteDoes
  <1>6. QED
    BY <1>4, <1>5

LEMMA JobBeginsIs ==
    ASSUME Ground, NEW j \in Jobs, JobBegins(j)
    PROVE  /\ ~Active(j) /\ ~Deleting /\ deletion' = deletion
           /\ UNCHANGED <<disk, ref, manifest, supports, linkFailed, entry, faults, rebuilds>>
           /\ job' = [job EXCEPT ![j] = "files"]
           /\ job'[j] = "files" /\ \A i \in Jobs \ {j} : job'[i] = job[i]
           /\ \A t \in Tasks : task'[t] = IF t[1] = j THEN "none" ELSE task[t]
           /\ rebuild'.stage = rebuild.stage /\ rebuild'.at = rebuild.at
           /\ rebuild'.todo = rebuild.todo /\ rebuild'.commit = rebuild.commit
           /\ (rebuild'.alone => rebuild.stage = "idle")
  <1>1. /\ ~Active(j) /\ ~Deleting /\ deletion' = deletion
        /\ UNCHANGED <<disk, ref, manifest, supports, linkFailed, entry, faults, rebuilds>>
        /\ job' = [job EXCEPT ![j] = "files"]
        /\ task' = [t \in Tasks |-> IF t[1] = j THEN "none" ELSE task[t]]
        /\ rebuild' = [rebuild EXCEPT !.alone = @ /\ rebuild.stage = "idle"]
    BY DEF JobBegins, StartJob, storeVars
  <1>2. job'[j] = "files" /\ \A i \in Jobs \ {j} : job'[i] = job[i]
    BY <1>1 DEF Ground, Typed, JobsTyped
  <1>3. /\ rebuild'.stage = rebuild.stage /\ rebuild'.at = rebuild.at
        /\ rebuild'.todo = rebuild.todo /\ rebuild'.commit = rebuild.commit
        /\ (rebuild'.alone => rebuild.stage = "idle")
    BY <1>1, JoinedIs DEF Ground, Typed, JobsTyped
  <1>4. QED
    BY <1>1, <1>2, <1>3

LEMMA JobBeginsPresent ==
    ASSUME Ground, Next, NEW j \in Jobs, JobBegins(j), NEW t \in Tasks, Present(t) PROVE Present(t)'
  <1>1. task'[t] \in {"view", "done"} /\ Active(t[1])' => task[t] \in {"view", "done"} /\ Active(t[1])
    BY JobBeginsIs, TasksAre DEF Active
  <1>2. \A u \in Tasks : task[u] = "snap" => task'[u] = "snap"
    <2> SUFFICES ASSUME NEW u \in Tasks, task[u] = "snap" PROVE u[1] # j
      BY JobBeginsIs
    <2>1. u \in Running
      BY DEF Running, Ended
    <2>2. QED
      BY <2>1, JobBeginsIs DEF Ground, Busy, Active
  <1>3. entry' = entry /\ disk' = disk /\ rebuild'.stage = rebuild.stage /\ rebuild'.at = rebuild.at
    BY JobBeginsIs
  <1>4. QED
    BY <1>1, <1>2, <1>3, PresentStays

LEMMA JobStepIs ==
    ASSUME Ground, NEW j \in Jobs, JobStep(j)
    PROVE  /\ Active(j) /\ UNCHANGED <<disk, task, entry, rebuild, deletion>>
           /\ \A i \in Jobs \ {j} : job'[i] = job[i]
           /\ job'[j] = "ref" => FilesEnd(j)
  <1>1. Active(j) /\ UNCHANGED <<disk, task, entry, rebuild, deletion>>
    BY DEF JobStep, Frame, deleteVars, FilesEnd, WriteRef, WriteManifest, storeVars, Active
  <1>2. \A i \in Jobs \ {j} : job'[i] = job[i]
    BY DEF JobStep, FilesEnd, WriteRef, WriteManifest, Ground, Typed, JobsTyped
  <1>3. job'[j] = "ref" => FilesEnd(j)
    BY DEF JobStep, WriteRef, WriteManifest, Ground, Typed, JobsTyped
  <1>4. QED
    BY <1>1, <1>2, <1>3

LEMMA QuietPresent ==
    ASSUME Ground, Next, NEW t \in Tasks, Present(t),
           \/ \E j \in Jobs : JobStep(j)
           \/ RebuildBegins \/ NextStage
           \/ \E q \in Places : RebuildLooks(q) \/ RebuildCleans(q)
    PROVE  Present(t)'
  <1> DEFINE p == SnapshotOf(t)
  <1>1. UNCHANGED <<task, entry>> /\ disk'[p] = disk[p]
    <2>1. CASE RebuildBegins
      BY <2>1 DEF RebuildBegins, StartRebuild, storeVars
    <2>2. CASE \E q \in Places : RebuildCleans(q)
      BY <2>2, RebuildCleansDoes, TaskPlaces, PlacesApart
    <2>3. QED
      BY <2>1, <2>2, JobStepIs, NextStageIs, RebuildLooksIs
  <1>2. Active(t[1])' => Active(t[1])
    <2>1. CASE \E j \in Jobs : JobStep(j)
      BY <2>1, JobStepIs, TasksAre DEF Active
    <2>2. CASE ~\E j \in Jobs : JobStep(j)
      <3>1. RebuildBegins => job' = job
        BY DEF RebuildBegins, StartRebuild
      <3>2. job' = job
        BY <2>2, <3>1, NextStageIs, RebuildLooksIs, RebuildCleansDoes
      <3>3. QED
        BY <3>2 DEF Active
    <2>3. QED
      BY <2>1, <2>2
  <1>3. rebuild.stage = "repair" /\ rebuild.at = {p} => rebuild' = rebuild
    <2>1. RebuildBegins => rebuild.stage = "idle"
      BY DEF RebuildBegins, StartRebuild
    <2>2. NextStage => rebuild.at = {}
      BY DEF NextStage, Ground, Busy
    <2>3. QED
      BY <2>1, <2>2, JobStepIs, RebuildLooksIs, RebuildCleansDoes
  <1>4. QED
    BY <1>1, <1>2, <1>3, PresentStays

\* No job is at work.
LEMMA StoppedIs ==
    ASSUME Ground,
           \/ \E selected \in Selections : BeginDelete(selected)
           \/ RecordTombstones \/ NextPass \/ Crash
           \/ \E p \in Places : Removes(p)
           \/ \E p \in Snapshots \cup Friendly : UserTouches(p)
    PROVE  \A j \in Jobs : ~Active(j)'
  <1>1. CASE Crash
    BY <1>1, CrashIs
  <1>2. CASE ~Crash
    <2>1. job' = job /\ \A j \in Jobs : ~Active(j)
      BY <1>2, BeginDeleteIs, TombstonesIs, NextPassIs, RemovesIs, UserTouchesIs, DeletionAlone
         DEF Ground, Publishing
    <2>2. QED
      BY <2>1 DEF Active
  <1>3. QED
    BY <1>1, <1>2

LEMMA NextPresent ==
    ASSUME Ground, Whole, Next, NEW t \in Tasks, Present(t) PROVE Present(t)'
  <1>1. ASSUME NEW u \in Tasks, NEW q \in Snapshots \cup Friendly, NEW ok \in BOOLEAN, TaskWrites(u, q, ok)
        PROVE  Present(t)'
    BY <1>1, OtherWritesPresent, OwnWritesPresent
  <1>2. ASSUME NEW q \in Places, NEW ok \in BOOLEAN, RebuildWrites(q, ok) PROVE Present(t)'
    BY <1>2, RebuildWritesPresent
  <1>3. ASSUME \A j \in Jobs : ~Active(j)' PROVE Present(t)'
    BY <1>3, TasksAre DEF Present
  <1>4. QED
    BY <1>1, <1>2, <1>3, StepsAre, JobBeginsPresent, QuietPresent, TaskStepPresent, StoppedIs

FilesStored(j) == job[j] = "ref" => \A t \in JobTasks(j) : task[t] \in {"done", "unlinked"}

LEMMA NextFilesStored ==
    ASSUME Ground, Next, NEW j \in Jobs, FilesStored(j) PROVE FilesStored(j)'
  <1> USE TasksAre DEF JobTasks
  <1>1. ASSUME NEW i \in Jobs, JobStep(i) PROVE FilesStored(j)'
    <2>1. CASE i = j
      <3>1. ASSUME FilesEnd(j), job'[j] = "ref" PROVE \A t \in JobTasks(j) : task[t] \in {"done", "unlinked"}
        <4>1. /\ \A t \in JobTasks(j) : task[t] # "failed"
              /\ \A t \in JobTasks(j) : task[t] \in Ended
          BY <3>1 DEF FilesEnd, Ground, Typed, JobsTyped
        <4>2. QED
          BY <4>1 DEF Ended
      <3>2. QED
        BY <1>1, <2>1, <3>1, JobStepIs DEF FilesStored
    <2>2. CASE i # j
      BY <1>1, <2>2, JobStepIs DEF FilesStored
    <2>3. QED
      BY <2>1, <2>2
  <1>2. ASSUME NEW i \in Jobs, JobBegins(i) PROVE FilesStored(j)'
    BY <1>2, JobBeginsIs DEF FilesStored
  <1>3. ASSUME NEW u \in Tasks, job[u[1]] = "files", job' = job,
               \A t \in Tasks \ {u} : task'[t] = task[t]
        PROVE  FilesStored(j)'
    <2>1. \A t \in JobTasks(j) : job[j] = "ref" => t # u
      BY <1>3
    <2>2. QED
      BY <1>3, <2>1 DEF FilesStored
  <1>4. ASSUME NEW u \in Tasks, TaskStep(u) PROVE FilesStored(j)'
    BY <1>3, <1>4, TaskStepDoes, GotoIs DEF Ground, Typed
  <1>5. ASSUME NEW u \in Tasks, NEW q \in Snapshots \cup Friendly, NEW ok \in BOOLEAN, TaskWrites(u, q, ok)
        PROVE  FilesStored(j)'
    <2>1. \A t \in Tasks \ {u} : task'[t] = task[t]
      BY <1>5, GotoIs DEF TaskWrites, Ground, Typed, TaskSteps
    <2>2. job[u[1]] = "files" /\ job' = job
      BY <1>5, TaskWriteDoes DEF TaskWrites, Ground, Busy
    <2>3. QED
      BY <1>3, <2>1, <2>2
  <1>6. ASSUME UNCHANGED <<job, task>> PROVE FilesStored(j)'
    BY <1>6 DEF FilesStored
  <1>7. ASSUME \A i \in Jobs : ~Active(i)' PROVE FilesStored(j)'
    BY <1>7 DEF FilesStored, Active
  <1>8. RebuildBegins => UNCHANGED <<job, task>>
    BY DEF RebuildBegins, StartRebuild
  <1>9. (\E p \in Places, ok \in BOOLEAN : RebuildWrites(p, ok)) => UNCHANGED <<job, task>>
    BY DEF RebuildWrites
  <1>10. NextStage \/ (\E p \in Places : RebuildLooks(p) \/ RebuildCleans(p)) => UNCHANGED <<job, task>>
    BY NextStageIs, RebuildLooksIs, RebuildCleansDoes
  <1>11. QED
    BY <1>1, <1>2, <1>4, <1>5, <1>6, <1>7, <1>8, <1>9, <1>10, StepsAre, StoppedIs

LEMMA NextStored == ASSUME Ground, Whole, Stored, Next PROVE Stored'
  <1>1. \A t \in Tasks : Present(t)'
    BY NextPresent DEF Stored, Present
  <1>2. \A j \in Jobs : FilesStored(j)'
    BY NextFilesStored DEF Stored, FilesStored
  <1>3. QED
    BY <1>1, <1>2 DEF Stored, Present, FilesStored, JobTasks

LEMMA InitStored == Init => Stored
  BY DEF Init, PublishInit, Stored, JobTasks

LEMMA GoodIsReadable ==
    ASSUME Ground, Whole, NEW t \in Tasks, Good(SnapshotOf(t))
    PROVE  Readable(disk, SnapshotOf(t), Content(t))
  <1> DEFINE p == SnapshotOf(t)
  <1>1. /\ p \in Snapshots /\ Origin(p) = BlobPath(Content(t)) /\ Origin(p) \in Blobs
        /\ Sha[p[2]][p[3]] = Content(t) /\ Origin(p)[2] = Content(t)
    BY TaskPlaces, OriginIs, PlacesAre DEF Content
  <1>2. CASE disk[p] = Link(Origin(p))
    <2>1. disk[p].kind = "link"
      BY <1>2 DEF Link
    <2>2. Stat(p) = disk[Origin(p)] /\ disk[Origin(p)].kind = "file"
      BY <1>1, <2>1, ShapeStat DEF Ground, Whole, LinksLead
    <2>3. disk[Origin(p)].content = Content(t)
      BY <1>1, <2>2, EntriesAre DEF Ground, Shape
    <2>4. QED
      BY <2>2, <2>3 DEF Readable, Stat
  <1>3. CASE disk[p].kind = "file" /\ disk[p].content = Sha[p[2]][p[3]]
    <2>1. Stat(p) = disk[p]
      BY <1>1, <1>3, ShapeStat DEF Ground
    <2>2. QED
      BY <1>1, <1>3, <2>1 DEF Readable, Stat
  <1>4. QED
    BY <1>2, <1>3 DEF Good

---------------------------------------------------------------------------
(* What a rebuild that ran alone has made *)

\* The friendly entry of the path shows the entry.
Shows(p) == CacheEntryCorrect(FriendlyPath(p[3]), p)

Repaired ==
    \A p \in Repairs(rebuild.commit) :
       p \in Snapshots /\ disk[Origin(p)].kind = "file" =>
         Exists(p) \/ (rebuild.stage = "repair" /\ p \in rebuild.todo)
Walked ==
    rebuild.stage \in {"walk", "clean"} =>
      \A p \in Snapshots : p[2] = rebuild.commit /\ Exists(p) =>
         Shows(p) \/ (rebuild.stage = "walk" /\ p \in rebuild.todo)
Cleaned == rebuild.stage = "clean" => \A n \in rebuild.at : Dangles(n)

Rebuilt ==
    rebuild.alone /\ rebuild.stage # "idle" =>
      /\ \A j \in Jobs : ~Active(j)
      /\ ~rebuild.errors => Repaired /\ Walked
      /\ Cleaned

LEMMA StatStays ==
    ASSUME Shape, Shape', \A q \in Blobs \cup Snapshots : disk'[q] = disk[q]
    PROVE  \A q \in Blobs \cup Snapshots : Stat(q)' = Stat(q)
  <1>1. \A b \in Blobs : disk'[b].kind # "link"
    BY EntriesAre DEF Shape
  <1>2. \A p \in Snapshots : disk'[p].kind = "link" => disk'[p] = Link(Origin(p))
    BY DEF Shape, Origin
  <1>3. /\ \A b \in Blobs : StatIn(disk', b) = disk'[b]
        /\ \A p \in Snapshots : StatIn(disk', p) = IF disk'[p].kind = "link" THEN disk'[Origin(p)] ELSE disk'[p]
    BY <1>1, <1>2, ShapeStatIn
  <1>4. \A q \in Blobs \cup Snapshots : Stat(q)' = StatIn(disk', q)
    BY DEF Stat
  <1>5. QED
    BY <1>3, <1>4, ShapeStat, OriginIs

LEMMA NextWalkIs ==
    ASSUME NEW p \in Snapshots, p[2] = rebuild.commit, NextWalk(p)
    PROVE  \/ rebuild' = [rebuild EXCEPT !.todo = {}, !.errors = TRUE]
           \/ Passed(p, FALSE)
           \/ Passed(p, TRUE) /\ Shows(p)
           \/ Handed(p)
  <1> DEFINE name == FriendlyPath(p[3])
  <1>1. Source(name, rebuild.commit) = p
    <2>1. name \notin Snapshots /\ name[2] = p[3]
      BY PlacesAre, PlacesApart
    <2>2. QED
      BY <2>1, PlacesAre DEF Source
  <1>2. CASE ~Exists(p)
    BY <1>2 DEF NextWalk
  <1>3. CASE Exists(p) /\ CannotCompare(name, p)
    <2>1. name \in Places /\ ~CacheEntryCorrect(name, p)
      BY <1>3, PlacesAre, PlacesApart DEF CannotCompare, CacheEntryCorrect, SameContent, Link
    <2>2. QED
      BY <1>1, <1>3, <2>1 DEF NextWalk
  <1>4. CASE Exists(p) /\ CacheEntryCorrect(name, p)
    <2>1. ~CannotCompare(name, p)
      BY <1>4 DEF CannotCompare, CacheEntryCorrect, SameContent, Link
    <2>2. QED
      BY <1>1, <1>4, <2>1 DEF NextWalk, Shows
  <1>5. CASE Exists(p) /\ ~CannotCompare(name, p) /\ ~CacheEntryCorrect(name, p)
    BY <1>1, <1>5 DEF NextWalk
  <1>6. QED
    BY <1>2, <1>3, <1>4, <1>5

LEMMA NextRepairIs ==
    ASSUME Ground, NEW p \in Snapshots, NextRepair(p)
    PROVE  Handed(p) \/ (Passed(p, TRUE) /\ (disk[Origin(p)].kind = "file" => Exists(p)))
  BY OriginIs DEF NextRepair, Repairable, NeedsRepair

LEMMA NextCleanLooks ==
    ASSUME Ground, NEW p, NextClean(p), rebuild.at = {}
    PROVE  rebuild'.at = {} \/ (rebuild'.at = {p} /\ Dangles(p))
  <1>1. Passed(p, TRUE) => rebuild'.at = {}
    BY PassedIs DEF Ground, Typed, JobsTyped
  <1>2. Handed(p) => rebuild'.at = {p}
    BY DEF Handed, Ground, Typed, JobsTyped, Rebuilds
  <1>3. QED
    BY <1>1, <1>2 DEF NextClean, IsOrphan

LEMMA RebuildLooksRebuilt ==
    ASSUME Ground, Rebuilt, NEW p \in Places, RebuildLooks(p) PROVE Rebuilt'
  <1> SUFFICES ASSUME rebuild'.alone, rebuild'.stage # "idle" PROVE Rebuilt'
    BY DEF Rebuilt
  <1>1. /\ disk' = disk /\ manifest' = manifest /\ job' = job
        /\ rebuild'.stage = rebuild.stage /\ rebuild'.commit = rebuild.commit /\ rebuild.alone
        /\ rebuild.at = {} /\ p \in rebuild.todo /\ rebuild.stage # "idle"
        /\ rebuild \in Rebuilds
    BY RebuildLooksIs DEF Ground, Typed, JobsTyped
  <1>2. /\ \A q : (Exists(q)' <=> Exists(q)) /\ (Dangles(q)' <=> Dangles(q)) /\ (Shows(q)' <=> Shows(q))
        /\ \A q : Origin(q)' = Origin(q)
        /\ \A v : Repairs(v)' = Repairs(v)
        /\ \A j : Active(j)' <=> Active(j)
    BY <1>1 DEF Exists, Dangles, Shows, CacheEntryCorrect, Stat, Origin, Repairs, IsDeleted, Active
  <1>3. ASSUME ~rebuild'.errors PROVE Repaired' /\ Walked'
    <2>1. ~rebuild.errors
      BY <1>3, RebuildLooksIs
    <2>2. Repaired /\ Walked
      BY <1>1, <2>1 DEF Rebuilt
    <2>3. CASE rebuild'.todo = rebuild.todo
      BY <1>1, <1>2, <2>2, <2>3 DEF Repaired, Walked
    <2>4. CASE rebuild'.todo = rebuild.todo \ {p} /\ rebuild'.todo # rebuild.todo
      <3>1. rebuild.stage \in {"repair", "walk"} => p \in Snapshots /\ p[2] = rebuild.commit
        BY <1>1 DEF Ground, Busy
      <3>2. /\ Handed(p) => rebuild'.todo = rebuild.todo
            /\ Passed(p, FALSE) => rebuild'.errors
            /\ rebuild' = [rebuild EXCEPT !.todo = {}, !.errors = TRUE] => rebuild'.errors
        BY <1>1, HandedIs, PassedIs, WalkEndIs
      <3>3. rebuild.stage = "repair" => (disk[Origin(p)].kind = "file" => Exists(p))
        <4> SUFFICES ASSUME rebuild.stage = "repair" PROVE disk[Origin(p)].kind = "file" => Exists(p)
          OBVIOUS
        <4>1. NextRepair(p)
          BY DEF RebuildLooks, NextWalk, NextClean
        <4>2. QED
          BY <2>4, <3>1, <3>2, <4>1, NextRepairIs
      <3>4. rebuild.stage = "walk" => Shows(p)
        <4> SUFFICES ASSUME rebuild.stage = "walk" PROVE Shows(p)
          OBVIOUS
        <4>1. NextWalk(p)
          BY DEF RebuildLooks, NextRepair, NextClean
        <4>2. QED
          BY <1>3, <2>4, <3>1, <3>2, <4>1, NextWalkIs
      <3>5. Repaired'
        BY <1>1, <1>2, <2>2, <2>4, <3>3 DEF Repaired
      <3>6. Walked'
        BY <1>1, <1>2, <2>2, <2>4, <3>4 DEF Walked
      <3>7. QED
        BY <3>5, <3>6
    <2>5. QED
      BY <1>3, <2>3, <2>4, RebuildLooksIs
  <1>4. Cleaned'
    <2> SUFFICES ASSUME rebuild.stage = "clean" PROVE \A n \in rebuild'.at : Dangles(n)
      BY <1>1, <1>2 DEF Cleaned
    <2>1. NextClean(p)
      BY DEF RebuildLooks, NextRepair, NextWalk
    <2>2. QED
      BY <1>1, <2>1, NextCleanLooks
  <1>5. \A j \in Jobs : ~Active(j)'
    BY <1>1, <1>2 DEF Rebuilt
  <1>6. QED
    BY <1>3, <1>4, <1>5 DEF Rebuilt

LEMMA RebuildWritesRebuilt ==
    ASSUME Ground, Ground', Rebuilt, NEW q \in Places, NEW ok \in BOOLEAN, RebuildWrites(q, ok)
    PROVE  Rebuilt'
  <1> SUFFICES ASSUME rebuild'.alone, rebuild'.stage # "idle" PROVE Rebuilt'
    BY DEF Rebuilt
  <1> DEFINE place == RebuiltPlace(q)
             v == rebuild.commit
  <1>1. /\ manifest' = manifest /\ job' = job /\ q \in Snapshots /\ q[2] = v /\ place \in Places
        /\ rebuild'.stage = rebuild.stage /\ rebuild'.commit = v /\ rebuild.alone
        /\ rebuild.stage # "idle" /\ rebuild.at = {q} /\ q \in rebuild.todo
        /\ q \in Places
        /\ \A u \in Places \ {place} : disk'[u] = disk[u]
    BY RebuildWriteDoes DEF RebuildWrites, Ground, Busy
  <1>2. /\ \A u : Origin(u)' = Origin(u)
        /\ \A w : Repairs(w)' = Repairs(w)
        /\ \A j : Active(j)' <=> Active(j)
    BY <1>1 DEF Origin, Repairs, IsDeleted, Active
  <1>3. /\ rebuild' = rebuild \/ rebuild'.todo = rebuild.todo \ {q}
        /\ ~rebuild'.errors => ~rebuild.errors
        /\ ~rebuild'.errors /\ rebuild' # rebuild =>
             \/ disk' = disk /\ CacheEntryCorrect(place, Source(place, v))
             \/ \E e \in Made(Source(place, v)) : Put(place, e)
    <2>1. CASE rebuild' = rebuild
      BY <2>1
    <2>2. CASE /\ rebuild'.todo = rebuild.todo \ {q}
               /\ (~rebuild'.errors => ok /\ ~rebuild.errors)
               /\ EntryEnds(RebuildProc, place, v, ok)
      <3>1. Source(place, v) \in Places
        BY <1>1, RebuildWriteDoes, OriginIs
      <3> HIDE DEF place, v
      <3>2. QED
        BY <1>1, <2>2, <3>1, EntryEndsIs DEF Ground, Typed
    <2>3. QED
      BY <2>1, <2>2, RebuildWriteDoes
  <1>4. ASSUME rebuild' # rebuild, ~rebuild'.errors PROVE disk'[place] # Absent
    <2>1. CASE disk' = disk /\ CacheEntryCorrect(place, Source(place, v))
      BY <2>1, EntriesAre DEF CacheEntryCorrect, SameContent, Link
    <2>2. ASSUME NEW e \in Made(Source(place, v)), Put(place, e) PROVE disk'[place] # Absent
      <3> HIDE DEF place, v
      <3>1. QED
        BY <1>1, <2>2, MadeIsCorrect, PutIs DEF Ground, Typed, StoreTyped
    <2>3. QED
      BY <1>3, <1>4, <2>1, <2>2
  <1>5. \A e \in Entries : e.kind # "absent" <=> e # Absent
    BY EntriesAre
  <1>6. ASSUME rebuild.stage = "repair", ~rebuild'.errors PROVE Repaired' /\ Walked'
    <2>1. place = q /\ rebuild'.stage = "repair"
      BY <1>1, <1>6, RebuildWriteDoes
    <2>2. Repaired
      BY <1>1, <1>3, <1>6 DEF Rebuilt
    <2>3. ASSUME NEW p \in Repairs(v), p \in Snapshots, disk'[Origin(p)].kind = "file"
          PROVE  Exists(p)' \/ p \in rebuild'.todo
      <3>1. p \in Places /\ Origin(p) \in Places /\ Origin(p) # q
        BY <1>1, <2>3, OriginIs, PlacesApart
      <3>2. disk[Origin(p)].kind = "file"
        BY <1>1, <2>1, <2>3, <3>1
      <3>3. CASE p # q
        <4>1. Exists(p) \/ p \in rebuild.todo
          BY <1>6, <2>2, <2>3, <3>2 DEF Repaired
        <4>2. disk'[p] = disk[p]
          BY <1>1, <2>1, <3>1, <3>3
        <4>3. QED
          BY <1>3, <3>3, <4>1, <4>2 DEF Exists
      <3>4. CASE p = q
        BY <1>1, <1>3, <1>4, <1>5, <1>6, <2>1, <3>4 DEF Exists, Ground, Typed, StoreTyped
      <3>5. QED
        BY <3>3, <3>4
    <2>4. Repaired'
      BY <1>1, <1>2, <2>1, <2>3 DEF Repaired
    <2>5. Walked'
      BY <2>1 DEF Walked
    <2>6. QED
      BY <2>4, <2>5
  <1>7. ASSUME rebuild.stage = "walk", ~rebuild'.errors PROVE Repaired' /\ Walked'
    <2>1. /\ place = FriendlyPath(q[3]) /\ place \in Friendly /\ Source(place, v) = q
          /\ rebuild'.stage = "walk"
      BY <1>1, <1>7, RebuildWriteDoes
    <2>2. \A u \in Blobs \cup Snapshots : disk'[u] = disk[u]
      BY <1>1, <2>1, PlacesApart
    <2>3. \A u \in Blobs \cup Snapshots : Stat(u)' = Stat(u)
      BY <2>2, StatStays DEF Ground
    <2>4. Repaired /\ Walked
      BY <1>1, <1>3, <1>7 DEF Rebuilt
    <2>5. Repaired'
      BY <1>1, <1>2, <1>7, <2>1, <2>2, <2>4, OriginIs DEF Repaired, Exists
    <2>6. ASSUME NEW p \in Snapshots, p[2] = v, Exists(p)' PROVE Shows(p)' \/ p \in rebuild'.todo
      <3>1. Exists(p)
        BY <2>2, <2>6 DEF Exists
      <3>2. Shows(p) \/ p \in rebuild.todo
        BY <1>7, <2>4, <2>6, <3>1 DEF Walked
      <3>3. CASE p # q
        <4>1. FriendlyPath(p[3]) \in Places /\ FriendlyPath(p[3]) # place
          <5>1. p[3] # q[3]
            BY <1>1, <2>6, <3>3, PlacesAre
          <5>2. FriendlyPath(p[3])[2] = p[3] /\ FriendlyPath(q[3])[2] = q[3] /\ FriendlyPath(p[3]) \in Friendly
            BY <1>1, PlacesAre
          <5>3. QED
            BY <2>1, <5>1, <5>2, PlacesApart
        <4>2. disk'[FriendlyPath(p[3])] = disk[FriendlyPath(p[3])]
          BY <1>1, <4>1
        <4>3. Shows(p) => Shows(p)'
          BY <2>3, <4>2 DEF Shows, CacheEntryCorrect
        <4>4. QED
          BY <1>3, <3>2, <3>3, <4>3
      <3>4. CASE p = q /\ rebuild' = rebuild
        BY <1>1, <3>4
      <3>5. CASE p = q /\ rebuild' # rebuild
        <4>1. CASE disk' = disk /\ CacheEntryCorrect(place, q)
          BY <2>1, <2>3, <3>5, <4>1 DEF Shows, CacheEntryCorrect
        <4>2. ASSUME NEW e \in Made(q), Put(place, e) PROVE Shows(q)'
          <5>1. disk'[place] = e
            <6> HIDE DEF place
            <6>1. QED
              BY <1>1, <4>2, MadeIsCorrect, PutIs DEF Ground, Typed, StoreTyped
          <5>2. e = Link(q) \/ SameContent(e, Stat(q))
            BY MadeIsCorrect DEF SameContent
          <5>3. QED
            BY <1>1, <2>1, <2>3, <5>1, <5>2 DEF Shows, CacheEntryCorrect
        <4>3. QED
          BY <1>3, <1>7, <2>1, <3>5, <4>1, <4>2
      <3>6. QED
        BY <3>3, <3>4, <3>5
    <2>7. Walked'
      BY <1>1, <2>1, <2>6 DEF Walked
    <2>8. QED
      BY <2>5, <2>7
  <1>8. Cleaned'
    BY <1>1 DEF Cleaned, RebuildWrites
  <1>9. \A j \in Jobs : ~Active(j)'
    BY <1>1, <1>2 DEF Rebuilt
  <1>10. QED
    BY <1>6, <1>7, <1>8, <1>9 DEF Rebuilt, RebuildWrites

\* An entry of a version that shows is no link to nowhere.
LEMMA ShownIsNoOrphan ==
    ASSUME Ground, Whole, NEW p \in Snapshots, Exists(p), Shows(p)
    PROVE  ~Dangles(FriendlyPath(p[3]))
  <1> DEFINE n == FriendlyPath(p[3])
  <1>1. disk[p].kind = "file" \/ (disk[p] = Link(Origin(p)) /\ disk[Origin(p)].kind = "file")
    BY PlacesApart, EntriesAre DEF Exists, Ground, Typed, StoreTyped, Shape, Whole, LinksLead
  <1>2. CASE disk[n] = Link(p)
    <2>1. disk[n].kind = "link" /\ disk[n].to = p
      BY <1>2 DEF Link
    <2>2. Stat(n).kind = "file"
      <3>1. CASE disk[p].kind = "file"
        BY <2>1, <3>1, StatIs DEF Stat
      <3>2. CASE disk[p] = Link(Origin(p)) /\ disk[Origin(p)].kind = "file"
        <4>1. disk[p].kind = "link" /\ disk[p].to = Origin(p)
          BY <3>2 DEF Link
        <4>2. QED
          BY <2>1, <3>2, <4>1, StatIs DEF Stat
      <3>3. QED
        BY <1>1, <3>1, <3>2
    <2>3. QED
      BY <2>2 DEF Dangles
  <1>3. CASE SameContent(disk[n], Stat(p))
    BY <1>3 DEF SameContent, Dangles
  <1>4. QED
    BY <1>2, <1>3 DEF Shows, CacheEntryCorrect

LEMMA RebuildCleansRebuilt ==
    ASSUME Ground, Ground', Whole, Rebuilt, NEW n \in Places, RebuildCleans(n) PROVE Rebuilt'
  <1> SUFFICES ASSUME rebuild'.alone PROVE Rebuilt'
    BY DEF Rebuilt
  <1>1. /\ n \in Friendly /\ rebuild.stage = "clean" /\ rebuild.at = {n} /\ rebuild.alone
        /\ \A q \in Places \ {n} : disk'[q] = disk[q]
        /\ rebuild'.stage = "clean" /\ rebuild'.at = {} /\ rebuild'.commit = rebuild.commit
        /\ (~rebuild'.errors => ~rebuild.errors) /\ manifest' = manifest /\ job' = job
    BY RebuildCleansDoes
  <1>2. \A q \in Blobs \cup Snapshots : disk'[q] = disk[q]
    BY <1>1, PlacesApart
  <1>3. \A q \in Blobs \cup Snapshots : Stat(q)' = Stat(q)
    BY <1>2, StatStays DEF Ground
  <1>4. /\ \A u : Origin(u)' = Origin(u)
        /\ \A w : Repairs(w)' = Repairs(w)
        /\ \A j : Active(j)' <=> Active(j)
    BY <1>1 DEF Origin, Repairs, IsDeleted, Active
  <1>5. Dangles(n)
    BY <1>1 DEF Rebuilt, Cleaned
  <1>6. ASSUME ~rebuild'.errors PROVE Repaired' /\ Walked'
    <2>1. Repaired /\ Walked
      BY <1>1, <1>6 DEF Rebuilt
    <2>2. Repaired'
      BY <1>1, <1>2, <1>4, <2>1, OriginIs DEF Repaired, Exists
    <2>3. ASSUME NEW p \in Snapshots, p[2] = rebuild.commit, Exists(p)' PROVE Shows(p)'
      <3>1. Exists(p)
        BY <1>2, <2>3 DEF Exists
      <3>2. Shows(p)
        BY <1>1, <2>1, <2>3, <3>1 DEF Walked
      <3>3. FriendlyPath(p[3]) # n /\ FriendlyPath(p[3]) \in Places
        BY <1>5, <3>1, <3>2, ShownIsNoOrphan, PlacesAre, PlacesApart
      <3>4. QED
        BY <1>1, <1>3, <3>2, <3>3 DEF Shows, CacheEntryCorrect
    <2>4. Walked'
      BY <1>1, <2>3 DEF Walked
    <2>5. QED
      BY <2>2, <2>4
  <1>7. Cleaned'
    BY <1>1 DEF Cleaned
  <1>8. \A j \in Jobs : ~Active(j)'
    BY <1>1, <1>4 DEF Rebuilt
  <1>9. QED
    BY <1>6, <1>7, <1>8 DEF Rebuilt

LEMMA NextStageRebuilt == ASSUME Ground, Rebuilt, NextStage PROVE Rebuilt'
  <1> SUFFICES ASSUME rebuild'.alone, rebuild'.stage # "idle" PROVE Rebuilt'
    BY DEF Rebuilt
  <1>1. /\ rebuild.todo = {} /\ rebuild'.at = {} /\ disk' = disk /\ manifest' = manifest /\ job' = job
        /\ rebuild.alone /\ rebuild'.errors = rebuild.errors /\ rebuild'.commit = rebuild.commit
        /\ \/ rebuild.stage = "repair" /\ rebuild'.stage = "walk"
              /\ rebuild'.todo = {p \in Snapshots : p[2] = rebuild.commit /\ Exists(p)}
           \/ rebuild.stage = "walk" /\ rebuild'.stage = "clean"
    BY NextStageIs, IdleIs
  <1>2. /\ \A q : (Exists(q)' <=> Exists(q)) /\ (Shows(q)' <=> Shows(q))
        /\ \A q : Origin(q)' = Origin(q)
        /\ \A w : Repairs(w)' = Repairs(w)
        /\ \A j : Active(j)' <=> Active(j)
    BY <1>1 DEF Exists, Shows, CacheEntryCorrect, Stat, Origin, Repairs, IsDeleted, Active
  <1>3. ASSUME ~rebuild'.errors PROVE Repaired' /\ Walked'
    <2>1. Repaired /\ Walked
      BY <1>1, <1>3 DEF Rebuilt
    <2>2. Repaired'
      BY <1>1, <1>2, <2>1 DEF Repaired
    <2>3. Walked'
      BY <1>1, <1>2, <2>1 DEF Walked
    <2>4. QED
      BY <2>2, <2>3
  <1>4. QED
    BY <1>1, <1>2, <1>3 DEF Rebuilt, Cleaned

LEMMA RebuildBeginsIs ==
    ASSUME Ground, RebuildBegins
    PROVE  /\ UNCHANGED <<disk, manifest, job>> /\ rebuild'.at = {} /\ rebuild'.stage = "repair"
           /\ rebuild'.commit \in Versions /\ rebuild'.todo = Repairs(rebuild'.commit)
           /\ (rebuild'.alone => \A j \in Jobs : ~Active(j))
  <1>1. UNCHANGED <<disk, manifest, job>>
    BY DEF RebuildBegins, StartRebuild, storeVars
  <1>2. PICK v \in RebuildCommits :
           rebuild' = [Idle EXCEPT !.stage = "repair", !.commit = v, !.todo = Repairs(v),
                                   !.alone = \A j \in Jobs : ~Active(j)]
    BY DEF RebuildBegins, StartRebuild
  <1>3. v \in Versions
    BY DEF RebuildCommits, SavedVersions, Ground, Typed, StoreTyped, Manifests
  <1> DEFINE S == Repairs(v)
  <1> PICK b \in BOOLEAN : b = (\A j \in Jobs : ~Active(j))
    OBVIOUS
  <1>4. rebuild' = [Idle EXCEPT !.stage = "repair", !.commit = v, !.todo = S, !.alone = b]
    BY <1>2
  <1>5. /\ rebuild'.at = {} /\ rebuild'.stage = "repair" /\ rebuild'.commit = v
        /\ rebuild'.todo = S /\ rebuild'.alone = b
    <2> HIDE DEF S
    <2>1. QED
      BY <1>4 DEF Idle
  <1>6. QED
    BY <1>1, <1>3, <1>5

LEMMA RebuildBeginsRebuilt == ASSUME Ground, RebuildBegins PROVE Rebuilt'
  <1>1. \A v : Repairs(v)' = Repairs(v)
    BY RebuildBeginsIs DEF Repairs, IsDeleted
  <1>2. \A j : Active(j)' <=> Active(j)
    BY RebuildBeginsIs DEF Active
  <1>3. Repaired' /\ Walked' /\ Cleaned'
    BY <1>1, RebuildBeginsIs DEF Repaired, Walked, Cleaned
  <1>4. QED
    BY <1>2, <1>3, RebuildBeginsIs DEF Rebuilt

\* A step beside which no rebuild is alone.
LEMMA OthersRebuilt ==
    ASSUME Ground, Rebuilt,
           \/ \E j \in Jobs : JobBegins(j) \/ JobStep(j)
           \/ \E t \in Tasks : TaskStep(t)
           \/ \E t \in Tasks, p \in Snapshots \cup Friendly, ok \in BOOLEAN : TaskWrites(t, p, ok)
           \/ \E selected \in Selections : BeginDelete(selected)
           \/ RecordTombstones \/ NextPass \/ Crash
           \/ \E p \in Places : Removes(p)
           \/ \E p \in Snapshots \cup Friendly : UserTouches(p)
    PROVE  Rebuilt'
  <1> SUFFICES rebuild'.alone => rebuild'.stage = "idle"
    BY DEF Rebuilt
  <1>1. ASSUME NEW j \in Jobs, Active(j), rebuild' = rebuild PROVE rebuild'.alone => rebuild'.stage = "idle"
    BY <1>1 DEF Rebuilt
  <1>2. ASSUME NEW j \in Jobs, JobBegins(j) \/ JobStep(j) PROVE rebuild'.alone => rebuild'.stage = "idle"
    BY <1>1, <1>2, JobBeginsIs, JobStepIs
  <1>3. ASSUME NEW t \in Tasks, TaskStep(t) PROVE rebuild'.alone => rebuild'.stage = "idle"
    BY <1>1, <1>3, TaskStepDoes, TasksAre DEF Active
  <1>4. ASSUME NEW t \in Tasks, NEW p \in Snapshots \cup Friendly, NEW ok \in BOOLEAN, TaskWrites(t, p, ok)
        PROVE  rebuild'.alone => rebuild'.stage = "idle"
    <2>1. t \in Running /\ rebuild' = rebuild
      BY <1>4, TaskWriteDoes DEF TaskWrites
    <2>2. QED
      BY <1>1, <2>1, TasksAre DEF Ground, Busy, Active, Running
  <1>5. CASE Crash
    BY <1>5, CrashIs, IdleIs
  <1>6. CASE \/ \E selected \in Selections : BeginDelete(selected)
             \/ RecordTombstones \/ NextPass
             \/ \E p \in Places : Removes(p)
             \/ \E p \in Snapshots \cup Friendly : UserTouches(p)
    <2>1. rebuild' = rebuild /\ rebuild.stage = "idle"
      BY <1>6, BeginDeleteIs, TombstonesIs, NextPassIs, RemovesIs, UserTouchesIs, DeletionAlone
         DEF Ground, Publishing
    <2>2. QED
      BY <2>1
  <1>7. QED
    BY <1>2, <1>3, <1>4, <1>5, <1>6

LEMMA NextRebuilt == ASSUME Ground, Whole, Rebuilt, Next PROVE Rebuilt'
  <1>1. Ground'
    BY NextGround
  <1>2. ASSUME NEW p \in Places, NEW ok \in BOOLEAN, RebuildWrites(p, ok) PROVE Rebuilt'
    BY <1>1, <1>2, RebuildWritesRebuilt
  <1>3. ASSUME NEW p \in Places, RebuildLooks(p) \/ RebuildCleans(p) PROVE Rebuilt'
    BY <1>1, <1>3, RebuildLooksRebuilt, RebuildCleansRebuilt
  <1>4. QED
    BY <1>2, <1>3, StepsAre, NextStageRebuilt, RebuildBeginsRebuilt, OthersRebuilt

LEMMA InitRebuilt == Init => Rebuilt
  BY IdleIs DEF Init, PublishInit, Rebuilt

---------------------------------------------------------------------------
(* The names of the view *)

\* A name of a path leads to saved entries; one of the user's to what he chose.
View ==
    \A n \in Friendly : disk[n].kind = "link" =>
      \/ disk[n].to \in Snapshots
      \/ n[2] \notin Files /\ disk[n].to \in Blobs \cup {n} \cup {FriendlyPath(f) : f \in Files}

\* A name of the view that changes becomes none, a file, or a link to a saved entry.
LEMMA ViewStays ==
    ASSUME View, \A n \in Friendly : \/ disk'[n] = disk[n]
                                     \/ disk'[n].kind = "link" => disk'[n].to \in Snapshots
    PROVE  View'
  BY DEF View

LEMMA MadeLeadsTo ==
    ASSUME NEW src \in Snapshots, NEW e \in Made(src), e.kind = "link"
    PROVE  e.to \in Snapshots
  BY MadeIsCorrect, EntriesAre, PlacesApart

LEMMA NextView == ASSUME Ground, View, Next PROVE View'
  <1> SUFFICES ASSUME NEW n \in Friendly, disk'[n] # disk[n], disk'[n].kind = "link"
               PROVE  disk'[n].to \in Snapshots
    BY ViewStays
  <1>0. n \in Places
    BY PlacesApart
  <1>1. ASSUME NEW t \in Tasks, NEW p \in Snapshots \cup Friendly, NEW ok \in BOOLEAN, TaskWrites(t, p, ok)
        PROVE  disk'[n].to \in Snapshots
    <2>1. n = p /\ p \in Places
      BY <1>0, <1>1, TaskWriteDoes
    <2>2. p = FriendlyOf(t) /\ Source(p, Commit(t)) = SnapshotOf(t) /\ SnapshotOf(t) \in Snapshots
      BY <1>1, <2>1, TaskWriteDoes, TaskSource, TaskPlaces
    <2>3. CASE Put(p, Absent)
      BY <2>1, <2>3, PutIs, EntriesAre DEF Ground, Typed, StoreTyped
    <2>4. ASSUME NEW e \in Made(SnapshotOf(t)), Put(p, e) PROVE disk'[n].to \in Snapshots
      BY <2>1, <2>2, <2>4, PutIs, MadeIsCorrect, MadeLeadsTo DEF Ground, Typed, StoreTyped
    <2>5. QED
      BY <1>1, <2>2, <2>3, <2>4, TaskWriteDoes
  <1>2. ASSUME NEW q \in Places, NEW ok \in BOOLEAN, RebuildWrites(q, ok)
        PROVE  disk'[n].to \in Snapshots
    <2> DEFINE place == RebuiltPlace(q)
    <2>1. n = place /\ place \in Places
      BY <1>0, <1>2, RebuildWriteDoes
    <2>2. Source(place, rebuild.commit) = q /\ q \in Snapshots
      BY <1>2, <2>1, RebuildWriteDoes, PlacesApart
    <2>3. \/ disk' = disk \/ Put(place, Absent)
          \/ \E e \in Made(q) : Put(place, e)
      BY <1>2, <2>2, RebuildWriteDoes
    <2> HIDE DEF place
    <2>4. CASE Put(place, Absent)
      BY <2>1, <2>4, PutIs, EntriesAre DEF Ground, Typed, StoreTyped
    <2>5. ASSUME NEW e \in Made(q), Put(place, e) PROVE disk'[n].to \in Snapshots
      BY <2>1, <2>2, <2>5, PutIs, MadeIsCorrect, MadeLeadsTo DEF Ground, Typed, StoreTyped
    <2>6. QED
      BY <2>3, <2>4, <2>5
  <1>3. ASSUME NEW t \in Tasks, TaskStep(t) PROVE FALSE
    BY <1>3, TaskStepDoes
  <1>4. ASSUME NEW q \in Places, RebuildLooks(q) \/ RebuildCleans(q) PROVE FALSE
    BY <1>0, <1>4, RebuildLooksIs, RebuildCleansDoes, EntriesAre
  <1>5. ASSUME NEW p \in Places, Removes(p) PROVE FALSE
    <2>1. disk' = disk \/ Put(p, Absent)
      BY <1>5, RemovesIs DEF Ground
    <2>2. QED
      BY <1>0, <2>1, PutIs, EntriesAre DEF Ground, Typed, StoreTyped
  <1>6. ASSUME NEW p \in Snapshots \cup Friendly, UserTouches(p) PROVE FALSE
    <2>1. PICK e \in Entries : Put(p, e) /\ (e = Absent \/ e.kind = "file")
      BY <1>6, UserTouchesIs
    <2>2. QED
      BY <1>0, <1>6, <2>1, UserTouchesIs, PutIs, EntriesAre DEF Ground, Typed, StoreTyped
  <1>7. ASSUME NEW j \in Jobs, JobBegins(j) \/ JobStep(j) PROVE FALSE
    BY <1>7, JobBeginsIs, JobStepIs
  <1>8. QED
    BY <1>1, <1>2, <1>3, <1>4, <1>5, <1>6, <1>7, StepsAre, RebuildBeginsIs, NextStageIs,
       BeginDeleteIs, TombstonesIs, NextPassIs, CrashIs DEF Ground

LEMMA InitView == Init => View
  <1> SUFFICES ASSUME Init, NEW n \in Friendly, disk[n].kind = "link"
               PROVE  \/ disk[n].to \in Snapshots
                      \/ n[2] \notin Files /\ disk[n].to \in Blobs \cup {n} \cup {FriendlyPath(f) : f \in Files}
    BY DEF View
  <1>1. PICK alias \in [Aliases -> UNION {AliasTargets(a) : a \in Aliases}] :
           /\ \A a \in Aliases : alias[a] \in AliasTargets(a)
           /\ disk = [p \in Places |-> IF p \in Friendly /\ p[2] \in Aliases THEN alias[p[2]] ELSE Absent]
    BY DEF Init
  <1>2. n \in Places /\ n = FriendlyPath(n[2])
    BY PlacesAre, PlacesApart
  <1>3. n[2] \in Aliases /\ disk[n] = alias[n[2]]
    BY <1>1, <1>2, EntriesAre
  <1>4. disk[n] \in AliasTargets(n[2])
    BY <1>1, <1>3
  <1>5. PICK p \in {FriendlyPath(f) : f \in Files \cup {n[2]}} \cup Snapshots \cup Blobs : disk[n] = Link(p)
    BY <1>4, EntriesAre DEF AliasTargets
  <1>6. p \in Places
    BY <1>3, PlacesAre, PlacesApart
  <1>7. disk[n].to = p /\ n[2] \notin Files
    BY <1>3, <1>5, <1>6, EntriesAre, StoreAssumption
  <1>8. QED
    BY <1>2, <1>5, <1>7

---------------------------------------------------------------------------
(* What a deletion has found, and what has become of it *)

\* Names that stay need nothing that goes; what stays is needed by one that stays.
Found ==
    /\ \A n \in DOMAIN deletion.leads : deletion.leads[n] \in deletion.selected /\ deletion.leads[n][3] = n[2]
    /\ \A n \in Friendly \ DOMAIN deletion.leads : deletion.seen[n].kind = "link" =>
         /\ deletion.seen[n].to \notin deletion.selected
         /\ deletion.seen[n].to \notin DOMAIN deletion.leads
         /\ deletion.seen[n].to \in deletion.candidates => deletion.seen[n].to \in deletion.retained
    /\ \A b \in Blobs : \A p \in deletion.refs[b] : StatIn(deletion.seen, p) = deletion.seen[b]
    /\ \A b \in deletion.retained :
         \E n \in Friendly \ DOMAIN deletion.leads : StatIn(deletion.seen, n) = deletion.seen[b]

Since ==
    /\ \A n \in Friendly : disk[n].kind = "link" => disk[n] = deletion.seen[n]
    /\ \A b \in Blobs : disk[b] \in {deletion.seen[b], Absent}
    /\ deletion.stage \in {"snapshots", "blobs"} => DOMAIN deletion.leads \subseteq Settled

DeletionSees == Deleting => Found /\ Since

\* Where the names of the view lead.
LEMMA LeadsToIs ==
    ASSUME Ground, View, NEW selected \in SUBSET Snapshots, NEW n \in Friendly
    PROVE  /\ \A m : m \notin FriendlyEntries => LeadsTo(selected, m) = m
           /\ disk[n].kind = "link" => LeadsTo(selected, n) = disk[n].to
           /\ disk[n].kind # "link" => LeadsTo(selected, n) \in {n} \cup selected
           /\ n[2] \in Files => LeadsTo(selected, n) \in {n} \cup Snapshots
  <1>1. \A m : m \notin FriendlyEntries => LeadsTo(selected, m) = m
    BY DEF LeadsTo
  <1>2. disk[n].kind = "link" => n \in FriendlyEntries
    BY DEF FriendlyEntries, Exists
  <1>3. disk[n].kind = "link" => LeadsTo(selected, n) = disk[n].to
    BY <1>2 DEF LeadsTo
  <1>4. disk[n].kind # "link" => LeadsTo(selected, n) \in {n} \cup selected
    <2> DEFINE projection == RegularProjection(selected, n)
    <2>1. projection \subseteq selected
      BY DEF RegularProjection
    <2>2. projection # {} => (CHOOSE p \in projection : TRUE) \in projection
      OBVIOUS
    <2>3. disk[n].kind # "link" => \/ LeadsTo(selected, n) = n
                                   \/ projection # {} /\ LeadsTo(selected, n) = CHOOSE p \in projection : TRUE
      BY DEF LeadsTo
    <2> HIDE DEF projection
    <2>4. QED
      BY <2>1, <2>2, <2>3
  <1>5. n[2] \in Files => LeadsTo(selected, n) \in {n} \cup Snapshots
    BY <1>3, <1>4 DEF View
  <1>6. QED
    BY <1>1, <1>3, <1>4, <1>5

\* Where they end, when the deletion is not refused.
LEMMA ResolvedIs ==
    ASSUME Ground, View, NEW selected \in SUBSET Snapshots, ~Refused(selected),
           NEW n \in FriendlyEntries
    PROVE  LET Step(m) == LeadsTo(selected, m)
           IN  /\ ResolveFriendly(selected, n) = Step(Step(Step(Step(n))))
               /\ ResolveFriendly(selected, n) \in selected => ResolveFriendly(selected, n)[3] = n[2]
               /\ \A e : e \notin FriendlyEntries =>
                    /\ Step(n) = e => ResolveFriendly(selected, n) = e
                    /\ Step(Step(n)) = e => ResolveFriendly(selected, n) = e
               /\ Step(n) = n => ResolveFriendly(selected, n) = n
  <1> DEFINE Step(m) == LeadsTo(selected, m)
             end == Step(Step(Step(Step(n))))
             resolved == ResolveFriendly(selected, n)
  <1>1. resolved # "cycle" /\ (resolved \in selected => resolved[3] = n[2])
    BY DEF Refused
  <1>2. resolved = IF end \in FriendlyEntries /\ disk[end].kind = "link" THEN "cycle" ELSE end
    BY DEF ResolveFriendly
  <1>3. resolved = end
    BY <1>1, <1>2
  <1>4. \A e : e \notin FriendlyEntries => Step(e) = e
    BY DEF LeadsTo
  <1> HIDE DEF Step, resolved
  <1>5. \A e : e \notin FriendlyEntries => /\ Step(n) = e => resolved = e
                                           /\ Step(Step(n)) = e => resolved = e
    BY <1>3, <1>4
  <1>6. Step(n) = n => resolved = n
    BY <1>3
  <1>7. QED
    BY <1>1, <1>3, <1>5, <1>6 DEF Step, resolved

\* What the inspection of a deletion that is not refused finds.
LEMMA InspectionFinds ==
    ASSUME Ground, View, NEW selected \in SUBSET Snapshots, ~Refused(selected)
    PROVE  /\ \A n \in Projections(selected) :
                /\ ResolveFriendly(selected, n) \in selected
                /\ ResolveFriendly(selected, n)[3] = n[2]
           /\ \A n \in Friendly \ Projections(selected) : disk[n].kind = "link" =>
                /\ disk[n].to \notin selected
                /\ disk[n].to \notin Projections(selected)
                /\ disk[n].to \in UNION {Payload(p) : p \in selected} =>
                     disk[n].to \in RetainedCandidates(selected)
           /\ \A b \in Blobs : \A p \in References(b) : StatIn(disk, p) = disk[b]
           /\ \A b \in RetainedCandidates(selected) :
                \E n \in Friendly \ Projections(selected) : StatIn(disk, n) = disk[b]
  <1> DEFINE Step(m) == LeadsTo(selected, m)
             Resolved(n) == ResolveFriendly(selected, n)
             candidates == UNION {Payload(p) : p \in selected}
  <1>1. /\ \A n \in FriendlyEntries : n \in Friendly
        /\ \A p \in Snapshots \cup Blobs : p \notin FriendlyEntries /\ p \notin Friendly
        /\ \A p \in Snapshots : p \notin Blobs
        /\ \A b \in Blobs : disk[b].kind # "link"
    BY PlacesApart, EntriesAre DEF FriendlyEntries, Ground, Shape
  <1>2. \A n \in FriendlyEntries :
          /\ Resolved(n) \in selected => Resolved(n)[3] = n[2]
          /\ \A e : e \notin FriendlyEntries => /\ Step(n) = e => Resolved(n) = e
                                                /\ Step(Step(n)) = e => Resolved(n) = e
          /\ Step(n) = n => Resolved(n) = n
    BY ResolvedIs
  <1>3. \A n \in Friendly :
          /\ disk[n].kind = "link" => Step(n) = disk[n].to /\ n \in FriendlyEntries
          /\ disk[n].kind # "link" => Step(n) \in {n} \cup selected
          /\ n[2] \in Files => Step(n) \in {n} \cup Snapshots
    BY LeadsToIs DEF FriendlyEntries, Exists
  <1>4. Projections(selected) = {n \in FriendlyEntries : Resolved(n) \in selected}
    BY DEF Projections
  <1>5. \A n \in Friendly : disk[n].kind = "link" =>
           \/ disk[n].to \in Snapshots
           \/ disk[n].to \in Blobs \cup {n}
           \/ disk[n].to \in Friendly /\ disk[n].to[2] \in Files
    BY PlacesAre DEF View
  <1>6. candidates \subseteq Blobs
    BY PayloadIs
  <1>7. RetainedCandidates(selected) =
          {b \in candidates : \E n \in FriendlyEntries \ Projections(selected) :
                                 Resolved(n) = b \/ b \in SharedBlobs(n)}
    BY DEF RetainedCandidates
  <1> HIDE DEF Step, Resolved, candidates
  <1>8. ASSUME NEW n \in Friendly \ Projections(selected), disk[n].kind = "link"
        PROVE  /\ disk[n].to \notin selected
               /\ disk[n].to \notin Projections(selected)
               /\ disk[n].to \in candidates => disk[n].to \in RetainedCandidates(selected)
    <2>1. n \in FriendlyEntries /\ Step(n) = disk[n].to /\ Resolved(n) \notin selected
      BY <1>3, <1>4, <1>8
    <2>2. disk[n].to \notin selected
      BY <1>1, <1>2, <2>1
    <2>3. ASSUME disk[n].to \in Projections(selected) PROVE FALSE
      <3> DEFINE m == disk[n].to
      <3>1. m \in FriendlyEntries /\ Resolved(m) \in selected /\ m # n
        BY <1>4, <2>3
      <3>2. m \in Friendly /\ m[2] \in Files
        BY <1>1, <1>5, <1>8, <3>1
      <3>3. Step(m) \in {m} \cup Snapshots
        BY <1>3, <3>2
      <3>4. Step(m) # m
        BY <1>1, <1>2, <3>1
      <3>5. Step(m) \in Snapshots /\ Resolved(m) = Step(m)
        BY <1>1, <1>2, <3>1, <3>3, <3>4
      <3>6. Resolved(n) = Step(m)
        BY <1>1, <1>2, <2>1, <3>5
      <3>7. QED
        BY <2>1, <3>1, <3>5, <3>6
    <2>4. ASSUME disk[n].to \in candidates PROVE disk[n].to \in RetainedCandidates(selected)
      <3>1. Resolved(n) = disk[n].to
        BY <1>1, <1>2, <1>6, <2>1, <2>4
      <3>2. QED
        BY <1>7, <2>1, <2>4, <3>1
    <2>5. QED
      BY <2>2, <2>3, <2>4
  <1>9. ASSUME NEW b \in Blobs, NEW p \in References(b) PROVE StatIn(disk, p) = disk[b]
    <2>1. p \in Snapshots /\ (disk[p] = Link(b) \/ (disk[p].kind = "file" /\ disk[p] = disk[b]))
      BY DEF References, SharedBlobs, SameFile
    <2>2. CASE disk[p] = Link(b)
      BY <1>1, <2>2, EntriesAre, PlacesApart, StatIs
    <2>3. CASE disk[p].kind = "file" /\ disk[p] = disk[b]
      BY <2>3, StatIs
    <2>4. QED
      BY <2>1, <2>2, <2>3
  <1>10. ASSUME NEW b \in RetainedCandidates(selected)
         PROVE  \E n \in Friendly \ Projections(selected) : StatIn(disk, n) = disk[b]
    <2>1. b \in Blobs
      BY <1>6, <1>7
    <2>2. PICK n \in FriendlyEntries \ Projections(selected) : Resolved(n) = b \/ b \in SharedBlobs(n)
      BY <1>7
    <2>3. CASE b \in SharedBlobs(n)
      <3>1. disk[n].kind = "file" /\ disk[n] = disk[b]
        BY <2>3 DEF SharedBlobs, SameFile
      <3>2. QED
        BY <1>1, <2>2, <3>1, StatIs
    <2>4. CASE Resolved(n) = b
      <3>1. Step(n) # n /\ n \in Friendly
        BY <1>1, <1>2, <2>1, <2>2, <2>4
      <3>2. Step(n) \notin Snapshots
        BY <1>1, <1>2, <2>1, <2>2, <2>4
      <3>3. disk[n].kind = "link" /\ Step(n) = disk[n].to
        BY <1>3, <3>1, <3>2
      <3>4. CASE disk[n].to \in Blobs
        <4>1. disk[n].to = b
          BY <1>1, <1>2, <2>2, <2>4, <3>3, <3>4
        <4>2. QED
          BY <1>1, <2>1, <2>2, <3>1, <3>3, <4>1, StatIs
      <3>5. CASE disk[n].to \in Friendly /\ disk[n].to[2] \in Files
        <4> DEFINE m == disk[n].to
        <4>1. Step(m) \in {m} \cup Snapshots
          BY <1>3, <3>5
        <4>2. Step(m) = m => Resolved(n) = m
          <5>1. Resolved(n) = Step(Step(Step(Step(n))))
            BY <2>2, ResolvedIs DEF Resolved, Step
          <5>2. QED
            BY <3>3, <5>1
        <4>3. Step(m) \in Snapshots => Resolved(n) = Step(m)
          BY <1>1, <1>2, <2>2, <3>3
        <4>4. QED
          BY <1>1, <2>1, <2>4, <3>5, <4>1, <4>2, <4>3
      <3>6. QED
        BY <1>5, <3>1, <3>2, <3>3, <3>4, <3>5
    <2>5. QED
      BY <2>2, <2>3, <2>4
  <1>11. QED
    BY <1>2, <1>4, <1>8, <1>9, <1>10 DEF Resolved, candidates

LEMMA BeginDeleteSees ==
    ASSUME Ground, View, NEW selected \in Selections, BeginDelete(selected) PROVE DeletionSees'
  <1> SUFFICES ASSUME Deleting' PROVE Found' /\ Since'
    BY DEF DeletionSees
  <1>1. Begins(selected) /\ disk' = disk /\ selected \in SUBSET Snapshots
    BY BeginDeleteIs
  <1> DEFINE resolved == [n \in Projections(selected) |-> ResolveFriendly(selected, n)]
             candidates == UNION {Payload(p) : p \in selected}
             refs == [b \in Blobs |-> References(b)]
  <1>2. /\ ~Refused(selected)
        /\ deletion'.stage = "tombstones" /\ deletion'.selected = selected /\ deletion'.seen = disk
        /\ deletion'.leads = resolved /\ deletion'.candidates = candidates /\ deletion'.refs = refs
        /\ deletion'.retained = RetainedCandidates(selected)
    BY <1>1 DEF Begins
  <1>3. /\ \A n \in Projections(selected) :
             ResolveFriendly(selected, n) \in selected /\ ResolveFriendly(selected, n)[3] = n[2]
        /\ \A n \in Friendly \ Projections(selected) : disk[n].kind = "link" =>
             /\ disk[n].to \notin selected
             /\ disk[n].to \notin Projections(selected)
             /\ disk[n].to \in candidates => disk[n].to \in RetainedCandidates(selected)
        /\ \A b \in Blobs : \A p \in References(b) : StatIn(disk, p) = disk[b]
        /\ \A b \in RetainedCandidates(selected) :
             \E n \in Friendly \ Projections(selected) : StatIn(disk, n) = disk[b]
    BY <1>1, <1>2, InspectionFinds
  <1>4. /\ DOMAIN resolved = Projections(selected)
        /\ \A n \in Projections(selected) : resolved[n] = ResolveFriendly(selected, n)
        /\ \A b \in Blobs : refs[b] = References(b)
    OBVIOUS
  <1> HIDE DEF resolved, candidates, refs
  <1>5. Found'
    BY <1>2, <1>3, <1>4 DEF Found
  <1>6. Since'
    BY <1>1, <1>2 DEF Since
  <1>7. QED
    BY <1>5, <1>6

\* What is found does not change; entries go, or become files.
LEMMA DeletionSeesOn ==
    ASSUME Typed, DeletionSees, Deleting, Inspected' = Inspected, Settled \subseteq Settled',
           \A n \in Friendly : disk'[n].kind = "link" => disk'[n] = disk[n],
           \A b \in Blobs : disk'[b] \in {disk[b], Absent},
           \/ deletion'.stage = deletion.stage
           \/ deletion.stage \in {"tombstones", "friendly"} => DOMAIN deletion.leads \subseteq Settled
           \/ deletion'.stage = "friendly"
    PROVE  DeletionSees'
  <1>1. /\ deletion'.selected = deletion.selected /\ deletion'.seen = deletion.seen
        /\ deletion'.leads = deletion.leads /\ deletion'.candidates = deletion.candidates
        /\ deletion'.refs = deletion.refs /\ deletion'.retained = deletion.retained
    BY InspectedIs
  <1>2. Found /\ Since
    BY DEF DeletionSees
  <1>3. Found'
    BY <1>1, <1>2 DEF Found
  <1>4. \A n \in Friendly : disk'[n].kind = "link" => disk'[n] = deletion'.seen[n]
    BY <1>1, <1>2 DEF Since
  <1>5. \A b \in Blobs : disk'[b] \in {deletion'.seen[b], Absent}
    BY <1>1, <1>2 DEF Since
  <1>6. deletion'.stage \in {"snapshots", "blobs"} => DOMAIN deletion'.leads \subseteq Settled'
    <2>1. deletion.stage \in {"snapshots", "blobs"} => DOMAIN deletion.leads \subseteq Settled
      BY <1>2 DEF Since
    <2>2. CASE deletion'.stage = deletion.stage
      BY <1>1, <2>1, <2>2
    <2>3. CASE deletion'.stage = "friendly"
      BY <2>3
    <2>4. CASE deletion.stage \in {"tombstones", "friendly"} => DOMAIN deletion.leads \subseteq Settled
      <3>1. deletion.stage \in DeleteStages
        BY DEF Typed, DeletionTyped, Deletions
      <3>2. DOMAIN deletion.leads \subseteq Settled
        BY <2>1, <2>4, <3>1 DEF Deleting, DeleteStages
      <3>3. QED
        BY <1>1, <3>2
    <2>5. QED
      BY <2>2, <2>3, <2>4
  <1>7. QED
    BY <1>3, <1>4, <1>5, <1>6 DEF DeletionSees, Since

\* Downloads, rebuilds and the end of the process leave no deletion going on.
LEMMA PublishersAlone ==
    ASSUME Ground,
           \/ RebuildBegins \/ Crash
           \/ \E j \in Jobs : JobBegins(j) \/ JobStep(j)
           \/ \E t \in Tasks : TaskStep(t)
           \/ \E t \in Tasks, p \in Snapshots \cup Friendly, ok \in BOOLEAN : TaskWrites(t, p, ok) /\ Frame
           \/ \E p \in Places : (RebuildLooks(p) \/ RebuildCleans(p)) /\ Frame
           \/ \E p \in Places, ok \in BOOLEAN : RebuildWrites(p, ok) /\ Frame
           \/ NextStage /\ Frame
    PROVE  ~Deleting'
  <1>1. ASSUME Publishing, deletion' = deletion PROVE ~Deleting'
    BY <1>1 DEF Ground, Busy, Deleting
  <1>2. CASE RebuildBegins
    <2>1. ~Deleting /\ deletion' = deletion
      BY <1>2 DEF RebuildBegins, deleteVars
    <2>2. QED
      BY <2>1 DEF Deleting
  <1>3. ASSUME NEW j \in Jobs, JobBegins(j) PROVE ~Deleting'
    BY <1>3, JobBeginsIs DEF Deleting
  <1>4. ASSUME NEW j \in Jobs, JobStep(j) PROVE ~Deleting'
    BY <1>1, <1>4, JobStepIs DEF Publishing
  <1>5. ASSUME Frame PROVE deletion' = deletion
    BY <1>5 DEF Frame, deleteVars
  <1>6. ASSUME NEW t \in Tasks, TaskStep(t) PROVE ~Deleting'
    <2>1. Frame /\ Active(t[1]) /\ t[1] \in Jobs
      BY <1>6, TaskStepDoes, TasksAre DEF TaskStep, Active
    <2>2. QED
      BY <1>1, <1>5, <2>1 DEF Publishing
  <1>7. ASSUME NEW t \in Tasks, NEW p \in Snapshots \cup Friendly, NEW ok \in BOOLEAN, TaskWrites(t, p, ok), Frame
        PROVE  ~Deleting'
    <2>1. Active(t[1]) /\ t[1] \in Jobs
      BY <1>7, TaskWriteDoes, TasksAre DEF Ground, Busy, Active
    <2>2. QED
      BY <1>1, <1>5, <1>7, <2>1 DEF Publishing
  <1>8. ASSUME rebuild.stage # "idle", Frame PROVE ~Deleting'
    BY <1>1, <1>5, <1>8 DEF Publishing
  <1>9. ASSUME NEW p \in Places, RebuildLooks(p) \/ RebuildCleans(p), Frame PROVE ~Deleting'
    BY <1>8, <1>9, RebuildLooksIs, RebuildCleansDoes
  <1>10. ASSUME NEW p \in Places, NEW ok \in BOOLEAN, RebuildWrites(p, ok), Frame PROVE ~Deleting'
    BY <1>8, <1>10, RebuildWriteDoes
  <1>11. CASE NextStage /\ Frame
    BY <1>8, <1>11, NextStageIs
  <1>12. QED
    BY <1>2, <1>3, <1>4, <1>6, <1>7, <1>9, <1>10, <1>11, CrashIs

LEMMA NextSees == ASSUME Ground, View, DeletionSees, Next PROVE DeletionSees'
  <1>1. ASSUME NEW p \in Places, Removes(p) PROVE DeletionSees'
    <2>1. /\ Deleting /\ Inspected' = Inspected /\ Settled \subseteq Settled'
          /\ deletion'.stage = deletion.stage /\ (disk' = disk \/ Put(p, Absent))
      BY <1>1, RemovesIs DEF Ground, Settled
    <2>2. \A q \in Places : disk'[q] \in {disk[q], Absent}
      BY <2>1, PutIs, EntriesAre DEF Ground, Typed, StoreTyped
    <2>3. QED
      BY <2>1, <2>2, PlacesApart, EntriesAre, DeletionSeesOn DEF Ground
  <1>2. ASSUME NEW p \in Snapshots \cup Friendly, UserTouches(p) PROVE DeletionSees'
    <2>1. PICK e \in Entries : Put(p, e) /\ (e = Absent \/ e.kind = "file")
      BY <1>2, UserTouchesIs
    <2>2. Deleting /\ deletion' = deletion /\ p \in Places
      BY <1>2, UserTouchesIs
    <2>3. disk'[p].kind # "link" /\ \A q \in Places \ {p} : disk'[q] = disk[q]
      BY <2>1, <2>2, PutIs, EntriesAre DEF Ground, Typed, StoreTyped
    <2>4. /\ \A n \in Friendly : disk'[n].kind = "link" => disk'[n] = disk[n]
          /\ \A b \in Blobs : disk'[b] = disk[b]
      BY <2>3, PlacesApart
    <2>5. Inspected' = Inspected /\ Settled' = Settled /\ deletion'.stage = deletion.stage
      BY <2>2 DEF Inspected, Settled
    <2>6. QED
      BY <2>2, <2>4, <2>5, DeletionSeesOn DEF Ground
  <1>3. ASSUME RecordTombstones \/ NextPass PROVE DeletionSees'
    <2>1. CASE ~Deleting'
      BY <2>1 DEF DeletionSees
    <2>2. CASE RecordTombstones
      BY <2>2, TombstonesIs, DeletionSeesOn DEF Ground, Settled
    <2>3. CASE NextPass /\ Deleting'
      <3>1. /\ Deleting /\ disk' = disk /\ Inspected' = Inspected /\ Settled' = Settled
            /\ \/ deletion.stage = "friendly" /\ DOMAIN deletion.leads \subseteq Settled
               \/ deletion.stage = "snapshots"
        BY <2>3, NextPassIs DEF Ground, Settled
      <3>2. QED
        BY <3>1, DeletionSeesOn DEF Ground
    <2>4. QED
      BY <1>3, <2>1, <2>2, <2>3
  <1>4. QED
    BY <1>1, <1>2, <1>3, StepsAre, BeginDeleteSees, PublishersAlone DEF DeletionSees

LEMMA InitSees == Init => DeletionSees
  BY NoDeletionIs DEF Init, DeleteInit, Deleting, DeletionSees

---------------------------------------------------------------------------
(* The invariant *)

HubInv ==
    Ground /\ Whole /\ GoneStays /\ Stored /\ Rebuilt /\ View /\ DeletionSees /\ touches \in Nat

LEMMA TouchesAre ==
    ASSUME Next
    PROVE  \/ touches' = touches
           \/ touches' = touches + 1 /\ \E p \in Snapshots \cup Friendly : UserTouches(p)
  <1>1. ASSUME Frame PROVE touches' = touches
    BY <1>1 DEF Frame, deleteVars
  <1>2. ASSUME NEW t \in Tasks, TaskStep(t) PROVE touches' = touches
    BY <1>1, <1>2 DEF TaskStep
  <1>3. ASSUME NEW j \in Jobs, JobBegins(j) \/ JobStep(j) PROVE touches' = touches
    BY <1>1, <1>3 DEF JobBegins, JobStep
  <1>4. ASSUME RebuildBegins PROVE touches' = touches
    BY <1>4 DEF RebuildBegins, deleteVars
  <1>5. ASSUME NEW p \in Places, Removes(p) PROVE touches' = touches
    BY <1>5 DEF Removes, RemoveFriendly, RemoveSnapshot, RemovePayload, StoreUnchanged
  <1>6. ASSUME \/ \E selected \in Selections : BeginDelete(selected)
               \/ RecordTombstones \/ NextPass \/ Crash
        PROVE  touches' = touches
    BY <1>6 DEF BeginDelete, RecordTombstones, NextPass, Crash
  <1>7. ASSUME NEW p \in Snapshots \cup Friendly, UserTouches(p) PROVE touches' = touches + 1
    BY <1>7 DEF UserTouches
  <1>8. QED
    BY <1>1, <1>2, <1>3, <1>4, <1>5, <1>6, <1>7, StepsAre

LEMMA InitInv == Init => HubInv
  BY InitGround, InitWhole, InitGone, InitStored, InitRebuilt, InitView, InitSees
     DEF HubInv, Init, DeleteInit

LEMMA StutterInv == ASSUME HubInv, UNCHANGED vars PROVE HubInv'
  <1>1. /\ UNCHANGED <<disk, ref, manifest, supports, linkFailed>>
        /\ UNCHANGED <<temp, job, task, skip, entry, rebuild, starts, faults, rebuilds>>
        /\ UNCHANGED <<deletion, gone, touches>>
    BY DEF vars, storeVars, publishVars, deleteVars
  <1>2. Ground'
    <2>1. Typed'
      BY <1>1 DEF HubInv, Ground, Typed, StoreTyped, JobsTyped, DeletionTyped
    <2>2. Busy' /\ Shape'
      BY <1>1 DEF HubInv, Ground, Busy, Running, Deleting, Publishing, Active, Shape, Origin
    <2>3. QED
      BY <2>1, <2>2 DEF Ground
  <1>3. Deleting' = Deleting /\ \A j \in Jobs : Active(j)' = Active(j)
    BY <1>1 DEF Deleting, Active
  <1>4. Settled' = Settled /\ \A p \in Snapshots : Marked(p)' = Marked(p)
    BY <1>1 DEF Settled, Marked
  <1>5. Whole'
    BY <1>1, <1>3, <1>4 DEF HubInv, Whole, LinksLead, PayloadsThere, DeletionKnows, Origin, Content, Commit
  <1>6. GoneStays'
    BY <1>1, <1>3 DEF HubInv, GoneStays, Marked, Goal
  <1>7. Stored'
    <2>1. ASSUME NEW t \in Tasks
          PROVE  /\ Good(SnapshotOf(t)) => Good(SnapshotOf(t))'
                 /\ AnotherPlaces(SnapshotOf(t), t) => AnotherPlaces(SnapshotOf(t), t)'
      BY <1>1 DEF Good, Origin, SnapshotOf, Commit, AnotherPlaces, AnotherWrites
    <2>2. QED
      BY <1>1, <1>3, <2>1, TasksAre DEF HubInv, Stored, JobTasks
  <1>8. Rebuilt'
    <2>1. Repaired => Repaired'
      BY <1>1 DEF Repaired, Repairs, IsDeleted, Origin, Exists
    <2>3. Cleaned => Cleaned'
      BY <1>1 DEF Cleaned, Dangles, Stat
    <2>4. Walked => Walked'
      <3>1. \A p : (Shows(p) => Shows(p)') /\ (Exists(p)' => Exists(p))
        BY <1>1 DEF Shows, CacheEntryCorrect, Exists, Stat
      <3> QED
        BY <1>1, <3>1 DEF Walked
    <2>2. QED
      BY <1>1, <1>3, <2>1, <2>3, <2>4 DEF HubInv, Rebuilt
  <1>9. View'
    BY <1>1 DEF HubInv, View
  <1>10. DeletionSees'
    BY <1>1, <1>3, <1>4 DEF HubInv, DeletionSees, Found, Since
  <1>11. QED
    BY <1>1, <1>2, <1>5, <1>6, <1>7, <1>8, <1>9, <1>10 DEF HubInv

LEMMA NextInv == ASSUME HubInv, Next PROVE HubInv'
  BY NextGround, NextWhole, NextGone, NextStored, NextRebuilt, NextView, NextSees, TouchesAre
     DEF HubInv

LEMMA StepInv == HubInv /\ [Next]_vars => HubInv'
  BY NextInv, StutterInv

LEMMA InvIsStored == HubInv => StoredIsPresent
  <1> SUFFICES ASSUME HubInv PROVE NoDanglingEntry /\ CompletedIsPresent
    BY DEF StoredIsPresent
  <1>1. Ground /\ Whole /\ Stored
    BY DEF HubInv
  <1>2. NoDanglingEntry
    <2>1. ASSUME NEW p \in Snapshots, disk[p].kind = "link" PROVE disk[disk[p].to].kind = "file"
      <3>1. Origin(p) \in Places /\ disk[p] = Link(Origin(p)) /\ disk[Origin(p)].kind = "file"
        BY <1>1, <2>1, OriginIs DEF Ground, Shape, Whole, LinksLead
      <3>2. QED
        BY <3>1, EntriesAre
    <2>2. TypeOK
      BY <1>1, TypedIsTypeOK DEF Ground
    <2>3. QED
      BY <2>1, <2>2 DEF NoDanglingEntry
  <1>3. CompletedIsPresent
    <2> SUFFICES ASSUME NEW j \in Jobs, job[j] = "ref", NEW t \in JobTasks(j)
                 PROVE  \/ Readable(disk, SnapshotOf(t), Content(t))
                        \/ task[t] = "unlinked"
                        \/ AnotherPlaces(SnapshotOf(t), t)
      BY DEF CompletedIsPresent
    <2>1. t \in Tasks /\ t[1] = j /\ Active(t[1]) /\ task[t] \in {"done", "unlinked"}
      BY <1>1 DEF Stored, JobTasks, Active
    <2>2. CASE task[t] = "done"
      BY <1>1, <2>1, <2>2, GoodIsReadable DEF Stored
    <2>3. QED
      BY <2>1, <2>2
  <1>4. QED
    BY <1>2, <1>3

LEMMA InvConverges == HubInv => RebuildConverges
  <1> SUFFICES ASSUME HubInv, rebuild.stage \in {"walk", "clean"}, rebuild.todo = {}, rebuild.alone,
                      ~rebuild.errors, NEW f \in Files
               PROVE  LET v == rebuild.commit IN
                      /\ Stat(SnapshotPath(v, f)).kind = "file" =>
                           SameContent(Stat(SnapshotPath(v, f)), Stat(FriendlyPath(f)))
                      /\ SnapshotPath(v, f) \in Repairs(v) /\ BlobComplete(Sha[v][f]) =>
                           Exists(SnapshotPath(v, f))
    BY DEF RebuildConverges
  <1> DEFINE v == rebuild.commit
             p == SnapshotPath(v, f)
             n == FriendlyPath(f)
  <1>1. Ground /\ Shape /\ Repaired /\ Walked /\ disk \in [Places -> Entries]
    BY DEF HubInv, Rebuilt, Ground, Typed, StoreTyped
  <1>2. v \in Versions
    BY <1>1 DEF Ground, Busy
  <1>3. /\ p \in Snapshots /\ p[2] = v /\ p[3] = f /\ n \in Friendly /\ p \in Places /\ n \in Places
        /\ Origin(p) \in Blobs /\ Origin(p) = BlobPath(Sha[v][f])
    BY <1>2, PlacesAre, PlacesApart, OriginIs DEF Origin
  <1> HIDE DEF v, p, n
  <1>4. ASSUME Stat(p).kind = "file" PROVE SameContent(Stat(p), Stat(n))
    <2>1. Stat(p) = IF disk[p].kind = "link" THEN disk[Origin(p)] ELSE disk[p]
      BY <1>1, <1>3, ShapeStat
    <2>2. Exists(p)
      BY <1>4, <2>1 DEF Exists
    <2>3. Shows(p)
      BY <1>1, <1>3, <2>2 DEF Walked, v
    <2>4. CacheEntryCorrect(n, p)
      BY <1>3, <2>3 DEF Shows, n
    <2>5. CASE disk[n] = Link(p)
      <3>1. disk[n].kind = "link" /\ disk[n].to = p
        BY <1>3, <2>5, EntriesAre
      <3>2. CASE disk[p].kind = "link"
        <4>1. disk[p].to = Origin(p) /\ disk[Origin(p)].kind # "link"
          BY <1>1, <1>3, <2>1, <1>4, <3>2, EntriesAre, OriginIs DEF Shape
        <4>2. StatIn(disk, n) = disk[Origin(p)]
          BY <3>1, <3>2, <4>1, StatIs
        <4>3. QED
          BY <1>4, <2>1, <3>2, <4>2 DEF Stat, SameContent
      <3>3. CASE disk[p].kind # "link"
        <4>1. StatIn(disk, n) = disk[p]
          BY <3>1, <3>3, StatIs
        <4>2. QED
          BY <1>4, <2>1, <3>3, <4>1 DEF Stat, SameContent
      <3>4. QED
        BY <3>2, <3>3
    <2>6. CASE SameContent(disk[n], Stat(p))
      <3>1. StatIn(disk, n) = disk[n]
        BY <2>6, StatIs DEF SameContent
      <3>2. QED
        BY <2>6, <3>1 DEF Stat, SameContent
    <2>7. QED
      BY <2>4, <2>5, <2>6 DEF CacheEntryCorrect
  <1>5. ASSUME p \in Repairs(v), BlobComplete(Sha[v][f]) PROVE Exists(p)
    <2>1. disk[Origin(p)].kind = "file"
      BY <1>1, <1>3, <1>5, ShapeStat DEF BlobComplete
    <2>2. QED
      BY <1>1, <1>3, <1>5, <2>1 DEF Repaired, v
  <1>6. QED
    BY <1>4, <1>5 DEF v, p, n

LEMMA InvIsGone == HubInv => DeletedStaysDeleted
  BY EntriesAre DEF HubInv, GoneStays, DeletedStaysDeleted, Exists

\* What a step leaves of the places while a deletion goes on.
LEMMA DeletionLeaves ==
    ASSUME HubInv, Deleting, Next, touches' = touches
    PROVE  disk' = disk \/ \E q \in Places : Removes(q) /\ Put(q, Absent) /\ disk[q] = deletion.seen[q]
  <1>1. Ground /\ touches \in Nat
    BY DEF HubInv
  <1>2. ASSUME Frame PROVE Deleting'
    BY <1>2 DEF Frame, deleteVars, Deleting
  <1>3. ASSUME RebuildBegins PROVE FALSE
    BY <1>3 DEF RebuildBegins
  <1>4. ASSUME NEW j \in Jobs, JobBegins(j) PROVE FALSE
    BY <1>4 DEF JobBegins
  <1>5. ASSUME \/ \E j \in Jobs : JobStep(j)
               \/ \E t \in Tasks : TaskStep(t)
               \/ \E t \in Tasks, p \in Snapshots \cup Friendly, ok \in BOOLEAN : TaskWrites(t, p, ok) /\ Frame
               \/ \E p \in Places : (RebuildLooks(p) \/ RebuildCleans(p)) /\ Frame
               \/ \E p \in Places, ok \in BOOLEAN : RebuildWrites(p, ok) /\ Frame
               \/ NextStage /\ Frame
        PROVE  FALSE
    <2>1. Frame
      BY <1>5 DEF JobStep, TaskStep
    <2>2. ~Deleting'
      BY <1>1, <1>5, PublishersAlone
    <2>3. QED
      BY <1>2, <2>1, <2>2
  <1>6. ASSUME NEW p \in Snapshots \cup Friendly, UserTouches(p) PROVE FALSE
    BY <1>1, <1>6 DEF UserTouches
  <1>7. ASSUME \/ \E selected \in Selections : BeginDelete(selected)
               \/ RecordTombstones \/ NextPass \/ Crash
        PROVE  disk' = disk
    BY <1>1, <1>7, BeginDeleteIs, TombstonesIs, NextPassIs, CrashIs DEF Ground
  <1>8. ASSUME NEW q \in Places, Removes(q)
        PROVE  disk' = disk \/ (Put(q, Absent) /\ disk[q] = deletion.seen[q])
    BY <1>1, <1>8, RemovesIs DEF Ground
  <1>9. QED
    BY <1>3, <1>4, <1>5, <1>6, <1>7, <1>8, StepsAre

\* What a link shows is what its target shows, unless it runs in a circle.
LEMMA StatThrough ==
    ASSUME NEW d, NEW p, NEW s, d[p].kind = "link", d[p].to = s,
           \/ d[s].kind # "link" \/ d[d[s].to].kind # "link"
           \/ d[d[d[s].to].to].kind # "link"
    PROVE  StatIn(d, p) = StatIn(d, s)
  <1> DEFINE Follow(e) == IF e.kind = "link" THEN d[e.to] ELSE e
             o == d[s].to
  <1>1. /\ StatIn(d, p) = Follow(Follow(Follow(Follow(d[p]))))
        /\ StatIn(d, s) = Follow(Follow(Follow(Follow(d[s]))))
    BY DEF StatIn
  <1>2. Follow(d[p]) = d[s]
    OBVIOUS
  <1>3. d[s].kind # "link" => Follow(d[s]) = d[s]
    OBVIOUS
  <1>4. d[s].kind = "link" => Follow(d[s]) = d[o]
    OBVIOUS
  <1>5. d[o].kind # "link" => Follow(d[o]) = d[o]
    OBVIOUS
  <1>6. d[o].kind = "link" => Follow(d[o]) = d[d[o].to]
    OBVIOUS
  <1>7. d[d[o].to].kind # "link" => Follow(d[d[o].to]) = d[d[o].to]
    OBVIOUS
  <1> HIDE DEF Follow
  <1>8. CASE d[s].kind # "link"
    BY <1>1, <1>2, <1>3, <1>8
  <1>9. CASE d[s].kind = "link" /\ d[o].kind # "link"
    BY <1>1, <1>2, <1>4, <1>5, <1>9
  <1>10. CASE d[s].kind = "link" /\ d[o].kind = "link" /\ d[d[o].to].kind # "link"
    BY <1>1, <1>2, <1>4, <1>6, <1>7, <1>10
  <1> QED
    BY <1>8, <1>9, <1>10

\* A link to what is no link shows it.
LEMMA StatAtOnce ==
    ASSUME NEW d, NEW p, NEW s, d[p].kind = "link", d[p].to = s, d[s].kind # "link"
    PROVE  StatIn(d, p) = d[s]
  <1>1. StatIn(d, p) = StatIn(d, s)
    BY StatThrough
  <1> QED
    BY <1>1, StatIs

\* A link to itself shows itself.
LEMMA StatOfLoop ==
    ASSUME NEW d, NEW p, d[p].kind = "link", d[p].to = p
    PROVE  StatIn(d, p) = d[p]
  <1> DEFINE Follow(e) == IF e.kind = "link" THEN d[e.to] ELSE e
  <1>1. StatIn(d, p) = Follow(Follow(Follow(Follow(d[p]))))
    BY DEF StatIn
  <1>2. Follow(d[p]) = d[p]
    OBVIOUS
  <1> HIDE DEF Follow
  <1> QED
    BY <1>1, <1>2

\* The removal of a place takes nothing from an entry that was not selected.
LEMMA OthersKeepContent ==
    ASSUME HubInv, NEW q \in Places, Removes(q), Put(q, Absent),
           NEW p \in Snapshots \cup Friendly, p \notin deletion.selected, ~ShowsSelected(p),
           Stat(p).kind = "file"
    PROVE  StatIn(disk', p) = Stat(p)
  <1>1. /\ Ground /\ LinksLead /\ DeletionKnows /\ View /\ Found /\ Since
        /\ Deleting
    BY RemovesIs DEF HubInv, Whole, DeletionSees, Ground
  <1>2. \A r \in Places \ {q} : disk'[r] = disk[r]
    BY <1>1, PutIs, EntriesAre DEF Ground, Typed, StoreTyped
  <1>3. /\ deletion.selected \subseteq Snapshots /\ DOMAIN deletion.leads \subseteq Friendly
        /\ deletion.candidates \subseteq Blobs /\ disk \in [Places -> Entries]
    BY <1>1 DEF Ground, Typed, StoreTyped, DeletionTyped, Deletions, Leads
  <1>4. p \notin DOMAIN deletion.leads
    BY <1>1 DEF Found, ShowsSelected
  <1>5. \/ deletion.stage = "friendly" /\ q \in DOMAIN deletion.leads
        \/ deletion.stage = "snapshots" /\ q \in deletion.selected
        \/ deletion.stage = "blobs" /\ q \in Unneeded
    BY <1>1, RemovesIs DEF Ground
  <1>6. Unneeded \subseteq deletion.candidates \ deletion.retained
    BY DEF Unneeded
  <1>7. q # p
    BY <1>3, <1>4, <1>5, <1>6, PlacesApart
  \* A saved entry that is a link leads to a payload that is still needed.
  <1>8. ASSUME NEW s \in Snapshots, disk[s].kind = "link"
        PROVE  /\ disk[s].to = Origin(s) /\ Origin(s) \in Blobs /\ disk[Origin(s)].kind = "file"
               /\ q # Origin(s)
    <2>1. disk[s].to = Origin(s) /\ Origin(s) \in Blobs /\ disk[Origin(s)].kind = "file"
      BY <1>1, <1>8, OriginIs, EntriesAre DEF Ground, Shape, LinksLead
    <2>2. ASSUME q = Origin(s) PROVE FALSE
      <3>1. q \in Unneeded
        BY <1>3, <1>5, <2>1, <2>2, PlacesApart
      <3>2. s \in deletion.refs[q] /\ deletion.refs[q] \ deletion.removed = {}
        BY <1>1, <1>8, <2>2, <3>1 DEF Unneeded, StillReferenced, DeletionKnows
      <3>3. disk[s] = Absent
        BY <1>1, <3>2 DEF DeletionKnows
      <3>4. QED
        BY <1>8, <3>3, EntriesAre
    <2>3. QED
      BY <2>1, <2>2
  <1>9. ASSUME NEW s \in Snapshots, s # q PROVE StatIn(disk', s) = StatIn(disk, s)
    <2>1. disk'[s] = disk[s]
      BY <1>2, <1>9, PlacesApart
    <2>2. CASE disk[s].kind # "link"
      BY <2>1, <2>2, StatIs
    <2>3. CASE disk[s].kind = "link"
      <3>1. disk'[Origin(s)] = disk[Origin(s)]
        BY <1>2, <1>8, <2>3, PlacesApart
      <3>2. StatIn(disk, s) = disk[Origin(s)]
        BY <1>8, <2>3, StatIs
      <3>3. StatIn(disk', s) = disk'[Origin(s)]
        BY <1>8, <2>1, <2>3, <3>1, StatIs
      <3>4. QED
        BY <3>1, <3>2, <3>3
    <2>4. QED
      BY <2>2, <2>3
  \* A name that shows a saved entry which stays.
  <1>10. ASSUME NEW n \in Friendly, n # q, disk[n].kind = "link", disk[n].to \in Snapshots, disk[n].to # q
         PROVE  /\ StatIn(disk, n) = StatIn(disk, disk[n].to)
                /\ StatIn(disk', n) = StatIn(disk', disk[n].to)
                /\ disk'[n] = disk[n] /\ disk'[disk[n].to] = disk[disk[n].to]
    <2> DEFINE s == disk[n].to
    <2>1. disk'[n] = disk[n] /\ disk'[s] = disk[s]
      BY <1>2, <1>10, PlacesApart
    <2> HIDE DEF s
    <2>0. /\ disk[n].kind = "link" /\ disk[n].to = s
          /\ disk'[n].kind = "link" /\ disk'[n].to = s /\ s \in Snapshots
      BY <1>10, <2>1 DEF s
    <2>2. \/ disk[s].kind # "link" /\ disk'[s].kind # "link"
          \/ disk[disk[s].to].kind # "link" /\ disk'[disk'[s].to].kind # "link"
      <3>1. disk[s].kind = "link" => /\ disk[disk[s].to].kind # "link"
                                     /\ disk'[disk[s].to] = disk[disk[s].to]
        BY <1>2, <1>8, <2>0, PlacesApart
      <3>2. QED
        BY <2>1, <3>1
    <2>3. StatIn(disk, n) = StatIn(disk, s)
      BY <2>0, <2>2, StatThrough
    <2>4. StatIn(disk', n) = StatIn(disk', s)
      BY <2>0, <2>2, StatThrough
    <2>5. QED
      BY <2>1, <2>3, <2>4 DEF s
  <1>11. CASE p \in Snapshots
    BY <1>7, <1>9, <1>11 DEF Stat
  <1>12. CASE p \in Friendly /\ disk[p].kind # "link"
    <2>1. disk'[p] = disk[p]
      BY <1>2, <1>7, <1>12, PlacesApart
    <2>2. QED
      BY <1>12, <2>1, StatIs DEF Stat
  <1>13. CASE p \in Friendly /\ disk[p].kind = "link"
    <2> DEFINE s == disk[p].to
    <2>1. /\ s \notin deletion.selected /\ s \notin DOMAIN deletion.leads
          /\ s \in deletion.candidates => s \in deletion.retained
      BY <1>1, <1>4, <1>13 DEF Found, Since
    <2>2. s # q
      BY <1>5, <1>6, <2>1
    <2>3. disk'[p] = disk[p]
      BY <1>2, <1>7, <1>13, PlacesApart
    <2>8. disk[p].kind = "link" /\ disk[p].to = s /\ disk'[p].kind = "link" /\ disk'[p].to = s
      BY <1>13, <2>3
    <2>4. CASE s \in Snapshots
      BY <1>7, <1>9, <1>10, <1>13, <2>2, <2>4 DEF Stat
    <2>5. CASE s \in Blobs
      <3>1. disk'[s] = disk[s] /\ disk[s].kind # "link"
        BY <1>1, <1>2, <2>2, <2>5, PlacesApart, EntriesAre DEF Ground, Shape
      <3> HIDE DEF s
      <3>2. StatIn(disk, p) = disk[s] /\ StatIn(disk', p) = disk'[s]
        BY <2>8, <3>1, StatAtOnce
      <3>3. QED
        BY <3>1, <3>2 DEF Stat
    <2>6. CASE s = p
      BY <1>13, <2>3, <2>6, StatOfLoop DEF Stat
    <2>7. CASE s \in Friendly /\ s[2] \in Files
      <3>1. disk'[s] = disk[s]
        BY <1>2, <2>2, <2>7, PlacesApart
      <3>2. CASE disk[s].kind # "link"
        <4> HIDE DEF s
        <4>1. StatIn(disk, p) = disk[s] /\ StatIn(disk', p) = disk'[s]
          BY <2>8, <3>1, <3>2, StatAtOnce
        <4>2. QED
          BY <3>1, <4>1 DEF Stat
      <3>3. CASE disk[s].kind = "link"
        <4>1. disk[s].to \in Snapshots /\ disk[s].to \notin deletion.selected
          BY <1>1, <2>1, <2>7, <3>3 DEF View, Found, Since
        <4>2. disk[s].to # q
          BY <1>3, <1>5, <1>6, <4>1, PlacesApart
        <4>3. /\ StatIn(disk, s) = StatIn(disk, disk[s].to)
              /\ StatIn(disk', s) = StatIn(disk', disk[s].to)
              /\ disk'[disk[s].to] = disk[disk[s].to]
          BY <1>10, <2>2, <2>7, <3>3, <4>1, <4>2
        <4>4. StatIn(disk', s) = StatIn(disk, s)
          BY <1>9, <4>1, <4>2, <4>3
        <4>5. disk[disk[s].to].kind = "link" => /\ disk[disk[disk[s].to].to].kind # "link"
                                                /\ disk'[disk[disk[s].to].to] = disk[disk[disk[s].to].to]
          BY <1>2, <1>8, <4>1, PlacesApart
        <4>6. StatIn(disk, p) = StatIn(disk, s)
          BY <1>13, <4>5, StatThrough
        <4>7. StatIn(disk', p) = StatIn(disk', s)
          <5> DEFINE o == disk[s].to
          <5>1. /\ disk'[p].kind = "link" /\ disk'[p].to = s /\ disk'[s].to = o
                /\ disk'[o] = disk[o]
            BY <1>13, <2>3, <3>1, <4>3
          <5>2. disk'[o].kind # "link" \/ disk'[disk'[o].to].kind # "link"
            BY <4>5, <5>1
          <5>3. disk'[disk'[s].to].kind # "link" \/ disk'[disk'[disk'[s].to].to].kind # "link"
            BY <5>1, <5>2
          <5> HIDE DEF o, s
          <5>4. QED
            BY <5>1, <5>3, StatThrough
        <4>8. QED
          BY <4>4, <4>6, <4>7 DEF Stat
      <3>4. QED
        BY <3>2, <3>3
    <2>9. QED
      BY <1>1, <1>13, <2>4, <2>5, <2>6, <2>7, PlacesAre DEF View
  <1>14. QED
    BY <1>11, <1>12, <1>13

LEMMA SparesTheRest ==
    ASSUME HubInv, Next, Deleting, touches' = touches
    PROVE  /\ \A p \in Snapshots \cup Friendly :
                p \notin deletion.selected /\ ~ShowsSelected(p) /\ Stat(p).kind = "file" =>
                  StatIn(disk', p) = Stat(p)
           /\ \A p \in Places : disk[p].kind = "file" /\ disk[p] # deletion.seen[p] =>
                disk'[p] = disk[p]
  <1>1. CASE disk' = disk
    BY <1>1 DEF Stat
  <1>2. ASSUME NEW q \in Places, Removes(q), Put(q, Absent), disk[q] = deletion.seen[q]
        PROVE  /\ \A p \in Snapshots \cup Friendly :
                    p \notin deletion.selected /\ ~ShowsSelected(p) /\ Stat(p).kind = "file" =>
                      StatIn(disk', p) = Stat(p)
               /\ \A p \in Places : disk[p].kind = "file" /\ disk[p] # deletion.seen[p] =>
                    disk'[p] = disk[p]
    <2>1. \A p \in Places \ {q} : disk'[p] = disk[p]
      BY <1>2, PutIs, EntriesAre DEF HubInv, Ground, Typed, StoreTyped
    <2>2. QED
      BY <1>2, <2>1, OthersKeepContent
  <1>3. QED
    BY <1>1, <1>2, DeletionLeaves

LEMMA AnswersTruly ==
    ASSUME HubInv, Next, deletion.stage = "blobs", deletion'.stage = "answered"
    PROVE  /\ \A p \in deletion.removed : disk'[p] = Absent
           /\ ~deletion.errors =>
                /\ \A p \in deletion.selected : disk'[p] = Absent
                /\ \A n \in Friendly : ~(disk'[n].kind = "link" /\ disk'[n].to \in deletion.selected)
                /\ \A b \in deletion.candidates : disk'[b] # Absent =>
                     \E p \in (Snapshots \cup Friendly) \ (deletion.selected \cup DOMAIN deletion.leads) :
                        StatIn(deletion.seen, p) = disk'[b]
  <1>1. /\ Ground /\ Whole /\ DeletionKnows /\ Found /\ Since /\ Deleting
    BY DEF HubInv, Whole, DeletionSees, Deleting
  <1>2. disk' = disk /\ Unneeded \subseteq Settled
    <2>1. ASSUME Frame PROVE FALSE
      BY <2>1 DEF Frame, deleteVars
    <2>2. ASSUME NEW p \in Places, Removes(p) PROVE FALSE
      BY <1>1, <2>2, RemovesIs DEF Ground
    <2>3. ASSUME NEW p \in Snapshots \cup Friendly, UserTouches(p) PROVE FALSE
      BY <2>3 DEF UserTouches
    <2>4. ASSUME NEW j \in Jobs, JobBegins(j) \/ JobStep(j) PROVE FALSE
      BY <2>1, <2>4, <1>1 DEF JobBegins, JobStep
    <2>5. ASSUME RebuildBegins PROVE FALSE
      BY <1>1, <2>5 DEF RebuildBegins
    <2>6. ASSUME NEW selected \in Selections, BeginDelete(selected) PROVE FALSE
      BY <1>1, <2>6 DEF BeginDelete
    <2>7. ASSUME RecordTombstones PROVE FALSE
      BY <2>7 DEF RecordTombstones
    <2>8. ASSUME Crash PROVE FALSE
      BY <2>8, CrashIs, NoDeletionIs
    <2>9. ASSUME NEW t \in Tasks, TaskStep(t) PROVE FALSE
      BY <2>1, <2>9 DEF TaskStep
    <2>10. NextPass
      BY <2>1, <2>2, <2>3, <2>4, <2>5, <2>6, <2>7, <2>8, <2>9, StepsAre
    <2>11. QED
      BY <1>1, <2>10, NextPassIs DEF Ground
  <1>3. \A p \in deletion.removed : disk[p] = Absent
    BY <1>1 DEF DeletionKnows
  <1>4. /\ deletion.selected \subseteq Snapshots /\ DOMAIN deletion.leads \subseteq Friendly
        /\ deletion.candidates \subseteq Blobs /\ deletion.refs \in [Blobs -> SUBSET Snapshots]
    BY <1>1 DEF Ground, Typed, DeletionTyped, Deletions, Leads
  <1>5. ASSUME ~deletion.errors
        PROVE  /\ \A p \in deletion.selected : disk[p] = Absent
               /\ \A n \in Friendly : ~(disk[n].kind = "link" /\ disk[n].to \in deletion.selected)
               /\ \A b \in deletion.candidates : disk[b] # Absent =>
                    \E p \in (Snapshots \cup Friendly) \ (deletion.selected \cup DOMAIN deletion.leads) :
                       StatIn(deletion.seen, p) = disk[b]
    <2>1. /\ Settled = deletion.removed /\ deletion.selected \subseteq deletion.removed
          /\ DOMAIN deletion.leads \subseteq deletion.removed /\ Unneeded \subseteq deletion.removed
      BY <1>1, <1>2, <1>5 DEF DeletionKnows, Since, Settled
    <2>2. \A p \in deletion.selected : disk[p] = Absent
      BY <1>3, <2>1
    <2>3. ASSUME NEW n \in Friendly, disk[n].kind = "link" PROVE disk[n].to \notin deletion.selected
      <3>1. n \notin DOMAIN deletion.leads
        BY <1>3, <2>1, <2>3, EntriesAre
      <3>2. QED
        BY <1>1, <2>3, <3>1 DEF Found, Since
    <2>4. ASSUME NEW b \in deletion.candidates, disk[b] # Absent
          PROVE  \E p \in (Snapshots \cup Friendly) \ (deletion.selected \cup DOMAIN deletion.leads) :
                    StatIn(deletion.seen, p) = disk[b]
      <3>1. b \in Blobs /\ disk[b] = deletion.seen[b]
        BY <1>1, <1>4, <2>4 DEF Since
      <3>2. b \in deletion.retained \/ deletion.refs[b] \ deletion.removed # {}
        BY <1>3, <2>1, <2>4 DEF Unneeded, StillReferenced
      <3>3. CASE b \in deletion.retained
        <4>1. PICK n \in Friendly \ DOMAIN deletion.leads : StatIn(deletion.seen, n) = deletion.seen[b]
          BY <1>1, <3>3 DEF Found
        <4>2. n \notin deletion.selected
          BY <1>4, PlacesApart
        <4>3. QED
          BY <3>1, <4>1, <4>2
      <3>4. CASE deletion.refs[b] \ deletion.removed # {}
        <4>1. PICK p \in deletion.refs[b] \ deletion.removed : TRUE
          BY <3>4
        <4>2. p \in Snapshots /\ p \notin deletion.selected /\ p \notin DOMAIN deletion.leads
          BY <1>4, <2>1, <3>1, <4>1, PlacesApart
        <4>3. StatIn(deletion.seen, p) = deletion.seen[b]
          BY <1>1, <3>1, <4>1 DEF Found
        <4>4. QED
          BY <3>1, <4>2, <4>3
      <3>5. QED
        BY <3>2, <3>3, <3>4
    <2>5. QED
      BY <2>2, <2>3, <2>4
  <1>6. QED
    BY <1>2, <1>3, <1>5

---------------------------------------------------------------------------
(* The theorems *)

\* The invariant holds in every state of the cache.
THEOREM HubInvariant == Spec => []HubInv
  BY InitInv, StepInv, PTL DEF Spec

\* Whoever writes, fails or dies at whatever step, and whatever the user does,
\* no link of a saved version dangles, and every file of a completed download
\* is readable but for the exceptions CompletedIsPresent names.
THEOREM StoredIsPresentAlways == Spec => []StoredIsPresent
  BY HubInvariant, InvIsStored, PTL

\* A rebuild that ran beside no download and reports no error has made the
\* friendly view show its version (Rebuild).
THEOREM RebuildConvergesAlways == Spec => []RebuildConverges
  BY HubInvariant, InvConverges, PTL

\* No download of other files, no rebuild and no failure brings back what was
\* deleted without an error.
THEOREM DeletedStaysDeletedAlways == Spec => []DeletedStaysDeleted
  BY HubInvariant, InvIsGone, PTL

\* A deletion takes away what was selected and nothing that anything else
\* shows, and its answer is true, even when the user changes entries under it.
THEOREM DeletionIsExactAlways == Spec => DeletionIsExact
  <1>1. HubInv /\ [Next]_vars =>
          (Deleting /\ touches' = touches =>
             /\ \A p \in Snapshots \cup Friendly :
                  p \notin deletion.selected /\ ~ShowsSelected(p) /\ Stat(p).kind = "file" =>
                    StatIn(disk', p) = Stat(p)
             /\ \A p \in Places : disk[p].kind = "file" /\ disk[p] # deletion.seen[p] =>
                  disk'[p] = disk[p]) \/ UNCHANGED vars
    BY SparesTheRest
  <1>2. HubInv /\ [Next]_vars =>
          (deletion.stage = "blobs" /\ deletion'.stage = "answered" =>
             /\ \A p \in deletion.removed : disk'[p] = Absent
             /\ ~deletion.errors =>
                  /\ \A p \in deletion.selected : disk'[p] = Absent
                  /\ \A n \in Friendly : ~(disk'[n].kind = "link" /\ disk'[n].to \in deletion.selected)
                  /\ \A b \in deletion.candidates : disk'[b] # Absent =>
                       \E p \in (Snapshots \cup Friendly) \ (deletion.selected \cup DOMAIN deletion.leads) :
                          StatIn(deletion.seen, p) = disk'[b]) \/ UNCHANGED vars
    BY AnswersTruly
  <1>3. Spec => DeletionSparesTheRest
    BY <1>1, HubInvariant, PTL DEF Spec, DeletionSparesTheRest
  <1>4. Spec => AnswerIsTrue
    BY <1>2, HubInvariant, PTL DEF Spec, AnswerIsTrue
  <1>5. QED
    BY <1>3, <1>4 DEF DeletionIsExact
=============================================================================
