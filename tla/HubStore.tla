------------------------------ MODULE HubStore ------------------------------
(***************************************************************************)
(* The files of one repository in the hub cache: payloads (blobs/<sha>),   *)
(* the entries of the saved versions (snapshots/<commit>/<path>), the      *)
(* friendly view (models/<owner>/<name>/<path>), refs/<name> and the       *)
(* download manifest; and how one entry is placed: a symbolic link, else a *)
(* hard link, else a copy.                                                 *)
(* Source: pkg/hfdownloader/hfcache.go, linkplace.go, manifest.go.         *)
(*                                                                         *)
(* A name of the directory tree is a place; a payload is a place of its    *)
(* own.  The content of a file is the name of its SHA-256.                 *)
(***************************************************************************)
EXTENDS Integers, FiniteSets

CONSTANTS
    Versions,   \* commits of the repository
    Files,      \* repository paths
    Aliases,    \* names of the friendly view that the user has made
    Contents,   \* SHA-256 sums
    Sha,        \* content of each path at each version
    None,       \* no version
    Foreign,    \* content of a file of the user's own
    MaxInodes   \* bound: files with the same content at one time

ASSUME StoreAssumption ==
    /\ Sha \in [Versions -> [Files -> Contents]]
    /\ Foreign \notin Contents /\ None \notin Versions
    /\ Files \cap Aliases = {}
    /\ MaxInodes \in Nat \ {0}

BlobPath(c) == <<"blob", c>>
SnapshotPath(v, f) == <<"snap", v, f>>
FriendlyPath(n) == <<"view", n>>

Blobs == {BlobPath(c) : c \in Contents}
Snapshots == {SnapshotPath(v, f) : v \in Versions, f \in Files}
Friendly == {FriendlyPath(n) : n \in Files \cup Aliases}
Places == Blobs \cup Snapshots \cup Friendly

\* The directory that decides which kinds of link work: linkRootStateFor.
Roots == {"hub", "view"}
LinkRoot(p) == IF p \in Friendly THEN "view" ELSE "hub"

Absent == [kind |-> "absent"]
Link(p) == [kind |-> "link", to |-> p]
File(c, i) == [kind |-> "file", content |-> c, ino |-> i]

LinkKinds == [sym : BOOLEAN, hard : BOOLEAN]

VARIABLES
    disk,        \* what each place holds
    ref,         \* refs/main, or None
    manifest,    \* the download manifest: version, files, tombstones
    supports,    \* kinds of link that the file system of each root has
    linkFailed   \* linkRootState: kinds given up, in this process

storeVars == <<disk, ref, manifest, supports, linkFailed>>

NoManifest == [commit |-> None, files |-> {}, deleted |-> {}]

Entries == {Absent} \cup {Link(p) : p \in Places}
           \cup {File(c, i) : c \in Contents \cup {Foreign}, i \in 1..MaxInodes}

StoreTypeOK ==
    /\ disk \in [Places -> Entries]
    /\ ref \in Versions \cup {None}
    /\ manifest.commit \in Versions \cup {None}
    /\ manifest.files \subseteq Files /\ manifest.deleted \subseteq Files \X Versions
    /\ supports \in [Roots -> LinkKinds] /\ linkFailed \in [Roots -> LinkKinds]

---------------------------------------------------------------------------
\* os.Stat: the file behind a chain of links; Absent when the chain dangles,
\* and a link when it runs in a circle.  The longest other chain leads from a
\* name of the user's through the friendly and the snapshot entry to the payload.
StatIn(d, p) ==
    LET Follow(e) == IF e.kind = "link" THEN d[e.to] ELSE e
    IN Follow(Follow(Follow(Follow(d[p]))))

Stat(p) == StatIn(disk, p)
Exists(p) == disk[p].kind # "absent"
Dangles(p) == disk[p].kind = "link" /\ Stat(p).kind = "absent"
Readable(d, p, c) == StatIn(d, p).kind = "file" /\ StatIn(d, p).content = c

SameFile(a, b) == a.kind = "file" /\ a = b
SameContent(a, b) == a.kind = "file" /\ b.kind = "file" /\ a.content = b.content

\* A new file with content c.
NewFile(c) ==
    LET used == {disk[p].ino : p \in {q \in Places : disk[q].kind = "file" /\ disk[q].content = c}}
        free == (1..MaxInodes) \ used
    IN File(c, IF free = {} THEN MaxInodes
               ELSE CHOOSE i \in free : \A k \in free : i <= k)

\* CheckBlob = BlobComplete: other states lead to a transfer.  No code writes
\* the description of an incomplete payload that BlobDownloading would need.
BlobComplete(c) == Stat(BlobPath(c)).kind = "file"

---------------------------------------------------------------------------
\* What the entry at a place is made from: a snapshot entry from its payload,
\* a friendly entry from the snapshot entry of the version.
Source(p, v) == IF p \in Snapshots THEN BlobPath(Sha[p[2]][p[3]])
                ELSE SnapshotPath(v, p[2])

\* cacheEntryCorrect: a link is judged by its target, anything else by its
\* content; the content cannot be compared when the source does not resolve.
CannotCompare(p, src) == disk[p].kind = "file" /\ Stat(src).kind # "file"

\* Mutant: a link counts as correct whatever it points to.
AnyLinkIsCorrect(p, src) ==
    \/ disk[p].kind = "link"
    \/ SameContent(disk[p], Stat(src))

CacheEntryCorrect(p, src) ==
    \/ disk[p] = Link(src)
    \/ SameContent(disk[p], Stat(src))

\* placeCacheEntry: what is left at the place, which kinds of link were given
\* up, and whether an entry was placed.  A link call also fails when the name
\* is taken; a copy is staged and renamed over whatever the name holds.
PlaceCacheEntry(p, src) ==
    LET root == LinkRoot(p)
        source == Stat(src)
        trySym == ~linkFailed[root].sym
        sym == trySym /\ supports[root].sym /\ ~Exists(p)
        tryHard == ~sym /\ ~linkFailed[root].hard /\ source.kind = "file"
        hard == tryHard /\ supports[root].hard /\ ~Exists(p)
        copy == ~sym /\ ~hard /\ source.kind = "file"
    IN [entry |-> CASE sym -> Link(src)
                    [] hard -> source
                    [] copy -> NewFile(source.content)
                    [] OTHER -> disk[p],
        failed |-> [linkFailed EXCEPT
                      ![root].sym = @ \/ (trySym /\ ~sym),
                      ![root].hard = @ \/ (tryHard /\ ~hard)],
        placed |-> sym \/ hard \/ copy,
        copied |-> copy]

---------------------------------------------------------------------------
\* IsDeleted and RecordDeletion.  A manifest of another repository is not read.

\* Mutant: the tombstone of one version counts for no version.
NothingIsDeleted(m, f, v) == FALSE

IsDeleted(m, f, v) == <<f, v>> \in m.deleted
RecordDeletion(m, entries) ==
    [m EXCEPT !.deleted = @ \cup {<<p[3], p[2]>> : p \in entries}]

\* ManifestBuilder: a finished download replaces the manifest, tombstones
\* included, by what it has stored.
Written(v, files) == [commit |-> v, files |-> files, deleted |-> {}]

StoreInit ==
    /\ ref = None /\ manifest = NoManifest
    /\ linkFailed = [r \in Roots |-> [sym |-> FALSE, hard |-> FALSE]]
=============================================================================
