---------------------------- MODULE MCHubCache ----------------------------
(***************************************************************************)
(* HubCache for TLC: two versions of two files; one payload is shared by   *)
(* both files of the first version and by the first file of the second.    *)
(***************************************************************************)
EXTENDS HubCache

CONSTANT MaxDisturbances

MCVersions == {"v1", "v2"}
MCFiles == {"a", "b"}
MCSha == [v1 |-> [a |-> "s", b |-> "s"], v2 |-> [a |-> "s", b |-> "t"]]
MCContents == {"s", "t"}

\* Two jobs for the first version, which both place the entry of a, and one
\* for a file of the second.
MCJobs == {"first", "second", "other"}
MCJobCommit == [first |-> "v1", second |-> "v1", other |-> "v2"]
MCJobFiles == [first |-> {"a", "b"}, second |-> {"a"}, other |-> {"b"}]

\* File systems with every kind of link, with hard links inside the hub only.
Every == [sym |-> TRUE, hard |-> TRUE]
Nothing == [sym |-> FALSE, hard |-> FALSE]
MCFileSystems ==
    {[hub |-> Every, view |-> Every],
     [hub |-> [sym |-> FALSE, hard |-> TRUE], view |-> Nothing]}

MCSelections == {{SnapshotPath("v1", "a")}, {SnapshotPath("v1", "b"), SnapshotPath("v2", "b")}}

\* A process that has written nothing yet.
MCFresh ==
    /\ temp = {} /\ job = [j \in Jobs |-> "idle"]
    /\ task = [t \in Tasks |-> "none"] /\ skip = {}
    /\ entry = [p \in Tasks \cup {RebuildProc} |-> "compare"]
    /\ rebuild = Idle /\ faults = 0 /\ rebuilds = 0
    /\ linkFailed = [r \in Roots |-> Nothing]
    /\ deletion = NoDeletion /\ gone = {} /\ touches = 0 /\ crashes = 0

\* An empty cache: jobs, and no deletion.
MCEmpty ==
    /\ MCFresh /\ supports \in FileSystems /\ ref = None /\ manifest = NoManifest
    /\ starts = 0 /\ deletes = MaxDeletes
    /\ disk = [p \in Places |-> Absent]

\* Both versions stored, the first one shown, the entries in forms downloads
\* leave, and a name of the user's own in the friendly view; one more job
\* runs, and one deletion.
MCStored ==
    /\ MCFresh /\ supports = [hub |-> Every, view |-> Every]
    /\ ref = "v1" /\ manifest = Written("v1", MCFiles)
    /\ starts = MaxStarts - 1 /\ deletes = 0
    /\ \E forms \in {<<Link(BlobPath("s")), Link(SnapshotPath("v1", "a"))>>,
                     <<Link(BlobPath("s")), File("s", 4)>>,
                     <<File("s", 1), File("s", 1)>>},
          b \in {Link(BlobPath("s")), File("s", 1)},
          other \in {Absent} \cup {Link(p) : p \in {FriendlyPath("a"), FriendlyPath("other"), BlobPath("s")}} :
         disk = [p \in Places |->
                   CASE p = BlobPath("s") -> File("s", 1)
                     [] p = BlobPath("t") -> File("t", 1)
                     [] p = SnapshotPath("v1", "a") -> forms[1]
                     [] p = SnapshotPath("v1", "b") -> b
                     [] p = SnapshotPath("v2", "b") -> Link(BlobPath("t"))
                     [] p = FriendlyPath("a") -> forms[2]
                     [] p = FriendlyPath("b") -> Link(SnapshotPath("v1", "b"))
                     [] p = FriendlyPath("other") -> other
                     [] OTHER -> Absent]

\* Bound: failing calls, ends of the process and changes by the user together.
MCFewDisturbances == faults + crashes + touches <= MaxDisturbances

MCSpec == (MCEmpty \/ MCStored) /\ [][Next]_vars
=============================================================================
