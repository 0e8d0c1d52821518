---------------------------- MODULE LocalDelete ----------------------------
(***************************************************************************)
(* The deletion of one selected group of files from a directory of models  *)
(* that the user keeps: the group is read again and compared with the      *)
(* request, each of its files is pinned, compared once more and removed.   *)
(* The user changes the directory meanwhile.                               *)
(* Source: internal/server/cache_selection_delete.go                       *)
(* (handleSelectedCacheDelete), cache_selection.go, selected_link_pin*.go. *)
(*                                                                         *)
(* A file has a number, which the file system gives to a new file when     *)
(* nothing refers to the old one any more, and a birth, which the program  *)
(* cannot see.                                                             *)
(***************************************************************************)
EXTENDS Integers, Sequences, FiniteSets

CONSTANTS
    Walk,        \* names of model files in the order of the walk
    Members,     \* names of the selected group
    InSub,       \* names in the sub-directory; the others are in the repository
    Numbers,     \* inode numbers
    Sizes,       \* sizes of files
    MaxTouches,  \* bound: changes by the user
    MaxFaults    \* bound: calls that fail

Names == {Walk[i] : i \in DOMAIN Walk}

ASSUME LocalDeleteAssumption ==
    /\ Walk \in Seq(Names) /\ \A i, j \in DOMAIN Walk : Walk[i] = Walk[j] => i = j
    /\ Members \subseteq Names /\ Members # {} /\ InSub \subseteq Names
    /\ {MaxTouches, MaxFaults} \subseteq Nat /\ Numbers \subseteq Nat

\* The repository and what may be put in its place, with a sub-directory each;
\* the first has two candidates for its sub-directory.
Repos == {"repo", "repo2"}
Subs == {"sub", "sub2", "other"}
Dirs == Repos \cup Subs

Absent == [kind |-> "absent", number |-> 0, born |-> 0, size |-> 0]
Entry == [kind : {"file", "link"}, number : Numbers, born : 0..MaxTouches, size : Sizes]
SameFile(a, b) == a.kind # "absent" /\ a.kind = b.kind /\ a.number = b.number

VARIABLES
    repoAt, subAt,  \* the directories found under the two names
    disk,           \* entry of each name in each directory
    request,        \* the confirmed members: kind and size of each
    pinBy,          \* "handle", or "link" where files cannot be opened
    stage, walked,  \* of the request; names the current walk has passed
    root,           \* the repository directory that was opened
    parent,         \* parent handles that were opened, by name of the directory
    pin,            \* what each member's pin was when it was made
    held,           \* members whose pin is an open handle
    linked,         \* hard-link pins that were made: member and parent
    container,      \* parents with a directory for pins
    pinFiles, pinDirs,  \* pins and their directories on disk
    removed, remaining, errors, cleanupErrors, refused,   \* the answer
    unlinkIn,       \* directory of the entry that was checked last
    touched,        \* history: the user changed something since that check
    touches, faults \* bounds

treeVars == <<repoAt, subAt, disk>>
pinVars == <<parent, pin, held, linked, container, pinFiles, pinDirs>>
answerVars == <<removed, remaining, errors, cleanupErrors, refused>>
vars == <<treeVars, request, pinBy, stage, walked, root, pinVars, answerVars, unlinkIn,
          touched, touches, faults>>

SubIn(repo) == IF repo = "repo" THEN subAt ELSE "other"
Home(n) == IF n \in InSub THEN "sub" ELSE "repo"
DirIn(repo, n) == IF n \in InSub THEN SubIn(repo) ELSE repo
Lstat(repo, n) == disk[DirIn(repo, n)][n]

TypeOK ==
    /\ repoAt \in Repos /\ subAt \in Subs
    /\ disk \in [Dirs -> [Names -> Entry \cup {Absent}]]
    /\ stage \in {"open", "scan", "reserve", "rescan", "check", "pin", "verify", "compare",
                  "recheck", "unlink", "cleanup", "answered"}
    /\ pin \in [Members -> Entry \cup {Absent}]
    /\ pinFiles \subseteq Members \X {"repo", "sub"}
    /\ removed \cup remaining \subseteq Members

\* The group as a walk finds it: name, size and whether it is a link.
Composition(repo) ==
    [n \in {m \in Names : Lstat(repo, m).kind # "absent"} |->
        [kind |-> Lstat(repo, n).kind, size |-> Lstat(repo, n).size]]

Matches(e, n) == e.kind = request[n].kind /\ e.size = request[n].size

Fault == faults < MaxFaults /\ faults' = faults + 1

\* Without an answer so far the request is refused; pins are cleaned up.
Refuse ==
    /\ refused' = TRUE
    /\ stage' = IF stage \in {"open", "scan", "reserve", "rescan"} THEN "answered" ELSE "cleanup"

---------------------------------------------------------------------------
\* openSelectedLocalRepo.
OpenRepo ==
    /\ stage = "open" /\ stage' = "scan" /\ root' = repoAt
    /\ UNCHANGED <<treeVars, request, pinBy, walked, pinVars, answerVars, unlinkIn, touched, touches, faults>>

\* The handler's admission: what was opened is what has the configured name.
StillConfigured == repoAt = root

\* The directory is still the configured one, and the group is the one the
\* user has confirmed: before the reservation and after it.
Scan ==
    /\ stage \in {"scan", "rescan"}
    /\ IF StillConfigured /\ Composition(root) = request
       THEN stage' = (IF stage = "scan" THEN "reserve" ELSE "check") /\ UNCHANGED refused
       ELSE Refuse
    /\ UNCHANGED <<treeVars, request, pinBy, walked, root, pinVars, removed, remaining, errors,
                   cleanupErrors, unlinkIn, touched, touches, faults>>

\* reserveSelectedGGUF: no job may write to a member until the answer
\* (WriteLeases), or the request is refused.
Reserve ==
    /\ stage = "reserve"
    /\ \/ stage' = "rescan" /\ UNCHANGED <<refused, faults>>
       \/ Fault /\ Refuse
    /\ UNCHANGED <<treeVars, request, pinBy, walked, root, pinVars, removed, remaining, errors,
                   cleanupErrors, unlinkIn, touched, touches>>

Current == Walk[walked + 1]
WalkUnchanged == UNCHANGED <<treeVars, request, pinBy, root, removed, remaining, errors,
                             cleanupErrors, unlinkIn, touched, touches>>

\* The last walk: other files are only counted, a member is compared.
CheckNext ==
    /\ stage = "check" /\ walked < Len(Walk)
    /\ LET e == Lstat(root, Current)
       IN IF Current \in Members
          THEN IF Matches(e, Current) THEN stage' = "pin" /\ UNCHANGED <<refused, walked>>
               ELSE Refuse /\ UNCHANGED walked
          ELSE IF e.kind # "absent" THEN Refuse /\ UNCHANGED walked
               ELSE walked' = walked + 1 /\ UNCHANGED <<stage, refused>>
    /\ WalkUnchanged /\ UNCHANGED <<pinVars, faults>>

\* Mutant: the file is looked at and not kept open.
HandleForgotten(n, e) ==
    pin' = [pin EXCEPT ![n] = e] /\ UNCHANGED <<parent, held, linked, container, pinFiles, pinDirs>>

\* An open file keeps its number.
HandlePin(n, e) ==
    /\ pin' = [pin EXCEPT ![n] = e] /\ held' = held \cup {n}
    /\ UNCHANGED <<parent, linked, container, pinFiles, pinDirs>>

\* hardLinkParent: a handle of the directory, opened once.
Opened(home) ==
    IF parent[home] # "" THEN parent
    ELSE [parent EXCEPT ![home] = IF home = "sub" THEN SubIn(root) ELSE root]

\* verifyHardLinkParentBinding.
ParentHolds(p, home) == p[home] \in {root, SubIn(root)}

\* ensureHardLinkContainer: the directory for the pins of a parent is made once.
EnsureHardLinkContainer(home) ==
    container' = container \cup {home} /\ pinDirs' = pinDirs \cup {home}

\* pinByHardLinkAt: a link to the file in a new directory beside the file or,
\* when that may not be made, in the repository.
LinkPin(n, home) ==
    LET e == Lstat(root, n)
    IN /\ parent' = Opened(Home(n))
       /\ IF ParentHolds(parent', Home(n)) /\ Matches(e, n)
          THEN /\ EnsureHardLinkContainer(home)
               /\ linked' = linked \cup {<<n, home>>}
               /\ pinFiles' = pinFiles \cup {<<n, home>>}
               /\ pin' = [pin EXCEPT ![n] = e]
               /\ stage' = "verify" /\ UNCHANGED refused
          ELSE Refuse /\ UNCHANGED <<container, linked, pinFiles, pinDirs, pin>>
       /\ UNCHANGED held

\* pin: Linux and Windows open the name by its path, others below the root.
PinMember ==
    /\ stage = "pin"
    /\ \/ /\ pinBy = "handle" \/ request[Current].kind = "link"
          /\ \E repo \in {root, repoAt} :
               LET e == Lstat(repo, Current)
               IN IF e.kind = "absent" THEN Refuse /\ UNCHANGED pinVars
                  ELSE HandlePin(Current, e) /\ stage' = "verify" /\ UNCHANGED refused
          /\ UNCHANGED faults
       \/ /\ pinBy = "link" /\ request[Current].kind = "file"
          /\ \/ LinkPin(Current, Home(Current)) /\ UNCHANGED faults
             \/ Home(Current) = "sub" /\ LinkPin(Current, "repo") /\ Fault
             \/ Refuse /\ Fault /\ UNCHANGED pinVars
    /\ WalkUnchanged /\ UNCHANGED walked

\* What is pinned is what has the name.
VerifyPin ==
    /\ stage = "verify"
    /\ LET e == Lstat(root, Current)
       IN IF /\ SameFile(pin[Current], e) /\ Matches(e, Current)
             /\ (\E p \in linked : p[1] = Current) => ParentHolds(parent, Home(Current))
          THEN stage' = "check" /\ walked' = walked + 1 /\ UNCHANGED refused
          ELSE Refuse /\ UNCHANGED walked
    /\ WalkUnchanged /\ UNCHANGED <<pinVars, faults>>

WalkDone ==
    /\ stage = "check" /\ walked = Len(Walk)
    /\ stage' = "compare" /\ walked' = 0
    /\ WalkUnchanged /\ UNCHANGED <<pinVars, refused, faults>>

IsPinned(e, n) == SameFile(pin[n], e) /\ e.size = pin[n].size

\* Before the first removal every member is compared with its pin.
Compare ==
    /\ stage = "compare"
    /\ IF walked = Len(Walk) THEN stage' = "recheck" /\ walked' = 0 /\ UNCHANGED refused
       ELSE IF Current \notin Members \/ IsPinned(Lstat(root, Current), Current)
            THEN walked' = walked + 1 /\ UNCHANGED <<stage, refused>>
            ELSE Refuse /\ UNCHANGED walked
    /\ WalkUnchanged /\ UNCHANGED <<pinVars, faults>>

---------------------------------------------------------------------------
Later == {Walk[i] : i \in (walked + 1)..Len(Walk)} \cap Members

\* Mutant: a change is answered with a refusal whatever was removed before.
AlwaysRefuse == Refuse /\ UNCHANGED <<remaining, errors>>

\* A member has changed: nothing was removed yet, or the rest remains.
StopRemoving ==
    IF removed = {} THEN Refuse /\ UNCHANGED <<remaining, errors>>
    ELSE /\ remaining' = remaining \cup Later /\ errors' = TRUE
         /\ stage' = "cleanup" /\ UNCHANGED refused

\* Immediately before each removal: the parent is the one that was opened,
\* and the entry is the pinned one.
Recheck ==
    /\ stage = "recheck" /\ walked < Len(Walk)
    /\ IF Current \notin Members
       THEN /\ walked' = walked + 1
            /\ UNCHANGED <<parent, stage, refused, remaining, errors, unlinkIn, touched>>
       ELSE LET dir == Opened(Home(Current))[Home(Current)]
            IN /\ parent' = Opened(Home(Current)) /\ UNCHANGED walked
               /\ IF ParentHolds(parent', Home(Current)) /\ IsPinned(disk[dir][Current], Current)
                  THEN /\ stage' = "unlink" /\ unlinkIn' = dir /\ touched' = FALSE
                       /\ UNCHANGED <<refused, remaining, errors>>
                  ELSE StopRemoving /\ UNCHANGED <<unlinkIn, touched>>
    /\ UNCHANGED <<treeVars, request, pinBy, root, pin, held, linked, container, pinFiles, pinDirs,
                   removed, cleanupErrors, touches, faults>>

\* The removal, through the parent handle.  A removal that fails is an error
\* of this member; the others are still removed.
Unlink ==
    /\ stage = "unlink" /\ stage' = "recheck" /\ walked' = walked + 1
    /\ \/ /\ disk[unlinkIn][Current].kind # "absent"
          /\ disk' = [disk EXCEPT ![unlinkIn][Current] = Absent]
          /\ removed' = removed \cup {Current} /\ UNCHANGED <<remaining, errors, faults>>
       \/ /\ IF disk[unlinkIn][Current].kind = "absent" THEN UNCHANGED faults ELSE Fault
          /\ remaining' = remaining \cup {Current} /\ errors' = TRUE
          /\ UNCHANGED <<disk, removed>>
    /\ UNCHANGED <<repoAt, subAt, request, pinBy, root, pinVars, refused, cleanupErrors, unlinkIn,
                   touched, touches>>

RemovalDone ==
    /\ stage = "recheck" /\ walked = Len(Walk) /\ stage' = "cleanup"
    /\ UNCHANGED <<treeVars, request, pinBy, walked, root, pinVars, answerVars, unlinkIn, touched,
                   touches, faults>>

---------------------------------------------------------------------------
\* cleanup: handles are closed, each hard-link pin is removed if it still is
\* the pin, then its directory.  What is left, or was changed, is reported.
CleanupUnchanged ==
    UNCHANGED <<treeVars, request, pinBy, walked, root, parent, pin, removed, remaining, errors,
                unlinkIn, touched, touches>>

RemovePin(p) ==
    /\ linked' = linked \ {p}
    /\ \/ pinFiles' = pinFiles \ {p} /\ cleanupErrors' = (cleanupErrors \/ p \notin pinFiles) /\ UNCHANGED faults
       \/ p \in pinFiles /\ Fault /\ cleanupErrors' = TRUE /\ UNCHANGED pinFiles

CleanupPin(p) ==
    /\ stage = "cleanup" /\ p \in linked
    /\ RemovePin(p)
    /\ CleanupUnchanged /\ UNCHANGED <<held, container, pinDirs, refused, stage>>

CleanupContainer(home) ==
    /\ stage = "cleanup" /\ home \in container /\ \A p \in linked : p[2] # home
    /\ container' = container \ {home}
    /\ LET empty == \A p \in pinFiles : p[2] # home
       IN \/ empty /\ pinDirs' = pinDirs \ {home} /\ UNCHANGED <<cleanupErrors, faults>>
          \/ cleanupErrors' = TRUE /\ UNCHANGED pinDirs /\ (IF empty THEN Fault ELSE UNCHANGED faults)
    /\ CleanupUnchanged /\ UNCHANGED <<held, linked, pinFiles, refused, stage>>

\* The answer: a refusal, or what was removed and what remains.  Failures of
\* the cleanup turn an answer that has nothing removed into a refusal.
Answer ==
    /\ stage = "cleanup" /\ linked = {} /\ container = {}
    /\ LET moved == \E home \in DOMAIN parent : parent[home] # "" /\ ~ParentHolds(parent, home)
       IN /\ cleanupErrors' = (cleanupErrors \/ moved)
          /\ refused' = (refused \/ (removed = {} /\ cleanupErrors'))
    /\ stage' = "answered" /\ held' = {}
    /\ CleanupUnchanged /\ UNCHANGED <<linked, container, pinFiles, pinDirs, faults>>

---------------------------------------------------------------------------
\* The user changes the directories while the request is handled.
NumbersInUse ==
    {disk[d][n].number : d \in Dirs, n \in Names}
    \cup {pin[n].number : n \in held \cup {p[1] : p \in pinFiles}}
FreeNumbers == Numbers \ NumbersInUse

UserUnchanged ==
    UNCHANGED <<request, pinBy, stage, walked, root, parent, pin, held, linked, container,
                pinDirs, answerVars, unlinkIn, faults>>
Touch ==
    /\ stage # "answered" /\ touches < MaxTouches
    /\ touches' = touches + 1 /\ touched' = (stage = "unlink")
    /\ UserUnchanged

\* A file goes, or comes, or another takes its place: the new one gets the
\* lowest number that nothing uses.
UserRemoves(d, n) ==
    /\ disk[d][n].kind # "absent" /\ Touch
    /\ disk' = [disk EXCEPT ![d][n] = Absent] /\ UNCHANGED <<repoAt, subAt, pinFiles>>
UserCreates(d, n) ==
    /\ disk[d][n].kind = "absent" /\ FreeNumbers # {} /\ Touch
    /\ LET free == CHOOSE i \in FreeNumbers : \A k \in FreeNumbers : i <= k
       IN \E kind \in {"file", "link"}, size \in Sizes :
            disk' = [disk EXCEPT ![d][n] = [kind |-> kind, number |-> free,
                                            born |-> touches', size |-> size]]
    /\ UNCHANGED <<repoAt, subAt, pinFiles>>
UserMovesRepo ==
    Touch /\ repoAt' \in Repos \ {repoAt} /\ UNCHANGED <<subAt, disk, pinFiles>>
UserMovesSub ==
    Touch /\ subAt' \in {"sub", "sub2"} \ {subAt} /\ UNCHANGED <<repoAt, disk, pinFiles>>
UserTakesPin(p) ==
    p \in pinFiles /\ Touch /\ pinFiles' = pinFiles \ {p} /\ UNCHANGED treeVars

\* The files of the directory; the sub-directory that may take the place of
\* the first one has another name of the same file.
Init ==
    /\ repoAt = "repo" /\ subAt = "sub"
    /\ \E files \in [Members -> Entry] :
         /\ \A n \in Members : files[n].born = 0
         /\ \A m, n \in Members : m # n => files[m].number < files[n].number \/ files[n].number < files[m].number
         /\ disk = [d \in Dirs |-> [n \in Names |->
                      IF n \in Members /\ d \in (IF n \in InSub THEN {"sub", "sub2"} ELSE {"repo"})
                      THEN files[n] ELSE Absent]]
         /\ request = [n \in Members |-> [kind |-> files[n].kind, size |-> files[n].size]]
    /\ pinBy \in {"handle", "link"}
    /\ stage = "open" /\ walked = 0 /\ root = "repo"
    /\ parent = [home \in {"repo", "sub"} |-> ""]
    /\ pin = [n \in Members |-> Absent] /\ held = {} /\ linked = {}
    /\ container = {} /\ pinFiles = {} /\ pinDirs = {}
    /\ removed = {} /\ remaining = {} /\ errors = FALSE /\ cleanupErrors = FALSE /\ refused = FALSE
    /\ unlinkIn = "repo" /\ touched = FALSE /\ touches = 0 /\ faults = 0

Next ==
    \/ OpenRepo \/ Scan \/ Reserve \/ CheckNext \/ PinMember \/ VerifyPin \/ WalkDone
    \/ Compare \/ Recheck \/ Unlink \/ RemovalDone \/ Answer
    \/ \E p \in Members \X {"repo", "sub"} : CleanupPin(p) \/ UserTakesPin(p)
    \/ \E home \in {"repo", "sub"} : CleanupContainer(home)
    \/ \E d \in Dirs, n \in Names : UserRemoves(d, n) \/ UserCreates(d, n)
    \/ UserMovesRepo \/ UserMovesSub

Spec == Init /\ [][Next]_vars

---------------------------------------------------------------------------
\* A file that is removed is the very file that was pinned, of the confirmed
\* kind and size, not another one that was given its number: however the user
\* replaces files and moves directories, but for a change in the moment
\* between the last comparison and the removal, which no call closes, and for
\* a hard-link pin that the user has taken away.
PinTaken(n) == \E p \in linked \ pinFiles : p[1] = n
RemovesWhatWasPinned ==
    [][removed' # removed =>
         LET e == disk[unlinkIn][Current]
         IN \/ touched \/ PinTaken(Current)
            \/ e = pin[Current] /\ Matches(e, Current)]_vars

\* A refusal has removed nothing; any other answer accounts for every member,
\* and one without errors has removed them all; and pins or directories of
\* pins that are left are reported.
AnswerIsHonest ==
    TypeOK /\ (stage = "answered" =>
        /\ refused => removed = {}
        /\ ~refused => /\ removed \cup remaining = Members /\ removed \cap remaining = {}
                       /\ remaining # {} => errors
        /\ pinFiles # {} \/ pinDirs # {} => cleanupErrors)
=============================================================================
