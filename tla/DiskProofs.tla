------------------------------ MODULE DiskProofs ------------------------------
(***************************************************************************)
(* What TLAPS proves about LocalDelete, for any directory, any selected    *)
(* group in it and any number of changes by the user and of failures, and  *)
(* about MirrorSync, for any repositories, files and filters, and any      *)
(* number of requests, failures and downloads.                             *)
(***************************************************************************)
EXTENDS LocalDelete, MirrorSync, WellFoundedInduction, TLAPS

---------------------------------------------------------------------------
(* The selected deletion *)

Stages ==
    {"open", "scan", "reserve", "rescan", "check", "pin", "verify", "compare",
     "recheck", "unlink", "cleanup", "answered"}
\* Stages without a pin, and those before the first removal.
Early == {"open", "scan", "reserve", "rescan"}
Before == Early \cup {"check", "pin", "verify", "compare"}

Parents == {"repo", "sub"}
Exists(e) == e.kind # "absent"

---------------------------------------------------------------------------
(* The invariant *)

Types ==
    /\ TypeOK
    /\ subAt \in {"sub", "sub2"} /\ root \in Repos /\ unlinkIn \in Dirs
    /\ parent \in [Parents -> Dirs \cup {""}]
    /\ walked \in 0..Len(Walk) /\ touches \in 0..MaxTouches
    /\ held \subseteq Members /\ linked \subseteq Members \X Parents
    /\ errors \in BOOLEAN /\ cleanupErrors \in BOOLEAN /\ refused \in BOOLEAN

\* A step of a member has one; the walk begins with the last check.
Visits ==
    /\ stage \in Early => walked = 0
    /\ stage \in {"pin", "verify", "unlink"} => walked < Len(Walk) /\ Current \in Members

\* The members that the current walk has passed.
Done == {Walk[i] : i \in 1..walked} \cap Members

Accounted(all) ==
    /\ removed \cup remaining = all /\ removed \cap remaining = {}
    /\ remaining # {} => errors

\* The answer so far accounts for what the walk has passed.
Accounts ==
    /\ stage \in Before => removed = {} /\ remaining = {} /\ refused = FALSE /\ errors = FALSE
    /\ stage \in {"recheck", "unlink"} => refused = FALSE /\ Accounted(Done)
    /\ stage \in {"cleanup", "answered"}
         => /\ refused = TRUE => removed = {}
            /\ refused = FALSE => Accounted(Members)

\* A pin on disk is known to the request, or was reported.
PinsReported ==
    /\ stage \in Early => linked = {} /\ container = {} /\ pinFiles = {} /\ pinDirs = {}
    /\ stage = "answered" => linked = {} /\ container = {}
    /\ \A p \in pinFiles : p \in linked \/ cleanupErrors = TRUE
    /\ \A h \in pinDirs : h \in container \/ cleanupErrors = TRUE

\* Two names of one number are names of one file.
OneFile ==
    \A d, e \in Dirs, m, n \in Names :
        Exists(disk[d][m]) /\ Exists(disk[e][n]) /\ disk[d][m].number = disk[e][n].number
        => disk[d][m] = disk[e][n]

\* A pin that keeps the number of its file.
Live(n) == n \in held \/ \E p \in pinFiles : p[1] = n

\* No other file has the number that a pin keeps.
PinsAreFiles ==
    \A n \in Members : Live(n) =>
        \A d \in Dirs, m \in Names :
            Exists(disk[d][m]) /\ disk[d][m].number = pin[n].number => disk[d][m] = pin[n]

HasPin(n) == n \in held \/ \E p \in linked : p[1] = n

\* The members whose pin was verified.
Passed ==
    IF stage \in {"check", "pin", "verify"} THEN Done
    ELSE IF stage \in {"compare", "recheck", "unlink"} THEN Members
    ELSE {}

Verified ==
    /\ \A n \in Passed : HasPin(n) /\ (PinTaken(n) \/ Matches(pin[n], n))
    /\ stage = "verify" => HasPin(Current)

\* What was compared last is what was pinned.
Checked ==
    stage = "unlink"
    => touched = TRUE \/ PinTaken(Current) \/ disk[unlinkIn][Current] = pin[Current]

DInv ==
    /\ Types /\ Visits /\ Accounts /\ PinsReported /\ OneFile /\ PinsAreFiles
    /\ Verified /\ Checked

---------------------------------------------------------------------------
(* The walk *)

LEMMA WalkFacts ==
    /\ Len(Walk) \in Nat /\ DOMAIN Walk = 1..Len(Walk)
    /\ Members \subseteq Names /\ Members # {}
    /\ \A i, j \in 1..Len(Walk) : Walk[i] = Walk[j] => i = j
    /\ MaxTouches \in Nat
  <1>1. Walk \in Seq(Names) /\ Members \subseteq Names /\ Members # {} /\ MaxTouches \in Nat
        /\ \A i, j \in DOMAIN Walk : Walk[i] = Walk[j] => i = j
    BY LocalDeleteAssumption
  <1>2. Len(Walk) \in Nat /\ DOMAIN Walk = 1..Len(Walk)
    BY <1>1
  <1>3. QED
    BY <1>1, <1>2

\* The walk passes each name once.
LEMMA WalkOn ==
    ASSUME walked \in 0..Len(Walk)
    PROVE  /\ walked = Len(Walk) => Done = Members
           /\ walked = 0 => Done = {}
           /\ walked < Len(Walk) => Current \in Names /\ Current \notin Done
           /\ walked < Len(Walk) /\ walked' = walked + 1
                => Done' = Done \cup ({Current} \cap Members) /\ walked' \in 0..Len(Walk)
  <1>1. walked = Len(Walk) => Done = Members
    BY WalkFacts DEF Done, Names
  <1>2. walked = 0 => Done = {}
    BY DEF Done
  <1>3. ASSUME walked < Len(Walk)
        PROVE  Current \in Names /\ Current \notin Done
    <2>1. walked + 1 \in 1..Len(Walk)
      BY <1>3, WalkFacts
    <2>2. \A i \in 1..walked : i \in 1..Len(Walk) /\ i # walked + 1
      BY <1>3, WalkFacts
    <2>3. QED
      BY <2>1, <2>2, WalkFacts DEF Current, Done, Names
  <1>4. ASSUME walked < Len(Walk), walked' = walked + 1
        PROVE  Done' = Done \cup ({Current} \cap Members) /\ walked' \in 0..Len(Walk)
    <2>1. 1..(walked + 1) = (1..walked) \cup {walked + 1}
      BY WalkFacts
    <2>2. QED
      BY <1>4, <2>1, WalkFacts DEF Done, Current
  <1>5. QED
    BY <1>1, <1>2, <1>3, <1>4

\* The directories that the request looks into.
LEMMA DirsFound ==
    ASSUME Types, NEW repo \in Repos, NEW n \in Names
    PROVE  /\ DirIn(repo, n) \in Dirs /\ SubIn(repo) \in Dirs /\ repo \in Dirs
           /\ Lstat(repo, n) \in Entry \cup {Absent}
           /\ Lstat(repo, n) = disk[DirIn(repo, n)][n]
           /\ Home(n) \in Parents
  <1>1. DirIn(repo, n) \in Dirs /\ SubIn(repo) \in Dirs /\ repo \in Dirs
    BY DEF Types, DirIn, SubIn, Dirs, Subs, Repos
  <1>2. disk \in [Dirs -> [Names -> Entry \cup {Absent}]]
    BY DEF Types, TypeOK
  <1>3. QED
    BY <1>1, <1>2 DEF Lstat, Home, Parents

\* A file that has the number of a pin is what was pinned, unless the pin was taken.
LEMMA PinnedFileIsThePin ==
    ASSUME DInv, NEW n \in Members, HasPin(n), NEW d \in Dirs, NEW m \in Names,
           SameFile(pin[n], disk[d][m])
    PROVE  PinTaken(n) \/ disk[d][m] = pin[n]
  <1>1. PinTaken(n) \/ Live(n)
    BY DEF HasPin, PinTaken, Live
  <1>2. Exists(disk[d][m]) /\ disk[d][m].number = pin[n].number
    BY DEF SameFile, Exists
  <1>3. QED
    BY <1>1, <1>2 DEF DInv, PinsAreFiles

---------------------------------------------------------------------------
(* What steps leave alone *)

\* Files and pins stay; pins may be closed or go.
LEMMA FilesStay ==
    ASSUME DInv, disk' = disk, pin' = pin, held' \subseteq held, pinFiles' \subseteq pinFiles
    PROVE  OneFile' /\ PinsAreFiles'
  <1>1. OneFile'
    BY DEF DInv, OneFile
  <1>2. PinsAreFiles'
    <2>1. ASSUME NEW n, Live(n)' PROVE Live(n)
      BY <2>1 DEF Live
    <2>2. QED
      BY <2>1 DEF DInv, PinsAreFiles
  <1>3. QED
    BY <1>1, <1>2

LEMMA DiskSame == ASSUME DInv, disk' = disk PROVE OneFile'
  BY DEF DInv, OneFile

\* The pins stay, and the answer to where the request was holds where it is.
LEMMA PinsStay ==
    ASSUME DInv, linked' = linked, container' = container, pinDirs' = pinDirs,
           pinFiles' = pinFiles, cleanupErrors' = cleanupErrors,
           stage' \in Early \cup {"answered"} => stage \in Early
    PROVE  PinsReported'
  BY DEF DInv, PinsReported, Early

\* What does not change while the request only looks.
Looks ==
    /\ disk' = disk /\ repoAt' = repoAt /\ subAt' = subAt /\ request' = request
    /\ pin' = pin /\ held' = held /\ linked' = linked /\ container' = container
    /\ pinFiles' = pinFiles /\ pinDirs' = pinDirs
    /\ removed' = removed /\ cleanupErrors' = cleanupErrors /\ touches' = touches

\* A step that only looks; where it goes says what is left to show.
LEMMA LookingKeeps ==
    ASSUME DInv, Looks, stage' \in Stages, root' \in Repos, walked' \in 0..Len(Walk),
           unlinkIn' \in Dirs, parent' \in [Parents -> Dirs \cup {""}],
           refused' \in BOOLEAN, errors' \in BOOLEAN, remaining' \subseteq Members,
           stage' \in Early \cup {"answered"} => stage \in Early,
           Visits', Accounts', Verified', Checked'
    PROVE  DInv'
  <1>1. Types'
    BY DEF DInv, Types, TypeOK, Looks, Stages
  <1>2. OneFile' /\ PinsAreFiles'
    BY FilesStay DEF Looks
  <1>3. PinsReported'
    BY PinsStay DEF Looks
  <1>4. QED
    BY <1>1, <1>2, <1>3 DEF DInv

\* The request is refused before anything is removed.
LEMMA RefusingKeeps ==
    ASSUME DInv, Looks, Refuse, removed = {}, root' \in Repos, walked' \in 0..Len(Walk),
           unlinkIn' \in Dirs, parent' \in [Parents -> Dirs \cup {""}],
           errors' \in BOOLEAN, remaining' \subseteq Members
    PROVE  DInv'
  <1>1. /\ refused' = TRUE /\ stage' \in {"answered", "cleanup"}
        /\ stage' = "answered" => stage \in Early
    BY DEF Refuse, Early
  <1>2. stage' \in Stages /\ refused' \in BOOLEAN
        /\ (stage' \in Early \cup {"answered"} => stage \in Early)
    BY <1>1 DEF Stages, Early
  <1>3. Visits' /\ Checked'
    BY <1>1 DEF Visits, Checked, Early
  <1>4. Accounts'
    BY <1>1 DEF Accounts, Looks, Before, Early
  <1>5. Verified'
    BY <1>1 DEF Verified, Passed
  <1>6. QED
    BY <1>2, <1>3, <1>4, <1>5, LookingKeeps

\* What was verified stays so while the request only looks.
LEMMA VerifiedStays ==
    ASSUME DInv, Looks, Passed' \subseteq Passed, stage' # "verify"
    PROVE  Verified'
  <1>1. \A n : /\ HasPin(n)' <=> HasPin(n)
               /\ PinTaken(n)' <=> PinTaken(n)
               /\ Matches(pin[n], n)' <=> Matches(pin[n], n)
    BY DEF Looks, HasPin, PinTaken, Matches
  <1>2. QED
    BY <1>1 DEF DInv, Verified

---------------------------------------------------------------------------
(* The steps of the request that only look *)

\* What a step that leaves its variables alone has, type by type.
LEMMA TypesHold ==
    ASSUME DInv
    PROVE  /\ root \in Repos /\ unlinkIn \in Dirs /\ parent \in [Parents -> Dirs \cup {""}]
           /\ walked \in 0..Len(Walk) /\ errors \in BOOLEAN /\ refused \in BOOLEAN
           /\ remaining \subseteq Members /\ removed \subseteq Members /\ stage \in Stages
           /\ repoAt \in Repos /\ cleanupErrors \in BOOLEAN
  BY DEF DInv, Types, TypeOK, Stages

LEMMA BeforeRemoval ==
    ASSUME DInv, stage \in Before
    PROVE  removed = {} /\ remaining = {} /\ refused = FALSE /\ errors = FALSE
  BY DEF DInv, Accounts

LEMMA OpenRepoKeeps == ASSUME DInv, OpenRepo PROVE DInv'
  <1>1. Looks
    BY DEF OpenRepo, Looks, treeVars, pinVars, answerVars
  <1>2. /\ stage = "open" /\ stage' = "scan" /\ root' = repoAt /\ walked' = walked
        /\ unlinkIn' = unlinkIn /\ parent' = parent /\ refused' = refused
        /\ errors' = errors /\ remaining' = remaining
    BY DEF OpenRepo, pinVars, answerVars
  <1>3. /\ stage' \in Stages /\ root' \in Repos /\ walked' \in 0..Len(Walk)
        /\ unlinkIn' \in Dirs /\ parent' \in [Parents -> Dirs \cup {""}]
        /\ refused' \in BOOLEAN /\ errors' \in BOOLEAN /\ remaining' \subseteq Members
        /\ (stage' \in Early \cup {"answered"} => stage \in Early)
    BY <1>2, TypesHold DEF Stages, Early
  <1>4. Visits' /\ Checked' /\ Verified'
    BY <1>2 DEF DInv, Visits, Checked, Verified, Passed, Early
  <1>5. Accounts'
    BY <1>1, <1>2, BeforeRemoval DEF Accounts, Looks, Before, Early
  <1>6. QED
    BY <1>1, <1>3, <1>4, <1>5, LookingKeeps

LEMMA ScanKeeps == ASSUME DInv, Scan PROVE DInv'
  <1>1. Looks
    BY DEF Scan, Looks, treeVars, pinVars
  <1>2. /\ stage \in {"scan", "rescan"} /\ root' = root /\ walked' = walked
        /\ unlinkIn' = unlinkIn /\ parent' = parent
        /\ errors' = errors /\ remaining' = remaining
    BY DEF Scan, pinVars
  <1>3. /\ root' \in Repos /\ walked' \in 0..Len(Walk)
        /\ unlinkIn' \in Dirs /\ parent' \in [Parents -> Dirs \cup {""}]
        /\ errors' \in BOOLEAN /\ remaining' \subseteq Members
    BY <1>2, TypesHold
  <1>4. removed = {} /\ remaining = {} /\ refused = FALSE /\ errors = FALSE
    BY <1>2, BeforeRemoval DEF Before, Early
  <1>5. CASE Refuse
    BY <1>1, <1>3, <1>4, <1>5, RefusingKeeps
  <1>6. CASE /\ stage' = (IF stage = "scan" THEN "reserve" ELSE "check")
             /\ refused' = refused
    <2>1. /\ stage' \in Stages /\ refused' \in BOOLEAN
          /\ (stage' \in Early \cup {"answered"} => stage \in Early)
      BY <1>2, <1>4, <1>6 DEF Stages, Early
    <2>2. Visits' /\ Checked' /\ walked = 0
      BY <1>2, <1>6 DEF DInv, Visits, Checked, Early
    <2>3. Accounts'
      BY <1>1, <1>2, <1>4, <1>6 DEF Accounts, Looks, Before, Early
    <2>4. Verified'
      <3>1. Passed' = {}
        BY <1>2, <1>6, <2>2 DEF Passed, Done
      <3>2. stage' # "verify"
        BY <1>6
      <3>3. QED
        BY <3>1, <3>2 DEF Verified
    <2>5. QED
      BY <1>1, <1>3, <2>1, <2>2, <2>3, <2>4, LookingKeeps
  <1>7. QED
    BY <1>5, <1>6 DEF Scan

LEMMA ReserveKeeps == ASSUME DInv, Reserve PROVE DInv'
  <1>1. Looks
    BY DEF Reserve, Looks, treeVars, pinVars
  <1>2. /\ stage = "reserve" /\ root' = root /\ walked' = walked
        /\ unlinkIn' = unlinkIn /\ parent' = parent
        /\ errors' = errors /\ remaining' = remaining
    BY DEF Reserve, pinVars
  <1>3. /\ root' \in Repos /\ walked' \in 0..Len(Walk)
        /\ unlinkIn' \in Dirs /\ parent' \in [Parents -> Dirs \cup {""}]
        /\ errors' \in BOOLEAN /\ remaining' \subseteq Members
    BY <1>2, TypesHold
  <1>4. removed = {} /\ remaining = {} /\ refused = FALSE /\ errors = FALSE
    BY <1>2, BeforeRemoval DEF Before, Early
  <1>5. CASE Refuse
    BY <1>1, <1>3, <1>4, <1>5, RefusingKeeps
  <1>6. CASE stage' = "rescan" /\ refused' = refused
    <2>1. /\ stage' \in Stages /\ refused' \in BOOLEAN
          /\ (stage' \in Early \cup {"answered"} => stage \in Early)
      BY <1>2, <1>4, <1>6 DEF Stages, Early
    <2>2. Visits' /\ Checked' /\ Verified'
      BY <1>2, <1>6 DEF DInv, Visits, Checked, Verified, Passed, Early
    <2>3. Accounts'
      BY <1>1, <1>2, <1>4, <1>6 DEF Accounts, Looks, Before, Early
    <2>4. QED
      BY <1>1, <1>3, <2>1, <2>2, <2>3, LookingKeeps
  <1>7. QED
    BY <1>5, <1>6 DEF Reserve

\* What the walks leave alone.
LEMMA WalkLooks ==
    ASSUME WalkUnchanged
    PROVE  /\ disk' = disk /\ repoAt' = repoAt /\ subAt' = subAt /\ request' = request
           /\ root' = root /\ removed' = removed /\ remaining' = remaining
           /\ errors' = errors /\ cleanupErrors' = cleanupErrors /\ unlinkIn' = unlinkIn
           /\ touched' = touched /\ touches' = touches
  BY DEF WalkUnchanged, treeVars

\* A step of a walk that changes no pin.
LEMMA WalkKeeps ==
    ASSUME DInv, WalkUnchanged, UNCHANGED pinVars, stage \in Before \ Early,
           walked' \in 0..Len(Walk),
           \/ Refuse
           \/ /\ refused' = refused /\ stage' \in Before \ Early
              /\ stage' \in {"pin", "verify"} => walked' < Len(Walk) /\ Current' \in Members
              /\ Verified'
           \/ refused' = refused /\ stage' = "recheck" /\ Done' = {} /\ Verified'
    PROVE  DInv'
  <1>1. /\ Looks /\ root' = root /\ remaining' = remaining /\ errors' = errors
        /\ unlinkIn' = unlinkIn /\ parent' = parent
    BY WalkLooks DEF Looks, pinVars
  <1>2. /\ root' \in Repos /\ unlinkIn' \in Dirs /\ parent' \in [Parents -> Dirs \cup {""}]
        /\ errors' \in BOOLEAN /\ remaining' \subseteq Members
    BY <1>1, TypesHold
  <1>3. removed = {} /\ remaining = {} /\ refused = FALSE /\ errors = FALSE
    BY BeforeRemoval DEF Before
  <1>4. CASE Refuse
    BY <1>1, <1>2, <1>3, <1>4, RefusingKeeps
  <1>5. ASSUME refused' = refused, stage' \in Before \ Early,
               stage' \in {"pin", "verify"} => walked' < Len(Walk) /\ Current' \in Members,
               Verified'
        PROVE  DInv'
    <2>1. stage' \in Stages /\ refused' \in BOOLEAN /\ stage' \notin Early \cup {"answered"}
      BY <1>3, <1>5 DEF Stages, Early, Before
    <2>2. Visits' /\ Checked'
      BY <1>5, <2>1 DEF Visits, Checked, Early, Before
    <2>3. Accounts'
      BY <1>1, <1>3, <1>5 DEF Accounts, Looks, Before, Early
    <2>4. QED
      BY <1>1, <1>2, <1>5, <2>1, <2>2, <2>3, LookingKeeps
  <1>6. ASSUME refused' = refused, stage' = "recheck", Done' = {}, Verified'
        PROVE  DInv'
    <2>1. stage' \in Stages /\ refused' \in BOOLEAN /\ stage' \notin Early \cup {"answered"}
      BY <1>3, <1>6 DEF Stages, Early
    <2>2. Visits' /\ Checked'
      BY <1>6 DEF Visits, Checked, Early
    <2>3. Accounts'
      BY <1>1, <1>3, <1>6 DEF Accounts, Accounted, Looks, Before, Early
    <2>4. QED
      BY <1>1, <1>2, <1>6, <2>1, <2>2, <2>3, LookingKeeps
  <1>7. QED
    BY <1>4, <1>5, <1>6

LEMMA CheckNextKeeps == ASSUME DInv, CheckNext PROVE DInv'
  <1>1. /\ stage = "check" /\ walked < Len(Walk) /\ WalkUnchanged /\ UNCHANGED pinVars
        /\ stage \in Before \ Early /\ walked \in 0..Len(Walk)
    BY TypesHold DEF CheckNext, Before, Early
  <1>2. Looks
    BY <1>1, WalkLooks DEF Looks, pinVars
  <1>3. CASE Refuse /\ walked' = walked
    BY <1>1, <1>3, WalkKeeps
  <1>4. CASE Current \in Members /\ stage' = "pin" /\ refused' = refused /\ walked' = walked
    <2>1. Current' = Current /\ Passed' = Passed
      BY <1>1, <1>4 DEF Current, Passed, Done
    <2>2. Verified'
      BY <1>2, <1>4, <2>1, VerifiedStays
    <2>3. stage' \in Before \ Early
      BY <1>4 DEF Before, Early
    <2>4. QED
      BY <1>1, <1>4, <2>1, <2>2, <2>3, WalkKeeps
  <1>5. CASE Current \notin Members /\ walked' = walked + 1 /\ stage' = stage
             /\ refused' = refused
    <2>1. Done' = Done /\ walked' \in 0..Len(Walk)
      BY <1>1, <1>5, WalkOn
    <2>2. Passed' = Passed
      BY <1>1, <1>5, <2>1 DEF Passed
    <2>3. Verified'
      BY <1>1, <1>2, <1>5, <2>2, VerifiedStays
    <2>4. stage' \in Before \ Early /\ stage' \notin {"pin", "verify"}
      BY <1>1, <1>5
    <2>5. QED
      BY <1>1, <1>5, <2>1, <2>3, <2>4, WalkKeeps
  <1>6. QED
    BY <1>3, <1>4, <1>5 DEF CheckNext

LEMMA VerifyPinKeeps == ASSUME DInv, VerifyPin PROVE DInv'
  <1>1. /\ stage = "verify" /\ walked < Len(Walk) /\ WalkUnchanged /\ UNCHANGED pinVars
        /\ stage \in Before \ Early /\ walked \in 0..Len(Walk)
        /\ Current \in Members /\ HasPin(Current)
    BY TypesHold DEF VerifyPin, Before, Early, DInv, Visits, Verified
  <1>2. Looks
    BY <1>1, WalkLooks DEF Looks, pinVars
  <1>3. CASE Refuse /\ walked' = walked
    BY <1>1, <1>3, WalkKeeps
  <1>4. ASSUME SameFile(pin[Current], Lstat(root, Current)), Matches(Lstat(root, Current), Current),
               stage' = "check", walked' = walked + 1, refused' = refused
        PROVE  DInv'
    <2>1. Done' = Done \cup {Current} /\ walked' \in 0..Len(Walk)
      BY <1>1, <1>4, WalkOn
    <2>2. Current \in Names /\ root \in Repos /\ Types
      BY <1>1, WalkFacts, TypesHold DEF DInv
    <2>3. DirIn(root, Current) \in Dirs /\ Lstat(root, Current) = disk[DirIn(root, Current)][Current]
      BY <2>2, DirsFound
    <2>4. PinTaken(Current) \/ Lstat(root, Current) = pin[Current]
      BY <1>1, <1>4, <2>2, <2>3, PinnedFileIsThePin
    <2>5. \A n \in Done \cup {Current} :
            HasPin(n) /\ (PinTaken(n) \/ Matches(pin[n], n))
      <3>1. Passed = Done
        BY <1>1 DEF Passed
      <3>2. QED
        BY <1>1, <1>4, <2>4, <3>1 DEF DInv, Verified
    <2>6. Passed' = Done \cup {Current}
      BY <1>4, <2>1 DEF Passed
    <2>7. \A n : /\ HasPin(n)' <=> HasPin(n)
                 /\ PinTaken(n)' <=> PinTaken(n)
                 /\ Matches(pin[n], n)' <=> Matches(pin[n], n)
      BY <1>2 DEF Looks, HasPin, PinTaken, Matches
    <2>8. Verified'
      BY <1>4, <2>5, <2>6, <2>7 DEF Verified
    <2>9. stage' \in Before \ Early /\ stage' \notin {"pin", "verify"}
      BY <1>4 DEF Before, Early
    <2>10. QED
      BY <1>1, <1>4, <2>1, <2>8, <2>9, WalkKeeps
  <1>5. QED
    BY <1>3, <1>4 DEF VerifyPin

LEMMA WalkDoneKeeps == ASSUME DInv, WalkDone PROVE DInv'
  <1>1. /\ stage = "check" /\ walked = Len(Walk) /\ WalkUnchanged /\ UNCHANGED pinVars
        /\ stage \in Before \ Early /\ walked \in 0..Len(Walk)
        /\ stage' = "compare" /\ walked' = 0 /\ refused' = refused
    BY TypesHold DEF WalkDone, Before, Early
  <1>2. Looks
    BY <1>1, WalkLooks DEF Looks, pinVars
  <1>3. Passed' = Members /\ Passed = Members
    BY <1>1, WalkOn DEF Passed
  <1>4. Verified'
    BY <1>1, <1>2, <1>3, VerifiedStays
  <1>5. stage' \in Before \ Early /\ stage' \notin {"pin", "verify"} /\ walked' \in 0..Len(Walk)
    BY <1>1, WalkFacts DEF Before, Early
  <1>6. QED
    BY <1>1, <1>4, <1>5, WalkKeeps

LEMMA CompareKeeps == ASSUME DInv, Compare PROVE DInv'
  <1>1. /\ stage = "compare" /\ WalkUnchanged /\ UNCHANGED pinVars
        /\ stage \in Before \ Early /\ walked \in 0..Len(Walk)
    BY TypesHold DEF Compare, Before, Early
  <1>2. Looks
    BY <1>1, WalkLooks DEF Looks, pinVars
  <1>3. Passed = Members
    BY <1>1 DEF Passed
  <1>4. CASE Refuse /\ walked' = walked
    BY <1>1, <1>4, WalkKeeps
  <1>5. CASE walked = Len(Walk) /\ stage' = "recheck" /\ walked' = 0 /\ refused' = refused
    <2>1. Verified'
      BY <1>2, <1>3, <1>5, VerifiedStays DEF Passed
    <2>2. Done' = {} /\ walked' \in 0..Len(Walk)
      BY <1>5, WalkFacts DEF Done
    <2>3. QED
      BY <1>1, <1>5, <2>1, <2>2, WalkKeeps
  <1>6. CASE walked # Len(Walk) /\ walked' = walked + 1 /\ stage' = stage /\ refused' = refused
    <2>1. walked' \in 0..Len(Walk)
      <3>1. Len(Walk) \in Nat
        BY WalkFacts
      <3>2. QED
        BY <1>1, <1>6, <3>1
    <2>2. Verified'
      BY <1>1, <1>2, <1>3, <1>6, VerifiedStays DEF Passed
    <2>3. stage' \in Before \ Early /\ stage' \notin {"pin", "verify"}
      BY <1>1, <1>6
    <2>4. QED
      BY <1>1, <1>6, <2>1, <2>2, <2>3, WalkKeeps
  <1>7. QED
    BY <1>4, <1>5, <1>6 DEF Compare

---------------------------------------------------------------------------
(* Pinning *)

LEMMA OpenedIs ==
    ASSUME DInv, NEW home \in Parents
    PROVE  /\ Opened(home) \in [Parents -> Dirs \cup {""}]
           /\ Opened(home)[home] \in Dirs
  <1>1. /\ parent \in [Parents -> Dirs \cup {""}] /\ root \in Dirs /\ SubIn(root) \in Dirs
    BY DEF DInv, Types, SubIn, Dirs, Subs, Repos
  <1>2. QED
    BY <1>1 DEF Opened

PinAt(c, home) == <<c, home>>

LEMMA PinAtIs ==
    ASSUME NEW c \in Members, NEW home \in Parents
    PROVE  PinAt(c, home)[1] = c /\ PinAt(c, home) \in Members \X Parents
  BY DEF PinAt

\* The pin of a member is an open file, or a link in a directory for pins.
Kept(c, home) ==
    \/ /\ held' = held \cup {c}
       /\ UNCHANGED <<linked, container, pinFiles, pinDirs>>
    \/ /\ held' = held /\ linked' = linked \cup {PinAt(c, home)}
       /\ pinFiles' = pinFiles \cup {PinAt(c, home)}
       /\ container' = container \cup {home} /\ pinDirs' = pinDirs \cup {home}

LEMMA KeptIs ==
    ASSUME NEW c, NEW home, Kept(c, home)
    PROVE  /\ held \subseteq held' /\ linked \subseteq linked' /\ pinFiles \subseteq pinFiles'
           /\ container \subseteq container'
           /\ \A n \in held' : n \in held \/ n = c
           /\ \A p \in pinFiles' : p \in pinFiles \/ (p \in linked' /\ p = PinAt(c, home))
           /\ \A p \in linked' : p \in linked \/ (p \in pinFiles' /\ p = PinAt(c, home))
           /\ \A h \in pinDirs' : h \in pinDirs \/ h \in container'
           /\ c \in held' \/ PinAt(c, home) \in linked'
  <1> DEFINE q == PinAt(c, home)
  <1>1. \/ held' = held \cup {c} /\ linked' = linked /\ pinFiles' = pinFiles
        \/ held' = held /\ linked' = linked \cup {q} /\ pinFiles' = pinFiles \cup {q}
    BY DEF Kept
  <1>2. \/ container' = container /\ pinDirs' = pinDirs
        \/ container' = container \cup {home} /\ pinDirs' = pinDirs \cup {home}
    BY DEF Kept
  <1> HIDE DEF q
  <1>3. held \subseteq held' /\ \A n \in held' : n \in held \/ n = c
    BY <1>1
  <1>4. /\ linked \subseteq linked' /\ pinFiles \subseteq pinFiles'
        /\ \A p \in pinFiles' : p \in pinFiles \/ (p \in linked' /\ p = q)
        /\ \A p \in linked' : p \in linked \/ (p \in pinFiles' /\ p = q)
        /\ c \in held' \/ q \in linked'
    <2>1. CASE held' = held \cup {c} /\ linked' = linked /\ pinFiles' = pinFiles
      BY <2>1
    <2>2. CASE held' = held /\ linked' = linked \cup {q} /\ pinFiles' = pinFiles \cup {q}
      <3>1. linked \subseteq linked' /\ pinFiles \subseteq pinFiles' /\ q \in linked' /\ q \in pinFiles'
        BY <2>2
      <3>2. \A p \in pinFiles' : p \in pinFiles \/ p = q
        BY <2>2
      <3>3. \A p \in linked' : p \in linked \/ p = q
        BY <2>2
      <3>4. QED
        BY <3>1, <3>2, <3>3
    <2>3. QED
      BY <1>1, <2>1, <2>2
  <1>5. container \subseteq container' /\ \A h \in pinDirs' : h \in pinDirs \/ h \in container'
    BY <1>2
  <1>6. QED
    BY <1>3, <1>4, <1>5 DEF q

\* A pin that was made is of a file that is there.
LEMMA PinMade ==
    ASSUME DInv, stage = "pin", WalkUnchanged, walked' = walked, refused' = refused,
           stage' = "verify", parent' \in [Parents -> Dirs \cup {""}],
           NEW c \in Members, c = Current, NEW d \in Dirs, Exists(disk[d][c]),
           pin' = [pin EXCEPT ![c] = disk[d][c]], NEW home \in Parents, Kept(c, home)
    PROVE  DInv'
  <1>1. /\ disk' = disk /\ repoAt' = repoAt /\ subAt' = subAt /\ request' = request
        /\ root' = root /\ removed' = removed /\ remaining' = remaining
        /\ errors' = errors /\ cleanupErrors' = cleanupErrors /\ unlinkIn' = unlinkIn
        /\ touches' = touches
    BY WalkLooks
  <1>2. c \in Names /\ walked < Len(Walk) /\ walked \in 0..Len(Walk)
        /\ Current' = c /\ Done' = Done /\ c \notin Done
    <2>1. c \in Names /\ walked < Len(Walk) /\ walked \in 0..Len(Walk)
      BY WalkFacts, TypesHold DEF DInv, Visits
    <2>2. Current' = c /\ Done' = Done
      BY DEF Current, Done
    <2>3. QED
      BY <2>1, <2>2, WalkOn
  <1> DEFINE q == PinAt(c, home)
  <1>0. /\ held \subseteq held' /\ linked \subseteq linked' /\ pinFiles \subseteq pinFiles'
        /\ container \subseteq container'
        /\ \A n \in held' : n \in held \/ n = c
        /\ \A p \in pinFiles' : p \in pinFiles \/ (p \in linked' /\ p = q)
        /\ \A p \in linked' : p \in linked \/ (p \in pinFiles' /\ p = q)
        /\ \A h \in pinDirs' : h \in pinDirs \/ h \in container'
        /\ c \in held' \/ q \in linked'
        /\ q[1] = c /\ q \in Members \X Parents
    BY KeptIs, PinAtIs
  <1> HIDE DEF q
  <1>3. disk \in [Dirs -> [Names -> Entry \cup {Absent}]]
        /\ pin \in [Members -> Entry \cup {Absent}]
    BY DEF DInv, Types, TypeOK
  <1>4. /\ pin' \in [Members -> Entry \cup {Absent}] /\ pin'[c] = disk[d][c]
        /\ \A n \in Members : n # c => pin'[n] = pin[n]
    <2>1. disk[d] \in [Names -> Entry \cup {Absent}] /\ c \in Names
      BY <1>2, <1>3
    <2>2. disk[d][c] \in Entry \cup {Absent}
      BY <2>1
    <2>3. QED
      BY <1>3, <2>2
  <1>5. Types'
    <2>1. /\ pinFiles \subseteq Members \X Parents /\ held \subseteq Members
          /\ linked \subseteq Members \X Parents
      BY DEF DInv, Types, TypeOK, Parents
    <2>2. pinFiles' \subseteq Members \X Parents
      BY <2>1, <1>0
    <2>3. held' \subseteq Members /\ linked' \subseteq Members \X Parents
      BY <2>1, <1>0
    <2>4. TypeOK'
      <3>1. /\ repoAt' \in Repos /\ subAt' \in Subs /\ removed' \cup remaining' \subseteq Members
        BY <1>1 DEF DInv, Types, TypeOK
      <3>2. disk' \in [Dirs -> [Names -> Entry \cup {Absent}]]
        BY <1>1, <1>3
      <3>3. stage' \in Stages
        BY DEF Stages
      <3>4. QED
        BY <1>4, <2>2, <3>1, <3>2, <3>3 DEF TypeOK, Stages, Parents
    <2>5. QED
      BY <1>1, <2>3, <2>4, TypesHold DEF DInv, Types
  <1>6. Visits' /\ Checked'
    BY <1>2 DEF Visits, Checked, Early
  <1>7. Accounts'
    BY <1>1, BeforeRemoval DEF Accounts, Before, Early
  <1>8. PinsReported'
    <2>1. /\ \A p \in pinFiles : p \in linked \/ cleanupErrors = TRUE
          /\ \A h \in pinDirs : h \in container \/ cleanupErrors = TRUE
      BY DEF DInv, PinsReported
    <2>2. /\ \A p \in pinFiles' : p \in linked' \/ cleanupErrors' = TRUE
          /\ \A h \in pinDirs' : h \in container' \/ cleanupErrors' = TRUE
      BY <1>1, <2>1, <1>0
    <2>3. QED
      BY <2>2 DEF PinsReported, Early
  <1>9. OneFile'
    BY <1>1, DiskSame
  <1>10. PinsAreFiles'
    <2>1. ASSUME NEW n \in Members, Live(n)', NEW dd \in Dirs, NEW m \in Names,
                 Exists(disk[dd][m]), disk[dd][m].number = pin'[n].number
          PROVE  disk[dd][m] = pin'[n]
      <3>1. CASE n = c
        <4>1. disk[dd][m].number = disk[d][c].number
          BY <1>4, <2>1, <3>1
        <4>2. OneFile
          BY DEF DInv
        <4>3. disk[dd][m] = disk[d][c]
          BY <1>2, <2>1, <4>1, <4>2 DEF OneFile
        <4>4. QED
          BY <1>4, <3>1, <4>3
      <3>2. CASE n # c
        <4>1. Live(n)
          BY <2>1, <3>2, <1>0 DEF Live
        <4>2. pin'[n] = pin[n]
          BY <1>4, <3>2
        <4>3. \A e \in Dirs, k \in Names :
                 Exists(disk[e][k]) /\ disk[e][k].number = pin[n].number => disk[e][k] = pin[n]
          BY <4>1 DEF DInv, PinsAreFiles
        <4>4. QED
          BY <2>1, <4>2, <4>3
      <3>3. QED
        BY <3>1, <3>2
    <2>2. QED
      BY <1>1, <2>1 DEF PinsAreFiles
  <1>11. Verified'
    <2>1. Passed = Done /\ Passed' = Done
      BY <1>2 DEF Passed
    <2>2. ASSUME NEW n \in Done
          PROVE  HasPin(n)' /\ (PinTaken(n)' \/ Matches(pin[n], n)')
      <3>1. n # c /\ n \in Members
        BY <1>2 DEF Done
      <3>2. HasPin(n) /\ (PinTaken(n) \/ Matches(pin[n], n))
        BY <2>1 DEF DInv, Verified
      <3>3. HasPin(n)'
        BY <3>2, <1>0 DEF HasPin
      <3>4. PinTaken(n) => PinTaken(n)'
        BY <3>1, <1>0 DEF PinTaken
      <3>5. Matches(pin[n], n) => Matches(pin[n], n)'
        BY <1>1, <1>4, <3>1 DEF Matches
      <3>6. QED
        BY <3>2, <3>3, <3>4, <3>5
    <2>3. HasPin(Current)'
      BY <1>2, <1>0 DEF HasPin
    <2>4. QED
      BY <1>2, <2>1, <2>2, <2>3 DEF Verified
  <1>12. QED
    BY <1>5, <1>6, <1>7, <1>8, <1>9, <1>10, <1>11 DEF DInv

LEMMA LinkPinKeeps ==
    ASSUME DInv, stage = "pin", WalkUnchanged, walked' = walked,
           NEW home \in Parents, LinkPin(Current, home), request[Current].kind = "file"
    PROVE  DInv'
  <1>1. /\ Current \in Members /\ Current \in Names /\ root \in Repos /\ Types
        /\ root' = root /\ walked' \in 0..Len(Walk) /\ unlinkIn' \in Dirs
        /\ errors' \in BOOLEAN /\ remaining' \subseteq Members
    BY WalkFacts, WalkLooks, TypesHold DEF DInv, Visits
  <1>2. Home(Current) \in Parents /\ DirIn(root, Current) \in Dirs
        /\ Lstat(root, Current) = disk[DirIn(root, Current)][Current]
    BY <1>1, DirsFound
  <1>3. parent' \in [Parents -> Dirs \cup {""}] /\ held' = held
    BY <1>2, OpenedIs DEF LinkPin
  <1>4. CASE Refuse /\ UNCHANGED <<container, linked, pinFiles, pinDirs, pin>>
    <2>1. Looks
      BY <1>3, <1>4, WalkLooks DEF Looks
    <2>2. removed = {}
      BY BeforeRemoval DEF Before, Early
    <2>3. QED
      BY <1>1, <1>3, <1>4, <2>1, <2>2, RefusingKeeps
  <1>5. ASSUME ~(Refuse /\ UNCHANGED <<container, linked, pinFiles, pinDirs, pin>>)
        PROVE  DInv'
    <2> DEFINE e == Lstat(root, Current)
    <2>1. /\ Matches(e, Current) /\ EnsureHardLinkContainer(home)
          /\ linked' = linked \cup {<<Current, home>>}
          /\ pinFiles' = pinFiles \cup {<<Current, home>>}
          /\ pin' = [pin EXCEPT ![Current] = e]
          /\ stage' = "verify" /\ refused' = refused
      BY <1>5 DEF LinkPin
    <2>2. Exists(e)
      BY <2>1 DEF Matches, Exists
    <2>3. container' = container \cup {home} /\ pinDirs' = pinDirs \cup {home}
      BY <2>1 DEF EnsureHardLinkContainer
    <2>4. e = disk[DirIn(root, Current)][Current]
      BY <1>2
    <2>5. Kept(Current, home) /\ pin' = [pin EXCEPT ![Current] = e]
          /\ stage' = "verify" /\ refused' = refused
      BY <1>3, <2>1, <2>3 DEF Kept, PinAt
    <2> HIDE DEF e
    <2>6. QED
      BY <1>1, <1>2, <1>3, <2>2, <2>4, <2>5, PinMade
  <1>6. QED
    BY <1>4, <1>5

LEMMA PinMemberKeeps == ASSUME DInv, PinMember PROVE DInv'
  <1>1. stage = "pin" /\ WalkUnchanged /\ walked' = walked
    BY DEF PinMember
  <1>2. /\ Current \in Members /\ Current \in Names /\ root \in Repos /\ repoAt \in Repos
        /\ Types /\ walked \in 0..Len(Walk)
    BY <1>1, WalkFacts, TypesHold DEF DInv, Visits
  <1>3. CASE Refuse /\ UNCHANGED pinVars
    <2>1. stage \in Before \ Early /\ walked' \in 0..Len(Walk)
      BY <1>1, <1>2 DEF Before, Early
    <2>2. QED
      BY <1>1, <1>3, <2>1, WalkKeeps
  <1>4. ASSUME NEW repo \in {root, repoAt}, Lstat(repo, Current).kind # "absent",
               HandlePin(Current, Lstat(repo, Current)), stage' = "verify", refused' = refused
        PROVE  DInv'
    <2> DEFINE e == Lstat(repo, Current)
    <2>1. repo \in Repos
      BY <1>2
    <2>2. DirIn(repo, Current) \in Dirs /\ e = disk[DirIn(repo, Current)][Current]
          /\ Home(Current) \in Parents
      BY <1>2, <2>1, DirsFound
    <2>3. Exists(e)
      BY <1>4 DEF Exists
    <2>4. /\ pin' = [pin EXCEPT ![Current] = e] /\ held' = held \cup {Current}
          /\ UNCHANGED <<linked, container, pinFiles, pinDirs>> /\ parent' = parent
      BY <1>4 DEF HandlePin
    <2> HIDE DEF e
    <2>5. parent' \in [Parents -> Dirs \cup {""}]
      BY <2>4, TypesHold
    <2>6. Kept(Current, Home(Current)) /\ pin' = [pin EXCEPT ![Current] = e]
      BY <2>4 DEF Kept
    <2>7. QED
      BY <1>1, <1>2, <1>4, <2>2, <2>3, <2>5, <2>6, PinMade
  <1>5. ASSUME NEW home \in Parents, LinkPin(Current, home), request[Current].kind = "file"
        PROVE  DInv'
    BY <1>1, <1>5, LinkPinKeeps
  <1>6. Home(Current) \in Parents /\ "repo" \in Parents
    BY DEF Home, Parents
  <1>7. QED
    <2>1. \/ Refuse /\ UNCHANGED pinVars
          \/ \E repo \in {root, repoAt} :
               /\ Lstat(repo, Current).kind # "absent"
               /\ HandlePin(Current, Lstat(repo, Current))
               /\ stage' = "verify" /\ refused' = refused
          \/ request[Current].kind = "file" /\ LinkPin(Current, Home(Current))
          \/ request[Current].kind = "file" /\ LinkPin(Current, "repo")
      BY DEF PinMember
    <2>2. QED
      BY <1>3, <1>4, <1>5, <1>6, <2>1

---------------------------------------------------------------------------
(* Removing *)

LEMMA OpenedParent ==
    ASSUME DInv, Current \in Names
    PROVE  /\ Opened(Home(Current)) \in [Parents -> Dirs \cup {""}]
           /\ Opened(Home(Current))[Home(Current)] \in Dirs
  <1>1. Home(Current) \in Parents
    BY DEF Home, Parents
  <1>2. QED
    BY <1>1, OpenedIs

\* What the walk has passed, and what it has still to pass.
LEMMA LaterIsTheRest ==
    ASSUME walked \in 0..Len(Walk)
    PROVE  Members = Done \cup Later /\ Done \cap Later = {}
  <1>1. DOMAIN Walk = 1..Len(Walk) /\ Len(Walk) \in Nat
    BY WalkFacts
  <1>2. \A i \in 1..walked, k \in (walked + 1)..Len(Walk) :
          /\ i \in 1..Len(Walk) /\ k \in 1..Len(Walk) /\ i # k
    BY <1>1
  <1>3. Done \cap Later = {}
    BY <1>2, WalkFacts DEF Done, Later
  <1>4. 1..Len(Walk) = (1..walked) \cup ((walked + 1)..Len(Walk))
    BY <1>1
  <1>5. Members \subseteq Done \cup Later
    BY <1>1, <1>4, WalkFacts DEF Done, Later, Names
  <1>6. QED
    BY <1>3, <1>5 DEF Done, Later

\* A member that has changed stops the removal.
LEMMA StopKeeps ==
    ASSUME DInv, Looks, stage = "recheck", StopRemoving, root' = root, walked' = walked,
           unlinkIn' = unlinkIn, parent' \in [Parents -> Dirs \cup {""}]
    PROVE  DInv'
  <1>1. /\ root' \in Repos /\ unlinkIn' \in Dirs /\ walked \in 0..Len(Walk)
        /\ walked' \in 0..Len(Walk) /\ errors \in BOOLEAN /\ remaining \subseteq Members
    BY TypesHold
  <1>2. refused = FALSE /\ Accounted(Done)
    BY DEF DInv, Accounts
  <1>3. CASE removed = {}
    <2>1. Refuse /\ errors' = errors /\ remaining' = remaining
      BY <1>3 DEF StopRemoving
    <2>2. QED
      BY <1>1, <1>3, <2>1, RefusingKeeps
  <1>4. CASE removed # {}
    <2>1. /\ remaining' = remaining \cup Later /\ errors' = TRUE
          /\ stage' = "cleanup" /\ refused' = refused
      BY <1>4 DEF StopRemoving
    <2>2. Members = Done \cup Later /\ Done \cap Later = {}
      BY <1>1, LaterIsTheRest
    <2>3. Visits' /\ Checked' /\ Verified'
      BY <2>1 DEF Visits, Checked, Verified, Passed, Early
    <2>4. removed' = removed
      BY DEF Looks
    <2>5. Accounted(Members)'
      BY <1>2, <2>1, <2>2, <2>4 DEF Accounted
    <2>6. Accounts'
      BY <1>2, <2>1, <2>5 DEF Accounts, Before, Early
    <2>7. /\ stage' \in Stages /\ refused' \in BOOLEAN /\ errors' \in BOOLEAN
          /\ remaining' \subseteq Members
          /\ (stage' \in Early \cup {"answered"} => stage \in Early)
      BY <1>1, <1>2, <2>1, <2>2 DEF Stages, Early
    <2>8. QED
      BY <1>1, <2>3, <2>6, <2>7, LookingKeeps
  <1>5. QED
    BY <1>3, <1>4

LEMMA RecheckKeeps == ASSUME DInv, Recheck PROVE DInv'
  <1>1. /\ stage = "recheck" /\ walked < Len(Walk) /\ root' = root
        /\ walked \in 0..Len(Walk) /\ Current \in Names /\ Types
    BY TypesHold, WalkOn DEF Recheck, DInv
  <1>2. Looks
    BY DEF Recheck, Looks, treeVars
  <1>3. refused = FALSE /\ Accounted(Done) /\ Passed = Members
    BY <1>1 DEF DInv, Accounts, Passed
  <1>4. /\ root' \in Repos /\ unlinkIn \in Dirs /\ errors \in BOOLEAN /\ refused \in BOOLEAN
        /\ remaining \subseteq Members /\ parent \in [Parents -> Dirs \cup {""}]
    BY <1>1, TypesHold
  <1>5. CASE Current \notin Members
    <2>1. /\ walked' = walked + 1 /\ parent' = parent /\ stage' = stage /\ refused' = refused
          /\ remaining' = remaining /\ errors' = errors /\ unlinkIn' = unlinkIn
      BY <1>5 DEF Recheck
    <2>2. Done' = Done /\ walked' \in 0..Len(Walk)
      BY <1>1, <1>5, <2>1, WalkOn
    <2>3. Visits' /\ Checked'
      BY <1>1, <2>1 DEF Visits, Checked, Early
    <2>4. Accounts'
      BY <1>1, <1>2, <1>3, <2>1, <2>2 DEF Accounts, Accounted, Looks, Before, Early
    <2>5. Verified'
      BY <1>1, <1>2, <1>3, <2>1, VerifiedStays DEF Passed
    <2>6. /\ stage' \in Stages /\ refused' \in BOOLEAN /\ errors' \in BOOLEAN
          /\ remaining' \subseteq Members /\ unlinkIn' \in Dirs
          /\ parent' \in [Parents -> Dirs \cup {""}]
          /\ (stage' \in Early \cup {"answered"} => stage \in Early)
      BY <1>1, <1>4, <2>1 DEF Stages, Early
    <2>7. QED
      BY <1>2, <1>4, <2>2, <2>3, <2>4, <2>5, <2>6, LookingKeeps
  <1>6. CASE Current \in Members
    <2> DEFINE dir == Opened(Home(Current))[Home(Current)]
    <2>1. dir \in Dirs /\ parent' \in [Parents -> Dirs \cup {""}] /\ walked' = walked
      BY <1>1, <1>6, OpenedParent DEF Recheck
    <2>2. CASE StopRemoving /\ UNCHANGED <<unlinkIn, touched>>
      BY <1>1, <1>2, <2>1, <2>2, StopKeeps
    <2>3. CASE /\ IsPinned(disk[dir][Current], Current)
               /\ stage' = "unlink" /\ unlinkIn' = dir
               /\ UNCHANGED <<refused, remaining, errors>>
      <3>1. /\ refused' = refused /\ remaining' = remaining /\ errors' = errors
            /\ SameFile(pin[Current], disk[dir][Current])
        BY <2>3 DEF IsPinned
      <3>2. HasPin(Current)
        BY <1>3, <1>6 DEF DInv, Verified
      <3>3. PinTaken(Current) \/ disk[dir][Current] = pin[Current]
        BY <1>1, <1>6, <2>1, <3>1, <3>2, PinnedFileIsThePin
      <3>4. Current' = Current /\ Done' = Done
        BY <2>1 DEF Current, Done
      <3>5. PinTaken(Current)' <=> PinTaken(Current)
        BY <1>2, <3>4 DEF PinTaken, Looks
      <3>6. disk'[unlinkIn'][Current'] = disk[dir][Current] /\ pin'[Current'] = pin[Current]
        BY <1>2, <2>3, <3>4 DEF Looks
      <3>7. Checked'
        BY <3>3, <3>5, <3>6 DEF Checked
      <3>8. Visits'
        BY <1>1, <1>6, <2>1, <2>3, <3>4 DEF Visits, Early
      <3>9. Accounts'
        BY <1>2, <1>3, <2>3, <3>1, <3>4 DEF Accounts, Accounted, Looks, Before, Early
      <3>10. Verified'
        BY <1>2, <1>3, <2>3, VerifiedStays DEF Passed
      <3>11. /\ stage' \in Stages /\ refused' \in BOOLEAN /\ errors' \in BOOLEAN
             /\ remaining' \subseteq Members /\ unlinkIn' \in Dirs
             /\ walked' \in 0..Len(Walk)
             /\ (stage' \in Early \cup {"answered"} => stage \in Early)
        BY <1>1, <1>4, <2>1, <2>3, <3>1 DEF Stages, Early
      <3>12. QED
        BY <1>2, <1>4, <2>1, <3>7, <3>8, <3>9, <3>10, <3>11, LookingKeeps
    <2>4. QED
      BY <1>6, <2>2, <2>3 DEF Recheck
  <1>7. QED
    BY <1>5, <1>6

\* Files go, and pins may go.
LEMMA FilesGo ==
    ASSUME DInv, pin' = pin, held' \subseteq held, pinFiles' \subseteq pinFiles,
           \A d \in Dirs, m \in Names : Exists(disk'[d][m]) => disk'[d][m] = disk[d][m]
    PROVE  OneFile' /\ PinsAreFiles'
  <1>1. OneFile'
    <2>1. ASSUME NEW d \in Dirs, NEW e \in Dirs, NEW m \in Names, NEW n \in Names,
                 Exists(disk'[d][m]), Exists(disk'[e][n]),
                 disk'[d][m].number = disk'[e][n].number
          PROVE  disk'[d][m] = disk'[e][n]
      <3>1. disk'[d][m] = disk[d][m] /\ disk'[e][n] = disk[e][n]
        BY <2>1
      <3>2. QED
        BY <2>1, <3>1 DEF DInv, OneFile
    <2>2. QED
      BY <2>1 DEF OneFile, Exists
  <1>2. PinsAreFiles'
    <2>1. ASSUME NEW n \in Members, Live(n)', NEW d \in Dirs, NEW m \in Names,
                 Exists(disk'[d][m]), disk'[d][m].number = pin'[n].number
          PROVE  disk'[d][m] = pin'[n]
      <3>1. Live(n)
        BY <2>1 DEF Live
      <3>2. disk'[d][m] = disk[d][m]
        BY <2>1
      <3>3. QED
        BY <2>1, <3>1, <3>2 DEF DInv, PinsAreFiles
    <2>2. QED
      BY <2>1 DEF PinsAreFiles, Exists
  <1>3. QED
    BY <1>1, <1>2

\* An entry of a directory is removed.
LEMMA EntryRemoved ==
    ASSUME DInv, NEW d \in Dirs, NEW n \in Names, disk' = [disk EXCEPT ![d][n] = Absent]
    PROVE  /\ disk' \in [Dirs -> [Names -> Entry \cup {Absent}]]
           /\ \A e \in Dirs, m \in Names : Exists(disk'[e][m]) => disk'[e][m] = disk[e][m]
  <1>1. disk \in [Dirs -> [Names -> Entry \cup {Absent}]]
    BY DEF DInv, Types, TypeOK
  <1>2. disk' \in [Dirs -> [Names -> Entry \cup {Absent}]]
    BY <1>1
  <1>3. ASSUME NEW e \in Dirs, NEW m \in Names
        PROVE  disk'[e][m] = disk[e][m] \/ disk'[e][m] = Absent
    BY <1>1
  <1>4. ~Exists(Absent)
    BY DEF Exists, Absent
  <1>5. QED
    BY <1>2, <1>3, <1>4

LEMMA UnlinkKeeps == ASSUME DInv, Unlink PROVE DInv'
  <1>1. /\ stage = "unlink" /\ stage' = "recheck" /\ walked' = walked + 1
        /\ walked < Len(Walk) /\ walked \in 0..Len(Walk) /\ Current \in Members
        /\ Current \in Names /\ unlinkIn \in Dirs
    BY WalkFacts, TypesHold DEF Unlink, DInv, Visits
  <1>2. Done' = Done \cup {Current} /\ Current \notin Done /\ walked' \in 0..Len(Walk)
    BY <1>1, WalkOn
  <1>3. /\ repoAt' = repoAt /\ subAt' = subAt /\ request' = request /\ root' = root
        /\ parent' = parent /\ pin' = pin /\ held' = held /\ linked' = linked
        /\ container' = container /\ pinFiles' = pinFiles /\ pinDirs' = pinDirs
        /\ refused' = refused /\ cleanupErrors' = cleanupErrors /\ unlinkIn' = unlinkIn
        /\ touches' = touches
    BY DEF Unlink, pinVars
  <1>4. refused = FALSE /\ Accounted(Done) /\ Passed = Members /\ Passed' = Members
    BY <1>1 DEF DInv, Accounts, Passed
  <1>5. /\ disk' \in [Dirs -> [Names -> Entry \cup {Absent}]]
        /\ \A e \in Dirs, m \in Names : Exists(disk'[e][m]) => disk'[e][m] = disk[e][m]
    <2>1. CASE disk' = disk
      BY <2>1 DEF DInv, Types, TypeOK
    <2>2. CASE disk' = [disk EXCEPT ![unlinkIn][Current] = Absent]
      BY <1>1, <2>2, EntryRemoved
    <2>3. QED
      BY <2>1, <2>2 DEF Unlink
  <1>6. \/ removed' = removed \cup {Current} /\ remaining' = remaining /\ errors' = errors
        \/ removed' = removed /\ remaining' = remaining \cup {Current} /\ errors' = TRUE
    BY DEF Unlink
  <1>7. Types'
    <2>1. TypeOK'
      BY <1>1, <1>3, <1>5, <1>6 DEF DInv, Types, TypeOK
    <2>2. errors' \in BOOLEAN
      BY <1>6, TypesHold
    <2>3. QED
      BY <1>2, <1>3, <2>1, <2>2 DEF DInv, Types
  <1>8. Visits' /\ Checked'
    BY <1>1 DEF Visits, Checked, Early
  <1>9. Accounts'
    <2>1. Accounted(Done)'
      BY <1>2, <1>4, <1>6 DEF Accounted
    <2>2. QED
      BY <1>1, <1>3, <1>4, <2>1 DEF Accounts, Before, Early
  <1>10. PinsReported'
    BY <1>1, <1>3, PinsStay DEF Early
  <1>11. OneFile' /\ PinsAreFiles'
    BY <1>3, <1>5, FilesGo
  <1>12. Verified'
    <2>1. \A n : /\ HasPin(n)' <=> HasPin(n)
                 /\ PinTaken(n)' <=> PinTaken(n)
                 /\ Matches(pin[n], n)' <=> Matches(pin[n], n)
      BY <1>3 DEF HasPin, PinTaken, Matches
    <2>2. QED
      BY <1>1, <1>4, <2>1 DEF DInv, Verified
  <1>13. QED
    BY <1>7, <1>8, <1>9, <1>10, <1>11, <1>12 DEF DInv

LEMMA RemovalDoneKeeps == ASSUME DInv, RemovalDone PROVE DInv'
  <1>1. /\ stage = "recheck" /\ walked = Len(Walk) /\ stage' = "cleanup" /\ walked' = walked
        /\ root' = root /\ parent' = parent /\ unlinkIn' = unlinkIn /\ refused' = refused
        /\ remaining' = remaining /\ errors' = errors
    BY DEF RemovalDone, pinVars, answerVars
  <1>2. Looks
    BY DEF RemovalDone, Looks, treeVars, pinVars, answerVars
  <1>3. refused = FALSE /\ Accounted(Members)
    BY <1>1, TypesHold, WalkOn DEF DInv, Accounts
  <1>4. Visits' /\ Checked' /\ Verified'
    BY <1>1 DEF Visits, Checked, Verified, Passed, Early
  <1>5. Accounts'
    BY <1>1, <1>2, <1>3 DEF Accounts, Accounted, Looks, Before, Early
  <1>6. /\ stage' \in Stages /\ refused' \in BOOLEAN /\ errors' \in BOOLEAN
        /\ remaining' \subseteq Members /\ unlinkIn' \in Dirs /\ root' \in Repos
        /\ walked' \in 0..Len(Walk) /\ parent' \in [Parents -> Dirs \cup {""}]
        /\ (stage' \in Early \cup {"answered"} => stage \in Early)
    BY <1>1, TypesHold DEF Stages, Early
  <1>7. QED
    BY <1>2, <1>4, <1>5, <1>6, LookingKeeps

---------------------------------------------------------------------------
(* The cleanup and the answer *)

\* The cleanup changes pins, what it reports, and at the end the answer.
LEMMA CleanupKeeps ==
    ASSUME DInv, CleanupUnchanged, stage = "cleanup", stage' \in {"cleanup", "answered"},
           held' \subseteq held, linked' \subseteq linked, pinFiles' \subseteq pinFiles,
           cleanupErrors' \in BOOLEAN, refused' \in BOOLEAN,
           refused' = refused \/ (removed = {} /\ refused' = TRUE),
           PinsReported'
    PROVE  DInv'
  <1>1. /\ disk' = disk /\ repoAt' = repoAt /\ subAt' = subAt /\ request' = request
        /\ walked' = walked /\ root' = root /\ parent' = parent /\ pin' = pin
        /\ removed' = removed /\ remaining' = remaining /\ errors' = errors
        /\ unlinkIn' = unlinkIn /\ touches' = touches
    BY DEF CleanupUnchanged, treeVars
  <1>2. Types'
    <2>1. TypeOK'
      BY <1>1 DEF DInv, Types, TypeOK
    <2>2. held' \subseteq Members /\ linked' \subseteq Members \X Parents
      BY DEF DInv, Types
    <2>3. QED
      BY <1>1, <2>1, <2>2 DEF DInv, Types
  <1>3. Visits' /\ Checked' /\ Verified'
    BY DEF Visits, Checked, Verified, Passed, Early
  <1>4. Accounts'
    BY <1>1 DEF DInv, Accounts, Accounted, Before, Early
  <1>5. OneFile' /\ PinsAreFiles'
    BY <1>1, FilesStay
  <1>6. QED
    BY <1>2, <1>3, <1>4, <1>5 DEF DInv

LEMMA CleanupPinKeeps ==
    ASSUME DInv, NEW p \in Members \X Parents, CleanupPin(p)
    PROVE  DInv'
  <1>1. /\ stage = "cleanup" /\ stage' = stage /\ CleanupUnchanged /\ held' = held
        /\ refused' = refused /\ container' = container /\ pinDirs' = pinDirs
        /\ linked' = linked \ {p} /\ p \in linked
    BY DEF CleanupPin, RemovePin
  <1>2. \/ pinFiles' = pinFiles \ {p} /\ cleanupErrors' = (cleanupErrors \/ p \notin pinFiles)
        \/ pinFiles' = pinFiles /\ cleanupErrors' = TRUE
    BY DEF CleanupPin, RemovePin
  <1>3. cleanupErrors' \in BOOLEAN /\ (cleanupErrors = TRUE => cleanupErrors' = TRUE)
    BY <1>2, TypesHold
  <1>4. PinsReported'
    <2>1. /\ \A q \in pinFiles : q \in linked \/ cleanupErrors = TRUE
          /\ \A h \in pinDirs : h \in container \/ cleanupErrors = TRUE
      BY DEF DInv, PinsReported
    <2>2. \A h \in pinDirs' : h \in container' \/ cleanupErrors' = TRUE
      BY <1>1, <1>3, <2>1
    <2>3. \A q \in pinFiles' : q \in linked' \/ cleanupErrors' = TRUE
      <3>1. CASE pinFiles' = pinFiles \ {p}
        BY <1>1, <1>3, <2>1, <3>1
      <3>2. CASE pinFiles' = pinFiles /\ cleanupErrors' = TRUE
        BY <3>2
      <3>3. QED
        BY <1>2, <3>1, <3>2
    <2>4. QED
      BY <1>1, <2>2, <2>3 DEF PinsReported, Early
  <1>5. pinFiles' \subseteq pinFiles
    BY <1>2
  <1>6. QED
    BY <1>1, <1>3, <1>4, <1>5, TypesHold, CleanupKeeps

LEMMA CleanupContainerKeeps ==
    ASSUME DInv, NEW home \in Parents, CleanupContainer(home)
    PROVE  DInv'
  <1>1. /\ stage = "cleanup" /\ stage' = stage /\ CleanupUnchanged /\ held' = held
        /\ refused' = refused /\ linked' = linked /\ pinFiles' = pinFiles
        /\ container' = container \ {home}
    BY DEF CleanupContainer
  <1>2. \/ pinDirs' = pinDirs \ {home} /\ cleanupErrors' = cleanupErrors
        \/ pinDirs' = pinDirs /\ cleanupErrors' = TRUE
    BY DEF CleanupContainer
  <1>3. cleanupErrors' \in BOOLEAN /\ (cleanupErrors = TRUE => cleanupErrors' = TRUE)
    BY <1>2, TypesHold
  <1>4. PinsReported'
    <2>1. /\ \A q \in pinFiles : q \in linked \/ cleanupErrors = TRUE
          /\ \A h \in pinDirs : h \in container \/ cleanupErrors = TRUE
      BY DEF DInv, PinsReported
    <2>2. \A q \in pinFiles' : q \in linked' \/ cleanupErrors' = TRUE
      BY <1>1, <1>3, <2>1
    <2>3. \A h \in pinDirs' : h \in container' \/ cleanupErrors' = TRUE
      <3>1. CASE pinDirs' = pinDirs \ {home}
        BY <1>1, <1>3, <2>1, <3>1
      <3>2. CASE pinDirs' = pinDirs /\ cleanupErrors' = TRUE
        BY <3>2
      <3>3. QED
        BY <1>2, <3>1, <3>2
    <2>4. QED
      BY <1>1, <2>2, <2>3 DEF PinsReported, Early
  <1>5. QED
    BY <1>1, <1>3, <1>4, TypesHold, CleanupKeeps

LEMMA AnswerKeeps == ASSUME DInv, Answer PROVE DInv'
  <1>1. /\ stage = "cleanup" /\ stage' = "answered" /\ linked = {} /\ container = {}
        /\ CleanupUnchanged /\ held' = {} /\ linked' = linked /\ container' = container
        /\ pinFiles' = pinFiles /\ pinDirs' = pinDirs
        /\ refused' = (refused \/ (removed = {} /\ cleanupErrors'))
    BY DEF Answer
  <1> DEFINE moved == \E home \in DOMAIN parent : parent[home] # "" /\ ~ParentHolds(parent, home)
  <1>2. cleanupErrors' = (cleanupErrors \/ moved)
    BY DEF Answer
  <1> HIDE DEF moved
  <1>3. cleanupErrors' \in BOOLEAN /\ (cleanupErrors = TRUE => cleanupErrors' = TRUE)
    BY <1>2, TypesHold
  <1>4. /\ refused' \in BOOLEAN
        /\ refused' = refused \/ (removed = {} /\ refused' = TRUE)
    BY <1>1, <1>3, TypesHold
  <1>5. PinsReported'
    <2>1. /\ \A q \in pinFiles : q \in linked \/ cleanupErrors = TRUE
          /\ \A h \in pinDirs : h \in container \/ cleanupErrors = TRUE
      BY DEF DInv, PinsReported
    <2>2. QED
      BY <1>1, <1>3, <2>1 DEF PinsReported, Early
  <1>6. QED
    BY <1>1, <1>3, <1>4, <1>5, CleanupKeeps

---------------------------------------------------------------------------
(* The user *)

\* What a change by the user leaves alone.
LEMMA UserKeeps ==
    ASSUME DInv, Touch, repoAt' \in Repos, subAt' \in {"sub", "sub2"},
           disk' \in [Dirs -> [Names -> Entry \cup {Absent}]],
           pinFiles' \subseteq pinFiles, OneFile', PinsAreFiles'
    PROVE  DInv'
  <1>1. /\ request' = request /\ stage' = stage /\ walked' = walked /\ root' = root
        /\ parent' = parent /\ pin' = pin /\ held' = held /\ linked' = linked
        /\ container' = container /\ pinDirs' = pinDirs /\ removed' = removed
        /\ remaining' = remaining /\ errors' = errors /\ cleanupErrors' = cleanupErrors
        /\ refused' = refused /\ unlinkIn' = unlinkIn
        /\ touched' = (stage = "unlink") /\ touches < MaxTouches /\ touches' = touches + 1
    BY DEF Touch, UserUnchanged, answerVars
  <1>2. Types'
    <2>1. TypeOK'
      BY <1>1 DEF DInv, Types, TypeOK, Subs
    <2>2. touches' \in 0..MaxTouches
      <3>1. touches \in 0..MaxTouches /\ MaxTouches \in Nat
        BY WalkFacts DEF DInv, Types
      <3>2. QED
        BY <1>1, <3>1
    <2>3. QED
      BY <1>1, <2>1, <2>2 DEF DInv, Types
  <1>3. Done' = Done /\ Current' = Current
    BY <1>1 DEF Done, Current
  <1>4. Visits' /\ Checked'
    BY <1>1, <1>3 DEF DInv, Visits, Checked
  <1>5. Accounts'
    BY <1>1, <1>3 DEF DInv, Accounts, Accounted
  <1>6. PinsReported'
    BY <1>1 DEF DInv, PinsReported
  <1>7. Verified'
    <2>1. \A n : /\ HasPin(n) => HasPin(n)'
                 /\ PinTaken(n) => PinTaken(n)'
                 /\ Matches(pin[n], n) => Matches(pin[n], n)'
      BY <1>1 DEF HasPin, PinTaken, Matches
    <2>2. Passed' = Passed
      BY <1>1, <1>3 DEF Passed
    <2>3. QED
      BY <1>1, <1>3, <2>1, <2>2 DEF DInv, Verified
  <1>8. QED
    BY <1>2, <1>4, <1>5, <1>6, <1>7 DEF DInv

LEMMA UserRemovesKeeps ==
    ASSUME DInv, NEW d \in Dirs, NEW n \in Names, UserRemoves(d, n)
    PROVE  DInv'
  <1>1. /\ Touch /\ disk' = [disk EXCEPT ![d][n] = Absent]
        /\ repoAt' = repoAt /\ subAt' = subAt /\ pinFiles' = pinFiles
    BY DEF UserRemoves
  <1>2. pin' = pin /\ held' = held
    BY <1>1 DEF Touch, UserUnchanged
  <1>3. /\ disk' \in [Dirs -> [Names -> Entry \cup {Absent}]]
        /\ \A e \in Dirs, m \in Names : Exists(disk'[e][m]) => disk'[e][m] = disk[e][m]
    BY <1>1, EntryRemoved
  <1>4. OneFile' /\ PinsAreFiles'
    BY <1>1, <1>2, <1>3, FilesGo
  <1>5. repoAt' \in Repos /\ subAt' \in {"sub", "sub2"}
    BY <1>1 DEF DInv, Types, TypeOK
  <1>6. QED
    BY <1>1, <1>3, <1>4, <1>5, UserKeeps

\* A new file gets a number that no file and no pin has.
LEMMA FreshNumber ==
    ASSUME FreeNumbers # {},
           NEW free, free = CHOOSE i \in FreeNumbers : \A k \in FreeNumbers : i <= k
    PROVE  /\ free \in Numbers
           /\ \A d \in Dirs, n \in Names : disk[d][n].number # free
           /\ \A n \in Members : Live(n) => pin[n].number # free
  <1>1. FreeNumbers \subseteq Nat
    BY LocalDeleteAssumption DEF FreeNumbers
  <1>2. \E i \in FreeNumbers : \A k \in FreeNumbers : i <= k
    <2> DEFINE Less == {p \in Nat \X Nat : p[1] < p[2]}
    <2>1. IsWellFoundedOn(Less, Nat)
      BY NatLessThanWellFounded DEF OpToRel
    <2>2. \A i, k \in Nat : k < i => <<k, i>> \in Less
      OBVIOUS
    <2> HIDE DEF Less
    <2>3. PICK i \in FreeNumbers : \A k \in FreeNumbers : ~ (<<k, i>> \in Less)
      BY <1>1, <2>1, WFMin
    <2>4. ASSUME NEW k \in FreeNumbers PROVE i <= k
      <3>1. i \in Nat /\ k \in Nat
        BY <1>1
      <3>2. ~(k < i)
        BY <2>3, <2>2, <3>1
      <3>3. QED
        BY <3>1, <3>2
    <2>5. QED
      BY <2>4
  <1>3. free \in FreeNumbers
    BY <1>2
  <1>4. free \in Numbers /\ free \notin NumbersInUse
    BY <1>3 DEF FreeNumbers
  <1>5. \A d \in Dirs, n \in Names : disk[d][n].number \in NumbersInUse
    BY DEF NumbersInUse
  <1>6. \A n \in Members : Live(n) => pin[n].number \in NumbersInUse
    BY DEF NumbersInUse, Live
  <1>7. QED
    BY <1>4, <1>5, <1>6

LEMMA UserCreatesKeeps ==
    ASSUME DInv, NEW d \in Dirs, NEW n \in Names, UserCreates(d, n)
    PROVE  DInv'
  <1> DEFINE free == CHOOSE i \in FreeNumbers : \A k \in FreeNumbers : i <= k
  <1>1. /\ Touch /\ FreeNumbers # {}
        /\ repoAt' = repoAt /\ subAt' = subAt /\ pinFiles' = pinFiles
    BY DEF UserCreates
  <1>2. PICK kind \in {"file", "link"}, size \in Sizes :
          disk' = [disk EXCEPT ![d][n] = [kind |-> kind, number |-> free,
                                          born |-> touches', size |-> size]]
    BY DEF UserCreates
  <1> DEFINE new == [kind |-> kind, number |-> free, born |-> touches', size |-> size]
  <1>3. /\ free \in Numbers
        /\ \A e \in Dirs, m \in Names : disk[e][m].number # free
        /\ \A m \in Members : Live(m) => pin[m].number # free
    BY <1>1, FreshNumber
  <1>4. pin' = pin /\ held' = held /\ touches' = touches + 1 /\ touches < MaxTouches
    BY <1>1 DEF Touch, UserUnchanged
  <1>5. touches' \in 0..MaxTouches
    <2>1. touches \in 0..MaxTouches /\ MaxTouches \in Nat
      BY WalkFacts DEF DInv, Types
    <2>2. QED
      BY <1>4, <2>1
  <1> HIDE DEF free
  <1>6. new \in Entry /\ new.number = free
    BY <1>3, <1>5 DEF Entry
  <1>7. disk \in [Dirs -> [Names -> Entry \cup {Absent}]]
    BY DEF DInv, Types, TypeOK
  <1>8. disk' = [disk EXCEPT ![d][n] = new]
    BY <1>2
  <1> HIDE DEF new
  <1>9. /\ disk' \in [Dirs -> [Names -> Entry \cup {Absent}]]
        /\ disk'[d][n] = new
        /\ \A e \in Dirs, m \in Names : disk'[e][m] = disk[e][m] \/ (e = d /\ m = n)
    BY <1>6, <1>7, <1>8
  <1>10. OneFile'
    <2>1. ASSUME NEW e \in Dirs, NEW f \in Dirs, NEW l \in Names, NEW m \in Names,
                 Exists(disk'[e][l]), Exists(disk'[f][m]),
                 disk'[e][l].number = disk'[f][m].number
          PROVE  disk'[e][l] = disk'[f][m]
      <3>1. CASE disk'[e][l] = disk[e][l] /\ disk'[f][m] = disk[f][m]
        BY <2>1, <3>1 DEF DInv, OneFile
      <3>2. CASE e = d /\ l = n /\ f = d /\ m = n
        BY <3>2
      <3>3. CASE e = d /\ l = n /\ disk'[f][m] = disk[f][m]
        BY <1>3, <1>6, <1>9, <2>1, <3>3
      <3>4. CASE f = d /\ m = n /\ disk'[e][l] = disk[e][l]
        BY <1>3, <1>6, <1>9, <2>1, <3>4
      <3>5. QED
        BY <1>9, <3>1, <3>2, <3>3, <3>4
    <2>2. QED
      BY <2>1 DEF OneFile, Exists
  <1>11. PinsAreFiles'
    <2>1. ASSUME NEW l \in Members, Live(l)', NEW e \in Dirs, NEW m \in Names,
                 Exists(disk'[e][m]), disk'[e][m].number = pin'[l].number
          PROVE  disk'[e][m] = pin'[l]
      <3>1. Live(l)
        BY <1>1, <1>4, <2>1 DEF Live
      <3>2. disk'[e][m] = disk[e][m]
        BY <1>3, <1>4, <1>6, <1>9, <2>1, <3>1
      <3>3. QED
        BY <1>4, <2>1, <3>1, <3>2 DEF DInv, PinsAreFiles
    <2>2. QED
      BY <2>1 DEF PinsAreFiles, Exists
  <1>12. repoAt' \in Repos /\ subAt' \in {"sub", "sub2"}
    BY <1>1 DEF DInv, Types, TypeOK
  <1>13. QED
    BY <1>1, <1>9, <1>10, <1>11, <1>12, UserKeeps

\* The user moves a directory, or takes a pin away.
LEMMA UserMovesKeep ==
    ASSUME DInv, UserMovesRepo \/ UserMovesSub \/ \E p \in Members \X Parents : UserTakesPin(p)
    PROVE  DInv'
  <1>1. /\ Touch /\ disk' = disk /\ pinFiles' \subseteq pinFiles
        /\ repoAt' \in Repos /\ subAt' \in {"sub", "sub2"}
    BY DEF UserMovesRepo, UserMovesSub, UserTakesPin, treeVars, DInv, Types, TypeOK
  <1>2. pin' = pin /\ held' = held
    BY <1>1 DEF Touch, UserUnchanged
  <1>3. OneFile' /\ PinsAreFiles'
    BY <1>1, <1>2, FilesStay
  <1>4. disk' \in [Dirs -> [Names -> Entry \cup {Absent}]]
    BY <1>1 DEF DInv, Types, TypeOK
  <1>5. QED
    BY <1>1, <1>3, <1>4, UserKeeps

---------------------------------------------------------------------------
(* The specification *)

LEMMA Starts == ASSUME Init PROVE DInv
  <1>1. /\ repoAt = "repo" /\ subAt = "sub" /\ stage = "open" /\ walked = 0 /\ root = "repo"
        /\ parent = [home \in Parents |-> ""] /\ pin = [n \in Members |-> Absent]
        /\ held = {} /\ linked = {} /\ container = {} /\ pinFiles = {} /\ pinDirs = {}
        /\ removed = {} /\ remaining = {} /\ errors = FALSE /\ cleanupErrors = FALSE
        /\ refused = FALSE /\ unlinkIn = "repo" /\ touches = 0
    BY DEF Init, Parents
  <1>2. PICK files \in [Members -> Entry] :
          /\ \A m, n \in Members : m # n => files[m].number < files[n].number \/ files[n].number < files[m].number
          /\ disk = [d \in Dirs |-> [n \in Names |->
                       IF n \in Members /\ d \in (IF n \in InSub THEN {"sub", "sub2"} ELSE {"repo"})
                       THEN files[n] ELSE Absent]]
    BY DEF Init
  <1>3. /\ disk \in [Dirs -> [Names -> Entry \cup {Absent}]]
        /\ \A d \in Dirs, n \in Names :
             disk[d][n] = Absent \/ (n \in Members /\ disk[d][n] = files[n])
    BY <1>2
  <1>4. \A m, n \in Members : m # n => files[m].number # files[n].number
    <2>1. ASSUME NEW m \in Members PROVE files[m].number \in Nat
      BY LocalDeleteAssumption DEF Entry
    <2>2. QED
      BY <1>2, <2>1
  <1>5. OneFile
    <2>1. ~Exists(Absent)
      BY DEF Exists, Absent
    <2>2. ASSUME NEW d \in Dirs, NEW e \in Dirs, NEW m \in Names, NEW n \in Names,
                 Exists(disk[d][m]), Exists(disk[e][n]), disk[d][m].number = disk[e][n].number
          PROVE  disk[d][m] = disk[e][n]
      <3>1. /\ m \in Members /\ disk[d][m] = files[m]
            /\ n \in Members /\ disk[e][n] = files[n]
        BY <1>3, <2>1, <2>2
      <3>2. QED
        BY <1>4, <2>2, <3>1
    <2>3. QED
      BY <2>2 DEF OneFile
  <1>6. Types
    <2>1. Absent \in Entry \cup {Absent} /\ 0 \in 0..Len(Walk) /\ 0 \in 0..MaxTouches
      BY WalkFacts
    <2>2. TypeOK
      BY <1>1, <1>3 DEF TypeOK, Repos, Subs
    <2>3. QED
      BY <1>1, <2>1, <2>2 DEF Types, Repos, Dirs
  <1>7. Visits /\ Accounts /\ PinsReported /\ Checked
    BY <1>1 DEF Visits, Accounts, PinsReported, Checked, Early, Before
  <1>8. PinsAreFiles
    BY <1>1 DEF PinsAreFiles, Live
  <1>9. Verified
    BY <1>1 DEF Verified, Passed
  <1>10. QED
    BY <1>5, <1>6, <1>7, <1>8, <1>9 DEF DInv

LEMMA StutterKeeps == ASSUME DInv, UNCHANGED vars PROVE DInv'
  <1>1. /\ repoAt' = repoAt /\ subAt' = subAt /\ disk' = disk /\ request' = request
        /\ stage' = stage /\ walked' = walked /\ root' = root /\ parent' = parent /\ pin' = pin
        /\ held' = held /\ linked' = linked /\ container' = container /\ pinFiles' = pinFiles
        /\ pinDirs' = pinDirs /\ removed' = removed /\ remaining' = remaining
        /\ errors' = errors /\ cleanupErrors' = cleanupErrors /\ refused' = refused
        /\ unlinkIn' = unlinkIn /\ touched' = touched /\ touches' = touches
    BY DEF vars, treeVars, pinVars, answerVars
  <1>2. Types'
    BY <1>1 DEF DInv, Types, TypeOK
  <1>3. Done' = Done /\ Current' = Current /\ Passed' = Passed
    BY <1>1 DEF Done, Current, Passed
  <1>4. Visits' /\ Accounts' /\ PinsReported'
    BY <1>1, <1>3 DEF DInv, Visits, Accounts, Accounted, PinsReported
  <1>5. OneFile' /\ PinsAreFiles'
    BY <1>1, FilesStay
  <1>6. \A n : /\ HasPin(n)' <=> HasPin(n)
               /\ PinTaken(n)' <=> PinTaken(n)
               /\ Matches(pin[n], n)' <=> Matches(pin[n], n)
    BY <1>1 DEF HasPin, PinTaken, Matches
  <1>7. Verified' /\ Checked'
    BY <1>1, <1>3, <1>6 DEF DInv, Verified, Checked
  <1>8. QED
    BY <1>2, <1>4, <1>5, <1>7 DEF DInv

LEMMA StepKeeps == ASSUME DInv, [Next]_vars PROVE DInv'
  <1>1. CASE OpenRepo \/ Scan \/ Reserve
    BY <1>1, OpenRepoKeeps, ScanKeeps, ReserveKeeps
  <1>2. CASE CheckNext \/ PinMember \/ VerifyPin \/ WalkDone \/ Compare
    BY <1>2, CheckNextKeeps, PinMemberKeeps, VerifyPinKeeps, WalkDoneKeeps, CompareKeeps
  <1>3. CASE Recheck \/ Unlink \/ RemovalDone \/ Answer
    BY <1>3, RecheckKeeps, UnlinkKeeps, RemovalDoneKeeps, AnswerKeeps
  <1>4. ASSUME NEW p \in Members \X Parents, CleanupPin(p) \/ UserTakesPin(p) PROVE DInv'
    BY <1>4, CleanupPinKeeps, UserMovesKeep
  <1>5. ASSUME NEW home \in Parents, CleanupContainer(home) PROVE DInv'
    BY <1>5, CleanupContainerKeeps
  <1>6. ASSUME NEW d \in Dirs, NEW n \in Names, UserRemoves(d, n) \/ UserCreates(d, n)
        PROVE  DInv'
    BY <1>6, UserRemovesKeeps, UserCreatesKeeps
  <1>7. CASE UserMovesRepo \/ UserMovesSub
    BY <1>7, UserMovesKeep
  <1>8. CASE UNCHANGED vars
    BY <1>8, StutterKeeps
  <1>9. QED
    BY <1>1, <1>2, <1>3, <1>4, <1>5, <1>6, <1>7, <1>8 DEF Next, Parents

\* In every state the answer accounts for what the walks have passed, a pin
\* holds the number of its file, and what was compared last is the pinned file.
THEOREM DeleteInvariant == Spec => []DInv
  BY Starts, StepKeeps, PTL DEF Spec

\* A refusal has removed nothing, any other answer accounts for every member,
\* and pins that are left are reported: whatever the user changes and whatever
\* fails (handleSelectedCacheDelete).
THEOREM AnswerIsHonestAlways == Spec => []AnswerIsHonest
  <1>1. ASSUME DInv PROVE AnswerIsHonest
    <2>1. TypeOK /\ refused \in BOOLEAN /\ cleanupErrors \in BOOLEAN /\ errors \in BOOLEAN
      BY <1>1 DEF DInv, Types
    <2>2. ASSUME stage = "answered"
          PROVE  /\ refused => removed = {}
                 /\ ~refused => /\ removed \cup remaining = Members /\ removed \cap remaining = {}
                                /\ remaining # {} => errors
                 /\ pinFiles # {} \/ pinDirs # {} => cleanupErrors
      <3>1. /\ refused = TRUE => removed = {}
            /\ refused = FALSE => Accounted(Members)
        BY <1>1, <2>2 DEF DInv, Accounts
      <3>2. pinFiles # {} \/ pinDirs # {} => cleanupErrors = TRUE
        BY <1>1, <2>2 DEF DInv, PinsReported
      <3>3. QED
        BY <2>1, <3>1, <3>2 DEF Accounted
    <2>3. QED
      BY <2>1, <2>2 DEF AnswerIsHonest
  <1>2. QED
    BY <1>1, DeleteInvariant, PTL

\* Only the removal changes what was removed.
LEMMA OnlyUnlinkRemoves == ASSUME [Next]_vars, ~Unlink PROVE removed' = removed
  <1>1. CASE OpenRepo \/ Scan \/ Reserve
    BY <1>1 DEF OpenRepo, Scan, Reserve, answerVars
  <1>2. CASE CheckNext \/ PinMember \/ VerifyPin \/ WalkDone \/ Compare
    BY <1>2 DEF CheckNext, PinMember, VerifyPin, WalkDone, Compare, WalkUnchanged
  <1>3. CASE Recheck \/ RemovalDone \/ Answer
    BY <1>3 DEF Recheck, RemovalDone, Answer, CleanupUnchanged, answerVars
  <1>4. ASSUME NEW p, CleanupPin(p) \/ UserTakesPin(p) PROVE removed' = removed
    BY <1>4 DEF CleanupPin, UserTakesPin, CleanupUnchanged, Touch, UserUnchanged, answerVars
  <1>5. ASSUME NEW home, CleanupContainer(home) PROVE removed' = removed
    BY <1>5 DEF CleanupContainer, CleanupUnchanged
  <1>6. ASSUME NEW d, NEW n, UserRemoves(d, n) \/ UserCreates(d, n) PROVE removed' = removed
    BY <1>6 DEF UserRemoves, UserCreates, Touch, UserUnchanged, answerVars
  <1>7. CASE UserMovesRepo \/ UserMovesSub
    BY <1>7 DEF UserMovesRepo, UserMovesSub, Touch, UserUnchanged, answerVars
  <1>8. CASE UNCHANGED vars
    BY <1>8 DEF vars, answerVars
  <1>9. QED
    BY <1>1, <1>2, <1>3, <1>4, <1>5, <1>6, <1>7, <1>8 DEF Next

\* What is removed is the very file that was pinned, and not another that was
\* given its number, but for a change between the last comparison and the
\* removal and for a pin that the user has taken away.
THEOREM RemovesWhatWasPinnedAlways == Spec => RemovesWhatWasPinned
  <1> DEFINE IsPinnedFile ==
               LET e == disk[unlinkIn][Current]
               IN \/ touched \/ PinTaken(Current)
                  \/ e = pin[Current] /\ Matches(e, Current)
  <1>1. ASSUME DInv, [Next]_vars PROVE removed' # removed => IsPinnedFile
    <2>1. CASE Unlink
      <3>1. stage = "unlink" /\ Current \in Members /\ Passed = Members
        BY <1>1, <2>1 DEF Unlink, DInv, Visits, Passed
      <3>2. PinTaken(Current) \/ Matches(pin[Current], Current)
        BY <1>1, <3>1 DEF DInv, Verified
      <3>3. touched = TRUE \/ PinTaken(Current) \/ disk[unlinkIn][Current] = pin[Current]
        BY <1>1, <3>1 DEF DInv, Checked
      <3>4. QED
        BY <3>2, <3>3
    <2>2. CASE ~Unlink
      BY <1>1, <2>2, OnlyUnlinkRemoves
    <2>3. QED
      BY <2>1, <2>2
  <1>2. DInv /\ [Next]_vars => [removed' # removed => IsPinnedFile]_vars
    BY <1>1
  <1>3. QED
    BY <1>2, DeleteInvariant, PTL DEF Spec, RemovesWhatWasPinned

---------------------------------------------------------------------------
(* The mirror *)

Steps == {"idle", "plan", "copy", "verify", "delete", "answered", "in sync"}
Held == {NoFile, Part} \cup Commits
Hubs == [Sides -> [Repositories -> [FileSet -> Held]]]

Positions == Nat \ {0}
Syncs == [step : Steps, copy : SUBSET Repositories, delete : SUBSET Repositories,
          at : {<<>>} \cup {<<r>> : r \in Repositories}, next : Positions, ok : BOOLEAN]

\* A request has a plan, which its answer is about.
Planned == sync.step \in {"copy", "verify", "delete", "answered"}

MirrorTypes ==
    /\ hub \in Hubs
    /\ \A r \in Repositories, f \in FileSet : hub["source"][r][f] # Part
    /\ sync \in Syncs
    /\ planned \in [source : [Repositories -> [FileSet -> Held]],
                    copy : SUBSET Repositories, delete : SUBSET Repositories]
    /\ updates \in Nat /\ updates <= MaxUpdates

\* What is left to do belongs to the plan, and the steps are taken in order.
StepsFollow ==
    /\ sync.step \in {"plan", "answered"} => sync.delete = {}
    /\ Planned => planned.copy \cap planned.delete = {} /\ sync.delete \subseteq planned.delete
    /\ sync.step \in {"copy", "verify"} => sync.delete = planned.delete
    /\ sync.step \in {"delete", "answered"} => sync.copy = {}
    /\ sync.step = "verify" => sync.at # <<>>

\* What the plan found at the source stays there.
SourceGrows ==
    Planned => \A r \in Repositories, f \in FileSet :
                 planned.source[r][f] # NoFile => hub["source"][r][f] # NoFile

ExtraIsForeign ==
    Planned => \A r \in sync.delete :
                 options.deleteExtra /\ Wanted(r) /\ planned.source[r][Dir] = NoFile

Copied(r, f) == planned.source[r][f] # NoFile => hub["target"][r][f] \in Commits
RepoIsCopied(r) == \A f \in FileSet : Copied(r, f)

\* Without an error so far, what was done is there.
DoneIsThere ==
    (Planned /\ sync.ok) =>
      /\ \A r \in planned.copy \ sync.copy : RepoIsCopied(r)
      /\ sync.step = "copy" /\ sync.at # <<>> =>
           \A i \in DOMAIN Files : i < sync.next => Copied(Repo, Files[i])
      /\ sync.step = "verify" => RepoIsCopied(Repo)
      /\ updates = 0 => \A r \in planned.delete \ sync.delete : hub["target"][r][Dir] = NoFile

MirrorInv == MirrorTypes /\ StepsFollow /\ SourceGrows /\ ExtraIsForeign /\ DoneIsThere

---------------------------------------------------------------------------
(* Facts about the operators *)

LEMMA FilesAre ==
    /\ Files \in Seq(FileSet) /\ DOMAIN Files = 1..Len(Files) /\ Len(Files) \in Nat
    /\ \A i \in DOMAIN Files : Files[i] \in FileSet
    /\ \A f \in FileSet : \E i \in DOMAIN Files : Files[i] = f
    /\ Payloads \subseteq FileSet /\ Dir \in FileSet /\ Link \in FileSet
    /\ Dir \notin Payloads /\ Link \notin Payloads /\ Dir # Link
    /\ MaxUpdates \in Nat
  <1>1. \A i \in DOMAIN Files : Files[i] \in FileSet
    BY DEF FileSet
  <1>2. \A f \in FileSet : \E i \in DOMAIN Files : Files[i] = f
    BY DEF FileSet
  <1>3. QED
    BY <1>1, <1>2, MirrorAssumption

LEMMA PlacesAre ==
    /\ Len(Files) \in Nat
    /\ \A i : i \in DOMAIN Files <=> i \in Int /\ 1 <= i /\ i <= Len(Files)
  <1>1. DOMAIN Files = 1..Len(Files) /\ Len(Files) \in Nat
    BY FilesAre
  <1>2. QED
    BY <1>1

LEMMA CommitsAre ==
    /\ Whole \in Commits /\ NoFile \notin Commits /\ Part \notin Commits /\ NoFile # Part
    /\ Held \ {NoFile, Part} = Commits
  <1>1. MaxUpdates \in Nat
    BY FilesAre
  <1>2. QED
    BY <1>1 DEF Whole, NoFile, Part, Commits, Held

LEMMA PositionsAre ==
    /\ 1 \in Positions
    /\ \A i \in Positions : i + 1 \in Positions /\ i \in Nat /\ i >= 1
  BY DEF Positions

\* One file of one repository at the destination changes.
SetTarget(r, f, v) == hub' = [hub EXCEPT !["target"][r][f] = v]

LEMMA TargetSet ==
    ASSUME MirrorTypes, NEW r \in Repositories, NEW f \in FileSet, NEW v \in Held, SetTarget(r, f, v)
    PROVE  /\ hub' \in Hubs /\ hub'["source"] = hub["source"]
           /\ hub'["target"][r][f] = v
           /\ \A q \in Repositories, g \in FileSet :
                q # r \/ g # f => hub'["target"][q][g] = hub["target"][q][g]
  <1>1. /\ hub \in [Sides -> [Repositories -> [FileSet -> Held]]]
        /\ "target" \in Sides /\ "source" \in Sides /\ "target" # "source"
    BY DEF MirrorTypes, Hubs, Sides
  <1>2. hub["target"] \in [Repositories -> [FileSet -> Held]]
    BY <1>1
  <1>3. hub["target"][r] \in [FileSet -> Held]
    BY <1>2
  <1> DEFINE files == [hub["target"][r] EXCEPT ![f] = v]
             repos == [hub["target"] EXCEPT ![r] = files]
  <1>4. /\ files \in [FileSet -> Held] /\ files[f] = v
        /\ \A g \in FileSet : g # f => files[g] = hub["target"][r][g]
    BY <1>3
  <1>5. hub' = [hub EXCEPT !["target"] = repos]
    BY DEF SetTarget
  <1> HIDE DEF files
  <1>6. /\ repos \in [Repositories -> [FileSet -> Held]] /\ repos[r] = files
        /\ \A q \in Repositories : q # r => repos[q] = hub["target"][q]
    BY <1>2, <1>4
  <1> HIDE DEF repos
  <1>7. hub' \in [Sides -> [Repositories -> [FileSet -> Held]]]
        /\ hub'["target"] = repos /\ hub'["source"] = hub["source"]
    BY <1>1, <1>5, <1>6
  <1>8. hub' \in Hubs
    BY <1>7 DEF Hubs
  <1>9. QED
    BY <1>4, <1>6, <1>7, <1>8

\* What a walk that is cut off leaves is a value of a file, and never nothing for a payload.
LEMMA CutOffLeaves ==
    ASSUME MirrorTypes, Repo \in Repositories, NEW f \in FileSet, NEW left \in CutOff(f)
    PROVE  left \in Held /\ (f \in Payloads => left = Part)
  <1>1. hub["target"][Repo][f] \in Held
    BY DEF MirrorTypes, Hubs, Sides
  <1>2. QED
    BY <1>1, FilesAre DEF CutOff, Held

LEMMA SyncFields ==
    ASSUME MirrorTypes
    PROVE  /\ DOMAIN sync = {"step", "copy", "delete", "at", "next", "ok"}
           /\ sync.step \in Steps /\ sync.copy \subseteq Repositories
           /\ sync.delete \subseteq Repositories /\ sync.next \in Positions
           /\ sync.at # <<>> => Repo \in Repositories /\ sync.at = <<Repo>>
  BY DEF MirrorTypes, Syncs, Repo

IdleAt(step) == [Idle EXCEPT !.step = step]

LEMMA IdleIs ==
    ASSUME NEW step \in Steps
    PROVE  /\ IdleAt(step) \in Syncs /\ IdleAt(step).step = step /\ IdleAt(step).delete = {}
           /\ Idle \in Syncs /\ Idle.step = "idle" /\ Idle.delete = {}
  BY PositionsAre DEF IdleAt, Idle, Syncs, Steps

\* Before a plan there is nothing to keep.
LEMMA Unplanned ==
    ASSUME MirrorTypes', sync'.step \in {"idle", "plan", "in sync"}, sync'.delete = {}
    PROVE  MirrorInv'
  BY DEF MirrorInv, StepsFollow, SourceGrows, ExtraIsForeign, DoneIsThere, Planned

LEMMA MirrorBegins == MirrorInit => MirrorInv
  <1> SUFFICES ASSUME MirrorInit PROVE MirrorInv
    OBVIOUS
  <1>1. PICK source \in Present, target \in Present :
           hub = [side \in Sides |-> [r \in Repositories |->
                    IF r \in (IF side = "source" THEN source ELSE target)
                    THEN FirstCommit ELSE NoRepo]]
    BY DEF MirrorInit
  <1>2. /\ FirstCommit \in [FileSet -> {NoFile} \cup Commits]
        /\ NoRepo \in [FileSet -> {NoFile} \cup Commits]
    BY CommitsAre DEF FirstCommit, NoRepo
  <1>3. \A side \in Sides, r \in Repositories : hub[side][r] \in [FileSet -> {NoFile} \cup Commits]
    BY <1>1, <1>2
  <1>4. hub \in Hubs
    <2>1. \A side \in Sides, r \in Repositories : hub[side][r] \in [FileSet -> Held]
      BY <1>3 DEF Held
    <2>2. hub = [side \in Sides |-> [r \in Repositories |-> hub[side][r]]]
      BY <1>1
    <2>3. QED
      BY <2>1, <2>2 DEF Hubs
  <1>5. "source" \in Sides /\ hub["source"] \in [Repositories -> [FileSet -> Held]]
    BY <1>4 DEF Hubs, Sides
  <1>6. \A r \in Repositories, f \in FileSet : hub["source"][r][f] # Part
    BY <1>3, <1>5, CommitsAre
  <1>7. /\ sync \in Syncs /\ sync.step = "idle" /\ sync.delete = {}
    BY IdleIs DEF MirrorInit, Steps
  <1>8. /\ planned \in [source : [Repositories -> [FileSet -> Held]],
                        copy : SUBSET Repositories, delete : SUBSET Repositories]
        /\ updates \in Nat /\ updates <= MaxUpdates
    <2>1. planned = [source |-> hub["source"], copy |-> {}, delete |-> {}] /\ updates = 0
      BY DEF MirrorInit
    <2>2. updates \in Nat /\ updates <= MaxUpdates
      BY <2>1, FilesAre
    <2>3. QED
      BY <1>5, <2>1, <2>2
  <1>9. MirrorTypes
    BY <1>4, <1>6, <1>7, <1>8 DEF MirrorTypes
  <1>10. QED
    BY <1>7, <1>9 DEF MirrorInv, StepsFollow, SourceGrows, ExtraIsForeign, DoneIsThere, Planned

LEMMA BeginSyncKeeps == ASSUME MirrorInv, BeginSync PROVE MirrorInv'
  <1>1. /\ sync' \in Syncs /\ sync'.step = "plan" /\ sync'.delete = {}
    BY IdleIs DEF BeginSync, Steps, IdleAt
  <1>2. MirrorTypes'
    BY <1>1 DEF MirrorInv, MirrorTypes, BeginSync
  <1>3. QED
    BY <1>1, <1>2, Unplanned

LEMMA MakePlanKeeps == ASSUME MirrorInv, MakePlan PROVE MirrorInv'
  <1>1. ToCopy \subseteq Repositories /\ ToDelete \subseteq Repositories
    BY DEF ToCopy, ToDelete, Listed
  <1>2. ToCopy \cap ToDelete = {}
    BY DEF ToCopy, ToDelete, NamesAt
  <1>3. \A r \in ToDelete : options.deleteExtra /\ Wanted(r) /\ hub["source"][r][Dir] = NoFile
    BY DEF ToDelete, NamesAt, Listed
  <1> DEFINE step == IF ToCopy \cup ToDelete = {} THEN "in sync" ELSE "copy"
  <1>4. sync' = [Idle EXCEPT !.step = step, !.copy = ToCopy, !.delete = ToDelete]
    BY DEF MakePlan
  <1>5. step \in Steps /\ (step = "in sync" => ToDelete = {}) /\ step \in {"in sync", "copy"}
    BY DEF Steps
  <1> HIDE DEF step
  <1>6. sync' = [step |-> step, copy |-> ToCopy, delete |-> ToDelete, at |-> <<>>, next |-> 1, ok |-> TRUE]
    BY <1>4 DEF Idle
  <1>7. /\ sync' \in Syncs /\ sync'.step = step /\ sync'.copy = ToCopy /\ sync'.delete = ToDelete
        /\ sync'.at = <<>>
    BY <1>1, <1>5, <1>6, PositionsAre DEF Syncs
  <1>8. /\ hub["source"] \in [Repositories -> [FileSet -> Held]] /\ hub' = hub
        /\ options' = options /\ updates' = updates
    BY DEF MirrorInv, MirrorTypes, Hubs, Sides, MakePlan
  <1>9. /\ planned' \in [source : [Repositories -> [FileSet -> Held]],
                         copy : SUBSET Repositories, delete : SUBSET Repositories]
        /\ planned'.source = hub["source"] /\ planned'.copy = ToCopy /\ planned'.delete = ToDelete
    BY <1>1, <1>8 DEF MakePlan
  <1>10. MirrorTypes'
    BY <1>7, <1>8, <1>9 DEF MirrorInv, MirrorTypes
  <1>11. CASE step = "in sync"
    BY <1>5, <1>7, <1>10, <1>11, Unplanned
  <1>12. CASE step = "copy"
    <2>1. StepsFollow'
      BY <1>2, <1>7, <1>9, <1>12 DEF StepsFollow
    <2>2. SourceGrows'
      BY <1>8, <1>9 DEF SourceGrows
    <2>3. ExtraIsForeign'
      BY <1>3, <1>7, <1>8, <1>9 DEF ExtraIsForeign, Wanted
    <2>4. DoneIsThere'
      BY <1>7, <1>9, <1>12 DEF DoneIsThere
    <2>5. QED
      BY <1>10, <2>1, <2>2, <2>3, <2>4 DEF MirrorInv
  <1>13. QED
    BY <1>5, <1>11, <1>12

LEMMA StartRepoKeeps ==
    ASSUME MirrorInv, NEW r \in Repositories, StartRepo(r) PROVE MirrorInv'
  <1>1. sync \in Syncs /\ sync.step = "copy"
    BY DEF MirrorInv, MirrorTypes, StartRepo
  <1>2. /\ sync' \in Syncs /\ sync'.step = "copy" /\ sync'.copy = sync.copy
        /\ sync'.delete = sync.delete /\ sync'.next = 1 /\ (sync'.ok => sync.ok)
    BY <1>1, PositionsAre DEF StartRepo, Syncs
  <1>3. UNCHANGED <<hub, options, planned, updates>>
    BY DEF StartRepo
  <1>4. MirrorTypes'
    BY <1>2, <1>3 DEF MirrorInv, MirrorTypes
  <1>5. StepsFollow' /\ SourceGrows' /\ ExtraIsForeign'
    BY <1>1, <1>2, <1>3 DEF MirrorInv, StepsFollow, SourceGrows, ExtraIsForeign, Planned, Wanted
  <1>6. DoneIsThere'
    <2>1. \A i \in DOMAIN Files : ~(i < sync'.next)
      BY <1>2, FilesAre
    <2>2. QED
      BY <1>1, <1>2, <1>3, <2>1 DEF MirrorInv, DoneIsThere, Planned, RepoIsCopied, Copied
  <1>7. QED
    BY <1>4, <1>5, <1>6 DEF MirrorInv

\* The copy of a repository is over, with or without an error.
LEMMA RepoEndsIs ==
    ASSUME sync \in Syncs, sync.step = "copy", sync.at # <<>>, NEW ok \in BOOLEAN, sync' = RepoEnds(ok)
    PROVE  /\ sync' \in Syncs /\ sync'.delete = sync.delete
           /\ sync'.ok => sync.ok /\ ok
           /\ \/ sync'.step = "verify" /\ sync'.copy = sync.copy /\ sync'.at = sync.at
              \/ sync'.step = "copy" /\ sync'.copy = sync.copy \ {Repo} /\ sync'.at = <<>>
  <1>1. CASE options.verify
    <2>1. sync' = [sync EXCEPT !.step = "verify", !.ok = @ /\ ok]
      BY <1>1 DEF RepoEnds, RepoCopied
    <2>2. QED
      BY <2>1 DEF Syncs, Steps
  <1>2. CASE ~options.verify
    <2>1. sync' = [sync EXCEPT !.at = <<>>, !.copy = @ \ {Repo}, !.ok = @ /\ ok]
      BY <1>2 DEF RepoEnds, RepoCopied
    <2>2. PICK b \in BOOLEAN : b = (sync.ok /\ ok)
      OBVIOUS
    <2> DEFINE rest == sync.copy \ {Repo}
    <2>. rest \in SUBSET Repositories
      BY DEF Syncs
    <2> HIDE DEF rest
    <2>3. sync' = [step |-> "copy", copy |-> rest, delete |-> sync.delete,
                   at |-> <<>>, next |-> sync.next, ok |-> b]
      BY <2>1, <2>2 DEF Syncs, rest
    <2>4. sync' \in Syncs
      <3>1. sync.delete \in SUBSET Repositories /\ sync.next \in Positions
        BY DEF Syncs
      <3>2. "copy" \in Steps
        BY DEF Steps
      <3>3. QED
        BY <2>3, <3>1, <3>2 DEF Syncs
    <2>5. sync'.ok = b
      BY <2>3
    <2>6. /\ sync'.step = "copy" /\ sync'.copy = sync.copy \ {Repo} /\ sync'.at = <<>>
          /\ sync'.delete = sync.delete
      BY <2>3 DEF rest
    <2>7. QED
      BY <2>2, <2>4, <2>5, <2>6
  <1>3. QED
    BY <1>1, <1>2

LEMMA RepoEndsKeeps ==
    ASSUME MirrorInv, sync.step = "copy", sync.at # <<>>, NEW ok \in BOOLEAN, sync' = RepoEnds(ok),
           hub' \in Hubs, hub'["source"] = hub["source"], UNCHANGED <<options, planned, updates>>,
           (sync.ok /\ ok) => RepoIsCopied(Repo) /\ hub' = hub
    PROVE  MirrorInv'
  <1>1. sync \in Syncs
    BY DEF MirrorInv, MirrorTypes
  <1>2. /\ sync' \in Syncs /\ sync'.delete = sync.delete
        /\ sync'.ok => sync.ok /\ ok
        /\ \/ sync'.step = "verify" /\ sync'.copy = sync.copy /\ sync'.at = sync.at
           \/ sync'.step = "copy" /\ sync'.copy = sync.copy \ {Repo} /\ sync'.at = <<>>
    BY <1>1, RepoEndsIs
  <1>3. MirrorTypes'
    BY <1>2 DEF MirrorInv, MirrorTypes
  <1>4. StepsFollow' /\ SourceGrows' /\ ExtraIsForeign'
    BY <1>2 DEF MirrorInv, StepsFollow, SourceGrows, ExtraIsForeign, Planned, Wanted
  <1>5. DoneIsThere'
    <2> SUFFICES ASSUME sync'.ok PROVE DoneIsThere'
      BY DEF DoneIsThere
    <2>1. hub' = hub /\ RepoIsCopied(Repo) /\ sync.ok
      BY <1>2
    <2>2. \A r : RepoIsCopied(r)' <=> RepoIsCopied(r)
      BY <2>1 DEF RepoIsCopied, Copied
    <2>3. sync'.step = "verify" => Repo' = Repo
      BY <1>2 DEF Repo
    <2>4. CASE sync'.step = "verify"
      BY <1>2, <2>1, <2>2, <2>3, <2>4 DEF MirrorInv, DoneIsThere, Planned
    <2>5. CASE sync'.step = "copy" /\ sync'.at = <<>>
      BY <1>2, <2>1, <2>2, <2>5 DEF MirrorInv, DoneIsThere, Planned
    <2>6. QED
      BY <1>2, <2>4, <2>5
  <1>6. QED
    BY <1>3, <1>4, <1>5 DEF MirrorInv

LEMMA WalkEndsKeeps == ASSUME MirrorInv, WalkEnds PROVE MirrorInv'
  <1>1. sync.ok => RepoIsCopied(Repo)
    <2> SUFFICES ASSUME sync.ok, NEW f \in FileSet PROVE Copied(Repo, f)
      BY DEF RepoIsCopied
    <2>1. PICK i \in DOMAIN Files : Files[i] = f
      BY FilesAre
    <2>2. i < sync.next
      <3>1. sync.next > Len(Files) /\ sync.next \in Positions
        BY SyncFields DEF WalkEnds, MirrorInv
      <3>2. QED
        <4>1. sync.next \in Nat /\ Len(Files) \in Nat /\ i \in Int /\ i <= Len(Files)
          BY <2>1, <3>1, PlacesAre, PositionsAre
        <4>2. QED
          BY <3>1, <4>1
    <2>3. QED
      BY <2>1, <2>2 DEF WalkEnds, MirrorInv, DoneIsThere, Planned
  <1>2. hub' = hub /\ hub \in Hubs
    BY DEF WalkEnds, MirrorInv, MirrorTypes
  <1>3. QED
    BY <1>1, <1>2, RepoEndsKeeps DEF WalkEnds

LEMMA VerifyRepoKeeps == ASSUME MirrorInv, VerifyRepo PROVE MirrorInv'
  <1>1. sync \in Syncs /\ sync.step = "verify" /\ UNCHANGED <<hub, options, planned, updates>>
    BY DEF MirrorInv, MirrorTypes, VerifyRepo
  <1>2. /\ sync' \in Syncs /\ sync'.step = "copy" /\ sync'.copy = sync.copy \ {Repo}
        /\ sync'.delete = sync.delete /\ sync'.at = <<>> /\ (sync'.ok => sync.ok)
    BY <1>1 DEF VerifyRepo, Syncs, Steps
  <1>3. MirrorTypes'
    BY <1>1, <1>2 DEF MirrorInv, MirrorTypes
  <1>4. StepsFollow' /\ SourceGrows' /\ ExtraIsForeign'
    BY <1>1, <1>2 DEF MirrorInv, StepsFollow, SourceGrows, ExtraIsForeign, Planned, Wanted
  <1>5. DoneIsThere'
    BY <1>1, <1>2 DEF MirrorInv, DoneIsThere, Planned, RepoIsCopied, Copied
  <1>6. QED
    BY <1>3, <1>4, <1>5 DEF MirrorInv

LEMMA CopiesEndKeeps == ASSUME MirrorInv, CopiesEnd PROVE MirrorInv'
  <1>1. /\ sync \in Syncs /\ sync.step = "copy" /\ sync.copy = {}
        /\ UNCHANGED <<hub, options, planned, updates>>
    BY DEF MirrorInv, MirrorTypes, CopiesEnd
  <1>2. /\ sync' \in Syncs /\ sync'.step = "delete" /\ sync'.copy = sync.copy
        /\ sync'.delete = sync.delete /\ sync'.at = sync.at /\ (sync'.ok => sync.ok)
    BY <1>1 DEF CopiesEnd, Syncs, Steps
  <1>3. MirrorTypes'
    BY <1>1, <1>2 DEF MirrorInv, MirrorTypes
  <1>4. StepsFollow' /\ SourceGrows' /\ ExtraIsForeign'
    BY <1>1, <1>2 DEF MirrorInv, StepsFollow, SourceGrows, ExtraIsForeign, Planned, Wanted
  <1>5. DoneIsThere'
    BY <1>1, <1>2 DEF MirrorInv, DoneIsThere, Planned, RepoIsCopied, Copied
  <1>6. QED
    BY <1>3, <1>4, <1>5 DEF MirrorInv

LEMMA AnswerSyncKeeps == ASSUME MirrorInv, AnswerSync PROVE MirrorInv'
  <1>1. /\ sync \in Syncs /\ sync.step = "delete" /\ sync.delete = {}
        /\ UNCHANGED <<hub, options, planned, updates>>
    BY DEF MirrorInv, MirrorTypes, AnswerSync
  <1>2. /\ sync' \in Syncs /\ sync'.step = "answered" /\ sync'.copy = sync.copy
        /\ sync'.delete = sync.delete /\ sync'.at = sync.at /\ (sync'.ok => sync.ok)
    BY <1>1 DEF AnswerSync, Syncs, Steps
  <1>3. MirrorTypes'
    BY <1>1, <1>2 DEF MirrorInv, MirrorTypes
  <1>4. StepsFollow' /\ SourceGrows' /\ ExtraIsForeign'
    BY <1>1, <1>2 DEF MirrorInv, StepsFollow, SourceGrows, ExtraIsForeign, Planned, Wanted
  <1>5. DoneIsThere'
    BY <1>1, <1>2 DEF MirrorInv, DoneIsThere, Planned, RepoIsCopied, Copied
  <1>6. QED
    BY <1>3, <1>4, <1>5 DEF MirrorInv

LEMMA CopyFileKeeps == ASSUME MirrorInv, CopyFile PROVE MirrorInv'
  <1> SUFFICES ASSUME NEW f, f = Files[sync.next], NEW p, p = Repo, NEW from, from = hub["source"][p][f]
               PROVE MirrorInv'
    OBVIOUS
  <1>1. /\ sync \in Syncs /\ sync.step = "copy" /\ sync.at # <<>> /\ p = Repo /\ p \in Repositories
        /\ sync.next \in Positions /\ sync.next <= Len(Files) /\ UNCHANGED <<options, planned, updates>>
        /\ MirrorTypes
    BY SyncFields DEF MirrorInv, MirrorTypes, CopyFile
  <1>2. sync.next \in DOMAIN Files /\ f \in FileSet
    BY <1>1, FilesAre, PositionsAre
  <1>3. /\ hub["source"][p][f] \in Held /\ from # Part
        /\ hub["target"] \in [Repositories -> [FileSet -> Held]]
    BY <1>1, <1>2 DEF MirrorTypes, Hubs, Sides
  <1>4. DoneIsThere /\ SourceGrows /\ sync.step = "copy" /\ Planned
    BY <1>1 DEF MirrorInv, Planned
  <1>5. CASE /\ sync' = [sync EXCEPT !.next = @ + 1]
             /\ hub' \in Hubs /\ hub'["source"] = hub["source"]
             /\ \A r \in Repositories, g \in FileSet : Copied(r, g) => Copied(r, g)'
             /\ Copied(p, f)'
             /\ updates = 0 => \A r \in planned.delete \ sync.delete : hub'["target"][r][Dir] = NoFile
    <2>1. /\ sync' \in Syncs /\ sync'.step = "copy" /\ sync'.copy = sync.copy
          /\ sync'.delete = sync.delete /\ sync'.at = sync.at /\ (sync'.ok => sync.ok)
          /\ sync'.next = sync.next + 1
      BY <1>1, <1>5, PositionsAre DEF Syncs
    <2>2. MirrorTypes'
      BY <1>1, <1>5, <2>1 DEF MirrorTypes
    <2>3. StepsFollow' /\ SourceGrows' /\ ExtraIsForeign'
      BY <1>1, <1>5, <2>1 DEF MirrorInv, StepsFollow, SourceGrows, ExtraIsForeign, Planned, Wanted
    <2>4. DoneIsThere'
      <3> SUFFICES ASSUME sync'.ok PROVE DoneIsThere'
        BY DEF DoneIsThere
      <3>1. sync.ok /\ Repo' = p /\ planned' = planned /\ updates' = updates
        BY <1>1, <2>1 DEF Repo
      <3>2. \A r \in planned.copy \ sync.copy : RepoIsCopied(r)'
        BY <1>1, <1>4, <1>5, <3>1 DEF DoneIsThere, RepoIsCopied, MirrorTypes
      <3>3. \A i \in DOMAIN Files : i < sync.next + 1 => Copied(p, Files[i])'
        <4> SUFFICES ASSUME NEW i \in DOMAIN Files, i < sync.next + 1 PROVE Copied(p, Files[i])'
          OBVIOUS
        <4>1. i < sync.next \/ i = sync.next
          BY <1>1, PlacesAre, PositionsAre
        <4>2. CASE i < sync.next
          <5>1. Copied(p, Files[i])
            BY <1>1, <1>4, <3>1, <4>2 DEF DoneIsThere
          <5>2. QED
            <6>1. Files[i] \in FileSet
              BY FilesAre
            <6>2. \A g \in FileSet : Copied(p, g) => Copied(p, g)'
              BY <1>1, <1>5
            <6>3. QED
              BY <5>1, <6>1, <6>2 DEF Copied
        <4>3. CASE i = sync.next
          <5>1. Files[i] = f /\ Copied(p, f)'
            BY <1>5, <4>3
          <5>2. QED
            BY <5>1 DEF Copied
        <4>4. QED
          BY <4>1, <4>2, <4>3
      <3>4. \A i \in DOMAIN Files : i < sync'.next => Copied(Repo, Files[i])'
        BY <2>1, <3>1, <3>3 DEF Copied
      <3>5. /\ \A r \in planned'.copy \ sync'.copy : RepoIsCopied(r)'
            /\ updates' = 0 => \A r \in planned'.delete \ sync'.delete : hub'["target"][r][Dir] = NoFile
        BY <1>1, <1>5, <2>1, <3>1, <3>2
      <3>6. QED
        BY <2>1, <3>4, <3>5 DEF DoneIsThere
    <2>5. QED
      BY <2>2, <2>3, <2>4 DEF MirrorInv
  <1>6. CASE from = NoFile
    <2>1. sync' = [sync EXCEPT !.next = @ + 1] /\ hub' = hub
      BY <1>6 DEF CopyFile
    <2>2. \A r, g : Copied(r, g) => Copied(r, g)'
      BY <1>1, <2>1 DEF Copied
    <2>3. planned'.source[p][f] = NoFile
      BY <1>1, <1>2, <1>4, <1>6 DEF SourceGrows
    <2>4. Copied(p, f)'
      BY <2>3 DEF Copied
    <2>5. updates = 0 => \A r \in planned.delete \ sync.delete : hub'["target"][r][Dir] = NoFile
      BY <1>1, <2>1 DEF MirrorInv, StepsFollow
    <2>6. QED
      BY <1>1, <1>5, <2>1, <2>2, <2>4, <2>5 DEF MirrorTypes
  <1>7. CASE from # NoFile /\ SetTarget(p, f, from) /\ sync' = [sync EXCEPT !.next = @ + 1]
    <2>1. from \in Commits /\ from \in Held
      BY <1>3, <1>7, CommitsAre
    <2>2. /\ hub' \in Hubs /\ hub'["source"] = hub["source"]
          /\ hub'["target"][p][f] = from
          /\ \A q \in Repositories, g \in FileSet :
                q # p \/ g # f => hub'["target"][q][g] = hub["target"][q][g]
      BY <1>1, <1>2, <1>7, <2>1, TargetSet
    <2>3. Copied(p, f)'
      BY <2>1, <2>2 DEF Copied
    <2>4. \A r \in Repositories, g \in FileSet : Copied(r, g) => Copied(r, g)'
      BY <1>1, <2>1, <2>2 DEF Copied
    <2>5. updates = 0 => \A r \in planned.delete \ sync.delete : hub'["target"][r][Dir] = NoFile
      BY <1>1 DEF MirrorInv, StepsFollow
    <2>6. QED
      BY <1>5, <1>7, <2>2, <2>3, <2>4, <2>5
  <1>8. CASE \E left \in CutOff(f) : SetTarget(p, f, left) /\ sync' = RepoEnds(FALSE)
    <2>1. PICK left \in CutOff(f) : SetTarget(p, f, left) /\ sync' = RepoEnds(FALSE)
      BY <1>8
    <2>2. left \in Held
      BY <1>1, <1>2, CutOffLeaves
    <2>3. hub' \in Hubs /\ hub'["source"] = hub["source"]
      BY <1>1, <1>2, <2>1, <2>2, TargetSet
    <2>4. QED
      BY <1>1, <2>1, <2>3, RepoEndsKeeps
  <1>9. QED
    BY <1>6, <1>7, <1>8 DEF CopyFile, SetTarget

\* One repository of one hub changes.
SetRepo(side, r, files) == hub' = [hub EXCEPT ![side][r] = files]

LEMMA RepoSet ==
    ASSUME MirrorTypes, NEW side \in Sides, NEW r \in Repositories, NEW files \in [FileSet -> Held],
           SetRepo(side, r, files)
    PROVE  /\ hub' \in Hubs /\ hub'[side][r] = files
           /\ \A s \in Sides, q \in Repositories : s # side \/ q # r => hub'[s][q] = hub[s][q]
           /\ \A s \in Sides : s # side => hub'[s] = hub[s]
  <1>1. hub \in [Sides -> [Repositories -> [FileSet -> Held]]]
    BY DEF MirrorTypes, Hubs
  <1>2. hub[side] \in [Repositories -> [FileSet -> Held]]
    BY <1>1
  <1> DEFINE repos == [hub[side] EXCEPT ![r] = files]
  <1>3. /\ repos \in [Repositories -> [FileSet -> Held]] /\ repos[r] = files
        /\ \A q \in Repositories : q # r => repos[q] = hub[side][q]
    BY <1>2
  <1>4. hub' = [hub EXCEPT ![side] = repos]
    BY DEF SetRepo
  <1> HIDE DEF repos
  <1>5. /\ hub' \in [Sides -> [Repositories -> [FileSet -> Held]]] /\ hub'[side] = repos
        /\ \A s \in Sides : s # side => hub'[s] = hub[s]
    BY <1>1, <1>3, <1>4
  <1>6. QED
    BY <1>3, <1>5 DEF Hubs

\* Removing a repository that is extra, whether it succeeds or leaves a rest.
Removal(r, files, ok) ==
    /\ sync.step = "delete" /\ r \in sync.delete
    /\ SetRepo("target", r, files) /\ files \in [FileSet -> Held]
    /\ sync' \in Syncs /\ sync'.step = "delete" /\ sync'.copy = sync.copy /\ sync'.at = sync.at
    /\ sync'.delete = sync.delete \ {r} /\ (sync'.ok => sync.ok /\ files[Dir] = NoFile)
    /\ UNCHANGED <<options, planned, updates>>

LEMMA DeleteRepoIs ==
    ASSUME MirrorInv, NEW r \in Repositories, DeleteRepo(r)
    PROVE  \E files \in [FileSet -> Held], ok \in BOOLEAN : Removal(r, files, ok)
  <1>1. sync \in Syncs /\ sync.step = "delete" /\ r \in sync.delete /\ UNCHANGED <<options, planned, updates>>
    BY DEF MirrorInv, MirrorTypes, DeleteRepo
  <1>2. NoRepo \in [FileSet -> Held] /\ NoRepo[Dir] = NoFile
    BY FilesAre DEF NoRepo, Held
  <1> DEFINE rest == sync.delete \ {r}
  <1>3. rest \in SUBSET Repositories
    BY <1>1 DEF Syncs
  <1> HIDE DEF rest
  <1>4. CASE hub' = [hub EXCEPT !["target"][r] = NoRepo] /\ sync' = [sync EXCEPT !.delete = @ \ {r}]
    <2>1. sync' = [sync EXCEPT !.delete = rest]
      BY <1>1, <1>4 DEF rest, Syncs
    <2>2. /\ sync' \in Syncs /\ sync'.step = "delete" /\ sync'.copy = sync.copy
          /\ sync'.at = sync.at /\ sync'.delete = rest /\ (sync'.ok => sync.ok)
      BY <1>1, <1>3, <2>1 DEF Syncs
    <2>3. Removal(r, NoRepo, TRUE)
      BY <1>1, <1>2, <1>4, <2>2 DEF Removal, SetRepo, rest
    <2>4. QED
      BY <1>2, <2>3
  <1>5. ASSUME NEW left \in SUBSET (FileSet \ {Dir}),
               hub' = [hub EXCEPT !["target"][r] = [f \in FileSet |->
                         IF f \in left \cup {Dir} THEN hub["target"][r][f] ELSE NoFile]],
               sync' = [sync EXCEPT !.delete = @ \ {r}, !.ok = FALSE]
        PROVE  \E files \in [FileSet -> Held], ok \in BOOLEAN : Removal(r, files, ok)
    <2> DEFINE files == [f \in FileSet |-> IF f \in left \cup {Dir} THEN hub["target"][r][f] ELSE NoFile]
    <2>1. files \in [FileSet -> Held]
      <3>1. \A f \in FileSet : hub["target"][r][f] \in Held
        BY DEF MirrorInv, MirrorTypes, Hubs, Sides
      <3>2. QED
        BY <3>1 DEF Held
    <2>2. SetRepo("target", r, files)
      BY <1>5 DEF SetRepo
    <2> HIDE DEF files
    <2>3. sync' = [sync EXCEPT !.delete = rest, !.ok = FALSE]
      BY <1>1, <1>5 DEF rest, Syncs
    <2>4. /\ sync' \in Syncs /\ sync'.step = "delete" /\ sync'.copy = sync.copy
          /\ sync'.at = sync.at /\ sync'.delete = rest /\ ~sync'.ok
      BY <1>1, <1>3, <2>3 DEF Syncs
    <2>5. Removal(r, files, FALSE)
      BY <1>1, <2>1, <2>2, <2>4 DEF Removal, rest
    <2>6. QED
      BY <2>1, <2>5
  <1>6. QED
    BY <1>4, <1>5 DEF DeleteRepo

LEMMA DeleteRepoKeeps ==
    ASSUME MirrorInv, NEW r \in Repositories, DeleteRepo(r) PROVE MirrorInv'
  <1>1. PICK files \in [FileSet -> Held], ok \in BOOLEAN : Removal(r, files, ok)
    BY DeleteRepoIs
  <1>2. "target" \in Sides /\ "source" \in Sides
    BY DEF Sides
  <1>3. /\ hub' \in Hubs /\ hub'["target"][r] = files /\ hub'["source"] = hub["source"]
        /\ \A q \in Repositories : q # r => hub'["target"][q] = hub["target"][q]
    BY <1>1, <1>2, RepoSet DEF Removal, MirrorInv
  <1>4. /\ sync.step = "delete" /\ r \in sync.delete /\ sync' \in Syncs /\ sync'.step = "delete"
        /\ sync'.copy = sync.copy /\ sync'.delete = sync.delete \ {r}
        /\ sync'.ok => sync.ok /\ files[Dir] = NoFile
        /\ options' = options /\ planned' = planned /\ updates' = updates
    BY <1>1 DEF Removal
  <1>5. MirrorTypes'
    BY <1>3, <1>4 DEF MirrorInv, MirrorTypes
  <1>6. StepsFollow' /\ SourceGrows' /\ ExtraIsForeign'
    <2>1. Planned /\ Planned'
      BY <1>4 DEF Planned
    <2>2. StepsFollow'
      BY <1>4, <2>1 DEF MirrorInv, StepsFollow
    <2>3. SourceGrows'
      BY <1>3, <1>4, <2>1 DEF MirrorInv, SourceGrows
    <2>4. ExtraIsForeign'
      BY <1>4, <2>1 DEF MirrorInv, ExtraIsForeign, Wanted
    <2>5. QED
      BY <2>2, <2>3, <2>4
  <1>7. DoneIsThere'
    <2> SUFFICES ASSUME sync'.ok PROVE DoneIsThere'
      BY DEF DoneIsThere
    <2>1. planned \in [source : [Repositories -> [FileSet -> Held]],
                       copy : SUBSET Repositories, delete : SUBSET Repositories]
      BY DEF MirrorInv, MirrorTypes
    <2>2. planned.copy \subseteq Repositories /\ planned.delete \subseteq Repositories
      BY <2>1
    <2>3. r \notin planned.copy
      BY <1>4 DEF MirrorInv, StepsFollow, Planned
    <2>4. \A q \in planned.copy \ sync.copy : RepoIsCopied(q)'
      BY <1>3, <1>4, <2>2, <2>3 DEF MirrorInv, DoneIsThere, Planned, RepoIsCopied, Copied
    <2>5. updates = 0 => \A q \in planned.delete \ sync.delete : hub["target"][q][Dir] = NoFile
      BY <1>4 DEF MirrorInv, DoneIsThere, Planned
    <2>6. updates' = 0 => \A q \in planned'.delete \ sync'.delete : hub'["target"][q][Dir] = NoFile
      BY <1>3, <1>4, <2>2, <2>5
    <2>7. QED
      BY <1>4, <2>4, <2>6 DEF DoneIsThere
  <1>8. QED
    BY <1>5, <1>6, <1>7 DEF MirrorInv

LEMMA DownloadedKeeps ==
    ASSUME MirrorInv, NEW side \in Sides, NEW r \in Repositories, Downloaded(side, r)
    PROVE  /\ MirrorInv'
           /\ \A q \in Repositories, f \in FileSet :
                hub["target"][q][f] # NoFile => hub'["target"][q][f] # NoFile
  <1>1. /\ updates < MaxUpdates /\ updates' = updates + 1 /\ updates \in Nat /\ MaxUpdates \in Nat
        /\ sync' = sync /\ options' = options /\ planned' = planned
    BY FilesAre DEF Downloaded, MirrorInv, MirrorTypes
  <1>2. PICK added \in SUBSET Payloads :
           hub' = [hub EXCEPT ![side][r] = [f \in FileSet |->
                      IF Follows(f) THEN updates' + 1
                      ELSE IF f \in added \cup {Dir} THEN Whole ELSE @[f]]]
    BY DEF Downloaded
  <1> DEFINE files == [f \in FileSet |->
                      IF Follows(f) THEN updates' + 1
                      ELSE IF f \in added \cup {Dir} THEN Whole ELSE hub[side][r][f]]
  <1>3. hub[side][r] \in [FileSet -> Held]
    BY DEF MirrorInv, MirrorTypes, Hubs
  <1>4. updates' + 1 \in Commits
    BY <1>1 DEF Commits
  <1>5. /\ files \in [FileSet -> Held]
        /\ \A f \in FileSet : files[f] \in Commits \/ files[f] = hub[side][r][f]
    BY <1>3, <1>4, CommitsAre DEF Held
  <1>6. SetRepo(side, r, files)
    BY <1>2 DEF SetRepo
  <1> HIDE DEF files
  <1>7. /\ hub' \in Hubs
        /\ \A s \in Sides, q \in Repositories, f \in FileSet :
             hub'[s][q][f] \in Commits \/ hub'[s][q][f] = hub[s][q][f]
    BY <1>5, <1>6, RepoSet DEF MirrorInv
  <1>8. "target" \in Sides /\ "source" \in Sides
    BY DEF Sides
  <1>9. MirrorTypes'
    BY <1>1, <1>7, <1>8, CommitsAre DEF MirrorInv, MirrorTypes
  <1>10. StepsFollow' /\ ExtraIsForeign'
    BY <1>1 DEF MirrorInv, StepsFollow, ExtraIsForeign, Planned, Wanted
  <1>11. SourceGrows'
    BY <1>1, <1>7, <1>8, CommitsAre DEF MirrorInv, SourceGrows, Planned
  <1>12. DoneIsThere'
    <2> SUFFICES ASSUME sync.ok, Planned PROVE DoneIsThere'
      BY <1>1 DEF DoneIsThere, Planned
    <2>1. updates' # 0
      BY <1>1
    <2>2. \A q \in Repositories, f \in FileSet : Copied(q, f) => Copied(q, f)'
      BY <1>1, <1>7, <1>8 DEF Copied
    <2>3. \A q \in Repositories : RepoIsCopied(q) => RepoIsCopied(q)'
      BY <2>2 DEF RepoIsCopied
    <2>4. Repo' = Repo /\ (sync.at # <<>> => Repo \in Repositories) /\ planned.copy \subseteq Repositories
      BY <1>1, SyncFields DEF Repo, MirrorInv, MirrorTypes
    <2>5. \A q \in planned'.copy \ sync'.copy : RepoIsCopied(q)'
      BY <1>1, <2>3, <2>4 DEF MirrorInv, DoneIsThere
    <2>6. sync'.step = "copy" /\ sync'.at # <<>> =>
             \A i \in DOMAIN Files : i < sync'.next => Copied(Repo, Files[i])'
      <3> SUFFICES ASSUME sync.step = "copy", sync.at # <<>>, NEW i \in DOMAIN Files, i < sync.next
                   PROVE  Copied(Repo, Files[i])'
        BY <1>1
      <3>1. Copied(Repo, Files[i]) /\ Files[i] \in FileSet
        BY FilesAre DEF MirrorInv, DoneIsThere
      <3>2. QED
        BY <2>2, <2>4, <3>1 DEF Copied
    <2>7. sync'.step = "verify" => RepoIsCopied(Repo)'
      <3> SUFFICES ASSUME sync.step = "verify" PROVE RepoIsCopied(Repo)'
        BY <1>1
      <3>1. RepoIsCopied(Repo) /\ Repo \in Repositories
        BY <2>4 DEF MirrorInv, DoneIsThere, StepsFollow
      <3>2. QED
        BY <2>3, <2>4, <3>1 DEF RepoIsCopied, Copied
    <2>8. QED
      BY <2>1, <2>5, <2>6, <2>7 DEF DoneIsThere
  <1>13. QED
    BY <1>7, <1>8, <1>9, <1>10, <1>11, <1>12, CommitsAre DEF MirrorInv

LEMMA MirrorCrashKeeps == ASSUME MirrorInv, MirrorCrash PROVE MirrorInv'
  <1>1. /\ sync' = Idle /\ UNCHANGED <<options, planned, updates>>
    BY DEF MirrorCrash
  <1>2. hub' \in Hubs /\ hub'["source"] = hub["source"]
    <2>1. CASE hub' = hub
      BY <2>1 DEF MirrorInv, MirrorTypes
    <2>2. CASE /\ sync.at # <<>> /\ sync.next <= Len(Files)
               /\ \E left \in CutOff(Files[sync.next]) :
                    hub' = [hub EXCEPT !["target"][Repo][Files[sync.next]] = left]
      <3>1. PICK left \in CutOff(Files[sync.next]) : SetTarget(Repo, Files[sync.next], left)
        BY <2>2 DEF SetTarget
      <3>2. MirrorTypes /\ Repo \in Repositories /\ sync.next \in Positions
        BY <2>2, SyncFields DEF MirrorInv
      <3>3. Files[sync.next] \in FileSet
        <4>1. sync.next \in DOMAIN Files
          BY <2>2, <3>2, PlacesAre, PositionsAre
        <4>2. QED
          BY <4>1, FilesAre
      <3>4. QED
        BY <3>1, <3>2, <3>3, CutOffLeaves, TargetSet
    <2>3. QED
      BY <2>1, <2>2 DEF MirrorCrash
  <1>3. sync' \in Syncs /\ sync'.step = "idle" /\ sync'.delete = {}
    BY <1>1, IdleIs DEF Steps
  <1>4. MirrorTypes'
    BY <1>1, <1>2, <1>3 DEF MirrorInv, MirrorTypes
  <1>5. QED
    BY <1>3, <1>4, Unplanned

LEMMA MirrorSteps == MirrorInv /\ [MirrorNext]_mirrorVars => MirrorInv'
  <1> SUFFICES ASSUME MirrorInv, [MirrorNext]_mirrorVars PROVE MirrorInv'
    OBVIOUS
  <1>1. CASE BeginSync
    BY <1>1, BeginSyncKeeps
  <1>2. CASE MakePlan
    BY <1>2, MakePlanKeeps
  <1>3. CASE CopyFile
    BY <1>3, CopyFileKeeps
  <1>4. CASE WalkEnds
    BY <1>4, WalkEndsKeeps
  <1>5. CASE VerifyRepo
    BY <1>5, VerifyRepoKeeps
  <1>6. CASE CopiesEnd
    BY <1>6, CopiesEndKeeps
  <1>7. CASE AnswerSync
    BY <1>7, AnswerSyncKeeps
  <1>8. ASSUME NEW r \in Repositories, StartRepo(r) PROVE MirrorInv'
    BY <1>8, StartRepoKeeps
  <1>9. ASSUME NEW r \in Repositories, DeleteRepo(r) PROVE MirrorInv'
    BY <1>9, DeleteRepoKeeps
  <1>10. ASSUME NEW r \in Repositories, NEW side \in Sides, Downloaded(side, r) PROVE MirrorInv'
    BY <1>10, DownloadedKeeps
  <1>11. CASE MirrorCrash
    BY <1>11, MirrorCrashKeeps
  <1>12. CASE UNCHANGED mirrorVars
    BY <1>12 DEF MirrorInv, MirrorTypes, StepsFollow, SourceGrows, ExtraIsForeign, DoneIsThere,
                 Planned, RepoIsCopied, Copied, Wanted, Repo, mirrorVars
  <1>13. QED
    BY <1>1, <1>2, <1>3, <1>4, <1>5, <1>6, <1>7, <1>8, <1>9, <1>10, <1>11, <1>12 DEF MirrorNext

\* For any repositories, files, filters and number of requests, failures and downloads, an
\* answer without an error means that what was planned is there.
LEMMA CompleteByInvariant == MirrorInv => SuccessIsComplete
  <1> SUFFICES ASSUME MirrorInv PROVE SuccessIsComplete
    OBVIOUS
  <1>1. MirrorTypeOK
    BY DEF MirrorInv, MirrorTypes, MirrorTypeOK, Hubs, Held, Syncs, Steps
  <1>2. ASSUME sync.step = "answered", sync.ok
        PROVE  /\ \A r \in planned.copy, f \in FileSet :
                    planned.source[r][f] # NoFile => hub["target"][r][f] \in Commits
               /\ updates = 0 => planned.delete \cap Listed("target") = {}
    <2>1. sync.copy = {} /\ sync.delete = {} /\ DoneIsThere /\ Planned
      BY <1>2 DEF MirrorInv, StepsFollow, Planned
    <2>2. QED
      BY <1>2, <2>1 DEF DoneIsThere, RepoIsCopied, Copied, Listed
  <1>3. QED
    BY <1>1, <1>2 DEF SuccessIsComplete

\* The invariant holds in every state of the mirror, and with it what an answer without an
\* error means: all that the plan found at the source is at the destination.
THEOREM MirrorInvariant == MirrorSpec => []MirrorInv
  BY MirrorBegins, MirrorSteps, PTL DEF MirrorSpec

\* mirrorSyncHubs: for any repositories and files, any filters, and any number of requests,
\* failures, ends of the process and downloads meanwhile, success is complete.
THEOREM SuccessIsCompleteAlways == MirrorSpec => []SuccessIsComplete
  BY MirrorInvariant, CompleteByInvariant, PTL

\* A payload vanishes from a listed repository of the destination.
Loses(r) ==
    /\ hub["target"][r][Dir] # NoFile /\ hub'["target"][r] # hub["target"][r]
    /\ \E f \in Payloads : hub["target"][r][f] # NoFile /\ hub'["target"][r][f] = NoFile

LEMMA OnlyExtraIsLost ==
    ASSUME MirrorInv, MirrorNext, NEW r \in Repositories, Loses(r)
    PROVE  options.deleteExtra /\ Wanted(r) /\ planned.source[r][Dir] = NoFile
  <1>1. hub' # hub
    BY DEF Loses
  <1>2. PICK f \in Payloads : hub["target"][r][f] # NoFile /\ hub'["target"][r][f] = NoFile
    BY DEF Loses
  <1>3. f \in FileSet /\ MirrorTypes
    BY FilesAre DEF MirrorInv
  <1>4. ~\E g \in FileSet, v \in Held : /\ Repo \in Repositories /\ SetTarget(Repo, g, v)
                                        /\ g \in Payloads => v # NoFile
    <2> SUFFICES ASSUME NEW p \in Repositories, NEW g \in FileSet, NEW v \in Held, SetTarget(p, g, v),
                        g \in Payloads => v # NoFile
                 PROVE  FALSE
      OBVIOUS
    <2>1. /\ hub'["target"][p][g] = v
          /\ \A q \in Repositories, h \in FileSet :
               q # p \/ h # g => hub'["target"][q][h] = hub["target"][q][h]
      BY <1>3, TargetSet
    <2>2. QED
      BY <1>2, <1>3, <2>1
  <1>5. CASE CopyFile
    <2>1. Repo \in Repositories /\ Files[sync.next] \in FileSet
      BY <1>5, <1>3, SyncFields, FilesAre, PlacesAre, PositionsAre DEF CopyFile
    <2> SUFFICES ASSUME NEW g \in FileSet, g = Files[sync.next] PROVE FALSE
      BY <2>1
    <2>2. hub["source"][Repo][g] \in Held
      BY <1>3, <2>1 DEF MirrorTypes, Hubs, Sides
    <2>3. ~(hub["source"][Repo][g] # NoFile /\ SetTarget(Repo, g, hub["source"][Repo][g]))
      BY <1>4, <2>1, <2>2
    <2>4. \A left \in CutOff(g) : ~SetTarget(Repo, g, left)
      BY <1>3, <1>4, <2>1, CutOffLeaves, CommitsAre
    <2>5. QED
      BY <1>1, <1>5, <2>3, <2>4 DEF CopyFile, SetTarget
  <1>6. CASE MirrorCrash
    <2>1. /\ sync.at # <<>> /\ sync.next <= Len(Files)
          /\ \E left \in CutOff(Files[sync.next]) : SetTarget(Repo, Files[sync.next], left)
      BY <1>1, <1>6 DEF MirrorCrash, SetTarget
    <2>2. Repo \in Repositories /\ Files[sync.next] \in FileSet
      BY <1>3, <2>1, SyncFields, FilesAre, PlacesAre, PositionsAre
    <2>3. QED
      BY <1>3, <1>4, <2>1, <2>2, CutOffLeaves, CommitsAre
  <1>7. ASSUME NEW q \in Repositories, NEW side \in Sides, Downloaded(side, q) PROVE FALSE
    BY <1>2, <1>3, <1>7, DownloadedKeeps
  <1>8. ASSUME NEW q \in Repositories, DeleteRepo(q)
        PROVE  options.deleteExtra /\ Wanted(r) /\ planned.source[r][Dir] = NoFile
    <2>1. PICK files \in [FileSet -> Held], ok \in BOOLEAN : Removal(q, files, ok)
      BY <1>8, DeleteRepoIs
    <2>2. "target" \in Sides
      BY DEF Sides
    <2>3. \A p \in Repositories : p # q => hub'["target"][p] = hub["target"][p]
      BY <1>3, <2>1, <2>2, RepoSet DEF Removal
    <2>4. r = q
      BY <2>3 DEF Loses
    <2>5. QED
      BY <2>1, <2>4 DEF Removal, MirrorInv, ExtraIsForeign, Planned
  <1>9. hub' # hub => \/ CopyFile \/ MirrorCrash
                      \/ \E q \in Repositories : DeleteRepo(q) \/ \E side \in Sides : Downloaded(side, q)
    BY DEF MirrorNext, BeginSync, MakePlan, WalkEnds, VerifyRepo, CopiesEnd, AnswerSync, StartRepo
  <1>10. QED
    BY <1>1, <1>5, <1>6, <1>7, <1>8, <1>9

\* For any repositories and files, a mirror takes a payload away only from a repository that
\* the plan found nowhere at the source, when it was asked to delete.
THEOREM SparesTheSourceAlways == MirrorSpec => SparesTheSource
  <1>1. MirrorInv /\ [MirrorNext]_mirrorVars =>
          [\A r \in Repositories :
             (hub["target"][r][Dir] # NoFile /\ hub'["target"][r] # hub["target"][r]
              /\ \E f \in Payloads : hub["target"][r][f] # NoFile /\ hub'["target"][r][f] = NoFile)
             => /\ options.deleteExtra /\ Wanted(r)
                /\ planned.source[r][Dir] = NoFile]_mirrorVars
    BY OnlyExtraIsLost DEF Loses
  <1>2. QED
    BY <1>1, MirrorInvariant, PTL DEF MirrorSpec, SparesTheSource
=============================================================================
