---------------------------- MODULE InstanceAccess ----------------------------
(***************************************************************************)
(* access_unix.go: may the account of the service use a directory?  The    *)
(* file system is a tree of paths (sequences of names): dirs are the       *)
(* directories that exist, links the symbolic links with their targets.    *)
(* The check resolves the path first and then asks about permissions; the  *)
(* kernel (KernelAllows) walks the path and asks on the way.               *)
(***************************************************************************)
EXTENDS Naturals, Sequences, FiniteSets, SequencesExt, TLC

LOCAL Up(p) == Front(p)
Above(p) == {SubSeq(p, 1, i) : i \in 0..Len(p)}   \* with the path itself and the root

(***************************************************************************)
(* effectivePermission: the first class that matches decides, also when a  *)
(* later one would allow more.  A mode gives each class its permissions.   *)
(***************************************************************************)
AccountInGroup(gid, account) == account.gid = gid \/ gid \in account.groups
EffectivePermission(dir, account) ==
    CASE dir.uid = account.uid -> dir.mode.owner
      [] dir.uid # account.uid /\ AccountInGroup(dir.gid, account) -> dir.mode.group
      [] OTHER -> dir.mode.other

(* linuxAccessAccount, resolveServiceAccount: the ids, and the groups that  *)
(* list the account as a member.                                           *)
Account(uid, gid, members) == [uid |-> uid, gid |-> gid, groups |-> {gid} \union members]

(***************************************************************************)
(* resolvePath: links are followed; from the first part that is missing on *)
(* the rest is taken as written.  More than MaxLinks links are an error.   *)
(***************************************************************************)
MaxLinks == 4   \* maxResolvedLinks, 40 in the code
Error == <<"error">>
RECURSIVE Resolve(_, _, _, _)
Resolve(fs, at, pending, links) ==
    IF pending = <<>> THEN at
    ELSE LET next == Append(at, Head(pending)) IN
         CASE next \in DOMAIN fs.links ->
                IF links = MaxLinks THEN Error
                ELSE Resolve(fs, <<>>, fs.links[next] \o Tail(pending), links + 1)
           [] next \in DOMAIN fs.dirs -> Resolve(fs, next, Tail(pending), links)
           [] OTHER -> at \o pending
ResolvePath(fs, p) == Resolve(fs, <<>>, p, 0)

(* os.Stat: where a path leads, if it leads anywhere. *)
Exists(fs, p) == ResolvePath(fs, p) \in DOMAIN fs.dirs
At0(fs, p) == fs.dirs[ResolvePath(fs, p)]

(* nearestExistingDir: of the parents. *)
NearestExistingDir(fs, p) ==
    LET above == {q \in Above(p) \ {p} : Exists(fs, q)}
    IN CHOOSE q \in above : \A r \in above : Len(r) <= Len(q)

(* accountCanTraverse: x on the directory and on all above it, as written. *)
AccountCanTraverse(fs, dir, account) ==
    \A q \in Above(dir) : "x" \in EffectivePermission(At0(fs, q), account)

(***************************************************************************)
(* accountCanUseDir: w and x where the path (or the part of it that exists)*)
(* really is, and the way there.                                           *)
(***************************************************************************)
AccountCanUseDir(fs, p, account) ==
    LET real   == ResolvePath(fs, p)
        target == IF Exists(fs, real) THEN real ELSE NearestExistingDir(fs, real)
    IN /\ real # Error
       /\ {"w", "x"} \subseteq EffectivePermission(At0(fs, target), account)
       /\ AccountCanTraverse(fs, IF target = <<>> THEN <<>> ELSE Up(target), account)
       /\ AccountCanTraverse(fs, IF p = <<>> THEN <<>> ELSE NearestExistingDir(fs, p), account)

(***************************************************************************)
(* The cache, hub and local directories of a machine-wide instance: one    *)
(* that is still missing inside the real state directory will be made by   *)
(* the instance; every other one must be usable (checkServiceAccountAccess,*)
(* checkNamedDirs).                                                        *)
(***************************************************************************)
PathContains(dir, p) == IsPrefix(dir, p)
PathMissingInsideRealDir(fs, dir, p) ==
    /\ ResolvePath(fs, dir) # Error /\ ResolvePath(fs, p) # Error
    /\ PathContains(ResolvePath(fs, dir), ResolvePath(fs, p))
    /\ ~Exists(fs, p)

CheckNamedDir(fs, state, p, account) ==
    PathMissingInsideRealDir(fs, state, p) \/ AccountCanUseDir(fs, p, account)

(* grantInstanceDirs: the directories on the way to the state directory    *)
(* that were made belong to the account; one that was there must be usable,*)
(* and none is a directory of the machine.                                 *)
MachineDir(p) == Len(p) = 1
Made(fs, state) == {p \in Above(state) : ~Exists(fs, p)}
GrantInstanceDirs(fs, state, account) ==
    [fs EXCEPT !.dirs = @ @@ [d \in Made(fs, state) |->
        [uid |-> account.uid, gid |-> account.gid,
         mode |-> [owner |-> {"w", "x"}, group |-> {"x"}, other |-> {}]]]]
StateAccepted(fs, state, account) ==
    ~MachineDir(state) /\ (Exists(fs, state) => AccountCanUseDir(fs, state, account))

(***************************************************************************)
(* Reference: the walk of the kernel.  Every directory that a part is      *)
(* looked up in needs x; a directory that an entry is made in, w and x.    *)
(***************************************************************************)
RECURSIVE Walk(_, _, _, _, _)
Walk(fs, at, pending, account, links) ==
    LET perm == EffectivePermission(fs.dirs[at], account)
        next == Append(at, Head(pending))
    IN IF pending = <<>> THEN {"w", "x"} \subseteq perm
       ELSE /\ "x" \in perm
            /\ CASE next \in DOMAIN fs.links ->
                      /\ links < MaxLinks
                      /\ Walk(fs, <<>>, fs.links[next] \o Tail(pending), account, links + 1)
                 [] next \in DOMAIN fs.dirs -> Walk(fs, next, Tail(pending), account, links)
                 [] OTHER -> "w" \in perm
KernelAllows(fs, p, account) == Walk(fs, <<>>, p, account, 0)

(***************************************************************************)
(* Inputs: /a, /a/b and a link /a/l or /l; the mode gives the class of the *)
(* account what it may do and tempts with the opposite for the others.     *)
(***************************************************************************)
ServiceAccount == Account(7, 7, {8})
LOCAL Modes == {[uid |-> IF c = "owner" THEN 7 ELSE 1, gid |-> IF c = "other" THEN 1 ELSE 8,
                 mode |-> [k \in {"owner", "group", "other"} |-> IF k = c THEN s ELSE {"w", "x"} \ s]] :
                c \in {"owner", "group", "other"}, s \in SUBSET {"w", "x"}}
LOCAL RootDir(s) == [uid |-> 1, gid |-> 1, mode |-> [k \in {"owner", "group", "other"} |-> s]]
AccessInputs ==
    {[fs |-> [dirs  |-> (<<>> :> RootDir(r)) @@ (<<"v">> :> RootDir({"x"})) @@ (<<"a">> :> m1) @@ (<<"a", "b">> :> m2),
              links |-> at :> to],
      state |-> state, path |-> p] :
        r \in {{"x"}, {"w", "x"}}, m1 \in Modes, m2 \in Modes,
        at \in {<<"l">>, <<"a", "l">>}, to \in {<<"a">>, <<"a", "b">>, <<"a", "l">>, <<"n">>},
        state \in {<<"a", "b">>, <<"v", "s">>},
        p \in {<<"l">>, <<"a", "l">>, <<"a", "b", "n">>, <<"v", "s", "n">>, <<"l", "n", "m">>, <<"a", "l", "b">>}}
=============================================================================
