----------------------------- MODULE LocalRoots -----------------------------
(***************************************************************************)
(* Directories of models are configured by path and may contain one        *)
(* another, also through symbolic links.  A file belongs to the innermost  *)
(* of them.  This is decided twice: for the list of what can be deleted    *)
(* (cache_selection.go, api.go), by the path as it is configured, and for  *)
(* the deletion (cache_selection_delete.go), below the directory that was  *)
(* opened; and once more for the trees of the hub cache.                   *)
(* A path is a sequence of names; a file "f" is in each directory.         *)
(***************************************************************************)
EXTENDS Naturals, Sequences, SequencesExt

(* The directories that exist, and a symbolic link, which may dangle.      *)
Chain == <<"a", "models", "o", "m", "s">>
ChainDirs == {SubSeq(Chain, 1, i) : i \in 0..Len(Chain)}
Rest(root, p) == SubSeq(p, Len(root) + 1, Len(p))
Linked(fs) == fs.link # <<>>
Through(fs, p) == Linked(fs) /\ IsPrefix(fs.link, p)
Real(fs, p) == IF Through(fs, p) THEN fs.target \o Rest(fs.link, p) ELSE p
IsDir(fs, p) == Real(fs, p) \in ChainDirs
IsFile(fs, p) == p # <<>> /\ Last(p) = "f" /\ IsDir(fs, Front(p))
Lstat(fs, p) == IsDir(fs, p) \/ IsFile(fs, p) \/ (Linked(fs) /\ p = fs.link)

(* filepath.Walk: the directories below one, without following links.      *)
Walked(fs, dir) ==
    LET all == ChainDirs \cup {fs.link \o Rest(fs.target, p) :
                                 p \in {q \in ChainDirs : Linked(fs) /\ IsPrefix(fs.target, q)}}
    IN {p \in all : IsPrefix(dir, p) /\ ~(Through(fs, p) /\ IsPrefix(dir, fs.link))}

(* withinLocalRoot *)
Within(root, p) == IsPrefix(root, p)

(* configuredRootIdentity: a missing rest is taken as written below the    *)
(* nearest directory; a file or a link that dangles on the way is an error.*)
ConfiguredRootIdentity(fs, p) ==
    LET there == {i \in 0..Len(p) : Lstat(fs, SubSeq(p, 1, i))}
        nearest == SubSeq(p, 1, CHOOSE i \in there : \A j \in there : j <= i)
    IN [lexical |-> p, physical |-> Real(fs, p), ok |-> IsDir(fs, nearest)]

(* localCacheRoots: the cache's models, the configured ones and the cache  *)
(* itself, whose own directories are no owners of models (skipsOwner).     *)
LocalCacheRoots(cfg) ==
    {[path |-> p, special |-> p = cfg.cache] :
       p \in {Append(cfg.cache, "models"), cfg.cache} \cup cfg.scans}
SkipsOwner(root, owner) == root.special /\ owner = "models"
Identities(fs, cfg) == {ConfiguredRootIdentity(fs, r.path) : r \in LocalCacheRoots(cfg)}

(* excludedSubrootsWithStatus: as paths below the root.                    *)
ExcludedSubroots(fs, cfg, root) ==
    LET own == ConfiguredRootIdentity(fs, root.path)
        ids == Identities(fs, cfg)
    IN [complete |-> own.ok /\ \A c \in ids : c.ok,
        paths |-> {c.lexical : c \in {d \in ids : d.lexical # own.lexical /\ Within(own.lexical, d.lexical)}}
            \cup {own.lexical \o Rest(own.physical, c.physical) :
                    c \in {d \in ids : d.ok /\ d.physical # own.physical
                                       /\ Within(own.physical, d.physical)}}]

(* A registered root allows only what is below it by real directories.     *)
ComponentsAreReal(fs, root, repo) ==
    \A p \in {Append(root.path, repo[1]), root.path \o repo} :
        IsDir(fs, p) /\ ~(Linked(fs) /\ p = fs.link)

(* cacheSelectionLocations, localSelectionFiles, walkLocalCacheRepo: the   *)
(* files shown for deletion, by their place in the repository.             *)
ShownForDeletion(fs, cfg, root, repo) ==
    LET dir == root.path \o repo
        excluded == ExcludedSubroots(fs, cfg, root)
        files == {d \in Walked(fs, dir) : \A e \in excluded.paths : ~Within(e, d)}
    IN IF ~SkipsOwner(root, repo[1]) /\ ComponentsAreReal(fs, root, repo) /\ excluded.complete
       THEN {Rest(dir, d) : d \in files} ELSE {}

Refused == [refused |-> TRUE, files |-> {}]

(* selectedDeleteExclusions: a root between the selected one and the       *)
(* repository owns it; the ones below it own their part.                   *)
(* Mutant: only the paths as they are configured are compared.             *)
OwnsByName(c, base, dir, physicalRepo) == Within(base.lexical, c.lexical) /\ Within(c.lexical, dir)

OwnsRepo(c, base, dir, physicalRepo) ==
    /\ Within(base.lexical, c.lexical) \/ Within(base.physical, c.physical)
    /\ Within(c.lexical, dir) \/ Within(c.physical, physicalRepo)

SelectedDeleteExclusions(ids, base, dir, physicalRepo) ==
    LET others == {c \in ids : c.lexical # base.lexical /\ c.physical # base.physical}
    IN [complete |-> /\ \A c \in ids : c.ok
                     /\ \A c \in others : ~OwnsRepo(c, base, dir, physicalRepo),
        paths |-> {Rest(dir, c.lexical) : c \in {d \in others : Within(dir, d.lexical)}}
            \cup {Rest(physicalRepo, c.physical) :
                    c \in {d \in others : d.physical # physicalRepo /\ Within(physicalRepo, d.physical)}}]

(* openSelectedLocalRepo, localSelectionFilesRoot: what the deletion finds.*)
FoundForDeletion(fs, cfg, root, repo) ==
    LET base == [lexical |-> root.path, physical |-> Real(fs, root.path)]
        physicalRepo == base.physical \o repo
        excluded == SelectedDeleteExclusions(Identities(fs, cfg), base, root.path \o repo, physicalRepo)
        files == {Rest(physicalRepo, d) : d \in Walked(fs, physicalRepo)}
    IN IF \/ SkipsOwner(root, repo[1]) \/ ~ComponentsAreReal(fs, root, repo) \/ ~excluded.complete
       THEN Refused
       ELSE [refused |-> FALSE, files |-> {f \in files : \A e \in excluded.paths : ~Within(e, f)}]

(* configuredHFProtectedRoots: for one of the two trees of a repository in *)
(* the hub cache, the boundaries that its walk does not cross.             *)
ProtectedRoots(fs, scans, tree) ==
    LET own == ConfiguredRootIdentity(fs, tree)
        ids == {ConfiguredRootIdentity(fs, p) : p \in scans}
    IN [complete |-> own.ok /\ \A c \in ids : c.ok,
        paths |-> IF ~own.ok THEN {} ELSE
            {c.lexical : c \in {d \in ids : ~d.ok /\ Within(own.lexical, d.lexical)}}
            \cup {own.lexical \o Rest(own.physical, c.physical) :
                    c \in {d \in ids : d.ok /\ Within(own.physical, d.physical)}}]

-----------------------------------------------------------------------------
(* The innermost configured root inside the selected one owns a file.      *)
OwnedByAnother(fs, cfg, root, repo, f) ==
    LET base == Real(fs, root.path)
    IN \E c \in Identities(fs, cfg) :
         Within(base, c.physical) /\ c.physical # base /\ Within(c.physical, base \o repo \o f)

LOCAL Links == {[link |-> <<>>, target |-> <<>>]}
    \cup [link : {<<"l">>, <<"a", "models", "l">>, <<"a", "models", "o", "l">>},
          target : (ChainDirs \ {<<>>}) \cup {<<"gone">>}]
LOCAL Configurable(fs) ==
    (ChainDirs \ {<<>>}) \cup {<<"x">>, <<"a", "models", "o", "f">>}
    \cup (IF Linked(fs) THEN {fs.link \o Rest(SubSeq(Chain, 1, i), SubSeq(Chain, 1, j)) :
                                i \in {Len(fs.target)}, j \in Len(fs.target)..Len(Chain)}
          ELSE {})
LOCAL Scans(fs) == {{p, q} : p, q \in Configurable(fs)}
LOCAL Repo == {SubSeq(Chain, i, i + 1) : i \in 2..(Len(Chain) - 1)}

DeletionInputs ==
    UNION {[fs : {fs}, cfg : [cache : {<<"k">>, <<"a">>}, scans : Scans(fs)], repo : Repo] : fs \in Links}
TreeInputs ==
    UNION {[fs : {fs}, scans : Scans(fs), tree : {<<"a", "models">>} \cup (IF Linked(fs) THEN {fs.link} ELSE {})] : fs \in Links}
=============================================================================
