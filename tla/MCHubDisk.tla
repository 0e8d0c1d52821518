------------------------------ MODULE MCHubDisk ------------------------------
(***************************************************************************)
(* LocalDelete and MirrorSync for TLC.  They work on different             *)
(* directories, so a behaviour is one of either.                           *)
(* Local: a member in the repository's directory, which may be a link, one *)
(* in a sub-directory, and a name that may join the group.  Mirror: a      *)
(* model and a dataset of one name, and another model.                     *)
(***************************************************************************)
EXTENDS LocalDelete, MirrorSync

VARIABLE part    \* the request of the behaviour: "local" or "mirror"

MCWalk == <<"a", "b", "c">>

Model == <<"model", "r">>
Dataset == <<"dataset", "r">>
Other == <<"model", "q">>
MCRepositories == {Model, Dataset, Other}
MCFiles == <<"dir", "blob", "other blob", "ref", "link">>
MCPresent == {{}, {Model}, {Model, Dataset}, {Dataset, Other}}

MCInit ==
    /\ Init /\ MirrorInit
    /\ \A n \in Members : disk[DirIn("repo", n)][n].size = 1
    /\ disk["repo"]["a"].number = 1 /\ disk["sub"]["b"].number = 2
    /\ disk["sub"]["b"].kind = "file"
    /\ \/ part = "local" /\ Listed("source") \cup Listed("target") = {}
       \/ part = "mirror" /\ pinBy = "link" /\ disk["repo"]["a"].kind = "file"

LocalStep == part = "local" /\ Next /\ UNCHANGED <<part, mirrorVars>>
MirrorStep == part = "mirror" /\ MirrorNext /\ UNCHANGED <<part, vars>>

MCSpec == MCInit /\ [][LocalStep \/ MirrorStep]_<<part, vars, mirrorVars>>
=============================================================================
