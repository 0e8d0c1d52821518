------------------------------ MODULE ServiceAcl ------------------------------
(***************************************************************************)
(* manager_windows.go: does an access control list let the account of the  *)
(* service (LocalService) read and write a directory?  An entry allows or  *)
(* denies a trustee some rights; one that is inherit-only says nothing of  *)
(* the directory itself.  The reference is the ordered check of Windows.   *)
(***************************************************************************)
EXTENDS Naturals, Sequences, SequencesExt

(* scmFileReadRights and scmFileWriteRights, with GENERIC_READ, WRITE, ALL. *)
ReadRights == {"readData", "execute"}
WriteRights == {"writeData", "append"}
Rights == ReadRights \union WriteRights \union {"writeDac"}

(* scmMaskRights: any right of a kind stands for the kind. *)
MaskRights(rights) == (IF rights \intersect ReadRights # {} THEN {"read"} ELSE {})
                      \union (IF rights \intersect WriteRights # {} THEN {"write"} ELSE {})

(* scmDocumentedIdentitySIDs: LocalService, Everyone, Authenticated Users. *)
IdentitySIDs == {"LS", "WD", "AU"}
CoversIdentity(ace) == ace.trustee \in IdentitySIDs
Applies(ace) == ~ace.inheritOnly /\ CoversIdentity(ace)

(* sddlGrantsIdentity: a denied right that is needed wins, wherever it is. *)
SddlGrantsIdentity(aces) ==
    LET of(kind) == UNION {MaskRights(a.rights) : a \in {b \in ToSet(aces) : Applies(b) /\ b.kind = kind}}
    IN of("D") = {} /\ of("A") = {"read", "write"}

(* Reference: the first entry that speaks of a right decides it. *)
Speaks(ace, right) == /\ ace.trustee \in IdentitySIDs /\ right \in ace.rights
                      /\ ~ace.inheritOnly
WindowsGrants(aces, right) ==
    \E i \in DOMAIN aces :
        /\ Speaks(aces[i], right) /\ aces[i].kind = "A"
        /\ \A j \in 1..(i - 1) : ~(Speaks(aces[j], right) /\ aces[j].kind = "D")
Usable(aces) == /\ \E r \in ReadRights : WindowsGrants(aces, r)
                /\ \E r \in WriteRights : WindowsGrants(aces, r)

(***************************************************************************)
(* The directories: dirs gives those that exist their list, by path (the   *)
(* real one, links resolved).                                              *)
(***************************************************************************)
(* scmStateSDDL, applyRestrictiveACL: what the instance's own new          *)
(* directories get.                                                        *)
StateAcl == [i \in 1..3 |-> [kind |-> "A", inheritOnly |-> FALSE, rights |-> Rights,
                             trustee |-> <<"SY", "BA", "LS">>[i]]]

(* restrictInstanceState: a state directory that was there is checked, and *)
(* never changed; one that was made is restricted.                         *)
StateAccepted(dirs, state) == state \in DOMAIN dirs => SddlGrantsIdentity(dirs[state])
Restricted(dirs, state) ==
    [d \in DOMAIN dirs \cup {state} |-> IF d \in DOMAIN dirs THEN dirs[d] ELSE StateAcl]

(* scmNearestExistingDir. *)
NearestExistingDir(dirs, path) ==
    CHOOSE d \in DOMAIN dirs : /\ IsPrefix(d, path)
                               /\ \A e \in DOMAIN dirs : IsPrefix(e, path) => Len(e) <= Len(d)

(* preflightDataPaths: a directory that is missing inside the state root   *)
(* will be made by the instance; every other one is checked, itself or     *)
(* where it will be made.                                                  *)
PathInsideStateRoot(state, path) == IsPrefix(state, path)
PreflightDataPath(dirs, state, path) ==
    \/ path \notin DOMAIN dirs /\ PathInsideStateRoot(state, path)
    \/ SddlGrantsIdentity(dirs[NearestExistingDir(dirs, path)])

InstallAccepts(in) ==
    /\ StateAccepted(in.dirs, in.state)
    /\ PreflightDataPath(Restricted(in.dirs, in.state), in.state, in.path)

(* Reference: the service can work where the directory is, or make it.     *)
(* The code does not look at a foreign directory inside the state root     *)
(* that a missing one will be made in.                                     *)
ServiceCanUse(in) ==
    LET dirs == Restricted(in.dirs, in.state)
        near == NearestExistingDir(dirs, in.path)
    IN Usable(dirs[near]) \/ (near # in.path /\ IsPrefix(in.state, near) /\ near # in.state)

LOCAL Aces == [kind : {"A", "D"}, inheritOnly : BOOLEAN, trustee : {"LS", "IU"},
               rights : {{"readData"}, {"append"}, {"execute", "writeData"}, {"writeDac"}}]
AclInputs ==
    {[state |-> <<"s">>, path |-> p,
      dirs |-> [d \in D |-> IF d = at THEN acl ELSE StateAcl]] :
        p \in {<<"s", "c">>, <<"d", "c">>},
        D \in {{<<>>}, {<<>>, <<"s">>}, {<<>>, <<"s">>, <<"s", "c">>}, {<<>>, <<"d">>}},
        at \in {<<>>, <<"s">>, <<"s", "c">>, <<"d">>},
        acl \in UNION {[1..n -> Aces] : n \in 0..2}}
=============================================================================
