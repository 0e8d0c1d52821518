------------------------------ MODULE Decisions ------------------------------
(***************************************************************************)
(* The decisions that the program takes by itself, without waiting for     *)
(* anybody: each is a function of its input, modelled in a module of its   *)
(* own and compared here with an independent definition of the answer.     *)
(* A behaviour is one question and its answer.                             *)
(***************************************************************************)
EXTENDS Naturals, Sequences

VARIABLES kind, question, answer
vars == <<kind, question, answer>>

Access == INSTANCE InstanceAccess
Acl == INSTANCE ServiceAcl
Words == INSTANCE UnitWords
Destinations == INSTANCE InstanceDestinations
Roots == INSTANCE LocalRoots

Pending == <<>>   \* an answer is <<a>>
Ask(k, inputs) == kind = k /\ question \in inputs
Answer(k, a) == kind = k /\ answer = Pending /\ answer' = <<a>> /\ UNCHANGED <<kind, question>>

Init == /\ \/ Ask("access", Access!AccessInputs)
           \/ Ask("acl", Acl!AclInputs)
           \/ Ask("words", Words!WordInputs)
           \/ Ask("destinations", Destinations!DestinationInputs)
           \/ Ask("delete", Roots!DeletionInputs)
           \/ Ask("protect", Roots!TreeInputs)
        /\ answer = Pending

(* checkServiceAccountAccess on linux and darwin. *)
CheckAccess == Answer("access",
    Access!CheckNamedDir(question.fs, question.state, question.path, Access!ServiceAccount))
(* restrictInstanceState and preflightDataPaths on windows. *)
CheckAcl == Answer("acl", Acl!InstallAccepts(question))
(* A unit file is written and read back (Status). *)
WriteAndRead == Answer("words",
    Words!ParseLine(Words!RenderLine(question.words, question.command), question.command))
(* The instance that was installed is started. *)
StartInstance == /\ kind = "destinations" /\ question.file.ok
                 /\ Answer("destinations", Destinations!UsedByHost(question))

(* A group is asked to be deleted from one of the configured directories.  *)
DeleteGroup == /\ kind = "delete"
               /\ \E root \in Roots!LocalCacheRoots(question.cfg) :
                    Answer("delete", [root |-> root, found |->
                        Roots!FoundForDeletion(question.fs, question.cfg, root, question.repo)])
(* A tree of the hub cache is walked for a deletion. *)
ProtectTree == Answer("protect", Roots!ProtectedRoots(question.fs, question.scans, question.tree))

Next == DeleteGroup \/ ProtectTree \/ CheckAccess \/ CheckAcl \/ WriteAndRead \/ StartInstance
Spec == Init /\ [][Next]_vars

Answered(k) == kind = k /\ answer # Pending

(* The installation accepts a directory exactly when the kernel will let   *)
(* the account of the service make its files there, through symbolic links *)
(* and directories that do not exist yet, and with the first class of a    *)
(* mode deciding (access_unix.go).                                         *)
AccessAgrees ==
    LET fs == Access!GrantInstanceDirs(question.fs, question.state, Access!ServiceAccount)
    IN /\ Answered("access")
       /\ Access!StateAccepted(question.fs, question.state, Access!ServiceAccount)
       /\ Access!KernelAllows(fs, question.state, Access!ServiceAccount)
       => answer[1] = Access!KernelAllows(fs, question.path, Access!ServiceAccount)

(* An access control list that the installation accepts lets the service   *)
(* read and write: inherit-only entries do not count and a deny entry is   *)
(* never outvoted (manager_windows.go).                                    *)
AclIsSound == Answered("acl") /\ answer[1] => Acl!ServiceCanUse(question)

(* Whatever is in a path, systemd reads from the unit file the words that  *)
(* were written (manager_linux.go).                                        *)
WordsSurvive == Answered("words") => answer[1] = question.words

(* The cache and hub directories that the installation names are the ones  *)
(* that the process uses, whatever the environment of the supervisor and   *)
(* the config file say (cmd/hfdesk/service.go, host.go).                   *)
SummaryIsTrue == Answered("destinations") => answer[1] = Destinations!NamedBySummary(question)

(* What a deletion finds is what the list shows for it, and no file of it  *)
(* belongs to a configured directory inside the selected one, whatever the *)
(* links between them (cache_selection_delete.go:2056-2078).               *)
DeletionAgrees ==
    Answered("delete") /\ ~answer[1].found.refused =>
        LET fs == question.fs
            cfg == question.cfg
            root == answer[1].root
        IN /\ answer[1].found.files = Roots!ShownForDeletion(fs, cfg, root, question.repo)
           /\ \A f \in answer[1].found.files : ~Roots!OwnedByAnother(fs, cfg, root, question.repo, f)

(* When the boundaries of a tree are complete, its walk sees a directory   *)
(* exactly when it is in no configured directory inside the tree           *)
(* (cache_selection.go:308-366).                                           *)
TreeIsProtected ==
    Answered("protect") /\ answer[1].complete =>
        \A d \in Roots!Walked(question.fs, question.tree) :
            (\E b \in answer[1].paths : Roots!Within(b, d))
            <=> \E p \in question.scans :
                    LET inside == Roots!Real(question.fs, p)
                    IN /\ Roots!Within(Roots!Real(question.fs, question.tree), inside)
                       /\ Roots!Within(inside, Roots!Real(question.fs, d))
=============================================================================
