------------------------------- MODULE MCJobs -------------------------------
(***************************************************************************)
(* JobManager and JobPersistence for TLC.  A behaviour is one of two jobs  *)
(* under the manager, whose state file cannot be written, so that every    *)
(* save returns and commits nothing; or one of a single job with its       *)
(* saves, failures of them, and restarts of the process.                   *)
(***************************************************************************)
EXTENDS JobPersistence, TLC

CONSTANTS
    MaxRemoved,     \* bound: jobs dismissed or deleted
    MaxTails        \* bound: cancels and pauses still to be saved

VARIABLE part       \* "manager" or "file"

\* Requests are only compared for equality.
RequestSymmetry == Permutations(Requests)

MCInit ==
    /\ part \in {"manager", "file"}
    /\ Init
    /\ saves = {}
    /\ disk = [j \in JobId |-> Absent]
    /\ lastSaveFailed = (part = "manager")

ManagerPart == part = "manager" /\ Next /\ UNCHANGED <<part, fileVars>>
FilePart == part = "file" /\ FileNext /\ UNCHANGED part

MCSpec == MCInit /\ [][ManagerPart \/ FilePart]_<<part, allVars>>

FewRemovals == Cardinality({j \in JobId : j < nextId} \ jobs) <= MaxRemoved

FewTails ==
    part = "manager" =>
        /\ Cardinality({j \in JobId : saveTails[j] > 0}) <= MaxTails
        /\ \A j \in JobId : saveTails[j] <= MaxTails

\* Bound: two jobs go back to the queue once, one job beside its file twice.
FewRequeues == part = "manager" => requeues <= 1

\* Bound: one job beside its file, under one limit.
OneJobWithFile ==
    part = "file" => nextId <= 2 /\ saveTails[1] <= 2 /\ maxActive = 1
=============================================================================
