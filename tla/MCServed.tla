------------------------------ MODULE MCServed ------------------------------
(***************************************************************************)
(* Liveness of the job manager and of the leases, for TLC: who waits is    *)
(* served, and a shutdown ends.  A behaviour is one of JobManager, or one  *)
(* of WriteLeases with a delete that may not end until the server stops    *)
(* beside a job it does not meet.                                          *)
(***************************************************************************)
EXTENDS JobManager

VARIABLES
    part,       \* whose behaviour this is: "manager" or "leases"
    stopping, lease, mutation, cleanup, worker, woken, dirty, stops, leases, probeFailures,
    \* the variables of WriteLeases that have the names of JobManager's
    leaseStatus, leaseStarting, leaseGeneration, leaseLimit, leaseFenced, leaseRuns,
    leaseRequest, leaseRequeues

leaseVars ==
    <<stopping, lease, mutation, cleanup, worker, woken, dirty, stops, leases, probeFailures,
      leaseStatus, leaseStarting, leaseGeneration, leaseLimit, leaseFenced, leaseRuns,
      leaseRequest, leaseRequeues>>

Leases == INSTANCE WriteLeases WITH
    NumJobs <- 1, Entries <- {"q4", "q5"},
    Dir <- [j \in 1..1 |-> {"q4", "q5"}], May <- [j \in 1..1 |-> {"q4"}],
    Selections <- {{"q5"}}, Dirs <- {{"q4"}}, Deleters <- {"delete"}, Mutators <- {"rebuild"},
    Limits <- {1}, MaxRequeues <- 0, MaxStops <- 0, MaxLeases <- 2, MaxProbeFailures <- 3,
    status <- leaseStatus, starting <- leaseStarting, generation <- leaseGeneration,
    maxActive <- leaseLimit, fenced <- leaseFenced, runs <- leaseRuns,
    request <- leaseRequest, requeues <- leaseRequeues

MCInit ==
    /\ Init /\ Leases!Init
    /\ part \in {"manager", "leases"}

ManagerStep == part = "manager" /\ Next /\ UNCHANGED <<part, leaseVars>>
LeaseStep == part = "leases" /\ Leases!Next /\ UNCHANGED <<part, vars>>

\* In its initial state the part that takes no step owes none.
MCSpec ==
    /\ MCInit /\ [][ManagerStep \/ LeaseStep]_<<part, vars, leaseVars>>
    /\ Fairness /\ Leases!Fairness

\* Every job that waits is served, also beside a delete that does not end.
WaitingIsServed == QueuedIsServed /\ Leases!ServedBesideALease

\* An accepted Close completes: of jobs, saves, and of the worker and the
\* attempts that deal with leases.
CloseEnds == CloseCompletes /\ Leases!CloseDrains
=============================================================================
