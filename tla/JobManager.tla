---------------------------- MODULE JobManager ----------------------------
(***************************************************************************)
(* The download-job manager of the HFDesk server                           *)
(* (internal/server/jobs.go, type JobManager).                             *)
(*                                                                         *)
(* HTTP handlers call the manager concurrently with the runJob goroutines  *)
(* it starts and with the shutdown coordinator.  Each action below is one  *)
(* section that the code executes under the manager's mutex m.mu, or one   *)
(* step that it takes after unlocking (issuing a cancel, taking a snapshot *)
(* under saveMu, replacing the state file).                                *)
(*                                                                         *)
(* This module covers the manager while no write lease is held: with no    *)
(* selected-delete or repository lease, admission and dispatch take the    *)
(* plain, fully locked path.  Job contents (files, progress, error text)   *)
(* are abstracted away.                                                    *)
(***************************************************************************)
EXTENDS Integers, FiniteSets

CONSTANTS
    NumJobs,        \* Bound: how many jobs are ever created.
    Requests,       \* Download requests, up to the identity used for dedup.
    Limits,         \* Values of the max-active setting; 0 means unset.
    MaxRequeues     \* Bound: how many restarts and re-queues there are, in all.

ASSUME ConstantsAssumption ==
    /\ NumJobs \in Nat
    /\ MaxRequeues \in Nat
    /\ Limits \subseteq Nat
    /\ Limits # {}

\* Identifiers are numbered in the order of CreatedAt.
JobId == 1 .. NumJobs

Terminal  == {"paused", "completed", "failed", "cancelled"}
Status    == Terminal \cup {"queued", "running"}
Absent    == "absent"      \* not created, or not in the state file

VARIABLES
    \* ---- JobManager and Job fields, guarded by m.mu
    nextId,         \* the next job to create
    jobs,           \* the keys of m.jobs
    request,        \* the immutable request of each job
    status,         \* Job.Status, also of jobs already removed from m.jobs
    starting,       \* jobs with Job.starting set
    generation,     \* Job.generation
    cancelGen,      \* the run that Job.cancel cancels, 0 when it is nil
    startedBefore,  \* <<j, k>>: j.StartedAt is before k.StartedAt
    maxActive,      \* m.config.MaxActive
    fenced,         \* m.fenced
    requeues,       \* counts towards MaxRequeues
    \* ---- goroutines
    runs,           \* runJob goroutines
    pendingCancels, \* cancels collected under m.mu and issued after it
    saveTails,      \* accepted cancels and pauses that still have to save
    closing         \* progress of Close: "open", "draining", "closed"

schedVars == <<nextId, jobs, request, status, starting, generation, cancelGen,
               startedBefore, maxActive, fenced, requeues, runs>>
shutVars  == <<pendingCancels, saveTails, closing>>
vars      == <<schedVars, shutVars>>

Run == [job : JobId, gen : Nat, phase : {"spawned", "download", "saving", "exiting"},
        cancelled : BOOLEAN]

TypeOK ==
    /\ nextId \in Nat
    /\ jobs \subseteq JobId
    /\ request \in [JobId -> Requests \cup {Absent}]
    /\ status \in [JobId -> Status \cup {Absent}]
    /\ starting \subseteq JobId
    /\ generation \in [JobId -> Nat]
    /\ cancelGen \in [JobId -> Nat]
    /\ startedBefore \subseteq JobId \X JobId
    /\ maxActive \in Limits
    /\ fenced \in BOOLEAN
    /\ requeues \in Nat
    /\ runs \subseteq Run
    /\ pendingCancels \subseteq JobId \X Nat
    /\ saveTails \in [JobId -> Nat]
    /\ closing \in {"open", "draining", "closed"}

---------------------------------------------------------------------------
(* Scheduling *)

Stopping == closing # "open"

EffectiveMaxActive(setting) == IF setting > 0 THEN setting ELSE 3

\* The jobs that occupy a download slot.
Active == {j \in jobs : status[j] = "running" \/ j \in starting}

\* Mutant: one job too many.
ToStartBeyondLimit(js, stat, strt, limit) ==
    LET active == {j \in js : stat[j] = "running" \/ j \in strt}
        queued == {j \in js : stat[j] = "queued"} \ strt
    IN  {j \in queued : /\ ~fenced
                        /\ Cardinality(active) + Cardinality({k \in queued : k < j}) <= limit}

\* Mutant: the youngest job first.
ToStartNewestFirst(js, stat, strt, limit) ==
    LET active == {j \in js : stat[j] = "running" \/ j \in strt}
        queued == {j \in js : stat[j] = "queued"} \ strt
    IN  {j \in queued : /\ ~fenced
                        /\ Cardinality(active) + Cardinality({k \in queued : k > j}) < limit}

\* The jobs of js that dispatchLocked starts: oldest first, into free slots.
ToStart(js, stat, strt, limit) ==
    LET active == {j \in js : stat[j] = "running" \/ j \in strt}
        queued == {j \in js : stat[j] = "queued"} \ strt
        ahead(j) == {k \in queued : k < j}
    IN  {j \in queued : /\ ~fenced
                        /\ Cardinality(active) + Cardinality(ahead(j)) < limit}

SpawnedRun(j) == [job |-> j, gen |-> 0, phase |-> "spawned", cancelled |-> FALSE]

\* dispatchLocked, the last thing a section does: strt and rs are the
\* starting flags and the goroutines that the section leaves.
DispatchLocked(strt, rs) ==
    LET go == ToStart(jobs', status', strt, EffectiveMaxActive(maxActive'))
    IN  /\ starting' = strt \cup go
        /\ runs' = rs \cup {SpawnedRun(j) : j \in go}

\* The effect of calling the CancelFunc of run g of job j.
CancelRun(rs, j, g) ==
    {IF r.job = j /\ r.gen = g /\ r.phase = "download"
        THEN [r EXCEPT !.cancelled = TRUE] ELSE r : r \in rs}

\* Mutant: the context is not cancelled.
CancelNothing(j) == runs

CancelCurrent(j) == CancelRun(runs, j, cancelGen[j])

\* Run r moves on; once the download is over nobody reads its context again.
InPhase(r, phase) ==
    (runs \ {r}) \cup {[r EXCEPT !.phase = phase, !.cancelled = FALSE]}

\* The bound: n more jobs go back to the queue.
Requeue(n) ==
    /\ requeues + n <= MaxRequeues
    /\ requeues' = requeues + n

---------------------------------------------------------------------------
(* Requests handled by the server *)

\* A request equal to that of an active job returns that job instead.
CreateJob(req) ==
    /\ ~Stopping
    /\ nextId \in JobId
    /\ \A j \in jobs : request[j] = req => status[j] \notin {"queued", "running"}
    /\ nextId' = nextId + 1
    /\ jobs' = jobs \cup {nextId}
    /\ request' = [request EXCEPT ![nextId] = req]
    /\ status' = [status EXCEPT ![nextId] = "queued"]
    /\ UNCHANGED <<generation, cancelGen, startedBefore, maxActive, fenced, requeues>>
    /\ DispatchLocked(starting, runs)
    /\ UNCHANGED shutVars

\* What CancelJob and PauseJob share: the status is set and the context
\* cancelled at once, the save follows after m.mu is released.
Stop(j, from, to) ==
    /\ ~Stopping
    /\ j \in jobs
    /\ status[j] \in from
    /\ status' = [status EXCEPT ![j] = to]
    /\ runs' = CancelCurrent(j)
    /\ saveTails' = [saveTails EXCEPT ![j] = @ + 1]
    /\ UNCHANGED <<nextId, jobs, request, starting, generation, cancelGen,
                   startedBefore, maxActive, fenced, requeues, pendingCancels, closing>>

CancelJob(j) == Stop(j, {"queued", "running", "paused"}, "cancelled")

PauseJob(j) == Stop(j, {"running"}, "paused")

\* restartJob: the job is queued again under the next generation.
RestartJob(j, from) ==
    /\ ~Stopping
    /\ j \in jobs
    /\ status[j] \in from
    /\ Requeue(1)
    /\ generation' = [generation EXCEPT ![j] = @ + 1]
    /\ status' = [status EXCEPT ![j] = "queued"]
    /\ UNCHANGED <<nextId, jobs, request, cancelGen, startedBefore, maxActive, fenced>>
    /\ DispatchLocked(starting, runs)
    /\ UNCHANGED shutVars

ResumeJob(j) == RestartJob(j, {"paused"})

RetryJob(j) == RestartJob(j, {"failed", "cancelled"})

\* The goroutine of a removed job keeps its pointer to the Job.
RemoveJob(j) ==
    /\ ~Stopping
    /\ j \in jobs
    /\ jobs' = jobs \ {j}
    /\ UNCHANGED <<nextId, request, status, starting, generation, cancelGen,
                   startedBefore, maxActive, fenced, requeues, shutVars>>

DismissJob(j) ==
    /\ status[j] \in Terminal
    /\ RemoveJob(j)
    /\ UNCHANGED runs

DeleteJob(j) ==
    /\ RemoveJob(j)
    /\ runs' = IF status[j] \in {"queued", "running"} THEN CancelCurrent(j) ELSE runs

\* enforceLimitLocked: the running jobs beyond the limit, latest started first.
Excess(limit) ==
    LET running == {j \in jobs : status[j] = "running"}
        earlier(j) == {k \in running : <<k, j>> \in startedBefore}
    IN  {j \in running : Cardinality(earlier(j)) >= limit}

\* Mutant: a higher limit does not serve the queue.
UpdateConfigWithoutDispatch(setting) ==
    LET excess == Excess(EffectiveMaxActive(setting))
    IN  /\ ~Stopping
        /\ Requeue(Cardinality(excess))
        /\ maxActive' = setting
        /\ generation' = [j \in JobId |-> IF j \in excess THEN generation[j] + 1
                                                          ELSE generation[j]]
        /\ status' = [j \in JobId |-> IF j \in excess THEN "queued" ELSE status[j]]
        /\ pendingCancels' = pendingCancels \cup {<<j, cancelGen[j]>> : j \in excess}
        /\ starting' = starting \ excess
        /\ UNCHANGED <<nextId, jobs, request, cancelGen, startedBefore, fenced,
                       runs, saveTails, closing>>

\* The cancels of the re-queued runs are issued after m.mu is released.
UpdateConfig(setting) ==
    LET excess == Excess(EffectiveMaxActive(setting))
    IN  /\ ~Stopping
        /\ Requeue(Cardinality(excess))
        /\ maxActive' = setting
        /\ generation' = [j \in JobId |-> IF j \in excess THEN generation[j] + 1
                                                          ELSE generation[j]]
        /\ status' = [j \in JobId |-> IF j \in excess THEN "queued" ELSE status[j]]
        /\ pendingCancels' = pendingCancels \cup {<<j, cancelGen[j]>> : j \in excess}
        /\ UNCHANGED <<nextId, jobs, request, cancelGen, startedBefore, fenced>>
        /\ DispatchLocked(starting \ excess, runs)
        /\ UNCHANGED <<saveTails, closing>>

---------------------------------------------------------------------------
(* The runJob goroutine *)

\* Mutant: the job keeps the cancel function of its previous run.
ClaimKeepsOldCancel(r) ==
    /\ r.phase = "spawned"
    /\ ~fenced
    /\ starting' = starting \ {r.job}
    /\ generation' = [generation EXCEPT ![r.job] = @ + 1]
    /\ status' = [status EXCEPT ![r.job] = "running"]
    /\ runs' = (runs \ {r}) \cup {[r EXCEPT !.gen = generation[r.job] + 1,
                                          !.phase = "download"]}
    /\ UNCHANGED <<nextId, jobs, request, cancelGen, startedBefore, maxActive, fenced,
                   requeues, shutVars>>

\* Mutant: a run that was started before the fence waits behind it.
ClaimWaitsForFence(r) ==
    /\ ~fenced
    /\ r.phase = "spawned"
    /\ starting' = starting \ {r.job}
    /\ status' = [status EXCEPT ![r.job] = "running"]
    /\ runs' = InPhase(r, "download")
    /\ UNCHANGED <<nextId, jobs, request, generation, cancelGen, startedBefore,
                   maxActive, fenced, requeues, shutVars>>

\* The run takes the job over, unless the manager was fenced meanwhile.
Claim(r) ==
    /\ r.phase = "spawned"
    /\ starting' = starting \ {r.job}
    /\ IF fenced
       THEN /\ runs' = InPhase(r, "exiting")
            /\ UNCHANGED <<status, generation, cancelGen, startedBefore>>
       ELSE LET gen == generation[r.job] + 1
                others == {j \in JobId \ {r.job} : status[j] = "running"}
            IN  /\ generation' = [generation EXCEPT ![r.job] = gen]
                /\ cancelGen' = [cancelGen EXCEPT ![r.job] = gen]
                /\ status' = [status EXCEPT ![r.job] = "running"]
                /\ startedBefore' = (startedBefore \cap (others \X others))
                                      \cup (others \X {r.job})
                /\ runs' = (runs \ {r}) \cup {[r EXCEPT !.gen = gen, !.phase = "download"]}
    /\ UNCHANGED <<nextId, jobs, request, maxActive, fenced, requeues, shutVars>>

\* hfdownloader.Run has returned, with success or not; a context cancelled
\* in the meantime decides the outcome.
Outcome(r, success) ==
    CASE r.cancelled -> "cancelled"
      [] ~r.cancelled /\ success -> "completed"
      [] ~r.cancelled /\ ~success -> "failed"

\* Mutant: only the generation is compared.
SupersededByGeneration(r) == generation[r.job] # r.gen

Superseded(r) == status[r.job] = "paused" \/ generation[r.job] # r.gen

\* A superseded run leaves the job alone and dispatches only if it still
\* owned the slot; any other run records its outcome and goes on to save.
Finish(r, success) ==
    /\ r.phase = "download"
    /\ UNCHANGED <<nextId, jobs, request, generation, cancelGen, startedBefore,
                   maxActive, fenced, requeues>>
    /\ IF Superseded(r)
       THEN /\ UNCHANGED status
            /\ IF generation[r.job] = r.gen
               THEN DispatchLocked(starting, InPhase(r, "exiting"))
               ELSE runs' = InPhase(r, "exiting") /\ UNCHANGED starting
       ELSE /\ status' = [status EXCEPT ![r.job] = Outcome(r, success)]
            /\ DispatchLocked(starting, InPhase(r, "saving"))
    /\ UNCHANGED shutVars

\* The deferred section: the run's activity ends and the queue is served.
Exit(r) ==
    /\ r.phase = "exiting"
    /\ UNCHANGED <<nextId, jobs, request, status, generation, cancelGen,
                   startedBefore, maxActive, fenced, requeues>>
    /\ DispatchLocked(starting, runs \ {r})
    /\ UNCHANGED shutVars

\* A cancel function called by UpdateConfig or Close after unlocking.
IssueCancel(c) ==
    /\ pendingCancels' = pendingCancels \ {c}
    /\ runs' = CancelRun(runs, c[1], c[2])
    /\ UNCHANGED <<nextId, jobs, request, status, starting, generation, cancelGen,
                   startedBefore, maxActive, fenced, requeues, saveTails, closing>>

---------------------------------------------------------------------------
(* Persistence, seen from the manager, and shutdown *)

\* saveState has returned to a cancel or pause: the operation is over.
StopSaved(j) ==
    /\ saveTails[j] > 0
    /\ saveTails' = [saveTails EXCEPT ![j] = @ - 1]
    /\ UNCHANGED <<schedVars, pendingCancels, closing>>

\* saveState has returned to a run that recorded its outcome.
RunSaved(r) ==
    /\ r.phase = "saving"
    /\ runs' = InPhase(r, "exiting")
    /\ UNCHANGED <<nextId, jobs, request, status, starting, generation, cancelGen,
                   startedBefore, maxActive, fenced, requeues, shutVars>>

Quiesce ==
    /\ fenced' = TRUE
    /\ UNCHANGED <<nextId, jobs, request, status, starting, generation, cancelGen,
                   startedBefore, maxActive, requeues, runs, shutVars>>

Close ==
    LET running == {j \in jobs : status[j] = "running"}
    IN  /\ closing = "open"
        /\ closing' = "draining"
        /\ fenced' = TRUE
        /\ status' = [j \in JobId |-> IF j \in running THEN "paused" ELSE status[j]]
        /\ pendingCancels' = pendingCancels \cup {<<j, cancelGen[j]>> : j \in running}
        /\ UNCHANGED <<nextId, jobs, request, starting, generation, cancelGen,
                       startedBefore, maxActive, requeues, runs, saveTails>>

\* opWG and runWG have drained.
Drained ==
    /\ pendingCancels = {}
    /\ \A j \in JobId : saveTails[j] = 0
    /\ runs = {}

\* The final save has returned.
FinishClose ==
    /\ closing = "draining"
    /\ Drained
    /\ closing' = "closed"
    /\ UNCHANGED <<schedVars, pendingCancels, saveTails>>

---------------------------------------------------------------------------
Init ==
    /\ nextId = 1
    /\ jobs = {}
    /\ request = [j \in JobId |-> Absent]
    /\ status = [j \in JobId |-> Absent]
    /\ starting = {}
    /\ generation = [j \in JobId |-> 0]
    /\ cancelGen = [j \in JobId |-> 0]
    /\ startedBefore = {}
    /\ maxActive \in Limits
    /\ fenced = FALSE
    /\ requeues = 0
    /\ runs = {}
    /\ pendingCancels = {}
    /\ saveTails = [j \in JobId |-> 0]
    /\ closing = "open"

UserStep ==
    \/ \E req \in Requests : CreateJob(req)
    \/ \E j \in JobId : \/ CancelJob(j)
                        \/ PauseJob(j)
                        \/ ResumeJob(j)
                        \/ RetryJob(j)
                        \/ DismissJob(j)
                        \/ DeleteJob(j)
    \/ \E setting \in Limits : UpdateConfig(setting)

RunStep(r) ==
    \/ Claim(r)
    \/ \E success \in BOOLEAN : Finish(r, success)
    \/ Exit(r)

Issue == \E c \in pendingCancels : IssueCancel(c)

SaveReturns ==
    \/ \E j \in JobId : StopSaved(j)
    \/ \E r \in runs : RunSaved(r)
    \/ FinishClose

Next ==
    \/ UserStep
    \/ \E r \in runs : RunStep(r)
    \/ Issue
    \/ SaveReturns
    \/ Quiesce
    \/ Close

Spec == Init /\ [][Next]_vars

\* The goroutines of each job are scheduled and every download returns: the
\* downloader bounds its retries and gives up on a stalled transfer.  What
\* follows an unlock (cancels, saves) is straight-line code and is reached.
\* Users are under no obligation.
Fairness ==
    /\ \A j \in JobId : WF_vars(\E r \in runs : r.job = j /\ RunStep(r))
    /\ WF_vars(Issue)
    /\ WF_vars(SaveReturns)

FairSpec == Spec /\ Fairness

---------------------------------------------------------------------------
(* What the manager guarantees *)

Downloading(j) == {r \in runs : r.job = j /\ r.phase = "download"}

\* A download that nobody has stopped and nobody is about to stop.
Unstopped(r) == r.phase = "download" /\ ~r.cancelled /\ <<r.job, r.gen>> \notin pendingCancels

\* A starting flag stands for exactly one goroutine that has yet to claim
\* the job: a flag that outlives it would leak a download slot.
StartingIsSpawned ==
    /\ \A j \in JobId : j \in starting <=> SpawnedRun(j) \in runs
    /\ \A j \in starting : status[j] # "running"

\* A running job has its current run behind it, and Job.cancel reaches that
\* run: a cancel of a running job is never a no-op.
RunningIsCancellable ==
    \A j \in JobId : status[j] = "running" =>
        /\ \E r \in Downloading(j) : r.gen = generation[j]
        /\ cancelGen[j] = generation[j]

\* Two runs of a job may overlap while the older one unwinds, but across any
\* sequence of pauses, resumes, retries and limit changes at most one of
\* them is still downloading without having been told to stop.
OneLiveDownload ==
    \A j \in JobId : \A r, s \in Downloading(j) : Unstopped(r) /\ Unstopped(s) => r = s

\* A download nobody stopped belongs to a job that shows as running.
LiveDownloadIsRunning ==
    \A r \in runs : Unstopped(r) => /\ status[r.job] = "running"
                                    /\ generation[r.job] = r.gen

\* A user's decision to cancel is not overwritten by the outcome of the run
\* that was downloading when the user made it.
CancelledRunKnowsIt ==
    \A r \in runs : r.phase = "download" /\ ~Superseded(r) /\ status[r.job] = "cancelled"
                       => r.cancelled

\* A goroutine on its way out, which serves the queue when it gets there: its
\* download was stopped or is over, or its job was withdrawn before the claim.
\* The goroutine of a removed job may download first, and makes the queue wait.
Leaving(r) ==
    \/ r.job \notin jobs
    \/ /\ ~Unstopped(r)
       /\ r.phase = "spawned" => status[r.job] # "queued"

\* No lost wakeup: while a slot is free and a job waits, some goroutine that is
\* on its way out is still due to serve the queue.
FreeSlotIsServed ==
    (/\ ~fenced
     /\ Cardinality(Active) < EffectiveMaxActive(maxActive)
     /\ \E j \in jobs : status[j] = "queued" /\ j \notin starting)
        => \E r \in runs : Leaving(r)

\* The inductive invariant behind the properties above: the shape of the runs,
\* which generations they may carry, and what Job.cancel refers to.
RunsWellFormed ==
    /\ \A r \in runs : r.phase = "spawned" => r = SpawnedRun(r.job)
    /\ \A r \in runs : r.phase = "download" =>
          /\ r.gen \in 1 .. generation[r.job]
          /\ r.gen = generation[r.job] => cancelGen[r.job] = r.gen
    /\ \A r, s \in runs : r.phase = "download" /\ s.phase = "download"
                             /\ r.job = s.job /\ r.gen = s.gen => r = s

Unborn ==
    /\ \A j \in JobId : j >= nextId => j \notin jobs /\ status[j] = Absent
    /\ \A r \in runs : r.job < nextId

IInv ==
    /\ TypeOK
    /\ RunsWellFormed
    /\ Unborn
    /\ StartingIsSpawned
    /\ RunningIsCancellable
    /\ LiveDownloadIsRunning
    /\ CancelledRunKnowsIt

\* No step takes the active count above the limit; only lowering the setting
\* can leave it there.
NoGrowthAboveLimit ==
    [][Cardinality(Active') > Cardinality(Active)
          => Cardinality(Active') <= EffectiveMaxActive(maxActive')]_vars

\* FIFO: whichever section dispatches, a job does not start while an older
\* queued job is left waiting.
OldestFirst ==
    [][\A j, k \in JobId :
          j < k /\ k \in starting' \ starting /\ j \in jobs' /\ status'[j] = "queued"
             => j \in starting']_vars

\* A paused job leaves that state only because somebody asks: no outcome of
\* the unwinding run replaces it.
PauseSticks ==
    [][\A j \in JobId : status[j] = "paused" /\ status'[j] # "paused"
          => CancelJob(j) \/ ResumeJob(j)]_vars

\* Every queued job gets its turn, unless it is withdrawn or the manager
\* shuts down first.
QueuedIsServed ==
    \A j \in JobId :
        (j \in jobs /\ status[j] = "queued")
            ~> (j \notin jobs \/ status[j] # "queued" \/ fenced)

\* An accepted Close completes, whatever was in flight.
CloseCompletes == (closing = "draining") ~> (closing # "draining")

---------------------------------------------------------------------------
(* What the comments and documents say, and the code does not do *)

\* "CancelJob cancels a running or queued job": a cancelled job stays so
\* until it is retried.
CancelSticks ==
    [][\A j \in jobs : status[j] = "cancelled" /\ j \in jobs' /\ status'[j] # "cancelled"
          => RetryJob(j)]_vars
===========================================================================
