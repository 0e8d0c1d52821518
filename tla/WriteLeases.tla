---------------------------- MODULE WriteLeases ----------------------------
(***************************************************************************)
(* Write admission of the job manager: selected-delete leases on single    *)
(* files, leases on a whole HF repository, cache mutations (rebuild,       *)
(* whole-repository delete, mirror), the clean-up of paused jobs, and the  *)
(* downloads they must not meet.                                           *)
(* Sources: src/internal/server/cache_selection_delete.go (reservations),  *)
(* cache_write_evidence.go (snapshots and evidence), jobs.go (admission    *)
(* under a lease, dispatchWithReservations).                               *)
(*                                                                         *)
(* What a job may write is found by walking directories, which is done     *)
(* without m.mu: the state is captured first, the walk works on the        *)
(* captured state, and its verdict counts only if the state is unchanged   *)
(* when m.mu is held again.  Paths are abstracted to the files they lead   *)
(* to; a directory is the set of files beneath it.  JobManager has the     *)
(* rest of the manager (saves, cancel functions, the order of starts).     *)
(***************************************************************************)
EXTENDS Naturals, FiniteSets

CONSTANTS
    NumJobs,          \* jobs, numbered in the order of CreatedAt
    Entries,          \* files
    Dir,              \* Dir[j]: the files beneath the destination of job j
    May,              \* May[j]: those that its filters admit
    Selections,       \* groups of files a selected delete may be for
    Dirs,             \* directories of HF repositories and cache mutations
    Deleters,         \* requests to DELETE /api/cache-selection
    Mutators,         \* requests that rebuild, delete or mirror a cache
    Limits,           \* values of the max-active setting
    MaxRequeues,      \* bound: restarts and re-queues
    MaxStops,         \* bound: jobs cancelled, paused or dismissed
    MaxLeases,        \* bound: leases, mutations and settings updates
    MaxProbeFailures  \* bound: walks that find the file system changed

JobId == 1..NumJobs

ASSUME LeaseAssumption ==
    /\ NumJobs \in Nat /\ MaxRequeues \in Nat /\ MaxStops \in Nat
    /\ MaxLeases \in Nat /\ MaxProbeFailures \in Nat
    /\ May \in [JobId -> SUBSET Entries] /\ Dir \in [JobId -> SUBSET Entries]
    /\ \A j \in JobId : May[j] \subseteq Dir[j]
    /\ Selections \subseteq SUBSET Entries /\ Dirs \subseteq SUBSET Entries
    /\ Limits \subseteq Nat \ {0} /\ Limits # {}

VARIABLES
    status,     \* Job.status; "none" before creation, "gone" after dismissal
    starting,   \* jobs with Job.starting set
    generation, \* Job.generation
    maxActive,  \* m.config.MaxActive
    fenced, stopping,
    runs,       \* runJob goroutines with their entry in m.runActivities
    lease,      \* per deleter: its attempt to reserve, or what it holds
    mutation,   \* per mutator: the directory of its entry in m.mutationScopes
    cleanup,    \* per job: clean-up after it was paused and then dropped
    request,    \* per job: its admission by CreateJob or restartJob
    worker,     \* dispatchWithReservations
    woken,      \* the channel the worker captured was closed
    dirty,      \* attempts whose captured state is not the current one
    requeues, stops, leases, probeFailures  \* counted for the bounds

jobVars == <<status, starting, generation, maxActive, fenced, stopping, runs>>
leaseVars == <<lease, mutation, cleanup>>
bounds == <<requeues, stops, leases, probeFailures>>
vars == <<jobVars, leaseVars, request, worker, woken, dirty, bounds>>

Status == {"none", "queued", "running", "paused", "ended", "gone"}
Run == [job : JobId, claim : Nat,   \* the generation its activity names
        gen : Nat,                  \* the one it claimed, 0 before
        phase : {"spawned", "download", "exiting"},
        known : BOOLEAN, complete : BOOLEAN, planned : SUBSET Entries]
Lease == [phase : {"none", "begin", "collect", "gguf", "hf"},
          scope : SUBSET Entries, conflict : BOOLEAN, tries : 0..2]
Request == [phase : {"none", "begin", "collect"}, blocked : BOOLEAN, tries : 0..2]
Worker == [phase : {"off", "begin", "collect", "checked", "parked"},
           blocked : SUBSET JobId, probesOK : BOOLEAN, retries : 0..2, last : BOOLEAN]

NoLease == [phase |-> "none", scope |-> {}, conflict |-> FALSE, tries |-> 0]
NoRequest == [phase |-> "none", blocked |-> FALSE, tries |-> 0]
WorkerAt(phase, retries, last) ==
    [phase |-> phase, blocked |-> {}, probesOK |-> TRUE, retries |-> retries, last |-> last]

TypeOK ==
    /\ status \in [JobId -> Status] /\ starting \subseteq JobId
    /\ generation \in [JobId -> Nat] /\ maxActive \in Limits
    /\ fenced \in BOOLEAN /\ stopping \in BOOLEAN
    /\ runs \subseteq Run
    /\ lease \in [Deleters -> Lease]
    /\ mutation \in [Mutators -> SUBSET Entries]
    /\ cleanup \in [JobId -> {"none", "due", "open"}]
    /\ request \in [JobId -> Request]
    /\ worker \in Worker /\ woken \in BOOLEAN
    /\ requeues \in 0..MaxRequeues /\ stops \in 0..MaxStops /\ leases \in 0..MaxLeases
    /\ probeFailures \in 0..MaxProbeFailures

Init ==
    /\ status = [j \in JobId |-> "none"] /\ starting = {}
    /\ generation = [j \in JobId |-> 0] /\ maxActive \in Limits
    /\ fenced = FALSE /\ stopping = FALSE /\ runs = {}
    /\ lease = [d \in Deleters |-> NoLease]
    /\ mutation = [m \in Mutators |-> {}]
    /\ cleanup = [j \in JobId |-> "none"]
    /\ request = [j \in JobId |-> NoRequest]
    /\ worker = WorkerAt("off", 0, FALSE) /\ woken = FALSE /\ dirty = {}
    /\ requeues = 0 /\ stops = 0 /\ leases = 0 /\ probeFailures = 0
-----------------------------------------------------------------------------
(* Scopes and evidence. *)

Meets(a, b) == a \cap b # {}

DeleteScopes(l) == {l[d].scope : d \in {x \in Deleters : l[x].phase = "gguf"}}
HFScopes(l) == {l[d].scope : d \in {x \in Deleters : l[x].phase = "hf"}}
MutationScopes == {mutation[m] : m \in Mutators}
                  \cup {May[j] : j \in {x \in JobId : cleanup[x] = "open"}}

Listed(j) == status[j] \notin {"none", "gone"}
Waiting == {j \in JobId : Listed(j) /\ (status[j] = "queued" \/ j \in starting)}

\* hfReservationConflictsJob, for any of the leases on a repository.
BlockedByHF(l, j) == \E scope \in HFScopes(l) : Meets(scope, Dir[j])

\* Mutant: the plan of an earlier run counts as well.
PlanOfAnyRun(j, gen) == {r \in runs : r.job = j}

\* The run activities that a descriptor of job j at generation gen matches.
ActivitiesOf(j, gen) == {r \in runs : r.job = j /\ r.claim = gen}

PlanKnown(r) == r.known /\ r.complete

\* MayWriteDescriptor: a complete plan decides alone, and what the filters
\* admit decides otherwise.
MayWriteDescriptor(j, gen, targets) ==
    LET matching == ActivitiesOf(j, gen)
    IN  \/ \E r \in matching : PlanKnown(r) /\ Meets(r.planned, targets)
        \/ /\ matching = {} \/ \E r \in matching : ~PlanKnown(r)
           /\ Meets(May[j], targets)

\* decisionLookupKey: a starting job is about to claim the next generation.
LookupGeneration(j) == IF j \in starting THEN generation[j] + 1 ELSE generation[j]

\* HasActiveBroadMutationFor: a mutation or a repository lease touches the
\* directory of the job.
HasActiveBroadMutationFor(j) ==
    \E scope \in MutationScopes \cup HFScopes(lease) : Meets(scope, Dir[j])

\* Whether a job that is queued at generation gen has to wait for a lease.
BlockedByLease(j, gen) ==
    \/ HasActiveBroadMutationFor(j)
    \/ \E scope \in DeleteScopes(lease) : MayWriteDescriptor(j, gen, scope)

\* HasActiveBroadMutation: of the collected writers, and of the files
\* themselves.
HasActiveBroadMutation(files) ==
    LET writers == Waiting \cup {r.job : r \in {x \in runs : ~PlanKnown(x)}}
    IN  \/ \E scope \in MutationScopes \cup HFScopes(lease) :
             Meets(scope, files) \/ \E j \in writers : Meets(scope, Dir[j])
        \/ \E scope \in DeleteScopes(lease) :
             Meets(scope, files) \/ \E j \in writers : Meets(scope, May[j])

\* Why reserveSelectedGGUFAttempt refuses to lease these files.
GGUFConflict(files) ==
    \/ HasActiveBroadMutation(files)
    \/ \E r \in runs : \/ r.known /\ Meets(r.planned, files)
                       \/ ~PlanKnown(r) /\ MayWriteDescriptor(r.job, r.claim, files)
    \/ \E j \in Waiting : MayWriteDescriptor(j, LookupGeneration(j), files)

\* Why reserveSelectedHF refuses to lease this directory.
HFConflict(dir) ==
    \/ \E scope \in HFScopes(lease) \cup DeleteScopes(lease) \cup MutationScopes :
         Meets(scope, dir)
    \/ \E r \in runs : Meets(Dir[r.job], dir)
    \/ \E j \in Waiting : Meets(Dir[j], dir)

\* captureWriteDecisionLocked.
Decision ==
    [jobs |-> {<<j, status[j], j \in starting, generation[j]>> : j \in {x \in JobId : Listed(x)}},
     activities |-> {<<r.job, r.claim, r.known, r.complete, r.planned>> : r \in runs},
     deletes |-> DeleteScopes(lease), hf |-> HFScopes(lease), mutations |-> MutationScopes,
     limit |-> maxActive, fenced |-> fenced, stopping |-> stopping]

\* The attempts that work on a captured state.
Collecting(l, req, w) ==
    {<<"delete", d>> : d \in {x \in Deleters : l[x].phase = "collect"}}
    \cup {<<"request", j>> : j \in {x \in JobId : req[x].phase = "collect"}}
    \cup (IF w.phase \in {"collect", "checked"} THEN {<<"worker", 0>>} ELSE {})

\* The epoch makes two different states differ for good: whatever changes the
\* decision makes every attempt in progress stale.
Track ==
    dirty' = {p \in Collecting(lease', request', worker') :
                p \in Collecting(lease, request, worker)
                /\ (p \in dirty \/ Decision' # Decision)}

\* Admissions and reservations are attempted three times.
LastTry(tries) == tries = 2

\* RevalidateProbes: the walk may find that the file system changed.
Probe(ok) ==
    \/ ok /\ UNCHANGED probeFailures
    \/ ~ok /\ probeFailures < MaxProbeFailures /\ probeFailures' = probeFailures + 1
-----------------------------------------------------------------------------
(* Dispatch. *)

Active(stat, strt) == {j \in JobId : stat[j] = "running" \/ (j \in strt /\ stat[j] # "gone")}
Queued(stat, strt) == {j \in JobId : stat[j] = "queued" /\ j \notin strt}

\* The oldest queued jobs, up to the limit and up to the first that must wait.
Prefix(stat, strt, limit, waits) ==
    LET queued == Queued(stat, strt)
    IN  {j \in queued :
           /\ Cardinality(Active(stat, strt)) + Cardinality({k \in queued : k < j}) < limit
           /\ \A k \in queued : k <= j => k \notin waits}

SpawnedRun(j, gen) ==
    [job |-> j, claim |-> gen + 1, gen |-> 0, phase |-> "spawned",
     known |-> FALSE, complete |-> FALSE, planned |-> {}]

Spawn(jobs, strt, rs) ==
    /\ starting' = strt \cup jobs
    /\ runs' = rs \cup {SpawnedRun(j, generation'[j]) : j \in jobs}

\* dispatchLocked at the end of a section that leaves strt, rs and w; wake
\* says whether the section closed the change channel.
DispatchLocked(strt, rs, w, wake) ==
    LET queued == Queued(status', strt)
        idle == \/ fenced' \/ queued = {}
                \/ Cardinality(Active(status', strt)) >= maxActive'
        go == Prefix(status', strt, maxActive', {j \in queued : BlockedByHF(lease', j)})
    IN  \/ /\ idle
           /\ starting' = strt /\ runs' = rs
           /\ worker' = w /\ woken' = (wake /\ w.phase # "off")
        \/ /\ ~idle /\ DeleteScopes(lease') # {}
           /\ starting' = strt /\ runs' = rs
           /\ IF w.phase = "off" /\ ~stopping'
              THEN worker' = WorkerAt("begin", 0, FALSE) /\ woken' = FALSE
              ELSE worker' = w /\ woken' = (w.phase # "off")
        \/ /\ ~idle /\ DeleteScopes(lease') = {}
           /\ Spawn(go, strt, rs)
           /\ worker' = w /\ woken' = ((wake \/ go # {}) /\ w.phase # "off")

Dispatch(strt, wake) == DispatchLocked(strt, runs, worker, wake)

\* A section that closes the change channel and does not dispatch.
Signal == woken' = (worker.phase # "off")

FinishDispatch == worker' = WorkerAt("off", 0, FALSE) /\ woken' = FALSE

\* dispatchWithReservations captures the state and the change channel, and then
\* collects evidence on the captured state.
WorkerCapture ==
    /\ worker.phase = "begin"
    /\ \/ fenced /\ FinishDispatch
       \/ /\ ~fenced
          /\ worker' = [worker EXCEPT
                !.phase = "collect",
                !.blocked = {j \in JobId : status[j] = "queued" /\ BlockedByLease(j, LookupGeneration(j))}]
          /\ woken' = FALSE
    /\ UNCHANGED <<jobVars, leaseVars, request, bounds>>

\* The collection ends; a change that was announced meanwhile resets the count.
WorkerChecks ==
    /\ worker.phase = "collect"
    /\ \E ok \in BOOLEAN :
         /\ Probe(ok)
         /\ worker' = [worker EXCEPT
               !.phase = "checked", !.probesOK = ok,
               !.retries = IF woken THEN 0 ELSE @, !.last = ~woken /\ @]
    /\ UNCHANGED <<jobVars, leaseVars, request, woken, requeues, stops, leases>>

\* The captured state still holds.
Unchanged == worker.probesOK /\ <<"worker", 0>> \notin dirty

\* The jobs the worker starts: none past the first that is blocked.
ToStart ==
    Prefix(status, starting, maxActive,
           worker.blocked \cup {j \in JobId : BlockedByHF(lease, j)})

\* It waits for a change that is announced after this section.
Park == worker' = WorkerAt("parked", 0, TRUE) /\ woken' = FALSE

\* With m.mu held again it starts jobs, or tries again a bounded number of
\* times before it waits for a change.
WorkerDecides ==
    /\ worker.phase = "checked" /\ UNCHANGED <<leaseVars, request, bounds>>
    /\ \/ /\ fenced /\ FinishDispatch
          /\ UNCHANGED jobVars
       \/ /\ ~fenced /\ Unchanged /\ DeleteScopes(lease) = {}
          /\ UNCHANGED <<status, generation, maxActive, fenced, stopping>>
          /\ DispatchLocked(starting, runs, WorkerAt("off", 0, FALSE), TRUE)
       \/ /\ ~fenced /\ Unchanged /\ DeleteScopes(lease) # {}
          /\ UNCHANGED <<status, generation, maxActive, fenced, stopping>>
          /\ Spawn(ToStart, starting, runs) /\ FinishDispatch
       \/ /\ ~fenced /\ ~Unchanged
          /\ \/ /\ worker.retries < 2
                /\ worker' = WorkerAt("begin", worker.retries + 1, worker.last)
                /\ UNCHANGED woken
             \/ /\ worker.retries = 2 /\ ~worker.last
                /\ worker' = WorkerAt("begin", 0, TRUE)
                /\ UNCHANGED woken
             \/ worker.retries = 2 /\ worker.last /\ Park
          /\ UNCHANGED jobVars

WorkerWakes ==
    /\ worker.phase = "parked" /\ woken
    /\ worker' = WorkerAt("begin", 0, FALSE)
    /\ UNCHANGED <<jobVars, leaseVars, request, woken, bounds>>
-----------------------------------------------------------------------------
(* Jobs. *)

\* CreateJob for a new job, restartJob for one that was paused or has ended.
MayAsk(j) ==
    \/ status[j] \in {"paused", "ended"}
    \/ status[j] = "none" /\ \A k \in JobId : k > j => status[k] = "none"

SetRequest(j, r) == request' = [request EXCEPT ![j] = r]

AskForJob(j) ==
    /\ ~stopping /\ request[j] = NoRequest /\ MayAsk(j)
    /\ \A k \in JobId : k > j => request[k] = NoRequest \/ status[k] # "none"
    /\ SetRequest(j, [NoRequest EXCEPT !.phase = "begin"])
    /\ UNCHANGED <<jobVars, leaseVars, worker, woken, bounds>>

\* The request is answered without a change.
Refuse(j) ==
    /\ SetRequest(j, NoRequest)
    /\ UNCHANGED <<jobVars, worker, woken, requeues>>

\* The job is queued; a restart retires the generation of its last run.
Enqueue(j) ==
    /\ SetRequest(j, NoRequest)
    /\ requeues' = IF status[j] = "none" THEN requeues ELSE requeues + 1
    /\ requeues' <= MaxRequeues
    /\ generation' = [generation EXCEPT ![j] = IF status[j] = "none" THEN 0 ELSE @ + 1]
    /\ status' = [status EXCEPT ![j] = "queued"]
    /\ UNCHANGED <<maxActive, fenced, stopping>>
    /\ Dispatch(starting, TRUE)

\* The generation at which a queued job would be judged.
NextGeneration(j) == IF status[j] = "none" THEN 0 ELSE generation[j] + 1

\* The first section: with no lease on files the job is admitted or refused at
\* once, otherwise the walk begins.
BeginAdmission(j) ==
    /\ request[j].phase = "begin" /\ UNCHANGED <<leaseVars, stops, leases, probeFailures>>
    /\ LET admissible == ~stopping /\ MayAsk(j)
           busy == BlockedByHF(lease, j)
           walk == DeleteScopes(lease) # {}
       IN
       \/ /\ ~admissible \/ (busy /\ (~walk \/ status[j] = "none"))
          /\ Refuse(j)
       \/ admissible /\ ~walk /\ ~busy /\ Enqueue(j)
       \/ /\ admissible /\ walk /\ ~(busy /\ status[j] = "none")
          /\ SetRequest(j, [request[j] EXCEPT
                !.phase = "collect", !.blocked = BlockedByLease(j, NextGeneration(j))])
          /\ UNCHANGED <<jobVars, worker, woken, requeues>>

\* Mutant: the verdict of the walk is used without looking at the state again.
DecideAdmissionUnchecked(j) ==
    /\ request[j].phase = "collect" /\ UNCHANGED <<leaseVars, stops, leases, probeFailures>>
    /\ IF stopping \/ ~MayAsk(j) \/ request[j].blocked THEN Refuse(j) ELSE Enqueue(j)

\* The section after the walk.
DecideAdmission(j) ==
    /\ request[j].phase = "collect" /\ UNCHANGED <<leaseVars, stops, leases>>
    /\ \E ok \in BOOLEAN :
         /\ Probe(ok)
         /\ IF stopping \/ ~MayAsk(j) THEN Refuse(j)
            ELSE IF ~ok \/ <<"request", j>> \in dirty THEN
                 IF LastTry(request[j].tries) THEN Refuse(j)
                 ELSE /\ SetRequest(j, [NoRequest EXCEPT !.phase = "begin",
                                                         !.tries = request[j].tries + 1])
                      /\ UNCHANGED <<jobVars, worker, woken, requeues>>
            ELSE IF request[j].blocked THEN Refuse(j)
            ELSE Enqueue(j)
-----------------------------------------------------------------------------
\* CancelJob, PauseJob, DismissJobResult.  Dropping a paused job is followed by
\* the clean-up of its partial files (bound: one clean-up of a job at a time).
SetStatus(j, to) ==
    /\ ~stopping /\ stops < MaxStops /\ stops' = stops + 1
    /\ status' = [status EXCEPT ![j] = to] /\ Signal
    /\ UNCHANGED <<starting, generation, maxActive, fenced, stopping, runs,
                   lease, mutation, request, worker, requeues, leases, probeFailures>>

DropPaused(j) == cleanup' = [cleanup EXCEPT ![j] = IF status[j] = "paused" THEN "due" ELSE @]

CancelJob(j) ==
    /\ status[j] \in {"queued", "running", "paused"} /\ cleanup[j] = "none"
    /\ SetStatus(j, "ended") /\ DropPaused(j)

PauseJob(j) == status[j] = "running" /\ SetStatus(j, "paused") /\ UNCHANGED cleanup

DismissJob(j) ==
    /\ status[j] \in {"paused", "ended"} /\ cleanup[j] = "none"
    /\ SetStatus(j, "gone") /\ DropPaused(j)

\* cleanupPausedJobPartFiles: beginObservedMutation cannot refuse.
BeginCleanup(j) ==
    /\ cleanup[j] = "due" /\ cleanup' = [cleanup EXCEPT ![j] = "open"]
    /\ Signal
    /\ UNCHANGED <<jobVars, lease, mutation, request, worker, bounds>>

EndCleanup(j) ==
    /\ cleanup[j] = "open" /\ cleanup' = [cleanup EXCEPT ![j] = "none"]
    /\ UNCHANGED <<status, generation, maxActive, fenced, stopping,
                   lease, mutation, request, bounds>>
    /\ Dispatch(starting, TRUE)

\* The bound: one more lease, mutation or settings update.
OneMore == leases < MaxLeases /\ leases' = leases + 1

\* enforceLimitLocked: running jobs beyond the limit go back to the queue (JobManager
\* has which ones).
UpdateConfig(limit) ==
    /\ ~stopping /\ OneMore /\ maxActive' = limit
    /\ \E excess \in SUBSET {j \in JobId : status[j] = "running"} :
         /\ Cardinality({j \in JobId : status[j] = "running"} \ excess) <= limit
         /\ \A smaller \in SUBSET excess :
              smaller # excess =>
              Cardinality({j \in JobId : status[j] = "running"} \ smaller) > limit
         /\ requeues' = requeues + Cardinality(excess) /\ requeues' <= MaxRequeues
         /\ status' = [j \in JobId |-> IF j \in excess THEN "queued" ELSE status[j]]
         /\ generation' = [j \in JobId |-> IF j \in excess THEN generation[j] + 1
                                                           ELSE generation[j]]
         /\ UNCHANGED <<fenced, stopping, leaseVars, request, stops, probeFailures>>
         /\ Dispatch(starting \ excess, TRUE)

Quiesce ==
    /\ ~fenced /\ fenced' = TRUE /\ Signal
    /\ UNCHANGED <<status, starting, generation, maxActive, stopping, runs,
                   leaseVars, request, worker, bounds>>

Close ==
    /\ ~stopping /\ fenced' = TRUE /\ stopping' = TRUE /\ Signal
    /\ status' = [j \in JobId |-> IF status[j] = "running" THEN "paused" ELSE status[j]]
    /\ UNCHANGED <<starting, generation, maxActive, runs, leaseVars, request, worker, bounds>>
-----------------------------------------------------------------------------
(* The runJob goroutine r. *)

Replace(r, new) == (runs \ {r}) \cup {new}

Claim(r) ==
    /\ r.phase = "spawned" /\ starting' = starting \ {r.job}
    /\ \/ /\ fenced /\ runs' = Replace(r, [r EXCEPT !.phase = "exiting"])
          /\ UNCHANGED <<status, generation, woken>>
       \/ /\ ~fenced /\ generation' = [generation EXCEPT ![r.job] = @ + 1]
          /\ status' = [status EXCEPT ![r.job] = IF @ = "gone" THEN @ ELSE "running"]
          /\ runs' = Replace(r, [r EXCEPT !.phase = "download", !.gen = generation'[r.job]])
          /\ Signal
    /\ UNCHANGED <<maxActive, fenced, stopping, leaseVars, request, worker, bounds>>

\* OnPlanComplete: the destinations of this run; some may be left out.
PlanComplete(r) ==
    /\ r.phase = "download" /\ ~r.known
    /\ \E planned \in SUBSET May[r.job], complete \in BOOLEAN :
         runs' = Replace(r, [r EXCEPT !.known = TRUE, !.complete = complete,
                                      !.planned = planned])
    /\ Signal
    /\ UNCHANGED <<status, starting, generation, maxActive, fenced, stopping,
                   leaseVars, request, worker, bounds>>

\* The download returns; the entry in m.runActivities stays a little longer.
FinishRun(r) ==
    LET superseded == generation[r.job] # r.gen
        after == Replace(r, [r EXCEPT !.phase = "exiting"])
    IN  /\ r.phase = "download"
        /\ UNCHANGED <<generation, maxActive, fenced, stopping, leaseVars, request, bounds>>
        /\ \/ /\ superseded
              /\ runs' = after /\ UNCHANGED <<status, starting, worker, woken>>
           \/ /\ ~superseded
              /\ status' = [status EXCEPT ![r.job] =
                              IF @ \in {"paused", "gone"} THEN @ ELSE "ended"]
              /\ DispatchLocked(starting, after, worker, woken \/ status[r.job] # "paused")

\* The deferred function of runJob.
Return(r) ==
    /\ r.phase = "exiting"
    /\ UNCHANGED <<status, generation, maxActive, fenced, stopping, leaseVars, request, bounds>>
    /\ DispatchLocked(starting, runs \ {r}, worker, TRUE)
-----------------------------------------------------------------------------
(* Leases and mutations. *)

SetLease(d, l) == lease' = [lease EXCEPT ![d] = l]

\* reserveSelectedGGUF is called for the files of a selection.
AskForFiles(d, files) ==
    /\ lease[d] = NoLease /\ OneMore
    /\ SetLease(d, [NoLease EXCEPT !.phase = "begin", !.scope = files])
    /\ UNCHANGED <<jobVars, mutation, cleanup, request, worker, woken, requeues, stops, probeFailures>>

\* reserveSelectedGGUFAttempt captures the state; the walk works on it.
BeginReservation(d) ==
    /\ lease[d].phase = "begin"
    /\ SetLease(d, IF stopping THEN NoLease
                   ELSE [lease[d] EXCEPT !.phase = "collect",
                                         !.conflict = GGUFConflict(lease[d].scope)])
    /\ UNCHANGED <<jobVars, mutation, cleanup, request, worker, woken, bounds>>

\* The lease is granted if nothing changed and nothing is in the way; an attempt that
\* fails for whatever reason is made three times.
DecideReservation(d) ==
    /\ lease[d].phase = "collect"
    /\ \E ok \in BOOLEAN :
         /\ Probe(ok)
         /\ IF ok /\ ~stopping /\ <<"delete", d>> \notin dirty /\ ~lease[d].conflict
            THEN SetLease(d, [NoLease EXCEPT !.phase = "gguf", !.scope = lease[d].scope]) /\ Signal
            ELSE /\ SetLease(d, IF stopping \/ LastTry(lease[d].tries) THEN NoLease
                                ELSE [NoLease EXCEPT !.phase = "begin", !.scope = lease[d].scope,
                                                     !.tries = lease[d].tries + 1])
                 /\ UNCHANGED woken
    /\ UNCHANGED <<jobVars, mutation, cleanup, request, worker, requeues, stops, leases>>

\* reserveSelectedHF decides in one section.
ReserveSelectedHF(d, dir) ==
    /\ lease[d] = NoLease /\ OneMore /\ ~stopping
    /\ ~HFConflict(dir)
    /\ SetLease(d, [NoLease EXCEPT !.phase = "hf", !.scope = dir]) /\ Signal
    /\ UNCHANGED <<jobVars, mutation, cleanup, request, worker, requeues, stops, probeFailures>>

\* The release function both of them return.
Release(d) ==
    /\ lease[d].phase \in {"gguf", "hf"} /\ SetLease(d, NoLease)
    /\ UNCHANGED <<status, generation, maxActive, fenced, stopping,
                   mutation, cleanup, request, bounds>>
    /\ Dispatch(starting, TRUE)

\* beginCacheMutation looks at leases only.
BeginCacheMutation(m, dir) ==
    /\ mutation[m] = {} /\ OneMore /\ ~stopping
    /\ \A scope \in DeleteScopes(lease) \cup HFScopes(lease) : ~Meets(scope, dir)
    /\ mutation' = [mutation EXCEPT ![m] = dir] /\ Signal
    /\ UNCHANGED <<jobVars, lease, cleanup, request, worker, requeues, stops, probeFailures>>

\* Mutant: the change is announced and the queue is not served.
EndCacheMutationWithoutDispatch(m) ==
    /\ mutation[m] # {} /\ mutation' = [mutation EXCEPT ![m] = {}] /\ Signal
    /\ UNCHANGED <<jobVars, lease, cleanup, request, worker, bounds>>

EndCacheMutation(m) ==
    /\ mutation[m] # {} /\ mutation' = [mutation EXCEPT ![m] = {}]
    /\ UNCHANGED <<status, generation, maxActive, fenced, stopping,
                   lease, cleanup, request, bounds>>
    /\ Dispatch(starting, TRUE)
-----------------------------------------------------------------------------
JobStep ==
    \/ \E j \in JobId : AskForJob(j) \/ BeginAdmission(j) \/ DecideAdmission(j)
                        \/ CancelJob(j) \/ PauseJob(j) \/ DismissJob(j)
                        \/ BeginCleanup(j) \/ EndCleanup(j)
    \/ \E limit \in Limits : UpdateConfig(limit)
    \/ Quiesce \/ Close

RunStep == \E r \in runs : Claim(r) \/ PlanComplete(r) \/ FinishRun(r) \/ Return(r)

LeaseStep ==
    \/ \E d \in Deleters : \/ \E files \in Selections : AskForFiles(d, files)
                           \/ \E dir \in Dirs : ReserveSelectedHF(d, dir)
                           \/ BeginReservation(d) \/ DecideReservation(d) \/ Release(d)
    \/ \E m \in Mutators : \/ \E dir \in Dirs : BeginCacheMutation(m, dir)
                           \/ EndCacheMutation(m)

WorkerStep == WorkerCapture \/ WorkerChecks \/ WorkerDecides \/ WorkerWakes

Next == (JobStep \/ RunStep \/ LeaseStep \/ WorkerStep) /\ Track

\* Handlers that have begun go on, goroutines that were started too, and a download
\* or a mutation ends.  A delete may take as long as it likes, but ends when the
\* server stops.
Fairness ==
    /\ \A j \in JobId : /\ WF_vars((BeginAdmission(j) \/ DecideAdmission(j)) /\ Track)
                        /\ WF_vars((BeginCleanup(j) \/ EndCleanup(j)) /\ Track)
    /\ \A j \in JobId :
         WF_vars((\E r \in runs : r.job = j /\ (Claim(r) \/ FinishRun(r) \/ Return(r))) /\ Track)
    /\ \A d \in Deleters : WF_vars((BeginReservation(d) \/ DecideReservation(d)) /\ Track)
    /\ \A m \in Mutators : WF_vars(EndCacheMutation(m) /\ Track)
    /\ WF_vars(WorkerStep /\ Track)
    /\ \A d \in Deleters : WF_vars(stopping /\ Release(d) /\ Track)

Spec == Init /\ [][Next]_vars

FairSpec == Spec /\ Fairness
-----------------------------------------------------------------------------
\* The files a run may still write.
Writes(r) == IF PlanKnown(r) THEN r.planned ELSE May[r.job]

\* While a selected delete holds files or a repository, no download goroutine, not
\* even one of a paused, cancelled, re-queued or dismissed job, may write them
\* (jobs.go:176-177, cache_selection_delete.go:837-973 and 1074-1163).
LeaseExcludesRuns ==
    /\ \A scope \in DeleteScopes(lease) : \A r \in runs : ~Meets(Writes(r), scope)
    /\ \A scope \in HFScopes(lease) : \A r \in runs : ~Meets(Dir[r.job], scope)

\* No two deletes, and no delete and cache mutation, hold the same files at once
\* (cache_selection_delete.go:932-955, 1101-1129, 1208-1227).
LeasesAreExclusive ==
    \A d \in Deleters : lease[d].phase \in {"gguf", "hf"} =>
        /\ \A e \in Deleters \ {d} :
             lease[e].phase \in {"gguf", "hf"} => ~Meets(lease[d].scope, lease[e].scope)
        /\ \A m \in Mutators : ~Meets(lease[d].scope, mutation[m])

\* A request that queues a job is refused while a delete holds a file the job may
\* write, whatever was leased or released during the walk (jobs.go:607-699, 876-955).
AdmittedAroundLeases ==
    [][\A j \in JobId :
         (status'[j] = "queued" /\ status[j] \in {"none", "paused", "ended"}) =>
         /\ \A scope \in DeleteScopes(lease) : ~Meets(May[j], scope)
         /\ \A scope \in HFScopes(lease) : ~Meets(Dir[j], scope)]_vars

\* What a lease means.
LeasesExclude == TypeOK /\ LeasesAreExclusive /\ LeaseExcludesRuns

Startable(j) ==
    /\ status[j] = "queued" /\ j \notin starting /\ ~fenced
    /\ \A k \in JobId : k < j => k \notin Queued(status, starting)
    /\ Cardinality(Active(status, starting)) < maxActive
    /\ ~BlockedByLease(j, generation[j])

\* The oldest queued job is started when a slot is free and no lease or mutation is in
\* its way, while a delete of something else goes on for as long as it likes and no
\* request comes (cache_write_evidence.go:198-202, jobs.go:1211-1219, 1382-1391).
ServedBesideALease == \A j \in JobId : Startable(j) ~> ~Startable(j)

Drained ==
    /\ runs = {} /\ worker.phase = "off"
    /\ \A d \in Deleters : lease[d] = NoLease
    /\ \A m \in Mutators : mutation[m] = {}
    /\ \A j \in JobId : request[j] = NoRequest /\ cleanup[j] = "none"

\* Close drains: the worker, also one that waits, and every attempt end
\* (jobs.go:360-362).
CloseDrains == stopping ~> Drained
=============================================================================
