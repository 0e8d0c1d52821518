------------------------- MODULE WriteLeasesProofs -------------------------
(***************************************************************************)
(* For any number of jobs, deletes and cache mutations, and any files they *)
(* have, no lease meets another or a download goroutine, although what a   *)
(* lease, an admission or a dispatch rests on is found without m.mu.       *)
(*                                                                         *)
(* LeasesExclude is not inductive.  A lease is granted on a verdict that   *)
(* was found in an earlier state; so the invariant says that the verdict   *)
(* of an attempt that is not stale is the one the current state gives      *)
(* (VerdictsHold).  And a job is started around a lease on the word of the *)
(* activities that name its generation; so the invariant says that none of *)
(* these has a plan yet (ClaimsFit).                                       *)
(***************************************************************************)
EXTENDS WriteLeases, FiniteSetTheorems, TLAPS

\* A run with a plan claimed its job under a generation that the job has left when it
\* is queued again, and the activity names no later one.
FitsClaim(r) ==
    /\ r.gen = 0 => ~r.known
    /\ r.gen # 0 => /\ r.claim <= r.gen /\ r.gen <= generation[r.job]
                    /\ status[r.job] = "queued" => r.gen < generation[r.job]
    /\ r.phase = "spawned" => r.gen = 0 /\ r.claim <= generation[r.job] + 1
    /\ r.phase = "download" => r.gen # 0
ClaimsFit == \A r \in runs : FitsClaim(r)

\* A job that was not created has no goroutine.
NewHasNoRuns == \A r \in runs : status[r.job] # "none"

\* What the worker would find now.
BlockedNow ==
    {j \in JobId : status[j] = "queued" /\ BlockedByLease(j, LookupGeneration(j))}

\* A job whose request may still be granted.
MayBeQueued(j) == status[j] \in {"none", "paused", "ended"}

\* The verdict of a walk whose state is still the current one.
DeleteVerdict(d, files) ==
    lease[d].phase = "collect" /\ lease[d].scope = files /\ <<"delete", d>> \notin dirty
        => (lease[d].conflict <=> GGUFConflict(files))
BlockedNext(j) == BlockedByLease(j, NextGeneration(j))
RequestVerdict(j) ==
    request[j].phase = "collect" /\ <<"request", j>> \notin dirty /\ MayBeQueued(j)
        => (request[j].blocked <=> BlockedNext(j))
WorkerVerdict ==
    worker.phase \in {"collect", "checked"} /\ <<"worker", 0>> \notin dirty
        => worker.blocked = BlockedNow
VerdictsHold ==
    /\ \A d \in Deleters, files \in SUBSET Entries : DeleteVerdict(d, files)
    /\ \A j \in JobId : RequestVerdict(j)
    /\ WorkerVerdict

IInv == TypeOK /\ ClaimsFit /\ NewHasNoRuns /\ VerdictsHold /\ LeasesAreExclusive /\ LeaseExcludesRuns
-----------------------------------------------------------------------------
(* Types. *)

\* The parts of a dispatch: nothing, the worker is called, or jobs are started.
LEMMA SpawnType ==
    ASSUME NEW go \in SUBSET JobId, NEW strt \in SUBSET JobId, NEW rs \in SUBSET Run,
           generation' \in [JobId -> Nat], Spawn(go, strt, rs)
    PROVE  starting' \subseteq JobId /\ runs' \subseteq Run
<1>1. \A j \in go : SpawnedRun(j, generation'[j]) \in Run
  BY DEF SpawnedRun, Run
<1> QED
  BY <1>1 DEF Spawn

\* dispatchLocked keeps the types of what it changes.
LEMMA DispatchType ==
    ASSUME NEW strt \in SUBSET JobId, NEW rs \in SUBSET Run, NEW w \in Worker,
           NEW wake \in BOOLEAN, generation' \in [JobId -> Nat],
           DispatchLocked(strt, rs, w, wake)
    PROVE  /\ starting' \subseteq JobId /\ runs' \subseteq Run
           /\ worker' \in Worker /\ woken' \in BOOLEAN
<1> DEFINE queued == Queued(status', strt)
           go == Prefix(status', strt, maxActive', {j \in queued : BlockedByHF(lease', j)})
<1>1. go \in SUBSET JobId
  BY DEF Prefix, Queued
<1>2. WorkerAt("begin", 0, FALSE) \in Worker
  BY DEF WorkerAt, Worker
<1>3. CASE starting' = strt /\ runs' = rs /\ worker' = w /\ woken' = (wake /\ w.phase # "off")
  BY <1>3
<1>4. CASE /\ starting' = strt /\ runs' = rs
           /\ IF w.phase = "off" /\ ~stopping'
              THEN worker' = WorkerAt("begin", 0, FALSE) /\ woken' = FALSE
              ELSE worker' = w /\ woken' = (w.phase # "off")
  BY <1>2, <1>4
<1>5. CASE Spawn(go, strt, rs) /\ worker' = w /\ woken' = ((wake \/ go # {}) /\ w.phase # "off")
  BY <1>1, <1>5, SpawnType
<1> QED
  BY <1>3, <1>4, <1>5 DEF DispatchLocked

\* The set of types, for the steps below.
LEMMA LeaseTypes ==
    /\ NumJobs \in Nat /\ MaxRequeues \in Nat /\ MaxStops \in Nat /\ MaxLeases \in Nat
    /\ MaxProbeFailures \in Nat /\ Limits \subseteq Nat
    /\ May \in [JobId -> SUBSET Entries] /\ Selections \subseteq SUBSET Entries
    /\ Dirs \subseteq SUBSET Entries
    /\ NoLease \in Lease /\ NoRequest \in Request
  BY LeaseAssumption DEF NoLease, Lease, NoRequest, Request

\* A request is admitted: the section that queues its job.
LEMMA EnqueueType ==
    ASSUME TypeOK, NEW j \in JobId, Enqueue(j)
    PROVE  /\ status' \in [JobId -> Status] /\ generation' \in [JobId -> Nat]
           /\ starting' \subseteq JobId /\ runs' \subseteq Run
           /\ worker' \in Worker /\ woken' \in BOOLEAN
           /\ request' \in [JobId -> Request] /\ requeues' \in 0..MaxRequeues
           /\ UNCHANGED <<maxActive, fenced, stopping>>
<1> USE LeaseTypes DEF TypeOK
<1>1. /\ status' \in [JobId -> Status] /\ generation' \in [JobId -> Nat]
      /\ UNCHANGED <<maxActive, fenced, stopping>>
  BY DEF Enqueue, Status
<1>2. request' \in [JobId -> Request] /\ requeues' \in 0..MaxRequeues
  BY DEF Enqueue, SetRequest
<1>3. DispatchLocked(starting, runs, worker, TRUE)
  BY DEF Enqueue, Dispatch
<1> QED
  BY <1>1, <1>2, <1>3, DispatchType

\* A request is answered without a change.
LEMMA RefuseType ==
    ASSUME TypeOK, NEW j \in JobId, Refuse(j)
    PROVE  request' \in [JobId -> Request] /\ UNCHANGED <<jobVars, worker, woken, requeues>>
  BY LeaseTypes DEF TypeOK, Refuse, SetRequest

\* A goroutine replaced by a later state of itself.
LEMMA ReplaceType ==
    ASSUME NEW rs \in SUBSET Run, NEW r, NEW s \in Run, runs = rs
    PROVE  Replace(r, s) \in SUBSET Run
  BY DEF Replace

\* The steps of requests and of the handlers that drop jobs.
LEMMA JobStepType == ASSUME TypeOK, JobStep PROVE TypeOK'
<1> USE LeaseTypes DEF TypeOK
<1>1. ASSUME NEW j \in JobId, AskForJob(j) PROVE TypeOK'
  <2>1. [NoRequest EXCEPT !.phase = "begin"] \in Request
    BY DEF NoRequest, Request
  <2> QED
    BY <1>1, <2>1 DEF AskForJob, SetRequest, jobVars, leaseVars, bounds
<1>2. ASSUME NEW j \in JobId, BeginAdmission(j) PROVE TypeOK'
  <2>1. CASE Refuse(j)
    BY <1>2, <2>1, RefuseType DEF BeginAdmission, jobVars, leaseVars
  <2>2. CASE Enqueue(j)
    BY <1>2, <2>2, EnqueueType DEF BeginAdmission, leaseVars
  <2>3. CASE /\ SetRequest(j, [request[j] EXCEPT
                    !.phase = "collect", !.blocked = BlockedByLease(j, NextGeneration(j))])
             /\ UNCHANGED <<jobVars, worker, woken, requeues>>
    <3>1. BlockedByLease(j, NextGeneration(j)) \in BOOLEAN
      BY DEF BlockedByLease, HasActiveBroadMutationFor, MayWriteDescriptor
    <3>2. [request[j] EXCEPT !.phase = "collect", !.blocked = BlockedByLease(j, NextGeneration(j))]
            \in Request
      BY <3>1 DEF Request
    <3> QED
      BY <1>2, <2>3, <3>2 DEF BeginAdmission, SetRequest, jobVars, leaseVars
  <2> QED
    BY <1>2, <2>1, <2>2, <2>3 DEF BeginAdmission
<1>3. ASSUME NEW j \in JobId, DecideAdmission(j) PROVE TypeOK'
  <2>0. probeFailures' \in 0..MaxProbeFailures /\ UNCHANGED <<leaseVars, stops, leases>>
    BY <1>3 DEF DecideAdmission, Probe
  <2>1. CASE Refuse(j)
    BY <2>0, <2>1, RefuseType DEF jobVars, leaseVars
  <2>2. CASE Enqueue(j)
    BY <2>0, <2>2, EnqueueType DEF leaseVars
  <2>3. CASE /\ ~LastTry(request[j].tries)
             /\ SetRequest(j, [NoRequest EXCEPT !.phase = "begin", !.tries = request[j].tries + 1])
             /\ UNCHANGED <<jobVars, worker, woken, requeues>>
    <3>1. [NoRequest EXCEPT !.phase = "begin", !.tries = request[j].tries + 1] \in Request
      <4>1. request[j].tries \in 0..2 /\ request[j].tries # 2
        BY <2>3 DEF Request, LastTry
      <4>2. request[j].tries + 1 \in 0..2
        BY <4>1
      <4> QED
        BY <4>2 DEF NoRequest, Request
    <3>2. request' \in [JobId -> Request]
      BY <2>3, <3>1 DEF SetRequest
    <3> QED
      BY <2>0, <2>3, <3>2 DEF jobVars, leaseVars
  <2> QED
    BY <1>3, <2>1, <2>2, <2>3 DEF DecideAdmission
<1>4. ASSUME NEW j \in JobId, CancelJob(j) \/ PauseJob(j) \/ DismissJob(j) PROVE TypeOK'
  <2>1. PICK to \in Status : SetStatus(j, to) /\ (DropPaused(j) \/ UNCHANGED cleanup)
    BY <1>4 DEF CancelJob, PauseJob, DismissJob, Status
  <2>2. cleanup' \in [JobId -> {"none", "due", "open"}]
    BY <2>1 DEF DropPaused
  <2>3. status' \in [JobId -> Status] /\ stops' \in 0..MaxStops /\ woken' \in BOOLEAN
    BY <2>1 DEF SetStatus, Signal
  <2> QED
    BY <2>1, <2>2, <2>3 DEF SetStatus
<1>5. ASSUME NEW j \in JobId, BeginCleanup(j) PROVE TypeOK'
  BY <1>5 DEF BeginCleanup, Signal, jobVars, bounds
<1>6. ASSUME NEW j \in JobId, EndCleanup(j) PROVE TypeOK'
  <2>1. DispatchLocked(starting, runs, worker, TRUE)
    BY <1>6 DEF EndCleanup, Dispatch
  <2>2. generation' \in [JobId -> Nat]
    BY <1>6 DEF EndCleanup
  <2> QED
    BY <1>6, <2>1, <2>2, DispatchType DEF EndCleanup, bounds
<1>7. ASSUME NEW limit \in Limits, UpdateConfig(limit) PROVE TypeOK'
  <2>1. PICK excess \in SUBSET {j \in JobId : status[j] = "running"} :
           /\ requeues' = requeues + Cardinality(excess) /\ requeues' <= MaxRequeues
           /\ status' = [j \in JobId |-> IF j \in excess THEN "queued" ELSE status[j]]
           /\ generation' = [j \in JobId |-> IF j \in excess THEN generation[j] + 1
                                                             ELSE generation[j]]
           /\ UNCHANGED <<fenced, stopping, leaseVars, request, stops, probeFailures>>
           /\ Dispatch(starting \ excess, TRUE)
    BY <1>7 DEF UpdateConfig
  <2>2. requeues' \in 0..MaxRequeues
    <3>1. IsFiniteSet(JobId) /\ excess \in SUBSET JobId
      BY FS_Interval DEF JobId
    <3>2. Cardinality(excess) \in Nat
      BY <3>1, FS_Subset, FS_CardinalityType
    <3> QED
      BY <2>1, <3>2
  <2>3. status' \in [JobId -> Status] /\ generation' \in [JobId -> Nat]
    BY <2>1 DEF Status
  <2>4. DispatchLocked(starting \ excess, runs, worker, TRUE)
    BY <2>1 DEF Dispatch
  <2>5. /\ starting' \subseteq JobId /\ runs' \subseteq Run
        /\ worker' \in Worker /\ woken' \in BOOLEAN
    BY <2>3, <2>4, DispatchType
  <2> QED
    BY <1>7, <2>1, <2>2, <2>3, <2>5 DEF UpdateConfig, OneMore, leaseVars
<1>8. ASSUME Quiesce PROVE TypeOK'
  BY <1>8 DEF Quiesce, Signal, leaseVars, bounds
<1>9. ASSUME Close PROVE TypeOK'
  BY <1>9 DEF Close, Signal, leaseVars, bounds, Status
<1> QED
  BY <1>1, <1>2, <1>3, <1>4, <1>5, <1>6, <1>7, <1>8, <1>9 DEF JobStep

\* The steps of goroutines.
LEMMA RunStepType == ASSUME TypeOK, NEW r \in runs,
                            Claim(r) \/ PlanComplete(r) \/ FinishRun(r) \/ Return(r)
                     PROVE TypeOK'
<1> USE LeaseTypes DEF TypeOK
<1>0. r \in Run /\ r.job \in JobId
  BY DEF Run
<1>1. ASSUME Claim(r) PROVE TypeOK'
  <2>1. /\ status' \in [JobId -> Status] /\ generation' \in [JobId -> Nat]
        /\ woken' \in BOOLEAN /\ starting' \subseteq JobId
    <3>1. CASE UNCHANGED <<status, generation, woken>>
      BY <1>1, <3>1 DEF Claim
    <3>2. CASE /\ generation' = [generation EXCEPT ![r.job] = @ + 1]
               /\ status' = [status EXCEPT ![r.job] = IF @ = "gone" THEN @ ELSE "running"]
               /\ Signal
      <4>1. status' \in [JobId -> Status]
        BY <1>0, <3>2 DEF Status
      <4>2. generation' \in [JobId -> Nat]
        BY <1>0, <3>2
      <4> QED
        BY <1>1, <3>2, <4>1, <4>2 DEF Claim, Signal
    <3> QED
      BY <1>1, <3>1, <3>2 DEF Claim
  <2>2. runs' \subseteq Run
    <3>1. CASE runs' = Replace(r, [r EXCEPT !.phase = "exiting"])
      BY <1>0, <3>1, ReplaceType DEF Run
    <3>2. CASE runs' = Replace(r, [r EXCEPT !.phase = "download", !.gen = generation'[r.job]])
      <4>1. generation'[r.job] \in Nat
        BY <1>0, <2>1
      <4>2. [r EXCEPT !.phase = "download", !.gen = generation'[r.job]] \in Run
        BY <1>0, <4>1 DEF Run
      <4> QED
        BY <3>2, <4>2, ReplaceType
    <3> QED
      BY <1>1, <3>1, <3>2 DEF Claim
  <2> QED
    BY <1>1, <2>1, <2>2 DEF Claim, leaseVars, bounds
<1>2. ASSUME PlanComplete(r) PROVE TypeOK'
  <2>1. PICK planned \in SUBSET May[r.job], complete \in BOOLEAN :
           runs' = Replace(r, [r EXCEPT !.known = TRUE, !.complete = complete, !.planned = planned])
    BY <1>2 DEF PlanComplete
  <2>2. planned \in SUBSET Entries
    BY <1>0
  <2>3. [r EXCEPT !.known = TRUE, !.complete = complete, !.planned = planned] \in Run
    BY <1>0, <2>2 DEF Run
  <2>4. runs' \subseteq Run
    BY <2>1, <2>3, ReplaceType
  <2> QED
    BY <1>2, <2>4 DEF PlanComplete, Signal, leaseVars, bounds
<1>3. ASSUME FinishRun(r) PROVE TypeOK'
  <2> DEFINE after == Replace(r, [r EXCEPT !.phase = "exiting"])
  <2>1. after \in SUBSET Run
    <3>1. [r EXCEPT !.phase = "exiting"] \in Run
      BY <1>0 DEF Run
    <3> QED
      BY <3>1, ReplaceType
  <2>2. UNCHANGED <<generation, maxActive, fenced, stopping, leaseVars, request, bounds>>
    BY <1>3 DEF FinishRun
  <2>3. CASE runs' = after /\ UNCHANGED <<status, starting, worker, woken>>
    BY <2>1, <2>2, <2>3 DEF leaseVars, bounds
  <2>4. CASE /\ status' = [status EXCEPT ![r.job] =
                              IF @ \in {"paused", "gone"} THEN @ ELSE "ended"]
             /\ DispatchLocked(starting, after, worker, woken \/ status[r.job] # "paused")
    <3>1. status' \in [JobId -> Status]
      BY <2>4, <1>0 DEF Status
    <3>2. generation' \in [JobId -> Nat] /\ (woken \/ status[r.job] # "paused") \in BOOLEAN
      BY <2>2
    <3>3. /\ starting' \subseteq JobId /\ runs' \subseteq Run
          /\ worker' \in Worker /\ woken' \in BOOLEAN
      BY <2>1, <2>4, <3>2, DispatchType
    <3> QED
      BY <2>2, <3>1, <3>3 DEF leaseVars, bounds
  <2> QED
    BY <1>3, <2>3, <2>4 DEF FinishRun
<1>4. ASSUME Return(r) PROVE TypeOK'
  <2>1. /\ UNCHANGED <<status, generation, maxActive, fenced, stopping, leaseVars, request, bounds>>
        /\ DispatchLocked(starting, runs \ {r}, worker, TRUE)
    BY <1>4 DEF Return
  <2>2. /\ starting' \subseteq JobId /\ runs' \subseteq Run
        /\ worker' \in Worker /\ woken' \in BOOLEAN
    BY <2>1, DispatchType
  <2> QED
    BY <2>1, <2>2 DEF leaseVars, bounds
<1> QED
  BY <1>1, <1>2, <1>3, <1>4

\* The steps of leases and mutations.
LEMMA LeaseStepType == ASSUME TypeOK, LeaseStep PROVE TypeOK'
<1> USE LeaseTypes DEF TypeOK
<1>1. ASSUME NEW d \in Deleters, NEW files \in Selections, AskForFiles(d, files) PROVE TypeOK'
  <2>1. [NoLease EXCEPT !.phase = "begin", !.scope = files] \in Lease
    BY DEF NoLease, Lease
  <2> QED
    BY <1>1, <2>1 DEF AskForFiles, SetLease, OneMore, jobVars
<1>2. ASSUME NEW d \in Deleters, NEW dir \in Dirs, ReserveSelectedHF(d, dir) PROVE TypeOK'
  <2>1. [NoLease EXCEPT !.phase = "hf", !.scope = dir] \in Lease
    BY DEF NoLease, Lease
  <2> QED
    BY <1>2, <2>1 DEF ReserveSelectedHF, SetLease, OneMore, Signal, jobVars
<1>3. ASSUME NEW d \in Deleters, BeginReservation(d) PROVE TypeOK'
  <2>1. GGUFConflict(lease[d].scope) \in BOOLEAN
    BY DEF GGUFConflict, HasActiveBroadMutation
  <2>2. [lease[d] EXCEPT !.phase = "collect", !.conflict = GGUFConflict(lease[d].scope)] \in Lease
    BY <2>1 DEF Lease
  <2> QED
    BY <1>3, <2>2 DEF BeginReservation, SetLease, jobVars, bounds
<1>4. ASSUME NEW d \in Deleters, DecideReservation(d) PROVE TypeOK'
  <2>1. /\ UNCHANGED <<jobVars, mutation, cleanup, request, worker, requeues, stops, leases>>
        /\ probeFailures' \in 0..MaxProbeFailures /\ woken' \in BOOLEAN
    BY <1>4 DEF DecideReservation, Probe, Signal
  <2>2. lease[d] \in Lease
    OBVIOUS
  <2>3. CASE SetLease(d, [NoLease EXCEPT !.phase = "gguf", !.scope = lease[d].scope])
    <3>1. [NoLease EXCEPT !.phase = "gguf", !.scope = lease[d].scope] \in Lease
      BY <2>2 DEF NoLease, Lease
    <3> QED
      BY <2>1, <2>3, <3>1 DEF SetLease, jobVars
  <2>4. CASE SetLease(d, NoLease)
    BY <2>1, <2>4 DEF SetLease, jobVars
  <2>5. CASE /\ ~LastTry(lease[d].tries)
             /\ SetLease(d, [NoLease EXCEPT !.phase = "begin", !.scope = lease[d].scope,
                                            !.tries = lease[d].tries + 1])
    <3>1. lease[d].tries \in 0..2 /\ lease[d].tries # 2
      BY <2>2, <2>5 DEF Lease, LastTry
    <3>2. lease[d].tries + 1 \in 0..2
      BY <3>1
    <3>3. [NoLease EXCEPT !.phase = "begin", !.scope = lease[d].scope,
                          !.tries = lease[d].tries + 1] \in Lease
      BY <2>2, <3>2 DEF NoLease, Lease
    <3> QED
      BY <2>1, <2>5, <3>3 DEF SetLease, jobVars
  <2> QED
    BY <1>4, <2>3, <2>4, <2>5 DEF DecideReservation
<1>5. ASSUME NEW d \in Deleters, Release(d) PROVE TypeOK'
  <2>1. /\ UNCHANGED <<status, generation, maxActive, fenced, stopping,
                       mutation, cleanup, request, bounds>>
        /\ DispatchLocked(starting, runs, worker, TRUE)
    BY <1>5 DEF Release, Dispatch
  <2>2. /\ starting' \subseteq JobId /\ runs' \subseteq Run
        /\ worker' \in Worker /\ woken' \in BOOLEAN
    BY <2>1, DispatchType
  <2>3. lease' \in [Deleters -> Lease]
    BY <1>5 DEF Release, SetLease
  <2> QED
    BY <2>1, <2>2, <2>3 DEF bounds
<1>6. ASSUME NEW m \in Mutators, NEW dir \in Dirs, BeginCacheMutation(m, dir) PROVE TypeOK'
  BY <1>6 DEF BeginCacheMutation, OneMore, Signal, jobVars
<1>7. ASSUME NEW m \in Mutators, EndCacheMutation(m) PROVE TypeOK'
  <2>1. /\ UNCHANGED <<status, generation, maxActive, fenced, stopping,
                       lease, cleanup, request, bounds>>
        /\ mutation' = [mutation EXCEPT ![m] = {}]
        /\ DispatchLocked(starting, runs, worker, TRUE)
    BY <1>7 DEF EndCacheMutation, Dispatch
  <2>2. /\ starting' \subseteq JobId /\ runs' \subseteq Run
        /\ worker' \in Worker /\ woken' \in BOOLEAN
    BY <2>1, DispatchType
  <2> QED
    BY <2>1, <2>2 DEF bounds
<1> QED
  BY <1>1, <1>2, <1>3, <1>4, <1>5, <1>6, <1>7 DEF LeaseStep

\* The steps of the worker.
LEMMA WorkerStepType == ASSUME TypeOK, WorkerStep PROVE TypeOK'
<1> USE LeaseTypes DEF TypeOK
<1>0. worker \in Worker
  OBVIOUS
<1>1. worker.retries \in 0..2 /\ worker.last \in BOOLEAN
  <2>1. worker.retries \in 0..2
    BY ONLY <1>0, SMT DEF Worker
  <2>2. worker.last \in BOOLEAN
    BY ONLY <1>0, Zenon DEF Worker
  <2> QED
    BY <2>1, <2>2
<1>2. FinishDispatch => worker' \in Worker /\ woken' \in BOOLEAN
  <2>1. WorkerAt("off", 0, FALSE) \in Worker
    BY ONLY DEF WorkerAt, Worker
  <2> QED
    BY <2>1 DEF FinishDispatch
<1>3. ASSUME WorkerCapture PROVE TypeOK'
  <2>1. UNCHANGED <<jobVars, leaseVars, request, bounds>>
    BY <1>3 DEF WorkerCapture
  <2>2. worker' \in Worker /\ woken' \in BOOLEAN
    <3> DEFINE waits == {j \in JobId : status[j] = "queued" /\ BlockedByLease(j, LookupGeneration(j))}
    <3>1. CASE worker' = [worker EXCEPT !.phase = "collect", !.blocked = waits] /\ woken' = FALSE
      <4>1. waits \in SUBSET JobId
        OBVIOUS
      <4> HIDE DEF waits
      <4> QED
        BY <3>1, <4>1 DEF Worker
    <3> QED
      BY <1>2, <1>3, <3>1 DEF WorkerCapture
  <2> QED
    BY <2>1, <2>2 DEF jobVars, leaseVars, bounds
<1>4. ASSUME WorkerChecks PROVE TypeOK'
  <2>1. UNCHANGED <<jobVars, leaseVars, request, woken, requeues, stops, leases>>
    BY <1>4 DEF WorkerChecks
  <2>2. PICK ok \in BOOLEAN :
           /\ Probe(ok)
           /\ worker' = [worker EXCEPT
                 !.phase = "checked", !.probesOK = ok,
                 !.retries = IF woken THEN 0 ELSE @, !.last = ~woken /\ @]
    BY <1>4 DEF WorkerChecks
  <2>3. worker' \in Worker
    <3> DEFINE n == IF woken THEN 0 ELSE worker.retries
               b == ~woken /\ worker.last
    <3>1. worker.blocked \in SUBSET JobId
      BY ONLY <1>0 DEF Worker
    <3>2. worker' = [phase |-> "checked", blocked |-> worker.blocked, probesOK |-> ok,
                     retries |-> n, last |-> b]
      BY ONLY <1>0, <2>2 DEF Worker
    <3>3. n \in 0..2
      BY <1>1
    <3>4. b \in BOOLEAN
      BY ONLY Zenon
    <3> HIDE DEF n, b
    <3> QED
      BY <3>1, <3>2, <3>3, <3>4 DEF Worker
  <2>4. probeFailures' \in 0..MaxProbeFailures
    BY <2>2 DEF Probe
  <2> QED
    BY <2>1, <2>3, <2>4 DEF jobVars, leaseVars
<1>5. ASSUME WorkerDecides PROVE TypeOK'
  <2>1. UNCHANGED <<leaseVars, request, bounds>>
    BY <1>5 DEF WorkerDecides
  <2>2. CASE FinishDispatch /\ UNCHANGED jobVars
    BY <1>2, <2>1, <2>2 DEF jobVars, leaseVars, bounds
  <2>3. CASE /\ UNCHANGED <<status, generation, maxActive, fenced, stopping>>
             /\ DispatchLocked(starting, runs, WorkerAt("off", 0, FALSE), TRUE)
    <3>1. generation' \in [JobId -> Nat]
      BY <2>3
    <3>2. WorkerAt("off", 0, FALSE) \in Worker
      BY DEF WorkerAt, Worker
    <3>3. /\ starting' \subseteq JobId /\ runs' \subseteq Run
          /\ worker' \in Worker /\ woken' \in BOOLEAN
      BY <2>3, <3>1, <3>2, DispatchType
    <3> QED
      BY <2>1, <2>3, <3>3 DEF leaseVars, bounds
  <2>4. CASE /\ UNCHANGED <<status, generation, maxActive, fenced, stopping>>
             /\ Spawn(ToStart, starting, runs) /\ FinishDispatch
    <3>1. ToStart \in SUBSET JobId
      BY DEF ToStart, Prefix, Queued
    <3>2. generation' \in [JobId -> Nat]
      BY <2>4
    <3>3. starting' \subseteq JobId /\ runs' \subseteq Run
      BY <2>4, <3>1, <3>2, SpawnType
    <3> QED
      BY <1>2, <2>1, <2>4, <3>3 DEF leaseVars, bounds
  <2>5. CASE /\ UNCHANGED jobVars
             /\ \/ /\ worker.retries < 2 /\ UNCHANGED woken
                   /\ worker' = WorkerAt("begin", worker.retries + 1, worker.last)
                \/ worker' = WorkerAt("begin", 0, TRUE) /\ UNCHANGED woken
                \/ Park
    <3>1. worker' \in Worker /\ woken' \in BOOLEAN
      <4>1. CASE /\ worker.retries < 2 /\ UNCHANGED woken
                 /\ worker' = WorkerAt("begin", worker.retries + 1, worker.last)
        <5>1. PICK n \in 0..2 : worker' = WorkerAt("begin", n, worker.last)
          BY <1>1, <4>1
        <5>2. WorkerAt("begin", n, worker.last) \in Worker
          BY <1>1, <5>1 DEF WorkerAt, Worker
        <5>3. woken' \in BOOLEAN
          BY ONLY <4>1, woken \in BOOLEAN, Zenon
        <5> QED
          BY <5>1, <5>2, <5>3
      <4>2. CASE worker' = WorkerAt("begin", 0, TRUE) /\ UNCHANGED woken
        BY <4>2 DEF WorkerAt, Worker
      <4>3. CASE Park
        <5>1. WorkerAt("parked", 0, TRUE) \in Worker
          BY ONLY DEF WorkerAt, Worker
        <5> QED
          BY <4>3, <5>1 DEF Park
      <4> QED
        BY <2>5, <4>1, <4>2, <4>3
    <3> QED
      BY <2>1, <2>5, <3>1 DEF jobVars, leaseVars, bounds
  <2> QED
    BY <1>5, <2>2, <2>3, <2>4, <2>5 DEF WorkerDecides
<1>6. ASSUME WorkerWakes PROVE TypeOK'
  <2>1. worker' \in Worker
    BY <1>6 DEF WorkerWakes, WorkerAt, Worker
  <2> QED
    BY <1>6, <2>1 DEF WorkerWakes, jobVars, leaseVars, bounds
<1> QED
  BY <1>3, <1>4, <1>5, <1>6 DEF WorkerStep

LEMMA TypeStep == TypeOK /\ [Next]_vars => TypeOK'
<1> SUFFICES ASSUME TypeOK, [Next]_vars PROVE TypeOK'
  OBVIOUS
<1>1. CASE UNCHANGED vars
  BY <1>1 DEF vars, jobVars, leaseVars, bounds, TypeOK
<1>2. CASE RunStep
  <2>1. PICK r \in runs : Claim(r) \/ PlanComplete(r) \/ FinishRun(r) \/ Return(r)
    BY <1>2 DEF RunStep
  <2> QED
    BY <2>1, RunStepType
<1>3. CASE JobStep
  BY <1>3, JobStepType
<1>4. CASE LeaseStep
  BY <1>4, LeaseStepType
<1>5. CASE WorkerStep
  BY <1>5, WorkerStepType
<1> QED
  BY <1>1, <1>2, <1>3, <1>4, <1>5 DEF Next
-----------------------------------------------------------------------------
(* What a captured state decides. *)

\* Two activities that a captured state does not tell apart.
Alike(r, s) ==
    /\ r.job = s.job /\ r.claim = s.claim
    /\ r.known = s.known /\ r.complete = s.complete /\ r.planned = s.planned

\* While the decision is the same, each listed job is the same.
LEMMA DecisionReadsJobs ==
    ASSUME Decision' = Decision, NEW j \in JobId
    PROVE  /\ Listed(j) <=> status'[j] \notin {"none", "gone"}
           /\ Listed(j) => /\ status'[j] = status[j] /\ generation'[j] = generation[j]
                           /\ (j \in starting') <=> (j \in starting)
<1> DEFINE jobs == {<<i, status[i], i \in starting, generation[i]>> : i \in {x \in JobId : Listed(x)}}
<1>1. jobs' = jobs
  BY DEF Decision
<1>2. ASSUME Listed(j)
      PROVE  /\ status'[j] \notin {"none", "gone"}
             /\ status'[j] = status[j] /\ generation'[j] = generation[j]
             /\ (j \in starting') <=> (j \in starting)
  <2>1. <<j, status[j], j \in starting, generation[j]>> \in jobs'
    BY <1>1, <1>2
  <2>2. PICK i \in JobId : /\ status'[i] \notin {"none", "gone"}
                           /\ <<j, status[j], j \in starting, generation[j]>>
                              = <<i, status'[i], i \in starting', generation'[i]>>
    BY ONLY <2>1 DEF Listed
  <2> QED
    BY <2>2
<1>3. ASSUME status'[j] \notin {"none", "gone"} PROVE Listed(j)
  <2>1. <<j, status'[j], j \in starting', generation'[j]>> \in jobs
    BY <1>1, <1>3 DEF Listed
  <2>2. PICK i \in JobId : /\ Listed(i)
                           /\ <<j, status'[j], j \in starting', generation'[j]>>
                              = <<i, status[i], i \in starting, generation[i]>>
    BY ONLY <2>1
  <2> QED
    BY <2>2
<1> QED
  BY <1>2, <1>3

\* And so is each activity.
LEMMA DecisionReads ==
    ASSUME Decision' = Decision
    PROVE  /\ \A r \in runs : \E s \in runs' : Alike(r, s)
           /\ \A s \in runs' : \E r \in runs : Alike(r, s)
           /\ DeleteScopes(lease') = DeleteScopes(lease)
           /\ HFScopes(lease') = HFScopes(lease)
           /\ MutationScopes' = MutationScopes
<1> DEFINE activities == {<<r.job, r.claim, r.known, r.complete, r.planned>> : r \in runs}
<1>1. /\ activities' = activities
      /\ DeleteScopes(lease') = DeleteScopes(lease)
      /\ HFScopes(lease') = HFScopes(lease)
      /\ MutationScopes' = MutationScopes
  BY DEF Decision
<1>2. ASSUME NEW r \in runs PROVE \E s \in runs' : Alike(r, s)
  <2>1. <<r.job, r.claim, r.known, r.complete, r.planned>> \in activities'
    BY <1>1
  <2>2. PICK s \in runs' : <<r.job, r.claim, r.known, r.complete, r.planned>>
                           = <<s.job, s.claim, s.known, s.complete, s.planned>>
    BY <2>1
  <2> QED
    BY <2>2 DEF Alike
<1>3. ASSUME NEW s \in runs' PROVE \E r \in runs : Alike(r, s)
  <2>1. <<s.job, s.claim, s.known, s.complete, s.planned>> \in activities
    BY <1>1
  <2>2. PICK r \in runs : <<s.job, s.claim, s.known, s.complete, s.planned>>
                          = <<r.job, r.claim, r.known, r.complete, r.planned>>
    BY <2>1
  <2> QED
    BY <2>2 DEF Alike
<1> QED
  BY <1>1, <1>2, <1>3

\* Neither does a job, a file or a dispatch look different.
LEMMA DecisionDecides ==
    ASSUME Decision' = Decision
    PROVE  /\ \A files : GGUFConflict(files)' <=> GGUFConflict(files)
           /\ \A j \in JobId : \A gen : BlockedByLease(j, gen)' <=> BlockedByLease(j, gen)
           /\ BlockedNow' = BlockedNow
<1>1. /\ \A j \in JobId : Listed(j) <=> status'[j] \notin {"none", "gone"}
      /\ \A j \in JobId : Listed(j) => /\ status'[j] = status[j]
                                       /\ generation'[j] = generation[j]
                                       /\ (j \in starting') <=> (j \in starting)
  BY DecisionReadsJobs
<1>2. /\ \A r \in runs : \E s \in runs' : Alike(r, s)
      /\ \A s \in runs' : \E r \in runs : Alike(r, s)
  BY DecisionReads
<1>3. /\ DeleteScopes(lease)' = DeleteScopes(lease)
      /\ HFScopes(lease)' = HFScopes(lease)
      /\ MutationScopes' = MutationScopes
  <2>1. /\ DeleteScopes(lease') = DeleteScopes(lease) /\ HFScopes(lease') = HFScopes(lease)
        /\ MutationScopes' = MutationScopes
    BY DecisionReads
  <2> QED
    BY <2>1 DEF DeleteScopes, HFScopes
<1>4. ASSUME NEW j, NEW gen, NEW targets
      PROVE  MayWriteDescriptor(j, gen, targets)' <=> MayWriteDescriptor(j, gen, targets)
  <2> DEFINE yes(rs) == \E r \in rs : /\ r.job = j /\ r.claim = gen
                                      /\ PlanKnown(r) /\ Meets(r.planned, targets)
             none(rs) == \A r \in rs : ~(r.job = j /\ r.claim = gen)
             open(rs) == \E r \in rs : r.job = j /\ r.claim = gen /\ ~PlanKnown(r)
  <2>1. \A r, s : Alike(r, s) =>
           (r.job = j /\ r.claim = gen <=> s.job = j /\ s.claim = gen)
           /\ (PlanKnown(r) <=> PlanKnown(s)) /\ r.planned = s.planned
    BY DEF Alike, PlanKnown
  <2>2. (yes(runs') <=> yes(runs)) /\ (none(runs') <=> none(runs)) /\ (open(runs') <=> open(runs))
    BY <1>2, <2>1
  <2>3. MayWriteDescriptor(j, gen, targets)
          <=> yes(runs) \/ ((none(runs) \/ open(runs)) /\ Meets(May[j], targets))
    BY DEF MayWriteDescriptor, ActivitiesOf
  <2>4. MayWriteDescriptor(j, gen, targets)'
          <=> yes(runs') \/ ((none(runs') \/ open(runs')) /\ Meets(May[j], targets))
    BY DEF MayWriteDescriptor, ActivitiesOf, Meets, PlanKnown
  <2> QED
    BY <2>2, <2>3, <2>4
<1>5. \A j \in JobId : HasActiveBroadMutationFor(j)' <=> HasActiveBroadMutationFor(j)
  BY <1>3 DEF HasActiveBroadMutationFor, Meets
<1>6. ASSUME NEW j \in JobId, NEW gen PROVE BlockedByLease(j, gen)' <=> BlockedByLease(j, gen)
  BY <1>3, <1>4, <1>5 DEF BlockedByLease
<1>7. \A j \in JobId : Listed(j) => LookupGeneration(j)' = LookupGeneration(j)
  BY <1>1 DEF LookupGeneration
<1>8. Waiting' = Waiting
  BY <1>1 DEF Waiting, Listed
<1>9. ASSUME NEW files PROVE GGUFConflict(files)' <=> GGUFConflict(files)
  <2> DEFINE writers == Waiting \cup {r.job : r \in {x \in runs : ~PlanKnown(x)}}
  <2>1. writers' = writers
    <3>1. {r.job : r \in {x \in runs : ~PlanKnown(x)}}' = {r.job : r \in {x \in runs : ~PlanKnown(x)}}
      BY <1>2 DEF Alike, PlanKnown
    <3> QED
      BY <1>8, <3>1
  <2>2. HasActiveBroadMutation(files)' <=> HasActiveBroadMutation(files)
    BY <1>3, <2>1 DEF HasActiveBroadMutation, Meets, PlanKnown
  <2>3. (\E r \in runs : r.known /\ Meets(r.planned, files))
          <=> (\E r \in runs' : r.known /\ Meets(r.planned, files))
    BY <1>2 DEF Alike
  <2>4. (\E r \in runs : ~PlanKnown(r) /\ MayWriteDescriptor(r.job, r.claim, files))
          <=> (\E r \in runs' : ~PlanKnown(r) /\ MayWriteDescriptor(r.job, r.claim, files)')
    BY <1>2, <1>4 DEF Alike, PlanKnown
  <2>5. (\E j \in Waiting : MayWriteDescriptor(j, LookupGeneration(j), files))
          <=> (\E j \in Waiting : MayWriteDescriptor(j, LookupGeneration(j), files))'
    BY <1>4, <1>7, <1>8 DEF Waiting
  <2> QED
    BY <2>2, <2>3, <2>4, <2>5 DEF GGUFConflict
<1>10. BlockedNow' = BlockedNow
  <2>1. ASSUME NEW j \in JobId
        PROVE  status'[j] = "queued" /\ BlockedByLease(j, LookupGeneration(j))'
                 <=> status[j] = "queued" /\ BlockedByLease(j, LookupGeneration(j))
    BY <1>1, <1>6, <1>7 DEF Listed
  <2> QED
    BY <2>1 DEF BlockedNow
<1> QED
  BY <1>6, <1>9, <1>10
-----------------------------------------------------------------------------
(* What a step does to jobs, goroutines and leases. *)

\* A job is not forgotten, and one that is queued anew leaves its generation.
Follows(j) ==
    /\ status'[j] = "none" => status[j] = "none"
    /\ status[j] # "none" =>
         /\ generation[j] <= generation'[j]
         /\ status'[j] = "queued" =>
              \/ generation[j] < generation'[j]
              \/ status[j] = "queued" /\ generation'[j] = generation[j]

\* A goroutine that was just started, for a queued job that no lease meets.
Started(r) ==
    \E j \in JobId :
        /\ r = SpawnedRun(j, generation'[j]) /\ status'[j] = "queued"
        /\ \A scope \in DeleteScopes(lease') : ~Meets(May[j], scope)
        /\ \A scope \in HFScopes(lease') : ~Meets(Dir[j], scope)

\* A goroutine that was there, one that went on and writes no more than before, or one
\* that was started.
Known(r) ==
    \/ r \in runs \/ Started(r)
    \/ FitsClaim(r)' /\ \E s \in runs : r.job = s.job /\ Writes(r) \subseteq Writes(s)

\* No lease is granted and no mutation begins.
Held ==
    /\ \A d \in Deleters : lease'[d].phase \in {"gguf", "hf"} =>
          lease'[d].phase = lease[d].phase /\ lease'[d].scope = lease[d].scope
    /\ \A m \in Mutators : mutation'[m] \subseteq mutation[m]

\* What such a step preserves.
LEMMA HeldKeeps ==
    ASSUME IInv, TypeOK', Held,
           \A j \in JobId : Follows(j), \A r \in runs' : Known(r)
    PROVE  ClaimsFit' /\ NewHasNoRuns' /\ LeasesAreExclusive' /\ LeaseExcludesRuns'
<1> USE LeaseAssumption
<1>1. /\ generation \in [JobId -> Nat] /\ generation' \in [JobId -> Nat]
      /\ \A r \in runs : r \in Run /\ r.job \in JobId
      /\ \A r \in runs' : r \in Run /\ r.job \in JobId
  BY DEF IInv, TypeOK, Run
<1>2. /\ \A scope \in DeleteScopes(lease') : scope \in DeleteScopes(lease)
      /\ \A scope \in HFScopes(lease') : scope \in HFScopes(lease)
  BY DEF Held, DeleteScopes, HFScopes
<1>3. ASSUME NEW r \in runs' PROVE FitsClaim(r)'
  <2>1. CASE r \in runs
    <3>1. FitsClaim(r) /\ status[r.job] # "none" /\ Follows(r.job) /\ r.gen \in Nat /\ r.claim \in Nat
      BY <1>1, <2>1 DEF IInv, ClaimsFit, NewHasNoRuns, Run
    <3>2. generation[r.job] \in Nat /\ generation'[r.job] \in Nat
      BY <1>1, <2>1
    <3> QED
      BY <3>1, <3>2 DEF FitsClaim, Follows
  <2>2. CASE Started(r)
    <3>1. PICK j \in JobId : r = SpawnedRun(j, generation'[j])
      BY <2>2 DEF Started
    <3>2. generation'[j] \in Nat
      BY <1>1
    <3> QED
      BY <3>1, <3>2 DEF SpawnedRun, FitsClaim
  <2> QED
    BY <2>1, <2>2 DEF Known
<1>4. ASSUME NEW r \in runs' PROVE status'[r.job] # "none"
  <2>1. CASE Started(r)
    BY <2>1 DEF Started, SpawnedRun
  <2>2. CASE \E s \in runs : r.job = s.job
    BY <1>1, <2>2 DEF IInv, NewHasNoRuns, Follows
  <2> QED
    BY <2>1, <2>2 DEF Known
<1>5. ASSUME NEW r \in runs'
      PROVE  /\ \A scope \in DeleteScopes(lease') : ~Meets(Writes(r), scope)
             /\ \A scope \in HFScopes(lease') : ~Meets(Dir[r.job], scope)
  <2>1. CASE Started(r)
    <3>1. PICK j \in JobId :
             /\ r = SpawnedRun(j, generation'[j])
             /\ \A scope \in DeleteScopes(lease') : ~Meets(May[j], scope)
             /\ \A scope \in HFScopes(lease') : ~Meets(Dir[j], scope)
      BY <2>1 DEF Started
    <3>2. r.job = j /\ Writes(r) = May[j]
      BY <3>1 DEF SpawnedRun, Writes, PlanKnown
    <3> QED
      BY <3>1, <3>2
  <2>2. CASE \E s \in runs : r.job = s.job /\ Writes(r) \subseteq Writes(s)
    BY <1>2, <2>2 DEF IInv, LeaseExcludesRuns, Meets
  <2> QED
    BY <2>1, <2>2 DEF Known
<1>6. LeasesAreExclusive'
  <2> SUFFICES ASSUME NEW d \in Deleters, lease'[d].phase \in {"gguf", "hf"}
               PROVE  /\ \A e \in Deleters \ {d} : lease'[e].phase \in {"gguf", "hf"} =>
                            ~Meets(lease'[d].scope, lease'[e].scope)
                      /\ \A m \in Mutators : ~Meets(lease'[d].scope, mutation'[m])
    BY DEF LeasesAreExclusive, Meets
  <2>1. /\ lease[d].phase \in {"gguf", "hf"} /\ lease[d].scope = lease'[d].scope
        /\ \A e \in Deleters : lease'[e].phase \in {"gguf", "hf"} =>
              lease[e].phase \in {"gguf", "hf"} /\ lease[e].scope = lease'[e].scope
        /\ \A m \in Mutators : mutation'[m] \subseteq mutation[m]
    BY DEF Held
  <2> QED
    BY <2>1 DEF IInv, LeasesAreExclusive, Meets
<1>7. LeaseExcludesRuns'
  <2>1. DeleteScopes(lease)' = DeleteScopes(lease') /\ HFScopes(lease)' = HFScopes(lease')
    BY DEF DeleteScopes, HFScopes
  <2> QED
    BY <1>5, <2>1 DEF LeaseExcludesRuns, Writes, PlanKnown, Meets
<1> QED
  BY <1>3, <1>4, <1>6, <1>7 DEF ClaimsFit, NewHasNoRuns

\* Around a lease, a job that no activity names with a plan is judged by its filters.
LEMMA FiltersDecide ==
    ASSUME NEW j \in JobId, NEW gen,
           \A r \in runs : r.job = j /\ r.claim = gen => ~PlanKnown(r),
           ~BlockedByLease(j, gen)
    PROVE  /\ \A scope \in DeleteScopes(lease) : ~Meets(May[j], scope)
           /\ \A scope \in HFScopes(lease) : ~Meets(Dir[j], scope)
<1>1. ASSUME NEW scope \in DeleteScopes(lease) PROVE ~Meets(May[j], scope)
  BY DEF BlockedByLease, MayWriteDescriptor, ActivitiesOf
<1>2. ASSUME NEW scope \in HFScopes(lease) PROVE ~Meets(Dir[j], scope)
  BY DEF BlockedByLease, HasActiveBroadMutationFor, Meets
<1> QED
  BY <1>1, <1>2

\* A job that is started is queued and need not wait.
LEMMA StartedIsQueued ==
    ASSUME NEW stat, NEW strt, NEW limit, NEW waits, NEW j \in Prefix(stat, strt, limit, waits)
    PROVE  j \in JobId /\ stat[j] = "queued" /\ j \notin strt /\ j \notin waits
<1>1. /\ j \in Queued(stat, strt)
      /\ \A k \in Queued(stat, strt) : k <= j => k \notin waits
  BY DEF Prefix
<1>2. j \in JobId /\ stat[j] = "queued" /\ j \notin strt
  BY <1>1 DEF Queued
<1>3. j <= j
  BY <1>2 DEF JobId
<1> QED
  BY <1>1, <1>2, <1>3

\* What dispatchLocked starts; the worker stays as it is, or is called.
LEMMA DispatchStarts ==
    ASSUME NEW strt, NEW rs, NEW w, NEW wake, DispatchLocked(strt, rs, w, wake)
    PROVE  /\ \A r \in runs' : r \in rs \/ Started(r)
           /\ worker' = w \/ worker'.phase = "begin"
<1> DEFINE go == Prefix(status', strt, maxActive', {j \in Queued(status', strt) : BlockedByHF(lease', j)})
<1>1. CASE runs' = rs /\ worker' = w
  BY <1>1
<1>2. CASE runs' = rs /\ worker' = WorkerAt("begin", 0, FALSE)
  BY <1>2 DEF WorkerAt
<1>3. CASE DeleteScopes(lease') = {} /\ Spawn(go, strt, rs) /\ worker' = w
  <2>1. ASSUME NEW j \in go
        PROVE  /\ j \in JobId /\ status'[j] = "queued"
               /\ \A scope \in HFScopes(lease') : ~Meets(Dir[j], scope)
    <3>0. j \notin {i \in Queued(status', strt) : BlockedByHF(lease', i)} /\ j \notin strt
      BY StartedIsQueued
    <3>1. j \in JobId /\ status'[j] = "queued" /\ ~BlockedByHF(lease', j)
      BY <3>0, StartedIsQueued DEF Queued
    <3> QED
      BY <3>1 DEF BlockedByHF, Meets
  <2>2. ASSUME NEW r \in runs', r \notin rs PROVE Started(r)
    <3>1. PICK j \in go : r = SpawnedRun(j, generation'[j])
      BY <1>3, <2>2 DEF Spawn
    <3> QED
      BY <1>3, <2>1, <3>1 DEF Started
  <2> QED
    BY <1>3, <2>2
<1> QED
  BY <1>1, <1>2, <1>3 DEF DispatchLocked

\* What the worker starts around leases: jobs that its verdict, still valid, lets go.
LEMMA WorkerStarts ==
    ASSUME IInv, worker.phase = "checked", Unchanged,
           UNCHANGED <<status, generation, leaseVars>>,
           Spawn(ToStart, starting, runs), NEW r \in runs'
    PROVE  r \in runs \/ Started(r)
<1> SUFFICES ASSUME r \notin runs PROVE Started(r)
  OBVIOUS
<1>1. PICK j \in ToStart : r = SpawnedRun(j, generation'[j])
  BY DEF Spawn
<1>2. j \in JobId /\ status[j] = "queued" /\ j \notin starting /\ j \notin worker.blocked
  BY StartedIsQueued DEF ToStart
<1>3. worker.blocked = BlockedNow
  BY DEF IInv, VerdictsHold, WorkerVerdict, Unchanged
<1>4. ~BlockedByLease(j, generation[j])
  BY <1>2, <1>3 DEF BlockedNow, LookupGeneration
<1>5. ASSUME NEW s \in runs, s.job = j, s.claim = generation[j] PROVE ~PlanKnown(s)
  <2>1. FitsClaim(s) /\ s \in Run /\ generation[j] \in Nat
    BY <1>2, <1>5 DEF IInv, ClaimsFit, TypeOK
  <2>2. s.gen \in Nat /\ s.claim \in Nat
    BY <2>1 DEF Run
  <2>3. s.gen = 0
    BY <1>2, <1>5, <2>1, <2>2 DEF FitsClaim
  <2> QED
    BY <2>1, <2>3 DEF FitsClaim, PlanKnown
<1>6. /\ \A scope \in DeleteScopes(lease) : ~Meets(May[j], scope)
      /\ \A scope \in HFScopes(lease) : ~Meets(Dir[j], scope)
  BY <1>2, <1>4, <1>5, FiltersDecide
<1> QED
  BY <1>1, <1>2, <1>6 DEF Started, leaseVars
-----------------------------------------------------------------------------
(* What a step does to verdicts. *)

\* A walk goes on as it is, or begins with the verdict on the current state in a step
\* that leaves the decision alone.
DeleteGoesOn(d) ==
    lease'[d].phase = "collect" =>
        \/ lease'[d] = lease[d]
        \/ /\ Decision' = Decision
           /\ \A files : lease'[d].scope = files => (lease'[d].conflict <=> GGUFConflict(files))
RequestGoesOn(j) ==
    request'[j].phase = "collect" =>
        \/ request'[j] = request[j]
        \/ Decision' = Decision /\ (request'[j].blocked <=> BlockedNext(j))
WorkerGoesOn ==
    worker'.phase \in {"collect", "checked"} =>
        \/ worker.phase \in {"collect", "checked"} /\ worker'.blocked = worker.blocked
        \/ Decision' = Decision /\ worker'.blocked = BlockedNow

Moves ==
    /\ \A j \in JobId : Follows(j) /\ RequestGoesOn(j)
    /\ \A r \in runs' : Known(r)
    /\ \A d \in Deleters : DeleteGoesOn(d)
    /\ WorkerGoesOn

\* While the decision is the same, so is the verdict on a job that may be queued.
LEMMA NextStays ==
    ASSUME NEW j \in JobId, Decision' = Decision, Follows(j), MayBeQueued(j)'
    PROVE  (BlockedNext(j)' <=> BlockedNext(j)) /\ (MayBeQueued(j))
<1>1. /\ Listed(j) <=> status'[j] \notin {"none", "gone"}
      /\ Listed(j) => status'[j] = status[j] /\ generation'[j] = generation[j]
  BY DecisionReadsJobs
<1>2. status'[j] = status[j] /\ (status[j] # "none" => generation'[j] = generation[j])
  BY <1>1 DEF MayBeQueued, Follows, Listed
<1>3. NextGeneration(j)' = NextGeneration(j)
  BY <1>2 DEF NextGeneration
<1>4. \A gen : BlockedByLease(j, gen)' <=> BlockedByLease(j, gen)
  BY DecisionDecides
<1>5. BlockedNext(j)' <=> BlockedNext(j)
  BY <1>3, <1>4 DEF BlockedNext
<1> QED
  BY <1>2, <1>5 DEF MayBeQueued

\* An attempt that is not stale has seen no change, or has just begun.
LEMMA TrackSees ==
    ASSUME Track, NEW p, p \notin dirty', p \in Collecting(lease', request', worker'),
           p \in Collecting(lease, request, worker)
    PROVE  p \notin dirty /\ Decision' = Decision
  BY DEF Track

\* Verdicts hold after any step.
LEMMA VerdictsKeep ==
    ASSUME VerdictsHold, Moves, Track
    PROVE  VerdictsHold'
<1>1. ASSUME NEW d \in Deleters, NEW files \in SUBSET Entries PROVE DeleteVerdict(d, files)'
  <2> SUFFICES ASSUME lease'[d].phase = "collect", lease'[d].scope = files,
                      <<"delete", d>> \notin dirty'
               PROVE  lease'[d].conflict <=> GGUFConflict(files)'
    BY DEF DeleteVerdict
  <2>1. CASE lease'[d] = lease[d]
    <3>1. <<"delete", d>> \notin dirty /\ Decision' = Decision
      BY <2>1, TrackSees DEF Collecting
    <3>2. DeleteVerdict(d, files)
      BY DEF VerdictsHold
    <3> QED
      BY <2>1, <3>1, <3>2, DecisionDecides DEF DeleteVerdict
  <2>2. CASE Decision' = Decision /\ (lease'[d].conflict <=> GGUFConflict(files))
    BY <2>2, DecisionDecides
  <2> QED
    BY <2>1, <2>2 DEF Moves, DeleteGoesOn
<1>2. ASSUME NEW j \in JobId PROVE RequestVerdict(j)'
  <2> SUFFICES ASSUME request'[j].phase = "collect", <<"request", j>> \notin dirty', MayBeQueued(j)'
               PROVE  request'[j].blocked <=> BlockedNext(j)'
    BY DEF RequestVerdict
  <2>1. Follows(j)
    BY DEF Moves
  <2>2. CASE request'[j] = request[j]
    <3>1. <<"request", j>> \notin dirty /\ Decision' = Decision
      BY <2>2, TrackSees DEF Collecting
    <3>2. RequestVerdict(j)
      BY DEF VerdictsHold
    <3> QED
      BY <2>1, <2>2, <3>1, <3>2, NextStays DEF RequestVerdict
  <2>3. CASE Decision' = Decision /\ (request'[j].blocked <=> BlockedNext(j))
    BY <2>1, <2>3, NextStays
  <2> QED
    BY <2>2, <2>3 DEF Moves, RequestGoesOn
<1>3. WorkerVerdict'
  <2> SUFFICES ASSUME worker'.phase \in {"collect", "checked"}, <<"worker", 0>> \notin dirty'
               PROVE  worker'.blocked = BlockedNow'
    BY DEF WorkerVerdict
  <2>1. CASE worker.phase \in {"collect", "checked"} /\ worker'.blocked = worker.blocked
    <3>1. <<"worker", 0>> \notin dirty /\ Decision' = Decision
      BY <2>1, TrackSees DEF Collecting
    <3> QED
      BY <2>1, <3>1, DecisionDecides DEF VerdictsHold, WorkerVerdict
  <2>2. CASE Decision' = Decision /\ worker'.blocked = BlockedNow
    BY <2>2, DecisionDecides
  <2> QED
    BY <2>1, <2>2 DEF Moves, WorkerGoesOn
<1> QED
  BY <1>1, <1>2, <1>3 DEF VerdictsHold

\* The decision is made of these.
LEMMA DecisionStays ==
    ASSUME UNCHANGED <<jobVars, mutation, cleanup>>,
           DeleteScopes(lease') = DeleteScopes(lease), HFScopes(lease') = HFScopes(lease)
    PROVE  Decision' = Decision
<1>1. DeleteScopes(lease)' = DeleteScopes(lease) /\ HFScopes(lease)' = HFScopes(lease)
  BY DEF DeleteScopes, HFScopes
<1>2. MutationScopes' = MutationScopes
  BY DEF MutationScopes
<1> QED
  BY <1>1, <1>2 DEF Decision, Listed, jobVars
-----------------------------------------------------------------------------
(* Every step moves so, and only three grant something. *)

\* A dispatch at the end of a section that keeps some of the goroutines.
LEMMA DispatchMoves ==
    ASSUME NEW strt, NEW rs \in SUBSET runs, NEW wake, DispatchLocked(strt, rs, worker, wake),
           \A j \in JobId : Follows(j),
           \A j \in JobId : RequestGoesOn(j), \A d \in Deleters : DeleteGoesOn(d)
    PROVE  Moves
<1>1. \A r \in runs' : Known(r)
  BY DispatchStarts DEF Known
<1>2. WorkerGoesOn
  BY DispatchStarts DEF WorkerGoesOn
<1> QED
  BY <1>1, <1>2 DEF Moves

\* A section that leaves jobs alone.
LEMMA JobsFollow ==
    ASSUME TypeOK, UNCHANGED <<status, generation>>
    PROVE  \A j \in JobId : Follows(j)
<1> SUFFICES ASSUME NEW j \in JobId PROVE Follows(j)
  OBVIOUS
<1>1. generation[j] \in Nat
  BY DEF TypeOK
<1> QED
  BY <1>1 DEF Follows

\* A section that changes neither leases nor requests.
LEMMA AttemptsGoOn ==
    /\ UNCHANGED lease => \A d \in Deleters : DeleteGoesOn(d)
    /\ UNCHANGED request => \A j \in JobId : RequestGoesOn(j)
    /\ UNCHANGED worker => WorkerGoesOn
    /\ UNCHANGED <<lease, mutation>> => Held
  BY DEF DeleteGoesOn, RequestGoesOn, WorkerGoesOn, Held

\* A request that is answered or set back does not go on.
LEMMA RequestIsSet ==
    ASSUME TypeOK, NEW j \in JobId, NEW new, SetRequest(j, new), new.phase # "collect"
    PROVE  \A k \in JobId : RequestGoesOn(k)
<1>1. \A k \in JobId : request'[k] = IF k = j THEN new ELSE request[k]
  BY DEF TypeOK, SetRequest
<1> QED
  BY <1>1 DEF RequestGoesOn

\* A lease that is released, given up or set back does not go on, and holds nothing new.
LEMMA LeaseIsSet ==
    ASSUME TypeOK, NEW d \in Deleters, NEW new, SetLease(d, new), new.phase \in {"none", "begin"}
    PROVE  /\ \A e \in Deleters : DeleteGoesOn(e)
           /\ UNCHANGED mutation => Held
<1>1. \A e \in Deleters : lease'[e] = IF e = d THEN new ELSE lease[e]
  BY DEF TypeOK, SetLease
<1> QED
  BY <1>1 DEF DeleteGoesOn, Held

LEMMA EnqueueMoves ==
    ASSUME TypeOK, NEW j \in JobId, Enqueue(j), UNCHANGED leaseVars
    PROVE  Held /\ Moves
<1>1. ASSUME NEW k \in JobId PROVE Follows(k)
  <2>1. /\ status'[k] = IF k = j THEN "queued" ELSE status[k]
        /\ generation'[k] = IF k # j THEN generation[k]
                            ELSE IF status[j] = "none" THEN 0 ELSE generation[j] + 1
    BY DEF Enqueue, TypeOK
  <2>2. generation[k] \in Nat
    BY DEF TypeOK
  <2> QED
    BY <2>1, <2>2 DEF Follows
<1>2. \A k \in JobId : RequestGoesOn(k)
  <2>1. NoRequest.phase # "collect"
    BY DEF NoRequest
  <2> QED
    BY <2>1, RequestIsSet DEF Enqueue
<1>3. Held /\ \A d \in Deleters : DeleteGoesOn(d)
  BY AttemptsGoOn DEF leaseVars
<1>4. DispatchLocked(starting, runs, worker, TRUE)
  BY DEF Enqueue, Dispatch
<1> QED
  BY <1>1, <1>2, <1>3, <1>4, DispatchMoves

LEMMA RefuseMoves ==
    ASSUME TypeOK, NEW j \in JobId, NEW new, SetRequest(j, new), new.phase # "collect",
           UNCHANGED <<leaseVars, jobVars, worker>>
    PROVE  Held /\ Moves
<1>1. Held /\ WorkerGoesOn /\ \A d \in Deleters : DeleteGoesOn(d)
  BY AttemptsGoOn DEF leaseVars
<1>2. \A k \in JobId : RequestGoesOn(k) /\ Follows(k)
  BY RequestIsSet, JobsFollow DEF jobVars
<1>3. \A r \in runs' : Known(r)
  BY DEF Known, jobVars
<1> QED
  BY <1>1, <1>2, <1>3 DEF Moves

LEMMA JobStepMoves == ASSUME TypeOK, JobStep PROVE Held /\ Moves
<1>1. NoRequest.phase # "collect" /\ \A new : [NoRequest EXCEPT !.phase = "begin", !.tries = new].phase # "collect"
  BY DEF NoRequest
<1>2. ASSUME NEW j \in JobId, AskForJob(j) PROVE Held /\ Moves
  <2>1. [NoRequest EXCEPT !.phase = "begin"].phase # "collect"
    BY DEF NoRequest
  <2> QED
    BY <1>2, <2>1, RefuseMoves DEF AskForJob
<1>3. ASSUME NEW j \in JobId, BeginAdmission(j) PROVE Held /\ Moves
  <2>1. UNCHANGED leaseVars
    BY <1>3 DEF BeginAdmission
  <2>2. CASE Refuse(j)
    BY <1>1, <2>1, <2>2, RefuseMoves DEF Refuse
  <2>3. CASE Enqueue(j)
    BY <2>1, <2>3, EnqueueMoves
  <2>4. CASE /\ SetRequest(j, [request[j] EXCEPT
                    !.phase = "collect", !.blocked = BlockedByLease(j, NextGeneration(j))])
             /\ UNCHANGED <<jobVars, worker, woken, requeues>>
    <3>1. Decision' = Decision
      BY <2>1, <2>4, DecisionStays DEF leaseVars
    <3>2. \A k \in JobId : RequestGoesOn(k)
      <4>1. request \in [JobId -> Request]
        BY DEF TypeOK
      <4>2. /\ request'[j].blocked = BlockedByLease(j, NextGeneration(j))
            /\ \A k \in JobId \ {j} : request'[k] = request[k]
        BY <2>4, <4>1 DEF SetRequest, Request
      <4> QED
        BY <3>1, <4>2 DEF RequestGoesOn, BlockedNext
    <3>3. Held /\ WorkerGoesOn /\ \A d \in Deleters : DeleteGoesOn(d)
      BY <2>1, <2>4, AttemptsGoOn DEF leaseVars
    <3>4. \A k \in JobId : Follows(k)
      BY <2>4, JobsFollow DEF jobVars
    <3>5. \A r \in runs' : Known(r)
      BY <2>4 DEF Known, jobVars
    <3> QED
      BY <3>2, <3>3, <3>4, <3>5 DEF Moves
  <2> QED
    BY <1>3, <2>2, <2>3, <2>4 DEF BeginAdmission
<1>4. ASSUME NEW j \in JobId, DecideAdmission(j) PROVE Held /\ Moves
  <2>1. UNCHANGED leaseVars
    BY <1>4 DEF DecideAdmission
  <2>2. CASE Refuse(j)
    BY <1>1, <2>1, <2>2, RefuseMoves DEF Refuse
  <2>3. CASE Enqueue(j)
    BY <2>1, <2>3, EnqueueMoves
  <2>4. CASE /\ SetRequest(j, [NoRequest EXCEPT !.phase = "begin", !.tries = request[j].tries + 1])
             /\ UNCHANGED <<jobVars, worker, woken, requeues>>
    BY <1>1, <2>1, <2>4, RefuseMoves
  <2> QED
    BY <1>4, <2>2, <2>3, <2>4 DEF DecideAdmission
<1>5. ASSUME NEW j \in JobId, CancelJob(j) \/ PauseJob(j) \/ DismissJob(j) PROVE Held /\ Moves
  <2>1. PICK to \in {"ended", "paused", "gone"} : SetStatus(j, to)
    BY <1>5 DEF CancelJob, PauseJob, DismissJob
  <2>2. ASSUME NEW k \in JobId PROVE Follows(k)
    <3>1. status'[k] = (IF k = j THEN to ELSE status[k]) /\ generation'[k] = generation[k]
      BY <2>1 DEF SetStatus, TypeOK
    <3>2. generation[k] \in Nat
      BY DEF TypeOK
    <3> QED
      BY <3>1, <3>2 DEF Follows
  <2>3. UNCHANGED <<lease, mutation, request, worker, runs>>
    BY <2>1 DEF SetStatus
  <2> QED
    BY <2>2, <2>3, AttemptsGoOn DEF Moves, Known
<1>6. ASSUME NEW j \in JobId, BeginCleanup(j) PROVE Held /\ Moves
  <2>1. UNCHANGED <<jobVars, lease, mutation, request, worker>>
    BY <1>6 DEF BeginCleanup
  <2> QED
    BY <2>1, AttemptsGoOn, JobsFollow DEF Moves, Known, jobVars
<1>7. ASSUME NEW j \in JobId, EndCleanup(j) PROVE Held /\ Moves
  <2>1. /\ UNCHANGED <<status, generation, lease, mutation, request>>
        /\ DispatchLocked(starting, runs, worker, TRUE)
    BY <1>7 DEF EndCleanup, Dispatch
  <2> QED
    BY <2>1, AttemptsGoOn, JobsFollow, DispatchMoves
<1>8. ASSUME NEW limit \in Limits, UpdateConfig(limit) PROVE Held /\ Moves
  <2>1. PICK excess \in SUBSET {j \in JobId : status[j] = "running"} :
           /\ status' = [j \in JobId |-> IF j \in excess THEN "queued" ELSE status[j]]
           /\ generation' = [j \in JobId |-> IF j \in excess THEN generation[j] + 1
                                                             ELSE generation[j]]
           /\ UNCHANGED <<leaseVars, request>>
           /\ DispatchLocked(starting \ excess, runs, worker, TRUE)
    BY <1>8 DEF UpdateConfig, Dispatch
  <2>2. ASSUME NEW k \in JobId PROVE Follows(k)
    <3>1. generation[k] \in Nat
      BY DEF TypeOK
    <3>2. /\ status'[k] = IF k \in excess THEN "queued" ELSE status[k]
          /\ generation'[k] = IF k \in excess THEN generation[k] + 1 ELSE generation[k]
      BY <2>1
    <3> QED
      BY <3>1, <3>2 DEF Follows
  <2>3. Held /\ (\A j \in JobId : RequestGoesOn(j)) /\ \A d \in Deleters : DeleteGoesOn(d)
    BY <2>1, AttemptsGoOn DEF leaseVars
  <2> QED
    BY <2>1, <2>2, <2>3, DispatchMoves
<1>9. ASSUME Quiesce PROVE Held /\ Moves
  <2>1. UNCHANGED <<status, generation, runs, lease, mutation, request, worker>>
    BY <1>9 DEF Quiesce, leaseVars
  <2> QED
    BY <2>1, AttemptsGoOn, JobsFollow DEF Moves, Known
<1>10. ASSUME Close PROVE Held /\ Moves
  <2>1. /\ status' = [j \in JobId |-> IF status[j] = "running" THEN "paused" ELSE status[j]]
        /\ UNCHANGED <<generation, runs, lease, mutation, request, worker>>
    BY <1>10 DEF Close, leaseVars
  <2>2. ASSUME NEW k \in JobId PROVE Follows(k)
    <3>1. generation[k] \in Nat
      BY DEF TypeOK
    <3> QED
      BY <2>1, <3>1 DEF Follows
  <2> QED
    BY <2>1, <2>2, AttemptsGoOn DEF Moves, Known
<1> QED
  BY <1>2, <1>3, <1>4, <1>5, <1>6, <1>7, <1>8, <1>9, <1>10 DEF JobStep

\* A goroutine that goes on: its run fits its job still, and it writes no more.
LEMMA RunGoesOn ==
    ASSUME NEW r \in runs, NEW s, runs' = Replace(r, s),
           s.job = r.job, Writes(s) \subseteq Writes(r), FitsClaim(s)'
    PROVE  \A t \in runs' : Known(t)
  BY DEF Known, Replace

LEMMA ClaimMoves == ASSUME TypeOK, ClaimsFit, NEW r \in runs, Claim(r) PROVE Held /\ Moves
<1>1. /\ r \in Run /\ r.job \in JobId /\ r.claim \in Nat /\ generation[r.job] \in Nat
      /\ r.gen = 0 /\ ~r.known /\ r.claim <= generation[r.job] + 1
  <2>1. r \in Run /\ FitsClaim(r) /\ r.phase = "spawned"
    BY DEF TypeOK, ClaimsFit, Claim
  <2> QED
    BY <2>1 DEF FitsClaim, Run, TypeOK
<1>2. UNCHANGED <<leaseVars, request, worker>>
  BY DEF Claim
<1>3. Held /\ WorkerGoesOn /\ (\A j \in JobId : RequestGoesOn(j)) /\ \A d \in Deleters : DeleteGoesOn(d)
  BY <1>2, AttemptsGoOn DEF leaseVars
<1>4. CASE runs' = Replace(r, [r EXCEPT !.phase = "exiting"]) /\ UNCHANGED <<status, generation>>
  <2> DEFINE s == [r EXCEPT !.phase = "exiting"]
  <2>1. s.job = r.job /\ s.gen = 0 /\ ~s.known /\ s.phase = "exiting" /\ Writes(s) = Writes(r)
    BY <1>1 DEF Run, Writes, PlanKnown
  <2>2. FitsClaim(s)'
    BY <2>1 DEF FitsClaim
  <2>3. \A t \in runs' : Known(t)
    BY <1>4, <2>1, <2>2, RunGoesOn
  <2> QED
    BY <1>3, <1>4, <2>3, JobsFollow DEF Moves
<1>5. CASE /\ generation' = [generation EXCEPT ![r.job] = @ + 1]
           /\ status' = [status EXCEPT ![r.job] = IF @ = "gone" THEN @ ELSE "running"]
           /\ runs' = Replace(r, [r EXCEPT !.phase = "download", !.gen = generation'[r.job]])
  <2>1. PICK gen \in Nat : /\ gen = generation'[r.job] /\ gen = generation[r.job] + 1
                           /\ status'[r.job] \in {"gone", "running"}
    BY <1>1, <1>5 DEF TypeOK
  <2>s. PICK s : s = [r EXCEPT !.phase = "download", !.gen = gen]
    OBVIOUS
  <2>2. /\ s.job = r.job /\ s.claim = r.claim /\ s.gen = gen /\ s.known = r.known
        /\ s.phase = "download" /\ Writes(s) = Writes(r)
    BY <1>1, <2>s DEF Run, Writes, PlanKnown
  <2>3. FitsClaim(s)'
    <3>1. gen # 0 /\ r.claim <= gen /\ gen <= gen
      BY <1>1, <2>1
    <3>2. s.gen # 0 /\ s.claim <= s.gen /\ s.gen <= generation'[s.job]
      BY <2>1, <2>2, <3>1
    <3>3. status'[s.job] # "queued" /\ s.phase # "spawned"
      BY <2>1, <2>2
    <3> QED
      BY <3>2, <3>3 DEF FitsClaim
  <2>4. \A t \in runs' : Known(t)
    BY <1>5, <2>s, <2>1, <2>2, <2>3, RunGoesOn
  <2>5. ASSUME NEW k \in JobId PROVE Follows(k)
    <3>1. generation[k] \in Nat
      BY DEF TypeOK
    <3>2. /\ generation'[k] = IF k = r.job THEN generation[k] + 1 ELSE generation[k]
          /\ k # r.job => status'[k] = status[k]
      BY <1>5 DEF TypeOK
    <3> QED
      BY <2>1, <3>1, <3>2 DEF Follows
  <2> QED
    BY <1>3, <2>4, <2>5 DEF Moves
<1> QED
  BY <1>4, <1>5 DEF Claim

LEMMA PlanMoves == ASSUME TypeOK, ClaimsFit, NEW r \in runs, PlanComplete(r) PROVE Held /\ Moves
<1>1. /\ r \in Run /\ r.phase = "download" /\ ~r.known /\ FitsClaim(r)
      /\ UNCHANGED <<status, generation, leaseVars, request, worker>>
  BY DEF PlanComplete, TypeOK, ClaimsFit
<1>2. PICK planned \in SUBSET May[r.job], complete \in BOOLEAN :
         runs' = Replace(r, [r EXCEPT !.known = TRUE, !.complete = complete, !.planned = planned])
  BY DEF PlanComplete
<1> DEFINE s == [r EXCEPT !.known = TRUE, !.complete = complete, !.planned = planned]
<1>3. s.job = r.job /\ s.claim = r.claim /\ s.gen = r.gen /\ s.phase = r.phase /\ s.planned = planned
  BY <1>1 DEF Run
<1>4. Writes(s) \subseteq Writes(r)
  BY <1>1, <1>2, <1>3 DEF Writes, PlanKnown
<1>5. FitsClaim(s)'
  BY <1>1, <1>3 DEF FitsClaim
<1>6. \A t \in runs' : Known(t)
  BY <1>2, <1>3, <1>4, <1>5, RunGoesOn
<1>7. \A j \in JobId : Follows(j)
  BY <1>1, JobsFollow
<1>8. Held /\ WorkerGoesOn /\ (\A j \in JobId : RequestGoesOn(j)) /\ \A d \in Deleters : DeleteGoesOn(d)
  BY <1>1, AttemptsGoOn DEF leaseVars
<1> QED
  BY <1>6, <1>7, <1>8 DEF Moves

LEMMA FinishMoves == ASSUME TypeOK, ClaimsFit, NEW r \in runs, FinishRun(r) PROVE Held /\ Moves
<1> DEFINE s == [r EXCEPT !.phase = "exiting"]
<1>1. /\ r \in Run /\ r.job \in JobId /\ r.phase = "download" /\ FitsClaim(r)
      /\ UNCHANGED <<generation, leaseVars, request>>
  BY DEF FinishRun, TypeOK, ClaimsFit, Run
<1>2. /\ s.job = r.job /\ s.claim = r.claim /\ s.gen = r.gen /\ s.phase = "exiting"
      /\ s.known = r.known /\ Writes(s) = Writes(r)
  BY <1>1 DEF Run, Writes, PlanKnown
<1>3. \A j \in JobId : status'[j] = status[j] \/ (status'[j] = "ended" /\ j = r.job)
  <2>1. CASE UNCHANGED status
    BY <2>1
  <2>2. CASE status' = [status EXCEPT ![r.job] = IF @ \in {"paused", "gone"} THEN @ ELSE "ended"]
    BY <2>2 DEF TypeOK
  <2> QED
    BY <2>1, <2>2 DEF FinishRun
<1>4. FitsClaim(s)'
  BY <1>1, <1>2, <1>3 DEF FitsClaim
<1>5. \A j \in JobId : Follows(j)
  <2> SUFFICES ASSUME NEW j \in JobId PROVE Follows(j)
    OBVIOUS
  <2>1. generation[j] \in Nat /\ generation'[j] = generation[j]
    BY <1>1 DEF TypeOK
  <2> QED
    BY <1>3, <2>1 DEF Follows
<1>6. Held /\ (\A j \in JobId : RequestGoesOn(j)) /\ \A d \in Deleters : DeleteGoesOn(d)
  BY <1>1, AttemptsGoOn DEF leaseVars
<1>7. CASE runs' = Replace(r, s) /\ UNCHANGED worker
  BY <1>2, <1>4, <1>5, <1>6, <1>7, RunGoesOn, AttemptsGoOn DEF Moves
<1>8. CASE DispatchLocked(starting, Replace(r, s), worker, woken \/ status[r.job] # "paused")
  <2>1. /\ \A t \in runs' : t \in Replace(r, s) \/ Started(t)
        /\ worker' = worker \/ worker'.phase = "begin"
    BY <1>8, DispatchStarts
  <2>2. \A t \in runs' : Known(t)
    BY <1>2, <1>4, <2>1 DEF Known, Replace
  <2>3. WorkerGoesOn
    BY <2>1 DEF WorkerGoesOn
  <2> QED
    BY <1>5, <1>6, <2>2, <2>3 DEF Moves
<1> QED
  BY <1>7, <1>8 DEF FinishRun

LEMMA ReturnMoves == ASSUME TypeOK, NEW r \in runs, Return(r) PROVE Held /\ Moves
<1>1. /\ UNCHANGED <<status, generation, leaseVars, request>>
      /\ DispatchLocked(starting, runs \ {r}, worker, TRUE)
  BY DEF Return
<1>2. /\ Held /\ (\A j \in JobId : Follows(j) /\ RequestGoesOn(j))
      /\ \A d \in Deleters : DeleteGoesOn(d)
  BY <1>1, AttemptsGoOn, JobsFollow DEF leaseVars
<1> QED
  BY <1>1, <1>2, DispatchMoves

LEMMA WorkerStepMoves == ASSUME IInv, WorkerStep PROVE Held /\ Moves
<1>1. TypeOK
  BY DEF IInv
<1>2. UNCHANGED <<status, generation, leaseVars, request>>
  BY DEF WorkerStep, WorkerCapture, WorkerChecks, WorkerDecides, WorkerWakes, FinishDispatch, jobVars
<1>3. /\ Held /\ (\A j \in JobId : Follows(j) /\ RequestGoesOn(j))
      /\ \A d \in Deleters : DeleteGoesOn(d)
  BY <1>1, <1>2, AttemptsGoOn, JobsFollow DEF leaseVars
<1>4. worker.phase \in {"off", "begin", "collect", "checked", "parked"}
  BY <1>1 DEF TypeOK, Worker
<1>5. FinishDispatch => worker'.phase = "off"
  BY DEF FinishDispatch, WorkerAt
<1>6. CASE WorkerCapture
  <2>1. UNCHANGED <<jobVars, leaseVars>>
    BY <1>6 DEF WorkerCapture
  <2>2. Decision' = Decision
    BY <2>1, DecisionStays DEF leaseVars
  <2>3. WorkerGoesOn
    <3> DEFINE waits == {j \in JobId : status[j] = "queued" /\ BlockedByLease(j, LookupGeneration(j))}
    <3>1. waits = BlockedNow
      BY DEF BlockedNow
    <3>2. CASE worker' = [worker EXCEPT !.phase = "collect", !.blocked = waits]
      <4> HIDE DEF waits
      <4>1. worker'.blocked = waits
        BY <1>1, <3>2 DEF TypeOK, Worker
      <4> QED
        BY <2>2, <3>1, <4>1 DEF WorkerGoesOn
    <3> QED
      BY <1>5, <1>6, <3>2 DEF WorkerCapture, WorkerGoesOn
  <2> QED
    BY <1>3, <2>1, <2>3 DEF Moves, Known, jobVars
<1>7. CASE WorkerChecks
  <2>1. worker'.blocked = worker.blocked /\ worker.phase = "collect" /\ UNCHANGED runs
    BY <1>1, <1>7 DEF WorkerChecks, TypeOK, Worker, jobVars
  <2> QED
    BY <1>3, <2>1 DEF Moves, Known, WorkerGoesOn
<1>8. CASE WorkerDecides
  <2>1. worker.phase = "checked"
    BY <1>8 DEF WorkerDecides
  <2>2. worker'.phase \in {"off", "begin", "parked"}
    <3>1. /\ \A n, b : WorkerAt("begin", n, b).phase = "begin" /\ WorkerAt("parked", n, b).phase = "parked"
          /\ WorkerAt("off", 0, FALSE).phase = "off"
      BY DEF WorkerAt
    <3>2. CASE DispatchLocked(starting, runs, WorkerAt("off", 0, FALSE), TRUE)
      BY <3>1, <3>2, DispatchStarts
    <3>3. CASE Park
      BY <3>1, <3>3 DEF Park
    <3>4. CASE \/ worker' = WorkerAt("begin", worker.retries + 1, worker.last)
               \/ worker' = WorkerAt("begin", 0, TRUE)
      <4>1. worker'.phase = "begin"
        BY <3>4 DEF WorkerAt
      <4> QED
        BY <4>1
    <3>5. CASE FinishDispatch
      BY <1>5, <3>5
    <3> QED
      BY <1>8, <3>2, <3>3, <3>4, <3>5 DEF WorkerDecides
  <2>3. \A r \in runs' : r \in runs \/ Started(r)
    <3>1. CASE UNCHANGED jobVars
      BY <3>1 DEF jobVars
    <3>2. CASE DispatchLocked(starting, runs, WorkerAt("off", 0, FALSE), TRUE)
      BY <3>2, DispatchStarts
    <3>3. CASE Unchanged /\ Spawn(ToStart, starting, runs)
      BY <1>2, <2>1, <3>3, WorkerStarts
    <3> QED
      BY <1>8, <3>1, <3>2, <3>3 DEF WorkerDecides
  <2> QED
    BY <1>3, <2>2, <2>3 DEF Moves, Known, WorkerGoesOn
<1>9. CASE WorkerWakes
  <2>1. worker' = WorkerAt("begin", 0, FALSE) /\ UNCHANGED runs
    BY <1>9 DEF WorkerWakes, jobVars
  <2> QED
    BY <1>3, <2>1 DEF Moves, Known, WorkerGoesOn, WorkerAt
<1> QED
  BY <1>6, <1>7, <1>8, <1>9 DEF WorkerStep

\* The steps of leases and mutations that grant nothing.
LEMMA LeaseStepMoves ==
    ASSUME TypeOK, NEW d \in Deleters,
           \/ \E files \in Selections : AskForFiles(d, files)
           \/ BeginReservation(d) \/ Release(d)
    PROVE  Held /\ Moves
<1>1. NoLease.phase = "none" /\ lease[d] \in Lease
  BY DEF NoLease, TypeOK
<1>2. ASSUME NEW files \in Selections, AskForFiles(d, files) PROVE Held /\ Moves
  <2>1. [NoLease EXCEPT !.phase = "begin", !.scope = files].phase \in {"none", "begin"}
    BY DEF NoLease
  <2>2. Held /\ \A e \in Deleters : DeleteGoesOn(e)
    BY <1>2, <2>1, LeaseIsSet DEF AskForFiles
  <2>3. UNCHANGED <<jobVars, request, worker>>
    BY <1>2 DEF AskForFiles
  <2> QED
    BY <2>2, <2>3, AttemptsGoOn, JobsFollow DEF Moves, Known, jobVars
<1>3. ASSUME BeginReservation(d) PROVE Held /\ Moves
  <2>1. UNCHANGED <<jobVars, mutation, cleanup, request, worker>> /\ lease[d].phase = "begin"
    BY <1>3 DEF BeginReservation
  <2>2. Held /\ \A e \in Deleters : DeleteGoesOn(e)
    <3>1. CASE SetLease(d, NoLease)
      BY <1>1, <2>1, <3>1, LeaseIsSet
    <3>2. CASE SetLease(d, [lease[d] EXCEPT !.phase = "collect",
                                            !.conflict = GGUFConflict(lease[d].scope)])
      <4> DEFINE conflict == GGUFConflict(lease[d].scope)
      <4>1. conflict <=> GGUFConflict(lease[d].scope)
        OBVIOUS
      <4>2. \A e \in Deleters : lease'[e] = IF e = d THEN [lease[d] EXCEPT !.phase = "collect",
                                                                      !.conflict = conflict]
                                           ELSE lease[e]
        BY <3>2 DEF SetLease, TypeOK
      <4> HIDE DEF conflict
      <4>3. /\ lease'[d].phase = "collect" /\ lease'[d].scope = lease[d].scope
            /\ lease'[d].conflict = conflict
        BY <1>1, <4>2 DEF Lease
      <4>4. DeleteScopes(lease') = DeleteScopes(lease) /\ HFScopes(lease') = HFScopes(lease)
        BY <2>1, <4>2, <4>3 DEF DeleteScopes, HFScopes
      <4>5. Decision' = Decision
        BY <2>1, <4>4, DecisionStays
      <4>6. \A files : lease'[d].scope = files => (lease'[d].conflict <=> GGUFConflict(files))
        BY <4>1, <4>3
      <4>7. \A e \in Deleters : DeleteGoesOn(e)
        BY <4>2, <4>5, <4>6 DEF DeleteGoesOn
      <4>8. Held
        BY <2>1, <4>2, <4>3 DEF Held
      <4> QED
        BY <4>7, <4>8
    <3> QED
      BY <1>3, <3>1, <3>2 DEF BeginReservation
  <2> QED
    BY <2>1, <2>2, AttemptsGoOn, JobsFollow DEF Moves, Known, jobVars
<1>4. ASSUME Release(d) PROVE Held /\ Moves
  <2>1. /\ UNCHANGED <<status, generation, mutation, request>> /\ SetLease(d, NoLease)
        /\ DispatchLocked(starting, runs, worker, TRUE)
    BY <1>4 DEF Release, Dispatch
  <2>2. Held /\ \A e \in Deleters : DeleteGoesOn(e)
    BY <1>1, <2>1, LeaseIsSet
  <2> QED
    BY <2>1, <2>2, AttemptsGoOn, JobsFollow, DispatchMoves
<1> QED
  BY <1>2, <1>3, <1>4

LEMMA EndMutationMoves ==
    ASSUME TypeOK, NEW m \in Mutators, EndCacheMutation(m)
    PROVE  Held /\ Moves
<1>1. /\ UNCHANGED <<status, generation, lease, request>> /\ mutation' = [mutation EXCEPT ![m] = {}]
      /\ DispatchLocked(starting, runs, worker, TRUE)
  BY DEF EndCacheMutation, Dispatch
<1>2. Held
  BY <1>1 DEF Held, TypeOK
<1> QED
  BY <1>1, <1>2, AttemptsGoOn, JobsFollow, DispatchMoves

\* What grants a lease on files, one on a directory, or a mutation, keeps it apart from
\* the others and from the goroutines.
Grants == Moves /\ UNCHANGED jobVars /\ LeasesAreExclusive' /\ LeaseExcludesRuns'

\* Granting a lease: the new scope meets no other and no goroutine.
LEMMA GrantIsSafe ==
    ASSUME TypeOK, LeasesAreExclusive, LeaseExcludesRuns,
           NEW d \in Deleters, NEW new \in Lease, SetLease(d, new), UNCHANGED <<jobVars, mutation>>,
           \/ new.phase = "gguf" /\ \A r \in runs : ~Meets(Writes(r), new.scope)
           \/ new.phase = "hf" /\ \A r \in runs : ~Meets(Dir[r.job], new.scope),
           \A scope \in HFScopes(lease) \cup DeleteScopes(lease) : ~Meets(scope, new.scope),
           \A m \in Mutators : ~Meets(mutation[m], new.scope)
    PROVE  LeasesAreExclusive' /\ LeaseExcludesRuns'
<1>1. \A e \in Deleters : lease'[e] = IF e = d THEN new ELSE lease[e]
  BY DEF SetLease, TypeOK
<1>2. \A e \in Deleters \ {d} : lease[e].phase \in {"gguf", "hf"} => ~Meets(lease[e].scope, new.scope)
  BY DEF HFScopes, DeleteScopes
<1>3. LeasesAreExclusive'
  <2> SUFFICES ASSUME NEW e \in Deleters, lease'[e].phase \in {"gguf", "hf"}
               PROVE  /\ \A f \in Deleters \ {e} : lease'[f].phase \in {"gguf", "hf"} =>
                            ~Meets(lease'[e].scope, lease'[f].scope)
                      /\ \A m \in Mutators : ~Meets(lease'[e].scope, mutation[m])
    BY DEF LeasesAreExclusive, Meets
  <2>1. CASE e = d
    BY <1>1, <1>2, <2>1 DEF Meets
  <2>2. CASE e # d
    BY <1>1, <1>2, <2>2 DEF LeasesAreExclusive, Meets
  <2> QED
    BY <2>1, <2>2
<1>4. /\ \A scope \in DeleteScopes(lease)' :
           scope \in DeleteScopes(lease) \/ (scope = new.scope /\ new.phase = "gguf")
      /\ \A scope \in HFScopes(lease)' :
           scope \in HFScopes(lease) \/ (scope = new.scope /\ new.phase = "hf")
  BY <1>1 DEF DeleteScopes, HFScopes
<1>5. LeaseExcludesRuns'
  BY <1>4 DEF LeaseExcludesRuns, Writes, PlanKnown, Meets, jobVars
<1> QED
  BY <1>3, <1>5

\* A verdict that finds no conflict, on the current state.
LEMMA NoConflict ==
    ASSUME NEW files, ~GGUFConflict(files)
    PROVE  /\ \A r \in runs : ~Meets(Writes(r), files)
           /\ \A scope \in HFScopes(lease) \cup DeleteScopes(lease) : ~Meets(scope, files)
           /\ \A m \in Mutators : ~Meets(mutation[m], files)
<1>1. ASSUME NEW r \in runs PROVE ~Meets(Writes(r), files)
  <2>1. CASE PlanKnown(r)
    BY <2>1 DEF GGUFConflict, PlanKnown, Writes
  <2>2. CASE ~PlanKnown(r)
    <3>1. ~MayWriteDescriptor(r.job, r.claim, files)
      BY <2>2 DEF GGUFConflict
    <3>2. r \in ActivitiesOf(r.job, r.claim)
      BY DEF ActivitiesOf
    <3> QED
      BY <2>2, <3>1, <3>2 DEF MayWriteDescriptor, Writes
  <2> QED
    BY <2>1, <2>2
<1>2. \A scope \in HFScopes(lease) \cup DeleteScopes(lease) \cup MutationScopes : ~Meets(scope, files)
  BY DEF GGUFConflict, HasActiveBroadMutation
<1> QED
  BY <1>1, <1>2 DEF MutationScopes

LEMMA DecideReservationGrants ==
    ASSUME IInv, NEW d \in Deleters, DecideReservation(d)
    PROVE  Moves /\ (Held \/ Grants)
<1>1. /\ TypeOK /\ lease[d] \in Lease /\ lease[d].scope \in SUBSET Entries
      /\ lease[d].phase = "collect"
      /\ UNCHANGED <<jobVars, mutation, cleanup, request, worker>>
  BY DEF IInv, TypeOK, Lease, DecideReservation
<1>2. Moves \/ ~(\A e \in Deleters : DeleteGoesOn(e))
  BY <1>1, AttemptsGoOn, JobsFollow DEF Moves, Known, jobVars
<1>3. CASE /\ <<"delete", d>> \notin dirty /\ ~lease[d].conflict
           /\ SetLease(d, [NoLease EXCEPT !.phase = "gguf", !.scope = lease[d].scope])
  <2> DEFINE new == [NoLease EXCEPT !.phase = "gguf", !.scope = lease[d].scope]
  <2>1. new \in Lease /\ new.phase = "gguf" /\ new.scope = lease[d].scope
    <3>1. new \in Lease
      BY <1>1, LeaseTypes DEF NoLease, Lease
    <3>2. new.phase = "gguf"
      BY DEF NoLease
    <3>3. new.scope = lease[d].scope
      BY DEF NoLease
    <3> QED
      BY <3>1, <3>2, <3>3
  <2>2. ~GGUFConflict(lease[d].scope)
    <3>1. DeleteVerdict(d, lease[d].scope)
      BY <1>1 DEF IInv, VerdictsHold
    <3> QED
      BY <1>1, <1>3, <3>1 DEF DeleteVerdict
  <2>3. LeasesAreExclusive' /\ LeaseExcludesRuns'
    BY <1>1, <1>3, <2>1, <2>2, NoConflict, GrantIsSafe DEF IInv
  <2>4. \A e \in Deleters : lease'[e] = IF e = d THEN new ELSE lease[e]
    BY <1>1, <1>3 DEF SetLease, TypeOK
  <2>5. \A e \in Deleters : DeleteGoesOn(e)
    BY <2>1, <2>4 DEF DeleteGoesOn
  <2> QED
    BY <1>1, <1>2, <2>3, <2>5 DEF Grants
<1>4. ASSUME NEW new, SetLease(d, new), new.phase \in {"none", "begin"}
      PROVE  Moves /\ Held
  BY <1>1, <1>2, <1>4, LeaseIsSet
<1>5. /\ NoLease.phase = "none"
      /\ [NoLease EXCEPT !.phase = "begin", !.scope = lease[d].scope,
                         !.tries = lease[d].tries + 1].phase = "begin"
  BY DEF NoLease
<1> QED
  BY <1>3, <1>4, <1>5 DEF DecideReservation

LEMMA ReserveHFGrants ==
    ASSUME IInv, NEW d \in Deleters, NEW dir \in Dirs, ReserveSelectedHF(d, dir)
    PROVE  Grants
<1> DEFINE new == [NoLease EXCEPT !.phase = "hf", !.scope = dir]
<1>1. /\ TypeOK /\ SetLease(d, new) /\ ~HFConflict(dir) /\ new \in Lease
      /\ new.phase = "hf" /\ new.scope = dir
      /\ UNCHANGED <<jobVars, mutation, cleanup, request, worker>>
  BY LeaseTypes DEF IInv, ReserveSelectedHF, NoLease, Lease
<1>2. /\ \A r \in runs : ~Meets(Dir[r.job], dir)
      /\ \A scope \in HFScopes(lease) \cup DeleteScopes(lease) : ~Meets(scope, dir)
      /\ \A m \in Mutators : ~Meets(mutation[m], dir)
  BY <1>1 DEF HFConflict, MutationScopes
<1>3. LeasesAreExclusive' /\ LeaseExcludesRuns'
  BY <1>1, <1>2, GrantIsSafe DEF IInv
<1>4. \A e \in Deleters : lease'[e] = IF e = d THEN new ELSE lease[e]
  BY <1>1 DEF SetLease, TypeOK
<1>5. \A e \in Deleters : DeleteGoesOn(e)
  BY <1>1, <1>4 DEF DeleteGoesOn
<1> QED
  BY <1>1, <1>3, <1>5, AttemptsGoOn, JobsFollow DEF Grants, Moves, Known, jobVars

LEMMA BeginMutationGrants ==
    ASSUME IInv, NEW m \in Mutators, NEW dir \in Dirs, BeginCacheMutation(m, dir)
    PROVE  Grants
<1>1. /\ TypeOK /\ mutation' = [mutation EXCEPT ![m] = dir]
      /\ \A scope \in DeleteScopes(lease) \cup HFScopes(lease) : ~Meets(scope, dir)
      /\ UNCHANGED <<jobVars, lease, request, worker>>
  BY DEF IInv, BeginCacheMutation
<1>2. \A n \in Mutators : mutation'[n] = IF n = m THEN dir ELSE mutation[n]
  BY <1>1 DEF TypeOK
<1>3. LeasesAreExclusive'
  <2> SUFFICES ASSUME NEW d \in Deleters, lease[d].phase \in {"gguf", "hf"}
               PROVE  /\ \A e \in Deleters \ {d} : lease[e].phase \in {"gguf", "hf"} =>
                            ~Meets(lease[d].scope, lease[e].scope)
                      /\ \A n \in Mutators : ~Meets(lease[d].scope, mutation'[n])
    BY <1>1 DEF LeasesAreExclusive, Meets
  <2>1. ~Meets(lease[d].scope, dir)
    BY <1>1 DEF DeleteScopes, HFScopes
  <2> QED
    BY <1>2, <2>1 DEF IInv, LeasesAreExclusive
<1>4. LeaseExcludesRuns'
  BY <1>1 DEF IInv, LeaseExcludesRuns, DeleteScopes, HFScopes, Writes, PlanKnown, Meets, jobVars
<1> QED
  BY <1>1, <1>3, <1>4, AttemptsGoOn, JobsFollow DEF Grants, Moves, Known, jobVars

LEMMA GrantsKeep ==
    ASSUME IInv, Grants
    PROVE  ClaimsFit' /\ NewHasNoRuns' /\ LeasesAreExclusive' /\ LeaseExcludesRuns'
  BY DEF IInv, Grants, ClaimsFit, FitsClaim, NewHasNoRuns, jobVars
-----------------------------------------------------------------------------
(* The theorems. *)

LEMMA SafeStep ==
    ASSUME IInv, TypeOK', Next
    PROVE  ClaimsFit' /\ NewHasNoRuns' /\ VerdictsHold' /\ LeasesAreExclusive' /\ LeaseExcludesRuns'
<1>1. Moves /\ (Held \/ Grants)
  <2>1. TypeOK /\ ClaimsFit
    BY DEF IInv
  <2>2. CASE JobStep
    BY <2>1, <2>2, JobStepMoves
  <2>3. CASE RunStep
    BY <2>1, <2>3, ClaimMoves, PlanMoves, FinishMoves, ReturnMoves DEF RunStep
  <2>4. CASE LeaseStep
    BY <2>1, <2>4, LeaseStepMoves, DecideReservationGrants, ReserveHFGrants,
       BeginMutationGrants, EndMutationMoves DEF LeaseStep, Grants
  <2>5. CASE WorkerStep
    BY <2>5, WorkerStepMoves
  <2> QED
    BY <2>2, <2>3, <2>4, <2>5 DEF Next
<1>2. ClaimsFit' /\ NewHasNoRuns' /\ LeasesAreExclusive' /\ LeaseExcludesRuns'
  BY <1>1, HeldKeeps, GrantsKeep DEF Moves
<1>3. VerdictsHold'
  BY <1>1, VerdictsKeep DEF IInv, Next
<1> QED
  BY <1>2, <1>3

LEMMA TypeInit == ASSUME Init PROVE TypeOK
<1>1. worker \in Worker
  <2>1. WorkerAt("off", 0, FALSE) \in Worker
    BY ONLY DEF WorkerAt, Worker
  <2> QED
    BY <2>1 DEF Init
<1>2. /\ status \in [JobId -> Status] /\ starting \subseteq JobId
      /\ generation \in [JobId -> Nat] /\ maxActive \in Limits /\ runs \subseteq Run
  BY DEF Init, Status
<1>3. /\ lease \in [Deleters -> Lease] /\ mutation \in [Mutators -> SUBSET Entries]
      /\ cleanup \in [JobId -> {"none", "due", "open"}] /\ request \in [JobId -> Request]
  BY LeaseTypes DEF Init
<1>4. fenced \in BOOLEAN /\ stopping \in BOOLEAN /\ woken \in BOOLEAN
  BY DEF Init
<1>5. /\ requeues \in 0..MaxRequeues /\ stops \in 0..MaxStops /\ leases \in 0..MaxLeases
      /\ probeFailures \in 0..MaxProbeFailures
  BY LeaseTypes DEF Init
<1> QED
  BY <1>1, <1>2, <1>3, <1>4, <1>5 DEF TypeOK

\* A step of nobody.
LEMMA StutterKeeps ==
    ASSUME IInv, UNCHANGED vars
    PROVE  IInv'
<1>1. UNCHANGED <<jobVars, leaseVars, request, worker, woken, dirty, bounds>>
  BY DEF vars
<1>2. /\ UNCHANGED <<status, starting, generation, maxActive, fenced, stopping, runs>>
      /\ UNCHANGED <<lease, mutation, cleanup>>
  BY <1>1 DEF jobVars, leaseVars
<1>3. TypeOK'
  BY TypeStep DEF IInv
<1>4. Decision' = Decision
  BY <1>1, <1>2, DecisionStays
<1>5. (\A j \in JobId : Follows(j)) /\ Held
  BY <1>1, <1>2, JobsFollow, AttemptsGoOn DEF IInv
<1>6. ClaimsFit' /\ NewHasNoRuns' /\ LeasesAreExclusive' /\ LeaseExcludesRuns'
  BY <1>2, <1>3, <1>5, HeldKeeps DEF Known
<1>7. ASSUME NEW d \in Deleters, NEW files \in SUBSET Entries PROVE DeleteVerdict(d, files)'
  BY <1>1, <1>2, <1>4, DecisionDecides DEF IInv, VerdictsHold, DeleteVerdict
<1>8. ASSUME NEW j \in JobId PROVE RequestVerdict(j)'
  <2> SUFFICES ASSUME MayBeQueued(j)', request[j].phase = "collect", <<"request", j>> \notin dirty
               PROVE  request[j].blocked <=> BlockedNext(j)'
    BY <1>1 DEF RequestVerdict
  <2> QED
    BY <1>4, <1>5, NextStays DEF IInv, VerdictsHold, RequestVerdict
<1>9. WorkerVerdict'
  BY <1>1, <1>4, DecisionDecides DEF IInv, VerdictsHold, WorkerVerdict
<1> QED
  BY <1>3, <1>6, <1>7, <1>8, <1>9 DEF IInv, VerdictsHold

\* Every variable keeps its type.
THEOREM TypeCorrect == Spec => []TypeOK
  BY TypeInit, TypeStep, PTL DEF Spec

\* The inductive invariant: a verdict on a state that has not changed since is the
\* verdict on the current one, and no goroutine has a plan under a generation that its
\* queued job has yet to claim.
THEOREM LeaseInvariant == Spec => []IInv
<1>1. Init => IInv
  <2> SUFFICES ASSUME Init PROVE IInv
    OBVIOUS
  <2>1. \A d \in Deleters : lease[d].phase = "none"
    BY DEF Init, NoLease
  <2>2. \A j \in JobId : request[j].phase = "none"
    BY DEF Init, NoRequest
  <2>3. worker.phase = "off" /\ runs = {}
    BY DEF Init, WorkerAt
  <2>4. VerdictsHold
    BY <2>1, <2>2, <2>3 DEF VerdictsHold, DeleteVerdict, RequestVerdict, WorkerVerdict
  <2>5. LeasesAreExclusive /\ LeaseExcludesRuns
    BY <2>1, <2>3 DEF LeasesAreExclusive, LeaseExcludesRuns
  <2> QED
    BY <2>3, <2>4, <2>5, TypeInit DEF IInv, ClaimsFit, NewHasNoRuns
<1>2. IInv /\ [Next]_vars => IInv'
  <2> SUFFICES ASSUME IInv, [Next]_vars PROVE IInv'
    OBVIOUS
  <2>1. TypeOK'
    BY TypeStep DEF IInv
  <2>2. CASE Next
    BY <2>1, <2>2, SafeStep DEF IInv
  <2>3. CASE UNCHANGED vars
    BY <2>3, StutterKeeps
  <2> QED
    BY <2>2, <2>3
<1> QED
  BY <1>1, <1>2, PTL DEF Spec

\* No two deletes, and no delete and cache mutation, hold the same file, and no download
\* goroutine may write a file that a delete holds.
THEOREM LeasesExcludeAlways == Spec => []LeasesExclude
<1>1. IInv => LeasesExclude
  BY DEF IInv, LeasesExclude
<1> QED
  BY <1>1, LeaseInvariant, PTL

\* A request queues a job only while no delete holds a file the job may write.
THEOREM AdmittedAroundLeasesAlways == Spec => AdmittedAroundLeases
<1> DEFINE Admitted ==
      \A j \in JobId :
         (status'[j] = "queued" /\ status[j] \in {"none", "paused", "ended"}) =>
         /\ \A scope \in DeleteScopes(lease) : ~Meets(May[j], scope)
         /\ \A scope \in HFScopes(lease) : ~Meets(Dir[j], scope)
<1>1. IInv /\ Next => Admitted
  <2> SUFFICES ASSUME IInv, Next, NEW j \in JobId, status'[j] = "queued",
                      status[j] \in {"none", "paused", "ended"}
               PROVE  /\ \A scope \in DeleteScopes(lease) : ~Meets(May[j], scope)
                      /\ \A scope \in HFScopes(lease) : ~Meets(Dir[j], scope)
    OBVIOUS
  <2>1. \A k \in JobId : \A to : status' = [status EXCEPT ![k] = to] =>
           k = j /\ to = "queued"
    <3>1. status \in [JobId -> Status]
      BY DEF IInv, TypeOK
    <3> QED
      BY <3>1
  <2>2. (BeginAdmission(j) \/ DecideAdmission(j)) /\ Enqueue(j)
    <3>1. CASE JobStep
      <4>1. UNCHANGED status \/ \E k \in JobId : (BeginAdmission(k) \/ DecideAdmission(k)) /\ Enqueue(k)
        <5>1. ASSUME NEW k \in JobId, NEW to \in {"ended", "paused", "gone"}, SetStatus(k, to)
              PROVE  FALSE
          BY <2>1, <5>1 DEF SetStatus
        <5>2. ASSUME NEW limit \in Limits, UpdateConfig(limit) PROVE FALSE
          BY <5>2 DEF UpdateConfig
        <5>3. Close => FALSE
          BY DEF Close
        <5>4. ASSUME NEW k \in JobId, BeginAdmission(k)
              PROVE  UNCHANGED status \/ Enqueue(k)
          BY <5>4 DEF BeginAdmission, Refuse, jobVars
        <5>5. ASSUME NEW k \in JobId, DecideAdmission(k)
              PROVE  UNCHANGED status \/ Enqueue(k)
          BY <5>5 DEF DecideAdmission, Refuse, jobVars
        <5>6. \A k \in JobId : AskForJob(k) \/ BeginCleanup(k) \/ EndCleanup(k) => UNCHANGED status
          BY DEF AskForJob, BeginCleanup, EndCleanup, jobVars
        <5>7. Quiesce => UNCHANGED status
          BY DEF Quiesce
        <5>8. \A k \in JobId : ~CancelJob(k) /\ ~PauseJob(k) /\ ~DismissJob(k)
          BY <5>1 DEF CancelJob, PauseJob, DismissJob
        <5> QED
          BY <3>1, <5>2, <5>3, <5>4, <5>5, <5>6, <5>7, <5>8 DEF JobStep
      <4>2. status' # status
        BY DEF IInv
      <4>3. PICK k \in JobId : (BeginAdmission(k) \/ DecideAdmission(k)) /\ Enqueue(k)
        BY <4>1, <4>2
      <4> QED
        BY <2>1, <4>3 DEF Enqueue
    <3>2. ASSUME NEW r \in runs, Claim(r) \/ PlanComplete(r) \/ FinishRun(r) \/ Return(r) PROVE FALSE
      <4>1. r.job \in JobId
        BY DEF IInv, TypeOK, Run
      <4>2. UNCHANGED status \/ \E to \in {"running", "ended", "gone", "paused"} :
               status' = [status EXCEPT ![r.job] = to]
        BY <3>2 DEF Claim, PlanComplete, FinishRun, Return
      <4> QED
        BY <2>1, <4>1, <4>2
    <3>3. LeaseStep \/ WorkerStep => UNCHANGED status
      BY DEF LeaseStep, WorkerStep, AskForFiles, ReserveSelectedHF, BeginReservation,
             DecideReservation, Release, BeginCacheMutation, EndCacheMutation, WorkerCapture,
             WorkerChecks, WorkerDecides, WorkerWakes, jobVars
    <3> QED
      BY <3>1, <3>2, <3>3 DEF Next, RunStep
  <2>3. ~UNCHANGED jobVars
    BY DEF jobVars
  <2>4. CASE BeginAdmission(j)
    <3>1. DeleteScopes(lease) = {} /\ ~BlockedByHF(lease, j)
      BY <2>3, <2>4 DEF BeginAdmission, Refuse
    <3> QED
      BY <3>1 DEF BlockedByHF, Meets
  <2>5. CASE DecideAdmission(j)
    <3>1. request[j].phase = "collect" /\ <<"request", j>> \notin dirty /\ ~request[j].blocked
      BY <2>3, <2>5 DEF DecideAdmission, Refuse
    <3>2. ~BlockedByLease(j, NextGeneration(j))
      BY <3>1 DEF IInv, VerdictsHold, RequestVerdict, MayBeQueued, BlockedNext
    <3>3. ASSUME NEW r \in runs, r.job = j, r.claim = NextGeneration(j) PROVE ~PlanKnown(r)
      <4>1. FitsClaim(r) /\ r \in Run /\ generation[j] \in Nat /\ status[j] # "none"
        BY <3>3 DEF IInv, ClaimsFit, NewHasNoRuns, TypeOK
      <4>2. r.gen \in Nat /\ r.claim = generation[j] + 1
        BY <3>3, <4>1 DEF Run, NextGeneration
      <4>3. r.gen = 0
        BY <3>3, <4>1, <4>2 DEF FitsClaim
      <4> QED
        BY <4>1, <4>3 DEF FitsClaim, PlanKnown
    <3> QED
      BY <3>2, <3>3, FiltersDecide
  <2> QED
    BY <2>2, <2>4, <2>5
<1> QED
  BY <1>1, LeaseInvariant, PTL DEF Spec, AdmittedAroundLeases
=============================================================================
