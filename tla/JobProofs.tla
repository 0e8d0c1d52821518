------------------------------ MODULE JobProofs ------------------------------
(***************************************************************************)
(* What TLAPS proves about JobManager, for any number of jobs, any set of  *)
(* requests and limits, and any number of restarts; and then about the     *)
(* manager with its state file (JobPersistence), for any number of saves,  *)
(* of failures of them, and of restarts.                                   *)
(***************************************************************************)
EXTENDS JobPersistence, FiniteSetTheorems, WellFoundedInduction, TLAPS

---------------------------------------------------------------------------
(* Facts about the operators that the actions are built from *)

\* Only queued, listed jobs without a starting flag are started.
LEMMA ToStartRange ==
    ASSUME NEW js, NEW stat, NEW strt, NEW limit
    PROVE  ToStart(js, stat, strt, limit) \subseteq {j \in js \ strt : stat[j] = "queued"}
  BY DEF ToStart

\* A spawned run is a run.
LEMMA SpawnedRunType ==
    ASSUME NEW j \in JobId
    PROVE  /\ SpawnedRun(j) \in Run
           /\ SpawnedRun(j).job = j
           /\ SpawnedRun(j).phase = "spawned"
  BY DEF SpawnedRun, Run

\* Cancelling a run changes nothing but the cancelled flag of that run, while
\* it is downloading.
LEMMA CancelRunEffect ==
    ASSUME NEW rs \in SUBSET Run, NEW j, NEW g, NEW s \in CancelRun(rs, j, g)
    PROVE  \E r \in rs :
              /\ s.job = r.job /\ s.gen = r.gen /\ s.phase = r.phase
              /\ s \in Run
              /\ r.phase # "download" => s = r
              /\ r.cancelled => s.cancelled
              /\ s.job = j /\ s.gen = g /\ s.phase = "download" => s.cancelled
              /\ ~(s.job = j /\ s.gen = g) => s = r
  <1>1. PICK r \in rs : s = IF r.job = j /\ r.gen = g /\ r.phase = "download"
                            THEN [r EXCEPT !.cancelled = TRUE] ELSE r
    BY DEF CancelRun
  <1>2. r \in Run
    OBVIOUS
  <1>3. CASE r.job = j /\ r.gen = g /\ r.phase = "download"
    <2>1. s = [r EXCEPT !.cancelled = TRUE]
      BY <1>1, <1>3
    <2>2. /\ s.job = r.job /\ s.gen = r.gen /\ s.phase = r.phase
          /\ s.cancelled = TRUE /\ s \in Run
      BY <1>2, <2>1 DEF Run
    <2>3. QED
      BY <2>2, <1>3
  <1>4. CASE ~(r.job = j /\ r.gen = g /\ r.phase = "download")
    BY <1>1, <1>2, <1>4
  <1>5. QED
    BY <1>3, <1>4

\* Cancelling neither adds nor removes a run.
LEMMA CancelRunImage ==
    ASSUME NEW rs \in SUBSET Run, NEW j, NEW g, NEW r \in rs
    PROVE  \E s \in CancelRun(rs, j, g) :
              s.job = r.job /\ s.gen = r.gen /\ s.phase = r.phase
  <1> DEFINE s == IF r.job = j /\ r.gen = g /\ r.phase = "download"
                  THEN [r EXCEPT !.cancelled = TRUE] ELSE r
  <1>1. s \in CancelRun(rs, j, g)
    BY DEF CancelRun
  <1>2. s.job = r.job /\ s.gen = r.gen /\ s.phase = r.phase
    BY DEF Run
  <1>3. QED
    BY <1>1, <1>2

\* dispatchLocked starts some queued jobs and adds a spawned run for each.
LEMMA DispatchEffect ==
    ASSUME NEW strt \in SUBSET JobId, NEW rs \in SUBSET Run,
           jobs' \in SUBSET JobId, DispatchLocked(strt, rs)
    PROVE  \E go \in SUBSET JobId :
              /\ \A j \in go : status'[j] = "queued" /\ j \in jobs' /\ j \notin strt
              /\ starting' = strt \cup go
              /\ runs' = rs \cup {SpawnedRun(j) : j \in go}
              /\ starting' \in SUBSET JobId
              /\ runs' \in SUBSET Run
  <1> DEFINE go == ToStart(jobs', status', strt, EffectiveMaxActive(maxActive'))
  <1>1. starting' = strt \cup go /\ runs' = rs \cup {SpawnedRun(j) : j \in go}
    BY DEF DispatchLocked
  <1>2. go \subseteq {j \in jobs' \ strt : status'[j] = "queued"}
    BY ToStartRange
  <1> HIDE DEF go
  <1>3. go \in SUBSET JobId
    BY <1>2
  <1>4. {SpawnedRun(j) : j \in go} \subseteq Run
    BY <1>3, SpawnedRunType
  <1>5. QED
    BY <1>1, <1>2, <1>3, <1>4

\* A run that moves on keeps its identity; the others are untouched.
LEMMA InPhaseEffect ==
    ASSUME NEW r \in runs, runs \in SUBSET Run, NEW p \in {"saving", "exiting"},
           NEW s \in InPhase(r, p)
    PROVE  /\ s \in Run
           /\ \/ s \in runs /\ s # r
              \/ s.job = r.job /\ s.gen = r.gen /\ s.phase = p
  BY DEF InPhase, Run

\* Sets of jobs are finite.
LEMMA JobSetsFinite ==
    ASSUME NEW S \in SUBSET JobId
    PROVE  IsFiniteSet(S) /\ Cardinality(S) \in Nat
  <1>1. IsFiniteSet(JobId)
    BY FS_Interval, ConstantsAssumption DEF JobId
  <1>2. QED
    BY <1>1, FS_Subset, FS_CardinalityType

---------------------------------------------------------------------------
(* Type correctness *)

\* Every step keeps the variables in their types.
LEMMA TypeStep == TypeOK /\ [Next]_vars => TypeOK'
  <1> SUFFICES ASSUME TypeOK, [Next]_vars PROVE TypeOK'
    OBVIOUS
  <1> USE DEF TypeOK
  <1>1. ASSUME NEW req \in Requests, CreateJob(req) PROVE TypeOK'
    <2>1. jobs' \in SUBSET JobId /\ DispatchLocked(starting, runs)
      BY <1>1 DEF CreateJob
    <2>2. starting' \in SUBSET JobId /\ runs' \in SUBSET Run
      BY <2>1, DispatchEffect
    <2>3. QED
      BY <1>1, <2>1, <2>2 DEF CreateJob, JobId, Status, shutVars
  <1>2. ASSUME NEW j \in JobId, NEW from, NEW to \in Status, Stop(j, from, to) PROVE TypeOK'
    <2>1. runs' \in SUBSET Run
      BY <1>2, CancelRunEffect DEF Stop, CancelCurrent
    <2>2. QED
      BY <1>2, <2>1 DEF Stop
  <1>3. ASSUME NEW j \in JobId, NEW from, RestartJob(j, from) PROVE TypeOK'
    <2>1. jobs' \in SUBSET JobId /\ DispatchLocked(starting, runs)
      BY <1>3 DEF RestartJob
    <2>2. starting' \in SUBSET JobId /\ runs' \in SUBSET Run
      BY <2>1, DispatchEffect
    <2>3. QED
      BY <1>3, <2>2 DEF RestartJob, Requeue, Status, shutVars
  <1>4. ASSUME NEW j \in JobId, DismissJob(j) PROVE TypeOK'
    BY <1>4 DEF DismissJob, RemoveJob, shutVars
  <1>5. ASSUME NEW j \in JobId, DeleteJob(j) PROVE TypeOK'
    <2>1. runs' \in SUBSET Run
      BY <1>5, CancelRunEffect DEF DeleteJob, CancelCurrent
    <2>2. QED
      BY <1>5, <2>1 DEF DeleteJob, RemoveJob, shutVars
  <1>6. ASSUME NEW setting \in Limits, UpdateConfig(setting) PROVE TypeOK'
    <2> DEFINE excess == Excess(EffectiveMaxActive(setting))
    <2>1. excess \in SUBSET JobId
      BY DEF Excess
    <2>2. Cardinality(excess) \in Nat
      BY <2>1, JobSetsFinite
    <2> HIDE DEF excess
    <2>3. /\ requeues' = requeues + Cardinality(excess)
          /\ maxActive' = setting
          /\ generation' = [j \in JobId |-> IF j \in excess THEN generation[j] + 1
                                                            ELSE generation[j]]
          /\ status' = [j \in JobId |-> IF j \in excess THEN "queued" ELSE status[j]]
          /\ pendingCancels' = pendingCancels \cup {<<j, cancelGen[j]>> : j \in excess}
          /\ UNCHANGED <<nextId, jobs, request, cancelGen, startedBefore, fenced>>
          /\ DispatchLocked(starting \ excess, runs)
          /\ UNCHANGED <<saveTails, closing>>
      BY <1>6 DEF UpdateConfig, Requeue, excess
    <2>4. starting' \in SUBSET JobId /\ runs' \in SUBSET Run
      BY <2>3, DispatchEffect
    <2>5. pendingCancels' \subseteq JobId \X Nat
      BY <2>1, <2>3
    <2>6. generation' \in [JobId -> Nat] /\ status' \in [JobId -> Status \cup {Absent}]
      BY <2>3 DEF Status
    <2>7. QED
      BY <2>2, <2>3, <2>4, <2>5, <2>6
  <1>7. ASSUME NEW r \in runs, Claim(r) PROVE TypeOK'
    <2>1. r \in Run
      OBVIOUS
    <2>2. CASE fenced
      <3>1. runs' \in SUBSET Run
        BY <1>7, <2>2, InPhaseEffect DEF Claim
      <3>2. QED
        BY <1>7, <2>2, <3>1 DEF Claim, shutVars
    <2>3. CASE ~fenced
      <3> DEFINE gen == generation[r.job] + 1
                 next == [r EXCEPT !.gen = gen, !.phase = "download"]
                 others == {j \in JobId \ {r.job} : status[j] = "running"}
      <3>1. r.job \in JobId /\ gen \in Nat
        BY <2>1 DEF Run
      <3>2. next \in Run
        BY <2>1, <3>1 DEF Run
      <3> HIDE DEF next
      <3>3. runs' = (runs \ {r}) \cup {next}
        BY <1>7, <2>3 DEF Claim, next
      <3>4. startedBefore' \subseteq JobId \X JobId
        <4>1. startedBefore' = (startedBefore \cap (others \X others))
                                  \cup (others \X {r.job})
          BY <1>7, <2>3 DEF Claim
        <4>2. QED
          BY <4>1, <3>1
      <3>5. QED
        BY <1>7, <2>3, <3>1, <3>2, <3>3, <3>4 DEF Claim, Status, shutVars
    <2>4. QED
      BY <2>2, <2>3
  <1>8. ASSUME NEW r \in runs, NEW success \in BOOLEAN, Finish(r, success) PROVE TypeOK'
    <2>1. r \in Run /\ r.job \in JobId
      BY DEF Run
    <2>2. \A p \in {"saving", "exiting"} : InPhase(r, p) \in SUBSET Run
      BY InPhaseEffect
    <2>3. jobs' \in SUBSET JobId
      BY <1>8 DEF Finish
    <2>4. starting' \in SUBSET JobId /\ runs' \in SUBSET Run
      BY <1>8, <2>2, <2>3, DispatchEffect DEF Finish
    <2>5. Outcome(r, success) \in Status
      BY <2>1 DEF Outcome, Status, Terminal, Run
    <2>6. status' \in [JobId -> Status \cup {Absent}]
      BY <1>8, <2>1, <2>5 DEF Finish
    <2>7. QED
      BY <1>8, <2>4, <2>6 DEF Finish, shutVars
  <1>9. ASSUME NEW r \in runs, Exit(r) PROVE TypeOK'
    <2>1. jobs' \in SUBSET JobId /\ DispatchLocked(starting, runs \ {r})
      BY <1>9 DEF Exit
    <2>2. starting' \in SUBSET JobId /\ runs' \in SUBSET Run
      BY <2>1, DispatchEffect
    <2>3. QED
      BY <1>9, <2>2 DEF Exit, shutVars
  <1>10. ASSUME NEW c \in pendingCancels, IssueCancel(c) PROVE TypeOK'
    <2>1. runs' \in SUBSET Run
      BY <1>10, CancelRunEffect DEF IssueCancel
    <2>2. QED
      BY <1>10, <2>1 DEF IssueCancel
  <1>11. ASSUME NEW j \in JobId, StopSaved(j) PROVE TypeOK'
    BY <1>11 DEF StopSaved, schedVars
  <1>12. ASSUME NEW r \in runs, RunSaved(r) PROVE TypeOK'
    <2>1. runs' \in SUBSET Run
      BY <1>12, InPhaseEffect DEF RunSaved
    <2>2. QED
      BY <1>12, <2>1 DEF RunSaved, shutVars
  <1>13. CASE FinishClose
    BY <1>13 DEF FinishClose, schedVars
  <1>14. CASE Quiesce
    BY <1>14 DEF Quiesce, shutVars
  <1>15. CASE Close
    <2>1. pendingCancels' \subseteq JobId \X Nat
      BY <1>15 DEF Close
    <2>2. status' \in [JobId -> Status \cup {Absent}]
      BY <1>15 DEF Close, Status, Terminal
    <2>3. QED
      BY <1>15, <2>1, <2>2 DEF Close
  <1>16. CASE UNCHANGED vars
    BY <1>16 DEF vars, schedVars, shutVars
  <1>17. QED
    <2>1. "cancelled" \in Status /\ "paused" \in Status
      BY DEF Status, Terminal
    <2>2. CASE UserStep
      BY <2>1, <2>2, <1>1, <1>2, <1>3, <1>4, <1>5, <1>6
      DEF UserStep, CancelJob, PauseJob, ResumeJob, RetryJob
    <2>3. ASSUME NEW r \in runs, RunStep(r) PROVE TypeOK'
      BY <2>3, <1>7, <1>8, <1>9 DEF RunStep
    <2>4. CASE Issue
      BY <2>4, <1>10 DEF Issue
    <2>5. CASE SaveReturns
      BY <2>5, <1>11, <1>12, <1>13 DEF SaveReturns
    <2>6. QED
      BY <2>2, <2>3, <2>4, <2>5, <1>14, <1>15, <1>16 DEF Next

\* The variables of the job manager keep their types in every behaviour.
THEOREM TypeCorrect == Spec => []TypeOK
  <1>1. Init => TypeOK
    <2> SUFFICES ASSUME Init PROVE TypeOK
      OBVIOUS
    <2>1. /\ nextId \in Nat /\ requeues \in Nat /\ maxActive \in Limits
          /\ jobs \subseteq JobId /\ starting \subseteq JobId /\ runs \subseteq Run
          /\ startedBefore \subseteq JobId \X JobId /\ pendingCancels \subseteq JobId \X Nat
          /\ fenced \in BOOLEAN /\ closing \in {"open", "draining", "closed"}
      BY DEF Init
    <2>2. /\ request \in [JobId -> Requests \cup {Absent}]
          /\ status \in [JobId -> Status \cup {Absent}]
      BY DEF Init
    <2>3. /\ generation \in [JobId -> Nat]
          /\ cancelGen \in [JobId -> Nat]
          /\ saveTails \in [JobId -> Nat]
      BY DEF Init
    <2>4. QED
      BY <2>1, <2>2, <2>3 DEF TypeOK
  <1>2. QED
    BY <1>1, TypeStep, PTL DEF Spec

---------------------------------------------------------------------------
(***************************************************************************)
(* The inductive invariant.  RunInv restates it, without Unborn, over any  *)
(* goroutines rs and job fields, so that a section of the code can be      *)
(* treated as a change of the fields followed by a dispatch.               *)
(***************************************************************************)
RunInv(rs, strt, st, gen, cg, pend) ==
    /\ \A r \in rs : r.phase = "spawned" => r = SpawnedRun(r.job)
    /\ \A r \in rs : r.phase = "download" =>
          r.gen \in 1 .. gen[r.job] /\ (r.gen = gen[r.job] => cg[r.job] = r.gen)
    /\ \A r, s \in rs : r.phase = "download" /\ s.phase = "download"
                           /\ r.job = s.job /\ r.gen = s.gen => r = s
    /\ \A j \in JobId : j \in strt <=> SpawnedRun(j) \in rs
    /\ \A j \in strt : st[j] # "running"
    /\ \A j \in JobId : st[j] = "running" =>
          /\ \E r \in rs : r.job = j /\ r.phase = "download" /\ r.gen = gen[j]
          /\ cg[j] = gen[j]
    /\ \A r \in rs : r.phase = "download" /\ ~r.cancelled /\ <<r.job, r.gen>> \notin pend
          => st[r.job] = "running" /\ gen[r.job] = r.gen
    /\ \A r \in rs : r.phase = "download" /\ gen[r.job] = r.gen /\ st[r.job] = "cancelled"
          => r.cancelled

Fields(rs, strt, st, gen, cg, pend) ==
    /\ rs \in SUBSET Run /\ strt \in SUBSET JobId
    /\ st \in [JobId -> Status \cup {Absent}]
    /\ gen \in [JobId -> Nat] /\ cg \in [JobId -> Nat]
    /\ pend \in SUBSET (JobId \X Nat)

\* RunInv is what IInv says of the current state.
LEMMA RunInvIsIInv ==
    IInv <=> TypeOK /\ Unborn
                /\ RunInv(runs, starting, status, generation, cancelGen, pendingCancels)
  BY DEF IInv, RunInv, RunsWellFormed, StartingIsSpawned, RunningIsCancellable,
         LiveDownloadIsRunning, CancelledRunKnowsIt, Unstopped, Superseded, Downloading

\* Dispatching queued jobs preserves it.
LEMMA DispatchInv ==
    ASSUME NEW rs, NEW strt, NEW st, NEW gen, NEW cg, NEW pend,
           Fields(rs, strt, st, gen, cg, pend), RunInv(rs, strt, st, gen, cg, pend),
           NEW go \in SUBSET JobId, \A j \in go : st[j] = "queued"
    PROVE  RunInv(rs \cup {SpawnedRun(j) : j \in go}, strt \cup go, st, gen, cg, pend)
  <1> DEFINE new == {SpawnedRun(j) : j \in go}
             all == rs \cup new
  <1>1. \A r \in all : \/ r \in rs
                       \/ r.phase = "spawned" /\ r = SpawnedRun(r.job) /\ r.job \in go
    BY DEF SpawnedRun
  <1>2. rs \subseteq all
    OBVIOUS
  <1>3. \A j \in JobId : SpawnedRun(j) \in all <=> SpawnedRun(j) \in rs \/ j \in go
    <2>1. ASSUME NEW j \in JobId, SpawnedRun(j) \in new PROVE j \in go
      BY <2>1 DEF SpawnedRun
    <2>2. QED
      BY <2>1
  <1> HIDE DEF new, all
  <1>4. \A r \in all : r.phase = "download" => r \in rs
    BY <1>1
  <1>5. RunInv(all, strt \cup go, st, gen, cg, pend)
    <2> USE DEF RunInv
    <2>1. \A r \in all : r.phase = "spawned" => r = SpawnedRun(r.job)
      BY <1>1
    <2>2. \A j \in JobId : j \in strt \cup go <=> SpawnedRun(j) \in all
      BY <1>3
    <2>3. \A j \in strt \cup go : st[j] # "running"
      OBVIOUS
    <2>4. \A j \in JobId : st[j] = "running" =>
             /\ \E r \in all : r.job = j /\ r.phase = "download" /\ r.gen = gen[j]
             /\ cg[j] = gen[j]
      BY <1>2
    <2>5. QED
      BY <1>4, <2>1, <2>2, <2>3, <2>4
  <1>6. QED
    BY <1>5 DEF all, new

\* Cancelling any run preserves it.
LEMMA CancelInv ==
    ASSUME NEW rs, NEW strt, NEW st, NEW gen, NEW cg, NEW pend,
           Fields(rs, strt, st, gen, cg, pend), RunInv(rs, strt, st, gen, cg, pend),
           NEW j \in JobId, NEW g \in Nat
    PROVE  RunInv(CancelRun(rs, j, g), strt, st, gen, cg, pend \ {<<j, g>>})
  <1> DEFINE hit(r) == r.job = j /\ r.gen = g /\ r.phase = "download"
             image(r) == IF hit(r) THEN [r EXCEPT !.cancelled = TRUE] ELSE r
             all == CancelRun(rs, j, g)
  <1>1. all = {image(r) : r \in rs}
    BY DEF CancelRun
  <1>2. \A r \in rs : /\ image(r).job = r.job /\ image(r).gen = r.gen
                      /\ image(r).phase = r.phase
                      /\ hit(r) => image(r).cancelled
                      /\ ~hit(r) => image(r) = r
    BY DEF Fields, Run
  <1> HIDE DEF image, all
  <1>3. \A s \in all : \E r \in rs : s = image(r)
    BY <1>1
  <1>4. \A r \in rs : image(r) \in all
    BY <1>1
  <1>5. \A s \in all : s.phase # "download" => s \in rs
    BY <1>2, <1>3
  <1>6. \A i \in JobId : SpawnedRun(i) \in rs <=> SpawnedRun(i) \in all
    <2> TAKE i \in JobId
    <2>1. SpawnedRun(i).phase # "download"
      BY SpawnedRunType
    <2>2. SpawnedRun(i) \in rs => image(SpawnedRun(i)) = SpawnedRun(i)
      BY <1>2, <2>1
    <2>3. QED
      BY <1>4, <1>5, <2>1, <2>2
  <1>7. RunInv(all, strt, st, gen, cg, pend \ {<<j, g>>})
    <2> USE DEF RunInv
    <2>1. \A r \in all : r.phase = "spawned" => r = SpawnedRun(r.job)
      BY <1>5
    <2>2. \A r \in all : r.phase = "download" =>
             r.gen \in 1 .. gen[r.job] /\ (r.gen = gen[r.job] => cg[r.job] = r.gen)
      BY <1>2, <1>3
    <2>3. \A r, s \in all : r.phase = "download" /\ s.phase = "download"
                             /\ r.job = s.job /\ r.gen = s.gen => r = s
      BY <1>2, <1>3
    <2>4. \A i \in JobId : st[i] = "running" =>
             /\ \E r \in all : r.job = i /\ r.phase = "download" /\ r.gen = gen[i]
             /\ cg[i] = gen[i]
      <3> TAKE i \in JobId
      <3> HAVE st[i] = "running"
      <3>1. PICK r \in rs : r.job = i /\ r.phase = "download" /\ r.gen = gen[i]
        OBVIOUS
      <3>2. image(r) \in all /\ image(r).job = i /\ image(r).phase = "download"
              /\ image(r).gen = gen[i]
        BY <3>1, <1>2, <1>4
      <3>3. QED
        BY <3>2
    <2>5. \A r \in all : r.phase = "download" /\ ~r.cancelled
                           /\ <<r.job, r.gen>> \notin pend \ {<<j, g>>}
             => st[r.job] = "running" /\ gen[r.job] = r.gen
      BY <1>2, <1>3
    <2>6. \A r \in all : r.phase = "download" /\ gen[r.job] = r.gen
                           /\ st[r.job] = "cancelled" => r.cancelled
      BY <1>2, <1>3
    <2>7. QED
      BY <1>6, <2>1, <2>2, <2>3, <2>4, <2>5, <2>6
  <1>8. QED
    BY <1>7 DEF all

\* Jobs whose current run has been stopped, or is about to be, may leave the
\* state "running".
LEMMA StatusInv ==
    ASSUME NEW rs, NEW strt, NEW st, NEW gen, NEW cg, NEW pend, NEW st2, NEW more,
           Fields(rs, strt, st, gen, cg, pend), RunInv(rs, strt, st, gen, cg, pend),
           pend \subseteq more,
           \A j \in JobId : st2[j] = st[j] \/ st2[j] # "running",
           \A r \in rs : r.phase = "download" /\ r.gen = gen[r.job] =>
              \/ st2[r.job] = st[r.job]
              \/ r.cancelled
              \/ st2[r.job] # "cancelled" /\ <<r.job, r.gen>> \in more
    PROVE  RunInv(rs, strt, st2, gen, cg, more)
  <1>1. \A r \in rs : r.job \in JobId
    BY DEF Fields, Run
  <1> USE DEF RunInv
  <1>2. \A j \in strt : st2[j] # "running"
    BY DEF Fields
  <1>3. \A r \in rs : r.phase = "download" /\ ~r.cancelled /\ <<r.job, r.gen>> \notin more
           => st2[r.job] = "running" /\ gen[r.job] = r.gen
    BY <1>1
  <1>4. \A r \in rs : r.phase = "download" /\ gen[r.job] = r.gen
                       /\ st2[r.job] = "cancelled" => r.cancelled
    BY <1>1
  <1>5. QED
    BY <1>2, <1>3, <1>4

\* Jobs go back to the queue under a new generation; those that were running
\* have their cancel noted.
LEMMA RequeueInv ==
    ASSUME NEW rs, NEW strt, NEW st, NEW gen, NEW cg, NEW pend,
           NEW st2, NEW gen2, NEW more,
           Fields(rs, strt, st, gen, cg, pend), RunInv(rs, strt, st, gen, cg, pend),
           pend \subseteq more,
           \A j \in JobId :
              \/ st2[j] = st[j] /\ gen2[j] = gen[j]
              \/ /\ st2[j] = "queued" /\ gen2[j] = gen[j] + 1
                 /\ st[j] = "running" => <<j, cg[j]>> \in more
    PROVE  RunInv(rs, strt, st2, gen2, cg, more)
  <1>1. \A r \in rs : r.job \in JobId /\ r.gen \in Nat
    BY DEF Fields, Run
  <1>2. \A j \in JobId : gen[j] \in Nat
    BY DEF Fields
  <1>3. \A j \in JobId : st2[j] = st[j] \/ st2[j] # "running"
    OBVIOUS
  <1>4. (\A j \in strt : st[j] # "running") /\ strt \in SUBSET JobId
    BY DEF Fields, RunInv
  <1>5. \A j \in strt : st2[j] # "running"
    BY ONLY <1>3, <1>4
  <1>6. ASSUME NEW r \in rs, r.phase = "download"
        PROVE  /\ r.gen \in 1 .. gen2[r.job] /\ (r.gen = gen2[r.job] => cg[r.job] = r.gen)
               /\ ~r.cancelled /\ <<r.job, r.gen>> \notin more
                     => st2[r.job] = "running" /\ gen2[r.job] = r.gen
               /\ gen2[r.job] = r.gen /\ st2[r.job] = "cancelled" => r.cancelled
    <2>1. /\ r.gen \in 1 .. gen[r.job] /\ (r.gen = gen[r.job] => cg[r.job] = r.gen)
          /\ ~r.cancelled /\ <<r.job, r.gen>> \notin pend
                => st[r.job] = "running" /\ gen[r.job] = r.gen
          /\ gen[r.job] = r.gen /\ st[r.job] = "cancelled" => r.cancelled
      BY <1>6 DEF RunInv
    <2>2. CASE st2[r.job] = st[r.job] /\ gen2[r.job] = gen[r.job]
      BY <2>1, <2>2
    <2>3. CASE /\ st2[r.job] = "queued" /\ gen2[r.job] = gen[r.job] + 1
               /\ st[r.job] = "running" => <<r.job, cg[r.job]>> \in more
      BY <1>1, <1>2, <2>1, <2>3
    <2>4. QED
      BY <1>1, <2>2, <2>3
  <1>7. \A j \in JobId : st2[j] = "running" => st[j] = "running" /\ gen2[j] = gen[j]
    OBVIOUS
  <1>8. \A j \in JobId : st2[j] = "running" =>
           /\ \E r \in rs : r.job = j /\ r.phase = "download" /\ r.gen = gen2[j]
           /\ cg[j] = gen2[j]
    BY <1>7 DEF RunInv
  <1>9. /\ \A r \in rs : r.phase = "spawned" => r = SpawnedRun(r.job)
        /\ \A r, s \in rs : r.phase = "download" /\ s.phase = "download"
                               /\ r.job = s.job /\ r.gen = s.gen => r = s
        /\ \A j \in JobId : j \in strt <=> SpawnedRun(j) \in rs
    BY DEF RunInv
  <1>10. /\ \A r \in rs : r.phase = "download" =>
               r.gen \in 1 .. gen2[r.job] /\ (r.gen = gen2[r.job] => cg[r.job] = r.gen)
         /\ \A r \in rs : r.phase = "download" /\ ~r.cancelled
                            /\ <<r.job, r.gen>> \notin more
               => st2[r.job] = "running" /\ gen2[r.job] = r.gen
         /\ \A r \in rs : r.phase = "download" /\ gen2[r.job] = r.gen
                            /\ st2[r.job] = "cancelled" => r.cancelled
    BY ONLY <1>6
  <1>11. QED
    BY ONLY <1>5, <1>8, <1>9, <1>10 DEF RunInv

\* rs2 is rs without r; whatever takes its place is past its download.
PastDownload(rs, r, rs2) ==
    /\ \A s \in rs2 : s \in rs \ {r} \/ s.phase \in {"saving", "exiting"}
    /\ rs \ {r} \subseteq rs2

\* A run that is no longer, or not, the one its running job depends on may
\* end or move on.
LEMMA LeaveInv ==
    ASSUME NEW rs, NEW strt, NEW st, NEW gen, NEW cg, NEW pend, NEW r \in rs, NEW rs2,
           Fields(rs, strt, st, gen, cg, pend), RunInv(rs, strt, st, gen, cg, pend),
           PastDownload(rs, r, rs2),
           r.phase # "spawned",
           r.phase = "download" => st[r.job] # "running" \/ gen[r.job] # r.gen
    PROVE  RunInv(rs2, strt, st, gen, cg, pend)
  <1>1. \A s \in rs2 : (s.phase = "spawned" \/ s.phase = "download") => s \in rs
    BY DEF PastDownload
  <1>2. \A s \in rs : s # r => s \in rs2
    BY DEF PastDownload
  <1>3. \A j \in JobId : SpawnedRun(j) \in rs <=> SpawnedRun(j) \in rs2
    BY <1>1, <1>2, SpawnedRunType
  <1>4. QED
    BY <1>1, <1>2, <1>3 DEF RunInv

\* The current run of a job records its outcome and moves on.
LEMMA OutcomeInv ==
    ASSUME NEW rs, NEW strt, NEW st, NEW gen, NEW cg, NEW pend, NEW r \in rs,
           NEW rs2, NEW st2,
           Fields(rs, strt, st, gen, cg, pend), RunInv(rs, strt, st, gen, cg, pend),
           PastDownload(rs, r, rs2),
           r.phase = "download", gen[r.job] = r.gen,
           st2[r.job] # "running", \A j \in JobId : j # r.job => st2[j] = st[j]
    PROVE  RunInv(rs2, strt, st2, gen, cg, pend)
  <1>1. \A s \in rs2 : (s.phase = "spawned" \/ s.phase = "download") => s \in rs /\ s # r
    BY DEF PastDownload
  <1>2. \A s \in rs : s # r => s \in rs2
    BY DEF PastDownload
  <1>3. \A s \in rs : s.job \in JobId
    BY DEF Fields, Run
  <1>4. \A j \in JobId : SpawnedRun(j) \in rs <=> SpawnedRun(j) \in rs2
    BY <1>1, <1>2, SpawnedRunType
  <1>5. \A s \in rs2 : s.phase = "download" /\ s.job = r.job => s.gen # r.gen
    BY <1>1 DEF RunInv
  <1> USE DEF RunInv
  <1>6. \A j \in strt : st2[j] # "running"
    BY DEF Fields
  <1>7. \A j \in JobId : st2[j] = "running" =>
           /\ \E s \in rs2 : s.job = j /\ s.phase = "download" /\ s.gen = gen[j]
           /\ cg[j] = gen[j]
    BY <1>2
  <1>8. \A s \in rs2 : s.phase = "download" /\ ~s.cancelled /\ <<s.job, s.gen>> \notin pend
           => st2[s.job] = "running" /\ gen[s.job] = s.gen
    BY <1>1, <1>3, <1>5
  <1>9. \A s \in rs2 : s.phase = "download" /\ gen[s.job] = s.gen
                       /\ st2[s.job] = "cancelled" => s.cancelled
    BY <1>1, <1>3, <1>5
  <1>10. QED
    BY <1>1, <1>4, <1>6, <1>7, <1>8, <1>9

\* A spawned run that finds the manager fenced gives its job back.
LEMMA FencedInv ==
    ASSUME NEW rs, NEW strt, NEW st, NEW gen, NEW cg, NEW pend, NEW r \in rs, NEW rs2,
           Fields(rs, strt, st, gen, cg, pend), RunInv(rs, strt, st, gen, cg, pend),
           PastDownload(rs, r, rs2), r.phase = "spawned"
    PROVE  RunInv(rs2, strt \ {r.job}, st, gen, cg, pend)
  <1>1. \A s \in rs2 : (s.phase = "spawned" \/ s.phase = "download") => s \in rs /\ s # r
    BY DEF PastDownload
  <1>2. \A s \in rs : s # r => s \in rs2
    BY DEF PastDownload
  <1>3. r = SpawnedRun(r.job)
    BY DEF RunInv
  <1>4. \A s \in rs : s.phase = "download" => s # r
    OBVIOUS
  <1>5. \A j \in JobId : SpawnedRun(j) \in rs2 <=> SpawnedRun(j) \in rs /\ j # r.job
    BY <1>1, <1>2, <1>3, SpawnedRunType
  <1>6. QED
    BY <1>1, <1>2, <1>4, <1>5 DEF RunInv

\* A spawned run claims its job under the next generation.
LEMMA ClaimInv ==
    ASSUME NEW rs, NEW strt, NEW st, NEW gen, NEW cg, NEW pend,
           Fields(rs, strt, st, gen, cg, pend), RunInv(rs, strt, st, gen, cg, pend),
           NEW r \in rs, r.phase = "spawned"
    PROVE  LET g == gen[r.job] + 1
           IN  RunInv((rs \ {r}) \cup {[r EXCEPT !.gen = g, !.phase = "download"]},
                      strt \ {r.job}, [st EXCEPT ![r.job] = "running"],
                      [gen EXCEPT ![r.job] = g], [cg EXCEPT ![r.job] = g], pend)
  <1> DEFINE g == gen[r.job] + 1
             next == [r EXCEPT !.gen = g, !.phase = "download"]
             all == (rs \ {r}) \cup {next}
             st2 == [st EXCEPT ![r.job] = "running"]
             gen2 == [gen EXCEPT ![r.job] = g]
             cg2 == [cg EXCEPT ![r.job] = g]
  <1>1. \A s \in rs : s.job \in JobId /\ s.gen \in Nat /\ gen[s.job] \in Nat
    BY DEF Fields, Run
  <1>2. r = SpawnedRun(r.job) /\ r.job \in strt /\ st[r.job] # "running"
    BY <1>1 DEF RunInv
  <1>3. /\ next.job = r.job /\ next.gen = g /\ next.phase = "download"
        /\ ~next.cancelled
    BY <1>1, <1>2 DEF SpawnedRun
  <1>4. /\ \A j \in JobId : j # r.job => st2[j] = st[j] /\ gen2[j] = gen[j] /\ cg2[j] = cg[j]
        /\ st2[r.job] = "running" /\ gen2[r.job] = g /\ cg2[r.job] = g
    BY <1>1 DEF Fields
  <1>5. \A s \in all : s = next \/ (s \in rs /\ s # r)
    OBVIOUS
  <1>6. next \in all /\ \A s \in rs : s # r => s \in all
    OBVIOUS
  <1>7. g \in Nat /\ g > gen[r.job]
    BY <1>1
  <1> HIDE DEF next, all, st2, gen2, cg2, g
  <1>8. \A j \in JobId : SpawnedRun(j) \in all <=> SpawnedRun(j) \in rs /\ j # r.job
    BY <1>2, <1>3, <1>5, <1>6, SpawnedRunType
  <1>9. \A s \in rs : s.phase = "download" /\ s.job = r.job =>
           s.gen < g /\ (s.cancelled \/ <<s.job, s.gen>> \in pend)
    BY <1>1, <1>2, <1>7 DEF RunInv
  <1>10. RunInv(all, strt \ {r.job}, st2, gen2, cg2, pend)
    <2> USE DEF RunInv
    <2>1. \A s \in all : s.phase = "spawned" => s = SpawnedRun(s.job)
      BY <1>3, <1>5
    <2>2. \A s \in all : s.phase = "download" =>
             s.gen \in 1 .. gen2[s.job] /\ (s.gen = gen2[s.job] => cg2[s.job] = s.gen)
      BY <1>1, <1>3, <1>4, <1>5, <1>7, <1>9
    <2>3. \A s, t \in all : s.phase = "download" /\ t.phase = "download"
                            /\ s.job = t.job /\ s.gen = t.gen => s = t
      <3>1. \A s \in rs : s.phase = "download" /\ s.job = r.job => s.gen # g
        BY <1>1, <1>7, <1>9
      <3>2. QED
        BY <1>3, <1>5, <3>1
    <2>4. \A j \in strt \ {r.job} : st2[j] # "running"
      BY <1>4 DEF Fields
    <2>5. \A j \in JobId : st2[j] = "running" =>
             /\ \E s \in all : s.job = j /\ s.phase = "download" /\ s.gen = gen2[j]
             /\ cg2[j] = gen2[j]
      <3> TAKE j \in JobId
      <3>1. CASE j = r.job
        BY <3>1, <1>3, <1>4, <1>6
      <3>2. CASE j # r.job
        BY <3>2, <1>4, <1>6
      <3>3. QED
        BY <3>1, <3>2
    <2>6. \A s \in all : s.phase = "download" /\ ~s.cancelled /\ <<s.job, s.gen>> \notin pend
             => st2[s.job] = "running" /\ gen2[s.job] = s.gen
      BY <1>1, <1>3, <1>4, <1>5, <1>9
    <2>7. \A s \in all : s.phase = "download" /\ gen2[s.job] = s.gen
                         /\ st2[s.job] = "cancelled" => s.cancelled
      BY <1>1, <1>3, <1>4, <1>5
    <2>8. QED
      BY <1>8, <2>1, <2>2, <2>3, <2>4, <2>5, <2>6, <2>7
  <1>11. QED
    BY <1>10 DEF all, next, st2, gen2, cg2, g

\* A cancel that is noted more often than needed does no harm.
LEMMA MoreInv ==
    ASSUME NEW rs, NEW strt, NEW st, NEW gen, NEW cg, NEW pend,
           RunInv(rs, strt, st, gen, cg, pend), NEW more, pend \subseteq more
    PROVE  RunInv(rs, strt, st, gen, cg, more)
  BY DEF RunInv

---------------------------------------------------------------------------
(* Every step preserves the inductive invariant *)

\* A section that ends with dispatchLocked preserves RunInv if it did so
\* before it dispatched.
LEMMA DispatchLockedInv ==
    ASSUME NEW strt, NEW rs, DispatchLocked(strt, rs), jobs' \in SUBSET JobId,
           Fields(rs, strt, status', generation', cancelGen', pendingCancels'),
           RunInv(rs, strt, status', generation', cancelGen', pendingCancels')
    PROVE  RunInv(runs', starting', status', generation', cancelGen', pendingCancels')
  <1>1. strt \in SUBSET JobId /\ rs \in SUBSET Run
    BY DEF Fields
  <1>2. PICK go \in SUBSET JobId :
              /\ \A j \in go : status'[j] = "queued" /\ j \in jobs' /\ j \notin strt
              /\ starting' = strt \cup go
              /\ runs' = rs \cup {SpawnedRun(j) : j \in go}
              /\ starting' \in SUBSET JobId
              /\ runs' \in SUBSET Run
    BY <1>1, DispatchEffect
  <1>3. RunInv(rs \cup {SpawnedRun(j) : j \in go}, strt \cup go, status', generation',
               cancelGen', pendingCancels')
    BY <1>2, DispatchInv
  <1>4. QED
    BY <1>2, <1>3

\* The part of the invariant about runs and the fields they depend on.
LEMMA RunInvStep ==
    ASSUME IInv, [Next]_vars
    PROVE  RunInv(runs', starting', status', generation', cancelGen', pendingCancels')
  <1> DEFINE Now == RunInv(runs, starting, status, generation, cancelGen, pendingCancels)
             Goal == RunInv(runs', starting', status', generation', cancelGen',
                            pendingCancels')
  <1> SUFFICES Goal
    OBVIOUS
  <1>1. TypeOK /\ TypeOK' /\ Unborn /\ Now
    BY TypeStep, RunInvIsIInv DEF IInv
  <1>2. /\ Fields(runs, starting, status, generation, cancelGen, pendingCancels)
        /\ jobs \in SUBSET JobId /\ jobs' \in SUBSET JobId
        /\ status' \in [JobId -> Status \cup {Absent}]
        /\ generation' \in [JobId -> Nat] /\ cancelGen' \in [JobId -> Nat]
        /\ pendingCancels' \in SUBSET (JobId \X Nat)
    BY <1>1 DEF TypeOK, Fields
  <1>3. \A r \in runs : r \in Run /\ r.job \in JobId /\ r.gen \in Nat
    BY <1>2 DEF Fields, Run
  <1>4. \A j \in JobId : cancelGen[j] \in Nat
    BY <1>2 DEF Fields
  <1>5. ASSUME NEW j \in JobId, NEW rs, rs = CancelCurrent(j)
        PROVE  /\ Fields(rs, starting, status, generation, cancelGen, pendingCancels)
               /\ RunInv(rs, starting, status, generation, cancelGen, pendingCancels)
               /\ \A r \in rs : r.job = j /\ r.phase = "download" /\ r.gen = generation[j]
                     => r.cancelled
    <2>1. RunInv(rs, starting, status, generation, cancelGen,
                 pendingCancels \ {<<j, cancelGen[j]>>})
      BY <1>1, <1>2, <1>4, <1>5, CancelInv DEF CancelCurrent
    <2>2. RunInv(rs, starting, status, generation, cancelGen, pendingCancels)
      BY <2>1, MoreInv
    <2>3. runs \in SUBSET Run
      BY <1>2 DEF Fields
    <2>4. rs \in SUBSET Run /\ \A r \in rs : r.job = j /\ r.gen = cancelGen[j]
                                      /\ r.phase = "download" => r.cancelled
      BY <1>5, <2>3, CancelRunEffect DEF CancelCurrent
    <2>5. QED
      BY <1>2, <2>2, <2>4 DEF Fields, RunInv
  <1>6. \A r \in runs : \A p \in {"saving", "exiting"} : PastDownload(runs, r, InPhase(r, p))
    BY <1>2, InPhaseEffect DEF PastDownload, Fields, InPhase
  <1> HIDE DEF Now, Goal
  <1>7. ASSUME NEW req \in Requests, CreateJob(req) PROVE Goal
    <2>1. status' = [j \in JobId |-> IF j \in {nextId} THEN "queued" ELSE status[j]]
      BY <1>2, <1>7 DEF CreateJob, Fields
    <2>2. nextId \in JobId /\ status[nextId] = Absent
      BY <1>1, <1>7 DEF CreateJob, Unborn, JobId
    <2>3. \A r \in runs : r.phase = "download" /\ r.gen = generation[r.job] =>
             \/ status'[r.job] = status[r.job]
             \/ r.cancelled
             \/ status'[r.job] # "cancelled" /\ <<r.job, r.gen>> \in pendingCancels
      BY <1>1, <1>3, <2>1, <2>2 DEF RunInv, Now, Absent
    <2>4. \A j \in JobId : status'[j] = status[j] \/ status'[j] # "running"
      BY <2>1
    <2>5. RunInv(runs, starting, status', generation, cancelGen, pendingCancels)
      BY <1>1, <1>2, <2>3, <2>4, StatusInv DEF Now
    <2>6. /\ generation' = generation /\ cancelGen' = cancelGen
          /\ pendingCancels' = pendingCancels /\ DispatchLocked(starting, runs)
      BY <1>7 DEF CreateJob, shutVars
    <2>7. Fields(runs, starting, status', generation', cancelGen', pendingCancels')
      BY <1>2 DEF Fields
    <2>8. QED
      BY <1>2, <2>5, <2>6, <2>7, DispatchLockedInv DEF Goal
  <1>8. ASSUME NEW j \in JobId, NEW from, NEW to, to # "running", Stop(j, from, to)
        PROVE  Goal
    <2>1. /\ status' = [i \in JobId |-> IF i \in {j} THEN to ELSE status[i]]
          /\ runs' = CancelCurrent(j)
          /\ starting' = starting /\ generation' = generation /\ cancelGen' = cancelGen
          /\ pendingCancels' = pendingCancels
      BY <1>2, <1>8 DEF Stop, Fields
    <2>2. /\ Fields(runs', starting, status, generation, cancelGen, pendingCancels)
          /\ RunInv(runs', starting, status, generation, cancelGen, pendingCancels)
          /\ \A r \in runs' : r.job = j /\ r.phase = "download" /\ r.gen = generation[j]
                => r.cancelled
      BY <1>5, <2>1
    <2>3. \A r \in runs' : r.phase = "download" /\ r.gen = generation[r.job] =>
             \/ status'[r.job] = status[r.job]
             \/ r.cancelled
             \/ status'[r.job] # "cancelled" /\ <<r.job, r.gen>> \in pendingCancels
      <3>1. \A r \in runs' : r.job \in JobId
        BY <2>2 DEF Fields, Run
      <3>2. QED
        BY <2>1, <2>2, <3>1
    <2>4. \A i \in JobId : status'[i] = status[i] \/ status'[i] # "running"
      BY <1>8, <2>1
    <2>5. RunInv(runs', starting, status', generation, cancelGen, pendingCancels)
      BY <2>2, <2>3, <2>4, StatusInv
    <2>6. QED
      BY <2>1, <2>5 DEF Goal
  <1>9. ASSUME NEW j \in JobId, NEW from, "running" \notin from, RestartJob(j, from)
        PROVE  Goal
    <2>1. /\ status' = [i \in JobId |-> IF i \in {j} THEN "queued" ELSE status[i]]
          /\ generation' = [i \in JobId |-> IF i \in {j} THEN generation[i] + 1
                                                         ELSE generation[i]]
          /\ cancelGen' = cancelGen /\ pendingCancels' = pendingCancels
          /\ DispatchLocked(starting, runs) /\ status[j] # "running"
      BY <1>2, <1>9 DEF RestartJob, Fields, shutVars
    <2>2. \A i \in JobId :
             \/ status'[i] = status[i] /\ generation'[i] = generation[i]
             \/ /\ status'[i] = "queued" /\ generation'[i] = generation[i] + 1
                /\ status[i] = "running" => <<i, cancelGen[i]>> \in pendingCancels
      BY <2>1
    <2>3. RunInv(runs, starting, status', generation', cancelGen, pendingCancels)
      BY <1>1, <1>2, <2>2, RequeueInv DEF Now
    <2>4. Fields(runs, starting, status', generation', cancelGen', pendingCancels')
      BY <1>2 DEF Fields
    <2>5. QED
      BY <1>2, <2>1, <2>3, <2>4, DispatchLockedInv DEF Goal
  <1>10. ASSUME NEW j \in JobId, DismissJob(j) \/ DeleteJob(j) PROVE Goal
    <2>1. /\ UNCHANGED <<starting, status, generation, cancelGen, pendingCancels>>
          /\ runs' = runs \/ runs' = CancelCurrent(j)
      BY <1>10 DEF DismissJob, DeleteJob, RemoveJob, shutVars
    <2>2. QED
      BY <1>1, <1>5, <2>1 DEF Goal, Now
  <1>11. ASSUME NEW setting \in Limits, UpdateConfig(setting) PROVE Goal
    <2> DEFINE excess == Excess(EffectiveMaxActive(setting))
    <2>1. excess \in SUBSET JobId /\ \A j \in excess : status[j] = "running"
      BY <1>2 DEF Excess
    <2> HIDE DEF excess
    <2>2. /\ generation' = [j \in JobId |-> IF j \in excess THEN generation[j] + 1
                                                            ELSE generation[j]]
          /\ status' = [j \in JobId |-> IF j \in excess THEN "queued" ELSE status[j]]
          /\ pendingCancels' = pendingCancels \cup {<<j, cancelGen[j]>> : j \in excess}
          /\ cancelGen' = cancelGen
          /\ DispatchLocked(starting \ excess, runs)
      BY <1>11 DEF UpdateConfig, excess
    <2>3. starting \ excess = starting
      BY <1>1, <2>1 DEF RunInv, Now
    <2>4. RunInv(runs, starting, status', generation', cancelGen, pendingCancels')
      <3>1. \A j \in JobId :
               \/ status'[j] = status[j] /\ generation'[j] = generation[j]
               \/ /\ status'[j] = "queued" /\ generation'[j] = generation[j] + 1
                  /\ status[j] = "running" => <<j, cancelGen[j]>> \in pendingCancels'
        BY <2>2
      <3>2. pendingCancels \subseteq pendingCancels'
        BY <2>2
      <3>3. QED
        BY <1>1, <1>2, <3>1, <3>2, RequeueInv DEF Now
    <2>5. Fields(runs, starting, status', generation', cancelGen', pendingCancels')
      BY <1>2 DEF Fields
    <2>6. QED
      BY <1>2, <2>2, <2>3, <2>4, <2>5, DispatchLockedInv DEF Goal
  <1>12. ASSUME NEW r \in runs, Claim(r) PROVE Goal
    <2>1. pendingCancels' = pendingCancels /\ r.phase = "spawned"
             /\ starting' = starting \ {r.job}
      BY <1>12 DEF Claim, shutVars
    <2>2. CASE fenced
      <3>1. UNCHANGED <<status, generation, cancelGen>> /\ runs' = InPhase(r, "exiting")
        BY <1>12, <2>2 DEF Claim
      <3>2. RunInv(runs', starting \ {r.job}, status, generation, cancelGen, pendingCancels)
        BY <1>1, <1>2, <1>6, <2>1, <3>1, FencedInv DEF Now
      <3>3. QED
        BY <2>1, <3>1, <3>2 DEF Goal
    <2>3. CASE ~fenced
      <3> DEFINE g == generation[r.job] + 1
      <3>1. /\ generation' = [generation EXCEPT ![r.job] = g]
            /\ cancelGen' = [cancelGen EXCEPT ![r.job] = g]
            /\ status' = [status EXCEPT ![r.job] = "running"]
            /\ runs' = (runs \ {r}) \cup {[r EXCEPT !.gen = g, !.phase = "download"]}
        BY <1>12, <2>3 DEF Claim
      <3>2. QED
        BY <1>1, <1>2, <2>1, <3>1, ClaimInv DEF Goal, Now
    <2>4. QED
      BY <2>2, <2>3
  <1>13. ASSUME NEW r \in runs, NEW success \in BOOLEAN, Finish(r, success) PROVE Goal
    <2>1. /\ generation' = generation /\ cancelGen' = cancelGen
          /\ pendingCancels' = pendingCancels /\ r.phase = "download"
      BY <1>13 DEF Finish, shutVars
    <2>2. \A p \in {"saving", "exiting"} : InPhase(r, p) \in SUBSET Run
      <3>1. runs \in SUBSET Run
        BY <1>2 DEF Fields
      <3>2. QED
        BY <3>1, InPhaseEffect
    <2>3. CASE Superseded(r)
      <3>1. status' = status
        BY <1>13, <2>3 DEF Finish
      <3>2. status[r.job] # "running" \/ generation[r.job] # r.gen
        BY <2>3 DEF Superseded
      <3>3. RunInv(InPhase(r, "exiting"), starting, status, generation, cancelGen,
                   pendingCancels)
        BY <1>1, <1>2, <1>6, <2>1, <3>2, LeaveInv DEF Now
      <3>4. Fields(InPhase(r, "exiting"), starting, status', generation', cancelGen',
                   pendingCancels')
        BY <1>2, <2>2 DEF Fields
      <3>5. \/ DispatchLocked(starting, InPhase(r, "exiting"))
            \/ runs' = InPhase(r, "exiting") /\ starting' = starting
        BY <1>13, <2>3 DEF Finish
      <3>6. QED
        BY <1>2, <2>1, <3>1, <3>3, <3>4, <3>5, DispatchLockedInv DEF Goal
    <2>4. CASE ~Superseded(r)
      <3>1. /\ status' = [status EXCEPT ![r.job] = Outcome(r, success)]
            /\ DispatchLocked(starting, InPhase(r, "saving"))
        BY <1>13, <2>4 DEF Finish
      <3>2. generation[r.job] = r.gen
        BY <2>4 DEF Superseded
      <3>3. Outcome(r, success) # "running"
        <4>1. r.cancelled \in BOOLEAN
          BY <1>3 DEF Run
        <4>2. QED
          BY <4>1 DEF Outcome
      <3>4. status'[r.job] # "running" /\ \A j \in JobId : j # r.job => status'[j] = status[j]
        BY <1>2, <1>3, <3>1, <3>3 DEF Fields
      <3>5. RunInv(InPhase(r, "saving"), starting, status', generation, cancelGen,
                   pendingCancels)
        BY <1>1, <1>2, <1>6, <2>1, <3>2, <3>4, OutcomeInv DEF Now
      <3>6. Fields(InPhase(r, "saving"), starting, status', generation', cancelGen',
                   pendingCancels')
        BY <1>2, <2>2 DEF Fields
      <3>7. QED
        BY <1>2, <2>1, <3>1, <3>5, <3>6, DispatchLockedInv DEF Goal
    <2>5. QED
      BY <2>3, <2>4
  <1>14. ASSUME NEW r \in runs, Exit(r) PROVE Goal
    <2>1. /\ r.phase = "exiting" /\ DispatchLocked(starting, runs \ {r})
          /\ UNCHANGED <<status, generation, cancelGen, pendingCancels>>
      BY <1>14 DEF Exit, shutVars
    <2>2. PastDownload(runs, r, runs \ {r})
      BY DEF PastDownload
    <2>3. RunInv(runs \ {r}, starting, status, generation, cancelGen, pendingCancels)
      BY <1>1, <1>2, <2>1, <2>2, LeaveInv DEF Now
    <2>4. Fields(runs \ {r}, starting, status', generation', cancelGen', pendingCancels')
      BY <1>2 DEF Fields
    <2>5. QED
      BY <1>2, <2>1, <2>3, <2>4, DispatchLockedInv DEF Goal
  <1>15. ASSUME NEW r \in runs, RunSaved(r) PROVE Goal
    <2>1. /\ r.phase = "saving" /\ runs' = InPhase(r, "exiting")
          /\ UNCHANGED <<starting, status, generation, cancelGen, pendingCancels>>
      BY <1>15 DEF RunSaved, shutVars
    <2>2. RunInv(runs', starting, status, generation, cancelGen, pendingCancels)
      BY <1>1, <1>2, <1>6, <2>1, LeaveInv DEF Now
    <2>3. QED
      BY <2>1, <2>2 DEF Goal
  <1>16. ASSUME NEW c \in pendingCancels, IssueCancel(c) PROVE Goal
    <2>1. c[1] \in JobId /\ c[2] \in Nat /\ c = <<c[1], c[2]>>
      BY <1>2 DEF Fields
    <2>2. /\ pendingCancels' = pendingCancels \ {<<c[1], c[2]>>}
          /\ runs' = CancelRun(runs, c[1], c[2])
          /\ UNCHANGED <<starting, status, generation, cancelGen>>
      BY <1>16, <2>1 DEF IssueCancel
    <2>3. QED
      BY <1>1, <1>2, <2>1, <2>2, CancelInv DEF Goal, Now
  <1>17. CASE Close
    <2> DEFINE running == {j \in jobs : status[j] = "running"}
    <2>1. running \in SUBSET JobId /\ \A j \in running : status[j] = "running"
      BY <1>2
    <2> HIDE DEF running
    <2>2. /\ status' = [j \in JobId |-> IF j \in running THEN "paused" ELSE status[j]]
          /\ pendingCancels' = pendingCancels \cup {<<j, cancelGen[j]>> : j \in running}
          /\ UNCHANGED <<runs, starting, generation, cancelGen>>
      BY <1>17 DEF Close, running
    <2>3. \A r \in runs : r.phase = "download" /\ r.gen = generation[r.job] =>
             \/ status'[r.job] = status[r.job]
             \/ r.cancelled
             \/ status'[r.job] # "cancelled" /\ <<r.job, r.gen>> \in pendingCancels'
      BY <1>1, <1>3, <2>2 DEF RunInv, Now
    <2>4. \A j \in JobId : status'[j] = status[j] \/ status'[j] # "running"
      BY <2>2
    <2>5. pendingCancels \subseteq pendingCancels'
      BY <2>2
    <2>6. RunInv(runs, starting, status', generation, cancelGen, pendingCancels')
      BY <1>1, <1>2, <2>3, <2>5, <2>4, StatusInv DEF Now
    <2>7. QED
      BY <2>2, <2>6 DEF Goal
  <1>18. ASSUME UNCHANGED <<runs, starting, status, generation, cancelGen, pendingCancels>>
         PROVE  Goal
    BY <1>1, <1>18 DEF Goal, Now
  <1>19. QED
    <2>1. CASE UserStep
      <3>1. \A j \in JobId : CancelJob(j) \/ PauseJob(j) => Goal
        BY <1>8 DEF CancelJob, PauseJob
      <3>2. \A j \in JobId : ResumeJob(j) \/ RetryJob(j) => Goal
        BY <1>9 DEF ResumeJob, RetryJob
      <3>3. QED
        BY <2>1, <3>1, <3>2, <1>7, <1>10, <1>11 DEF UserStep
    <2>2. ASSUME NEW r \in runs, RunStep(r) PROVE Goal
      BY <2>2, <1>12, <1>13, <1>14 DEF RunStep
    <2>3. CASE Issue
      BY <2>3, <1>16 DEF Issue
    <2>4. CASE SaveReturns
      BY <2>4, <1>15, <1>18 DEF SaveReturns, StopSaved, FinishClose, schedVars
    <2>5. CASE Quiesce \/ UNCHANGED vars
      BY <2>5, <1>18 DEF Quiesce, vars, schedVars, shutVars
    <2>6. QED
      BY <2>1, <2>2, <2>3, <2>4, <2>5, <1>17 DEF Next, Goal

\* Jobs that have not been created keep no state, and no run belongs to one.
LEMMA UnbornStep ==
    ASSUME IInv, [Next]_vars
    PROVE  Unborn'
  <1>1. /\ TypeOK /\ TypeOK' /\ Unborn
        /\ nextId \in Nat /\ jobs \in SUBSET JobId /\ runs \in SUBSET Run
        /\ starting \in SUBSET JobId /\ jobs' \in SUBSET JobId
        /\ status \in [JobId -> Status \cup {Absent}]
    BY TypeStep DEF IInv, TypeOK
  <1>2. \A r \in runs : r \in Run /\ r.job \in JobId /\ r.job < nextId
    BY <1>1 DEF Unborn, Run
  <1>3. \A j \in jobs : j \in JobId /\ j < nextId
    BY <1>1 DEF Unborn, JobId
  <1>4. \A j \in JobId : j \in Nat
    BY DEF JobId
  <1> USE DEF Unborn
  <1>5. ASSUME NEW S \in SUBSET Run, NEW j, NEW g, NEW r \in CancelRun(S, j, g)
        PROVE  \E s \in S : r.job = s.job
    BY CancelRunEffect
  <1>6. ASSUME NEW strt \in SUBSET JobId, NEW rs \in SUBSET Run, DispatchLocked(strt, rs),
               \A r \in rs : r.job < nextId', \A j \in jobs' : j < nextId'
        PROVE  \A r \in runs' : r.job < nextId'
    <2>1. PICK go \in SUBSET JobId :
              /\ \A j \in go : status'[j] = "queued" /\ j \in jobs' /\ j \notin strt
              /\ starting' = strt \cup go
              /\ runs' = rs \cup {SpawnedRun(j) : j \in go}
              /\ starting' \in SUBSET JobId
              /\ runs' \in SUBSET Run
      BY <1>1, <1>6, DispatchEffect
    <2>2. \A r \in runs' : r \in rs \/ \E j \in go : r.job = j
      BY <2>1, SpawnedRunType
    <2>3. QED
      BY <2>1, <2>2, <1>6
  <1>7. ASSUME NEW r \in runs, NEW p \in {"saving", "exiting"}, NEW s \in InPhase(r, p)
        PROVE  s.job < nextId /\ s \in Run
    BY <1>1, <1>2, InPhaseEffect
  <1>8. ASSUME NEW req \in Requests, CreateJob(req) PROVE Unborn'
    <2>1. /\ nextId' = nextId + 1 /\ jobs' = jobs \cup {nextId}
          /\ status' = [status EXCEPT ![nextId] = "queued"]
          /\ DispatchLocked(starting, runs)
      BY <1>8 DEF CreateJob
    <2>2. \A j \in jobs' : j < nextId'
      BY <1>1, <1>3, <1>4, <2>1
    <2>3. \A r \in runs : r.job < nextId'
      BY <1>1, <1>2, <1>4, <2>1
    <2>4. \A r \in runs' : r.job < nextId'
      BY <1>1, <1>6, <2>1, <2>2, <2>3
    <2>5. \A j \in JobId : j >= nextId' => j \notin jobs' /\ status'[j] = Absent
      BY <1>1, <1>4, <2>1
    <2>6. QED
      BY <2>4, <2>5
  <1>9. ASSUME NEW j \in JobId, NEW from, NEW to, Stop(j, from, to) PROVE Unborn'
    <2>1. \A r \in runs' : r.job < nextId
      BY <1>1, <1>2, <1>5, <1>9 DEF Stop, CancelCurrent
    <2>2. QED
      BY <1>1, <1>3, <1>4, <1>9, <2>1 DEF Stop
  <1>10. ASSUME NEW j \in JobId, NEW from, RestartJob(j, from) PROVE Unborn'
    <2>1. \A r \in runs' : r.job < nextId'
      BY <1>1, <1>2, <1>3, <1>6, <1>10 DEF RestartJob
    <2>2. QED
      BY <1>1, <1>3, <1>4, <1>10, <2>1 DEF RestartJob
  <1>11. ASSUME NEW j \in JobId, DismissJob(j) \/ DeleteJob(j) PROVE Unborn'
    <2>1. \A r \in runs' : r.job < nextId
      BY <1>1, <1>2, <1>5, <1>11 DEF DismissJob, DeleteJob, CancelCurrent
    <2>2. QED
      BY <1>1, <1>11, <2>1 DEF DismissJob, DeleteJob, RemoveJob
  <1>12. ASSUME NEW setting \in Limits, UpdateConfig(setting) PROVE Unborn'
    <2> DEFINE excess == Excess(EffectiveMaxActive(setting))
    <2>1. excess \subseteq jobs
      BY DEF Excess
    <2> HIDE DEF excess
    <2>2. /\ status' = [j \in JobId |-> IF j \in excess THEN "queued" ELSE status[j]]
          /\ DispatchLocked(starting \ excess, runs)
          /\ nextId' = nextId /\ jobs' = jobs
      BY <1>12 DEF UpdateConfig, excess
    <2>3. \A r \in runs' : r.job < nextId'
      BY <1>1, <1>2, <1>3, <1>6, <2>2
    <2>4. QED
      BY <1>1, <1>3, <1>4, <2>1, <2>2, <2>3
  <1>13. ASSUME NEW r \in runs, Claim(r) PROVE Unborn'
    <2>1. nextId' = nextId /\ jobs' = jobs
      BY <1>13 DEF Claim
    <2>2. CASE fenced
      BY <1>1, <1>7, <1>13, <2>1, <2>2 DEF Claim
    <2>3. CASE ~fenced
      <3> DEFINE next == [r EXCEPT !.gen = generation[r.job] + 1, !.phase = "download"]
      <3>1. next.job = r.job
        BY <1>2 DEF Run
      <3>2. /\ status' = [status EXCEPT ![r.job] = "running"]
            /\ runs' = (runs \ {r}) \cup {next}
        BY <1>13, <2>3 DEF Claim
      <3> HIDE DEF next
      <3>3. QED
        BY <1>1, <1>2, <1>4, <2>1, <3>1, <3>2
    <2>4. QED
      BY <2>2, <2>3
  <1>14. ASSUME NEW r \in runs, NEW success \in BOOLEAN, Finish(r, success) PROVE Unborn'
    <2>1. /\ nextId' = nextId /\ jobs' = jobs
          /\ \/ status' = status
             \/ status' = [status EXCEPT ![r.job] = Outcome(r, success)]
      BY <1>14 DEF Finish
    <2>2. \E p \in {"saving", "exiting"} :
             DispatchLocked(starting, InPhase(r, p)) \/ runs' = InPhase(r, p)
      BY <1>14 DEF Finish
    <2>3. \A s \in runs' : s.job < nextId'
      <3>1. PICK p \in {"saving", "exiting"} :
               DispatchLocked(starting, InPhase(r, p)) \/ runs' = InPhase(r, p)
        BY <2>2
      <3>2. InPhase(r, p) \in SUBSET Run /\ \A s \in InPhase(r, p) : s.job < nextId'
        BY <1>7, <2>1
      <3>3. CASE DispatchLocked(starting, InPhase(r, p))
        BY <1>1, <1>3, <1>6, <2>1, <3>2, <3>3
      <3>4. QED
        BY <3>1, <3>2, <3>3
    <2>4. QED
      BY <1>1, <1>2, <1>4, <2>1, <2>3
  <1>15. ASSUME NEW r \in runs, Exit(r) PROVE Unborn'
    <2>1. \A s \in runs' : s.job < nextId'
      BY <1>1, <1>2, <1>3, <1>6, <1>15 DEF Exit
    <2>2. QED
      BY <1>1, <1>15, <2>1 DEF Exit
  <1>16. ASSUME NEW c \in pendingCancels, IssueCancel(c) PROVE Unborn'
    <2>1. \A r \in runs' : r.job < nextId
      BY <1>1, <1>2, <1>5, <1>16 DEF IssueCancel
    <2>2. QED
      BY <1>1, <1>16, <2>1 DEF IssueCancel
  <1>17. ASSUME NEW r \in runs, RunSaved(r) PROVE Unborn'
    BY <1>1, <1>7, <1>17 DEF RunSaved
  <1>18. CASE Close
    BY <1>1, <1>3, <1>18 DEF Close
  <1>19. ASSUME UNCHANGED schedVars PROVE Unborn'
    BY <1>1, <1>19 DEF schedVars
  <1>20. QED
    <2>1. CASE UserStep
      BY <2>1, <1>8, <1>9, <1>10, <1>11, <1>12
      DEF UserStep, CancelJob, PauseJob, ResumeJob, RetryJob
    <2>2. ASSUME NEW r \in runs, RunStep(r) PROVE Unborn'
      BY <2>2, <1>13, <1>14, <1>15 DEF RunStep
    <2>3. CASE Issue
      BY <2>3, <1>16 DEF Issue
    <2>4. CASE SaveReturns
      BY <2>4, <1>17, <1>19 DEF SaveReturns, StopSaved, FinishClose
    <2>5. CASE Quiesce
      BY <1>1, <2>5 DEF Quiesce
    <2>6. CASE UNCHANGED vars
      BY <2>6, <1>19 DEF vars
    <2>7. QED
      BY <2>1, <2>2, <2>3, <2>4, <2>5, <2>6, <1>18 DEF Next

\* The invariant holds when nothing has been created yet.
LEMMA InvStart == Init => IInv
  <1> SUFFICES ASSUME Init PROVE IInv
    OBVIOUS
  <1>1. TypeOK
    BY DEF Init, TypeOK
  <1>2. \A j \in JobId : status[j] = Absent
    BY DEF Init
  <1>3. QED
    BY <1>1, <1>2 DEF Init, Absent, IInv, RunsWellFormed, Unborn, StartingIsSpawned,
       RunningIsCancellable, LiveDownloadIsRunning, CancelledRunKnowsIt

\* Every step preserves it.
LEMMA InvStep ==
    ASSUME IInv, [Next]_vars
    PROVE  IInv'
  <1>1. TypeOK'
    BY TypeStep DEF IInv
  <1>2. Unborn'
    BY UnbornStep
  <1>3. RunInv(runs', starting', status', generation', cancelGen', pendingCancels')
    BY RunInvStep
  <1>4. QED
    BY <1>1, <1>2, <1>3
    DEF IInv, RunInv, RunsWellFormed, StartingIsSpawned, RunningIsCancellable,
        LiveDownloadIsRunning, CancelledRunKnowsIt, Unstopped, Superseded, Downloading

\* The inductive invariant of the job manager holds in every reachable state:
\* runs, starting flags, generations, statuses and Job.cancel agree.
THEOREM InductiveInvariant == Spec => []IInv
  <1>1. Init => IInv
    BY InvStart
  <1>2. IInv /\ [Next]_vars => IInv'
    BY InvStep
  <1>3. QED
    BY <1>1, <1>2, PTL DEF Spec

\* A starting flag stands for exactly one goroutine that has yet to claim the
\* job, so the flag never outlives it and never leaks a download slot.
THEOREM StartingIsSpawnedAlways == Spec => []StartingIsSpawned
  <1>1. IInv => StartingIsSpawned
    BY DEF IInv
  <1>2. QED
    BY <1>1, InductiveInvariant, PTL

\* Job.cancel of a running job always reaches the run that is downloading.
THEOREM RunningIsCancellableAlways == Spec => []RunningIsCancellable
  <1>1. IInv => RunningIsCancellable
    BY DEF IInv
  <1>2. QED
    BY <1>1, InductiveInvariant, PTL

\* A download that nobody has stopped, or is about to stop, shows as running.
THEOREM LiveDownloadIsRunningAlways == Spec => []LiveDownloadIsRunning
  <1>1. IInv => LiveDownloadIsRunning
    BY DEF IInv
  <1>2. QED
    BY <1>1, InductiveInvariant, PTL

\* The run of a cancelled job that will record its outcome knows that it was
\* cancelled, so the outcome agrees with the user's decision.
THEOREM CancelledRunKnowsItAlways == Spec => []CancelledRunKnowsIt
  <1>1. IInv => CancelledRunKnowsIt
    BY DEF IInv
  <1>2. QED
    BY <1>1, InductiveInvariant, PTL

\* In the current state, by the generations of the runs.
LEMMA InvAllowsOneLive == IInv => OneLiveDownload
  <1> SUFFICES ASSUME IInv, NEW j \in JobId,
                      NEW r \in Downloading(j), NEW s \in Downloading(j),
                      Unstopped(r), Unstopped(s)
               PROVE  r = s
    BY DEF OneLiveDownload
  <1>1. r \in runs /\ s \in runs /\ r.job = j /\ s.job = j
        /\ r.phase = "download" /\ s.phase = "download"
    BY DEF Downloading
  <1>2. r.gen = generation[j] /\ s.gen = generation[j]
    BY <1>1 DEF IInv, LiveDownloadIsRunning
  <1>3. QED
    BY <1>1, <1>2 DEF IInv, RunsWellFormed

\* However pauses, resumes, retries and limit changes interleave, no job is
\* downloaded by two runs of which neither has been told to stop.
THEOREM OneLiveDownloadAlways == Spec => []OneLiveDownload
  BY InvAllowsOneLive, InductiveInvariant, PTL

---------------------------------------------------------------------------
(* What no step does *)

\* A job that was dispatched is not paused: a pause takes running jobs only.
StartingIsNotPaused == \A j \in starting : status[j] # "paused"

\* No step pauses a dispatched job, and a dispatch takes queued jobs only, so the
\* fact is inductive relative to the invariant.
LEMMA NotPausedStep ==
    ASSUME IInv, StartingIsNotPaused, [Next]_vars
    PROVE  StartingIsNotPaused'
  <1>1. /\ jobs \in SUBSET JobId /\ starting \in SUBSET JobId /\ runs \in SUBSET Run
        /\ status \in [JobId -> Status \cup {Absent}] /\ jobs' \in SUBSET JobId
        /\ \A j \in starting : status[j] # "running"
    BY TypeStep DEF IInv, TypeOK, StartingIsSpawned
  <1>2. ASSUME NEW strt \in SUBSET starting, NEW rs \in SUBSET Run, DispatchLocked(strt, rs),
               \A j \in strt : status'[j] # "paused"
        PROVE  StartingIsNotPaused'
    <2>1. strt \in SUBSET JobId
      BY <1>1, <1>2
    <2>2. \E go \in SUBSET JobId : /\ \A j \in go : status'[j] = "queued"
                                   /\ starting' = strt \cup go
      <3>1. \E go \in SUBSET JobId :
              /\ \A j \in go : status'[j] = "queued" /\ j \in jobs' /\ j \notin strt
              /\ starting' = strt \cup go
              /\ runs' = rs \cup {SpawnedRun(j) : j \in go}
              /\ starting' \in SUBSET JobId
              /\ runs' \in SUBSET Run
        BY <1>1, <1>2, <2>1, DispatchEffect
      <3>2. QED
        BY <3>1
    <2>3. QED
      BY <1>2, <2>2 DEF StartingIsNotPaused
  <1>3. ASSUME NEW req \in Requests, CreateJob(req) PROVE StartingIsNotPaused'
    <2>1. \A j \in starting : status'[j] # "paused"
      BY <1>1, <1>3 DEF CreateJob, StartingIsNotPaused
    <2>2. QED
      BY <1>1, <1>2, <1>3, <2>1 DEF CreateJob
  <1>4. ASSUME NEW j \in JobId, CancelJob(j) \/ PauseJob(j) PROVE StartingIsNotPaused'
    BY <1>1, <1>4 DEF CancelJob, PauseJob, Stop, StartingIsNotPaused
  <1>5. ASSUME NEW j \in JobId, NEW from, RestartJob(j, from) PROVE StartingIsNotPaused'
    <2>1. \A i \in starting : status'[i] # "paused"
      BY <1>1, <1>5 DEF RestartJob, StartingIsNotPaused
    <2>2. QED
      BY <1>1, <1>2, <1>5, <2>1 DEF RestartJob
  <1>6. ASSUME NEW j \in JobId, DismissJob(j) \/ DeleteJob(j) PROVE StartingIsNotPaused'
    BY <1>6 DEF DismissJob, DeleteJob, RemoveJob, StartingIsNotPaused
  <1>7. ASSUME NEW setting \in Limits, UpdateConfig(setting) PROVE StartingIsNotPaused'
    <2> DEFINE excess == Excess(EffectiveMaxActive(setting))
    <2>1. \A j \in starting \ excess : status'[j] # "paused"
      BY <1>1, <1>7 DEF UpdateConfig, StartingIsNotPaused
    <2>2. DispatchLocked(starting \ excess, runs)
      BY <1>7 DEF UpdateConfig
    <2>3. QED
      BY <1>1, <1>2, <2>1, <2>2
  <1>8. ASSUME NEW r \in runs, Claim(r) PROVE StartingIsNotPaused'
    BY <1>1, <1>8 DEF Claim, StartingIsNotPaused
  <1>9. ASSUME NEW r \in runs, NEW success \in BOOLEAN, Finish(r, success)
        PROVE  StartingIsNotPaused'
    <2>1. InPhase(r, "exiting") \in SUBSET Run /\ InPhase(r, "saving") \in SUBSET Run
      BY <1>1, InPhaseEffect
    <2>2. Outcome(r, success) # "paused"
      BY DEF Outcome
    <2>3. \A j \in starting : status'[j] # "paused"
      BY <1>1, <1>9, <2>2 DEF Finish, StartingIsNotPaused
    <2>4. starting' = starting \/ \E rs \in SUBSET Run : DispatchLocked(starting, rs)
      BY <1>9, <2>1 DEF Finish
    <2>5. QED
      BY <1>2, <2>3, <2>4 DEF StartingIsNotPaused
  <1>10. ASSUME NEW r \in runs, Exit(r) PROVE StartingIsNotPaused'
    BY <1>1, <1>2, <1>10 DEF Exit, StartingIsNotPaused
  <1>11. CASE Close
    BY <1>1, <1>11 DEF Close, StartingIsNotPaused
  <1>12. ASSUME UNCHANGED <<starting, status>> PROVE StartingIsNotPaused'
    BY <1>12 DEF StartingIsNotPaused
  <1>13. QED
    BY <1>3, <1>4, <1>5, <1>6, <1>7, <1>8, <1>9, <1>10, <1>11, <1>12
    DEF Next, UserStep, ResumeJob, RetryJob, RunStep, Issue, IssueCancel, SaveReturns,
        StopSaved, RunSaved, FinishClose, Quiesce, vars, schedVars

\* A paused job stays paused until somebody resumes or cancels it: neither the
\* goroutine that unwinds nor one that was dispatched earlier changes it.
THEOREM PauseSticksAlways == Spec => PauseSticks
  <1>1. ASSUME IInv, StartingIsNotPaused, Next, NEW j \in JobId,
               status[j] = "paused", status'[j] # "paused"
        PROVE  CancelJob(j) \/ ResumeJob(j)
    <2>1. /\ status \in [JobId -> Status \cup {Absent}] /\ runs \in SUBSET Run
          /\ jobs \in SUBSET JobId
      BY <1>1 DEF IInv, TypeOK
    <2>2. ASSUME NEW req \in Requests, CreateJob(req) PROVE FALSE
      BY <1>1, <2>1, <2>2 DEF CreateJob, IInv, Unborn, Absent, JobId
    <2>3. ASSUME NEW i \in JobId, CancelJob(i) \/ PauseJob(i) PROVE CancelJob(j)
      BY <1>1, <2>1, <2>3 DEF CancelJob, PauseJob, Stop
    <2>4. ASSUME NEW i \in JobId, ResumeJob(i) \/ RetryJob(i) PROVE ResumeJob(j)
      BY <1>1, <2>1, <2>4 DEF ResumeJob, RetryJob, RestartJob
    <2>5. ASSUME NEW i \in JobId, DismissJob(i) \/ DeleteJob(i) PROVE FALSE
      BY <1>1, <2>5 DEF DismissJob, DeleteJob, RemoveJob
    <2>6. ASSUME NEW setting \in Limits, UpdateConfig(setting) PROVE FALSE
      BY <1>1, <2>1, <2>6 DEF UpdateConfig, Excess
    <2>7. ASSUME NEW r \in runs, Claim(r) PROVE FALSE
      <3>1. r.job = j
        BY <1>1, <2>1, <2>7 DEF Claim
      <3>2. r = SpawnedRun(j)
        BY <1>1, <2>7, <3>1 DEF IInv, RunsWellFormed, Claim
      <3>3. j \in starting
        BY <1>1, <3>2 DEF IInv, StartingIsSpawned
      <3>4. QED
        BY <1>1, <3>3 DEF StartingIsNotPaused
    <2>8. ASSUME NEW r \in runs, NEW success \in BOOLEAN, Finish(r, success) PROVE FALSE
      BY <1>1, <2>1, <2>8 DEF Finish, Superseded
    <2>9. CASE Close
      BY <1>1, <2>1, <2>9 DEF Close
    <2>10. ASSUME UNCHANGED status PROVE FALSE
      BY <1>1, <2>10
    <2>11. QED
      BY <1>1, <2>2, <2>3, <2>4, <2>5, <2>6, <2>7, <2>8, <2>9, <2>10
      DEF Next, UserStep, RunStep, Exit, Issue, IssueCancel, SaveReturns, StopSaved,
          RunSaved, FinishClose, Quiesce, schedVars
  <1>2. IInv /\ StartingIsNotPaused /\ [Next]_vars
          => [\A j \in JobId : status[j] = "paused" /\ status'[j] # "paused"
                 => CancelJob(j) \/ ResumeJob(j)]_vars
    BY <1>1
  <1>3. Init => StartingIsNotPaused
    BY DEF Init, StartingIsNotPaused
  <1>4. QED
    BY <1>2, <1>3, NotPausedStep, InductiveInvariant, PTL DEF Spec, PauseSticks

\* One dispatch starts no job while it leaves an older queued one waiting.
LEMMA DispatchOldestFirst ==
    ASSUME NEW js \in SUBSET JobId, NEW stat, NEW strt, NEW limit \in Nat,
           NEW k \in ToStart(js, stat, strt, limit),
           NEW j \in js, j < k, stat[j] = "queued", j \notin strt
    PROVE  j \in ToStart(js, stat, strt, limit)
  <1> DEFINE active == {i \in js : stat[i] = "running" \/ i \in strt}
             queued == {i \in js : stat[i] = "queued"} \ strt
             ahead(i) == {h \in queued : h < i}
  <1>1. k \in queued /\ ~fenced /\ Cardinality(active) + Cardinality(ahead(k)) < limit
    BY DEF ToStart
  <1>2. ahead(j) \subseteq ahead(k) /\ ahead(k) \in SUBSET JobId /\ active \in SUBSET JobId
    <2>1. \A h \in JobId : h \in Int
      BY ConstantsAssumption DEF JobId
    <2>2. queued \in SUBSET JobId /\ active \in SUBSET JobId
      OBVIOUS
    <2>3. j \in JobId /\ k \in JobId
      <3> HIDE DEF active, queued
      <3> QED BY <1>1, <2>2
    <2>4. ASSUME NEW h \in JobId, h < j PROVE h < k
      BY <2>1, <2>3, <2>4
    <2>5. QED
      <3> HIDE DEF active, queued
      <3> QED BY <2>2, <2>4
  <1>3. /\ Cardinality(ahead(j)) <= Cardinality(ahead(k))
        /\ Cardinality(ahead(j)) \in Nat /\ Cardinality(ahead(k)) \in Nat
        /\ Cardinality(active) \in Nat
    BY <1>2, JobSetsFinite, FS_Subset
  <1>4. Cardinality(active) + Cardinality(ahead(j)) < limit
    BY <1>1, <1>3
  <1>5. QED
    BY <1>1, <1>4 DEF ToStart

\* What OldestFirst says of one step, which every section of the manager keeps.
StartsOldestFirst ==
    \A j, k \in JobId :
        j < k /\ k \in starting' \ starting /\ j \in jobs' /\ status'[j] = "queued"
           => j \in starting'

LEMMA OldestFirstStep ==
    ASSUME TypeOK, Next
    PROVE  StartsOldestFirst
  <1>1. TypeOK'
    BY TypeStep
  <1>2. ASSUME NEW strt \in SUBSET starting, NEW rs, DispatchLocked(strt, rs)
        PROVE  StartsOldestFirst
    <2>1. jobs' \in SUBSET JobId /\ EffectiveMaxActive(maxActive') \in Nat
      BY <1>1, ConstantsAssumption DEF TypeOK, EffectiveMaxActive
    <2>2. starting' = strt \cup ToStart(jobs', status', strt, EffectiveMaxActive(maxActive'))
      BY <1>2 DEF DispatchLocked
    <2> SUFFICES ASSUME NEW j \in JobId, NEW k \in JobId, j < k,
                        k \in starting' \ starting, j \in jobs', status'[j] = "queued",
                        j \notin strt
                 PROVE  j \in starting'
      BY <2>2 DEF StartsOldestFirst
    <2> DEFINE go == ToStart(jobs', status', strt, EffectiveMaxActive(maxActive'))
    <2>3. k \in go
      BY <1>2, <2>2
    <2>4. j \in go
      <3> HIDE DEF go
      <3>1. go = ToStart(jobs', status', strt, EffectiveMaxActive(maxActive'))
        BY DEF go
      <3>2. QED
        BY <2>1, <2>3, <3>1, DispatchOldestFirst
    <2>5. QED
      BY <2>2, <2>4
  <1>3. ASSUME starting' \in SUBSET starting PROVE StartsOldestFirst
    BY <1>3 DEF StartsOldestFirst
  <1>4. \/ starting' \in SUBSET starting
        \/ \E strt \in SUBSET starting : \E rs : DispatchLocked(strt, rs)
    BY DEF Next, UserStep, CreateJob, CancelJob, PauseJob, Stop, ResumeJob, RetryJob,
       RestartJob, DismissJob, DeleteJob, RemoveJob, UpdateConfig, RunStep, Claim, Finish,
       Exit, Issue, IssueCancel, SaveReturns, StopSaved, RunSaved, FinishClose, Quiesce,
       Close, schedVars
  <1>5. QED
    BY <1>2, <1>3, <1>4

\* The queue is first in, first out: whichever section dispatches, no job starts
\* while an older one waits.
THEOREM OldestFirstAlways == Spec => OldestFirst
  <1>1. TypeOK /\ [Next]_vars => [StartsOldestFirst]_vars
    BY OldestFirstStep
  <1>2. QED
    BY <1>1, TypeCorrect, PTL DEF Spec, OldestFirst, StartsOldestFirst

---------------------------------------------------------------------------
(***************************************************************************)
(* The slots: how many jobs a dispatch starts.                             *)
(***************************************************************************)

\* A set of jobs that is not empty has an oldest and a youngest one.
LEMMA OldestAndYoungest ==
    ASSUME NEW S \in SUBSET JobId, S # {}
    PROVE  /\ \E j \in S : \A k \in S : j <= k
           /\ \E j \in S : \A k \in S : k <= j
  <1>1. \A j \in S : j \in Int
    BY ConstantsAssumption DEF JobId
  <1>2. FiniteSubsetsOf(S) = SUBSET S /\ IsWellFoundedOn(StrictSubsetOrdering(S), SUBSET S)
    BY JobSetsFinite, FS_FiniteSubsetsOfFinite, FS_StrictSubsetOrderingWellFounded
  <1>3. \E j \in S : \A k \in S : j <= k
    <2> DEFINE older(j) == {k \in S : k < j}
               T == {older(j) : j \in S}
    <2>1. T \subseteq SUBSET S /\ T # {}
      OBVIOUS
    <2> HIDE DEF T
    <2>2. \E x \in T : \A y \in T : <<y, x>> \notin StrictSubsetOrdering(S)
      BY <1>2, <2>1, WFMin
    <2>3. PICK j \in S : \A y \in T : <<y, older(j)>> \notin StrictSubsetOrdering(S)
      BY <2>2 DEF T
    <2>4. ASSUME NEW k \in S, k < j PROVE FALSE
      <3>1. older(k) \in T /\ older(k) \subseteq older(j) /\ older(k) # older(j)
        BY <1>1, <2>4 DEF T
      <3>2. <<older(k), older(j)>> \in StrictSubsetOrdering(S)
        BY <3>1 DEF StrictSubsetOrdering
      <3>3. QED
        BY <2>3, <3>1, <3>2
    <2>5. QED
      BY <1>1, <2>4
  <1>4. \E j \in S : \A k \in S : k <= j
    <2> DEFINE younger(j) == {k \in S : k > j}
               T == {younger(j) : j \in S}
    <2>1. T \subseteq SUBSET S /\ T # {}
      OBVIOUS
    <2> HIDE DEF T
    <2>2. \E x \in T : \A y \in T : <<y, x>> \notin StrictSubsetOrdering(S)
      BY <1>2, <2>1, WFMin
    <2>3. PICK j \in S : \A y \in T : <<y, younger(j)>> \notin StrictSubsetOrdering(S)
      BY <2>2 DEF T
    <2>4. ASSUME NEW k \in S, k > j PROVE FALSE
      <3>1. younger(k) \in T /\ younger(k) \subseteq younger(j) /\ younger(k) # younger(j)
        BY <1>1, <2>4 DEF T
      <3>2. <<younger(k), younger(j)>> \in StrictSubsetOrdering(S)
        BY <3>1 DEF StrictSubsetOrdering
      <3>3. QED
        BY <2>3, <3>1, <3>2
    <2>5. QED
      BY <1>1, <2>4
  <1>5. QED
    BY <1>3, <1>4

\* The jobs that occupy a slot when dispatchLocked is entered.
Busy(js, stat, strt) == {j \in js : stat[j] = "running" \/ j \in strt}

\* A dispatch that starts any job fills no more slots than there are, and one
\* that leaves a job waiting has filled them all.
LEMMA DispatchFillsSlots ==
    ASSUME NEW js \in SUBSET JobId, NEW stat, NEW strt, NEW limit \in Nat
    PROVE  LET busy == Busy(js, stat, strt)
               go == ToStart(js, stat, strt, limit)
           IN  /\ go # {} => Cardinality(busy \cup go) <= limit
               /\ \A j \in js : ~fenced /\ stat[j] = "queued" /\ j \notin strt /\ j \notin go
                     => Cardinality(busy \cup go) >= limit
  <1> DEFINE busy == Busy(js, stat, strt)
             go == ToStart(js, stat, strt, limit)
             queued == {j \in js : stat[j] = "queued"} \ strt
             ahead(j) == {k \in queued : k < j}
  <1>1. go = {j \in queued : ~fenced /\ Cardinality(busy) + Cardinality(ahead(j)) < limit}
    BY DEF ToStart, Busy
  <1>2. /\ queued \in SUBSET JobId /\ busy \in SUBSET JobId /\ busy \cap queued = {}
        /\ go \subseteq queued
    BY <1>1 DEF Busy
  <1> HIDE DEF queued, busy, go
  <1>3. \A j : ahead(j) \in SUBSET JobId
    BY <1>2
  <1>4. /\ IsFiniteSet(busy) /\ IsFiniteSet(go) /\ Cardinality(busy) \in Nat
        /\ Cardinality(go) \in Nat
        /\ \A j : IsFiniteSet(ahead(j)) /\ Cardinality(ahead(j)) \in Nat
    BY <1>2, <1>3, JobSetsFinite
  <1>5. Cardinality(busy \cup go) = Cardinality(busy) + Cardinality(go)
    <2>1. busy \cap go = {}
      BY <1>2
    <2>2. Cardinality(busy \cup go)
             = Cardinality(busy) + Cardinality(go) - Cardinality(busy \cap go)
      BY <1>4, FS_Union
    <2>3. Cardinality(busy \cap go) = 0
      BY <2>1, FS_EmptySet, Zenon
    <2>4. Cardinality(busy) \in Nat /\ Cardinality(go) \in Nat
      BY <1>4
    <2> HIDE DEF ahead
    <2>5. QED
      BY <2>2, <2>3, <2>4
  <1>6. \A j \in queued : j \in Int
    BY <1>2, ConstantsAssumption DEF JobId
  <1>7. ASSUME go # {} PROVE Cardinality(busy \cup go) <= limit
    <2>1. PICK m \in go : \A k \in go : k <= m
      BY <1>2, <1>7, OldestAndYoungest
    <2>2. go \subseteq ahead(m) \cup {m}
      BY <1>2, <1>6, <2>1
    <2>3. Cardinality(go) <= Cardinality(ahead(m)) + 1
      <3> DEFINE older == ahead(m)
      <3>0. IsFiniteSet(older) /\ Cardinality(older) \in Nat
        BY <1>4
      <3> HIDE DEF older
      <3>1. /\ IsFiniteSet(older \cup {m})
            /\ Cardinality(older \cup {m}) <= Cardinality(older) + 1
        <4>1. IsFiniteSet(older \cup {m})
          BY <3>0, FS_AddElement
        <4>2. Cardinality(older \cup {m})
                = IF m \in older THEN Cardinality(older) ELSE Cardinality(older) + 1
          BY <3>0, FS_AddElement
        <4>3. QED
          BY <3>0, <4>1, <4>2
      <3>2. /\ Cardinality(go) <= Cardinality(older \cup {m})
            /\ Cardinality(older \cup {m}) \in Nat
        <4>1. go \subseteq older \cup {m}
          BY <2>2 DEF older
        <4>2. Cardinality(go) <= Cardinality(older \cup {m})
          BY <3>1, <4>1, FS_Subset
        <4>3. Cardinality(older \cup {m}) \in Nat
          BY <3>1, FS_CardinalityType
        <4>4. QED
          BY <4>2, <4>3
      <3>3. QED
        BY <1>4, <3>0, <3>1, <3>2 DEF older
    <2>4. Cardinality(busy) + Cardinality(ahead(m)) < limit
      BY <1>1, <2>1
    <2>5. Cardinality(ahead(m)) \in Nat
      BY <1>4
    <2> HIDE DEF ahead
    <2>6. QED
      BY <1>4, <1>5, <2>3, <2>4, <2>5
  <1>8. ASSUME NEW j \in js, ~fenced, stat[j] = "queued", j \notin strt, j \notin go
        PROVE  Cardinality(busy \cup go) >= limit
    <2>1. j \in queued \ go
      BY <1>8 DEF queued
    <2>2. PICK m \in queued \ go : \A k \in queued \ go : m <= k
      <3>1. queued \ go \in SUBSET JobId
        BY <1>2
      <3>2. QED
        BY <2>1, <3>1, OldestAndYoungest
    <2>3. ahead(m) \subseteq go
      BY <1>6, <2>2
    <2>4. Cardinality(ahead(m)) <= Cardinality(go)
      BY <1>4, <2>3, FS_Subset
    <2>5. ~(Cardinality(busy) + Cardinality(ahead(m)) < limit)
      BY <1>1, <1>8, <2>2
    <2>6. Cardinality(ahead(m)) \in Nat
      BY <1>4
    <2> HIDE DEF ahead
    <2>7. QED
      BY <1>4, <1>5, <2>4, <2>5, <2>6
  <1>9. QED
    BY <1>7, <1>8 DEF busy, go

\* A section that ends with a dispatch, and otherwise fills no slot.
Refills(strt, rs) ==
    /\ DispatchLocked(strt, rs)
    /\ fenced' = fenced
    /\ Busy(jobs', status', strt) \subseteq Active

\* Such a section stays within the limit if it starts a job at all, and leaves
\* no slot free that a job waits for.
LEMMA RefillSlots ==
    ASSUME TypeOK', NEW strt, NEW rs, Refills(strt, rs)
    PROVE  /\ \/ Active' \subseteq Active
              \/ Cardinality(Active') <= EffectiveMaxActive(maxActive')
           /\ ~fenced' /\ (\E j \in jobs' : status'[j] = "queued" /\ j \notin starting')
                 => Cardinality(Active') >= EffectiveMaxActive(maxActive')
  <1> DEFINE limit == EffectiveMaxActive(maxActive')
             go == ToStart(jobs', status', strt, limit)
             busy == Busy(jobs', status', strt)
  <1>1. jobs' \in SUBSET JobId /\ limit \in Nat
    BY ConstantsAssumption DEF TypeOK, EffectiveMaxActive
  <1>2. starting' = strt \cup go /\ fenced' = fenced /\ busy \subseteq Active
    BY DEF Refills, DispatchLocked
  <1>3. go \subseteq jobs'
    BY ToStartRange
  <1>4. Active' = busy \cup go
    <2> HIDE DEF go
    <2> QED BY <1>2, <1>3 DEF Active, Busy
  <1>5. /\ go # {} => Cardinality(busy \cup go) <= limit
        /\ \A j \in jobs' : ~fenced /\ status'[j] = "queued" /\ j \notin strt /\ j \notin go
              => Cardinality(busy \cup go) >= limit
    <2> HIDE DEF limit
    <2>1. QED
      BY <1>1, DispatchFillsSlots
  <1> HIDE DEF go, busy, limit
  <1>6. Active' \subseteq Active \/ Cardinality(Active') <= limit
    BY <1>2, <1>4, <1>5
  <1>7. ~fenced' /\ (\E j \in jobs' : status'[j] = "queued" /\ j \notin starting')
           => Cardinality(Active') >= limit
    BY <1>2, <1>4, <1>5
  <1>8. QED
    BY <1>6, <1>7 DEF limit

\* The goroutines that the proof of FreeSlotIsServed counts on: a spawned one
\* counts only when its job has been removed, because the claim of a cancelled
\* job makes that job run, and its goroutine serves the queue much later.
OnItsWay(r) == r.job \notin jobs \/ (r.phase # "spawned" /\ ~Unstopped(r))

SlotIsServed ==
    (/\ ~fenced
     /\ Cardinality(Active) < EffectiveMaxActive(maxActive)
     /\ \E j \in jobs : status[j] = "queued" /\ j \notin starting)
        => \E r \in runs : OnItsWay(r)

\* A section that ends without a dispatch: it fills no slot, and where it frees
\* one or adds to the queue a goroutine is on its way out.
Leaves ==
    /\ Active' \subseteq Active
    /\ \/ fenced'
       \/ \E r \in runs' : OnItsWay(r)'
       \/ /\ Active' = Active /\ maxActive' = maxActive /\ fenced' = fenced
          /\ \A j \in jobs' : status'[j] = "queued" /\ j \notin starting'
                => j \in jobs /\ status[j] = "queued" /\ j \notin starting
          /\ \A r \in runs : OnItsWay(r) => \E s \in runs' : OnItsWay(s)'

\* Every step is of one of the two kinds.
LEMMA RefillsOrLeaves ==
    ASSUME IInv, Next
    PROVE  Leaves \/ \E strt, rs : Refills(strt, rs)
  <1>1. /\ jobs \in SUBSET JobId /\ starting \in SUBSET JobId /\ runs \in SUBSET Run
        /\ status \in [JobId -> Status \cup {Absent}] /\ nextId \in Nat
        /\ pendingCancels \in SUBSET (JobId \X Nat)
    BY DEF IInv, TypeOK
  <1>2. /\ \A j \in JobId : j \in starting <=> SpawnedRun(j) \in runs
        /\ \A r \in runs : r.phase = "spawned" => r = SpawnedRun(r.job)
        /\ \A r \in runs : r.job < nextId
        /\ \A j \in JobId : j >= nextId => j \notin jobs
    BY DEF IInv, StartingIsSpawned, RunsWellFormed, Unborn
  <1>3. ASSUME NEW j \in JobId, status[j] = "running"
        PROVE  \E r \in runs : r.job = j /\ r.phase = "download" /\ r.gen = generation[j]
                                 /\ cancelGen[j] = generation[j]
    BY <1>3 DEF IInv, RunningIsCancellable, Downloading
  <1>4. ASSUME NEW req \in Requests, CreateJob(req) PROVE Refills(starting, runs)
    <2>1. nextId \notin starting
      <3>1. nextId \in JobId
        BY <1>4 DEF CreateJob
      <3>2. ~(nextId < nextId)
        BY <1>1
      <3>3. QED
        BY <1>2, <3>1, <3>2, SpawnedRunType
    <2>2. QED
      BY <1>1, <1>4, <2>1 DEF CreateJob, Refills, Busy, Active
  <1>5. ASSUME NEW j \in JobId, NEW from, RestartJob(j, from) PROVE Refills(starting, runs)
    BY <1>1, <1>5 DEF RestartJob, Refills, Busy, Active
  <1>6. ASSUME NEW setting \in Limits, UpdateConfig(setting)
        PROVE  \E strt, rs : Refills(strt, rs)
    <2> DEFINE excess == Excess(EffectiveMaxActive(setting))
    <2>1. /\ DispatchLocked(starting \ excess, runs) /\ UNCHANGED <<jobs, fenced>>
          /\ status' = [j \in JobId |-> IF j \in excess THEN "queued" ELSE status[j]]
      BY <1>6 DEF UpdateConfig
    <2> HIDE DEF excess
    <2>2. Refills(starting \ excess, runs)
      BY <1>1, <2>1 DEF Refills, Busy, Active
    <2>3. QED
      BY <2>2
  <1>7. ASSUME NEW r \in runs, Exit(r) PROVE Refills(starting, runs \ {r})
    BY <1>7 DEF Exit, Refills, Busy, Active
  <1>8. ASSUME NEW r \in runs, NEW success \in BOOLEAN, Finish(r, success)
        PROVE  Leaves \/ \E strt, rs : Refills(strt, rs)
    <2>1. CASE Superseded(r) /\ generation[r.job] # r.gen
      <3>1. Active' = Active
        BY <1>8, <2>1 DEF Finish, Active
      <3>2. \E s \in runs' : s.phase = "exiting"
        <4>1. runs' = InPhase(r, "exiting") /\ r \in Run
          BY <1>1, <1>8, <2>1 DEF Finish
        <4>2. [r EXCEPT !.phase = "exiting", !.cancelled = FALSE].phase = "exiting"
          BY <4>1 DEF Run
        <4>3. QED
          BY <4>1, <4>2 DEF InPhase
      <3>3. QED
        BY <3>1, <3>2 DEF Leaves, OnItsWay, Unstopped
    <2>2. CASE Superseded(r) /\ generation[r.job] = r.gen
      <3>1. Refills(starting, InPhase(r, "exiting"))
        BY <1>8, <2>2 DEF Finish, Refills, Busy, Active
      <3>2. QED
        BY <3>1
    <2>3. CASE ~Superseded(r)
      <3>1. Outcome(r, success) # "running"
        BY DEF Outcome
      <3>2. Refills(starting, InPhase(r, "saving"))
        BY <1>1, <1>8, <2>3, <3>1 DEF Finish, Refills, Busy, Active
      <3>3. QED
        BY <3>2
    <2>4. QED
      BY <2>1, <2>2, <2>3
  <1>9. ASSUME NEW j \in JobId, NEW g \in Nat, runs' = CancelRun(runs, j, g)
        PROVE  \A q \in runs : \E s \in runs' : s.job = q.job /\ s.gen = q.gen
                     /\ s.phase = q.phase /\ (q.cancelled => s.cancelled)
                     /\ (s.job = j /\ s.gen = g /\ s.phase = "download" => s.cancelled)
    <2> TAKE q \in runs
    <2> DEFINE s == IF q.job = j /\ q.gen = g /\ q.phase = "download"
                    THEN [q EXCEPT !.cancelled = TRUE] ELSE q
    <2>1. s \in runs'
      BY <1>9 DEF CancelRun
    <2>2. q \in Run
      BY <1>1
    <2>3. /\ s.job = q.job /\ s.gen = q.gen /\ s.phase = q.phase
          /\ q.cancelled => s.cancelled
          /\ s.job = j /\ s.gen = g /\ s.phase = "download" => s.cancelled
      BY <2>2 DEF Run
    <2>4. QED
      BY <2>1, <2>3
  <1>10. ASSUME NEW j \in JobId, NEW from, NEW to, to \notin {"running", "queued"},
                Stop(j, from, to)
         PROVE  Leaves
    <2>1. /\ runs' = CancelRun(runs, j, cancelGen[j]) /\ cancelGen[j] \in Nat
          /\ status' = [status EXCEPT ![j] = to]
          /\ UNCHANGED <<jobs, starting, maxActive, fenced, pendingCancels>>
      BY <1>10 DEF Stop, CancelCurrent, IInv, TypeOK
    <2>2. Active' \subseteq Active
      BY <1>1, <1>10, <2>1 DEF Active
    <2>3. CASE status[j] = "running"
      <3>1. PICK q \in runs : q.job = j /\ q.phase = "download" /\ q.gen = cancelGen[j]
        BY <1>3, <2>3
      <3>2. PICK s \in runs' : s.job = j /\ s.phase = "download" /\ s.cancelled
        BY <1>9, <2>1, <3>1
      <3>3. OnItsWay(s)'
        BY <3>2 DEF OnItsWay, Unstopped
      <3>4. QED
        BY <2>2, <3>3 DEF Leaves
    <2>4. CASE status[j] # "running"
      <3>1. Active' = Active
        BY <1>1, <1>10, <2>1, <2>4 DEF Active
      <3>2. ASSUME NEW q \in runs, OnItsWay(q) PROVE \E s \in runs' : OnItsWay(s)'
        <4>1. PICK s \in runs' : /\ s.job = q.job /\ s.gen = q.gen /\ s.phase = q.phase
                                 /\ q.cancelled => s.cancelled
          BY <1>9, <2>1
        <4>2. QED
          BY <2>1, <3>2, <4>1 DEF OnItsWay, Unstopped
      <3>3. QED
        BY <1>1, <1>10, <2>1, <3>1, <3>2 DEF Leaves
    <2>5. QED
      BY <2>3, <2>4
  <1>11. ASSUME NEW j \in JobId, DismissJob(j) \/ DeleteJob(j) PROVE Leaves
    <2>1. /\ UNCHANGED <<status, starting, maxActive, fenced, pendingCancels>>
          /\ jobs' = jobs \ {j} /\ j \in jobs
          /\ runs' = runs \/ runs' = CancelRun(runs, j, cancelGen[j])
          /\ cancelGen[j] \in Nat
      BY <1>11 DEF DismissJob, DeleteJob, RemoveJob, CancelCurrent, shutVars, IInv, TypeOK
    <2>2. Active' \subseteq Active
      BY <2>1 DEF Active
    <2>3. \A q \in runs : \E s \in runs' : s.job = q.job /\ s.gen = q.gen
                     /\ s.phase = q.phase /\ (q.cancelled => s.cancelled)
      BY <1>9, <2>1
    <2>4. CASE j \in Active
      <3>1. \E q \in runs : q.job = j
        BY <1>2, <1>3, <2>4, SpawnedRunType DEF Active
      <3>2. \E s \in runs' : s.job = j
        BY <2>3, <3>1
      <3>3. QED
        BY <2>1, <2>2, <3>2 DEF Leaves, OnItsWay
    <2>5. CASE j \notin Active
      <3>1. Active' = Active
        BY <2>1, <2>5 DEF Active
      <3>2. ASSUME NEW q \in runs, OnItsWay(q) PROVE \E s \in runs' : OnItsWay(s)'
        <4>1. PICK s \in runs' : s.job = q.job /\ s.gen = q.gen
                     /\ s.phase = q.phase /\ (q.cancelled => s.cancelled)
          BY <2>3
        <4>2. QED
          BY <2>1, <3>2, <4>1 DEF OnItsWay, Unstopped
      <3>3. QED
        BY <2>1, <3>1, <3>2 DEF Leaves
    <2>6. QED
      BY <2>4, <2>5
  <1>12. ASSUME NEW r \in runs, Claim(r) PROVE Leaves
    <2>1. /\ r \in Run /\ r.job \in JobId /\ r.phase = "spawned"
          /\ r = SpawnedRun(r.job) /\ r.job \in starting
          /\ starting' = starting \ {r.job}
          /\ UNCHANGED <<jobs, maxActive, fenced, pendingCancels>>
      BY <1>1, <1>2, <1>12 DEF Claim, Run, shutVars
    <2>2. CASE fenced
      BY <1>12, <2>1, <2>2 DEF Leaves, Active, Claim
    <2>3. CASE ~fenced
      <3> DEFINE own == [r EXCEPT !.gen = generation[r.job] + 1, !.phase = "download"]
      <3>1. runs' = (runs \ {r}) \cup {own} /\ status' = [status EXCEPT ![r.job] = "running"]
        BY <1>12, <2>3 DEF Claim
      <3>2. own.job = r.job
        BY <2>1 DEF Run
      <3> HIDE DEF own
      <3>3. Active' = Active
        BY <1>1, <2>1, <3>1 DEF Active
      <3>4. ASSUME NEW q \in runs, OnItsWay(q) PROVE \E s \in runs' : OnItsWay(s)'
        <4>1. CASE q = r
          BY <2>1, <3>1, <3>2, <3>4, <4>1 DEF OnItsWay
        <4>2. CASE q # r
          <5>1. q \in runs'
            BY <3>1, <4>2
          <5>2. OnItsWay(q)'
            BY <2>1, <3>4 DEF OnItsWay, Unstopped
          <5>3. QED
            BY <5>1, <5>2
        <4>3. QED
          BY <4>1, <4>2
      <3>5. \A j \in jobs' : status'[j] = "queued" /\ j \notin starting'
                => j \in jobs /\ status[j] = "queued" /\ j \notin starting
        BY <1>1, <2>1, <3>1
      <3>6. QED
        BY <2>1, <3>3, <3>4, <3>5 DEF Leaves
    <2>4. QED
      BY <2>2, <2>3
  <1>13. ASSUME NEW c \in pendingCancels, IssueCancel(c) PROVE Leaves
    <2>1. PICK j \in JobId, g \in Nat : c = <<j, g>>
      BY <1>1
    <2>2. /\ runs' = CancelRun(runs, j, g) /\ pendingCancels' = pendingCancels \ {<<j, g>>}
          /\ UNCHANGED <<jobs, status, starting, maxActive, fenced>>
      BY <1>13, <2>1 DEF IssueCancel
    <2>3. Active' = Active
      BY <2>2 DEF Active
    <2>4. ASSUME NEW q \in runs, OnItsWay(q) PROVE \E s \in runs' : OnItsWay(s)'
      <3>1. PICK s \in runs' : s.job = q.job /\ s.gen = q.gen
                     /\ s.phase = q.phase /\ (q.cancelled => s.cancelled)
                     /\ (s.job = j /\ s.gen = g /\ s.phase = "download" => s.cancelled)
        BY <1>9, <2>2
      <3>2. <<s.job, s.gen>> \in pendingCancels /\ ~s.cancelled /\ s.phase = "download"
               => <<s.job, s.gen>> \in pendingCancels'
        BY <2>2, <3>1
      <3>3. OnItsWay(s)'
        BY <2>2, <2>4, <3>1, <3>2 DEF OnItsWay, Unstopped
      <3>4. QED
        BY <3>3
    <2>5. QED
      BY <2>2, <2>3, <2>4 DEF Leaves
  <1>14. ASSUME NEW r \in runs, RunSaved(r) PROVE Leaves
    <2>1. runs' = InPhase(r, "exiting") /\ r \in Run
          /\ UNCHANGED <<jobs, status, starting>>
      BY <1>1, <1>14 DEF RunSaved
    <2>2. [r EXCEPT !.phase = "exiting", !.cancelled = FALSE].phase = "exiting"
      BY <2>1 DEF Run
    <2>3. \E s \in runs' : s.phase = "exiting"
      BY <2>1, <2>2 DEF InPhase
    <2>4. QED
      BY <2>1, <2>3 DEF Leaves, OnItsWay, Unstopped, Active
  <1>15. ASSUME UNCHANGED <<jobs, status, starting, maxActive, fenced, runs, pendingCancels>>
         PROVE  Leaves
    BY <1>15 DEF Leaves, OnItsWay, Unstopped, Active
  <1>16. CASE Quiesce
    BY <1>16 DEF Quiesce, Leaves, Active
  <1>17. CASE Close
    BY <1>1, <1>17 DEF Close, Leaves, Active
  <1>18. QED
    <2>1. CASE UserStep
      BY <2>1, <1>4, <1>5, <1>6, <1>10, <1>11
      DEF UserStep, CancelJob, PauseJob, ResumeJob, RetryJob
    <2>2. ASSUME NEW r \in runs, RunStep(r) PROVE Leaves \/ \E strt, rs : Refills(strt, rs)
      BY <2>2, <1>7, <1>8, <1>12 DEF RunStep
    <2>3. CASE Issue
      BY <2>3, <1>13 DEF Issue
    <2>4. CASE SaveReturns
      BY <2>4, <1>14, <1>15 DEF SaveReturns, StopSaved, FinishClose, schedVars
    <2>5. QED
      BY <2>1, <2>2, <2>3, <2>4, <1>16, <1>17 DEF Next

\* What NoGrowthAboveLimit says of one step.
GrowsWithinLimit ==
    Cardinality(Active') > Cardinality(Active)
       => Cardinality(Active') <= EffectiveMaxActive(maxActive')

LEMMA GrowthStep ==
    ASSUME IInv, Next
    PROVE  GrowsWithinLimit
  <1>1. TypeOK'
    BY TypeStep DEF IInv
  <1>2. Active' \subseteq Active \/ Cardinality(Active') <= EffectiveMaxActive(maxActive')
    BY <1>1, RefillsOrLeaves, RefillSlots DEF Leaves
  <1>3. Active \in SUBSET JobId /\ Active' \in SUBSET JobId
    BY <1>1 DEF Active, IInv, TypeOK
  <1>4. /\ Cardinality(Active) \in Nat /\ Cardinality(Active') \in Nat
        /\ Active' \subseteq Active => Cardinality(Active') <= Cardinality(Active)
    BY <1>3, JobSetsFinite, FS_Subset
  <1>5. QED
    BY <1>2, <1>4 DEF GrowsWithinLimit

\* The active count never grows past the limit: whichever section starts jobs,
\* it fits them into the free slots, and no other section fills one.
THEOREM NoGrowthAboveLimitAlways == Spec => NoGrowthAboveLimit
  <1>1. IInv /\ [Next]_vars => [GrowsWithinLimit]_vars
    BY GrowthStep
  <1>2. QED
    BY <1>1, InductiveInvariant, PTL DEF Spec, NoGrowthAboveLimit, GrowsWithinLimit

\* The stronger fact that names the goroutine's way out is inductive.
LEMMA SlotStep ==
    ASSUME IInv, SlotIsServed, [Next]_vars
    PROVE  SlotIsServed'
  <1>1. TypeOK /\ TypeOK'
    BY TypeStep DEF IInv
  <1>2. ASSUME NEW strt, NEW rs, Refills(strt, rs) PROVE SlotIsServed'
    <2>1. ~fenced' /\ (\E j \in jobs' : status'[j] = "queued" /\ j \notin starting')
             => Cardinality(Active') >= EffectiveMaxActive(maxActive')
      BY <1>1, <1>2, RefillSlots
    <2>2. Cardinality(Active') \in Nat /\ EffectiveMaxActive(maxActive') \in Nat
      <3>1. Active' \in SUBSET JobId
        BY <1>1 DEF Active, TypeOK
      <3>2. QED
        BY <1>1, <3>1, JobSetsFinite, ConstantsAssumption DEF TypeOK, EffectiveMaxActive
    <2>3. QED
      BY <2>1, <2>2 DEF SlotIsServed
  <1>3. ASSUME Leaves PROVE SlotIsServed'
    BY <1>3 DEF Leaves, SlotIsServed
  <1>4. CASE UNCHANGED vars
    BY <1>4 DEF vars, schedVars, shutVars, SlotIsServed, OnItsWay, Unstopped, Active
  <1>5. QED
    BY <1>2, <1>3, <1>4, RefillsOrLeaves

LEMMA SlotSuffices == SlotIsServed => FreeSlotIsServed
  BY DEF SlotIsServed, FreeSlotIsServed, OnItsWay, Leaving, Unstopped

\* No wakeup is lost: while a slot is free and a job waits for it, a goroutine
\* that will serve the queue is on its way out, in whatever order pauses,
\* cancels, removals, claims and limit changes came.
THEOREM FreeSlotIsServedAlways == Spec => []FreeSlotIsServed
  <1>1. Init => SlotIsServed
    BY DEF Init, SlotIsServed
  <1>2. IInv /\ SlotIsServed /\ [Next]_vars => SlotIsServed'
    BY SlotStep
  <1>3. QED
    BY <1>1, <1>2, SlotSuffices, InductiveInvariant, PTL DEF Spec

---------------------------------------------------------------------------
(* The runs, as far as the saves depend on them *)

Working(r) == r.phase \in {"download", "saving"}

\* The job and the generation tell the runs apart that download or save.
Distinct(rs, gen) ==
    /\ \A r \in rs : Working(r) => r.gen \in 1 .. gen[r.job]
    /\ \A r, s \in rs : Working(r) /\ Working(s) /\ r.job = s.job /\ r.gen = s.gen => r = s

RunsAreDistinct == Distinct(runs, generation)

\* A cancel leaves the runs apart, and those that save as they are.
LEMMA CancelKeepsRuns ==
    ASSUME NEW rs \in SUBSET Run, NEW gen, Distinct(rs, gen), NEW j, NEW g
    PROVE  /\ Distinct(CancelRun(rs, j, g), gen)
           /\ \A r \in rs : r.phase = "saving" => r \in CancelRun(rs, j, g)
  <1> DEFINE hit(r) == r.job = j /\ r.gen = g /\ r.phase = "download"
             image(r) == IF hit(r) THEN [r EXCEPT !.cancelled = TRUE] ELSE r
             all == CancelRun(rs, j, g)
  <1>1. all = {image(r) : r \in rs}
    BY DEF CancelRun
  <1>2. \A r \in rs : /\ image(r).job = r.job /\ image(r).gen = r.gen
                      /\ image(r).phase = r.phase
                      /\ ~hit(r) => image(r) = r
    BY DEF Run
  <1>3. \A r \in rs : r.phase = "saving" => image(r) = r
    BY <1>2
  <1> HIDE DEF image, all
  <1>4. Distinct(all, gen)
    <2>1. \A s \in all : \E r \in rs : s = image(r)
      BY <1>1
    <2>2. \A s \in all : Working(s) => s.gen \in 1 .. gen[s.job]
      BY <1>2, <2>1 DEF Distinct, Working
    <2>3. \A s, t \in all : Working(s) /\ Working(t) /\ s.job = t.job /\ s.gen = t.gen => s = t
      BY <1>2, <2>1 DEF Distinct, Working
    <2>4. QED
      BY <2>2, <2>3 DEF Distinct
  <1>5. \A r \in rs : r.phase = "saving" => r \in all
    BY <1>1, <1>3
  <1>6. QED
    BY <1>4, <1>5 DEF all

\* So does a dispatch, whose runs have still to claim their jobs.
LEMMA DispatchKeepsRuns ==
    ASSUME NEW strt \in SUBSET JobId, NEW rs \in SUBSET Run, NEW gen, Distinct(rs, gen),
           jobs' \in SUBSET JobId, DispatchLocked(strt, rs)
    PROVE  Distinct(runs', gen) /\ rs \subseteq runs'
  <1>1. \E go \in SUBSET JobId : runs' = rs \cup {SpawnedRun(j) : j \in go}
    <2>1. \E go \in SUBSET JobId :
              /\ \A j \in go : status'[j] = "queued" /\ j \in jobs' /\ j \notin strt
              /\ starting' = strt \cup go
              /\ runs' = rs \cup {SpawnedRun(j) : j \in go}
              /\ starting' \in SUBSET JobId
              /\ runs' \in SUBSET Run
      BY DispatchEffect
    <2>2. QED
      BY <2>1
  <1>2. rs \subseteq runs'
    BY <1>1
  <1>3. \A s \in runs' : Working(s) => s \in rs
    BY <1>1, SpawnedRunType DEF Working
  <1>4. QED
    BY <1>2, <1>3 DEF Distinct

\* And a run that moves on.
LEMMA PhaseKeepsRuns ==
    ASSUME TypeOK, RunsAreDistinct, NEW r \in runs, NEW p \in {"saving", "exiting"},
           Working(r) \/ p = "exiting"
    PROVE  /\ InPhase(r, p) \in SUBSET Run
           /\ Distinct(InPhase(r, p), generation)
           /\ \A q \in runs : q.phase = "saving" /\ q # r => q \in InPhase(r, p)
           /\ \E s \in InPhase(r, p) : s.job = r.job /\ s.gen = r.gen /\ s.phase = p
  <1> DEFINE own == [r EXCEPT !.phase = p, !.cancelled = FALSE]
  <1>1. r \in Run /\ runs \in SUBSET Run
    BY DEF TypeOK
  <1>2. own.job = r.job /\ own.gen = r.gen /\ own.phase = p /\ own \in Run
    BY <1>1 DEF Run
  <1> HIDE DEF own
  <1>3. InPhase(r, p) = (runs \ {r}) \cup {own}
    BY DEF InPhase, own
  <1>4. \A s \in InPhase(r, p) : Working(s) => s \in runs \ {r} \/ (s = own /\ Working(r))
    BY <1>2, <1>3 DEF Working
  <1>5. \A s \in InPhase(r, p) : Working(s) => s.gen \in 1 .. generation[s.job]
    BY <1>2, <1>4 DEF RunsAreDistinct, Distinct
  <1>6. ASSUME NEW s \in InPhase(r, p), NEW t \in InPhase(r, p), Working(s), Working(t),
               s.job = t.job, s.gen = t.gen
        PROVE  s = t
    BY <1>2, <1>4, <1>6 DEF RunsAreDistinct, Distinct
  <1>7. Distinct(InPhase(r, p), generation)
    BY <1>5, <1>6 DEF Distinct
  <1>8. QED
    BY <1>1, <1>2, <1>3, <1>7

---------------------------------------------------------------------------
(* What a step of the manager does to the jobs that a save may know *)

\* Only a request adds a job, and it is queued.
JobsGrow ==
    /\ nextId' >= nextId
    /\ \A j \in jobs' \ jobs : j = nextId /\ nextId' = nextId + 1 /\ status'[j] = "queued"
    /\ \A j \in jobs' : status'[j] # Absent

\* A save that is owed stays owed.
OwedStays ==
    /\ \A j \in JobId : saveTails'[j] >= saveTails[j]
    /\ \A r \in runs : r.phase = "saving" => r \in runs'

\* A job that settles, until the manager closes, has one more save to come.
SettlesAreOwed ==
    closing' = "open" =>
        /\ closing = "open"
        /\ \A j \in jobs : status'[j] \in Terminal /\ status'[j] # status[j] =>
              \/ saveTails'[j] = saveTails[j] + 1
              \/ \E r \in runs' : /\ r.job = j /\ r.phase = "saving"
                                  /\ \A q \in runs : q.phase = "saving" /\ q.job = j
                                                        => q.gen # r.gen

\* A drained manager that is closing changes no job any more.
DrainedRests ==
    closing # "open" /\ Drained =>
        UNCHANGED <<jobs, status, runs, pendingCancels, saveTails, closing>>

Moves == JobsGrow /\ OwedStays /\ SettlesAreOwed /\ DrainedRests /\ RunsAreDistinct'

\* What the jobs in the list have in common.
Listed ==
    /\ \A j \in jobs : status[j] # Absent
    /\ \A j \in JobId : j >= nextId => j \notin jobs

\* Each step of the manager moves like that.
LEMMA ManagerMoves ==
    ASSUME TypeOK, RunsAreDistinct, Listed,
           UserStep \/ (\E r \in runs : RunStep(r)) \/ Issue \/ Quiesce \/ Close
    PROVE  Moves
  <1>1. /\ jobs \in SUBSET JobId /\ starting \in SUBSET JobId /\ runs \in SUBSET Run
        /\ status \in [JobId -> Status \cup {Absent}] /\ nextId \in Nat
        /\ generation \in [JobId -> Nat] /\ saveTails \in [JobId -> Nat]
        /\ closing \in {"open", "draining", "closed"}
    BY DEF TypeOK
  <1>2. TypeOK'
    <2>1. Next
      BY DEF Next
    <2>2. QED
      BY <2>1, TypeStep
  <1>3. jobs' \in SUBSET JobId
    BY <1>2 DEF TypeOK
  <1>4. Absent \notin Status
    BY DEF Absent, Status, Terminal
  <1>5. ASSUME NEW gen, \A j \in JobId : gen[j] \in Nat /\ gen[j] >= generation[j]
        PROVE  Distinct(runs, gen)
    <2>1. \A r \in runs : r.job \in JobId /\ r.gen \in Nat
      BY <1>1 DEF Run
    <2>2. \A r \in runs : Working(r) => r.gen \in 1 .. gen[r.job]
      BY <1>1, <1>5, <2>1 DEF RunsAreDistinct, Distinct
    <2>3. QED
      BY <2>2 DEF RunsAreDistinct, Distinct
  <1>6. ASSUME NEW req \in Requests, CreateJob(req) PROVE Moves
    <2>1. Distinct(runs', generation) /\ runs \subseteq runs'
      BY <1>1, <1>3, <1>6, DispatchKeepsRuns DEF CreateJob, RunsAreDistinct
    <2>2. JobsGrow
      BY <1>1, <1>4, <1>6 DEF CreateJob, JobsGrow, Listed, Absent
    <2>3. OwedStays /\ DrainedRests /\ RunsAreDistinct'
      BY <1>1, <1>6, <2>1
      DEF CreateJob, OwedStays, DrainedRests, RunsAreDistinct, Stopping, shutVars
    <2>4. SettlesAreOwed
      BY <1>1, <1>6 DEF CreateJob, SettlesAreOwed, Stopping, Terminal
    <2>5. QED
      BY <2>2, <2>3, <2>4 DEF Moves
  <1>7. ASSUME NEW j \in JobId, NEW from, NEW to \in Terminal, Stop(j, from, to) PROVE Moves
    <2>1. /\ Distinct(runs', generation)
          /\ \A r \in runs : r.phase = "saving" => r \in runs'
      BY <1>1, <1>7, CancelKeepsRuns DEF Stop, CancelCurrent, RunsAreDistinct
    <2>2. to # Absent
      BY DEF Terminal, Absent
    <2>3. JobsGrow
      BY <1>1, <1>7, <2>2 DEF Stop, JobsGrow, Listed
    <2>4. OwedStays
      BY <1>1, <1>7, <2>1 DEF Stop, OwedStays
    <2>5. SettlesAreOwed
      BY <1>1, <1>7 DEF Stop, SettlesAreOwed, Stopping
    <2>6. DrainedRests /\ RunsAreDistinct'
      BY <1>7, <2>1 DEF Stop, DrainedRests, RunsAreDistinct, Stopping
    <2>7. QED
      BY <2>3, <2>4, <2>5, <2>6 DEF Moves
  <1>8. ASSUME NEW j \in JobId, NEW from, RestartJob(j, from) PROVE Moves
    <2>1. Distinct(runs, generation')
      <3>1. \A i \in JobId : generation'[i] \in Nat /\ generation'[i] >= generation[i]
        BY <1>1, <1>8 DEF RestartJob
      <3>2. QED
        BY <1>5, <3>1
    <2>2. Distinct(runs', generation') /\ runs \subseteq runs'
      BY <1>1, <1>3, <1>8, <2>1, DispatchKeepsRuns DEF RestartJob
    <2>3. JobsGrow
      BY <1>1, <1>4, <1>8 DEF RestartJob, JobsGrow, Listed, Absent
    <2>4. OwedStays /\ DrainedRests /\ RunsAreDistinct'
      BY <1>1, <1>8, <2>2
      DEF RestartJob, OwedStays, DrainedRests, RunsAreDistinct, Stopping, shutVars
    <2>5. SettlesAreOwed
      BY <1>1, <1>8 DEF RestartJob, SettlesAreOwed, Stopping, Terminal
    <2>6. QED
      BY <2>3, <2>4, <2>5 DEF Moves
  <1>9. ASSUME NEW j \in JobId, DismissJob(j) \/ DeleteJob(j) PROVE Moves
    <2>1. /\ Distinct(runs', generation)
          /\ \A r \in runs : r.phase = "saving" => r \in runs'
      <3>1. runs' = runs \/ runs' = CancelRun(runs, j, cancelGen[j])
        BY <1>9 DEF DismissJob, DeleteJob, CancelCurrent
      <3>2. QED
        BY <1>1, <3>1, CancelKeepsRuns DEF RunsAreDistinct
    <2>2. QED
      BY <1>1, <1>9, <2>1
      DEF DismissJob, DeleteJob, RemoveJob, Moves, JobsGrow, Listed, OwedStays, SettlesAreOwed,
          DrainedRests, RunsAreDistinct, Stopping, shutVars
  <1>10. ASSUME NEW setting \in Limits, UpdateConfig(setting) PROVE Moves
    <2> DEFINE excess == Excess(EffectiveMaxActive(setting))
    <2>1. /\ generation' = [j \in JobId |-> IF j \in excess THEN generation[j] + 1
                                                            ELSE generation[j]]
          /\ status' = [j \in JobId |-> IF j \in excess THEN "queued" ELSE status[j]]
          /\ UNCHANGED <<nextId, jobs, saveTails, closing>>
          /\ DispatchLocked(starting \ excess, runs) /\ ~Stopping
      BY <1>10 DEF UpdateConfig
    <2> HIDE DEF excess
    <2>2. Distinct(runs, generation')
      BY <1>1, <1>5, <2>1
    <2>3. Distinct(runs', generation') /\ runs \subseteq runs'
      BY <1>1, <1>3, <2>1, <2>2, DispatchKeepsRuns
    <2>4. QED
      BY <1>1, <1>4, <2>1, <2>3
      DEF Moves, JobsGrow, Listed, OwedStays, SettlesAreOwed, DrainedRests, RunsAreDistinct,
          Stopping, Terminal, Absent
  <1>11. ASSUME NEW r \in runs, Claim(r) PROVE Moves
    <2>1. r \in Run /\ r.job \in JobId /\ r.phase = "spawned" /\ ~Working(r)
      BY <1>1, <1>11 DEF Claim, Run, Working
    <2>2. runs # {} /\ UNCHANGED <<nextId, jobs, saveTails, closing>>
      BY <1>11 DEF Claim, shutVars
    <2>3. CASE fenced
      <3>1. /\ Distinct(runs', generation)
            /\ \A q \in runs : q.phase = "saving" => q \in runs'
        BY <1>11, <2>1, <2>3, PhaseKeepsRuns DEF Claim
      <3>2. QED
        BY <1>1, <1>11, <2>2, <2>3, <3>1
        DEF Claim, Moves, JobsGrow, Listed, OwedStays, SettlesAreOwed, DrainedRests, Drained,
            RunsAreDistinct
    <2>4. CASE ~fenced
      <3> DEFINE gen == generation[r.job] + 1
                 own == [r EXCEPT !.gen = gen, !.phase = "download"]
      <3>1. /\ runs' = (runs \ {r}) \cup {own} /\ status' = [status EXCEPT ![r.job] = "running"]
            /\ generation' = [generation EXCEPT ![r.job] = gen]
        BY <1>11, <2>4 DEF Claim
      <3>2. own.job = r.job /\ own.gen = gen /\ own.phase = "download"
        BY <2>1 DEF Run
      <3> HIDE DEF own
      <3>3. \A j \in JobId : generation'[j] \in Nat /\ generation'[j] >= generation[j]
        BY <1>1, <2>1, <3>1
      <3>4. Distinct(runs, generation')
        BY <1>5, <3>3
      <3>5. ASSUME NEW q \in runs, Working(q), q.job = own.job, q.gen = own.gen PROVE FALSE
        BY <1>1, <2>1, <3>2, <3>5 DEF RunsAreDistinct, Distinct
      <3>6. Distinct(runs', generation')
        <4>1. own.gen \in 1 .. generation'[own.job]
          BY <1>1, <2>1, <3>1, <3>2
        <4>2. QED
          BY <3>1, <3>4, <3>5, <4>1 DEF Distinct
      <3>7. \A q \in runs : q.phase = "saving" => q \in runs'
        BY <2>1, <3>1
      <3>8. JobsGrow
        BY <1>1, <2>1, <2>2, <3>1 DEF JobsGrow, Listed, Absent
      <3>9. OwedStays /\ DrainedRests /\ RunsAreDistinct'
        BY <1>1, <2>2, <3>6, <3>7 DEF OwedStays, DrainedRests, Drained, RunsAreDistinct
      <3>10. SettlesAreOwed
        BY <1>1, <2>1, <2>2, <3>1 DEF SettlesAreOwed, Terminal
      <3>11. QED
        BY <3>8, <3>9, <3>10 DEF Moves
    <2>5. QED
      BY <2>3, <2>4
  <1>12. ASSUME NEW r \in runs, NEW success \in BOOLEAN, Finish(r, success) PROVE Moves
    <2>1. /\ r \in Run /\ r.job \in JobId /\ r.phase = "download" /\ Working(r)
          /\ UNCHANGED <<nextId, jobs, generation, saveTails, closing>>
      BY <1>1, <1>12 DEF Finish, Run, Working, shutVars
    <2>2. ASSUME NEW p \in {"saving", "exiting"},
                 DispatchLocked(starting, InPhase(r, p)) \/ runs' = InPhase(r, p)
          PROVE  /\ Distinct(runs', generation)
                 /\ \A q \in runs : q.phase = "saving" => q \in runs'
                 /\ \E s \in runs' : s.job = r.job /\ s.gen = r.gen /\ s.phase = p
      <3>1. /\ InPhase(r, p) \in SUBSET Run
            /\ Distinct(InPhase(r, p), generation)
            /\ \A q \in runs : q.phase = "saving" /\ q # r => q \in InPhase(r, p)
            /\ \E s \in InPhase(r, p) : s.job = r.job /\ s.gen = r.gen /\ s.phase = p
        BY <2>1, PhaseKeepsRuns
      <3>2. Distinct(runs', generation) /\ InPhase(r, p) \subseteq runs'
        BY <1>1, <1>3, <2>2, <3>1, DispatchKeepsRuns
      <3>3. QED
        BY <2>1, <3>1, <3>2
    <2>3. CASE Superseded(r)
      <3>1. UNCHANGED status
        BY <1>12, <2>3 DEF Finish
      <3>2. DispatchLocked(starting, InPhase(r, "exiting")) \/ runs' = InPhase(r, "exiting")
        BY <1>12, <2>3 DEF Finish
      <3>3. /\ Distinct(runs', generation)
            /\ \A q \in runs : q.phase = "saving" => q \in runs'
        BY <2>2, <3>2
      <3>4. QED
        BY <1>1, <2>1, <3>1, <3>3
        DEF Moves, JobsGrow, Listed, OwedStays, SettlesAreOwed, DrainedRests, Drained,
            RunsAreDistinct
    <2>4. CASE ~Superseded(r)
      <3>1. status' = [status EXCEPT ![r.job] = Outcome(r, success)]
        BY <1>12, <2>4 DEF Finish
      <3>2. Outcome(r, success) # Absent
        BY <2>1 DEF Outcome, Absent, Run
      <3>3. DispatchLocked(starting, InPhase(r, "saving"))
        BY <1>12, <2>4 DEF Finish
      <3>4. /\ Distinct(runs', generation)
            /\ \A q \in runs : q.phase = "saving" => q \in runs'
            /\ \E s \in runs' : s.job = r.job /\ s.gen = r.gen /\ s.phase = "saving"
        BY <2>2, <3>3
      <3>5. \A q \in runs : q.phase = "saving" /\ q.job = r.job => q.gen # r.gen
        BY <2>1 DEF RunsAreDistinct, Distinct, Working
      <3>6. JobsGrow
        BY <1>1, <2>1, <3>1, <3>2 DEF JobsGrow, Listed
      <3>7. OwedStays /\ DrainedRests /\ RunsAreDistinct'
        BY <1>1, <2>1, <3>4 DEF OwedStays, DrainedRests, Drained, RunsAreDistinct
      <3>8. SettlesAreOwed
        BY <1>1, <2>1, <3>1, <3>4, <3>5 DEF SettlesAreOwed
      <3>9. QED
        BY <3>6, <3>7, <3>8 DEF Moves
    <2>5. QED
      BY <2>3, <2>4
  <1>13. ASSUME NEW r \in runs, Exit(r) PROVE Moves
    <2>1. Distinct(runs \ {r}, generation)
      BY DEF RunsAreDistinct, Distinct
    <2>2. Distinct(runs', generation) /\ runs \ {r} \subseteq runs'
      BY <1>1, <1>3, <1>13, <2>1, DispatchKeepsRuns DEF Exit
    <2>3. QED
      BY <1>1, <1>13, <2>2
      DEF Exit, Moves, JobsGrow, Listed, OwedStays, SettlesAreOwed, DrainedRests, Drained,
          RunsAreDistinct, shutVars
  <1>14. ASSUME NEW c \in pendingCancels, IssueCancel(c) PROVE Moves
    <2>1. /\ Distinct(runs', generation)
          /\ \A r \in runs : r.phase = "saving" => r \in runs'
      BY <1>1, <1>14, CancelKeepsRuns DEF IssueCancel, RunsAreDistinct
    <2>2. QED
      BY <1>1, <1>14, <2>1
      DEF IssueCancel, Moves, JobsGrow, Listed, OwedStays, SettlesAreOwed, DrainedRests, Drained,
          RunsAreDistinct
  <1>15. CASE Quiesce
    BY <1>1, <1>15
    DEF Quiesce, Moves, JobsGrow, Listed, OwedStays, SettlesAreOwed, DrainedRests,
        RunsAreDistinct, shutVars
  <1>16. CASE Close
    BY <1>1, <1>16
    DEF Close, Moves, JobsGrow, Listed, OwedStays, SettlesAreOwed, DrainedRests,
        RunsAreDistinct, Absent
  <1>17. QED
    <2>1. "cancelled" \in Terminal /\ "paused" \in Terminal
      BY DEF Terminal
    <2>2. CASE UserStep
      BY <2>1, <2>2, <1>6, <1>7, <1>8, <1>9, <1>10
      DEF UserStep, CancelJob, PauseJob, ResumeJob, RetryJob
    <2>3. ASSUME NEW r \in runs, RunStep(r) PROVE Moves
      BY <2>3, <1>11, <1>12, <1>13 DEF RunStep
    <2>4. CASE Issue
      BY <2>4, <1>14 DEF Issue
    <2>5. QED
      BY <2>2, <2>3, <2>4, <1>15, <1>16

---------------------------------------------------------------------------
(***************************************************************************)
(* The inductive invariant.  A save under way was overtaken by a change of *)
(* a job only if another save of that job is owed; the file lags behind    *)
(* the list in the same way.                                               *)
(***************************************************************************)

\* A save of job j, other than s itself, is still to come.
OwedBeside(s, j) ==
    \/ saveTails[j] > (IF s.owner = [job |-> j, gen |-> 0] THEN 1 ELSE 0)
    \/ \E r \in runs : /\ r.job = j /\ r.phase = "saving"
                       /\ s.owner # [job |-> j, gen |-> r.gen]

OneSave == \A s, t \in saves : s = t

\* The operation that a save belongs to waits for it.
Awaited(s) ==
    \/ /\ s.owner = [job |-> 0, gen |-> 0]
       /\ closing = "draining" /\ Drained /\ s.snap = Snapshot
    \/ \E j \in JobId : s.owner = [job |-> j, gen |-> 0] /\ saveTails[j] > 0
    \/ \E r \in runs : s.owner = [job |-> r.job, gen |-> r.gen] /\ r.phase = "saving"

SavesAreAwaited == \A s \in saves : Awaited(s)

SavesAreCurrent ==
    closing = "open" =>
        \A s \in saves : \A j \in jobs :
            status[j] \in Terminal /\ ~OwedBeside(s, j) => s.snap[j] = status[j]

FileIsCurrent ==
    closing = "open" /\ ~lastSaveFailed =>
        \A j \in jobs : status[j] \in Terminal /\ ~Owed(j) => disk[j] = status[j]

ClosedRests ==
    closing = "closed" => Drained /\ saves = {} /\ (~lastSaveFailed => disk = Snapshot)

\* Neither the file nor a save knows a job that is not created yet, and a save
\* that does not know a listed job began when the file did not either.
FileKnows ==
    /\ \A j \in JobId : j >= nextId => disk[j] = Absent /\ \A s \in saves : s.snap[j] = Absent
    /\ \A s \in saves : \A j \in jobs : s.snap[j] = Absent => disk[j] = Absent

FileIInv ==
    /\ FileTypeOK
    /\ RunsAreDistinct
    /\ Listed
    /\ OneSave
    /\ SavesAreAwaited
    /\ SavesAreCurrent
    /\ FileIsCurrent
    /\ ClosedRests
    /\ FileKnows

\* What a snapshot holds of each job.
LEMMA SnapshotHolds ==
    ASSUME TypeOK, Listed
    PROVE  /\ Snapshot \in [JobId -> Terminal \cup {Absent}]
           /\ \A j \in JobId : j \notin jobs => Snapshot[j] = Absent
           /\ \A j \in jobs : Snapshot[j] # Absent
           /\ \A j \in jobs : status[j] \in Terminal => Snapshot[j] = status[j]
  <1>1. jobs \in SUBSET JobId /\ status \in [JobId -> Status \cup {Absent}]
    BY DEF TypeOK
  <1>2. \A j \in jobs : status[j] \in Status
    BY <1>1 DEF Listed
  <1>3. \A x \in Status : Clamp(x) \in Terminal /\ (x \in Terminal => Clamp(x) = x)
    BY DEF Clamp, Status, Terminal
  <1>4. Absent \notin Terminal
    BY DEF Absent, Terminal
  <1>5. QED
    BY <1>1, <1>2, <1>3, <1>4 DEF Snapshot

\* The same, by the fields of the owner.
LEMMA AwaitedBy ==
    ASSUME NEW s, Awaited(s)
    PROVE  \/ s.owner.job = 0 /\ s.owner.gen = 0
           \/ s.owner.job \in JobId /\ s.owner.gen = 0 /\ saveTails[s.owner.job] > 0
           \/ \E r \in runs : /\ r.job = s.owner.job /\ r.gen = s.owner.gen
                              /\ r.phase = "saving"
  <1>1. CASE s.owner = [job |-> 0, gen |-> 0]
    BY <1>1
  <1>2. CASE \E j \in JobId : s.owner = [job |-> j, gen |-> 0] /\ saveTails[j] > 0
    <2>1. PICK j \in JobId : s.owner = [job |-> j, gen |-> 0] /\ saveTails[j] > 0
      BY <1>2
    <2>2. s.owner.job = j /\ s.owner.gen = 0
      BY <2>1
    <2>3. QED
      BY <2>1, <2>2
  <1>3. CASE \E r \in runs : s.owner = [job |-> r.job, gen |-> r.gen] /\ r.phase = "saving"
    <2>1. PICK r \in runs : s.owner = [job |-> r.job, gen |-> r.gen] /\ r.phase = "saving"
      BY <1>3
    <2>2. s.owner.job = r.job /\ s.owner.gen = r.gen
      BY <2>1
    <2>3. QED
      BY <2>1, <2>2
  <1>4. QED
    BY <1>1, <1>2, <1>3 DEF Awaited

\* A step of the manager leaves the saves and the file as they are, and owes
\* another save wherever it overtakes them.
LEMMA ManagerKeepsFile ==
    ASSUME FileIInv, ManagerStep
    PROVE  FileIInv'
  <1>1. /\ jobs \in SUBSET JobId /\ status \in [JobId -> Status \cup {Absent}]
        /\ saveTails \in [JobId -> Nat] /\ runs \in SUBSET Run /\ nextId \in Nat
        /\ saves \subseteq [owner : Saver, snap : [JobId -> Terminal \cup {Absent}]]
        /\ closing \in {"open", "draining", "closed"}
    BY DEF FileIInv, FileTypeOK, TypeOK
  <1>2. UNCHANGED <<saves, disk, lastSaveFailed>>
    BY DEF ManagerStep, fileVars
  <1>3. TypeOK'
    <2>1. Next
      BY DEF ManagerStep, Next
    <2>2. QED
      BY <2>1, TypeStep DEF FileIInv, FileTypeOK
  <1>4. JobsGrow /\ OwedStays /\ SettlesAreOwed /\ DrainedRests /\ RunsAreDistinct'
    BY ManagerMoves DEF ManagerStep, FileIInv, FileTypeOK, Moves
  <1>5. jobs' \in SUBSET JobId /\ saveTails' \in [JobId -> Nat] /\ nextId' \in Nat
        /\ runs' \in SUBSET Run
    BY <1>3 DEF TypeOK
  <1>6. FileTypeOK'
    BY <1>2, <1>3 DEF FileIInv, FileTypeOK
  <1>7. Listed'
    <2>1. ASSUME NEW j \in JobId, j >= nextId', j \in jobs' PROVE FALSE
      <3>1. j >= nextId
        BY <1>1, <1>4, <1>5, <2>1 DEF JobsGrow, JobId
      <3>2. j \in jobs' \ jobs
        BY <2>1, <3>1 DEF FileIInv, Listed
      <3>3. j = nextId /\ nextId' = nextId + 1
        BY <1>4, <3>2 DEF JobsGrow
      <3>4. QED
        BY <1>1, <2>1, <3>3
    <2>2. QED
      BY <1>4, <2>1 DEF JobsGrow, Listed
  <1>8. ASSUME NEW j \in JobId, Owed(j) PROVE Owed(j)'
    BY <1>1, <1>4, <1>5, <1>8 DEF Owed, OwedStays
  <1>9. ASSUME NEW s \in saves, NEW j \in JobId, OwedBeside(s, j) PROVE OwedBeside(s, j)'
    <2>1. CASE \E r \in runs : /\ r.job = j /\ r.phase = "saving"
                               /\ s.owner # [job |-> j, gen |-> r.gen]
      BY <1>4, <2>1 DEF OwedBeside, OwedStays
    <2>2. CASE saveTails[j] > (IF s.owner = [job |-> j, gen |-> 0] THEN 1 ELSE 0)
      BY <1>1, <1>4, <1>5, <2>2 DEF OwedBeside, OwedStays
    <2>3. QED
      BY <1>9, <2>1, <2>2 DEF OwedBeside
  <1>10. ASSUME NEW s \in saves PROVE Awaited(s)'
    <2>1. Awaited(s)
      BY DEF FileIInv, SavesAreAwaited
    <2>2. CASE /\ s.owner = [job |-> 0, gen |-> 0]
               /\ closing = "draining" /\ Drained /\ s.snap = Snapshot
      <3>1. UNCHANGED <<jobs, status, runs, pendingCancels, saveTails, closing>>
        BY <1>4, <2>2 DEF DrainedRests
      <3>2. QED
        BY <2>2, <3>1 DEF Awaited, Drained, Snapshot
    <2>3. CASE \E j \in JobId : s.owner = [job |-> j, gen |-> 0] /\ saveTails[j] > 0
      <3>1. PICK j \in JobId : s.owner = [job |-> j, gen |-> 0] /\ saveTails[j] > 0
        BY <2>3
      <3>2. saveTails'[j] > 0
        BY <1>1, <1>4, <1>5, <3>1 DEF OwedStays
      <3>3. QED
        BY <3>1, <3>2 DEF Awaited
    <2>4. CASE \E r \in runs : s.owner = [job |-> r.job, gen |-> r.gen] /\ r.phase = "saving"
      BY <1>4, <2>4 DEF Awaited, OwedStays
    <2>5. QED
      BY <2>1, <2>2, <2>3, <2>4 DEF Awaited
  <1>11. \A j \in jobs' : j \in jobs \/ (j = nextId /\ status'[j] = "queued")
    BY <1>4 DEF JobsGrow
  <1>12. "queued" \notin Terminal
    BY DEF Terminal
  <1>13. ASSUME closing' = "open", NEW j \in jobs', status'[j] \in Terminal,
                status'[j] # status[j]
         PROVE  Owed(j)' /\ \A s \in saves : OwedBeside(s, j)'
    <2>1. j \in jobs /\ j \in JobId
      BY <1>1, <1>11, <1>12, <1>13
    <2>2. CASE saveTails'[j] = saveTails[j] + 1
      <3>1. Owed(j)'
        BY <1>1, <2>1, <2>2 DEF Owed
      <3>2. ASSUME NEW s \in saves PROVE OwedBeside(s, j)'
        <4>1. CASE s.owner = [job |-> j, gen |-> 0]
          <5>1. saveTails[j] > 0
            <6>1. s.owner.job = j /\ s.owner.gen = 0 /\ j # 0
              BY <2>1, <4>1, ConstantsAssumption DEF JobId
            <6>2. ASSUME NEW r \in runs, r.phase = "saving" PROVE r.gen # 0
              <7>1. r.gen \in 1 .. generation[r.job]
                BY <6>2 DEF FileIInv, RunsAreDistinct, Distinct, Working
              <7>2. QED
                BY <7>1
            <6>3. QED
              BY <6>1, <6>2, AwaitedBy DEF FileIInv, SavesAreAwaited
          <5>2. saveTails'[j] > 1
            BY <1>1, <2>1, <2>2, <5>1
          <5>3. QED
            BY <4>1, <5>2 DEF OwedBeside
        <4>2. CASE s.owner # [job |-> j, gen |-> 0]
          <5>1. saveTails'[j] > 0
            BY <1>1, <2>1, <2>2
          <5>2. QED
            BY <4>2, <5>1 DEF OwedBeside
        <4>3. QED
          BY <4>1, <4>2
      <3>3. QED
        BY <3>1, <3>2
    <2>3. CASE \E r \in runs' : /\ r.job = j /\ r.phase = "saving"
                                /\ \A q \in runs : q.phase = "saving" /\ q.job = j
                                                      => q.gen # r.gen
      <3>1. PICK r \in runs' : /\ r.job = j /\ r.phase = "saving"
                               /\ \A q \in runs : q.phase = "saving" /\ q.job = j
                                                     => q.gen # r.gen
        BY <2>3
      <3>2. ASSUME NEW s \in saves, s.owner = [job |-> j, gen |-> r.gen] PROVE FALSE
        <4>1. s.owner.job = j /\ s.owner.gen = r.gen
          BY <3>2
        <4>2. r.gen # 0
          <5>1. r.gen \in 1 .. generation'[r.job]
            BY <1>4, <3>1 DEF RunsAreDistinct, Distinct, Working
          <5>2. QED
            BY <5>1
        <4>3. j # 0
          BY <2>1, ConstantsAssumption DEF JobId
        <4>4. QED
          BY <3>1, <4>1, <4>2, <4>3, AwaitedBy DEF FileIInv, SavesAreAwaited
      <3>3. QED
        BY <3>1, <3>2 DEF Owed, OwedBeside
    <2>4. QED
      BY <1>4, <1>13, <2>1, <2>2, <2>3 DEF SettlesAreOwed
  <1>14. SavesAreCurrent'
    <2> SUFFICES ASSUME closing' = "open", NEW s \in saves, NEW j \in jobs',
                        status'[j] \in Terminal, ~OwedBeside(s, j)'
                 PROVE  s.snap[j] = status'[j]
      BY <1>2 DEF SavesAreCurrent
    <2>1. status'[j] = status[j] /\ j \in jobs /\ j \in JobId /\ ~OwedBeside(s, j)
      BY <1>1, <1>9, <1>11, <1>12, <1>13
    <2>2. closing = "open"
      BY <1>4 DEF SettlesAreOwed
    <2>3. QED
      BY <2>1, <2>2 DEF FileIInv, SavesAreCurrent
  <1>15. FileIsCurrent'
    <2> SUFFICES ASSUME closing' = "open", ~lastSaveFailed, NEW j \in jobs',
                        status'[j] \in Terminal, ~Owed(j)'
                 PROVE  disk[j] = status'[j]
      BY <1>2 DEF FileIsCurrent
    <2>1. status'[j] = status[j] /\ j \in jobs /\ ~Owed(j)
      BY <1>1, <1>8, <1>11, <1>12, <1>13
    <2>2. closing = "open"
      BY <1>4 DEF SettlesAreOwed
    <2>3. QED
      BY <2>1, <2>2 DEF FileIInv, FileIsCurrent
  <1>16. ClosedRests'
    <2> SUFFICES ASSUME closing' = "closed" PROVE ClosedRests'
      BY DEF ClosedRests
    <2>1. closing = "closed"
      BY <1>1 DEF ManagerStep, UserStep, CreateJob, CancelJob, PauseJob, ResumeJob, RetryJob,
         RestartJob, DismissJob, DeleteJob, RemoveJob, Stop, UpdateConfig, RunStep, Claim, Finish,
         Exit, Issue, IssueCancel, Quiesce, Close, shutVars
    <2>2. Drained /\ saves = {} /\ (~lastSaveFailed => disk = Snapshot)
      BY <2>1 DEF FileIInv, ClosedRests
    <2>3. UNCHANGED <<jobs, status, runs, pendingCancels, saveTails, closing>>
      BY <1>4, <2>1, <2>2 DEF DrainedRests
    <2>4. QED
      BY <1>2, <2>2, <2>3 DEF ClosedRests, Drained, Snapshot
  <1>17. FileKnows'
    <2>1. ASSUME NEW j \in JobId, j >= nextId' PROVE j >= nextId
      BY <1>1, <1>4, <1>5, <2>1 DEF JobsGrow, JobId
    <2>2. ASSUME NEW s \in saves, NEW j \in jobs', s.snap[j] = Absent PROVE disk[j] = Absent
      <3>1. CASE j \in jobs
        BY <2>2, <3>1 DEF FileIInv, FileKnows
      <3>2. CASE j = nextId
        BY <1>1, <1>5, <3>2 DEF FileIInv, FileKnows
      <3>3. QED
        BY <1>11, <3>1, <3>2
    <2>3. QED
      BY <1>2, <2>1, <2>2 DEF FileIInv, FileKnows
  <1>18. OneSave' /\ SavesAreAwaited'
    BY <1>2, <1>10 DEF FileIInv, OneSave, SavesAreAwaited
  <1>19. QED
    BY <1>4, <1>6, <1>7, <1>14, <1>15, <1>16, <1>17, <1>18 DEF FileIInv

\* A save begins: its snapshot is what the list says now.
LEMMA BeginKeepsFile ==
    ASSUME FileIInv, NEW owner \in Saver, BeginSave(owner),
           Awaited([owner |-> owner, snap |-> Snapshot])
    PROVE  FileIInv'
  <1> DEFINE new == [owner |-> owner, snap |-> Snapshot]
  <1>1. /\ Snapshot \in [JobId -> Terminal \cup {Absent}]
        /\ \A j \in JobId : j \notin jobs => Snapshot[j] = Absent
        /\ \A j \in jobs : Snapshot[j] # Absent
        /\ \A j \in jobs : status[j] \in Terminal => Snapshot[j] = status[j]
    BY SnapshotHolds DEF FileIInv, FileTypeOK
  <1>2. saves = {} /\ saves' = {new} /\ UNCHANGED <<vars, disk, lastSaveFailed>>
    BY DEF BeginSave, SaveMuFree
  <1>3. new.snap = Snapshot /\ Awaited(new)
    OBVIOUS
  <1>4. new \in [owner : Saver, snap : [JobId -> Terminal \cup {Absent}]]
    BY <1>1
  <1> HIDE DEF new
  <1>5. FileTypeOK'
    BY <1>2, <1>4 DEF FileIInv, FileTypeOK, TypeOK, vars, schedVars, shutVars
  <1>6. RunsAreDistinct' /\ Listed' /\ FileIsCurrent'
    BY <1>2
    DEF FileIInv, RunsAreDistinct, Listed, FileIsCurrent, Owed, vars, schedVars, shutVars
  <1>7. OneSave'
    BY <1>2 DEF OneSave
  <1>8. SavesAreAwaited'
    BY <1>2, <1>3
    DEF SavesAreAwaited, Awaited, Drained, Snapshot, vars, schedVars, shutVars
  <1>9. SavesAreCurrent'
    BY <1>1, <1>2, <1>3 DEF SavesAreCurrent, vars, schedVars, shutVars
  <1>10. ClosedRests'
    <2>1. closing # "closed"
      <3>1. ASSUME Drained, closing # "draining" PROVE ~Awaited(new)
        BY <3>1 DEF Awaited, Drained
      <3>2. QED
        BY <1>3, <3>1 DEF FileIInv, ClosedRests
    <2>2. QED
      BY <1>2, <2>1 DEF ClosedRests, vars, shutVars
  <1>11. FileKnows'
    BY <1>1, <1>2, <1>3 DEF FileIInv, Listed, FileKnows, vars, schedVars
  <1>12. QED
    BY <1>5, <1>6, <1>7, <1>8, <1>9, <1>10, <1>11 DEF FileIInv

\* A save ends: nobody else has been saving, and the operation goes on.
LEMMA CommitKeepsFile ==
    ASSUME FileIInv, NEW s \in saves, NEW success \in BOOLEAN, CommitSave(s, success)
    PROVE  FileIInv'
  <1>1. /\ saveTails \in [JobId -> Nat] /\ runs \in SUBSET Run
        /\ s \in [owner : Saver, snap : [JobId -> Terminal \cup {Absent}]]
        /\ disk \in [JobId -> Terminal \cup {Absent}] /\ jobs \in SUBSET JobId
    BY DEF FileIInv, FileTypeOK, TypeOK
  <1>2. saves' = {} /\ lastSaveFailed' = ~success
        /\ disk' = IF success THEN s.snap ELSE disk
    BY DEF CommitSave, FileIInv, OneSave
  <1>3. s.owner \in Saver /\ s.snap \in [JobId -> Terminal \cup {Absent}]
    BY <1>1
  <1>4. s.owner = [job |-> s.owner.job, gen |-> s.owner.gen]
    BY <1>3 DEF Saver
  <1>5. \/ s.owner.gen = 0 /\ s.owner.job # 0 /\ StopSaved(s.owner.job)
        \/ \E r \in runs : s.owner = [job |-> r.job, gen |-> r.gen] /\ RunSaved(r)
        \/ s.owner.job = 0 /\ FinishClose
    BY DEF CommitSave
  <1>6. TypeOK'
    <2>1. s.owner.job # 0 => s.owner.job \in JobId
      BY <1>3 DEF Saver
    <2>2. Next
      BY <1>5, <2>1 DEF Next, SaveReturns
    <2>3. QED
      BY <2>2, TypeStep DEF FileIInv, FileTypeOK
  <1>7. FileTypeOK'
    BY <1>1, <1>2, <1>3, <1>6 DEF FileTypeOK
  <1>8. UNCHANGED <<nextId, jobs, status, generation>>
    BY <1>5 DEF StopSaved, RunSaved, FinishClose, schedVars
  <1>9. Listed'
    BY <1>8 DEF FileIInv, Listed
  <1>10. RunsAreDistinct'
    <2>1. ASSUME NEW r \in runs, RunSaved(r) PROVE RunsAreDistinct'
      <3>1. Distinct(runs', generation)
        BY <2>1, PhaseKeepsRuns DEF RunSaved, FileIInv, FileTypeOK
      <3>2. QED
        BY <1>8, <3>1 DEF RunsAreDistinct
    <2>2. CASE runs' = runs
      BY <1>8, <2>2 DEF FileIInv, RunsAreDistinct
    <2>3. QED
      BY <1>5, <2>1, <2>2 DEF StopSaved, FinishClose, schedVars
  <1>11. OneSave' /\ SavesAreAwaited' /\ SavesAreCurrent'
    BY <1>2 DEF OneSave, SavesAreAwaited, SavesAreCurrent
  <1>12. FileKnows'
    BY <1>2, <1>8 DEF FileIInv, FileKnows
  <1>13. FileIsCurrent'
    <2> SUFFICES ASSUME closing' = "open", success, NEW j \in jobs,
                        status[j] \in Terminal, ~Owed(j)'
                 PROVE  s.snap[j] = status[j]
      BY <1>2, <1>8 DEF FileIsCurrent
    <2>1. j \in JobId
      BY <1>1
    <2>2. closing = "open"
      BY <1>5 DEF StopSaved, RunSaved, FinishClose, shutVars
    <2>3. ~OwedBeside(s, j)
      <3>1. CASE s.owner.gen = 0 /\ s.owner.job # 0 /\ StopSaved(s.owner.job)
        <4>1. /\ saveTails' = [saveTails EXCEPT ![s.owner.job] = @ - 1] /\ runs' = runs
              /\ saveTails[s.owner.job] > 0
          BY <3>1 DEF StopSaved, schedVars
        <4>2. s.owner.job \in JobId
          BY <1>3, <3>1 DEF Saver
        <4>3. ~(saveTails'[j] > 0)
          BY DEF Owed
        <4>4. ~\E r \in runs : r.job = j /\ r.phase = "saving"
          BY <4>1 DEF Owed
        <4>5. CASE s.owner.job = j
          <5>1. s.owner = [job |-> j, gen |-> 0]
            BY <1>4, <3>1, <4>5
          <5>2. ~(saveTails[j] > 1)
            BY <1>1, <2>1, <4>1, <4>3, <4>5
          <5>3. QED
            BY <4>4, <5>1, <5>2 DEF OwedBeside
        <4>6. CASE s.owner.job # j
          <5>1. s.owner # [job |-> j, gen |-> 0]
            BY <4>6
          <5>2. ~(saveTails[j] > 0)
            BY <1>1, <2>1, <4>1, <4>2, <4>3, <4>6
          <5>3. QED
            BY <4>4, <5>1, <5>2 DEF OwedBeside
        <4>7. QED
          BY <4>5, <4>6
      <3>2. ASSUME NEW r \in runs, s.owner = [job |-> r.job, gen |-> r.gen], RunSaved(r)
            PROVE  ~OwedBeside(s, j)
        <4>1. runs' = InPhase(r, "exiting") /\ saveTails' = saveTails /\ r.phase = "saving"
          BY <3>2 DEF RunSaved, shutVars
        <4>2. ~(saveTails[j] > 0)
          BY <4>1 DEF Owed
        <4>3. ASSUME NEW q \in runs, q.job = j, q.phase = "saving" PROVE q = r
          BY <4>1, <4>3 DEF InPhase, Owed
        <4>4. \A q \in runs : q.job = j /\ q.phase = "saving"
                 => s.owner = [job |-> j, gen |-> q.gen]
          BY <3>2, <4>3
        <4>5. ~(saveTails[j] > (IF s.owner = [job |-> j, gen |-> 0] THEN 1 ELSE 0))
          <5>1. saveTails[j] = 0
            BY <1>1, <2>1, <4>2
          <5>2. QED
            BY <5>1
        <4>6. QED
          BY <4>4, <4>5 DEF OwedBeside
      <3>3. CASE FinishClose
        BY <2>2, <3>3 DEF FinishClose
      <3>4. QED
        BY <1>5, <3>1, <3>2, <3>3
    <2>4. QED
      BY <2>2, <2>3 DEF FileIInv, SavesAreCurrent
  <1>14. ClosedRests'
    <2> SUFFICES ASSUME closing' = "closed"
                 PROVE  Drained' /\ (success => s.snap = Snapshot')
      BY <1>2 DEF ClosedRests
    <2>1. CASE s.owner.job = 0 /\ FinishClose
      <3>1. UNCHANGED <<jobs, status, runs, pendingCancels, saveTails>> /\ Drained
        BY <2>1 DEF FinishClose, schedVars
      <3>2. s.snap = Snapshot
        <4>1. Awaited(s)
          BY DEF FileIInv, SavesAreAwaited
        <4>2. 0 \notin JobId
          BY ConstantsAssumption DEF JobId
        <4>3. \A j \in JobId : s.owner # [job |-> j, gen |-> 0]
          BY <2>1, <4>2
        <4>4. runs = {}
          BY <2>1 DEF FinishClose, Drained
        <4>5. QED
          BY <4>1, <4>3, <4>4 DEF Awaited
      <3>3. QED
        BY <3>1, <3>2 DEF Drained, Snapshot
    <2>2. ASSUME closing = "closed" PROVE FALSE
      BY <2>2 DEF FileIInv, ClosedRests
    <2>3. QED
      BY <1>5, <2>1, <2>2 DEF StopSaved, RunSaved, shutVars
  <1>15. QED
    BY <1>7, <1>9, <1>10, <1>11, <1>12, <1>13, <1>14 DEF FileIInv

\* A new process lists what the file holds.
LEMMA RestartKeepsFile ==
    ASSUME FileIInv, RestartProcess
    PROVE  FileIInv'
  <1>1. disk \in [JobId -> Terminal \cup {Absent}]
    BY DEF FileIInv, FileTypeOK
  <1>2. \A x \in Terminal : Clamp(x) = x
    BY DEF Clamp, Terminal
  <1>3. Absent \notin Terminal /\ Clamp(Absent) = Absent
    BY DEF Clamp, Absent, Terminal
  <1>4. \A j \in JobId : status'[j] = disk[j]
    BY <1>1, <1>2, <1>3 DEF RestartProcess
  <1>5. status' \in [JobId -> Status \cup {Absent}]
    BY <1>1, <1>2, <1>3 DEF RestartProcess, Status
  <1>6. FileTypeOK'
    BY <1>1, <1>5 DEF RestartProcess, FileIInv, FileTypeOK, TypeOK
  <1>7. RunsAreDistinct' /\ OneSave' /\ SavesAreAwaited' /\ SavesAreCurrent' /\ ClosedRests'
    BY DEF RestartProcess, RunsAreDistinct, Distinct, OneSave, SavesAreAwaited, SavesAreCurrent,
           ClosedRests
  <1>8. Listed' /\ FileIsCurrent' /\ FileKnows'
    BY <1>4 DEF RestartProcess, FileIInv, Listed, FileIsCurrent, FileKnows
  <1>9. QED
    BY <1>6, <1>7, <1>8 DEF FileIInv

\* The inductive invariant of the manager with its file holds in every
\* reachable state, across failed saves and restarts.
THEOREM FileInvariant == FileSpec => []FileIInv
  <1>1. FileInit => FileIInv
    <2> SUFFICES ASSUME FileInit PROVE FileIInv
      OBVIOUS
    <2>1. Init /\ saves = {} /\ disk = [j \in JobId |-> Absent] /\ lastSaveFailed = FALSE
      BY DEF FileInit
    <2>2. IInv
      BY <2>1, InvStart
    <2>3. FileTypeOK
      BY <2>1, <2>2 DEF FileTypeOK, IInv
    <2>4. QED
      BY <2>1, <2>3
      DEF Init, FileIInv, RunsAreDistinct, Distinct, Listed, OneSave, SavesAreAwaited,
          SavesAreCurrent, FileIsCurrent, ClosedRests, FileKnows
  <1>2. FileIInv /\ [FileNext]_allVars => FileIInv'
    <2> SUFFICES ASSUME FileIInv, [FileNext]_allVars PROVE FileIInv'
      OBVIOUS
    <2>1. ASSUME NEW j \in JobId, SaveAfterStop(j) PROVE FileIInv'
      <3> DEFINE owner == [job |-> j, gen |-> 0]
      <3>1. owner \in Saver /\ BeginSave(owner) /\ saveTails[j] > 0
        BY <2>1 DEF SaveAfterStop, Saver
      <3>2. Awaited([owner |-> owner, snap |-> Snapshot])
        BY <3>1 DEF Awaited
      <3>3. QED
        BY <3>1, <3>2, BeginKeepsFile
    <2>2. ASSUME NEW r \in runs, SaveAfterRun(r) PROVE FileIInv'
      <3> DEFINE owner == [job |-> r.job, gen |-> r.gen]
      <3>1. r \in Run
        BY DEF FileIInv, FileTypeOK, TypeOK
      <3>2. owner \in Saver /\ BeginSave(owner) /\ r.phase = "saving"
        BY <2>2, <3>1 DEF SaveAfterRun, Saver, Run
      <3>3. Awaited([owner |-> owner, snap |-> Snapshot])
        BY <3>2 DEF Awaited
      <3>4. QED
        BY <3>2, <3>3, BeginKeepsFile
    <2>3. CASE FinalSave
      <3> DEFINE owner == [job |-> 0, gen |-> 0]
      <3>1. owner \in Saver /\ BeginSave(owner) /\ closing = "draining" /\ Drained
        BY <2>3 DEF FinalSave, Saver
      <3>2. Awaited([owner |-> owner, snap |-> Snapshot])
        BY <3>1 DEF Awaited
      <3>3. QED
        BY <3>1, <3>2, BeginKeepsFile
    <2>4. ASSUME NEW s \in saves, NEW success \in BOOLEAN, CommitSave(s, success)
          PROVE  FileIInv'
      BY <2>4, CommitKeepsFile
    <2>5. CASE UNCHANGED allVars
      <3>1. UNCHANGED vars /\ UNCHANGED fileVars
        BY <2>5 DEF allVars
      <3>2. UNCHANGED <<nextId, jobs, request, status, starting, generation, cancelGen,
                        startedBefore, maxActive, fenced, requeues, runs, pendingCancels,
                        saveTails, closing, saves, disk, lastSaveFailed>>
        BY <3>1 DEF vars, schedVars, shutVars, fileVars
      <3>3. FileTypeOK' /\ RunsAreDistinct' /\ Listed' /\ OneSave' /\ FileKnows'
        BY <3>2 DEF FileIInv, FileTypeOK, TypeOK, RunsAreDistinct, Listed, OneSave, FileKnows
      <3>4. SavesAreAwaited'
        BY <3>2 DEF FileIInv, SavesAreAwaited, Awaited, Drained, Snapshot
      <3>5. SavesAreCurrent'
        BY <3>2 DEF FileIInv, SavesAreCurrent, OwedBeside
      <3>6. FileIsCurrent'
        BY <3>2 DEF FileIInv, FileIsCurrent, Owed
      <3>7. ClosedRests'
        BY <3>2 DEF FileIInv, ClosedRests, Drained, Snapshot
      <3>8. QED
        BY <3>3, <3>4, <3>5, <3>6, <3>7 DEF FileIInv
    <2>6. QED
      BY <2>1, <2>2, <2>3, <2>4, <2>5, ManagerKeepsFile, RestartKeepsFile
      DEF FileNext, SaveStep
  <1>3. QED
    BY <1>1, <1>2, PTL DEF FileSpec

\* When Close has completed, nothing runs or saves any more, and the file holds
\* the final state unless the save of it failed.
THEOREM ClosedIsFinalAlways == FileSpec => []ClosedIsFinal
  <1>1. FileIInv => ClosedIsFinal
    BY DEF FileIInv, ClosedRests, ClosedIsFinal, Drained
  <1>2. QED
    BY <1>1, FileInvariant, PTL

\* Once a cancel, a pause or an outcome has been saved, a restart finds it: no
\* commit puts an older snapshot in place of a newer one, nor any after Close.
THEOREM SettledIsDurableAlways == FileSpec => []SettledIsDurable
  <1>1. FileIInv /\ ClosedIsFinal => SettledIsDurable
    <2> SUFFICES ASSUME FileIInv, ClosedIsFinal PROVE SettledIsDurable
      OBVIOUS
    <2>1. closing # "open" => Stopping
      BY DEF Stopping
    <2>2. QED
      BY <2>1 DEF FileIInv, FileIsCurrent, SettledIsDurable
  <1>2. QED
    BY <1>1, FileInvariant, ClosedIsFinalAlways, PTL

\* A job that has reached the file stays in it while the manager lists it.
THEOREM ListedJobIsNotLostAlways == FileSpec => ListedJobIsNotLost
  <1>1. ASSUME FileIInv, FileNext, NEW j \in jobs, disk[j] # Absent
        PROVE  disk'[j] # Absent
    <2>1. ASSUME NEW s \in saves, NEW success \in BOOLEAN, CommitSave(s, success)
          PROVE  disk'[j] # Absent
      <3>1. s.snap[j] # Absent
        BY <1>1 DEF FileIInv, FileKnows
      <3>2. QED
        BY <1>1, <2>1, <3>1 DEF CommitSave
    <2>2. ASSUME disk' = disk PROVE disk'[j] # Absent
      BY <1>1, <2>2
    <2>3. QED
      BY <1>1, <2>1, <2>2
      DEF FileNext, ManagerStep, fileVars, SaveStep, SaveAfterStop, SaveAfterRun, FinalSave,
          BeginSave, RestartProcess
  <1>2. FileIInv /\ [FileNext]_allVars
           => [\A j \in jobs : disk[j] # Absent => disk'[j] # Absent]_allVars
    BY <1>1
  <1>3. QED
    BY <1>2, FileInvariant, PTL DEF FileSpec, ListedJobIsNotLost

---------------------------------------------------------------------------
(***************************************************************************)
(* The manager across failed saves and restarts.  With the file taken      *)
(* apart, a step of the process is still a step of the manager or leaves   *)
(* it alone, and a new process starts from the file with no goroutine.     *)
(***************************************************************************)
LEMMA FileStepIsManagers ==
    ASSUME FileTypeOK, FileNext
    PROVE  Next \/ UNCHANGED vars \/ RestartProcess
  <1>1. CASE ManagerStep
    BY <1>1 DEF ManagerStep, Next
  <1>2. CASE SaveStep
    <2>1. ASSUME NEW owner, BeginSave(owner) PROVE UNCHANGED vars
      BY <2>1 DEF BeginSave
    <2>2. ASSUME NEW s \in saves, NEW success \in BOOLEAN, CommitSave(s, success) PROVE Next
      <3>1. s.owner \in Saver
        BY DEF FileTypeOK
      <3>2. s.owner.job \in {0} \cup JobId
        BY <3>1 DEF Saver
      <3>3. CASE s.owner.job # 0 /\ StopSaved(s.owner.job)
        BY <3>2, <3>3 DEF Next, SaveReturns
      <3>4. ASSUME NEW r \in runs, RunSaved(r) PROVE Next
        BY <3>4 DEF Next, SaveReturns
      <3>5. CASE FinishClose
        BY <3>5 DEF Next, SaveReturns
      <3>6. QED
        BY <2>2, <3>3, <3>4, <3>5 DEF CommitSave
    <2>3. QED
      BY <1>2, <2>1, <2>2 DEF SaveStep, SaveAfterStop, SaveAfterRun, FinalSave
  <1>3. QED
    BY <1>1, <1>2 DEF FileNext

\* Joined with its file, with saves that fail and are rewritten, the manager
\* takes its own steps and no others, but for the start of a new process.
THEOREM FileKeepsManager == FileSpec => Init /\ [][Next \/ RestartProcess]_vars
  <1>1. FileInit => Init
    BY DEF FileInit
  <1>2. FileIInv /\ [FileNext]_allVars => [Next \/ RestartProcess]_vars
    <2> SUFFICES ASSUME FileIInv, [FileNext]_allVars PROVE [Next \/ RestartProcess]_vars
      OBVIOUS
    <2>1. FileTypeOK
      BY DEF FileIInv
    <2>2. QED
      BY <2>1, FileStepIsManagers DEF allVars
  <1>3. QED
    BY <1>1, <1>2, FileInvariant, PTL DEF FileSpec

\* What a new process starts with: jobs at rest, and no goroutine.
LEMMA RestartRests ==
    ASSUME FileIInv, RestartProcess
    PROVE  /\ \A j \in JobId : status'[j] \in Terminal \cup {Absent}
           /\ jobs' \in SUBSET JobId
           /\ runs' = {} /\ starting' = {}
  <1>1. disk \in [JobId -> Terminal \cup {Absent}]
    BY DEF FileIInv, FileTypeOK
  <1>2. \A x \in Terminal \cup {Absent} : Clamp(x) = x
    BY DEF Clamp, Terminal, Absent
  <1>3. \A j \in JobId : status'[j] = disk[j]
    BY <1>1, <1>2 DEF RestartProcess
  <1>4. QED
    BY <1>1, <1>3 DEF RestartProcess

\* The invariant of the manager holds in the new process: the statuses come
\* from the file, which shows no job at work.
LEMMA RestartInv ==
    ASSUME FileIInv, RestartProcess
    PROVE  IInv'
  <1>1. TypeOK'
    BY RestartKeepsFile DEF FileIInv, FileTypeOK
  <1>2. RunsWellFormed'
    BY RestartRests DEF RunsWellFormed
  <1>3. Unborn'
    <2>1. ASSUME NEW j \in JobId, j >= nextId PROVE disk[j] = Absent
      BY <2>1 DEF FileIInv, FileKnows
    <2>2. \A j \in JobId : j >= nextId => j \notin jobs' /\ status'[j] = Absent
      BY <2>1 DEF RestartProcess, Clamp, Absent
    <2>3. nextId' = nextId /\ runs' = {}
      BY DEF RestartProcess
    <2>4. QED
      BY <2>2, <2>3 DEF Unborn
  <1>4. StartingIsSpawned'
    BY RestartRests DEF StartingIsSpawned
  <1>5. \A j \in JobId : status'[j] # "running"
    BY RestartRests DEF Terminal, Absent
  <1>6. RunningIsCancellable'
    BY <1>5 DEF RunningIsCancellable
  <1>7. LiveDownloadIsRunning' /\ CancelledRunKnowsIt'
    BY RestartRests DEF LiveDownloadIsRunning, CancelledRunKnowsIt
  <1>8. QED
    BY <1>1, <1>2, <1>3, <1>4, <1>6, <1>7 DEF IInv

LEMMA FileStepInv ==
    ASSUME FileIInv, IInv, [FileNext]_allVars
    PROVE  IInv'
  <1>1. FileTypeOK
    BY DEF FileIInv
  <1>2. [Next]_vars \/ RestartProcess
    BY <1>1, FileStepIsManagers DEF allVars
  <1>3. QED
    BY <1>2, InvStep, RestartInv

\* The inductive invariant of the manager survives failed saves and restarts:
\* LoadState builds runs, flags, generations and statuses that agree.
THEOREM InvariantAcrossRestarts == FileSpec => []IInv
  <1>1. FileInit => IInv
    BY InvStart DEF FileInit
  <1>2. FileIInv /\ IInv /\ [FileNext]_allVars => IInv'
    BY FileStepInv
  <1>3. QED
    BY <1>1, <1>2, FileInvariant, PTL DEF FileSpec

\* No job is downloaded by two runs that nobody has told to stop, also with
\* jobs that were loaded from the file.
THEOREM OneLiveDownloadAcrossRestarts == FileSpec => []OneLiveDownload
  BY InvAllowsOneLive, InvariantAcrossRestarts, PTL

\* No wakeup is lost across restarts: a new process has nothing in its queue,
\* and from there on every section serves it or leaves it to a goroutine.
THEOREM FreeSlotIsServedAcrossRestarts == FileSpec => []FreeSlotIsServed
  <1>1. FileInit => SlotIsServed
    BY DEF FileInit, Init, SlotIsServed
  <1>2. ASSUME FileIInv, IInv, SlotIsServed, [FileNext]_allVars PROVE SlotIsServed'
    <2>1. FileTypeOK
      BY <1>2 DEF FileIInv
    <2>2. [Next]_vars \/ RestartProcess
      BY <1>2, <2>1, FileStepIsManagers DEF allVars
    <2>3. ASSUME RestartProcess PROVE SlotIsServed'
      <3>1. \A j \in jobs' : status'[j] # "queued"
        BY <1>2, <2>3, RestartRests DEF Terminal, Absent
      <3>2. QED
        BY <3>1 DEF SlotIsServed
    <2>4. QED
      BY <1>2, <2>2, <2>3, SlotStep
  <1>3. QED
    BY <1>1, <1>2, SlotSuffices, FileInvariant, InvariantAcrossRestarts, PTL DEF FileSpec

\* The limit on active downloads and the order of the queue hold across
\* restarts: a new process starts with no slot taken and starts no job.
THEOREM SlotsAcrossRestarts == FileSpec => NoGrowthAboveLimit /\ OldestFirst
  <1>1. ASSUME FileIInv, IInv, FileNext
        PROVE  (GrowsWithinLimit /\ StartsOldestFirst) \/ UNCHANGED vars
    <2>1. FileTypeOK
      BY <1>1 DEF FileIInv
    <2>2. CASE Next
      BY <1>1, <2>2, GrowthStep, OldestFirstStep DEF IInv
    <2>3. CASE RestartProcess
      <3>1. starting' = {}
        BY <1>1, <2>3, RestartRests
      <3>2. \A j \in jobs' : status'[j] # "running"
        BY <1>1, <2>3, RestartRests DEF Terminal, Absent
      <3>3. Active' = {}
        BY <3>1, <3>2 DEF Active
      <3>4. Active \in SUBSET JobId
        BY <1>1 DEF Active, IInv, TypeOK
      <3>5. Cardinality(Active) \in Nat
        BY <3>4, JobSetsFinite
      <3>6. Cardinality(Active') = 0
        BY <3>3, FS_EmptySet
      <3>7. GrowsWithinLimit
        BY <3>5, <3>6 DEF GrowsWithinLimit
      <3>8. StartsOldestFirst
        BY <3>1 DEF StartsOldestFirst
      <3>9. QED
        BY <3>7, <3>8
    <2>4. QED
      BY <1>1, <2>1, <2>2, <2>3, FileStepIsManagers
  <1>2. FileIInv /\ IInv /\ [FileNext]_allVars
           => [GrowsWithinLimit]_vars /\ [StartsOldestFirst]_vars
    BY <1>1 DEF allVars
  <1>3. QED
    BY <1>2, FileInvariant, InvariantAcrossRestarts, PTL
    DEF FileSpec, NoGrowthAboveLimit, OldestFirst, GrowsWithinLimit, StartsOldestFirst
=============================================================================
