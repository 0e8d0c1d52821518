---------------------------- MODULE JobCoalescer ----------------------------
(***************************************************************************)
(* The throttle between the job manager and the WebSocket hub              *)
(* (src/internal/server/coalesce.go), for one job: its maps are keyed by   *)
(* job and the jobs share nothing but the mutex.                           *)
(*                                                                         *)
(* A publisher takes a snapshot of the job under the manager's lock and    *)
(* hands it to schedule after releasing it; schedule decides under the     *)
(* coalescer's lock and sends after releasing that one; a timer that has   *)
(* fired runs its callback when the scheduler lets it.  Each of these      *)
(* pauses is a step of its own here, so the snapshots can overtake each    *)
(* other wherever the code lets them.                                      *)
(*                                                                         *)
(* A snapshot is its version: the number of changes the job had seen.      *)
(* Time is relative: since counts up to MinGap, delays count down.         *)
(***************************************************************************)
EXTENDS Naturals

CONSTANTS
    Publishers,  \* goroutines that publish updates of the job
    MinGap,      \* minimum gap between two sends, in ticks
    MaxVersion,  \* bound: changes of the job
    Timers       \* bound: timers that exist at the same time

NoTimer == "none"

ASSUME CoalescerAssumption ==
    /\ MinGap \in Nat \ {0}
    /\ MaxVersion \in Nat
    /\ Publishers \cap Timers = {}
    /\ NoTimer \notin Timers

None == 0
Senders == Publishers \cup Timers

VARIABLES
    version,   \* version of the job the manager holds
    terminal,  \* versions whose status is completed, failed, cancelled or paused
    holding,   \* snapshot a publisher took and has not scheduled yet
    since,     \* time since lastSent; MinGap: the gap is over, or nothing was sent
    pending,   \* snapshot waiting for its flush
    entry,     \* the timer in the timers map
    timer,     \* state of every timer: free, running (with its delay) or fired
    delay,     \* time a running timer has left
    sending,   \* snapshot a goroutine sends, after the unlock
    sent,      \* versions that reached the hub
    lastSent   \* version that reached the hub last

vars == <<version, terminal, holding, since, pending, entry, timer, delay,
          sending, sent, lastSent>>
jobVars == <<version, terminal>>
sentVars == <<sent, lastSent>>

Version == None..MaxVersion

TypeOK ==
    /\ version \in Version
    /\ terminal \subseteq 1..MaxVersion
    /\ holding \in [Publishers -> Version]
    /\ since \in 0..MinGap
    /\ pending \in Version
    /\ entry \in Timers \cup {NoTimer}
    /\ timer \in [Timers -> {"free", "running", "fired"}]
    /\ delay \in [Timers -> 0..MinGap]
    /\ sending \in [Senders -> Version]
    /\ sent \subseteq 1..MaxVersion
    /\ lastSent \in Version

Init ==
    /\ version = None /\ terminal = {}
    /\ holding = [p \in Publishers |-> None]
    /\ since = MinGap
    /\ pending = None /\ entry = NoTimer
    /\ timer = [t \in Timers |-> "free"]
    /\ delay = [t \in Timers |-> 0]
    /\ sending = [s \in Senders |-> None]
    /\ sent = {} /\ lastSent = None

Idle(p) == holding[p] = None /\ sending[p] = None

\* A change of the job: the snapshot is taken under the manager's lock, which
\* is released before notifyListeners runs.
Update(p) ==
    /\ Idle(p) /\ version < MaxVersion
    /\ version' = version + 1
    /\ \/ terminal' = terminal \cup {version + 1}
       \/ UNCHANGED terminal
    /\ holding' = [holding EXCEPT ![p] = version + 1]
    /\ UNCHANGED <<since, pending, entry, timer, delay, sending, sentVars>>

\* Timer.Stop: a timer that has already fired is not stopped.
StopEntry ==
    timer' = IF entry # NoTimer /\ timer[entry] = "running"
             THEN [timer EXCEPT ![entry] = "free"]
             ELSE timer

Taken(p) == holding' = [holding EXCEPT ![p] = None]

\* A terminal update, and one outside the window: any queued state is
\* superseded, and the send follows the unlock.
Forward(p) ==
    /\ holding[p] # None
    /\ holding[p] \in terminal \/ since = MinGap
    /\ Taken(p)
    /\ StopEntry /\ entry' = NoTimer /\ pending' = None
    /\ since' = 0
    /\ sending' = [sending EXCEPT ![p] = holding[p]]
    /\ UNCHANGED <<jobVars, delay, sentVars>>

\* The timer that will flush a queued update: the one that is armed, or a new
\* one for what is left of the gap.
Arm ==
    \/ entry # NoTimer /\ UNCHANGED <<entry, timer, delay>>
    \/ /\ entry = NoTimer
       /\ \E t \in Timers :
            /\ timer[t] = "free" /\ sending[t] = None
            /\ entry' = t
            /\ timer' = [timer EXCEPT ![t] = "running"]
            /\ delay' = [delay EXCEPT ![t] = MinGap - since]

\* An update inside the window is queued, superseding an earlier queued one.
Queue(p) ==
    /\ holding[p] # None
    /\ holding[p] \notin terminal /\ since < MinGap
    /\ Taken(p)
    /\ pending' = holding[p]
    /\ Arm
    /\ UNCHANGED <<jobVars, since, sending, sentVars>>

Schedule(p) == Forward(p) \/ Queue(p)

\* The runtime starts the callback of a timer whose delay is over; the
\* callback then waits for the coalescer's lock.
Fire(t) ==
    /\ timer[t] = "running" /\ delay[t] = 0
    /\ timer' = [timer EXCEPT ![t] = "fired"]
    /\ UNCHANGED <<jobVars, holding, since, pending, entry, delay, sending, sentVars>>

\* Mutant: the callback leaves its own entry in the timers map.
FlushKeepsEntry(t) ==
    /\ timer[t] = "fired"
    /\ timer' = [timer EXCEPT ![t] = "free"]
    /\ pending' = None
    /\ since' = IF pending # None THEN 0 ELSE since
    /\ sending' = [sending EXCEPT ![t] = pending]
    /\ UNCHANGED <<jobVars, holding, entry, delay, sentVars>>

\* The callback.  It clears the map's entry for the job, whichever timer that
\* is, and takes whatever is pending.
Flush(t) ==
    /\ timer[t] = "fired"
    /\ timer' = [timer EXCEPT ![t] = "free"]
    /\ entry' = NoTimer /\ pending' = None
    /\ since' = IF pending # None THEN 0 ELSE since
    /\ sending' = [sending EXCEPT ![t] = pending]
    /\ UNCHANGED <<jobVars, holding, delay, sentVars>>

\* send, without the coalescer's lock.
Send(s) ==
    /\ sending[s] # None
    /\ lastSent' = sending[s]
    /\ sent' = sent \cup {sending[s]}
    /\ sending' = [sending EXCEPT ![s] = None]
    /\ UNCHANGED <<jobVars, holding, since, pending, entry, timer, delay>>

Running == {t \in Timers : timer[t] = "running"}

\* One unit of time passes.  A timer may fire late but its delay never goes
\* below zero.
Tick ==
    /\ since < MinGap \/ \E t \in Running : delay[t] > 0
    /\ since' = IF since < MinGap THEN since + 1 ELSE since
    /\ delay' = [t \in Timers |->
                    IF t \in Running /\ delay[t] > 0 THEN delay[t] - 1 ELSE delay[t]]
    /\ UNCHANGED <<jobVars, holding, pending, entry, timer, sending, sentVars>>

Next ==
    \/ \E p \in Publishers : Update(p) \/ Schedule(p)
    \/ \E t \in Timers : Fire(t) \/ Flush(t)
    \/ \E s \in Senders : Send(s)
    \/ Tick

Spec == Init /\ [][Next]_vars
-----------------------------------------------------------------------------
\* A queued update always has a timer of its own in the map, and that timer has
\* not run yet: no callback, late or not, leaves an update behind that nothing
\* will ever flush (coalesce.go:84-110).
PendingIsArmed ==
    pending # None => entry # NoTimer /\ timer[entry] # "free"
=============================================================================
