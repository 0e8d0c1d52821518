----------------------------- MODULE FeedProofs -----------------------------
(***************************************************************************)
(* What reaches a browser or a file is complete: the updates of the jobs,  *)
(* and the log.                                                            *)
(*                                                                         *)
(* JobUpdates: for any number of publishers, timers and browsers, any gap  *)
(* and any capacities, a queued update has an armed timer that has not     *)
(* run, and the hub never touches a channel that is closed.                *)
(* PendingIsArmed is not inductive without types, and not without knowing  *)
(* that the timer named in the map is a live one: a dead entry would keep  *)
(* the next queued update from being given a timer.  ChannelsAreOpen rests *)
(* on what has happened to the handler and the read pump of a client whose *)
(* channel is closed (PumpsFollow).                                        *)
(*                                                                         *)
(* The log tells the truth, for a ring, a page, a feed, a file and a       *)
(* number of rotated files of any size.                                    *)
(*                                                                         *)
(* LogStream and its LogRing: the ring holds the latest records without a  *)
(* gap (RingHolds), and implements BoundedLog; a page is the answer of     *)
(* that log for every cursor (PagesAnswer); and a record ahead of the      *)
(* stream's position is on its way to it, was counted as lost or is known  *)
(* to be gone (Covered), from which it follows that the stream has no      *)
(* silent hole.                                                            *)
(*                                                                         *)
(* FileSink: the files, from the oldest to the active one, hold records in *)
(* order (FilesOK), and every step of a rotation moves a file onto one     *)
(* that is gone, but for the oldest (Rotation).                            *)
(***************************************************************************)
EXTENDS JobUpdates, LogStream, FileSink,
        NaturalsInduction, WellFoundedInduction, SequenceTheorems, TLAPS

---------------------------------------------------------------------------
(* The throttle. *)

\* The timer in the map has not run its callback and was not stopped.
EntryIsLive == entry # NoTimer => timer[entry] # "free"

IInv == TypeOK /\ EntryIsLive /\ PendingIsArmed

\* Numbers that recur in the type invariant.
LEMMA Bounds ==
    /\ MinGap \in Nat \ {0} /\ MaxVersion \in Nat /\ None = 0
    /\ NoTimer \notin Timers /\ Publishers \cap Timers = {}
  BY CoalescerAssumption DEF None

\* One more element of a set leaves a subset of it a subset.
LEMMA OneMore ==
    ASSUME NEW T, NEW S \in SUBSET T, NEW x \in T PROVE S \cup {x} \in SUBSET T
  OBVIOUS

\* The coalescer starts with no timers and nothing queued.
LEMMA InitIInv == Init => IInv
  BY Bounds DEF Init, IInv, TypeOK, EntryIsLive, PendingIsArmed, Version, Senders

\* Every step leaves every variable within its type.
LEMMA TypeStep == TypeOK /\ [Next]_vars => TypeOK'
<1> SUFFICES ASSUME TypeOK, [Next]_vars PROVE TypeOK'
  OBVIOUS
<1> USE Bounds DEF TypeOK, Version, Senders
<1>1. ASSUME NEW p \in Publishers, Update(p) PROVE TypeOK'
  <2>1. version + 1 \in 1..MaxVersion
    BY <1>1 DEF Update
  <2>2. terminal' \subseteq 1..MaxVersion
    <3>1. terminal \cup {version + 1} \in SUBSET (1..MaxVersion)
      BY <2>1, OneMore
    <3> QED
      BY <1>1, <3>1 DEF Update
  <2>3. /\ version' \in Version
        /\ holding' \in [Publishers -> Version]
    BY <1>1, <2>1 DEF Update
  <2> QED
    BY <1>1, <2>2, <2>3 DEF Update, sentVars
<1>2. ASSUME NEW p \in Publishers, Forward(p) PROVE TypeOK'
  <2>1. timer' \in [Timers -> {"free", "running", "fired"}]
    BY <1>2 DEF Forward, StopEntry
  <2>2. /\ holding' \in [Publishers -> Version]
        /\ sending' \in [Publishers \cup Timers -> Version]
    BY <1>2 DEF Forward, Taken
  <2>3. /\ entry' = NoTimer /\ pending' = None /\ since' = 0
        /\ UNCHANGED <<version, terminal, delay, sent, lastSent>>
    BY <1>2 DEF Forward, jobVars, sentVars
  <2> QED
    BY <2>1, <2>2, <2>3
<1>3. ASSUME NEW p \in Publishers, Queue(p) PROVE TypeOK'
  <2>1. /\ entry' \in Timers \cup {NoTimer}
        /\ timer' \in [Timers -> {"free", "running", "fired"}]
        /\ delay' \in [Timers -> 0..MinGap]
    <3>1. CASE entry # NoTimer
      BY <1>3, <3>1 DEF Queue, Arm
    <3>2. CASE entry = NoTimer
      <4>1. PICK t \in Timers : /\ entry' = t
                                /\ timer' = [timer EXCEPT ![t] = "running"]
                                /\ delay' = [delay EXCEPT ![t] = MinGap - since]
        BY <1>3, <3>2 DEF Queue, Arm
      <4>2. MinGap - since \in 0..MinGap
        OBVIOUS
      <4> QED
        BY <4>1, <4>2
    <3> QED
      BY <3>1, <3>2
  <2>2. /\ holding' \in [Publishers -> Version]
        /\ pending' \in Version
        /\ UNCHANGED <<version, terminal, since, sending, sent, lastSent>>
    BY <1>3 DEF Queue, Taken, jobVars, sentVars
  <2> QED
    BY <2>1, <2>2
<1>4. ASSUME NEW t \in Timers, Fire(t) PROVE TypeOK'
  BY <1>4 DEF Fire, jobVars, sentVars
<1>5. ASSUME NEW t \in Timers, Flush(t) PROVE TypeOK'
  BY <1>5 DEF Flush, jobVars, sentVars
<1>6. ASSUME NEW s \in Senders, Send(s) PROVE TypeOK'
  <2>1. sending[s] \in 1..MaxVersion
    BY <1>6 DEF Send
  <2>2. sent' \subseteq 1..MaxVersion
    <3>1. sent \cup {sending[s]} \in SUBSET (1..MaxVersion)
      BY <2>1, OneMore
    <3> QED
      BY <1>6, <3>1 DEF Send
  <2>3. /\ sending' \in [Senders -> Version]
        /\ lastSent' \in Version
    BY <1>6, <2>1 DEF Send
  <2> QED
    BY <1>6, <2>2, <2>3 DEF Send, jobVars
<1>7. ASSUME Tick PROVE TypeOK'
  <2>1. delay' \in [Timers -> 0..MinGap]
    BY <1>7 DEF Tick, Running
  <2> QED
    BY <1>7, <2>1 DEF Tick, jobVars, sentVars
<1>8. ASSUME UNCHANGED vars PROVE TypeOK'
  BY <1>8 DEF vars
<1> QED
  BY <1>1, <1>2, <1>3, <1>4, <1>5, <1>6, <1>7, <1>8 DEF Next, Schedule

\* No step, a late callback's included, leaves a dead entry in the map or a
\* queued update without a timer.
LEMMA ArmedStep == IInv /\ [Next]_vars => EntryIsLive' /\ PendingIsArmed'
<1> SUFFICES ASSUME IInv, [Next]_vars PROVE EntryIsLive' /\ PendingIsArmed'
  OBVIOUS
<1> USE Bounds DEF IInv, TypeOK, EntryIsLive, PendingIsArmed
<1>1. ASSUME NEW p \in Publishers, Update(p) PROVE EntryIsLive' /\ PendingIsArmed'
  BY <1>1 DEF Update
<1>2. ASSUME NEW p \in Publishers, Forward(p) PROVE EntryIsLive' /\ PendingIsArmed'
  BY <1>2 DEF Forward
<1>3. ASSUME NEW p \in Publishers, Queue(p) PROVE EntryIsLive' /\ PendingIsArmed'
  <2>1. CASE entry # NoTimer
    BY <1>3, <2>1 DEF Queue, Arm
  <2>2. CASE entry = NoTimer
    <3>1. PICK t \in Timers : /\ entry' = t
                              /\ timer' = [timer EXCEPT ![t] = "running"]
      BY <1>3, <2>2 DEF Queue, Arm
    <3> QED
      BY <3>1
  <2> QED
    BY <2>1, <2>2
<1>4. ASSUME NEW t \in Timers, Fire(t) PROVE EntryIsLive' /\ PendingIsArmed'
  BY <1>4 DEF Fire
<1>5. ASSUME NEW t \in Timers, Flush(t) PROVE EntryIsLive' /\ PendingIsArmed'
  BY <1>5 DEF Flush
<1>6. ASSUME NEW s \in Senders, Send(s) PROVE EntryIsLive' /\ PendingIsArmed'
  BY <1>6 DEF Send
<1>7. ASSUME Tick PROVE EntryIsLive' /\ PendingIsArmed'
  BY <1>7 DEF Tick
<1>8. ASSUME UNCHANGED vars PROVE EntryIsLive' /\ PendingIsArmed'
  BY <1>8 DEF vars
<1> QED
  BY <1>1, <1>2, <1>3, <1>4, <1>5, <1>6, <1>7, <1>8 DEF Next, Schedule

\* The coalescer's invariant holds in every reachable state.
THEOREM CoalescerInvariant == Spec => []IInv
<1>1. IInv /\ [Next]_vars => IInv'
  BY TypeStep, ArmedStep DEF IInv
<1> QED
  BY InitIInv, <1>1, PTL DEF Spec

\* Every variable of the coalescer keeps its type (coalesce.go:18-26).
THEOREM CoalescerTypeCorrect == Spec => []TypeOK
<1>1. IInv => TypeOK
  BY DEF IInv
<1> QED
  BY CoalescerInvariant, <1>1, PTL

\* A queued update always has a live timer in the map, however the callbacks and
\* the publishers interleave (coalesce.go:84-110).
THEOREM PendingIsArmedAlways == Spec => []PendingIsArmed
<1>1. IInv => PendingIsArmed
  BY DEF IInv
<1> QED
  BY CoalescerInvariant, <1>1, PTL
-----------------------------------------------------------------------------
(* Short queues. *)

\* A sequence of at most n elements.
LEMMA ShortSeq ==
    ASSUME NEW S, NEW n \in Nat, NEW s
    PROVE  s \in Hub!BoundedSeq(S, n) <=> s \in Seq(S) /\ Len(s) <= n
<1>1. ASSUME s \in Hub!BoundedSeq(S, n) PROVE s \in Seq(S) /\ Len(s) <= n
  <2>1. PICK m \in 0..n : s \in [1..m -> S]
    BY <1>1 DEF Hub!BoundedSeq, Hub!SeqOf
  <2>2. m \in Nat
    OBVIOUS
  <2>3. s \in Seq(S) /\ Len(s) = m
    BY <2>1, <2>2
  <2> QED
    BY <2>1, <2>3
<1>2. ASSUME s \in Seq(S), Len(s) <= n PROVE s \in Hub!BoundedSeq(S, n)
  <2>1. Len(s) \in 0..n /\ s \in [1..Len(s) -> S]
    BY <1>2
  <2> QED
    BY <2>1 DEF Hub!BoundedSeq, Hub!SeqOf
<1> QED
  BY <1>1, <1>2

LEMMA EmptyQueue == ASSUME NEW S, NEW n \in Nat PROVE <<>> \in Hub!BoundedSeq(S, n)
<1>1. <<>> \in Seq(S) /\ Len(<<>>) <= n
  OBVIOUS
<1> QED
  BY <1>1, ShortSeq

\* What is done to a queue keeps it short.
LEMMA ShortQueue ==
    ASSUME NEW S, NEW n \in Nat, NEW s \in Hub!BoundedSeq(S, n)
    PROVE  /\ Len(s) < n => \A e \in S : Append(s, e) \in Hub!BoundedSeq(S, n)
           /\ s # <<>> => Tail(s) \in Hub!BoundedSeq(S, n) /\ Head(s) \in S
<1>1. s \in Seq(S) /\ Len(s) <= n
  BY ShortSeq
<1>2. ASSUME Len(s) < n, NEW e \in S PROVE Append(s, e) \in Hub!BoundedSeq(S, n)
  <2>1. Append(s, e) \in Seq(S) /\ Len(Append(s, e)) <= n
    BY <1>1, <1>2
  <2> QED
    BY <2>1, ShortSeq
<1>3. ASSUME s # <<>> PROVE Tail(s) \in Hub!BoundedSeq(S, n) /\ Head(s) \in S
  <2>1. Tail(s) \in Seq(S) /\ Len(Tail(s)) <= n /\ Head(s) \in S
    BY <1>1, <1>3
  <2> QED
    BY <2>1, ShortSeq
<1> QED
  BY <1>2, <1>3
-----------------------------------------------------------------------------
(* The hub. *)

\* How far the handler and the read pump of a client have come: the hub knows it from
\* the registration on, a pump is started before the jobs are listed, and a read pump
\* that has stopped reading has marked the client.
PumpsFollow ==
    \A c \in Clients :
        /\ c \in clients \cup closedChan => handler[c] \notin {"none", "upgraded"}
        /\ handler[c] \in {"started", "listed"} => reader[c] # "none"
        /\ reader[c] \in {"leaving", "ended"} => c \in closed

UpdatesIInv == HubUsesOpenChannels /\ PumpsFollow

LEMMA HubBounds ==
    BroadcastCap \in Nat /\ SendCap \in Nat /\ MaxVersion \in Nat /\ Version = 0..MaxVersion
  BY UpdatesAssumption, CoalescerAssumption DEF Version, None

LEMMA HubInit == ASSUME UpdatesInit PROVE UpdatesIInv
<1>1. /\ <<>> \in Hub!BoundedSeq(1..MaxVersion, BroadcastCap)
      /\ <<>> \in Hub!BoundedSeq(0..MaxVersion, SendCap)
  BY EmptyQueue, HubBounds
<1>2. TypeOK
  BY InitIInv DEF UpdatesInit, IInv
<1>3. Hub!TypeOK
  BY <1>1, HubBounds DEF UpdatesInit, Hub!Init, Hub!TypeOK
<1>4. Hub!HubUsesOpenChannels /\ PumpsFollow
  BY DEF UpdatesInit, Hub!Init, Hub!HubUsesOpenChannels, PumpsFollow
<1> QED
  BY <1>2, <1>3, <1>4 DEF UpdatesIInv, HubUsesOpenChannels, UpdatesTypeOK

\* The types of the hub's variables.
LEMMA HubTypeStep ==
    ASSUME TypeOK, Hub!TypeOK,
           \/ Hub!Deliver \/ \E c \in Clients : Hub!Step(c)
           \/ \E s \in Senders : Publish(s)
    PROVE  Hub!TypeOK'
<1> USE HubBounds DEF Hub!TypeOK
<1>1. ASSUME NEW s \in Senders, Publish(s) PROVE Hub!TypeOK'
  <2>1. sending[s] \in 1..MaxVersion
    BY <1>1 DEF Publish, Send, TypeOK, None
  <2>2. broadcast' \in Hub!BoundedSeq(1..MaxVersion, BroadcastCap)
    <3>1. Len(broadcast) < BroadcastCap =>
             Append(broadcast, sending[s]) \in Hub!BoundedSeq(1..MaxVersion, BroadcastCap)
      BY <2>1, ShortQueue
    <3> QED
      BY <1>1, <3>1 DEF Publish, Hub!Broadcast
  <2>3. dropped' \subseteq 1..MaxVersion
    BY <1>1, <2>1 DEF Publish, Hub!Broadcast
  <2> QED
    BY <1>1, <2>2, <2>3 DEF Publish, Hub!Broadcast, Hub!handlerVars, Hub!chanVars, Hub!pumpVars
<1>2. ASSUME Hub!Deliver PROVE Hub!TypeOK'
  <2>1. /\ broadcast' \in Hub!BoundedSeq(1..MaxVersion, BroadcastCap)
        /\ Head(broadcast) \in 1..MaxVersion
    BY <1>2, ShortQueue DEF Hub!Deliver
  <2>2. send' \in [Clients -> Hub!BoundedSeq(0..MaxVersion, SendCap)]
    <3>1. ASSUME NEW c \in Clients, ~Hub!Full(c)
          PROVE  Append(send[c], Head(broadcast)) \in Hub!BoundedSeq(0..MaxVersion, SendCap)
      <4>1. send[c] \in Hub!BoundedSeq(0..MaxVersion, SendCap) /\ Head(broadcast) \in 0..MaxVersion
        BY <2>1
      <4>2. Len(send[c]) < SendCap
        BY <3>1, <4>1, ShortSeq DEF Hub!Full
      <4> QED
        BY <4>1, <4>2, ShortQueue
    <3> QED
      BY <1>2, <3>1 DEF Hub!Deliver
  <2>3. clients' \subseteq Clients /\ closedChan' \subseteq Clients
    BY <1>2 DEF Hub!Deliver
  <2> QED
    BY <1>2, <2>1, <2>2, <2>3 DEF Hub!Deliver, Hub!handlerVars, Hub!pumpVars
<1>3. ASSUME NEW c \in Clients, Hub!Step(c) PROVE Hub!TypeOK'
  <2> USE DEF Hub!hubVars, Hub!handlerVars, Hub!chanVars, Hub!pumpVars
  <2>1. CASE Hub!Register(c) \/ Hub!Connect(c) \/ Hub!StartPumps(c)
    BY <2>1 DEF Hub!Register, Hub!Connect, Hub!StartPumps
  <2>2. CASE Hub!Unregister(c) \/ Hub!WriterEnds(c) \/ Hub!Disconnect(c) \/ Hub!ReaderEnds(c)
    BY <2>2 DEF Hub!Unregister, Hub!WriterEnds, Hub!Disconnect, Hub!ReaderEnds
  <2>3. CASE Hub!ListJobs(c)
    BY <2>3 DEF Hub!ListJobs, TypeOK
  <2>4. CASE Hub!SendInit(c)
    <3>1. ~Hub!Full(c) => Append(send[c], listed[c]) \in Hub!BoundedSeq(0..MaxVersion, SendCap)
      <4>1. send[c] \in Hub!BoundedSeq(0..MaxVersion, SendCap) /\ listed[c] \in 0..MaxVersion
        OBVIOUS
      <4>2. ~Hub!Full(c) => Len(send[c]) < SendCap
        BY <4>1, ShortSeq DEF Hub!Full
      <4> QED
        BY <4>1, <4>2, ShortQueue
    <3> QED
      BY <2>4, <3>1 DEF Hub!SendInit
  <2>5. CASE Hub!WriteMessage(c)
    <3>1. /\ Tail(send[c]) \in Hub!BoundedSeq(0..MaxVersion, SendCap)
          /\ Head(send[c]) \in 0..MaxVersion
      BY <2>5, ShortQueue DEF Hub!WriteMessage
    <3> QED
      BY <2>5, <3>1 DEF Hub!WriteMessage
  <2> QED
    BY <1>3, <2>1, <2>2, <2>3, <2>4, <2>5 DEF Hub!Step, Hub!Handler, Hub!Writer
<1> QED
  BY <1>1, <1>2, <1>3

\* The steps of the throttle leave the hub alone, and the others leave the throttle alone
\* or are a step of its own.
LEMMA StepsApart ==
    ASSUME UpdatesNext
    PROVE  /\ [Next]_vars
           /\ \/ UNCHANGED hubVars
              \/ Hub!Deliver \/ \E c \in Clients : Hub!Step(c)
              \/ \E s \in Senders : Publish(s)
  BY DEF UpdatesNext, Next, Throttle, HubStep, Publish

\* What the hub and the pumps do to each other.
LEMMA PumpsStep ==
    ASSUME UpdatesIInv,
           \/ Hub!Deliver \/ \E c \in Clients : Hub!Step(c)
           \/ \E s \in Senders : Publish(s)
    PROVE  Hub!HubUsesOpenChannels' /\ PumpsFollow' /\ Hub!PanicStep
<1> USE DEF UpdatesIInv, HubUsesOpenChannels, UpdatesTypeOK, Hub!TypeOK,
            Hub!HubUsesOpenChannels, PumpsFollow, Hub!PanicStep,
            Hub!hubVars, Hub!handlerVars, Hub!chanVars, Hub!pumpVars
<1>1. ASSUME NEW s \in Senders, Publish(s)
      PROVE  Hub!HubUsesOpenChannels' /\ PumpsFollow' /\ Hub!PanicStep
  BY <1>1 DEF Publish, Hub!Broadcast
<1>2. ASSUME Hub!Deliver PROVE Hub!HubUsesOpenChannels' /\ PumpsFollow' /\ Hub!PanicStep
  BY <1>2 DEF Hub!Deliver
<1>3. ASSUME NEW c \in Clients, Hub!Step(c)
      PROVE  Hub!HubUsesOpenChannels' /\ PumpsFollow' /\ Hub!PanicStep
  <2>1. CASE Hub!Register(c)
    BY <2>1 DEF Hub!Register
  <2>2. CASE Hub!Unregister(c)
    BY <2>2 DEF Hub!Unregister
  <2>3. CASE Hub!Connect(c)
    BY <2>3 DEF Hub!Connect
  <2>4. CASE Hub!StartPumps(c)
    BY <2>4 DEF Hub!StartPumps
  <2>5. CASE Hub!ListJobs(c)
    BY <2>5 DEF Hub!ListJobs
  <2>6. CASE Hub!SendInit(c)
    BY <2>6 DEF Hub!SendInit
  <2>7. CASE Hub!WriteMessage(c) \/ Hub!WriterEnds(c)
    BY <2>7 DEF Hub!WriteMessage, Hub!WriterEnds
  <2>8. CASE Hub!ReaderEnds(c)
    BY <2>8 DEF Hub!ReaderEnds
  <2>9. CASE Hub!Disconnect(c)
    BY <2>9 DEF Hub!Disconnect
  <2> QED
    BY <1>3, <2>1, <2>2, <2>3, <2>4, <2>5, <2>6, <2>7, <2>8, <2>9
    DEF Hub!Step, Hub!Handler, Hub!Writer
<1> QED
  BY <1>1, <1>2, <1>3

\* The invariant and the action property, for one step.
LEMMA UpdatesStep ==
    ASSUME UpdatesIInv, [UpdatesNext]_allVars
    PROVE  UpdatesIInv' /\ (UpdatesNext => Hub!PanicStep)
<1>1. [Next]_vars
  BY StepsApart DEF allVars
<1>2. TypeOK'
  BY <1>1, TypeStep DEF UpdatesIInv, HubUsesOpenChannels, UpdatesTypeOK
<1>3. CASE UNCHANGED hubVars
  <2>1. Hub!TypeOK'
    BY <1>3 DEF hubVars, Hub!TypeOK, UpdatesIInv, HubUsesOpenChannels, UpdatesTypeOK
  <2>2. Hub!HubUsesOpenChannels' /\ PumpsFollow' /\ Hub!PanicStep
    BY <1>3 DEF hubVars, Hub!HubUsesOpenChannels, PumpsFollow, Hub!PanicStep, UpdatesIInv,
                HubUsesOpenChannels
  <2> QED
    BY <1>2, <2>1, <2>2 DEF UpdatesIInv, HubUsesOpenChannels, UpdatesTypeOK
<1>4. CASE \/ Hub!Deliver \/ \E c \in Clients : Hub!Step(c)
           \/ \E s \in Senders : Publish(s)
  <2>1. Hub!TypeOK'
    BY <1>4, HubTypeStep DEF UpdatesIInv, HubUsesOpenChannels, UpdatesTypeOK
  <2> QED
    BY <1>2, <1>4, <2>1, PumpsStep DEF UpdatesIInv, HubUsesOpenChannels, UpdatesTypeOK
<1> QED
  BY <1>3, <1>4, StepsApart DEF allVars

\* The hub has open channels in its map only, in every state.
THEOREM UpdatesInvariant == UpdatesSpec => []UpdatesIInv
<1>1. UpdatesInit => UpdatesIInv
  BY HubInit
<1>2. UpdatesIInv /\ [UpdatesNext]_allVars => UpdatesIInv'
  BY UpdatesStep
<1> QED
  BY <1>1, <1>2, PTL DEF UpdatesSpec

\* Neither the hub nor the handler of a client that has left uses a closed channel.
THEOREM ChannelsAreOpenAlways == UpdatesSpec => ChannelsAreOpen
<1>1. UpdatesIInv /\ UpdatesNext /\ UpdatesIInv' => HubUsesOpenChannels' /\ Hub!PanicStep
  BY UpdatesStep DEF UpdatesIInv
<1> QED
  BY <1>1, UpdatesInvariant, PTL DEF UpdatesSpec, ChannelsAreOpen

\* Composed with the hub, the throttle behaves as it does alone: what was proved of it
\* holds here.
THEOREM UpdatesRefineThrottle == UpdatesSpec => Spec
<1>1. UpdatesInit => Init
  BY DEF UpdatesInit
<1>2. [UpdatesNext]_allVars => [Next]_vars
  BY StepsApart DEF allVars
<1> QED
  BY <1>1, <1>2, PTL DEF UpdatesSpec, Spec

\* So a queued update has its timer, whatever the hub and the browsers do.
THEOREM ArmedBesideTheHub == UpdatesSpec => []PendingIsArmed
  BY UpdatesRefineThrottle, PendingIsArmedAlways, PTL

---------------------------------------------------------------------------
(* Numbers and sequences *)

\* The least of some numbers.
LEMMA LeastOf ==
    ASSUME NEW S, S \subseteq Nat, S # {}
    PROVE  \E i \in S : \A k \in S : i <= k
  <1> DEFINE Less == {p \in Nat \X Nat : p[1] < p[2]}
  <1>1. IsWellFoundedOn(Less, Nat)
    BY NatLessThanWellFounded DEF OpToRel
  <1>2. \A i, k \in Nat : k < i => <<k, i>> \in Less
    OBVIOUS
  <1> HIDE DEF Less
  <1>3. PICK i \in S : \A k \in S : ~ (<<k, i>> \in Less)
    BY <1>1, WFMin
  <1>4. ASSUME NEW k \in S PROVE i <= k
    <2>1. i \in Nat /\ k \in Nat
      OBVIOUS
    <2>2. ~(k < i)
      BY <1>3, <1>2, <2>1
    <2>3. QED
      BY <2>1, <2>2
  <1>5. QED
    BY <1>4

\* A remainder on the first lap and on the second.
LEMMA ModIs ==
    ASSUME NEW c \in Nat \ {0}, NEW a \in Nat, a < 2 * c
    PROVE  a % c = IF a < c THEN a ELSE a - c
  OBVIOUS

\* Places in the circular buffer.
LEMMA PlacesInRing ==
    \A i \in Nat : i < 2 * Capacity =>
        /\ Slot(i) \in 0..Capacity - 1
        /\ Slot(i) = IF i < Capacity THEN i ELSE i - Capacity
  <1>1. Capacity \in Nat \ {0}
    BY RingAssumption
  <1>2. ASSUME NEW i \in Nat, i < 2 * Capacity
        PROVE  Slot(i) = IF i < Capacity THEN i ELSE i - Capacity
    BY <1>1, <1>2, ModIs DEF Slot
  <1>3. QED
    BY <1>1, <1>2

\* The elements of a sequence after one more.
LEMMA AppendedSet ==
    \A X : \A s \in Seq(X), e \in X : ToSet(Append(s, e)) = ToSet(s) \cup {e}
  <1> SUFFICES ASSUME NEW X, NEW s \in Seq(X), NEW e \in X
               PROVE  ToSet(Append(s, e)) = ToSet(s) \cup {e}
    OBVIOUS
  <1>1. /\ Append(s, e) \in Seq(X) /\ Len(Append(s, e)) = Len(s) + 1 /\ Len(s) \in Nat
        /\ DOMAIN s = 1..Len(s) /\ DOMAIN Append(s, e) = 1..Len(s) + 1
        /\ \A i \in 1..Len(s) : Append(s, e)[i] = s[i]
        /\ Append(s, e)[Len(s) + 1] = e
    BY AppendProperties, LenProperties
  <1>2. QED
    BY <1>1 DEF ToSet

---------------------------------------------------------------------------
(* What a loop keeps *)

\* The recursion of the loop.
LEMMA KeptIs ==
    ASSUME NEW X, NEW s \in Seq(X), NEW set
    PROVE  /\ DOMAIN Kept(s, set) = 0..Len(s)
           /\ Kept(s, set)[0] = <<>>
           /\ \A i \in 1..Len(s) :
                Kept(s, set)[i] = IF s[i] \in set THEN Append(Kept(s, set)[i - 1], s[i])
                                                  ELSE Kept(s, set)[i - 1]
  <1> DEFINE Step(f, i) == IF i = 0 THEN <<>>
                           ELSE IF s[i] \in set THEN Append(f[i - 1], s[i]) ELSE f[i - 1]
             Exists(n) == \E f : f = [i \in 0..n |-> Step(f, i)]
             Bad == {n \in 0..Len(s) : ~Exists(n)}
  <1>0. Len(s) \in Nat
    BY LenProperties
  <1>1. Exists(0)
    <2>1. [i \in 0..0 |-> <<>>] = [i \in 0..0 |-> Step([j \in 0..0 |-> <<>>], i)]
      OBVIOUS
    <2>2. QED
      BY <2>1
  <1>2. ASSUME NEW n \in Nat, Exists(n) PROVE Exists(n + 1)
    <2>1. PICK f : f = [i \in 0..n |-> Step(f, i)]
      BY <1>2
    <2> DEFINE g == [i \in 0..n + 1 |-> IF i = n + 1 THEN Step(f, i) ELSE f[i]]
    <2>2. ASSUME NEW i \in 0..n + 1 PROVE g[i] = Step(g, i)
      <3>1. CASE i = n + 1
        <4>1. g[i] = Step(f, i) /\ g[i - 1] = f[i - 1] /\ i # 0
          BY <3>1
        <4>2. QED
          BY <4>1
      <3>2. CASE i # n + 1
        <4>1. i \in 0..n
          BY <3>2
        <4>2. g[i] = Step(f, i)
          BY <2>1, <3>2, <4>1
        <4>3. i # 0 => g[i - 1] = f[i - 1]
          BY <4>1
        <4>4. QED
          BY <4>2, <4>3
      <3>3. QED
        BY <3>1, <3>2
    <2>3. g = [i \in 0..n + 1 |-> Step(g, i)]
      <3> HIDE DEF Step
      <3>1. DOMAIN g = 0..n + 1 /\ g = [i \in DOMAIN g |-> g[i]]
        OBVIOUS
      <3> HIDE DEF g
      <3>2. QED
        BY <2>2, <3>1
    <2>4. QED
      BY <2>3
  <1>3. \A n \in 0..Len(s) : Exists(n)
    <2> HIDE DEF Exists
    <2>1. SUFFICES ASSUME Bad # {} PROVE FALSE
      OBVIOUS
    <2>2. PICK n \in Bad : \A k \in Bad : n <= k
      <3>1. Bad \subseteq Nat
        BY <1>0
      <3> HIDE DEF Bad
      <3>2. QED
        BY <2>1, <3>1, LeastOf
    <2>3. n # 0 /\ n \in Nat
      BY <1>0, <1>1, <2>2
    <2>4. n - 1 \in 0..Len(s) /\ n - 1 \notin Bad /\ n - 1 \in Nat /\ (n - 1) + 1 = n
      BY <1>0, <2>2, <2>3
    <2>5. Exists(n)
      BY <1>2, <2>4
    <2>6. QED
      BY <2>2, <2>5
  <1>4. Exists(Len(s))
    <2> HIDE DEF Exists
    <2>1. QED
      BY <1>0, <1>3
  <1>5. Kept(s, set) = CHOOSE f : f = [i \in 0..Len(s) |-> Step(f, i)]
    BY DEF Kept
  <1>6. Kept(s, set) = [i \in 0..Len(s) |-> Step(Kept(s, set), i)]
    BY <1>4, <1>5
  <1> DEFINE k == Kept(s, set)
  <1>7. k = [i \in 0..Len(s) |-> Step(k, i)]
    BY <1>6
  <1> HIDE DEF k
  <1>8. /\ DOMAIN k = 0..Len(s) /\ \A i \in 0..Len(s) : k[i] = Step(k, i)
    <2> HIDE DEF Step
    <2>1. QED
      BY <1>7
  <1>9. k[0] = <<>>
    BY <1>0, <1>8
  <1>10. \A i \in 1..Len(s) :
           k[i] = IF s[i] \in set THEN Append(k[i - 1], s[i]) ELSE k[i - 1]
    <2>1. \A i \in 1..Len(s) : i \in 0..Len(s) /\ i # 0
      BY <1>0
    <2>2. QED
      BY <1>8, <2>1
  <1>11. QED
    BY <1>8, <1>9, <1>10 DEF k

\* What is kept is in the order of what was read, and nothing else.
LEMMA KeptHolds ==
    ASSUME NEW s \in Seq(Nat), NEW set, NEW n \in 0..Len(s)
    PROVE  /\ Kept(s, set)[n] \in Seq(Nat)
           /\ ToSet(Kept(s, set)[n]) = {s[m] : m \in 1..n} \cap set
           /\ Len(Kept(s, set)[n]) <= n
           /\ Ascending(s) => Ascending(Kept(s, set)[n])
  <1> DEFINE k == Kept(s, set)
             Good(i) == /\ k[i] \in Seq(Nat)
                        /\ ToSet(k[i]) = {s[m] : m \in 1..i} \cap set
                        /\ Len(k[i]) <= i
                        /\ Ascending(s) => Ascending(k[i])
             Bad == {i \in 0..Len(s) : ~Good(i)}
  <1>0. Len(s) \in Nat /\ DOMAIN s = 1..Len(s) /\ \A i \in 1..Len(s) : s[i] \in Nat
    BY LenProperties, ElementOfSeq
  <1>1. /\ k[0] = <<>>
        /\ \A i \in 1..Len(s) : k[i] = IF s[i] \in set THEN Append(k[i - 1], s[i]) ELSE k[i - 1]
    BY KeptIs
  <1> HIDE DEF k
  <1>2. Good(0)
    <2>1. <<>> \in Seq(Nat) /\ Len(<<>>) = 0 /\ DOMAIN <<>> = {}
      BY EmptySeq
    <2>2. QED
      BY <1>1, <2>1 DEF ToSet, Ascending
  <1>3. ASSUME NEW i \in 1..Len(s), Good(i - 1) PROVE Good(i)
    <2> DEFINE q == k[i - 1]
    <2>1. /\ q \in Seq(Nat) /\ ToSet(q) = {s[m] : m \in 1..(i - 1)} \cap set /\ Len(q) <= i - 1
          /\ Ascending(s) => Ascending(q)
      BY <1>3
    <2>2. k[i] = IF s[i] \in set THEN Append(q, s[i]) ELSE q
      BY <1>1
    <2> HIDE DEF q
    <2>3. 1..i = 1..(i - 1) \cup {i}
      BY <1>0
    <2>4. {s[m] : m \in 1..i} = {s[m] : m \in 1..(i - 1)} \cup {s[i]}
      BY <2>3
    <2>5. CASE s[i] \notin set
      BY <1>0, <2>1, <2>2, <2>4, <2>5, LenProperties
    <2>6. CASE s[i] \in set
      <3>1. k[i] = Append(q, s[i]) /\ s[i] \in Nat
        BY <1>0, <2>2, <2>6
      <3>2. /\ k[i] \in Seq(Nat) /\ Len(k[i]) = Len(q) + 1 /\ Len(q) \in Nat
            /\ DOMAIN q = 1..Len(q) /\ DOMAIN k[i] = 1..Len(q) + 1
            /\ \A j \in 1..Len(q) : k[i][j] = q[j]
            /\ k[i][Len(q) + 1] = s[i]
        BY <2>1, <3>1, AppendProperties, LenProperties
      <3>3. ToSet(k[i]) = ToSet(q) \cup {s[i]}
        BY <2>1, <3>1, AppendedSet
      <3>4. ASSUME Ascending(s) PROVE Ascending(k[i])
        <4>1. \A j \in 1..Len(q) : q[j] < s[i]
          <5>1. SUFFICES ASSUME NEW j \in 1..Len(q) PROVE q[j] < s[i]
            OBVIOUS
          <5>2. q[j] \in ToSet(q)
            BY <3>2 DEF ToSet
          <5>3. PICK m \in 1..(i - 1) : q[j] = s[m]
            BY <2>1, <5>2
          <5>4. m \in DOMAIN s /\ i \in DOMAIN s /\ m < i
            BY <1>0, <5>3
          <5>5. QED
            BY <3>4, <5>3, <5>4 DEF Ascending
        <4>2. Ascending(q)
          BY <2>1, <3>4
        <4>3. \A j, m \in 1..Len(q) : j < m => q[j] < q[m]
          BY <3>2, <4>2 DEF Ascending
        <4>4. ASSUME NEW j \in 1..Len(q) + 1, NEW m \in 1..Len(q) + 1, j < m
              PROVE  k[i][j] < k[i][m]
          <5>0. Len(q) \in Nat
            BY <3>2
          <5>1. j \in 1..Len(q) /\ (m \in 1..Len(q) \/ m = Len(q) + 1)
            BY <4>4, <5>0
          <5>2. k[i][j] = q[j]
            BY <3>2, <5>1
          <5>3. CASE m \in 1..Len(q)
            BY <3>2, <4>3, <4>4, <5>1, <5>2, <5>3
          <5>4. CASE m = Len(q) + 1
            BY <3>2, <4>1, <5>1, <5>2, <5>4
          <5>5. QED
            BY <5>1, <5>3, <5>4
        <4>5. QED
          BY <3>2, <4>4 DEF Ascending
      <3>5. ToSet(k[i]) = {s[m] : m \in 1..i} \cap set
        BY <2>1, <2>4, <2>6, <3>3
      <3>6. Len(k[i]) <= i
        BY <1>0, <2>1, <3>2
      <3>7. QED
        BY <3>2, <3>4, <3>5, <3>6
    <2>7. QED
      BY <2>5, <2>6
  <1>4. Bad = {}
    <2> HIDE DEF Good
    <2>1. SUFFICES ASSUME Bad # {} PROVE FALSE
      OBVIOUS
    <2>2. PICK i \in Bad : \A j \in Bad : i <= j
      <3>1. Bad \subseteq Nat
        BY <1>0
      <3> HIDE DEF Bad
      <3>2. QED
        BY <2>1, <3>1, LeastOf
    <2>3. i # 0 /\ i \in Nat
      BY <1>0, <1>2, <2>2
    <2>4. i - 1 \in 0..Len(s) /\ i - 1 \notin Bad /\ i \in 1..Len(s)
      BY <1>0, <2>2, <2>3
    <2>5. QED
      BY <1>3, <2>2, <2>4
  <1>5. Good(n)
    <2> HIDE DEF Good
    <2>1. QED
      BY <1>4
  <1>6. QED
    BY <1>5 DEF k

---------------------------------------------------------------------------
(* The ring *)

\* The ring has the latest records, one after the other.
Held == IF emitting THEN seq - 1 ELSE seq

RingHolds ==
    /\ LogTypeOK
    /\ emitting => seq > 0
    /\ newest = Held /\ count <= newest
    /\ count < Capacity => start = 0 /\ count = newest
    /\ oldest = IF count = 0 THEN 0 ELSE newest - count + 1
    /\ \A i \in 0..count - 1 : buf[Slot(start + i)] = newest - count + 1 + i

\* An empty ring.
LEMMA RingHoldsInit == LogInit => RingHolds
  <1> SUFFICES ASSUME LogInit PROVE RingHolds
    OBVIOUS
  <1>1. MaxSeq \in Nat /\ Capacity \in Nat \ {0} /\ 0 \in Seqs
    BY RingAssumption DEF Seqs
  <1>2. LogTypeOK
    <2>1. start = 0 /\ 0 \in 0..Capacity - 1 /\ 0 \in 0..Capacity
      BY <1>1 DEF LogInit
    <2>2. QED
      BY <1>1, <2>1 DEF LogInit, LogTypeOK
  <1>3. seq = 0 /\ emitting = FALSE /\ start = 0 /\ count = 0 /\ oldest = 0 /\ newest = 0
    BY DEF LogInit
  <1>4. 0..count - 1 = {}
    BY <1>3
  <1>5. QED
    BY <1>1, <1>2, <1>3, <1>4 DEF RingHolds, Held

\* A record that is numbered is not in the ring yet.
LEMMA NumberHolds == ASSUME RingHolds, Number PROVE RingHolds'
  BY RingAssumption DEF RingHolds, LogTypeOK, Number, Held, Seqs, ringVars

\* A record that is stored is the newest, and the oldest goes when the ring is full.
LEMMA StoreHolds == ASSUME RingHolds, Store PROVE RingHolds'
  <1>1. /\ seq \in Nat /\ seq <= MaxSeq /\ MaxSeq \in Nat /\ Capacity \in Nat \ {0}
        /\ emitting /\ seq' = seq /\ emitting' = FALSE /\ newest = seq - 1 /\ newest' = seq
        /\ start \in 0..Capacity - 1 /\ count \in 0..Capacity
        /\ buf \in [0..Capacity - 1 -> Seqs]
    BY RingAssumption DEF RingHolds, LogTypeOK, Store, Held, Seqs
  <1>2. CASE count < Capacity
    <2>1. start = 0 /\ count = newest /\ start' = start /\ count' = count + 1
      BY <1>2 DEF RingHolds, Store
    <2>2. buf' = [buf EXCEPT ![count] = seq]
      <3>1. Slot(start + count) = count
        BY <1>1, <1>2, <2>1, PlacesInRing
      <3>2. QED
        BY <1>2, <3>1 DEF Store
    <2>3. \A i \in 0..count - 1 : buf[i] = i + 1
      <3>1. SUFFICES ASSUME NEW i \in 0..count - 1 PROVE buf[i] = i + 1
        OBVIOUS
      <3>2. Slot(start + i) = i
        BY <1>1, <1>2, <2>1, PlacesInRing
      <3>3. QED
        BY <1>1, <2>1, <3>2 DEF RingHolds
    <2>4. \A i \in 0..count : buf'[i] = i + 1
      BY <1>1, <1>2, <2>1, <2>2, <2>3
    <2>5. \A i \in 0..count' - 1 : buf'[Slot(start' + i)] = newest' - count' + 1 + i
      <3>1. SUFFICES ASSUME NEW i \in 0..count
                     PROVE  buf'[Slot(start' + i)] = newest' - count' + 1 + i
        <4>1. count' - 1 = count
          BY <1>1, <2>1
        <4>2. QED
          BY <4>1
      <3>2. Slot(start' + i) = i
        BY <1>1, <1>2, <2>1, PlacesInRing
      <3>3. QED
        BY <1>1, <2>1, <2>4, <3>2
    <2>6. oldest' = 1
      BY <1>1, <1>2, <2>1, <2>4 DEF Store
    <2>7. LogTypeOK'
      <3>1. 1 \in Seqs /\ seq \in Seqs /\ count + 1 \in 0..Capacity
        <4>1. 1 <= seq
          BY <1>1 DEF RingHolds
        <4>2. QED
          BY <1>1, <1>2, <4>1 DEF Seqs
      <3>2. buf' \in [0..Capacity - 1 -> Seqs]
        BY <1>1, <2>2, <3>1
      <3>3. QED
        BY <1>1, <2>1, <2>6, <3>1, <3>2 DEF LogTypeOK
    <2>8. QED
      BY <1>1, <1>2, <2>1, <2>5, <2>6, <2>7 DEF RingHolds, Held
  <1>3. CASE count = Capacity
    <2>1. count' = count /\ start' = Slot(start + 1) /\ buf' = [buf EXCEPT ![start] = seq]
      BY <1>1, <1>3 DEF Store
    <2>2. start' = IF start + 1 < Capacity THEN start + 1 ELSE 0
      <3>1. start + 1 \in Nat /\ start + 1 < 2 * Capacity
        BY <1>1
      <3>2. Slot(start + 1) = IF start + 1 < Capacity THEN start + 1 ELSE start + 1 - Capacity
        BY <1>1, <3>1, PlacesInRing
      <3>3. QED
        BY <1>1, <2>1, <3>2
    <2>3. \A i \in 0..count - 1 : buf'[Slot(start' + i)] = newest' - count' + 1 + i
      <3>1. SUFFICES ASSUME NEW i \in 0..count - 1
                     PROVE  buf'[Slot(start' + i)] = newest' - count' + 1 + i
        OBVIOUS
      <3> DEFINE at0 == Slot(start + (i + 1))
      <3>2. Slot(start' + i) = IF start' + i < Capacity THEN start' + i ELSE start' + i - Capacity
        <4>1. start' + i \in Nat /\ start' + i < 2 * Capacity
          BY <1>1, <1>3, <2>2
        <4>2. QED
          BY <1>1, <1>3, <2>2, <4>1, PlacesInRing
      <3>3. CASE i = Capacity - 1
        <4>1. Slot(start' + i) = start
          BY <1>1, <2>2, <3>2, <3>3
        <4>2. buf'[start] = seq
          BY <1>1, <2>1
        <4>3. QED
          BY <1>1, <1>3, <2>1, <3>3, <4>1, <4>2
      <3>4. CASE i < Capacity - 1
        <4>1. Slot(start + (i + 1)) = IF start + (i + 1) < Capacity THEN start + (i + 1) ELSE start + (i + 1) - Capacity
          <5>1. start + (i + 1) \in Nat /\ start + (i + 1) < 2 * Capacity
            BY <1>1, <1>3, <3>4
          <5>2. QED
            BY <1>1, <1>3, <5>1, PlacesInRing
        <4>2. Slot(start' + i) = at0 /\ at0 # start /\ at0 \in 0..Capacity - 1
          BY <1>1, <2>2, <3>2, <3>4, <4>1
        <4>3. buf[at0] = newest - count + 1 + (i + 1)
          <5>1. i + 1 \in 0..count - 1
            BY <1>1, <1>3, <3>4
          <5>2. QED
            BY <5>1 DEF RingHolds
        <4>4. buf'[at0] = buf[at0]
          BY <1>1, <2>1, <4>2
        <4>5. QED
          BY <1>1, <2>1, <4>2, <4>3, <4>4
      <3>5. QED
        BY <1>1, <1>3, <3>3, <3>4
    <2>4. oldest' = newest' - count' + 1
      <3>1. Slot(start' + 0) = start'
        BY <1>1, <2>2, PlacesInRing
      <3>2. buf'[start'] = newest' - count' + 1 + 0
        BY <1>1, <1>3, <2>3, <3>1
      <3>3. QED
        BY <1>1, <1>3, <2>1, <3>2 DEF Store
    <2>5. LogTypeOK'
      <3>1. buf' \in [0..Capacity - 1 -> Seqs] /\ seq \in Seqs /\ start' \in 0..Capacity - 1
        BY <1>1, <2>1, <2>2 DEF Seqs
      <3>2. count <= seq - 1
        BY <1>1 DEF RingHolds
      <3>3. oldest' \in Seqs
        BY <1>1, <1>3, <2>1, <2>4, <3>2 DEF Seqs
      <3>4. QED
        BY <1>1, <2>1, <3>1, <3>3 DEF LogTypeOK
    <2>6. count' <= newest' /\ ~(count' < Capacity) /\ count' # 0
      BY <1>1, <1>3, <2>1 DEF RingHolds
    <2>7. QED
      <3>1. newest' = Held' /\ count' <= newest' /\ (emitting' => seq' > 0)
        BY <1>1, <2>6 DEF Held
      <3>2. oldest' = IF count' = 0 THEN 0 ELSE newest' - count' + 1
        BY <2>4, <2>6
      <3>3. QED
        BY <1>1, <1>3, <2>1, <2>3, <2>5, <2>6, <3>1, <3>2 DEF RingHolds
  <1>4. QED
    BY <1>1, <1>2, <1>3

\* Every other step leaves the ring alone.
LEMMA RingStays == ASSUME RingHolds, UNCHANGED logVars PROVE RingHolds'
  <1>1. UNCHANGED <<seq, emitting, buf, start, count, oldest, newest>>
    BY DEF logVars, ringVars
  <1>2. QED
    BY <1>1 DEF RingHolds, LogTypeOK, Held

\* What the ring retains.
Retained ==
    /\ RingRecords \in Seq(Nat) /\ Len(RingRecords) = count /\ count \in Nat
    /\ newest \in Nat /\ newest <= MaxSeq /\ MaxSeq \in Nat /\ count <= newest
    /\ \A i \in 1..count : RingRecords[i] = newest - count + i
    /\ Ascending(RingRecords)
    /\ ToSet(RingRecords) = (newest - count + 1)..newest

\* The records follow from the positions.
LEMMA RingRecordsAre == RingHolds => Retained
  <1> SUFFICES ASSUME RingHolds PROVE Retained
    OBVIOUS
  <1>1. /\ count \in Nat /\ newest \in Nat /\ count <= newest /\ newest <= MaxSeq
        /\ MaxSeq \in Nat
    BY RingAssumption DEF RingHolds, LogTypeOK, Seqs
  <1>2. \A i \in 1..count : RingRecords[i] = newest - count + i
    <2>1. SUFFICES ASSUME NEW i \in 1..count PROVE RingRecords[i] = newest - count + i
      OBVIOUS
    <2>2. RingRecords[i] = buf[Slot(start + i - 1)]
      BY DEF RingRecords
    <2>3. start + i - 1 = start + (i - 1)
      BY <1>1 DEF RingHolds, LogTypeOK
    <2>4. buf[Slot(start + (i - 1))] = newest - count + 1 + (i - 1)
      BY <1>1 DEF RingHolds
    <2>5. QED
      BY <1>1, <2>2, <2>3, <2>4
  <1>3. DOMAIN RingRecords = 1..count
    BY DEF RingRecords
  <1>4. \A i \in 1..count : RingRecords[i] \in Nat
    BY <1>1, <1>2
  <1>5. RingRecords \in Seq(Nat)
    <2>1. RingRecords = [i \in 1..count |-> RingRecords[i]]
      BY <1>3 DEF RingRecords
    <2>2. QED
      BY <1>1, <1>4, <2>1, IsASeq
  <1>6. Len(RingRecords) = count
    BY <1>1, <1>3, <1>5, LenProperties
  <1>7. Ascending(RingRecords)
    BY <1>1, <1>2, <1>3 DEF Ascending
  <1>8. ToSet(RingRecords) = (newest - count + 1)..newest
    <2>1. \A n \in (newest - count + 1)..newest :
            n - (newest - count) \in 1..count /\ RingRecords[n - (newest - count)] = n
      BY <1>1, <1>2
    <2>2. QED
      BY <1>1, <1>2, <1>3, <2>1 DEF ToSet
  <1>9. QED
    BY <1>1, <1>2, <1>5, <1>6, <1>7, <1>8 DEF Retained

\* The same after a step.
LEMMA RetainedNext == RingHolds' => Retained'
  BY RingRecordsAre, PTL
\* The steps of the stream that touch the ring.
LEMMA StreamSteps ==
    [StreamNext]_streamVars => Number \/ Store \/ UNCHANGED logVars
  BY DEF StreamNext, Install, Emit, EmitNumber, EmitStore, Collect, Offer, Attach, Stream,
         ReadRing, Replay, EndReplay, Skip, Follow, Report, LateAttach, Leave, streamVars,
         emitVars

\* The ring holds the latest records, one after the other, through every emission (ring.go:69-91).
THEOREM RingInvariant == StreamSpec => []RingHolds
  <1>1. StreamInit => RingHolds
    BY RingHoldsInit DEF StreamInit
  <1>2. RingHolds /\ [StreamNext]_streamVars => RingHolds'
    BY StreamSteps, NumberHolds, StoreHolds, RingStays
  <1>3. QED
    BY <1>1, <1>2, PTL DEF StreamSpec

---------------------------------------------------------------------------
(* The ring is the bounded log *)

\* The number that is stored follows the newest one.
LEMMA StoreAppends == ASSUME RingHolds, Store PROVE Log!Next
  <1>1. RingHolds' /\ Retained /\ Retained'
    BY StoreHolds, RingRecordsAre, RetainedNext
  <1>2. /\ seq \in 1..MaxSeq /\ newest = seq - 1 /\ newest' = seq /\ Capacity \in Nat \ {0}
        /\ count \in 0..Capacity /\ (count < Capacity => count = newest)
        /\ count' = IF count < Capacity THEN count + 1 ELSE count
    BY RingAssumption DEF RingHolds, LogTypeOK, Store, Held, Seqs
  <1> DEFINE more == Append(RingRecords, seq)
  <1>3. /\ RingRecords \in Seq(Nat) /\ seq \in Nat /\ Len(RingRecords) = count
        /\ \A i \in 1..count : RingRecords[i] = newest - count + i
    BY <1>1, <1>2 DEF Retained
  <1>4. /\ more \in Seq(Nat) /\ Len(more) = count + 1
        /\ \A i \in 1..count : more[i] = RingRecords[i]
        /\ more[count + 1] = seq
    BY <1>3, AppendProperties
  <1> HIDE DEF more
  <1>5. ASSUME NEW i \in 1..(count + 1) PROVE more[i] = newest - count + i
    <2>1. CASE i = count + 1
      BY <1>2, <1>4, <2>1
    <2>2. CASE i # count + 1
      <3>1. i \in 1..count
        BY <1>2, <2>2
      <3>2. QED
        BY <1>3, <1>4, <3>1
    <2>3. QED
      BY <2>1, <2>2
  <1>6. /\ RingRecords' \in Seq(Nat) /\ Len(RingRecords') = count'
        /\ \A i \in 1..count' : RingRecords'[i] = newest' - count' + i
    BY <1>1 DEF Retained
  <1>7. RingRecords' = Log!Latest(more, Capacity)
    <2>1. CASE count < Capacity
      <3>1. Log!Latest(more, Capacity) = more
        BY <1>2, <1>4, <2>1 DEF Log!Latest
      <3>2. Len(RingRecords') = Len(more) /\ \A i \in 1..Len(more) : RingRecords'[i] = more[i]
        BY <1>2, <1>4, <1>5, <1>6, <2>1
      <3>3. QED
        BY <1>4, <1>6, <3>1, <3>2, SeqEqual
    <2>2. CASE count = Capacity
      <3>1. Log!Latest(more, Capacity) = SubSeq(more, 2, count + 1)
        BY <1>2, <1>4, <2>2 DEF Log!Latest
      <3>2. /\ SubSeq(more, 2, count + 1) \in Seq(Nat)
            /\ Len(SubSeq(more, 2, count + 1)) = count
            /\ \A i \in 1..count : SubSeq(more, 2, count + 1)[i] = more[i + 1]
        BY <1>2, <1>4, <2>2, SubSeqProperties
      <3>3. \A i \in 1..count : RingRecords'[i] = SubSeq(more, 2, count + 1)[i]
        BY <1>2, <1>5, <1>6, <2>2, <3>2
      <3>4. QED
        BY <1>2, <1>6, <2>2, <3>1, <3>2, <3>3, SeqEqual
    <2>3. QED
      BY <1>2, <2>1, <2>2
  <1>8. RingRecords = <<>> => seq = 1
    BY <1>2, <1>3, EmptySeq
  <1>9. RingRecords # <<>> => seq = Last(RingRecords) + 1
    <2>1. SUFFICES ASSUME RingRecords # <<>> PROVE seq = Last(RingRecords) + 1
      OBVIOUS
    <2>2. count # 0
      BY <1>3, <2>1, EmptySeq
    <2>3. Last(RingRecords) = RingRecords[count] /\ count \in 1..count
      BY <1>2, <1>3, <2>2 DEF Last
    <2>4. QED
      BY <1>2, <1>3, <2>3
  <1>10. RingRecords' = Log!Latest(Append(RingRecords, seq), Capacity)
    BY <1>7 DEF more
  <1>11. QED
    BY <1>2, <1>8, <1>9, <1>10 DEF Log!Next, Log!Last, Last

\* What the circular buffer holds is, in every behaviour of the emission, the log of the
\* most recent records: numbered without a gap, the oldest dropped first (ring.go:69-91).
THEOREM RingImplementsLog == StreamSpec => ImplementsLog
  <1>1. StreamInit => Log!Init
    BY DEF StreamInit, LogInit, Log!Init, RingRecords
  <1>2. RingHolds /\ [StreamNext]_streamVars => [Log!Next]_RingRecords
    <2>1. SUFFICES ASSUME RingHolds, [StreamNext]_streamVars PROVE [Log!Next]_RingRecords
      OBVIOUS
    <2>2. Number \/ UNCHANGED logVars => UNCHANGED RingRecords
      BY DEF Number, logVars, ringVars, RingRecords
    <2>3. QED
      BY <2>1, <2>2, StreamSteps, StoreAppends
  <1>3. QED
    BY <1>1, <1>2, RingInvariant, PTL DEF StreamSpec, ImplementsLog, Log!Spec
---------------------------------------------------------------------------
(* Pages *)

\* The records after a cursor.
LEMMA RecordsAre ==
    ASSUME RingHolds, NEW c \in Seqs
    PROVE  /\ Records(c) \in Seq(Nat) /\ Ascending(Records(c))
           /\ ToSet(Records(c)) = Log!After(c)
           /\ ToSet(Records(c)) \subseteq 1..newest
           /\ \A s \in ToSet(Records(c)) : s > c
           /\ Len(Records(c)) <= count
  <1>1. Retained /\ c \in Nat
    BY RingRecordsAre, RingAssumption DEF Seqs
  <1>2. /\ RingRecords \in Seq(Nat) /\ Len(RingRecords) = count /\ count \in Nat
        /\ newest \in Nat /\ newest <= MaxSeq /\ MaxSeq \in Nat /\ count <= newest
        /\ Ascending(RingRecords)
        /\ ToSet(RingRecords) = (newest - count + 1)..newest
    BY <1>1 DEF Retained
  <1>3. Log!After(c) = {s \in ToSet(RingRecords) : s > c}
    BY DEF Log!After, Log!ToSet, ToSet
  <1>4. CASE c > newest \/ count = 0 \/ c = newest
    <2>1. Records(c) = <<>>
      BY <1>4 DEF Records
    <2>2. Log!After(c) = {}
      BY <1>1, <1>2, <1>3, <1>4
    <2>3. <<>> \in Seq(Nat) /\ Ascending(<<>>) /\ ToSet(<<>>) = {} /\ Len(<<>>) = 0
      BY EmptySeq DEF Ascending, ToSet
    <2>4. QED
      BY <1>2, <2>1, <2>2, <2>3
  <1>5. CASE ~(c > newest \/ count = 0 \/ c = newest)
    <2> DEFINE set == {s \in Seqs : s > c}
               kept == Kept(RingRecords, set)[count]
    <2>1. Records(c) = kept
      BY <1>5 DEF Records
    <2>2. count \in 0..Len(RingRecords)
      BY <1>2
    <2> HIDE DEF set
    <2>3. /\ kept \in Seq(Nat) /\ Len(kept) <= count /\ Ascending(kept)
          /\ ToSet(kept) = {RingRecords[m] : m \in 1..count} \cap set
      BY <1>2, <2>2, KeptHolds
    <2>4. {RingRecords[m] : m \in 1..count} = ToSet(RingRecords)
      BY <1>2, LenProperties DEF ToSet
    <2>5. ToSet(RingRecords) \subseteq Seqs
      BY <1>2 DEF Seqs
    <2>6. ToSet(kept) = {s \in ToSet(RingRecords) : s > c}
      BY <2>3, <2>4, <2>5 DEF set
    <2> HIDE DEF kept
    <2>7. QED
      BY <1>2, <1>3, <2>1, <2>3, <2>6
  <1>6. QED
    BY <1>4, <1>5

\* A page ends where it is full or where the records end.
LEMMA PageEndIs ==
    ASSUME NEW s \in Seq(Nat), NEW level
    PROVE  LET kept == Kept(s, level)
               end == PageEnd(kept, Len(s))
           IN  end \in 0..Len(s) /\ Len(kept[end]) <= PageLimit /\ (Len(s) > 0 => end > 0)
  <1> DEFINE kept == Kept(s, level)
             full == {i \in 1..Len(s) : Len(kept[i]) = PageLimit}
             over == {i \in 0..Len(s) : Len(kept[i]) >= PageLimit}
             end == PageEnd(kept, Len(s))
  <1>1. PageLimit \in Nat \ {0} /\ Len(s) \in Nat
    BY RingAssumption, LenProperties
  <1>2. \A i \in 0..Len(s) : kept[i] \in Seq(Nat) /\ Len(kept[i]) \in Nat
    BY KeptHolds, LenProperties
  <1>3. Len(kept[0]) = 0
    BY KeptIs, EmptySeq
  <1>4. ASSUME NEW i \in 1..Len(s) PROVE Len(kept[i]) <= Len(kept[i - 1]) + 1
    <2>1. kept[i] = IF s[i] \in level THEN Append(kept[i - 1], s[i]) ELSE kept[i - 1]
      BY KeptIs
    <2>2. kept[i - 1] \in Seq(Nat) /\ Len(kept[i - 1]) \in Nat /\ s[i] \in Nat
      BY <1>1, <1>2, ElementOfSeq
    <2> HIDE DEF kept
    <2>3. Len(Append(kept[i - 1], s[i])) = Len(kept[i - 1]) + 1
      BY <2>2, AppendProperties
    <2>4. QED
      BY <2>1, <2>2, <2>3
  <1>5. end = IF full = {} THEN Len(s) ELSE CHOOSE i \in full : \A j \in full : i <= j
    BY DEF PageEnd
  <1> HIDE DEF kept, end
  <1>6. CASE full # {}
    <2>1. full \subseteq Nat
      BY <1>1
    <2>2. \E i \in full : \A j \in full : i <= j
      <3> HIDE DEF full
      <3>1. QED
        BY <1>6, <2>1, LeastOf
    <2>3. end \in full
      <3> HIDE DEF full
      <3>1. QED
        BY <1>5, <1>6, <2>2
    <2>4. QED
      BY <1>1, <2>3 DEF kept, end
  <1>7. CASE full = {}
    <2>1. over = {}
      <3>1. SUFFICES ASSUME over # {} PROVE FALSE
        OBVIOUS
      <3>2. PICK i \in over : \A j \in over : i <= j
        <4>1. over \subseteq Nat
          BY <1>1
        <4> HIDE DEF over
        <4>2. QED
          BY <3>1, <4>1, LeastOf
      <3>3. i \in 1..Len(s) /\ i - 1 \in 0..Len(s)
        BY <1>1, <1>3, <3>2
      <3>4. i - 1 \notin over
        BY <1>1, <3>2, <3>3
      <3>5. Len(kept[i]) = PageLimit
        BY <1>1, <1>2, <1>4, <3>2, <3>3, <3>4
      <3>6. QED
        BY <1>7, <3>3, <3>5
    <2>2. end = Len(s) /\ end \in 0..Len(s)
      BY <1>1, <1>5, <1>7
    <2>3. Len(kept[end]) < PageLimit
      BY <1>1, <1>2, <2>1, <2>2
    <2>4. QED
      BY <1>1, <1>2, <2>2, <2>3 DEF kept, end
  <1>8. QED
    BY <1>6, <1>7

\* The flag of a page.
LEMMA TruncatedIs ==
    ASSUME RingHolds, NEW c \in Seqs
    PROVE  RecordsTruncated(c) = Log!Truncated(c)
  <1>1. Retained /\ c \in Nat
    BY RingRecordsAre, RingAssumption DEF Seqs
  <1>2. /\ RingRecords \in Seq(Nat) /\ Len(RingRecords) = count /\ count \in Nat
        /\ newest \in Nat /\ count <= newest
        /\ \A i \in 1..count : RingRecords[i] = newest - count + i
        /\ ToSet(RingRecords) = (newest - count + 1)..newest
    BY <1>1 DEF Retained
  <1>3. /\ count = 0 => newest = 0
        /\ oldest = IF count = 0 THEN 0 ELSE newest - count + 1
    BY RingAssumption DEF RingHolds
  <1>4. Log!Newest = newest
    <2>1. RingRecords = <<>> <=> count = 0
      BY <1>2, EmptySeq
    <2>2. count # 0 => Last(RingRecords) = newest
      BY <1>2 DEF Last
    <2>3. QED
      BY <1>3, <2>1, <2>2 DEF Log!Newest, Log!Last, Last
  <1>5. Log!Truncated(c) <=> c > newest \/ (c + 1)..newest \ ToSet(RingRecords) # {}
    BY <1>4 DEF Log!Truncated, Log!ToSet, ToSet
  <1>6. ((c + 1)..newest \ ToSet(RingRecords) # {}) <=> c + 1 <= newest - count /\ c + 1 <= newest
    <2>1. ASSUME c + 1 <= newest - count, c + 1 <= newest
          PROVE  c + 1 \in (c + 1)..newest \ ToSet(RingRecords)
      BY <1>1, <1>2, <2>1
    <2>2. ASSUME NEW s \in (c + 1)..newest \ ToSet(RingRecords)
          PROVE  c + 1 <= newest - count /\ c + 1 <= newest
      BY <1>1, <1>2
    <2>3. QED
      BY <2>1, <2>2
  <1>7. RecordsTruncated(c) <=> c > newest \/ (c + 1 <= newest - count /\ c + 1 <= newest)
    BY <1>1, <1>2, <1>3 DEF RecordsTruncated
  <1>8. RecordsTruncated(c) \in BOOLEAN /\ Log!Truncated(c) \in BOOLEAN
    BY DEF RecordsTruncated, Log!Truncated
  <1>9. QED
    BY <1>5, <1>6, <1>7, <1>8

\* A page is what the retained log answers.
LEMMA PagesAnswer == ASSUME RingHolds, NEW level PROVE PageAnswersLog(level)
  <1> SUFFICES ASSUME NEW c \in Seqs
               PROVE  LET page == Page(c, level) IN
                      /\ Ascending(page.records)
                      /\ ToSet(page.records) = {s \in Log!After(c) \cap level : s <= page.cursor}
                      /\ Len(page.records) <= PageLimit
                      /\ Log!After(c) # {} => page.cursor > c
                      /\ page.truncated = Log!Truncated(c)
    BY DEF PageAnswersLog
  <1> DEFINE read == Records(c)
             kept == Kept(read, level)
             end == PageEnd(kept, Len(read))
             page == Page(c, level)
  <1>1. /\ page.records = kept[end]
        /\ page.cursor = IF end = 0 THEN c ELSE read[end]
        /\ page.truncated = RecordsTruncated(c)
    BY DEF Page
  <1>2. /\ read \in Seq(Nat) /\ Ascending(read) /\ ToSet(read) = Log!After(c)
        /\ \A s \in ToSet(read) : s > c
    BY RecordsAre
  <1>3. end \in 0..Len(read) /\ Len(kept[end]) <= PageLimit /\ (Len(read) > 0 => end > 0)
    BY <1>2, PageEndIs
  <1>4. /\ ToSet(kept[end]) = {read[m] : m \in 1..end} \cap level
        /\ Ascending(kept[end])
    BY <1>2, <1>3, KeptHolds
  <1>5. Len(read) \in Nat /\ DOMAIN read = 1..Len(read) /\ c \in Nat /\ \A i \in 1..Len(read) : read[i] \in Nat
    BY <1>2, RingAssumption, LenProperties, ElementOfSeq DEF Seqs
  <1>6. RecordsTruncated(c) = Log!Truncated(c)
    BY TruncatedIs
  <1> HIDE DEF read, kept, end, page
  <1>7. ToSet(kept[end]) = {s \in Log!After(c) \cap level : s <= page.cursor}
    <2>1. ToSet(read) = {read[m] : m \in 1..Len(read)}
      BY <1>5 DEF ToSet
    <2>2. {read[m] : m \in 1..end} = {s \in ToSet(read) : s <= page.cursor}
      <3>1. CASE end = 0
        BY <1>1, <1>2, <1>3, <1>5, <2>1, <3>1
      <3>2. CASE end # 0
        <4>1. end \in 1..Len(read) /\ page.cursor = read[end]
          BY <1>1, <1>3, <1>5, <3>2
        <4>2. ASSUME NEW m \in 1..Len(read) PROVE m <= end <=> read[m] <= read[end]
          <5>1. /\ m \in DOMAIN read /\ end \in DOMAIN read /\ m \in Nat /\ end \in Nat
                /\ read[m] \in Nat /\ read[end] \in Nat
            BY <1>5, <4>1
          <5>2. (m < end => read[m] < read[end]) /\ (end < m => read[end] < read[m])
            BY <1>2, <5>1 DEF Ascending
          <5>3. QED
            BY <5>1, <5>2
        <4>3. QED
          BY <1>5, <2>1, <4>1, <4>2
      <3>3. QED
        BY <3>1, <3>2
    <2>3. QED
      BY <1>2, <1>4, <2>2
  <1>8. Log!After(c) # {} => page.cursor > c
    <2>1. SUFFICES ASSUME Log!After(c) # {} PROVE page.cursor > c
      OBVIOUS
    <2>2. Len(read) > 0
      BY <1>2, <1>5, <2>1 DEF ToSet
    <2>3. end \in 1..Len(read) /\ read[end] \in ToSet(read)
      BY <1>3, <1>5, <2>2 DEF ToSet
    <2>4. QED
      BY <1>1, <1>2, <1>5, <2>3
  <1>9. QED
    BY <1>1, <1>3, <1>4, <1>6, <1>7, <1>8 DEF page
---------------------------------------------------------------------------
(* Queues *)

\* The first of a queue, and the rest.
LEMMA TailIs ==
    ASSUME NEW X, X \subseteq Nat, NEW s \in Seq(X), s # <<>>
    PROVE  /\ Tail(s) \in Seq(X) /\ Head(s) \in X /\ Len(Tail(s)) = Len(s) - 1
           /\ ToSet(s) = {Head(s)} \cup ToSet(Tail(s))
           /\ Ascending(s) => Ascending(Tail(s)) /\ \A e \in ToSet(Tail(s)) : Head(s) < e
  <1>1. /\ Len(s) \in Nat /\ Len(s) # 0 /\ DOMAIN s = 1..Len(s)
        /\ \A i \in 1..Len(s) : s[i] \in X
    BY LenProperties, ElementOfSeq, EmptySeq
  <1>2. /\ Head(s) = s[1] /\ Tail(s) \in Seq(X) /\ Len(Tail(s)) = Len(s) - 1
        /\ \A i \in 1..Len(Tail(s)) : Tail(s)[i] = s[i + 1]
    BY HeadTailProperties
  <1>3. DOMAIN Tail(s) = 1..(Len(s) - 1) /\ \A i \in 1..(Len(s) - 1) : Tail(s)[i] = s[i + 1]
    BY <1>2, LenProperties
  <1>4. ToSet(s) = {Head(s)} \cup ToSet(Tail(s))
    <2>1. \A i \in 1..Len(s) : i = 1 \/ (i - 1 \in 1..(Len(s) - 1) /\ s[i] = Tail(s)[i - 1])
      BY <1>1, <1>3
    <2>2. \A i \in 1..(Len(s) - 1) : i + 1 \in 1..Len(s)
      BY <1>1
    <2>3. 1 \in 1..Len(s)
      BY <1>1
    <2>4. ToSet(s) \subseteq {Head(s)} \cup ToSet(Tail(s))
      <3>1. ASSUME NEW i \in 1..Len(s) PROVE s[i] \in {Head(s)} \cup ToSet(Tail(s))
        <4>1. CASE i = 1
          BY <1>2, <4>1
        <4>2. CASE i # 1
          <5>1. i - 1 \in DOMAIN Tail(s) /\ s[i] = Tail(s)[i - 1]
            BY <1>1, <1>3, <2>1, <4>2
          <5>2. QED
            BY <5>1 DEF ToSet
        <4>3. QED
          BY <4>1, <4>2
      <3>2. QED
        BY <1>1, <3>1 DEF ToSet
    <2>5. ToSet(Tail(s)) \subseteq ToSet(s) /\ Head(s) \in ToSet(s)
      BY <1>1, <1>2, <1>3, <2>2, <2>3 DEF ToSet
    <2>6. QED
      BY <2>4, <2>5
  <1>5. ASSUME Ascending(s) PROVE Ascending(Tail(s)) /\ \A e \in ToSet(Tail(s)) : Head(s) < e
    <2>1. \A i, j \in 1..Len(s) : i < j => s[i] < s[j]
      BY <1>1, <1>5 DEF Ascending
    <2>2. \A i \in 1..(Len(s) - 1) : i + 1 \in 1..Len(s) /\ 1 < i + 1 /\ 1 \in 1..Len(s)
      BY <1>1
    <2>3. \A e \in ToSet(Tail(s)) : Head(s) < e
      BY <1>2, <1>3, <2>1, <2>2 DEF ToSet
    <2>4. ASSUME NEW i \in 1..(Len(s) - 1), NEW j \in 1..(Len(s) - 1), i < j
          PROVE  Tail(s)[i] < Tail(s)[j]
      <3>1. i + 1 \in 1..Len(s) /\ j + 1 \in 1..Len(s) /\ i + 1 < j + 1
        BY <1>1, <2>4
      <3>2. QED
        BY <1>3, <2>1, <3>1
    <2>5. QED
      BY <1>3, <2>3, <2>4 DEF Ascending
  <1>6. QED
    BY <1>1, <1>2, <1>4, <1>5

\* A greater number at the end keeps the order.
LEMMA AppendAscends ==
    ASSUME NEW X, X \subseteq Nat, NEW s \in Seq(X), NEW e \in X, Ascending(s),
           \A x \in ToSet(s) : x < e
    PROVE  Ascending(Append(s, e))
  <1>1. /\ Len(Append(s, e)) = Len(s) + 1 /\ Len(s) \in Nat
        /\ DOMAIN s = 1..Len(s) /\ DOMAIN Append(s, e) = 1..Len(s) + 1
        /\ \A i \in 1..Len(s) : Append(s, e)[i] = s[i]
        /\ Append(s, e)[Len(s) + 1] = e
    BY AppendProperties, LenProperties
  <1>2. \A i \in 1..Len(s) : s[i] < e
    BY <1>1 DEF ToSet
  <1>3. \A i, j \in 1..Len(s) : i < j => s[i] < s[j]
    BY <1>1 DEF Ascending
  <1>4. ASSUME NEW i \in 1..Len(s) + 1, NEW j \in 1..Len(s) + 1, i < j
        PROVE  Append(s, e)[i] < Append(s, e)[j]
    <2>1. i \in 1..Len(s) /\ (j \in 1..Len(s) \/ j = Len(s) + 1)
      BY <1>1, <1>4
    <2>2. QED
      BY <1>1, <1>2, <1>3, <1>4, <2>1
  <1>5. QED
    BY <1>1, <1>4 DEF Ascending

\* A sequence over what it holds.
LEMMA SeqOver ==
    ASSUME NEW X, NEW Y, NEW s \in Seq(X), ToSet(s) \subseteq Y
    PROVE  s \in Seq(Y)
  <1>1. Len(s) \in Nat /\ s \in [1..Len(s) -> X] /\ DOMAIN s = 1..Len(s)
    BY LenProperties
  <1>2. \A i \in 1..Len(s) : s[i] \in Y
    BY <1>1 DEF ToSet
  <1>3. s \in [1..Len(s) -> Y]
    BY <1>1, <1>2
  <1>4. QED
    BY <1>1, <1>3, SeqDef

\* The empty sequence.
LEMMA EmptyIs ==
    \A X : <<>> \in Seq(X) /\ Len(<<>>) = 0 /\ ToSet(<<>>) = {} /\ Ascending(<<>>)
  BY EmptySeq DEF ToSet, Ascending

---------------------------------------------------------------------------
(* The stream *)

\* The newest record is yet to be offered to the subscription.
Waits == stage = "emitting" \/ (stage = "broadcasting" /\ targets)

\* The stream has yet to read the ring.
Unread == pc \in {"new", "attached"} \/ (pc = "live" /\ ~subscribed)

EmitOrder ==
    /\ emitting => stage = "emitting"
    /\ stage # "idle" => seq > 0
    /\ targets => stage = "broadcasting"

FeedOrder ==
    /\ Ascending(feed)
    /\ \A s \in ToSet(feed) : s <= seq /\ (stage # "idle" => s < seq)

Phases ==
    /\ pc \in {"attached", "replay", "report"} => subscribed
    /\ pc = "new" => ~subscribed
    /\ pc \in {"new", "live"} /\ ~subscribed => feed = <<>>
    /\ Unread => position = after /\ written = <<>> /\ missed = {}
    /\ pc \notin {"replay", "ended"} => backlog = <<>>
    /\ position = after \/ position <= seq

\* The replay goes on from the position, and leaves out what was gone.
ReplayOrder ==
    pc = "replay" =>
      /\ Ascending(backlog)
      /\ \A s \in ToSet(backlog) : position < s /\ s <= seq
      /\ \A s \in ToSet(backlog), n \in Nat :
           position < n /\ n < s => n \in ToSet(backlog) \cup missed
      /\ missed # {} => truncated

\* What is behind the position was written, in order.
WrittenOrder ==
    /\ Ascending(written)
    /\ \A s \in ToSet(written) : s <= position
    /\ \A i \in DOMAIN written : i <= written[i]

\* What is ahead of the position is on its way.
Covered ==
    pc \in {"replay", "live", "report"} /\ subscribed =>
      \A s \in 1..seq : s > position =>
        \/ s \in ToSet(feed) \cup lost \cup ToSet(backlog) \cup missed
        \/ s = seq /\ Waits

StreamInv ==
    /\ RingHolds /\ StreamTypeOK /\ EmitOrder /\ FeedOrder /\ Phases
    /\ ReplayOrder /\ WrittenOrder /\ Covered /\ NoSilentHole

\* Nothing was emitted and nobody listens.
LEMMA StreamInitInv == StreamInit => StreamInv
  <1> SUFFICES ASSUME StreamInit PROVE StreamInv
    OBVIOUS
  <1>1. RingHolds /\ LogTypeOK
    BY RingHoldsInit DEF StreamInit, RingHolds
  <1>2. /\ seq = 0 /\ emitting = FALSE /\ installed = FALSE /\ stage = "idle" /\ wanted = {}
        /\ targets = FALSE /\ subscribed = FALSE /\ feed = <<>> /\ lost = {} /\ pc = "new"
        /\ after = 0 /\ backlog = <<>> /\ position = 0 /\ told = {} /\ missed = {}
        /\ truncated = FALSE /\ gap = FALSE /\ written = <<>>
    BY DEF StreamInit, LogInit
  <1>3. MaxSeq \in Nat /\ Capacity \in Nat /\ Buffer \in Nat /\ 0 \in Seqs
    BY RingAssumption, StreamAssumption DEF Seqs
  <1>4. StreamTypeOK
    <2>1. <<>> \in Seq(1..MaxSeq) /\ Len(<<>>) = 0
      BY EmptyIs
    <2>2. /\ feed \in Seq(1..MaxSeq) /\ Len(feed) <= Buffer
          /\ backlog \in Seq(1..MaxSeq) /\ Len(backlog) <= Capacity
          /\ written \in Seq(1..MaxSeq) /\ Len(written) <= MaxSeq
      BY <1>2, <1>3, <2>1
    <2>3. QED
      BY <1>1, <1>2, <1>3, <2>2 DEF StreamTypeOK
  <1>5. EmitOrder /\ FeedOrder /\ Phases /\ ReplayOrder /\ Covered
    BY <1>2, <1>3, EmptyIs DEF EmitOrder, FeedOrder, Phases, ReplayOrder, Covered, Unread
  <1>6. WrittenOrder
    BY <1>2, EmptyIs, EmptySeq DEF WrittenOrder
  <1>7. NoSilentHole
    BY <1>2, <1>3 DEF NoSilentHole
  <1>8. QED
    BY <1>1, <1>4, <1>5, <1>6, <1>7 DEF StreamInv

\* The types as the steps below need them.
LEMMA Typed ==
    ASSUME StreamInv
    PROVE  /\ seq \in Nat /\ seq <= MaxSeq /\ position \in Nat /\ after \in Nat /\ newest \in Nat
           /\ position <= MaxSeq /\ MaxSeq \in Nat /\ Capacity \in Nat /\ Buffer \in Nat
           /\ 1..MaxSeq \subseteq Nat
           /\ feed \in Seq(1..MaxSeq) /\ backlog \in Seq(1..MaxSeq) /\ written \in Seq(1..MaxSeq)
           /\ Len(feed) \in Nat /\ Len(backlog) \in Nat /\ Len(written) \in Nat
           /\ emitting \in BOOLEAN /\ targets \in BOOLEAN /\ subscribed \in BOOLEAN
           /\ newest = Held
           /\ ToSet(feed) \subseteq 1..MaxSeq /\ ToSet(backlog) \subseteq 1..MaxSeq
           /\ ToSet(written) \subseteq 1..MaxSeq
  <1>1. RingHolds /\ LogTypeOK /\ StreamTypeOK
    BY DEF StreamInv, RingHolds
  <1>2. MaxSeq \in Nat /\ Capacity \in Nat /\ Buffer \in Nat
    BY RingAssumption, StreamAssumption
  <1>3. \A s \in Seq(1..MaxSeq) : ToSet(s) \subseteq 1..MaxSeq
    BY ElementOfSeq, LenProperties DEF ToSet
  <1>4. feed \in Seq(1..MaxSeq) /\ backlog \in Seq(1..MaxSeq) /\ written \in Seq(1..MaxSeq)
    BY <1>1 DEF StreamTypeOK
  <1>5. /\ ToSet(feed) \subseteq 1..MaxSeq /\ ToSet(backlog) \subseteq 1..MaxSeq
        /\ ToSet(written) \subseteq 1..MaxSeq
    BY <1>3, <1>4
  <1>6. QED
    BY <1>1, <1>2, <1>4, <1>5, LenProperties DEF RingHolds, LogTypeOK, StreamTypeOK, Seqs

\* The invariant of the ring goes on through the steps of the stream.
LEMMA RingNext == ASSUME StreamInv, StreamNext PROVE RingHolds' /\ LogTypeOK'
  BY StreamSteps, NumberHolds, StoreHolds, RingStays DEF StreamInv, RingHolds

\* A record is numbered: it is ahead of what was read, unless the cursor is of an earlier run.
LEMMA EmitNumberInv == ASSUME StreamInv, EmitNumber PROVE StreamInv'
  <1>1. RingHolds' /\ LogTypeOK'
    BY RingNext DEF StreamNext, Emit
  <1>2. /\ ~emitting /\ seq < MaxSeq /\ seq' = seq + 1 /\ emitting' = TRUE
        /\ stage = "idle" /\ stage' = "emitting"
        /\ wanted' = wanted \cup {seq'} \/ wanted' = wanted
        /\ UNCHANGED <<installed, targets, subscribed, feed, lost, pc, after, backlog, position,
                       told, missed, truncated, gap, written>>
    BY DEF EmitNumber, Number, subVars, handlerVars
  <1>3. StreamTypeOK'
    <2>1. seq' \in 1..MaxSeq
      BY <1>2, Typed
    <2>2. QED
      BY <1>1, <1>2, <2>1 DEF StreamInv, StreamTypeOK
  <1>4. EmitOrder'
    BY <1>2, Typed DEF StreamInv, EmitOrder
  <1>5. FeedOrder'
    BY <1>2, Typed DEF StreamInv, FeedOrder
  <1>6. Phases'
    BY <1>2, Typed DEF StreamInv, Phases, Unread
  <1>7. ReplayOrder'
    BY <1>2, Typed DEF StreamInv, ReplayOrder
  <1>8. WrittenOrder'
    BY <1>2 DEF StreamInv, WrittenOrder
  <1>9. Covered'
    <2>1. ~Waits /\ Waits'
      BY <1>2 DEF StreamInv, EmitOrder, Waits
    <2>2. QED
      BY <1>2, <2>1, Typed DEF StreamInv, Covered
  <1>10. NoSilentHole'
    <2>1. ~(seq' <= position /\ seq' > after)
      BY <1>2, Typed DEF StreamInv, Phases
    <2>2. QED
      BY <1>2, <2>1, Typed DEF StreamInv, NoSilentHole
  <1>11. QED
    BY <1>1, <1>3, <1>4, <1>5, <1>6, <1>7, <1>8, <1>9, <1>10 DEF StreamInv

\* The emission does not touch the handler: what is ahead of the position may only become
\* known to the feed.
LEMMA EmitInv ==
    ASSUME StreamInv, EmitStore \/ Collect \/ Offer \/ Install
    PROVE  StreamInv'
  <1>1. RingHolds' /\ LogTypeOK'
    BY RingNext DEF StreamNext, Emit
  <1>2. /\ seq' = seq
        /\ UNCHANGED <<wanted, subscribed, pc, after, backlog, position,
                       told, missed, truncated, gap, written>>
    BY DEF EmitStore, Store, Collect, Offer, Install, subVars, handlerVars, logVars
  <1>3. \/ UNCHANGED <<stage, targets, feed, lost>> /\ (emitting' => emitting)
        \/ /\ stage = "emitting" /\ ~emitting' /\ stage' = "broadcasting"
           /\ targets' = subscribed /\ UNCHANGED <<feed, lost>>
        \/ /\ stage = "broadcasting" /\ stage' = "idle" /\ targets' = FALSE /\ emitting' = emitting
           /\ targets /\ subscribed /\ Len(feed) < Buffer
           /\ feed' = Append(feed, seq) /\ lost' = lost
        \/ /\ stage = "broadcasting" /\ stage' = "idle" /\ targets' = FALSE /\ emitting' = emitting
           /\ targets /\ subscribed
           /\ lost' = lost \cup {seq} /\ feed' = feed
        \/ /\ stage = "broadcasting" /\ stage' = "idle" /\ targets' = FALSE /\ emitting' = emitting
           /\ ~(targets /\ subscribed) /\ UNCHANGED <<feed, lost>>
    BY DEF EmitStore, Store, Collect, Offer, Install, subVars, handlerVars, logVars
  <1>4. installed' \in BOOLEAN
    BY DEF EmitStore, Collect, Offer, Install, StreamInv, StreamTypeOK
  <1>5. stage = "broadcasting" => seq \in 1..MaxSeq /\ \A s \in ToSet(feed) : s < seq
    BY Typed DEF StreamInv, EmitOrder, FeedOrder
  <1>6. feed' = Append(feed, seq) /\ stage = "broadcasting" =>
          /\ feed' \in Seq(1..MaxSeq) /\ Len(feed') = Len(feed) + 1
          /\ ToSet(feed') = ToSet(feed) \cup {seq} /\ Ascending(feed')
    <2>1. SUFFICES ASSUME feed' = Append(feed, seq), stage = "broadcasting"
                   PROVE  /\ feed' \in Seq(1..MaxSeq) /\ Len(feed') = Len(feed) + 1
                          /\ ToSet(feed') = ToSet(feed) \cup {seq} /\ Ascending(feed')
      OBVIOUS
    <2>2. feed \in Seq(1..MaxSeq) /\ seq \in 1..MaxSeq /\ Ascending(feed) /\ \A s \in ToSet(feed) : s < seq
      BY <1>5, <2>1, Typed DEF StreamInv, FeedOrder
    <2>3. Append(feed, seq) \in Seq(1..MaxSeq) /\ Len(Append(feed, seq)) = Len(feed) + 1
      BY <2>2, AppendProperties
    <2>4. ToSet(Append(feed, seq)) = ToSet(feed) \cup {seq}
      <3> DEFINE X == 1..MaxSeq
      <3>1. feed \in Seq(X) /\ seq \in X
        BY <2>2
      <3> HIDE DEF X
      <3>2. QED
        BY <3>1, AppendedSet
    <2>5. Ascending(Append(feed, seq))
      <3> DEFINE X == 1..MaxSeq
      <3>1. feed \in Seq(X) /\ seq \in X /\ X \subseteq Nat
        BY <2>2, Typed
      <3> HIDE DEF X
      <3>2. QED
        BY <2>2, <3>1, AppendAscends
    <2>6. QED
      BY <2>1, <2>3, <2>4, <2>5
  <1>7. StreamTypeOK'
    <2>1. feed' \in Seq(1..MaxSeq) /\ Len(feed') <= Buffer
      <3>1. /\ feed \in Seq(1..MaxSeq) /\ Len(feed) <= Buffer
            /\ Len(feed) \in Nat /\ Buffer \in Nat
        BY Typed DEF StreamInv, StreamTypeOK
      <3>2. CASE feed' = feed
        BY <3>1, <3>2
      <3>3. CASE stage = "broadcasting" /\ feed' = Append(feed, seq) /\ Len(feed) < Buffer
        BY <1>6, <3>1, <3>3
      <3>4. QED
        BY <1>3, <3>2, <3>3
    <2>2. lost' \subseteq 1..MaxSeq /\ lost \subseteq lost'
      BY <1>3, <1>5 DEF StreamInv, StreamTypeOK
    <2>3. stage' \in {"idle", "emitting", "broadcasting"} /\ targets' \in BOOLEAN
      BY <1>3 DEF StreamInv, StreamTypeOK
    <2>4. QED
      BY <1>1, <1>2, <1>4, <2>1, <2>2, <2>3 DEF StreamInv, StreamTypeOK
  <1>8. EmitOrder'
    BY <1>2, <1>3 DEF StreamInv, EmitOrder
  <1>9. FeedOrder'
    BY <1>2, <1>3, <1>5, <1>6, Typed DEF StreamInv, FeedOrder
  <1>10. Phases'
    BY <1>2, <1>3, Typed DEF StreamInv, Phases, Unread
  <1>11. ReplayOrder'
    BY <1>2, Typed DEF StreamInv, ReplayOrder
  <1>12. WrittenOrder'
    BY <1>2 DEF StreamInv, WrittenOrder
  <1>13. Covered'
    <2>1. SUFFICES ASSUME pc \in {"replay", "live", "report"}, subscribed,
                          NEW s \in 1..seq, s > position
                   PROVE  \/ s \in ToSet(feed') \cup lost' \cup ToSet(backlog) \cup missed
                          \/ s = seq /\ Waits'
      BY <1>2 DEF Covered
    <2>2. \/ s \in ToSet(feed) \cup lost \cup ToSet(backlog) \cup missed
          \/ s = seq /\ Waits
      BY <2>1 DEF StreamInv, Covered
    <2>3. ToSet(feed) \subseteq ToSet(feed') /\ lost \subseteq lost'
      BY <1>3, <1>6
    <2>4. ASSUME s = seq, Waits PROVE Waits' \/ s \in ToSet(feed') \cup lost'
      <3>1. CASE UNCHANGED <<stage, targets, feed, lost>>
        BY <2>4, <3>1 DEF Waits
      <3>2. CASE stage' = "broadcasting" /\ targets' = subscribed
        BY <2>1, <3>2 DEF Waits
      <3>3. CASE feed' = Append(feed, seq) /\ stage = "broadcasting"
        BY <1>6, <2>4, <3>3
      <3>4. CASE lost' = lost \cup {seq}
        BY <2>4, <3>4
      <3>5. CASE stage = "broadcasting" /\ ~(targets /\ subscribed)
        BY <2>1, <2>4, <3>5 DEF Waits
      <3>6. QED
        BY <1>3, <3>1, <3>2, <3>3, <3>4, <3>5
    <2>5. QED
      BY <2>2, <2>3, <2>4
  <1>14. NoSilentHole'
    <2>1. lost \subseteq lost'
      BY <1>3
    <2>2. QED
      BY <1>2, <2>1 DEF StreamInv, NoSilentHole
  <1>15. QED
    BY <1>1, <1>7, <1>8, <1>9, <1>10, <1>11, <1>12, <1>13, <1>14 DEF StreamInv

\* A handler begins, begins again with a pipeline that came late, or ends.
LEMMA AttachInv ==
    ASSUME StreamInv, Attach \/ LateAttach \/ Leave
    PROVE  StreamInv'
  <1>1. RingHolds' /\ LogTypeOK'
    BY RingNext DEF StreamNext
  <1>2. UNCHANGED <<seq, emitting, installed, stage, wanted, targets, feed, lost, backlog, told,
                    missed, truncated, gap, written>>
    BY DEF Attach, LateAttach, Leave, emitVars, logVars
  <1>3. \/ /\ pc = "new" /\ subscribed' = installed /\ position' = after' /\ after' \in Seqs
           /\ pc' = IF installed THEN "attached" ELSE "live"
        \/ /\ pc = "live" /\ ~subscribed /\ subscribed' = TRUE /\ pc' = "attached"
           /\ UNCHANGED <<after, position>>
        \/ pc' = "ended" /\ subscribed' = FALSE /\ UNCHANGED <<after, position>>
    BY DEF Attach, LateAttach, Leave
  <1>4. installed \in BOOLEAN /\ subscribed \in BOOLEAN
    BY DEF StreamInv, StreamTypeOK
  <1>5. StreamTypeOK'
    BY <1>1, <1>2, <1>3, <1>4 DEF StreamInv, StreamTypeOK
  <1>6. EmitOrder' /\ FeedOrder'
    BY <1>2 DEF StreamInv, EmitOrder, FeedOrder
  <1>7. Phases'
    BY <1>2, <1>3, <1>4 DEF StreamInv, Phases, Unread
  <1>8. ReplayOrder' /\ Covered'
    BY <1>2, <1>3, <1>4 DEF ReplayOrder, Covered
  <1>9. CASE pc = "new"
    <2>1. written = <<>> /\ missed = {}
      BY <1>9 DEF StreamInv, Phases, Unread
    <2>2. WrittenOrder'
      BY <1>2, <2>1, EmptyIs, EmptySeq DEF WrittenOrder
    <2>3. (position' = after' /\ after' \in Nat) \/ UNCHANGED <<after, position>>
      BY <1>3, <1>9, RingAssumption DEF Seqs
    <2>4. NoSilentHole'
      BY <1>2, <2>1, <2>3, Typed DEF StreamInv, NoSilentHole, Phases, Unread
    <2>5. QED
      BY <1>1, <1>5, <1>6, <1>7, <1>8, <2>2, <2>4 DEF StreamInv
  <1>10. CASE pc # "new"
    <2>1. UNCHANGED <<after, position>>
      BY <1>3, <1>10
    <2>2. WrittenOrder'
      BY <1>2, <2>1 DEF StreamInv, WrittenOrder
    <2>3. pc' \in {"live", "report"} => missed' = {}
      BY <1>3, <1>10
    <2>4. NoSilentHole'
      BY <1>2, <2>1, <2>3 DEF StreamInv, NoSilentHole
    <2>5. QED
      BY <1>1, <1>5, <1>6, <1>7, <1>8, <2>2, <2>4 DEF StreamInv
  <1>11. QED
    BY <1>9, <1>10

\* The ring answers what is after the cursor, or says that something is gone.
LEMMA ReadRingInv == ASSUME StreamInv, ReadRing PROVE StreamInv'
  <1>1. RingHolds' /\ LogTypeOK' /\ RingHolds
    BY RingNext DEF StreamNext, Stream, StreamInv
  <1>2. /\ UNCHANGED <<seq, emitting, installed, stage, wanted, targets, subscribed, feed, lost,
                       after, position, told, gap, written>>
        /\ pc = "attached" /\ pc' = "replay"
        /\ backlog' = Records(after) /\ truncated' = RecordsTruncated(after)
        /\ missed' = {s \in 1..newest : s > after} \ ToSet(RingRecords)
    BY DEF ReadRing, emitVars, logVars, subVars
  <1>3. after \in Seqs /\ position = after /\ subscribed /\ written = <<>>
    BY <1>2 DEF StreamInv, StreamTypeOK, Phases, Unread
  <1>4. /\ backlog' \in Seq(Nat) /\ Ascending(backlog') /\ ToSet(backlog') \subseteq 1..newest
        /\ ToSet(backlog') = {s \in ToSet(RingRecords) : s > after}
        /\ \A s \in ToSet(backlog') : s > after
        /\ Len(backlog') <= count
    <2>1. Log!After(after) = {s \in ToSet(RingRecords) : s > after}
      BY DEF Log!After, Log!ToSet, ToSet
    <2>2. QED
      BY <1>1, <1>2, <1>3, <2>1, RecordsAre
  <1>5. Retained
    BY <1>1, RingRecordsAre
  <1>6. newest \in Nat /\ newest <= seq /\ newest <= MaxSeq /\ (newest = seq \/ emitting)
    BY Typed DEF Held, StreamInv, EmitOrder
  <1>7. ToSet(backlog') \cup missed' = {s \in 1..newest : s > after}
    <2>1. ToSet(RingRecords) \subseteq 1..newest
      BY <1>5, <1>6 DEF Retained
    <2>2. QED
      BY <1>2, <1>4, <2>1
  <1>8. StreamTypeOK'
    <2>1. backlog' \in Seq(1..MaxSeq) /\ Len(backlog') <= Capacity
      <3>1. ToSet(backlog') \subseteq 1..MaxSeq
        BY <1>4, <1>6, Typed
      <3> DEFINE X == 1..MaxSeq
      <3>2. backlog' \in Seq(X)
        <4>1. ToSet(backlog') \subseteq X
          BY <3>1
        <4> HIDE DEF X
        <4>2. QED
          BY <1>4, <4>1, SeqOver
      <3>3. count <= Capacity /\ count \in Nat /\ Capacity \in Nat
        BY <1>1, RingAssumption DEF RingHolds, LogTypeOK
      <3>4. Len(backlog') \in Nat
        BY <1>4, LenProperties
      <3>5. QED
        BY <1>4, <3>2, <3>3, <3>4
    <2>2. missed' \subseteq 1..MaxSeq
      BY <1>2, <1>6, Typed
    <2>3. truncated' \in BOOLEAN
      BY <1>2 DEF RecordsTruncated
    <2>4. QED
      BY <1>1, <1>2, <2>1, <2>2, <2>3 DEF StreamInv, StreamTypeOK
  <1>9. EmitOrder' /\ FeedOrder'
    BY <1>2 DEF StreamInv, EmitOrder, FeedOrder
  <1>10. Phases'
    BY <1>2, <1>3 DEF StreamInv, Phases, Unread
  <1>11. ReplayOrder'
    <2>1. missed' # {} => truncated'
      <3>1. SUFFICES ASSUME NEW s \in missed' PROVE truncated'
        OBVIOUS
      <3>2. s \in (after + 1)..newest \ ToSet(RingRecords)
        BY <1>2, <1>6, <3>1, Typed
      <3>3. count # 0 => oldest = newest - count + 1
        BY <1>1 DEF RingHolds
      <3>4. count = 0 => newest = 0
        BY <1>1, RingAssumption DEF RingHolds
      <3>5. ToSet(RingRecords) = (newest - count + 1)..newest /\ count \in Nat
        BY <1>5 DEF Retained
      <3>6. /\ s \in Nat /\ after \in Nat /\ newest \in Nat /\ after < s /\ s <= newest
            /\ ~(newest - count + 1 <= s)
        BY <1>6, <3>2, <3>5, Typed
      <3>7. count # 0 /\ after # newest /\ newest - after > newest - (newest - count + 1) + 1
        BY <3>4, <3>5, <3>6
      <3>8. RecordsTruncated(after)
        BY <3>3, <3>7 DEF RecordsTruncated
      <3>9. QED
        BY <1>2, <3>8
    <2>2. \A s \in ToSet(backlog') : position' < s /\ s <= seq'
      BY <1>2, <1>3, <1>4, <1>6, Typed
    <2>3. ASSUME NEW s \in ToSet(backlog'), NEW n \in Nat, position' < n, n < s
          PROVE  n \in ToSet(backlog') \cup missed'
      BY <1>2, <1>3, <1>4, <1>6, <1>7, <2>3, Typed
    <2>4. QED
      BY <1>4, <2>1, <2>2, <2>3 DEF ReplayOrder
  <1>12. WrittenOrder'
    BY <1>2 DEF StreamInv, WrittenOrder
  <1>13. Covered'
    <2>1. SUFFICES ASSUME NEW s \in 1..seq, s > position
                   PROVE  \/ s \in ToSet(backlog') \cup missed'
                          \/ s = seq /\ Waits'
      BY <1>2 DEF Covered
    <2>2. CASE s <= newest
      <3>1. s \in {n \in 1..newest : n > after}
        BY <1>3, <1>6, <2>1, <2>2, Typed
      <3>2. QED
        BY <1>7, <3>1
    <2>3. CASE s > newest
      <3>1. s = seq /\ emitting
        BY <1>6, <2>1, <2>3, Typed DEF Held
      <3>2. QED
        BY <1>2, <3>1 DEF StreamInv, EmitOrder, Waits
    <2>4. QED
      BY <1>6, <2>2, <2>3, Typed
  <1>14. NoSilentHole'
    BY <1>2, <1>3, Typed DEF NoSilentHole
  <1>15. QED
    BY <1>1, <1>8, <1>9, <1>10, <1>11, <1>12, <1>13, <1>14 DEF StreamInv

\* Taking from a queue of records.
LEMMA HeadTaken ==
    ASSUME NEW s \in Seq(1..MaxSeq), s # <<>>
    PROVE  /\ Tail(s) \in Seq(1..MaxSeq) /\ Head(s) \in 1..MaxSeq /\ Len(Tail(s)) = Len(s) - 1
           /\ ToSet(s) = {Head(s)} \cup ToSet(Tail(s))
           /\ Ascending(s) => Ascending(Tail(s)) /\ \A e \in ToSet(Tail(s)) : Head(s) < e
  <1> DEFINE X == 1..MaxSeq
  <1>1. X \subseteq Nat /\ s \in Seq(X)
    BY RingAssumption
  <1> HIDE DEF X
  <1>2. /\ Tail(s) \in Seq(X) /\ Head(s) \in X /\ Len(Tail(s)) = Len(s) - 1
        /\ ToSet(s) = {Head(s)} \cup ToSet(Tail(s))
        /\ Ascending(s) => Ascending(Tail(s)) /\ \A e \in ToSet(Tail(s)) : Head(s) < e
    BY <1>1, TailIs
  <1>3. QED
    BY <1>2 DEF X

\* A record ahead of the position is written, or left out.
LEMMA Delivered ==
    ASSUME StreamInv, NEW h \in 1..MaxSeq, position < h, position' = h,
           written' = Append(written, h) \/ written' = written
    PROVE  /\ written' \in Seq(1..MaxSeq) /\ Len(written') <= MaxSeq
           /\ WrittenOrder'
           /\ ToSet(written) \subseteq ToSet(written')
           /\ written' = Append(written, h) => h \in ToSet(written')
  <1>1. /\ written \in Seq(1..MaxSeq) /\ Len(written) \in Nat /\ Len(written) <= MaxSeq
        /\ position \in Nat /\ MaxSeq \in Nat /\ ToSet(written) \subseteq 1..MaxSeq
    BY Typed DEF StreamInv, StreamTypeOK
  <1>2. /\ Ascending(written) /\ \A s \in ToSet(written) : s <= position
        /\ \A i \in DOMAIN written : i <= written[i]
    BY DEF StreamInv, WrittenOrder
  <1>3. CASE written' = written
    <2>1. \A s \in ToSet(written) : s <= h
      BY <1>1, <1>2
    <2>2. WrittenOrder'
      BY <1>2, <1>3, <2>1 DEF WrittenOrder
    <2>3. QED
      <3>1. h \in ToSet(written) \/ written # Append(written, h)
        <4>1. Len(Append(written, h)) = Len(written) + 1
          BY <1>1, AppendProperties
        <4>2. QED
          BY <1>1, <4>1
      <3>2. QED
        BY <1>1, <1>3, <2>2, <3>1
  <1>4. CASE written' = Append(written, h)
    <2>1. /\ written' \in Seq(1..MaxSeq) /\ Len(written') = Len(written) + 1
          /\ \A i \in 1..Len(written) : written'[i] = written[i]
          /\ written'[Len(written) + 1] = h
      BY <1>1, <1>4, AppendProperties
    <2>2. DOMAIN written = 1..Len(written) /\ DOMAIN written' = 1..(Len(written) + 1)
      BY <1>1, <2>1, LenProperties
    <2>3. ToSet(written') = ToSet(written) \cup {h}
      <3> DEFINE X == 1..MaxSeq
      <3>1. written \in Seq(X) /\ h \in X
        BY <1>1
      <3> HIDE DEF X
      <3>2. QED
        BY <1>4, <3>1, AppendedSet
    <2>4. \A s \in ToSet(written) : s < h
      BY <1>1, <1>2
    <2>5. Ascending(written')
      <3>1. 1..MaxSeq \subseteq Nat
        BY <1>1
      <3>2. QED
        BY <1>1, <1>2, <1>4, <2>4, <3>1, AppendAscends
    <2>6. Len(written) + 1 <= h
      <3>1. CASE Len(written) = 0
        BY <3>1
      <3>2. CASE Len(written) # 0
        <4>1. Len(written) \in DOMAIN written
          BY <1>1, <2>2, <3>2
        <4>2. written[Len(written)] \in ToSet(written)
          BY <4>1 DEF ToSet
        <4>3. Len(written) <= written[Len(written)] /\ written[Len(written)] < h
          BY <1>2, <2>4, <4>1, <4>2
        <4>4. written[Len(written)] \in Nat
          BY <1>1, <4>2
        <4>5. QED
          BY <1>1, <4>3, <4>4
      <3>3. QED
        BY <3>1, <3>2
    <2>7. \A i \in DOMAIN written' : i <= written'[i]
      <3>1. ASSUME NEW i \in DOMAIN written' PROVE i <= written'[i]
        <4>1. i \in DOMAIN written \/ i = Len(written) + 1
          BY <1>1, <2>2
        <4>2. QED
          BY <1>2, <2>1, <2>2, <2>6, <4>1
      <3>2. QED
        BY <3>1
    <2>8. \A s \in ToSet(written') : s <= position'
      <3>1. \A s \in ToSet(written) : s <= h
        BY <1>1, <2>4
      <3>2. QED
        BY <2>3, <3>1
    <2>9. Len(written') <= MaxSeq
      BY <1>1, <2>1, <2>6
    <2>10. QED
      BY <1>4, <2>1, <2>3, <2>5, <2>7, <2>8, <2>9 DEF WrittenOrder
  <1>5. QED
    BY <1>3, <1>4

\* The replay writes what the ring had, in its order.
LEMMA ReplayInv == ASSUME StreamInv, Replay PROVE StreamInv'
  <1> DEFINE h == Head(backlog)
  <1>1. RingHolds' /\ LogTypeOK'
    BY RingNext DEF StreamNext, Stream
  <1>2. /\ UNCHANGED <<seq, emitting, installed, stage, wanted, targets, subscribed, feed, lost,
                       pc, after, told, missed, truncated, gap>>
        /\ pc = "replay" /\ backlog # <<>> /\ backlog' = Tail(backlog) /\ position' = h
        /\ written' = IF h \in wanted THEN Append(written, h) ELSE written
    BY DEF Replay, emitVars, logVars, subVars
  <1>3. /\ Tail(backlog) \in Seq(1..MaxSeq) /\ h \in 1..MaxSeq
        /\ Len(Tail(backlog)) = Len(backlog) - 1
        /\ ToSet(backlog) = {h} \cup ToSet(backlog')
        /\ Ascending(backlog') /\ \A s \in ToSet(backlog') : h < s
    BY <1>2, Typed, HeadTaken DEF StreamInv, ReplayOrder
  <1> HIDE DEF h
  <1>4. position < h /\ h <= seq
    BY <1>2, <1>3 DEF StreamInv, ReplayOrder
  <1>5. /\ written' \in Seq(1..MaxSeq) /\ Len(written') <= MaxSeq /\ WrittenOrder'
        /\ ToSet(written) \subseteq ToSet(written') /\ (h \in wanted => h \in ToSet(written'))
    BY <1>2, <1>3, <1>4, Delivered
  <1>6. h \in Nat /\ position \in Nat /\ seq \in Nat /\ seq <= MaxSeq /\ after \in Nat
    BY <1>3, Typed
  <1>7. StreamTypeOK'
    <2>1. position' \in Seqs
      BY <1>2, <1>4, <1>6, RingAssumption DEF Seqs
    <2>2. backlog' \in Seq(1..MaxSeq) /\ Len(backlog') <= Capacity
      BY <1>2, <1>3, Typed DEF StreamInv, StreamTypeOK
    <2>3. QED
      BY <1>1, <1>2, <1>5, <2>1, <2>2 DEF StreamInv, StreamTypeOK
  <1>8. EmitOrder' /\ FeedOrder'
    BY <1>2 DEF StreamInv, EmitOrder, FeedOrder
  <1>9. Phases'
    BY <1>2, <1>4 DEF StreamInv, Phases, Unread
  <1>10. \A n \in Nat, s \in ToSet(backlog) : position < n /\ n < s => n \in ToSet(backlog) \cup missed
    BY <1>2 DEF StreamInv, ReplayOrder
  <1>11. ReplayOrder'
    <2>1. \A s \in ToSet(backlog') : h < s /\ s <= seq
      BY <1>2, <1>3 DEF StreamInv, ReplayOrder
    <2>2. ASSUME NEW s \in ToSet(backlog'), NEW n \in Nat, h < n, n < s
          PROVE  n \in ToSet(backlog') \cup missed
      <3>1. position < n /\ n # h /\ s \in ToSet(backlog)
        BY <1>3, <1>4, <1>6, <2>2
      <3>2. n \in ToSet(backlog) \cup missed
        BY <1>10, <2>2, <3>1
      <3>3. QED
        BY <1>3, <3>1, <3>2
    <2>3. missed # {} => truncated
      BY <1>2 DEF StreamInv, ReplayOrder
    <2>4. QED
      BY <1>2, <1>3, <2>1, <2>2, <2>3 DEF ReplayOrder
  <1>12. Covered'
    <2>1. SUFFICES ASSUME NEW s \in 1..seq, s > h, subscribed
                   PROVE  \/ s \in ToSet(feed) \cup lost \cup ToSet(backlog') \cup missed
                          \/ s = seq /\ Waits
      BY <1>2 DEF Covered, Waits
    <2>2. s > position /\ s # h
      BY <1>4, <1>6, <2>1
    <2>3. \/ s \in ToSet(feed) \cup lost \cup ToSet(backlog) \cup missed
          \/ s = seq /\ Waits
      BY <1>2, <2>1, <2>2 DEF StreamInv, Covered
    <2>4. QED
      BY <1>3, <2>2, <2>3
  <1>13. NoSilentHole'
    <2>1. SUFFICES ASSUME NEW s \in 1..h, s > after, s \in wanted
                   PROVE  s \in ToSet(written') \cup lost \cup missed
      BY <1>2 DEF NoSilentHole
    <2>2. CASE s <= position
      <3>1. s \in 1..position
        BY <1>6, <2>1, <2>2
      <3>2. s \in ToSet(written) \cup lost \cup missed
        BY <2>1, <3>1 DEF StreamInv, NoSilentHole
      <3>3. QED
        BY <1>5, <3>2
    <2>3. CASE s > position /\ s # h
      <3>1. s \in Nat /\ position < s /\ s < h
        BY <1>6, <2>1, <2>3
      <3>2. s \in ToSet(backlog) \cup missed
        BY <1>3, <1>10, <3>1
      <3>3. s \notin ToSet(backlog')
        <4>1. s \in ToSet(backlog') => h < s
          BY <1>3
        <4>2. QED
          BY <1>6, <3>1, <4>1
      <3>4. QED
        BY <1>3, <2>3, <3>2, <3>3
    <2>4. CASE s = h
      BY <1>5, <2>1, <2>4
    <2>5. QED
      BY <1>6, <2>2, <2>3, <2>4
  <1>14. QED
    BY <1>1, <1>5, <1>7, <1>8, <1>9, <1>11, <1>12, <1>13 DEF StreamInv

\* The replay ends with the gap event when something was gone.
LEMMA EndReplayInv == ASSUME StreamInv, EndReplay PROVE StreamInv'
  <1>1. RingHolds' /\ LogTypeOK'
    BY RingNext DEF StreamNext, Stream
  <1>2. /\ UNCHANGED <<seq, emitting, installed, stage, wanted, targets, subscribed, feed, lost,
                       after, backlog, position, told, missed, truncated, written>>
        /\ pc = "replay" /\ backlog = <<>> /\ pc' = "live" /\ gap' = truncated
    BY DEF EndReplay, emitVars, logVars, subVars
  <1>3. subscribed /\ truncated \in BOOLEAN /\ (missed # {} => truncated)
    BY <1>2 DEF StreamInv, Phases, StreamTypeOK, ReplayOrder
  <1>4. StreamTypeOK'
    BY <1>1, <1>2, <1>3 DEF StreamInv, StreamTypeOK
  <1>5. EmitOrder' /\ FeedOrder' /\ WrittenOrder'
    BY <1>2 DEF StreamInv, EmitOrder, FeedOrder, WrittenOrder
  <1>6. Phases' /\ ReplayOrder'
    BY <1>2, <1>3 DEF StreamInv, Phases, Unread, ReplayOrder
  <1>7. Covered'
    BY <1>2, <1>3 DEF StreamInv, Covered, Waits
  <1>8. NoSilentHole'
    BY <1>2, <1>3 DEF StreamInv, NoSilentHole
  <1>9. QED
    BY <1>1, <1>4, <1>5, <1>6, <1>7, <1>8 DEF StreamInv

\* What the replay had is not written again.
LEMMA SkipInv == ASSUME StreamInv, Skip PROVE StreamInv'
  <1> DEFINE h == Head(feed)
  <1>1. RingHolds' /\ LogTypeOK'
    BY RingNext DEF StreamNext, Stream
  <1>2. /\ UNCHANGED <<seq, emitting, installed, stage, wanted, targets, subscribed, lost, pc,
                       after, backlog, position, told, missed, truncated, gap, written>>
        /\ pc = "live" /\ feed # <<>> /\ h <= position /\ feed' = Tail(feed)
    BY DEF Skip, emitVars, logVars, handlerVars
  <1>3. /\ feed' \in Seq(1..MaxSeq) /\ h \in 1..MaxSeq /\ Len(feed') = Len(feed) - 1
        /\ ToSet(feed) = {h} \cup ToSet(feed') /\ Ascending(feed')
    BY <1>2, Typed, HeadTaken DEF StreamInv, FeedOrder
  <1> HIDE DEF h
  <1>4. subscribed /\ h \in Nat /\ position \in Nat
    BY <1>2, <1>3, Typed DEF StreamInv, Phases
  <1>5. StreamTypeOK'
    <2>1. Len(feed') <= Buffer
      BY <1>3, Typed DEF StreamInv, StreamTypeOK
    <2>2. QED
      BY <1>1, <1>2, <1>3, <2>1 DEF StreamInv, StreamTypeOK
  <1>6. EmitOrder' /\ WrittenOrder' /\ ReplayOrder' /\ NoSilentHole'
    BY <1>2 DEF StreamInv, EmitOrder, WrittenOrder, ReplayOrder, NoSilentHole
  <1>7. FeedOrder'
    BY <1>2, <1>3 DEF StreamInv, FeedOrder
  <1>8. Phases'
    BY <1>2, <1>4 DEF StreamInv, Phases, Unread
  <1>9. Covered'
    <2>1. SUFFICES ASSUME NEW s \in 1..seq, s > position
                   PROVE  \/ s \in ToSet(feed') \cup lost \cup ToSet(backlog) \cup missed
                          \/ s = seq /\ Waits
      BY <1>2 DEF Covered, Waits
    <2>2. s # h
      BY <1>2, <1>4, <2>1
    <2>3. \/ s \in ToSet(feed) \cup lost \cup ToSet(backlog) \cup missed
          \/ s = seq /\ Waits
      BY <1>2, <1>4, <2>1 DEF StreamInv, Covered
    <2>4. QED
      BY <1>3, <2>2, <2>3
  <1>10. QED
    BY <1>1, <1>5, <1>6, <1>7, <1>8, <1>9 DEF StreamInv

\* What lies between the position and the next record of the feed was lost, or was gone.
LEMMA FollowInv == ASSUME StreamInv, Follow PROVE StreamInv'
  <1> DEFINE h == Head(feed)
  <1>1. RingHolds' /\ LogTypeOK'
    BY RingNext DEF StreamNext, Stream
  <1>2. /\ UNCHANGED <<seq, emitting, installed, stage, wanted, targets, subscribed, lost,
                       after, backlog, told, missed, truncated, gap>>
        /\ pc = "live" /\ feed # <<>> /\ h > position /\ feed' = Tail(feed) /\ position' = h
        /\ pc' \in {"live", "report"}
        /\ \/ h \in wanted /\ written' = Append(written, h)
           \/ h \notin wanted /\ written' = written
    BY DEF Follow, emitVars, logVars
  <1>3. /\ feed' \in Seq(1..MaxSeq) /\ h \in 1..MaxSeq /\ Len(feed') = Len(feed) - 1
        /\ ToSet(feed) = {h} \cup ToSet(feed') /\ Ascending(feed')
        /\ \A s \in ToSet(feed') : h < s
    BY <1>2, Typed, HeadTaken DEF StreamInv, FeedOrder
  <1> HIDE DEF h
  <1>4. /\ subscribed /\ backlog = <<>> /\ h <= seq
        /\ h \in Nat /\ position \in Nat /\ seq \in Nat /\ seq <= MaxSeq /\ after \in Nat
    BY <1>2, <1>3, Typed DEF StreamInv, Phases, FeedOrder
  <1>5. /\ written' \in Seq(1..MaxSeq) /\ Len(written') <= MaxSeq /\ WrittenOrder'
        /\ ToSet(written) \subseteq ToSet(written') /\ (h \in wanted => h \in ToSet(written'))
    <2>1. position < h
      BY <1>2, <1>4
    <2>2. QED
      BY <1>2, <1>3, <2>1, Delivered
  <1>6. StreamTypeOK'
    <2>1. Len(feed') <= Buffer /\ position' \in Seqs
      BY <1>2, <1>3, <1>4, Typed DEF StreamInv, StreamTypeOK, Seqs
    <2>2. pc' \in {"new", "attached", "replay", "live", "report", "ended"}
      BY <1>2
    <2>3. QED
      BY <1>1, <1>2, <1>3, <1>5, <2>1, <2>2 DEF StreamInv, StreamTypeOK
  <1>7. EmitOrder' /\ ReplayOrder'
    BY <1>2 DEF StreamInv, EmitOrder, ReplayOrder
  <1>8. FeedOrder'
    BY <1>2, <1>3 DEF StreamInv, FeedOrder
  <1>9. Phases'
    BY <1>2, <1>4 DEF StreamInv, Phases, Unread
  <1>10. ASSUME NEW s \in 1..seq, s > position
         PROVE  \/ s = h \/ s \in ToSet(feed') \cup lost \cup missed
                \/ s = seq /\ Waits
    <2>1. \/ s \in ToSet(feed) \cup lost \cup ToSet(backlog) \cup missed
          \/ s = seq /\ Waits
      BY <1>2, <1>4, <1>10 DEF StreamInv, Covered
    <2>2. QED
      BY <1>3, <1>4, <2>1, EmptyIs
  <1>11. Covered'
    <2>1. SUFFICES ASSUME NEW s \in 1..seq, s > h
                   PROVE  \/ s \in ToSet(feed') \cup lost \cup ToSet(backlog) \cup missed
                          \/ s = seq /\ Waits
      BY <1>2 DEF Covered, Waits
    <2>2. s > position /\ s # h
      BY <1>2, <1>4, <2>1
    <2>3. QED
      BY <1>10, <2>1, <2>2
  <1>12. NoSilentHole'
    <2>1. ASSUME NEW s \in 1..h, s > after, s \in wanted
          PROVE  s \in ToSet(written') \cup lost \cup missed
      <3>1. CASE s <= position
        <4>1. s \in 1..position
          BY <1>4, <2>1, <3>1
        <4>2. s \in ToSet(written) \cup lost \cup missed
          BY <2>1, <4>1 DEF StreamInv, NoSilentHole
        <4>3. QED
          BY <1>5, <4>2
      <3>2. CASE s > position /\ s # h
        <4>1. s \in 1..seq /\ s < h /\ s # seq
          BY <1>4, <2>1, <3>2
        <4>2. s \in ToSet(feed') \cup lost \cup missed
          BY <1>10, <3>2, <4>1
        <4>3. s \notin ToSet(feed')
          <5>1. s \in ToSet(feed') => h < s
            BY <1>3
          <5>2. QED
            BY <1>4, <4>1, <5>1
        <4>4. QED
          BY <4>2, <4>3
      <3>3. CASE s = h
        BY <1>5, <2>1, <3>3
      <3>4. QED
        BY <1>4, <3>1, <3>2, <3>3
    <2>2. missed # {} => gap
      BY <1>2 DEF StreamInv, NoSilentHole
    <2>3. QED
      BY <1>2, <2>1, <2>2 DEF NoSilentHole
  <1>13. QED
    BY <1>1, <1>5, <1>6, <1>7, <1>8, <1>9, <1>11, <1>12 DEF StreamInv

\* The client is told of what was lost.
LEMMA ReportInv == ASSUME StreamInv, Report PROVE StreamInv'
  <1>1. RingHolds' /\ LogTypeOK'
    BY RingNext DEF StreamNext, Stream
  <1>2. /\ UNCHANGED <<seq, emitting, installed, stage, wanted, targets, subscribed, feed, lost,
                       after, backlog, position, missed, truncated, gap, written>>
        /\ pc = "report" \/ (pc = "live" /\ subscribed)
        /\ pc' = "live" /\ told' = lost
    BY DEF Report, emitVars, logVars, subVars
  <1>3. subscribed
    BY <1>2 DEF StreamInv, Phases
  <1>4. StreamTypeOK'
    BY <1>1, <1>2 DEF StreamInv, StreamTypeOK
  <1>5. EmitOrder' /\ FeedOrder' /\ WrittenOrder'
    BY <1>2 DEF StreamInv, EmitOrder, FeedOrder, WrittenOrder
  <1>6. Phases' /\ ReplayOrder'
    BY <1>2, <1>3 DEF StreamInv, Phases, Unread, ReplayOrder
  <1>7. Covered'
    BY <1>2, <1>3 DEF StreamInv, Covered, Waits
  <1>8. NoSilentHole'
    BY <1>2 DEF StreamInv, NoSilentHole
  <1>9. QED
    BY <1>1, <1>4, <1>5, <1>6, <1>7, <1>8 DEF StreamInv

\* A step of others.
LEMMA StreamStays == ASSUME StreamInv, UNCHANGED streamVars PROVE StreamInv'
  <1>1. UNCHANGED <<seq, emitting, installed, stage, wanted, targets, subscribed, feed, lost, pc,
                    after, backlog, position, told, missed, truncated, gap, written>>
    BY DEF streamVars, emitVars, logVars, subVars, handlerVars
  <1>2. RingHolds' /\ LogTypeOK'
    BY StreamSteps, RingStays DEF StreamInv, RingHolds, streamVars, emitVars
  <1>3. StreamTypeOK' /\ EmitOrder' /\ FeedOrder' /\ WrittenOrder'
    BY <1>1, <1>2 DEF StreamInv, StreamTypeOK, EmitOrder, FeedOrder, WrittenOrder
  <1>4. Phases' /\ ReplayOrder' /\ Covered' /\ NoSilentHole'
    BY <1>1 DEF StreamInv, Phases, Unread, ReplayOrder, Covered, Waits, NoSilentHole
  <1>5. QED
    BY <1>2, <1>3, <1>4 DEF StreamInv

\* Whatever is emitted around the subscription and the replay, a record ahead of the position
\* is in the feed, in the backlog, counted as lost or known to be gone: the inductive
\* invariant of the stream.
THEOREM StreamInvariant == StreamSpec => []StreamInv
  <1>1. ASSUME StreamInv, [StreamNext]_streamVars PROVE StreamInv'
    <2>1. CASE Install \/ EmitStore \/ Collect \/ Offer
      BY <1>1, <2>1, EmitInv
    <2>2. CASE EmitNumber
      BY <1>1, <2>2, EmitNumberInv
    <2>3. CASE Attach \/ LateAttach \/ Leave
      BY <1>1, <2>3, AttachInv
    <2>4. CASE ReadRing
      BY <1>1, <2>4, ReadRingInv
    <2>5. CASE Replay
      BY <1>1, <2>5, ReplayInv
    <2>6. CASE EndReplay
      BY <1>1, <2>6, EndReplayInv
    <2>7. CASE Skip
      BY <1>1, <2>7, SkipInv
    <2>8. CASE Follow
      BY <1>1, <2>8, FollowInv
    <2>9. CASE Report
      BY <1>1, <2>9, ReportInv
    <2>10. CASE UNCHANGED streamVars
      BY <1>1, <2>10, StreamStays
    <2>11. QED
      BY <1>1, <2>1, <2>2, <2>3, <2>4, <2>5, <2>6, <2>7, <2>8, <2>9, <2>10
         DEF StreamNext, Emit, Stream
  <1>2. QED
    BY <1>1, StreamInitInv, PTL DEF StreamSpec

\* The client receives the records in order and once, a hole in what it received was
\* counted as dropped or is said by the gap event, and every page of the log, at any
\* moment of an emission, is what the retained log answers (runtime.go:289-331, 418-476).
THEOREM LogIsToldAlways == StreamSpec => []LogIsTold
  <1>1. StreamInv => LogIsTold
    <2>1. SUFFICES ASSUME StreamInv PROVE LogIsTold
      OBVIOUS
    <2>2. InOrderOnce /\ NoSilentHole
      BY <2>1 DEF StreamInv, InOrderOnce, WrittenOrder
    <2>3. PagesAnswerLog
      BY <2>1, PagesAnswer DEF StreamInv, PagesAnswerLog
    <2>4. QED
      BY <2>2, <2>3 DEF LogIsTold
  <1>2. QED
    BY <1>1, StreamInvariant, PTL
---------------------------------------------------------------------------
(* Files on the disk *)

\* The file at the sink's path is the 0th, and the others follow.
Paths == 0..MaxBackups
Files == [n \in Paths |-> FileAt(n)]

\* Files with lines in order, of records up to r, within their sizes.
FilesOK(F, r) ==
    /\ F \in [Paths -> File]
    /\ \A n, m \in Paths : \A i \in DOMAIN F[n].lines, j \in DOMAIN F[m].lines :
          n > m \/ (n = m /\ i < j) => F[n].lines[i].record < F[m].lines[j].record
    /\ \A n \in Paths : \A i \in DOMAIN F[n].lines : F[n].lines[i].record <= r
    /\ \A n \in Paths : F[n].size > MaxSize => Len(F[n].lines) = 1
    /\ \A n \in Paths : F[n].size = 0 <=> F[n].lines = <<>>

RecordsOf(F) == UNION {RecordsIn(F[n]) : n \in Paths}

\* What a step drops is older than what it keeps.
DropsOldest(F, G) == \A r \in RecordsOf(F) \ RecordsOf(G) : \A s \in RecordsOf(G) : s > r

\* A file moves up by one; a file goes or loses what it had; a file gets a line.
Moved(F, G, k) ==
    /\ G[k + 1] = F[k] /\ G[k] = Absent
    /\ \A n \in Paths : n # k /\ n # k + 1 => G[n] = F[n]
Cleared(F, G, k) ==
    /\ G[k] \in {Absent, Empty}
    /\ \A n \in Paths : n # k => G[n] = F[n]

\* Files without a line.
LEMMA FileTypes ==
    /\ MaxBackups \in Nat /\ MaxSize \in Nat \ {0} /\ MaxRecord \in Nat
    /\ Absent \in File /\ Empty \in File /\ Absent.lines = <<>> /\ Empty.lines = <<>>
    /\ Absent.size = 0 /\ Empty.size = 0 /\ DOMAIN <<>> = {}
    /\ 0 \in Paths /\ MaxBackups \in Paths
  <1>1. <<>> \in Seq(Line) /\ DOMAIN <<>> = {}
    BY EmptySeq
  <1>2. MaxBackups \in Nat /\ MaxSize \in Nat \ {0} /\ MaxRecord \in Nat
    BY SinkAssumption
  <1>3. QED
    BY <1>1, <1>2 DEF Absent, Empty, File, Paths

\* What a file holds.
LEMMA FileIs ==
    ASSUME NEW f \in File
    PROVE  /\ f.lines \in Seq(Line) /\ f.size \in Nat /\ Len(f.lines) \in Nat
           /\ DOMAIN f.lines = 1..Len(f.lines)
           /\ \A i \in DOMAIN f.lines : f.lines[i].record \in 1..MaxRecord
  <1>1. f.lines \in Seq(Line) /\ f.size \in Nat
    BY DEF File
  <1>2. Len(f.lines) \in Nat /\ DOMAIN f.lines = 1..Len(f.lines) /\ \A i \in 1..Len(f.lines) : f.lines[i] \in Line
    BY <1>1, LenProperties, ElementOfSeq
  <1>3. QED
    BY <1>1, <1>2 DEF Line

\* Files of records up to one are files of records up to a later one.
LEMMA LaterRecord ==
    ASSUME NEW F, NEW r \in Nat, NEW q \in Nat, r <= q, FilesOK(F, r) PROVE FilesOK(F, q)
  <1>1. ASSUME NEW n \in Paths, NEW i \in DOMAIN F[n].lines PROVE F[n].lines[i].record <= q
    <2>1. F[n] \in File /\ F[n].lines[i].record <= r
      BY DEF FilesOK
    <2>2. F[n].lines[i].record \in Nat
      BY <2>1, FileIs, FileTypes
    <2>3. QED
      BY <2>1, <2>2
  <1>2. QED
    BY <1>1 DEF FilesOK

\* A file that moves onto one that is gone, or onto the oldest, drops the oldest lines only.
LEMMA FilesMoved ==
    ASSUME NEW F, NEW r, NEW k \in 0..MaxBackups - 1, NEW G, DOMAIN G = Paths,
           G = [n \in Paths |-> G[n]], FilesOK(F, r), Moved(F, G, k)
    PROVE  /\ FilesOK(G, r)
           /\ k + 1 = MaxBackups \/ F[k + 1] = Absent => DropsOldest(F, G)
  <1>1. k \in Paths /\ k + 1 \in Paths /\ k \in Nat /\ MaxBackups \in Nat
    BY FileTypes DEF Paths
  <1>2. G[k + 1] = F[k] /\ G[k] = Absent /\ \A n \in Paths : n # k /\ n # k + 1 => G[n] = F[n]
    BY DEF Moved
  <1> DEFINE from(n) == IF n = k + 1 THEN k ELSE n
  <1>3. ASSUME NEW n \in Paths, n # k
        PROVE  G[n] = F[from(n)] /\ from(n) \in Paths /\ n \in Nat
    BY <1>1, <1>2, <1>3 DEF Paths
  <1>4. DOMAIN G[k].lines = {}
    BY <1>2, FileTypes
  <1>5. G \in [Paths -> File]
    <2>1. \A n \in Paths : G[n] \in File
      BY <1>2, <1>3, FileTypes DEF FilesOK
    <2>2. QED
      BY <2>1
  <1>6. ASSUME NEW n \in Paths, NEW m \in Paths,
               NEW i \in DOMAIN G[n].lines, NEW j \in DOMAIN G[m].lines,
               n > m \/ (n = m /\ i < j)
        PROVE  G[n].lines[i].record < G[m].lines[j].record
    <2>1. n # k /\ m # k
      BY <1>4
    <2>2. G[n] = F[from(n)] /\ G[m] = F[from(m)] /\ from(n) \in Paths /\ from(m) \in Paths
      BY <1>3, <2>1
    <2>3. from(n) > from(m) \/ (from(n) = from(m) /\ i < j)
      BY <1>1, <1>3, <1>6, <2>1
    <2> HIDE DEF from
    <2>4. QED
      BY <1>6, <2>2, <2>3 DEF FilesOK
  <1>7. \A n \in Paths : \A i \in DOMAIN G[n].lines : G[n].lines[i].record <= r
    <2>1. ASSUME NEW n \in Paths, NEW i \in DOMAIN G[n].lines PROVE G[n].lines[i].record <= r
      <3>1. G[n] = F[from(n)] /\ from(n) \in Paths
        BY <1>3, <1>4
      <3> HIDE DEF from
      <3>2. QED
        BY <3>1 DEF FilesOK
    <2>2. QED
      BY <2>1
  <1>8. ASSUME NEW n \in Paths
        PROVE  /\ G[n].size > MaxSize => Len(G[n].lines) = 1
               /\ G[n].size = 0 <=> G[n].lines = <<>>
    <2>1. CASE n = k
      BY <1>2, <2>1, FileTypes
    <2>2. CASE n # k
      <3>1. G[n] = F[from(n)] /\ from(n) \in Paths
        BY <1>3, <2>2
      <3> HIDE DEF from
      <3>2. QED
        BY <3>1 DEF FilesOK
    <2>3. QED
      BY <2>1, <2>2
  <1>9. ASSUME k + 1 = MaxBackups \/ F[k + 1] = Absent,
               NEW a \in RecordsOf(F) \ RecordsOf(G), NEW b \in RecordsOf(G)
        PROVE  b > a
    <2>1. PICK n \in Paths : a \in RecordsIn(F[n])
      BY <1>9 DEF RecordsOf
    <2>2. PICK m \in Paths : b \in RecordsIn(G[m])
      BY <1>9 DEF RecordsOf
    <2>3. n = k + 1
      <3>1. ASSUME n # k + 1 PROVE a \in RecordsOf(G)
        <4>1. CASE n = k
          BY <1>1, <1>2, <2>1, <4>1 DEF RecordsOf
        <4>2. CASE n # k
          BY <1>2, <2>1, <3>1, <4>2 DEF RecordsOf
        <4>3. QED
          BY <4>1, <4>2
      <3>2. QED
        BY <1>9, <3>1
    <2>4. k + 1 = MaxBackups
      <3>1. F[k + 1] # Absent
        BY <2>1, <2>3, FileTypes DEF RecordsIn
      <3>2. QED
        BY <1>9, <3>1
    <2>5. m # k
      BY <1>4, <2>2 DEF RecordsIn
    <2>6. G[m] = F[from(m)] /\ from(m) \in Paths /\ n > from(m)
      BY <1>1, <1>3, <2>3, <2>4, <2>5 DEF Paths
    <2> HIDE DEF from
    <2>7. PICK i \in DOMAIN F[n].lines : a = F[n].lines[i].record
      BY <2>1 DEF RecordsIn
    <2>8. PICK j \in DOMAIN F[from(m)].lines : b = F[from(m)].lines[j].record
      BY <2>2, <2>6 DEF RecordsIn
    <2>9. a < b
      BY <2>6, <2>7, <2>8 DEF FilesOK
    <2>10. a \in Nat /\ b \in Nat
      <3>1. F[n] \in File /\ F[from(m)] \in File
        BY <2>6 DEF FilesOK
      <3>2. a \in 1..MaxRecord
        BY <2>7, <3>1, FileIs
      <3>3. b \in 1..MaxRecord
        BY <2>8, <3>1, FileIs
      <3>4. QED
        BY <3>2, <3>3, FileTypes
    <2>11. QED
      BY <2>9, <2>10
  <1>10. QED
    BY <1>5, <1>6, <1>7, <1>8, <1>9 DEF FilesOK, DropsOldest

\* So does the oldest file when it goes, and an empty one.
LEMMA FilesCleared ==
    ASSUME NEW F, NEW r, NEW k \in Paths, NEW G, DOMAIN G = Paths,
           G = [n \in Paths |-> G[n]], FilesOK(F, r), Cleared(F, G, k)
    PROVE  /\ FilesOK(G, r)
           /\ k = MaxBackups \/ F[k].lines = <<>> => DropsOldest(F, G)
  <1>1. /\ G[k] \in File /\ G[k].lines = <<>> /\ G[k].size = 0 /\ DOMAIN G[k].lines = {}
        /\ \A n \in Paths : n # k => G[n] = F[n]
    BY FileTypes DEF Cleared
  <1>2. G \in [Paths -> File]
    <2>1. \A n \in Paths : G[n] \in File
      BY <1>1 DEF FilesOK
    <2>2. QED
      BY <2>1
  <1>3. FilesOK(G, r)
    BY <1>1, <1>2, FileTypes DEF FilesOK
  <1>4. ASSUME k = MaxBackups \/ F[k].lines = <<>>,
               NEW a \in RecordsOf(F) \ RecordsOf(G), NEW b \in RecordsOf(G)
        PROVE  b > a
    <2>1. PICK n \in Paths : a \in RecordsIn(F[n])
      BY <1>4 DEF RecordsOf
    <2>2. PICK m \in Paths : b \in RecordsIn(G[m])
      BY <1>4 DEF RecordsOf
    <2>3. n = k
      BY <1>1, <1>4, <2>1 DEF RecordsOf
    <2>4. k = MaxBackups
      BY <1>4, <2>1, <2>3, FileTypes DEF RecordsIn
    <2>5. m # k /\ G[m] = F[m]
      BY <1>1, <2>2 DEF RecordsIn
    <2>6. n > m
      BY <2>3, <2>4, <2>5, FileTypes DEF Paths
    <2>7. PICK i \in DOMAIN F[n].lines : a = F[n].lines[i].record
      BY <2>1 DEF RecordsIn
    <2>8. PICK j \in DOMAIN F[m].lines : b = F[m].lines[j].record
      BY <2>2, <2>5 DEF RecordsIn
    <2>9. a < b
      BY <2>6, <2>7, <2>8 DEF FilesOK
    <2>10. a \in Nat /\ b \in Nat
      <3>1. F[n] \in File /\ F[m] \in File
        BY DEF FilesOK
      <3>2. a \in 1..MaxRecord
        BY <2>7, <3>1, FileIs
      <3>3. b \in 1..MaxRecord
        BY <2>8, <3>1, FileIs
      <3>4. QED
        BY <3>2, <3>3, FileTypes
    <2>11. QED
      BY <2>9, <2>10
  <1>5. QED
    BY <1>3, <1>4 DEF DropsOldest

---------------------------------------------------------------------------
(* The sink *)

\* A write is in progress.
Writing == sinkPc \notin {"idle", "down"}
Rotating == sinkPc \in {"remove", "shift", "move", "open"}

\* The newest record that may have a line.
Handed == IF Writing THEN records - 1 ELSE records

\* The record in progress, and the file that it fits.
Record ==
    /\ Writing => rec.record = records /\ records > 0 /\ rec.length \in Lengths
    /\ sinkPc = "write" /\ sinkFile = "open" => size = 0 \/ size + rec.length <= MaxSize

\* The files while they are moved: each moves onto one that is gone, except onto the oldest.
Rotation ==
    /\ sinkFile = "open" => size = active.size
    /\ Rotating => sinkFile = "nil"
    /\ sinkPc \in {"remove", "shift"} => MaxBackups > 0
    /\ sinkPc = "shift" =>
         shift < MaxBackups /\ (shift + 1 < MaxBackups => backups[shift + 1] = Absent)
    /\ sinkPc = "move" /\ MaxBackups > 1 => backups[1] = Absent
    /\ sinkPc = "open" => active = Absent
    /\ sinkPc = "write" => sinkFile # "nil"

Told ==
    /\ unwritten # {} => failed
    /\ sinkPc = "idle" /\ sinkFile = "nil" => failed

SinkInv ==
    /\ SinkTypeOK /\ FilesOK(Files, Handed)
    /\ Record /\ Rotation /\ Told

\* The files by their number.
LEMMA FilesAre ==
    /\ DOMAIN Files = Paths /\ Files = [n \in Paths |-> Files[n]]
    /\ Files[0] = active /\ \A n \in 1..MaxBackups : Files[n] = backups[n]
  <1>1. 0 \in Paths /\ 1..MaxBackups \subseteq Paths /\ \A n \in 1..MaxBackups : n # 0
    BY FileTypes DEF Paths
  <1>2. QED
    BY <1>1 DEF Files, FileAt

\* The same after a step.
LEMMA FilesAreNext ==
    /\ DOMAIN Files' = Paths /\ Files' = [n \in Paths |-> Files'[n]]
    /\ Files'[0] = active' /\ \A n \in 1..MaxBackups : Files'[n] = backups'[n]
  <1>1. 0 \in Paths /\ 1..MaxBackups \subseteq Paths /\ \A n \in 1..MaxBackups : n # 0
    BY FileTypes DEF Paths
  <1>2. QED
    BY <1>1 DEF Files, FileAt

\* Records are numbered.
LEMMA HandedIs == ASSUME SinkInv PROVE Handed \in Nat /\ records \in Nat
  BY FileTypes DEF SinkInv, SinkTypeOK, Record, Handed

\* A step that does not touch the files.
LEMMA FilesStay ==
    ASSUME SinkInv, UNCHANGED <<active, backups>>, Handed' \in Nat, Handed <= Handed'
    PROVE  FilesOK(Files', Handed') /\ DropsOldest(Files, Files')
  <1>1. Files' = Files
    BY DEF Files, FileAt
  <1>2. FilesOK(Files, Handed')
    BY HandedIs, LaterRecord DEF SinkInv
  <1>3. QED
    BY <1>1, <1>2 DEF DropsOldest

\* An empty file.
LEMMA SinkInitInv == SinkInit => SinkInv
  <1> SUFFICES ASSUME SinkInit PROVE SinkInv
    OBVIOUS
  <1>1. /\ active = Empty /\ backups = [n \in 1..MaxBackups |-> Absent]
        /\ sinkFile = "open" /\ size = 0 /\ failed = FALSE /\ sinkPc = "idle" /\ shift = 0
        /\ rec = [record |-> 0, length |-> 0] /\ records = 0 /\ unwritten = {}
        /\ failures = 0 /\ crashes = 0
    BY DEF SinkInit
  <1>2. SinkTypeOK
    <2>1. active \in File /\ backups \in [1..MaxBackups -> File]
      BY <1>1, FileTypes
    <2>2. /\ shift \in 0..MaxBackups /\ records \in 0..MaxRecord /\ failures \in 0..MaxFailures
          /\ crashes \in 0..MaxCrashes /\ size \in Nat
      BY <1>1, SinkAssumption
    <2>3. rec \in [record : 0..MaxRecord, length : Lengths \cup {0}]
      <3>1. 0 \in 0..MaxRecord
        BY SinkAssumption
      <3>2. QED
        BY <1>1, <3>1
    <2>4. QED
      BY <1>1, <2>1, <2>2, <2>3 DEF SinkTypeOK
  <1>3. \A n \in Paths : Files[n] \in {Absent, Empty}
    <2>1. \A n \in Paths : n = 0 \/ n \in 1..MaxBackups
      BY FileTypes DEF Paths
    <2>2. QED
      BY <1>1, <2>1, FilesAre
  <1>4. FilesOK(Files, Handed)
    <2>1. \A n \in Paths : /\ Files[n] \in File /\ Files[n].lines = <<>> /\ Files[n].size = 0
                           /\ DOMAIN Files[n].lines = {}
      BY <1>3, FileTypes
    <2>2. Files \in [Paths -> File]
      BY <2>1, FilesAre
    <2>3. ~(0 > MaxSize)
      BY FileTypes
    <2>4. QED
      BY <2>1, <2>2, <2>3 DEF FilesOK
  <1>5. Record /\ Rotation /\ Told
    BY <1>1, FileTypes DEF Record, Rotation, Told, Writing, Rotating, Empty
  <1>6. QED
    BY <1>2, <1>4, <1>5 DEF SinkInv

\* A record arrives.
LEMMA WriteInv ==
    ASSUME SinkInv, NEW length \in Lengths, Write(length)
    PROVE  SinkInv' /\ DropsOldest(Files, Files')
  <1>1. /\ sinkPc = "idle" /\ records < MaxRecord /\ records' = records + 1
        /\ rec' = [record |-> records + 1, length |-> length]
        /\ UNCHANGED <<active, backups, sinkFile, size, failed, shift, failures, crashes>>
    BY DEF Write, disk, sink, bounds
  <1>2. /\ length \in Nat /\ records \in Nat /\ size \in Nat /\ MaxSize \in Nat /\ MaxRecord \in Nat
        /\ unwritten \subseteq 1..MaxRecord
    BY SinkAssumption DEF SinkInv, SinkTypeOK
  <1>3. \/ /\ sinkFile = "nil" /\ sinkPc' = "idle" /\ unwritten' = unwritten \cup {records + 1}
        \/ /\ sinkFile # "nil" /\ unwritten' = unwritten
           /\ \/ sinkPc' = "close"
              \/ sinkPc' = "write" /\ (size = 0 \/ size + length <= MaxSize)
    BY <1>1, <1>2 DEF Write
  <1>4. SinkTypeOK'
    <2>1. rec' \in [record : 0..MaxRecord, length : Lengths \cup {0}]
      BY <1>1, <1>2
    <2>2. unwritten' \subseteq 1..MaxRecord /\ records' \in 0..MaxRecord
      <3>1. records + 1 \in 1..MaxRecord /\ records + 1 \in 0..MaxRecord
        BY <1>1, <1>2
      <3>2. unwritten' \subseteq unwritten \cup {records + 1}
        BY <1>3
      <3>3. QED
        BY <1>1, <1>2, <3>1, <3>2
    <2>3. sinkPc' \in {"idle", "close", "remove", "shift", "move", "open", "write", "down"}
      BY <1>3
    <2>4. QED
      BY <1>1, <2>1, <2>2, <2>3 DEF SinkInv, SinkTypeOK
  <1>5. Handed = records /\ Handed' \in Nat /\ Handed <= Handed'
    BY <1>1, <1>2, <1>3 DEF Handed, Writing
  <1>6. FilesOK(Files', Handed') /\ DropsOldest(Files, Files')
    BY <1>1, <1>5, FilesStay
  <1>7. Record'
    <2>1. rec'.record = records' /\ records' > 0 /\ rec'.length = length
      BY <1>1, <1>2
    <2>2. QED
      BY <1>1, <1>3, <2>1 DEF Record
  <1>8. Rotation'
    BY <1>1, <1>3 DEF SinkInv, Rotation, Rotating
  <1>9. Told'
    BY <1>1, <1>3 DEF SinkInv, Told
  <1>10. QED
    BY <1>4, <1>6, <1>7, <1>8, <1>9 DEF SinkInv

\* A system call fails, and the files stay as they are.
LEMMA FailInv ==
    ASSUME SinkInv, Writing, Fail, UNCHANGED <<active, backups, size>>,
           sinkFile' = sinkFile \/ sinkFile' = "stale"
    PROVE  SinkInv' /\ DropsOldest(Files, Files')
  <1>1. /\ failed' = TRUE /\ sinkPc' = "idle" /\ unwritten' = unwritten \cup {rec.record}
        /\ UNCHANGED <<shift, rec, records, crashes>>
        /\ failures' = failures \/ (failures < MaxFailures /\ failures' = failures + 1)
    BY DEF Fail, SystemCallFails
  <1>2. rec.record = records /\ records \in 1..MaxRecord
    BY FileTypes DEF SinkInv, SinkTypeOK, Record
  <1>3. SinkTypeOK'
    <2>1. failures' \in 0..MaxFailures
      BY <1>1, SinkAssumption DEF SinkInv, SinkTypeOK
    <2>2. unwritten' \subseteq 1..MaxRecord
      BY <1>1, <1>2 DEF SinkInv, SinkTypeOK
    <2>3. QED
      BY <1>1, <2>1, <2>2 DEF SinkInv, SinkTypeOK
  <1>4. Handed' \in Nat /\ Handed <= Handed'
    BY <1>1, <1>2, FileTypes DEF Handed, Writing
  <1>5. FilesOK(Files', Handed') /\ DropsOldest(Files, Files')
    BY <1>4, FilesStay
  <1>6. Record' /\ Rotation' /\ Told'
    BY <1>1 DEF SinkInv, Record, Rotation, Told, Writing, Rotating
  <1>7. QED
    BY <1>3, <1>5, <1>6 DEF SinkInv

\* The active file is closed, and what comes next depends on how many files are kept.
LEMMA CloseInv == ASSUME SinkInv, CloseFile PROVE SinkInv' /\ DropsOldest(Files, Files')
  <1>1. sinkPc = "close" /\ UNCHANGED <<active, backups, size>> /\ Writing
    BY DEF CloseFile, disk, Writing
  <1>2. CASE Fail /\ sinkFile' = "stale"
    BY <1>1, <1>2, FailInv
  <1>3. CASE sinkFile' = "nil" /\ Proceed(IF MaxBackups > 0 THEN "remove" ELSE "move") /\ shift' = shift
    <2>1. /\ sinkPc' = IF MaxBackups > 0 THEN "remove" ELSE "move"
          /\ UNCHANGED <<failed, rec, records, unwritten, failures, crashes>>
      BY <1>3 DEF Proceed, bounds
    <2>2. SinkTypeOK'
      BY <1>1, <1>3, <2>1 DEF SinkInv, SinkTypeOK
    <2>3. Handed' = Handed
      BY <1>1, <2>1 DEF Handed, Writing
    <2>4. FilesOK(Files', Handed') /\ DropsOldest(Files, Files')
      BY <1>1, <2>3, FilesStay, HandedIs
    <2>5. Record' /\ Told'
      BY <1>1, <1>3, <2>1 DEF SinkInv, Record, Told, Writing
    <2>6. Rotation'
      BY <1>1, <1>3, <2>1, FileTypes DEF SinkInv, Rotation, Rotating
    <2>7. QED
      BY <2>2, <2>4, <2>5, <2>6 DEF SinkInv
  <1>4. QED
    BY <1>2, <1>3 DEF CloseFile

\* The oldest file goes, or stays when its removal fails.
LEMMA RemoveInv == ASSUME SinkInv, RemoveOldest PROVE SinkInv' /\ DropsOldest(Files, Files')
  <1>1. /\ sinkPc = "remove" /\ sinkPc' = "shift" /\ shift' = MaxBackups - 1
        /\ UNCHANGED <<active, sinkFile, size, failed, rec, records, unwritten, crashes>>
        /\ \/ backups' = [backups EXCEPT ![MaxBackups] = Absent] /\ failures' = failures
           \/ backups' = backups /\ failures < MaxFailures /\ failures' = failures + 1
    BY DEF RemoveOldest, sink
  <1>2. MaxBackups \in Nat /\ MaxBackups > 0 /\ MaxBackups \in 1..MaxBackups
    BY <1>1, FileTypes DEF SinkInv, Rotation
  <1>3. SinkTypeOK'
    <2>1. backups' \in [1..MaxBackups -> File]
      BY <1>1, FileTypes DEF SinkInv, SinkTypeOK
    <2>2. failures' \in 0..MaxFailures /\ shift' \in 0..MaxBackups
      BY <1>1, <1>2, SinkAssumption DEF SinkInv, SinkTypeOK
    <2>3. QED
      BY <1>1, <2>1, <2>2 DEF SinkInv, SinkTypeOK
  <1>4. Handed' = Handed
    BY <1>1 DEF Handed, Writing
  <1>5. FilesOK(Files', Handed') /\ DropsOldest(Files, Files')
    <2>1. CASE backups' = backups
      BY <1>1, <1>4, <2>1, FilesStay, HandedIs
    <2>2. CASE backups' = [backups EXCEPT ![MaxBackups] = Absent]
      <3>1. \A n \in 1..MaxBackups : backups'[n] = IF n = MaxBackups THEN Absent ELSE backups[n]
        BY <2>2 DEF SinkInv, SinkTypeOK
      <3>2. \A n \in Paths : n = 0 \/ n \in 1..MaxBackups
        BY <1>2 DEF Paths
      <3>3. Cleared(Files, Files', MaxBackups)
        BY <1>1, <1>2, <3>1, <3>2, FilesAre, FilesAreNext DEF Cleared
      <3>4. MaxBackups \in Paths /\ FilesOK(Files, Handed)
        BY FileTypes DEF SinkInv
      <3> HIDE DEF Files
      <3>5. QED
        BY <1>4, <3>3, <3>4, FilesAreNext, FilesCleared
    <2>3. QED
      BY <1>1, <2>1, <2>2
  <1>6. Record' /\ Told'
    BY <1>1 DEF SinkInv, Record, Told, Writing
  <1>7. Rotation'
    BY <1>1, <1>2 DEF SinkInv, Rotation, Rotating
  <1>8. QED
    BY <1>3, <1>5, <1>6, <1>7 DEF SinkInv

\* A rotated file moves up by one.
LEMMA ShiftInv == ASSUME SinkInv, Shift PROVE SinkInv' /\ DropsOldest(Files, Files')
  <1>1. /\ sinkPc = "shift" /\ UNCHANGED <<active, sinkFile, size>> /\ Writing
        /\ MaxBackups \in Nat /\ MaxBackups > 0 /\ shift \in Nat /\ shift < MaxBackups
        /\ shift + 1 < MaxBackups => backups[shift + 1] = Absent
        /\ sinkFile = "nil"
    BY FileTypes DEF Shift, sink, Writing, SinkInv, SinkTypeOK, Rotation, Rotating
  <1>2. CASE Fail /\ UNCHANGED backups
    BY <1>1, <1>2, FailInv
  <1>3. CASE shift = 0 /\ Proceed("move") /\ UNCHANGED <<shift, backups>>
    <2>1. /\ sinkPc' = "move"
          /\ UNCHANGED <<active, backups, sinkFile, size, shift, failed, rec, records, unwritten,
                         failures, crashes>>
      BY <1>1, <1>3 DEF Proceed, bounds
    <2>2. Handed' = Handed /\ SinkTypeOK'
      BY <1>1, <2>1 DEF Handed, Writing, SinkInv, SinkTypeOK
    <2>3. FilesOK(Files', Handed') /\ DropsOldest(Files, Files')
      BY <2>1, <2>2, FilesStay, HandedIs
    <2>4. Record' /\ Told'
      BY <1>1, <2>1 DEF SinkInv, Record, Told, Writing
    <2>5. Rotation'
      BY <1>1, <1>3, <2>1 DEF SinkInv, Rotation, Rotating
    <2>6. QED
      BY <2>2, <2>3, <2>4, <2>5 DEF SinkInv
  <1>4. CASE shift # 0 /\ backups[shift] = Absent /\ Proceed("shift") /\ shift' = shift - 1 /\ backups' = backups
    <2>1. /\ sinkPc' = "shift" /\ shift' = shift - 1
          /\ UNCHANGED <<active, backups, sinkFile, size, failed, rec, records, unwritten,
                         failures, crashes>>
      BY <1>1, <1>4 DEF Proceed, bounds
    <2>2. shift' \in 0..MaxBackups /\ shift' + 1 = shift /\ shift' < MaxBackups
      BY <1>1, <1>4, <2>1
    <2>3. Handed' = Handed /\ SinkTypeOK'
      BY <1>1, <2>1, <2>2 DEF Handed, Writing, SinkInv, SinkTypeOK
    <2>4. FilesOK(Files', Handed') /\ DropsOldest(Files, Files')
      BY <2>1, <2>3, FilesStay, HandedIs
    <2>5. Record' /\ Told'
      BY <1>1, <2>1 DEF SinkInv, Record, Told, Writing
    <2>6. Rotation'
      BY <1>1, <1>4, <2>1, <2>2 DEF SinkInv, Rotation, Rotating
    <2>7. QED
      BY <2>3, <2>4, <2>5, <2>6 DEF SinkInv
  <1>5. CASE /\ shift # 0 /\ Proceed("shift") /\ shift' = shift - 1
             /\ backups' = [backups EXCEPT ![shift + 1] = backups[shift], ![shift] = Absent]
    <2>1. /\ sinkPc' = "shift" /\ shift' = shift - 1
          /\ UNCHANGED <<active, sinkFile, size, failed, rec, records, unwritten,
                         failures, crashes>>
      BY <1>1, <1>5 DEF Proceed, bounds
    <2>2. /\ shift' \in 0..MaxBackups /\ shift' + 1 = shift /\ shift' < MaxBackups
          /\ shift \in 1..MaxBackups /\ shift + 1 \in 1..MaxBackups /\ shift # shift + 1
      BY <1>1, <1>5, <2>1
    <2>3. backups \in [1..MaxBackups -> File]
      BY DEF SinkInv, SinkTypeOK
    <2>4. /\ backups' \in [1..MaxBackups -> File]
          /\ \A n \in 1..MaxBackups :
                backups'[n] = IF n = shift THEN Absent ELSE IF n = shift + 1 THEN backups[shift]
                                                          ELSE backups[n]
      BY <1>5, <2>2, <2>3, FileTypes
    <2>5. Handed' = Handed /\ SinkTypeOK'
      BY <1>1, <2>1, <2>2, <2>4 DEF Handed, Writing, SinkInv, SinkTypeOK
    <2>6. FilesOK(Files', Handed') /\ DropsOldest(Files, Files')
      <3>1. \A n \in Paths : n = 0 \/ n \in 1..MaxBackups
        BY <1>1 DEF Paths
      <3>2. Moved(Files, Files', shift)
        <4>1. Files'[shift + 1] = Files[shift] /\ Files'[shift] = Absent
          BY <2>2, <2>4, FilesAre, FilesAreNext
        <4>2. ASSUME NEW n \in Paths, n # shift, n # shift + 1 PROVE Files'[n] = Files[n]
          <5>1. CASE n = 0
            BY <2>1, <5>1, FilesAre, FilesAreNext
          <5>2. CASE n \in 1..MaxBackups
            BY <2>4, <4>2, <5>2, FilesAre, FilesAreNext
          <5>3. QED
            BY <3>1, <5>1, <5>2
        <4>3. QED
          BY <4>1, <4>2 DEF Moved
      <3>3. shift + 1 = MaxBackups \/ Files[shift + 1] = Absent
        BY <1>1, <2>2, FilesAre
      <3>4. FilesOK(Files, Handed) /\ shift \in 0..MaxBackups - 1
        BY <1>1 DEF SinkInv
      <3>5. QED
        BY <2>5, <3>2, <3>3, <3>4, FilesAreNext, FilesMoved
    <2>7. Record' /\ Told'
      BY <1>1, <2>1 DEF SinkInv, Record, Told, Writing
    <2>8. Rotation'
      BY <1>1, <2>1, <2>2, <2>4 DEF SinkInv, Rotation, Rotating
    <2>9. QED
      BY <2>5, <2>6, <2>7, <2>8 DEF SinkInv
  <1>6. QED
    BY <1>2, <1>3, <1>4, <1>5 DEF Shift

\* The active file becomes the first rotated one.
LEMMA MoveInv == ASSUME SinkInv, MoveActive PROVE SinkInv' /\ DropsOldest(Files, Files')
  <1>1. /\ sinkPc = "move" /\ UNCHANGED <<sinkFile, size>> /\ Writing /\ sinkFile = "nil"
        /\ MaxBackups \in Nat /\ (MaxBackups > 1 => backups[1] = Absent)
        /\ active \in File /\ backups \in [1..MaxBackups -> File]
    BY FileTypes DEF MoveActive, sink, Writing, SinkInv, SinkTypeOK, Rotation, Rotating
  <1>2. CASE Fail /\ UNCHANGED disk
    BY <1>1, <1>2, FailInv DEF disk
  <1>3. CASE /\ active' = Absent /\ Proceed("open") /\ UNCHANGED shift
             /\ backups' = IF MaxBackups = 0 \/ active = Absent THEN backups
                           ELSE [backups EXCEPT ![1] = active]
    <2>1. /\ sinkPc' = "open"
          /\ UNCHANGED <<sinkFile, size, shift, failed, rec, records, unwritten,
                         failures, crashes>>
      BY <1>1, <1>3 DEF Proceed, bounds
    <2>2. backups' \in [1..MaxBackups -> File]
      BY <1>1, <1>3
    <2>3. Handed' = Handed /\ SinkTypeOK'
      BY <1>1, <1>3, <2>1, <2>2, FileTypes DEF Handed, Writing, SinkInv, SinkTypeOK
    <2>4. \A n \in Paths : n = 0 \/ n \in 1..MaxBackups
      BY <1>1 DEF Paths
    <2>5. FilesOK(Files, Handed)
      BY DEF SinkInv
    <2>6. FilesOK(Files', Handed') /\ DropsOldest(Files, Files')
      <3>1. CASE MaxBackups = 0 \/ active = Absent
        <4>1. 0 = MaxBackups \/ Files[0].lines = <<>>
          BY <3>1, FilesAre, FileTypes
        <4>2. Cleared(Files, Files', 0)
          BY <1>3, <2>4, <3>1, FilesAre, FilesAreNext DEF Cleared
        <4>3. QED
          BY <2>3, <2>5, <4>1, <4>2, FilesAreNext, FilesCleared, FileTypes
      <3>2. CASE ~(MaxBackups = 0 \/ active = Absent)
        <4>1. 1 \in 1..MaxBackups /\ 0 \in 0..MaxBackups - 1
          BY <1>1, <3>2
        <4>2. \A n \in 1..MaxBackups : backups'[n] = IF n = 1 THEN active ELSE backups[n]
          BY <1>1, <1>3, <3>2
        <4>3. Moved(Files, Files', 0)
          BY <1>3, <2>4, <4>1, <4>2, FilesAre, FilesAreNext DEF Moved
        <4>4. 0 + 1 = MaxBackups \/ Files[0 + 1] = Absent
          BY <1>1, <4>1, FilesAre
        <4>5. QED
          BY <2>3, <2>5, <4>1, <4>3, <4>4, FilesAreNext, FilesMoved
      <3>3. QED
        BY <3>1, <3>2
    <2>7. Record' /\ Told'
      BY <1>1, <2>1 DEF SinkInv, Record, Told, Writing
    <2>8. Rotation'
      BY <1>1, <1>3, <2>1 DEF SinkInv, Rotation, Rotating
    <2>9. QED
      BY <2>3, <2>6, <2>7, <2>8 DEF SinkInv
  <1>4. QED
    BY <1>2, <1>3 DEF MoveActive

\* A new file takes the place of one that is gone, or an old one is used again.
LEMMA OpenInv == ASSUME SinkInv, OpenNew PROVE SinkInv' /\ DropsOldest(Files, Files')
  <1>1. sinkPc = "open" /\ UNCHANGED backups /\ Writing /\ active = Absent
    BY DEF OpenNew, Writing, SinkInv, Rotation
  <1>2. CASE Fail /\ UNCHANGED <<active, sink>>
    BY <1>1, <1>2, FailInv DEF sink
  <1>3. CASE active' = Empty /\ sinkFile' = "open" /\ size' = 0 /\ Proceed("write") /\ UNCHANGED shift
    <2>1. /\ sinkPc' = "write"
          /\ UNCHANGED <<shift, failed, rec, records, unwritten, failures, crashes>>
      BY <1>3 DEF Proceed, bounds
    <2>2. Handed' = Handed /\ SinkTypeOK'
      BY <1>1, <1>3, <2>1, FileTypes DEF Handed, Writing, SinkInv, SinkTypeOK
    <2>3. FilesOK(Files', Handed') /\ DropsOldest(Files, Files')
      <3>1. \A n \in Paths : n = 0 \/ n \in 1..MaxBackups
        BY FileTypes DEF Paths
      <3>2. Cleared(Files, Files', 0) /\ Files[0].lines = <<>>
        BY <1>1, <1>3, <3>1, FilesAre, FilesAreNext, FileTypes DEF Cleared
      <3>3. FilesOK(Files, Handed)
        BY DEF SinkInv
      <3>4. QED
        BY <2>2, <3>2, <3>3, FilesAreNext, FilesCleared, FileTypes
    <2>4. Record' /\ Told'
      BY <1>1, <1>3, <2>1 DEF SinkInv, Record, Told, Writing
    <2>5. Rotation'
      BY <1>3, <2>1, FileTypes DEF SinkInv, Rotation, Rotating
    <2>6. QED
      BY <2>2, <2>3, <2>4, <2>5 DEF SinkInv
  <1>4. QED
    BY <1>2, <1>3 DEF OpenNew

\* A line at the end of the active file, whole or torn.
LEMMA LineAdded ==
    ASSUME SinkInv, sinkPc = "write", sinkFile = "open", NEW n \in 1..rec.length,
           NEW whole \in BOOLEAN, active' = WithLine(n, whole), backups' = backups
    PROVE  /\ active' \in File /\ active'.size = active.size + n
           /\ FilesOK(Files', records) /\ DropsOldest(Files, Files')
  <1> DEFINE line == [record |-> rec.record, length |-> n, whole |-> whole]
             old == active.lines
             new == Append(old, line)
  <1>1. /\ rec.record = records /\ records \in 1..MaxRecord /\ rec.length \in Nat /\ n \in Nat
        /\ n > 0 /\ n <= rec.length /\ active \in File /\ MaxSize \in Nat
        /\ size = active.size
        /\ size = 0 \/ size + rec.length <= MaxSize
    <2>1. /\ rec.record = records /\ records > 0 /\ rec.length \in Lengths /\ size = active.size
          /\ size = 0 \/ size + rec.length <= MaxSize
      BY DEF SinkInv, Record, Rotation, Writing
    <2>2. records \in 0..MaxRecord /\ active \in File
      BY DEF SinkInv, SinkTypeOK
    <2>3. records \in 1..MaxRecord /\ rec.length \in Nat /\ MaxSize \in Nat
      <3>1. records \in 1..MaxRecord
        BY <2>1, <2>2, FileTypes
      <3>2. rec.length \in Nat \ {0}
        BY <2>1, SinkAssumption
      <3>3. QED
        BY <3>1, <3>2, FileTypes
    <2>4. n \in Nat /\ n > 0 /\ n <= rec.length
      BY <2>3
    <2>5. QED
      BY <2>1, <2>2, <2>3, <2>4
  <1>2. /\ old \in Seq(Line) /\ active.size \in Nat /\ Len(old) \in Nat
        /\ DOMAIN old = 1..Len(old)
    BY <1>1, FileIs
  <1>3. line \in Line
    BY <1>1 DEF Line
  <1>4. active' = [exists |-> active.exists, lines |-> new, size |-> active.size + n]
    <2>1. active = [exists |-> active.exists, lines |-> active.lines, size |-> active.size]
      BY <1>1 DEF File
    <2>2. QED
      BY <2>1 DEF WithLine
  <1>5. line.record = records
    BY <1>1
  <1> HIDE DEF line
  <1>6. /\ new \in Seq(Line) /\ Len(new) = Len(old) + 1 /\ DOMAIN new = 1..(Len(old) + 1)
        /\ \A i \in 1..Len(old) : new[i] = old[i]
        /\ new[Len(old) + 1] = line
    BY <1>2, <1>3, AppendProperties, LenProperties
  <1>7. active'.lines = new /\ active'.size = active.size + n /\ active' \in File
    BY <1>1, <1>2, <1>4, <1>6 DEF File
  <1> HIDE DEF old, new
  <1>8. /\ Files'[0] = active' /\ Files[0] = active
        /\ \A m \in Paths : m # 0 => Files'[m] = Files[m]
    <2>1. \A m \in Paths : m = 0 \/ m \in 1..MaxBackups
      BY FileTypes DEF Paths
    <2>2. QED
      BY <2>1, FilesAre, FilesAreNext
  <1>9. FilesOK(Files, records - 1)
    BY DEF SinkInv, Handed, Writing
  <1> DEFINE F == Files
             G == Files'
  <1>10. G \in [Paths -> File]
    <2>1. \A m \in Paths : G[m] \in File
      BY <1>7, <1>8, <1>9 DEF FilesOK
    <2>2. QED
      BY <2>1, FilesAreNext
  <1>11. /\ F[0].lines = old /\ G[0].lines = new /\ F[0].size = active.size
         /\ G[0].size = active.size + n
    BY <1>7, <1>8 DEF old
  <1>12. \A m \in Paths : m # 0 => G[m] = F[m]
    BY <1>8
  <1>13. FilesOK(F, records - 1)
    BY <1>9
  <1>14. DOMAIN G = Paths /\ 0 \in Paths /\ \A m \in Paths : m \in Nat
    BY FilesAreNext, FileTypes DEF Paths
  <1> HIDE DEF F, G
  \* A line of some file now is a line of before, or the new one.
  <1>15. ASSUME NEW m \in Paths, NEW i \in DOMAIN G[m].lines
         PROVE  \/ i \in DOMAIN F[m].lines /\ G[m].lines[i] = F[m].lines[i]
                \/ m = 0 /\ i = Len(old) + 1 /\ G[m].lines[i].record = records
    <2>1. CASE m # 0
      BY <1>12, <2>1
    <2>2. CASE m = 0
      <3>1. i \in 1..Len(old) \/ i = Len(old) + 1
        BY <1>2, <1>6, <1>11, <1>15, <2>2
      <3>2. QED
        BY <1>2, <1>5, <1>6, <1>11, <2>2, <3>1
    <2>3. QED
      BY <2>1, <2>2
  <1>16. ASSUME NEW m \in Paths, NEW i \in DOMAIN F[m].lines
         PROVE  F[m].lines[i].record < records /\ F[m].lines[i].record \in Nat
    <2>1. F[m] \in File /\ F[m].lines[i].record <= records - 1
      BY <1>13 DEF FilesOK
    <2>2. F[m].lines[i].record \in 1..MaxRecord
      BY <2>1, FileIs
    <2>3. QED
      BY <1>1, <2>1, <2>2
  <1>17. ASSUME NEW m \in Paths, NEW k \in Paths,
                NEW i \in DOMAIN G[m].lines, NEW j \in DOMAIN G[k].lines,
                m > k \/ (m = k /\ i < j)
         PROVE  G[m].lines[i].record < G[k].lines[j].record
    <2>1. CASE j \in DOMAIN F[k].lines /\ G[k].lines[j] = F[k].lines[j]
      <3>1. i \in DOMAIN F[m].lines /\ G[m].lines[i] = F[m].lines[i]
        <4>1. ~(m = 0 /\ i = Len(old) + 1)
          <5>1. SUFFICES ASSUME m = 0, i = Len(old) + 1 PROVE FALSE
            OBVIOUS
          <5>2. k = 0 /\ i < j
            BY <1>14, <1>17, <5>1
          <5>3. j \in 1..Len(old)
            BY <1>2, <1>11, <2>1, <5>2
          <5>4. QED
            BY <1>2, <5>1, <5>2, <5>3
        <4>2. QED
          BY <1>15, <4>1
      <3>2. QED
        BY <1>13, <1>17, <2>1, <3>1 DEF FilesOK
    <2>2. CASE k = 0 /\ j = Len(old) + 1 /\ G[k].lines[j].record = records
      <3>1. i \in DOMAIN F[m].lines /\ G[m].lines[i] = F[m].lines[i]
        <4>1. ~(m = 0 /\ i = Len(old) + 1)
          BY <1>2, <1>17, <2>2
        <4>2. QED
          BY <1>15, <4>1
      <3>2. QED
        BY <1>16, <2>2, <3>1
    <2>3. QED
      BY <1>15, <2>1, <2>2
  <1>18. ASSUME NEW m \in Paths, NEW i \in DOMAIN G[m].lines
         PROVE  G[m].lines[i].record <= records
    BY <1>1, <1>15, <1>16
  <1>19. ASSUME NEW m \in Paths
         PROVE  /\ G[m].size > MaxSize => Len(G[m].lines) = 1
                /\ G[m].size = 0 <=> G[m].lines = <<>>
    <2>1. CASE m # 0
      BY <1>12, <1>13, <2>1 DEF FilesOK
    <2>2. CASE m = 0
      <3>1. new # <<>> /\ active.size + n # 0
        BY <1>1, <1>2, <1>6, EmptySeq
      <3>2. active.size + n > MaxSize => Len(new) = 1
        <4>1. SUFFICES ASSUME active.size + n > MaxSize PROVE Len(new) = 1
          OBVIOUS
        <4>2. active.size = 0
          BY <1>1, <1>2, <4>1
        <4>3. old = <<>>
          BY <1>11, <1>13, <1>14, <4>2 DEF FilesOK
        <4>4. QED
          BY <1>6, <4>3, EmptySeq
      <3>3. QED
        BY <1>11, <2>2, <3>1, <3>2
    <2>3. QED
      BY <2>1, <2>2
  <1>20. FilesOK(G, records)
    BY <1>10, <1>17, <1>18, <1>19 DEF FilesOK
  <1>21. DropsOldest(F, G)
    <2>1. \A m \in Paths : RecordsIn(F[m]) \subseteq RecordsIn(G[m])
      <3>1. ASSUME NEW m \in Paths PROVE RecordsIn(F[m]) \subseteq RecordsIn(G[m])
        <4>1. CASE m # 0
          BY <1>12, <4>1
        <4>2. CASE m = 0
          <5>1. \A i \in DOMAIN old : i \in DOMAIN new /\ new[i] = old[i]
            BY <1>2, <1>6
          <5>2. QED
            BY <1>11, <4>2, <5>1 DEF RecordsIn
        <4>3. QED
          BY <4>1, <4>2
      <3>2. QED
        BY <3>1
    <2>2. RecordsOf(F) \subseteq RecordsOf(G)
      BY <2>1 DEF RecordsOf
    <2>3. QED
      BY <2>2 DEF DropsOldest
  <1>22. QED
    BY <1>7, <1>20, <1>21 DEF F, G

\* The line is written, whole or in part.
LEMMA AppendInv == ASSUME SinkInv, AppendLine PROVE SinkInv' /\ DropsOldest(Files, Files')
  <1>1. /\ sinkPc = "write" /\ UNCHANGED <<backups, sinkFile>> /\ Writing
        /\ rec.record = records /\ records \in 1..MaxRecord /\ size \in Nat
        /\ rec.length \in Nat \ {0}
    <2>1. sinkPc = "write" /\ UNCHANGED <<backups, sinkFile>> /\ Writing
      BY DEF AppendLine, Writing
    <2>2. rec.record = records /\ records > 0 /\ rec.length \in Lengths
      BY <2>1 DEF SinkInv, Record
    <2>3. records \in 0..MaxRecord /\ size \in Nat
      BY DEF SinkInv, SinkTypeOK
    <2>4. records \in 1..MaxRecord /\ rec.length \in Nat \ {0}
      <3>1. records \in 1..MaxRecord
        BY <2>2, <2>3, FileTypes
      <3>2. rec.length \in Nat \ {0}
        BY <2>2, SinkAssumption
      <3>3. QED
        BY <3>1, <3>2
    <2>5. QED
      BY <2>1, <2>2, <2>3, <2>4
  <1>2. CASE sinkFile = "open" /\ active' = WithLine(rec.length, TRUE) /\ size' = size + rec.length
             /\ Proceed("idle") /\ UNCHANGED shift
    <2>1. /\ sinkPc' = "idle"
          /\ UNCHANGED <<shift, failed, rec, records, unwritten, failures, crashes>>
      BY <1>2 DEF Proceed, bounds
    <2>2. /\ active' \in File /\ active'.size = active.size + rec.length
          /\ FilesOK(Files', records) /\ DropsOldest(Files, Files')
      <3>1. rec.length \in 1..rec.length
        BY <1>1
      <3>2. QED
        BY <1>1, <1>2, <3>1, LineAdded
    <2>3. Handed' = records
      BY <2>1 DEF Handed, Writing
    <2>4. SinkTypeOK'
      <3>1. size' \in Nat
        BY <1>1, <1>2
      <3>2. QED
        BY <1>1, <2>1, <2>2, <3>1 DEF SinkInv, SinkTypeOK
    <2>5. Record' /\ Rotation' /\ Told'
      BY <1>1, <1>2, <2>1, <2>2 DEF SinkInv, Record, Rotation, Told, Writing, Rotating
    <2>6. QED
      BY <2>2, <2>3, <2>4, <2>5 DEF SinkInv
  <1>3. CASE Fail /\ \E n \in 0..rec.length - 1 :
               /\ size' = size + n
               /\ active' = IF n = 0 THEN active ELSE WithLine(n, FALSE)
               /\ sinkFile = "stale" => n = 0
    <2>1. PICK n \in 0..rec.length - 1 :
               /\ size' = size + n
               /\ active' = IF n = 0 THEN active ELSE WithLine(n, FALSE)
               /\ sinkFile = "stale" => n = 0
      BY <1>3
    <2>2. CASE n = 0
      <3>1. size' = size /\ active' = active
        BY <1>1, <2>1, <2>2
      <3>2. QED
        BY <1>1, <1>3, <3>1, FailInv
    <2>3. CASE n # 0
      <3>1. n \in 1..rec.length /\ n \in Nat
        BY <1>1, <2>3
      <3>2. sinkFile = "open"
        <4>1. sinkFile # "nil"
          BY <1>1 DEF SinkInv, Rotation
        <4>2. QED
          BY <2>1, <2>3, <4>1 DEF SinkInv, SinkTypeOK
      <3>3. /\ active' \in File /\ active'.size = active.size + n
            /\ FilesOK(Files', records) /\ DropsOldest(Files, Files')
        BY <1>1, <2>1, <2>3, <3>1, <3>2, LineAdded
      <3>4. /\ failed' = TRUE /\ sinkPc' = "idle" /\ unwritten' = unwritten \cup {rec.record}
            /\ UNCHANGED <<shift, rec, records, crashes>>
            /\ failures < MaxFailures /\ failures' = failures + 1
        BY <1>3, <3>2 DEF Fail, SystemCallFails
      <3>5. Handed' = records
        BY <3>4 DEF Handed, Writing
      <3>6. SinkTypeOK'
        <4>1. failures' \in 0..MaxFailures
          BY <3>4, SinkAssumption DEF SinkInv, SinkTypeOK
        <4>2. size' \in Nat /\ unwritten' \subseteq 1..MaxRecord
          BY <1>1, <2>1, <3>1, <3>4 DEF SinkInv, SinkTypeOK
        <4>3. QED
          BY <1>1, <3>3, <3>4, <4>1, <4>2 DEF SinkInv, SinkTypeOK
      <3>7. Record' /\ Rotation' /\ Told'
        BY <1>1, <2>1, <3>2, <3>3, <3>4 DEF SinkInv, Record, Rotation, Told, Writing, Rotating
      <3>8. QED
        BY <3>3, <3>5, <3>6, <3>7 DEF SinkInv
    <2>4. QED
      BY <2>2, <2>3
  <1>4. QED
    BY <1>2, <1>3 DEF AppendLine

\* A crash leaves the files as they are.
LEMMA CrashInv == ASSUME SinkInv, Crash PROVE SinkInv' /\ DropsOldest(Files, Files')
  <1>1. /\ crashes < MaxCrashes /\ crashes' = crashes + 1 /\ sinkPc' = "down"
        /\ UNCHANGED <<active, backups, sinkFile, size, failed, shift, rec, records, unwritten,
                       failures>>
    BY DEF Crash, disk, sink
  <1>2. SinkTypeOK'
    <2>1. crashes' \in 0..MaxCrashes
      BY <1>1, SinkAssumption DEF SinkInv, SinkTypeOK
    <2>2. QED
      BY <1>1, <2>1 DEF SinkInv, SinkTypeOK
  <1>3. Handed' \in Nat /\ Handed <= Handed'
    BY <1>1, HandedIs DEF Handed, Writing
  <1>4. FilesOK(Files', Handed') /\ DropsOldest(Files, Files')
    BY <1>1, <1>3, FilesStay
  <1>5. Record' /\ Rotation' /\ Told'
    BY <1>1 DEF SinkInv, Record, Rotation, Told, Writing, Rotating
  <1>6. QED
    BY <1>2, <1>4, <1>5 DEF SinkInv

\* An existing file keeps its lines.
LEMMA ReopenInv == ASSUME SinkInv, Reopen PROVE SinkInv' /\ DropsOldest(Files, Files')
  <1>1. /\ sinkPc = "down" /\ sinkPc' = "idle" /\ active' = [active EXCEPT !.exists = TRUE]
        /\ size' = active.size /\ sinkFile' = "open" /\ failed' = FALSE /\ unwritten' = {}
        /\ UNCHANGED <<backups, shift, rec, records, failures, crashes>>
    BY DEF Reopen, bounds
  <1>2. /\ active \in File /\ active' \in File /\ active'.lines = active.lines
        /\ active'.size = active.size /\ active.size \in Nat
    BY <1>1 DEF SinkInv, SinkTypeOK, File
  <1>3. SinkTypeOK'
    BY <1>1, <1>2 DEF SinkInv, SinkTypeOK
  <1>4. Handed' = Handed
    BY <1>1 DEF Handed, Writing
  <1>5. \A n \in Paths : /\ Files'[n].lines = Files[n].lines /\ Files'[n].size = Files[n].size
                         /\ Files'[n] \in File
    <2>1. \A n \in Paths : n = 0 \/ n \in 1..MaxBackups
      BY FileTypes DEF Paths
    <2>2. FilesOK(Files, Handed)
      BY DEF SinkInv
    <2>3. \A n \in Paths : Files[n] \in File
      BY <2>2 DEF FilesOK
    <2>4. QED
      BY <1>1, <1>2, <2>1, <2>3, FilesAre, FilesAreNext
  <1> DEFINE F == Files
             G == Files'
  <1>6. FilesOK(F, Handed) /\ G = [n \in Paths |-> G[n]]
    BY FilesAreNext DEF SinkInv
  <1>7. \A n \in Paths : G[n].lines = F[n].lines /\ G[n].size = F[n].size /\ G[n] \in File
    BY <1>5
  <1> HIDE DEF F, G
  <1>8. FilesOK(G, Handed)
    <2>1. G \in [Paths -> File]
      BY <1>6, <1>7
    <2>2. QED
      BY <1>6, <1>7, <2>1 DEF FilesOK
  <1>9. DropsOldest(F, G)
    BY <1>7 DEF DropsOldest, RecordsOf, RecordsIn
  <1>10. Record' /\ Rotation' /\ Told'
    BY <1>1, <1>2 DEF SinkInv, Record, Rotation, Told, Writing, Rotating
  <1>11. QED
    BY <1>3, <1>4, <1>8, <1>9, <1>10 DEF SinkInv, F, G

\* A step of others.
LEMMA SinkStays == ASSUME SinkInv, UNCHANGED sinkVars PROVE SinkInv' /\ DropsOldest(Files, Files')
  <1>1. UNCHANGED <<active, backups, sinkFile, size, failed, sinkPc, shift, rec, records, unwritten,
                    failures, crashes>>
    BY DEF sinkVars, disk, sink, writeVars, bounds
  <1>2. SinkTypeOK' /\ Record' /\ Rotation' /\ Told' /\ Handed' = Handed
    BY <1>1 DEF SinkInv, SinkTypeOK, Record, Rotation, Told, Writing, Rotating, Handed
  <1>3. FilesOK(Files', Handed') /\ DropsOldest(Files, Files')
    BY <1>1, <1>2, HandedIs, FilesStay
  <1>4. QED
    BY <1>2, <1>3 DEF SinkInv

\* Every step.
LEMMA SinkStep ==
    ASSUME SinkInv, [SinkNext]_sinkVars PROVE SinkInv' /\ DropsOldest(Files, Files')
  BY WriteInv, CloseInv, RemoveInv, ShiftInv, MoveInv, OpenInv, AppendInv, CrashInv, ReopenInv,
     SinkStays DEF SinkNext

\* Through every rotation, failure and restart the rotated files are in the order of their
\* records and within their size, and moving them up never meets a file that is still wanted.
THEOREM SinkInvariant == SinkSpec => []SinkInv
  <1>1. SinkInv /\ [SinkNext]_sinkVars => SinkInv'
    BY SinkStep
  <1>2. QED
    BY <1>1, SinkInitInv, PTL DEF SinkSpec

\* The log on disk is in order, no file exceeds its size but one of a single record, and
\* nothing is missing unless an error was told (file.go:17-23, 103-126, 159-172).
THEOREM FilesAreSoundAlways == SinkSpec => []FilesAreSound
  <1>1. SinkInv => FilesAreSound
    <2>1. SUFFICES ASSUME SinkInv PROVE FilesAreSound
      OBVIOUS
    <2>2. FilesOK(Files, Handed) /\ SinkTypeOK /\ Rotation /\ Told
      BY <2>1 DEF SinkInv
    <2>3. \A n \in Paths : Files[n] = FileAt(n)
      BY DEF Files
    <2>4. FilesInOrder
      BY <2>2, <2>3 DEF FilesOK, FilesInOrder, Paths
    <2>5. SizeBounded
      BY <2>2, <2>3 DEF FilesOK, SizeBounded, Paths, Rotation
    <2>6. NoSilentLoss
      BY <2>2 DEF Told, NoSilentLoss
    <2>7. QED
      BY <2>4, <2>5, <2>6 DEF FilesAreSound
  <1>2. QED
    BY <1>1, SinkInvariant, PTL

\* No step of a rotation, of a failure or of a restart drops a record while it keeps an
\* older one (file.go:159-176).
THEOREM OldestGoFirstAlways == SinkSpec => OldestGoFirst
  <1>1. SinkInv /\ [SinkNext]_sinkVars
        => [\A r \in OnDisk \ OnDisk' : \A s \in OnDisk' : s > r]_sinkVars
    <2>1. SUFFICES ASSUME SinkInv, [SinkNext]_sinkVars
                   PROVE  \A r \in OnDisk \ OnDisk' : \A s \in OnDisk' : s > r
      OBVIOUS
    <2>2. OnDisk = RecordsOf(Files) /\ OnDisk' = RecordsOf(Files')
      BY DEF OnDisk, RecordsOf, Files, Paths
    <2>3. DropsOldest(Files, Files')
      BY <2>1, SinkStep
    <2>4. QED
      BY <2>2, <2>3 DEF DropsOldest
  <1>2. QED
    BY <1>1, SinkInvariant, PTL DEF SinkSpec, OldestGoFirst
=============================================================================
