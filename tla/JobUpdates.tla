----------------------------- MODULE JobUpdates -----------------------------
(***************************************************************************)
(* The way of a job's updates to the browsers: the throttle (JobCoalescer) *)
(* sends to the hub (WSHub), and the handler of a new connection reads the *)
(* job from the manager behind the throttle's back                         *)
(* (src/internal/server/server.go, coalesce.go and websocket.go).          *)
(***************************************************************************)
EXTENDS JobCoalescer, Sequences, SequencesExt

CONSTANTS
    Clients,       \* connections
    BroadcastCap,  \* capacity of the broadcast channel (256)
    SendCap        \* capacity of a client's send channel (256)

ASSUME UpdatesAssumption == BroadcastCap \in Nat \ {0} /\ SendCap \in Nat \ {0}

VARIABLES
    broadcast, clients, handler, listed, send, closedChan, closed, conn,
    reader, writer, shown, dropped

Hub == INSTANCE WSHub

hubVars == <<broadcast, clients, handler, listed, send, closedChan, closed, conn,
             reader, writer, shown, dropped>>
allVars == <<vars, hubVars>>

UpdatesTypeOK == TypeOK /\ Hub!TypeOK

UpdatesInit == Init /\ Hub!Init

\* The manager, the publishers and the timers do not wait for the hub.
Throttle(A) == A /\ UNCHANGED hubVars

\* BroadcastJob: what the throttle sends is put into the hub's channel.
Publish(s) == Send(s) /\ Hub!Broadcast(sending[s])

HubStep(A) == A /\ UNCHANGED vars

UpdatesNext ==
    \/ \E p \in Publishers : Throttle(Update(p)) \/ Throttle(Schedule(p))
    \/ \E t \in Timers : Throttle(Fire(t)) \/ Throttle(Flush(t))
    \/ \E s \in Senders : Publish(s)
    \/ Throttle(Tick)
    \/ HubStep(Hub!Deliver)
    \/ \E c \in Clients : HubStep(Hub!Step(c))

\* Every goroutine that can go on does, timers fire and time passes; select takes
\* each of its ready cases again and again.  Nobody has to change the job, to
\* connect or to disconnect.
UpdatesFairness ==
    /\ \A p \in Publishers : WF_allVars(Throttle(Schedule(p)))
    /\ \A t \in Timers : /\ WF_allVars(Throttle(Fire(t)))
                         /\ WF_allVars(Throttle(Flush(t)))
    /\ \A s \in Senders : WF_allVars(Publish(s))
    /\ WF_allVars(Throttle(Tick))
    /\ WF_allVars(HubStep(Hub!Deliver))
    /\ \A c \in Clients :
        /\ SF_allVars(HubStep(Hub!Register(c)))
        /\ SF_allVars(HubStep(Hub!Unregister(c)))
        /\ WF_allVars(HubStep(Hub!StartPumps(c) \/ Hub!ListJobs(c) \/ Hub!SendInit(c)))
        /\ WF_allVars(HubStep(Hub!Writer(c)))
        /\ WF_allVars(HubStep(Hub!ReaderEnds(c)))

UpdatesSpec == UpdatesInit /\ [][UpdatesNext]_allVars
FairUpdatesSpec == UpdatesSpec /\ UpdatesFairness
-----------------------------------------------------------------------------
\* The hub never touches a closed channel, and everything keeps its type.
HubUsesOpenChannels == UpdatesTypeOK /\ Hub!HubUsesOpenChannels

\* The hub and the handlers never meet a closed channel they could know of: the hub
\* sends to and closes open ones only, and a departure cannot make the handler of the
\* client panic (see WSHub).
ChannelsAreOpen == [][HubUsesOpenChannels' /\ Hub!PanicStep]_allVars

Stays(c) == <>[](c \in conn /\ handler[c] = "done")

\* The last state of the job reaches a browser that stays connected, through the
\* throttle, the hub and its queues, whatever happens while it registers: the last
\* version is sent, and unless the broadcast channel was full the browser ends with
\* the version that was sent last, or with that of an init message that came after
\* it.  Nobody is skipped: who cannot be served is disconnected and connects again
\* (coalesce.go:84-110, websocket.go:106-117, 188-219).
UpdatesArrive ==
    \A c \in Clients :
        Stays(c) => <>[](/\ version # None => version \in sent
                         /\ dropped = {} => shown[c] \in {lastSent, listed[c]})
=============================================================================
