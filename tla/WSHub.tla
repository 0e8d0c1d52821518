-------------------------------- MODULE WSHub --------------------------------
(***************************************************************************)
(* The WebSocket hub, its clients and their pumps                          *)
(* (src/internal/server/websocket.go).                                     *)
(*                                                                         *)
(* The hub's loop is one goroutine that takes a registration, a departure  *)
(* or a broadcast at a time and never blocks: a queue that is full costs   *)
(* the message (Broadcast) or the client (the hub).  Each client has a     *)
(* handler goroutine, which registers it, starts its two pumps and sends   *)
(* it the initial state; the pumps end when the connection does.           *)
(*                                                                         *)
(* What is sent is the version of a job: update messages carry the version *)
(* that was published, the init message the version that ListJobs found in *)
(* the job manager, and a browser shows the version it received last.      *)
(* JobUpdates composes the hub with those that publish.                    *)
(***************************************************************************)
EXTENDS Naturals, Sequences, SequencesExt

CONSTANTS
    Clients,       \* connections
    BroadcastCap,  \* capacity of the broadcast channel (256)
    SendCap,       \* capacity of a client's send channel (256)
    MaxVersion     \* bound: versions of the job

VARIABLES
    version,    \* version of the job, which the job manager changes
    broadcast,  \* the hub's broadcast channel
    clients,    \* the hub's map of clients
    handler,    \* where the handler goroutine of a client is
    listed,     \* version ListJobs returned to the handler, 0: not yet called
    send,       \* contents of a client's send channel
    closedChan, \* clients whose send channel is closed
    closed,     \* WSClient.closed, which the read pump sets
    conn,       \* clients whose connection is open
    reader,     \* where the read pump is
    writer,     \* where the write pump is
    shown,      \* version the browser shows
    dropped     \* versions that were lost on a full broadcast channel

hubVars == <<broadcast, clients, dropped>>
handlerVars == <<handler, listed>>
chanVars == <<send, closedChan>>
pumpVars == <<closed, conn, reader, writer, shown>>
vars == <<hubVars, handlerVars, chanVars, pumpVars>>

TypeOK ==
    /\ broadcast \in BoundedSeq(1..MaxVersion, BroadcastCap)
    /\ clients \subseteq Clients
    /\ handler \in [Clients -> {"none", "upgraded", "registered", "started",
                                "listed", "done", "panicked"}]
    /\ listed \in [Clients -> 0..MaxVersion]
    /\ send \in [Clients -> BoundedSeq(0..MaxVersion, SendCap)]
    /\ closedChan \subseteq Clients
    /\ closed \subseteq Clients
    /\ conn \subseteq Clients
    /\ reader \in [Clients -> {"none", "reading", "leaving", "ended"}]
    /\ writer \in [Clients -> {"none", "pumping", "ended"}]
    /\ shown \in [Clients -> 0..MaxVersion]
    /\ dropped \subseteq 1..MaxVersion

Init ==
    /\ broadcast = <<>> /\ clients = {} /\ dropped = {}
    /\ handler = [c \in Clients |-> "none"]
    /\ listed = [c \in Clients |-> 0]
    /\ send = [c \in Clients |-> <<>>]
    /\ closedChan = {} /\ closed = {} /\ conn = {}
    /\ reader = [c \in Clients |-> "none"]
    /\ writer = [c \in Clients |-> "none"]
    /\ shown = [c \in Clients |-> 0]
-----------------------------------------------------------------------------
\* Broadcast does not wait for room in the channel.
Broadcast(v) ==
    /\ IF Len(broadcast) < BroadcastCap
       THEN /\ broadcast' = Append(broadcast, v)
            /\ UNCHANGED dropped
       ELSE /\ dropped' = dropped \cup {v}
            /\ UNCHANGED broadcast
    /\ UNCHANGED <<clients, handlerVars, chanVars, pumpVars>>
-----------------------------------------------------------------------------
(* The hub's loop. *)

\* The handler waits on the unbuffered channel until the hub takes the client.
Register(c) ==
    /\ handler[c] = "upgraded"
    /\ handler' = [handler EXCEPT ![c] = "registered"]
    /\ clients' = clients \cup {c}
    /\ UNCHANGED <<broadcast, dropped, listed, chanVars, pumpVars>>

\* A client the hub already dropped is not closed again.
Unregister(c) ==
    /\ reader[c] = "leaving"
    /\ reader' = [reader EXCEPT ![c] = "ended"]
    /\ clients' = clients \ {c}
    /\ closedChan' = closedChan \cup ({c} \cap clients)
    /\ conn' = conn \ {c}
    /\ UNCHANGED <<broadcast, dropped, handlerVars, send, closed, writer, shown>>

Full(c) == Len(send[c]) >= SendCap

\* Mutant: a slow client is closed but stays in the map.
DeliverKeepsSlow ==
    LET slow == {c \in clients : Full(c)}
    IN  /\ broadcast # <<>>
        /\ broadcast' = Tail(broadcast)
        /\ send' = [c \in Clients |-> IF c \in clients \ slow
                                      THEN Append(send[c], Head(broadcast))
                                      ELSE send[c]]
        /\ closedChan' = closedChan \cup slow
        /\ UNCHANGED <<clients, dropped, handlerVars, pumpVars>>

\* Mutant: a slow client misses the message and stays.
DeliverSkipsSlow ==
    /\ broadcast # <<>>
    /\ broadcast' = Tail(broadcast)
    /\ send' = [c \in Clients |-> IF c \in clients /\ ~Full(c)
                                  THEN Append(send[c], Head(broadcast))
                                  ELSE send[c]]
    /\ UNCHANGED <<clients, closedChan, dropped, handlerVars, pumpVars>>

\* One message to every client; a client without room for it is dropped.
Deliver ==
    LET slow == {c \in clients : Full(c)}
    IN  /\ broadcast # <<>>
        /\ broadcast' = Tail(broadcast)
        /\ send' = [c \in Clients |-> IF c \in clients \ slow
                                      THEN Append(send[c], Head(broadcast))
                                      ELSE send[c]]
        /\ clients' = clients \ slow
        /\ closedChan' = closedChan \cup slow
        /\ UNCHANGED <<dropped, handlerVars, pumpVars>>
-----------------------------------------------------------------------------
(* handleWebSocket and sendInitialState. *)

Connect(c) ==
    /\ handler[c] = "none"
    /\ handler' = [handler EXCEPT ![c] = "upgraded"]
    /\ conn' = conn \cup {c}
    /\ UNCHANGED <<hubVars, listed, chanVars, closed, reader, writer, shown>>

StartPumps(c) ==
    /\ handler[c] = "registered"
    /\ handler' = [handler EXCEPT ![c] = "started"]
    /\ reader' = [reader EXCEPT ![c] = "reading"]
    /\ writer' = [writer EXCEPT ![c] = "pumping"]
    /\ UNCHANGED <<hubVars, listed, chanVars, closed, conn, shown>>

ListJobs(c) ==
    /\ handler[c] = "started"
    /\ handler' = [handler EXCEPT ![c] = "listed"]
    /\ listed' = [listed EXCEPT ![c] = version]
    /\ UNCHANGED <<hubVars, chanVars, pumpVars>>

\* Under client.mu: nothing is sent to a client that has left, nothing is sent
\* when there is no room, and a send on a channel that is closed panics.
SendInit(c) ==
    /\ handler[c] = "listed"
    /\ handler' = [handler EXCEPT ![c] =
                     IF c \notin closed /\ c \in closedChan THEN "panicked" ELSE "done"]
    /\ send' = IF c \in closed \cup closedChan \/ Full(c) THEN send
               ELSE [send EXCEPT ![c] = Append(@, listed[c])]
    /\ UNCHANGED <<hubVars, listed, closedChan, pumpVars>>
-----------------------------------------------------------------------------
(* The pumps, and the peer. *)

\* The write pump delivers a message, or fails when the connection is gone.
WriteMessage(c) ==
    /\ writer[c] = "pumping" /\ send[c] # <<>>
    /\ send' = [send EXCEPT ![c] = Tail(@)]
    /\ IF c \in conn
       THEN shown' = [shown EXCEPT ![c] = Head(send[c])] /\ UNCHANGED <<writer, conn>>
       ELSE writer' = [writer EXCEPT ![c] = "ended"] /\ UNCHANGED <<shown, conn>>
    /\ UNCHANGED <<hubVars, handlerVars, closedChan, closed, reader>>

\* The channel is closed and empty, or a ping fails: the pump closes the
\* connection.
WriterEnds(c) ==
    /\ writer[c] = "pumping"
    /\ (c \in closedChan /\ send[c] = <<>>) \/ c \notin conn
    /\ writer' = [writer EXCEPT ![c] = "ended"]
    /\ conn' = conn \ {c}
    /\ UNCHANGED <<hubVars, handlerVars, chanVars, closed, reader, shown>>

\* The peer goes away; the pumps find out when they next use the connection.
Disconnect(c) ==
    /\ c \in conn
    /\ conn' = conn \ {c}
    /\ UNCHANGED <<hubVars, handlerVars, chanVars, closed, reader, writer, shown>>

\* The read fails: the client is marked as closed, and then leaves the hub.
ReaderEnds(c) ==
    /\ reader[c] = "reading" /\ c \notin conn
    /\ reader' = [reader EXCEPT ![c] = "leaving"]
    /\ closed' = closed \cup {c}
    /\ UNCHANGED <<hubVars, handlerVars, chanVars, conn, writer, shown>>

Handler(c) == Connect(c) \/ StartPumps(c) \/ ListJobs(c) \/ SendInit(c)
Writer(c) == WriteMessage(c) \/ WriterEnds(c)

Step(c) ==
    \/ Register(c) \/ Unregister(c)
    \/ Handler(c) \/ Writer(c) \/ ReaderEnds(c) \/ Disconnect(c)
-----------------------------------------------------------------------------
\* The hub sends to and closes only open channels: a client is in the map only
\* while its channel is open, and no departure closes the channel of a client
\* the hub has already dropped, or the other way round (websocket.go:88-120).
HubUsesOpenChannels == clients \cap closedChan = {}

\* A departing client cannot make the handler panic: sendInitialState meets a
\* closed channel only if the hub dropped the client for being slow before it
\* got its initial state (websocket.go:205-213, 262-267).
PanicStep ==
    \A c \in Clients :
        (handler'[c] = "panicked" /\ handler[c] # "panicked") => reader[c] = "reading"
=============================================================================
