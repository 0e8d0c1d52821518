----------------------------- MODULE LogStream -----------------------------
(***************************************************************************)
(* The live log stream: Pipeline.emit and broadcast with the bounded       *)
(* subscription (src/internal/logging/logging.go, subscription.go), and    *)
(* the Server-Sent Events handler that replays the ring and then follows   *)
(* the feed (runtimeLogStream in src/internal/server/runtime.go).          *)
(*                                                                         *)
(* The pipeline and its ring are LogRing's; this module adds the feed of   *)
(* one subscription and the stream that is served from it.  emit runs      *)
(* under emitMu and takes several steps here, because the handler          *)
(* subscribes, reads the ring and reads the feed between any two of them.  *)
(***************************************************************************)
EXTENDS LogRing

CONSTANTS
    Buffer,    \* capacity of a subscription
    Filtering  \* the client asked for a level: some records are left out

ASSUME StreamAssumption == Buffer \in Nat /\ Filtering \in BOOLEAN

VARIABLES
    installed, \* a pipeline is installed
    stage,     \* where emit is: idle, emitting (before broadcast) or broadcasting
    wanted,    \* records at or above the level the client asked for
    targets,   \* broadcast is about to send to the client's subscription
    subscribed,
    feed,      \* Subscription.ch
    lost,      \* records dropped on a full feed; its size is Dropped()
    pc,        \* where the handler is
    after,     \* the cursor of the request
    backlog,   \* records of the replay that are still to be written
    position,  \* runtimeLogStream.position
    told,      \* lost records the client was told of; its size is st.dropped
    missed,    \* records that were gone from the ring when the replay read it
    truncated, \* the replay was not complete
    gap,       \* a gap event was written
    written    \* records the client received

emitVars == <<logVars, installed, stage, wanted, targets>>
subVars == <<subscribed, feed, lost>>
handlerVars == <<pc, after, backlog, position, told, missed, truncated, gap, written>>
streamVars == <<emitVars, subVars, handlerVars>>

StreamTypeOK ==
    /\ LogTypeOK
    /\ installed \in BOOLEAN
    /\ stage \in {"idle", "emitting", "broadcasting"}
    /\ wanted \subseteq 1..MaxSeq /\ targets \in BOOLEAN
    /\ subscribed \in BOOLEAN
    /\ feed \in Seq(1..MaxSeq) /\ Len(feed) <= Buffer
    /\ lost \subseteq 1..MaxSeq
    /\ pc \in {"new", "attached", "replay", "live", "report", "ended"}
    /\ after \in Seqs /\ position \in Seqs
    /\ backlog \in Seq(1..MaxSeq) /\ Len(backlog) <= Capacity
    /\ told \subseteq lost /\ missed \subseteq 1..MaxSeq
    /\ truncated \in BOOLEAN /\ gap \in BOOLEAN
    /\ written \in Seq(1..MaxSeq) /\ Len(written) <= MaxSeq

StreamInit ==
    /\ LogInit
    /\ installed = FALSE /\ stage = "idle"
    /\ wanted = {} /\ targets = FALSE
    /\ subscribed = FALSE /\ feed = <<>> /\ lost = {}
    /\ pc = "new" /\ after = 0 /\ backlog = <<>> /\ position = 0
    /\ told = {} /\ missed = {} /\ truncated = FALSE /\ gap = FALSE /\ written = <<>>
-----------------------------------------------------------------------------
(* Pipeline.emit, under emitMu. *)

Install ==
    /\ ~installed /\ installed' = TRUE
    /\ UNCHANGED <<logVars, stage, wanted, targets, subVars, handlerVars>>

EmitNumber ==
    /\ installed /\ stage = "idle"
    /\ Number /\ stage' = "emitting"
    /\ \/ wanted' = wanted \cup {seq'}
       \/ Filtering /\ UNCHANGED wanted
    /\ UNCHANGED <<installed, targets, subVars, handlerVars>>

EmitStore ==
    /\ Store
    /\ UNCHANGED <<installed, stage, wanted, targets, subVars, handlerVars>>

\* broadcast copies the set of subscriptions, and then sends to each.
Collect ==
    /\ stage = "emitting" /\ ~emitting /\ stage' = "broadcasting"
    /\ targets' = subscribed
    /\ UNCHANGED <<logVars, installed, wanted, subVars, handlerVars>>

\* Subscription.send does not wait for room, and a closed subscription takes
\* nothing.
Offer ==
    /\ stage = "broadcasting" /\ stage' = "idle"
    /\ targets' = FALSE
    /\ \/ /\ targets /\ subscribed /\ Len(feed) < Buffer
          /\ feed' = Append(feed, seq) /\ UNCHANGED lost
       \/ /\ targets /\ subscribed /\ Len(feed) >= Buffer
          /\ lost' = lost \cup {seq} /\ UNCHANGED feed
       \/ ~(targets /\ subscribed) /\ UNCHANGED <<feed, lost>>
    /\ UNCHANGED <<logVars, installed, wanted, subscribed, handlerVars>>
-----------------------------------------------------------------------------
(* handleRuntimeLogStream. *)

\* A request with any cursor; the subscription comes before the ring is read.
Attach ==
    /\ pc = "new" /\ pc' = IF installed THEN "attached" ELSE "live"
    /\ subscribed' = installed
    /\ \E c \in Seqs : after' = c /\ position' = c
    /\ UNCHANGED <<emitVars, feed, lost, backlog, told, missed, truncated, gap, written>>

\* replay reads the ring once; a cursor that is ahead of it misses nothing.
ReadRing ==
    /\ pc = "attached" /\ pc' = "replay"
    /\ backlog' = Records(after)
    /\ truncated' = RecordsTruncated(after)
    /\ missed' = {s \in 1..newest : s > after} \ ToSet(RingRecords)
    /\ UNCHANGED <<emitVars, subVars, after, position, told, gap, written>>

\* Every record moves the position, those the level leaves out too.
Replay ==
    /\ pc = "replay" /\ backlog # <<>>
    /\ backlog' = Tail(backlog)
    /\ position' = Head(backlog)
    /\ written' = IF Head(backlog) \in wanted THEN Append(written, Head(backlog))
                                              ELSE written
    /\ UNCHANGED <<emitVars, subVars, pc, after, told, missed, truncated, gap>>

\* The gap event ends a replay that could not be complete.
EndReplay ==
    /\ pc = "replay" /\ backlog = <<>>
    /\ pc' = "live"
    /\ gap' = truncated
    /\ UNCHANGED <<emitVars, subVars, after, backlog, position, told, missed, truncated, written>>

\* A record the replay delivered is skipped.
Skip ==
    /\ pc = "live" /\ feed # <<>>
    /\ Head(feed) <= position
    /\ feed' = Tail(feed)
    /\ UNCHANGED <<emitVars, subscribed, lost, handlerVars>>

\* A new record is written, unless the level leaves it out; the client is told
\* of lost records after a write.
Follow ==
    /\ pc = "live" /\ feed # <<>>
    /\ Head(feed) > position
    /\ feed' = Tail(feed)
    /\ position' = Head(feed)
    /\ \/ /\ Head(feed) \in wanted
          /\ written' = Append(written, Head(feed)) /\ pc' = "report"
       \/ Head(feed) \notin wanted /\ UNCHANGED <<written, pc>>
    /\ UNCHANGED <<emitVars, subscribed, lost, after, backlog, told, missed, truncated, gap>>

\* Mutant: losses are only reported after a write.
ReportAfterWrite ==
    /\ pc = "report"
    /\ pc' = "live"
    /\ told' = lost
    /\ UNCHANGED <<emitVars, subVars, after, backlog, position, missed, truncated, gap, written>>

\* reportDropped: the client is told how many records were lost, and to read
\* the log again from the position of the stream.
Report ==
    /\ pc = "report" \/ (pc = "live" /\ subscribed)
    /\ pc' = "live"
    /\ told' = lost
    /\ UNCHANGED <<emitVars, subVars, after, backlog, position, missed, truncated, gap, written>>

\* The keep-alive attaches to a pipeline that was not there before.
LateAttach ==
    /\ pc = "live" /\ ~subscribed /\ installed
    /\ subscribed' = TRUE /\ pc' = "attached"
    /\ UNCHANGED <<emitVars, feed, lost, after, backlog, position, told, missed, truncated,
                   gap, written>>

\* The client goes away, or a write to it fails.
Leave ==
    /\ pc \in {"attached", "replay", "live", "report"}
    /\ pc' = "ended"
    /\ subscribed' = FALSE
    /\ UNCHANGED <<emitVars, feed, lost, after, backlog, position, told, missed, truncated,
                   gap, written>>

Emit == EmitNumber \/ EmitStore \/ Collect \/ Offer
Stream == ReadRing \/ Replay \/ EndReplay \/ Skip \/ Follow \/ Report

StreamNext == Install \/ Emit \/ Attach \/ Stream \/ LateAttach \/ Leave

\* emit is straight-line code once it has numbered a record, and the handler
\* goes on; the keep-alive ticker makes it report while nothing arrives.
StreamFairness ==
    /\ WF_streamVars(EmitStore \/ Collect \/ Offer)
    /\ WF_streamVars(ReadRing \/ Replay \/ EndReplay \/ Skip \/ Follow)
    /\ SF_streamVars(Report) /\ WF_streamVars(LateAttach)

StreamSpec == StreamInit /\ [][StreamNext]_streamVars
FairStreamSpec == StreamSpec /\ StreamFairness
-----------------------------------------------------------------------------
\* "never lost and never delivered twice" (runtime.go:418-419): whatever is emitted
\* around the subscription and the replay, records reach the client in order and
\* once.
InOrderOnce == StreamTypeOK /\ Ascending(written)

\* The stream has no silent hole: a record behind its position that the client asked
\* for was written, or was counted as dropped, or had left the ring before the
\* replay, which the gap event says (runtime.go:353-357, 452-476).
NoSilentHole ==
    /\ \A s \in 1..position :
          s > after /\ s \in wanted => s \in ToSet(written) \cup lost \cup missed
    /\ pc \in {"live", "report"} /\ missed # {} => gap

\* A client that stays is told of every record its subscription lost
\* (runtime.go:541-551).
LossIsReported == (told # lost) ~> (told = lost \/ pc = "ended")

\* Every page of the log, taken at any moment of an emission and with the filter of
\* the stream, is what the retained log answers (runtime.go:289-331).
PagesAnswerLog == PageAnswersLog(wanted)

\* The stream and the pages tell the truth about the log.
LogIsTold == InOrderOnce /\ NoSilentHole /\ PagesAnswerLog
=============================================================================
