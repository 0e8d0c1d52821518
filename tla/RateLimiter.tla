---------------------------- MODULE RateLimiter ----------------------------
(***************************************************************************)
(* The token bucket that all transfers of the process share: WaitN blocks  *)
(* a reader until its bytes fit the limit, SetLimit changes the limit and  *)
(* wakes the blocked readers.  Source: pkg/hfdownloader/ratelimit.go.      *)
(*                                                                         *)
(* Time passes in ticks; a rate is in units per tick.  What a critical     *)
(* section of the mutex does is one step.                                  *)
(***************************************************************************)
EXTENDS Integers, FiniteSets

CONSTANTS
    Caller,      \* readers that may be in WaitN
    Rates,       \* limits SetLimit may be called with, 0 for no limit
    MinBurst,    \* minBurst
    ReadChunk,   \* readChunk, the most that one read asks for
    MaxElapsed,  \* the time since the last refill is counted up to this; a bucket is
                 \* full by then
    MaxChanges   \* bound: calls of SetLimit

ASSUME LimiterAssumption ==
    /\ Rates \subseteq Nat /\ Rates # {} /\ MinBurst \in Nat /\ ReadChunk \in Nat \ {0}
    /\ ReadChunk <= MinBurst /\ MaxElapsed \in Nat /\ MaxElapsed >= MinBurst
    /\ MaxElapsed >= 1 /\ MaxChanges \in Nat

VARIABLES
    rate, tokens,  \* fields of RateLimiter; burst is BurstOf(rate)
    elapsed,       \* time since RateLimiter.last
    waiters,       \* callers whose wakeup channel is registered; closed otherwise
    state,         \* where each caller is
    asked,         \* bytes each caller asks for
    left,          \* time left on the timer of each caller
    cancelled,     \* callers whose context is done
    meter,         \* history: bytes granted since SetLimit, less what the rate allows
    seen,          \* history: the limit each caller computed its timer from
    changes        \* bound: calls of SetLimit so far

bucket == <<rate, tokens, elapsed>>
calls == <<state, asked, left, cancelled>>
limiterVars == <<bucket, waiters, calls, meter, seen, changes>>

\* Mutant: a small limit gives a small bucket.
BurstOfRate(r) == r

\* The bucket holds at least minBurst when there is a limit.
BurstOf(r) == IF r = 0 THEN 0 ELSE IF r < MinBurst THEN MinBurst ELSE r
burst == BurstOf(rate)

AtMost(a, b) == IF a > b THEN b ELSE a

\* "timer" and "done" have chosen a case of the select and are about to remove their
\* channel; "recheck" looks at its context again.
State == {"out", "check", "waiting", "timer", "done", "recheck"}

LimiterTypeOK ==
    /\ rate \in Rates /\ tokens \in 0..burst /\ elapsed \in 0..MaxElapsed
    /\ waiters \subseteq Caller /\ state \in [Caller -> State]
    /\ asked \in [Caller -> 1..ReadChunk] /\ left \in [Caller -> Nat]
    /\ cancelled \subseteq Caller /\ meter \in Nat /\ seen \in [Caller -> Rates]
    /\ changes \in 0..MaxChanges

\* NewRateLimiter fills the bucket.
LimiterInit ==
    /\ rate \in Rates /\ tokens = burst /\ elapsed = 0 /\ waiters = {}
    /\ state = [c \in Caller |-> "out"] /\ asked = [c \in Caller |-> 1]
    /\ left = [c \in Caller |-> 0] /\ cancelled = {} /\ meter = 0
    /\ seen = [c \in Caller |-> rate] /\ changes = 0

MoveTo(c, s) == state' = [state EXCEPT ![c] = s]
-----------------------------------------------------------------------------
\* The time since the last refill is not settled: it will count at the new rate.
SetLimit(r) ==
    /\ changes < MaxChanges /\ changes' = changes + 1 /\ rate' = r
    /\ tokens' = AtMost(tokens, BurstOf(r))
    /\ waiters' = {} /\ meter' = 0
    /\ UNCHANGED <<elapsed, calls, seen>>

\* Time passes; the history drains at the rate of the limit.
Tick ==
    /\ elapsed' = AtMost(elapsed + 1, MaxElapsed)
    /\ left' = [c \in Caller |-> IF left[c] > 0 THEN left[c] - 1 ELSE 0]
    /\ meter' = IF meter > rate THEN meter - rate ELSE 0
    /\ UNCHANGED <<rate, tokens, waiters, state, asked, cancelled, seen, changes>>

\* A read has brought k bytes under a limit.
Call(c, k) ==
    /\ state[c] = "out" /\ c \notin cancelled /\ rate > 0
    /\ MoveTo(c, "check") /\ asked' = [asked EXCEPT ![c] = k]
    /\ UNCHANGED <<bucket, waiters, left, cancelled, meter, seen, changes>>

\* The context of a transfer is cancelled.
Cancel(c) ==
    /\ state[c] # "out" /\ c \notin cancelled /\ cancelled' = cancelled \cup {c}
    /\ UNCHANGED <<bucket, waiters, state, asked, left, meter, seen, changes>>

\* The tokens after the refill that every round of WaitN begins with.
Refilled == AtMost(tokens + elapsed * rate, burst)

Need(c) == AtMost(asked[c], burst)

\* There is no limit any more.
Unlimited(c) ==
    /\ state[c] = "check" /\ rate = 0 /\ MoveTo(c, "out")
    /\ cancelled' = cancelled \ {c}
    /\ UNCHANGED <<bucket, waiters, asked, left, meter, seen, changes>>

\* Mutant: a bucket that holds exactly what is needed is not enough.
EnoughAndMore(c) == Refilled > Need(c)

Enough(c) == Refilled >= Need(c)

Grant(c) ==
    /\ state[c] = "check" /\ rate > 0 /\ Enough(c)
    /\ tokens' = Refilled - Need(c) /\ elapsed' = 0 /\ meter' = meter + asked[c]
    /\ MoveTo(c, "out") /\ cancelled' = cancelled \ {c}
    /\ UNCHANGED <<rate, waiters, asked, left, seen, changes>>

\* The deficit sets the timer, and the channel is registered in the same section.
Block(c) ==
    /\ state[c] = "check" /\ rate > 0 /\ ~Enough(c)
    /\ tokens' = Refilled /\ elapsed' = 0 /\ waiters' = waiters \cup {c}
    /\ LET wait == (Need(c) - Refilled) \div rate
       IN  left' = [left EXCEPT ![c] = IF wait < 1 THEN 1 ELSE wait]
    /\ MoveTo(c, "waiting") /\ seen' = [seen EXCEPT ![c] = rate]
    /\ UNCHANGED <<rate, asked, cancelled, meter, changes>>

\* The select: any case that is ready may be taken.
Wake(c) ==
    /\ state[c] = "waiting"
    /\ \/ c \in cancelled /\ MoveTo(c, "done")
       \/ c \notin waiters /\ MoveTo(c, "recheck")
       \/ left[c] = 0 /\ MoveTo(c, "timer")
    /\ UNCHANGED <<bucket, waiters, asked, left, cancelled, meter, seen, changes>>

RemoveWaiter(c) ==
    /\ state[c] \in {"timer", "done"}
    /\ waiters' = waiters \ {c}
    /\ MoveTo(c, IF state[c] = "done" THEN "out" ELSE "recheck")
    /\ cancelled' = IF state[c] = "done" THEN cancelled \ {c} ELSE cancelled
    /\ UNCHANGED <<bucket, asked, left, meter, seen, changes>>

\* The context is looked at once more before the next round.
Recheck(c) ==
    /\ state[c] = "recheck"
    /\ MoveTo(c, IF c \in cancelled THEN "out" ELSE "check")
    /\ cancelled' = cancelled \ {c}
    /\ UNCHANGED <<bucket, waiters, asked, left, meter, seen, changes>>

WaitN(c) == Unlimited(c) \/ Grant(c) \/ Block(c) \/ Wake(c) \/ RemoveWaiter(c) \/ Recheck(c)

LimiterNext ==
    \/ Tick \/ \E r \in Rates : SetLimit(r)
    \/ \E c \in Caller :
        Cancel(c) \/ WaitN(c) \/ \E k \in 1..ReadChunk : Call(c, k)

LimiterSpec == LimiterInit /\ [][LimiterNext]_limiterVars

\* Time passes and a caller that can go on does.
FairLimiterSpec == LimiterSpec /\ WF_limiterVars(Tick) /\ \A c \in Caller : WF_limiterVars(WaitN(c))
-----------------------------------------------------------------------------
\* Since the limit was set, no stretch of time has seen more than one bucket and what
\* the rate allows, whatever the number of readers (ratelimit.go:15-19).
CapRespected == rate > 0 => meter <= burst

\* Nobody sleeps on a timer computed from a limit that no longer holds
\* (ratelimit.go:22-25, 69-78).
SleepersKnowTheLimit ==
    \A c \in waiters : state[c] = "waiting" => seen[c] = rate

\* Only callers in the select, or on their way out of it, are registered: the list does
\* not grow over a long transfer (ratelimit.go:144-149, 162-182).
WaitersAreBlocked ==
    \A c \in waiters : state[c] \in {"waiting", "timer", "done"}

Alone(c) == \A d \in Caller \ {c} : state[d] = "out"

\* A reader that has the bucket to itself from some time on is served, or stops: it
\* does not wait for ever, whatever the others and the limit did before
\* (ratelimit.go:35-38, 91-94, 129-160).
WaitEnds ==
    \A c \in Caller : []<>(state[c] = "out" \/ ~Alone(c))
=============================================================================
