------------------------------- MODULE MCFlow -------------------------------
(***************************************************************************)
(* The rate limiter (RateLimiter) and the transfer of one file             *)
(* (FileTransfer), for TLC.  A transfer waits in the limiter between two   *)
(* of its reads, where FileTransfer lets any time pass; the two share no   *)
(* state, so a behaviour is one of either.                                 *)
(***************************************************************************)
EXTENDS RateLimiter, FileTransfer

VARIABLE part   \* what the behaviour is of

ASSUME MCTransferAssumption == TransferAssumption

\* The part that takes no step begins in one state.
MCInit ==
    /\ part \in {"limiter", "transfer"} /\ LimiterInit /\ Init
    /\ IF part = "limiter" THEN n = 2 ELSE rate = 0

LimiterStep == part = "limiter" /\ LimiterNext /\ UNCHANGED <<part, vars>>
TransferStep == part = "transfer" /\ Next /\ UNCHANGED <<part, limiterVars>>

MCSpec ==
    /\ MCInit /\ [][LimiterStep \/ TransferStep]_<<part, vars, limiterVars>>
    /\ WF_limiterVars(part = "limiter" /\ Tick)
    /\ \A c \in Caller : WF_limiterVars(part = "limiter" /\ WaitN(c))
    /\ WF_vars(part = "transfer" /\ RunStep)

\* A run of a transfer ends, and a reader that waits for its bytes in the limiter is
\* served or stops (downloader.go:1461-1613, 1991-1997; ratelimit.go:91-94, 129-160).
NobodyHangs == TransferEnds /\ WaitEnds
=============================================================================
