------------------------------ MODULE FlowProofs ------------------------------
(***************************************************************************)
(* What TLAPS proves about RateLimiter, for any readers, limits and bucket *)
(* sizes, and about FileTransfer, for a file of any size, any set of       *)
(* connection counts, any retry budget and any number of runs.             *)
(***************************************************************************)
EXTENDS RateLimiter, FileTransfer, FiniteSetTheorems, WellFoundedInduction,
        SequenceTheorems, TLAPS

---------------------------------------------------------------------------
(* The rate limiter *)

\* What was granted and what the bucket would hold now fit the bucket together.
MeterFits == rate > 0 => meter + Refilled <= burst

LimiterInv == LimiterTypeOK /\ MeterFits /\ SleepersKnowTheLimit /\ WaitersAreBlocked

\* A bucket under a limit admits any read.
LEMMA BurstAdmits ==
    ASSUME NEW r \in Nat
    PROVE  BurstOf(r) \in Nat /\ (r > 0 => ReadChunk <= BurstOf(r))
BY LimiterAssumption DEF BurstOf

\* A refill stays in the bucket and never takes tokens away.
LEMMA RefillBounds ==
    ASSUME NEW r \in Nat, NEW t \in 0..BurstOf(r), NEW e \in Nat
    PROVE  AtMost(t + e * r, BurstOf(r)) \in t..BurstOf(r)
<1> BurstOf(r) \in Nat
    BY BurstAdmits
<1> DEFINE accrued == e * r
<1> accrued \in Nat
    OBVIOUS
<1> HIDE DEF accrued
<1>1. AtMost(t + accrued, BurstOf(r)) \in t..BurstOf(r)
    BY DEF AtMost
<1> QED BY <1>1 DEF accrued

\* A tick that drains as much as it accrues keeps the sum within the bucket.
LEMMA Drain ==
    ASSUME NEW m \in Nat, NEW r \in Nat, NEW b \in Nat, NEW old \in Int, NEW new \in Int,
           m + old <= b, new <= old + r, new <= b
    PROVE  (IF m > r THEN m - r ELSE 0) + new <= b
OBVIOUS

\* The invariant holds at the start.
LEMMA LimiterBegins == LimiterInit => LimiterInv
<1> SUFFICES ASSUME LimiterInit PROVE LimiterInv
    OBVIOUS
<1>1. LimiterTypeOK
    <2> rate \in Nat /\ burst \in Nat
        BY LimiterAssumption, BurstAdmits DEF LimiterInit, burst
    <2> QED BY LimiterAssumption DEF LimiterInit, LimiterTypeOK, State
<1>2. MeterFits
    <2>1. rate \in Nat /\ tokens \in 0..BurstOf(rate) /\ elapsed \in Nat
        BY <1>1, LimiterAssumption DEF LimiterTypeOK, burst
    <2>2. Refilled \in tokens..burst /\ burst \in Nat
        BY <2>1, RefillBounds, BurstAdmits DEF Refilled, burst
    <2> QED BY <2>1, <2>2 DEF MeterFits, LimiterInit
<1> QED BY <1>1, <1>2 DEF LimiterInv, LimiterInit, SleepersKnowTheLimit, WaitersAreBlocked

\* Every step keeps the invariant.
LEMMA LimiterSteps == LimiterInv /\ [LimiterNext]_limiterVars => LimiterInv'
<1> SUFFICES ASSUME LimiterInv, [LimiterNext]_limiterVars PROVE LimiterInv'
    OBVIOUS
<1> USE DEF LimiterInv
<1>a. rate \in Nat /\ burst \in Nat /\ tokens \in 0..burst /\ elapsed \in Nat /\ meter \in Nat
    BY LimiterAssumption, BurstAdmits DEF LimiterTypeOK, burst
<1>b. Refilled \in tokens..burst
    BY <1>a, RefillBounds DEF Refilled, burst
<1>1. ASSUME NEW r \in Rates, SetLimit(r) PROVE LimiterInv'
    <2>1. r \in Nat /\ BurstOf(r) \in Nat /\ burst' = BurstOf(r)
        BY <1>1, LimiterAssumption, BurstAdmits DEF SetLimit, burst
    <2>2. LimiterTypeOK'
        <3>1. AtMost(tokens, BurstOf(r)) \in 0..BurstOf(r)
            BY <1>a, <2>1 DEF AtMost
        <3>2. changes' \in 0..MaxChanges
            BY <1>1, LimiterAssumption DEF SetLimit, LimiterTypeOK
        <3>3. rate' = r /\ tokens' \in 0..burst'
            BY <1>1, <2>1, <3>1 DEF SetLimit
        <3>4. waiters' = {} /\ meter' = 0 /\ UNCHANGED <<elapsed, state, asked, left, cancelled, seen>>
            BY <1>1 DEF SetLimit, calls
        <3> QED BY <3>2, <3>3, <3>4 DEF LimiterTypeOK
    <2>3. Refilled' \in tokens'..burst'
        <3>1. rate' \in Nat /\ tokens' \in 0..BurstOf(rate') /\ elapsed' \in Nat
            BY <2>2, LimiterAssumption DEF LimiterTypeOK, burst
        <3> QED BY <3>1, RefillBounds DEF Refilled, burst
    <2>4. MeterFits'
        BY <1>1, <2>1, <2>2, <2>3 DEF MeterFits, SetLimit, LimiterTypeOK
    <2>5. SleepersKnowTheLimit' /\ WaitersAreBlocked'
        BY <1>1 DEF SetLimit, SleepersKnowTheLimit, WaitersAreBlocked
    <2> QED BY <2>2, <2>4, <2>5
<1>2. CASE Tick
    <2>1. rate' = rate /\ burst' = burst /\ tokens' = tokens
        BY <1>2 DEF Tick, burst
    <2>2. LimiterTypeOK'
        BY <1>2, <1>a, <2>1, LimiterAssumption DEF Tick, LimiterTypeOK, AtMost
    <2>3. Refilled' \in tokens'..burst'
        <3>1. rate' \in Nat /\ tokens' \in 0..BurstOf(rate') /\ elapsed' \in Nat
            BY <2>2, LimiterAssumption DEF LimiterTypeOK, burst
        <3> QED BY <3>1, RefillBounds DEF Refilled, burst
    <2>4. elapsed' \in {elapsed, elapsed + 1}
        BY <1>2, <1>a, LimiterAssumption DEF Tick, AtMost, LimiterTypeOK
    <2>5. elapsed' * rate \in {elapsed * rate, elapsed * rate + rate}
        <3>1. (elapsed + 1) * rate = elapsed * rate + rate
            BY <1>a
        <3> QED BY <2>4, <3>1
    <2>6. Refilled' <= Refilled + rate
        <3> DEFINE accrued == elapsed * rate
        <3> accrued \in Nat
            BY <1>a
        <3>1. elapsed' * rate \in {accrued, accrued + rate}
            BY <2>5
        <3> HIDE DEF accrued
        <3>2. Refilled = AtMost(tokens + accrued, burst)
            BY DEF Refilled, accrued
        <3>3. PICK a \in {accrued, accrued + rate} : Refilled' = AtMost(tokens + a, burst)
            BY <2>1, <3>1 DEF Refilled
        <3> QED BY <1>a, <3>2, <3>3 DEF AtMost
    <2>7. MeterFits'
        <3>1. SUFFICES ASSUME rate > 0 PROVE meter' + Refilled' <= burst
            BY <2>1 DEF MeterFits
        <3>2. Refilled' \in Int /\ Refilled \in Int /\ Refilled' <= burst
            BY <1>a, <1>b, <2>1, <2>3
        <3>3. meter + Refilled <= burst
            BY <3>1 DEF MeterFits
        <3>4. meter' = IF meter > rate THEN meter - rate ELSE 0
            BY <1>2 DEF Tick
        <3>5. (IF meter > rate THEN meter - rate ELSE 0) + Refilled' <= burst
            BY <1>a, <2>6, <3>2, <3>3, Drain
        <3> QED BY <3>4, <3>5
    <2>8. SleepersKnowTheLimit' /\ WaitersAreBlocked'
        BY <1>2 DEF Tick, SleepersKnowTheLimit, WaitersAreBlocked
    <2> QED BY <2>2, <2>7, <2>8
<1>3. ASSUME NEW c \in Caller, Grant(c) PROVE LimiterInv'
    <2>1. rate' = rate /\ burst' = burst /\ rate > 0 /\ elapsed' = 0
        BY <1>3 DEF Grant, burst
    <2>2. asked[c] \in 1..ReadChunk /\ ReadChunk <= burst
        BY <1>a, <2>1, BurstAdmits DEF LimiterTypeOK, burst
    <2>3. Need(c) = asked[c]
        BY <1>a, <2>2, LimiterAssumption DEF Need, AtMost
    <2>4. tokens' = Refilled - asked[c] /\ tokens' \in 0..burst /\ meter' = meter + asked[c]
        BY <1>3, <1>a, <1>b, <2>2, <2>3 DEF Grant, Enough
    <2>5. LimiterTypeOK'
        BY <1>3, <1>a, <2>1, <2>2, <2>4, LimiterAssumption
        DEF Grant, LimiterTypeOK, MoveTo, State
    <2>6. Refilled' = tokens'
        <3>1. elapsed' * rate' = 0
            BY <1>a, <2>1
        <3> QED BY <1>a, <2>1, <2>4, <3>1 DEF Refilled, AtMost
    <2>7. MeterFits'
        BY <1>a, <1>b, <2>1, <2>2, <2>4, <2>6 DEF MeterFits
    <2>8. SleepersKnowTheLimit' /\ WaitersAreBlocked'
        BY <1>3 DEF Grant, MoveTo, SleepersKnowTheLimit, WaitersAreBlocked, LimiterTypeOK
    <2> QED BY <2>5, <2>7, <2>8
<1>4. ASSUME NEW c \in Caller, Block(c) PROVE LimiterInv'
    <2>1. rate' = rate /\ burst' = burst /\ elapsed' = 0 /\ tokens' = Refilled
        BY <1>4 DEF Block, burst
    <2>2. left' \in [Caller -> Nat]
        <3>1. rate > 0 /\ Need(c) \in Int /\ Refilled \in Int
            BY <1>4, <1>a, <1>b DEF Block, Need, AtMost, LimiterTypeOK
        <3>2. (Need(c) - Refilled) \div rate \in Int
            BY <3>1, <1>a
        <3> DEFINE wait == (Need(c) - Refilled) \div rate
        <3> HIDE DEF wait
        <3>3. (IF wait < 1 THEN 1 ELSE wait) \in Nat
            BY <3>2 DEF wait
        <3> QED BY <1>4, <3>3 DEF Block, LimiterTypeOK, wait
    <2>3. LimiterTypeOK'
        BY <1>4, <1>a, <1>b, <2>1, <2>2, LimiterAssumption DEF Block, LimiterTypeOK, MoveTo, State
    <2>4. Refilled' = tokens'
        <3>1. elapsed' * rate' = 0
            BY <1>a, <2>1
        <3> QED BY <1>a, <1>b, <2>1, <3>1 DEF Refilled, AtMost
    <2>5. MeterFits'
        BY <1>4, <2>1, <2>4 DEF MeterFits, Block
    <2>6. SleepersKnowTheLimit' /\ WaitersAreBlocked'
        BY <1>4 DEF Block, MoveTo, SleepersKnowTheLimit, WaitersAreBlocked, LimiterTypeOK
    <2> QED BY <2>3, <2>5, <2>6
<1>5. ASSUME NEW c \in Caller,
             Cancel(c) \/ Unlimited(c) \/ Wake(c) \/ RemoveWaiter(c) \/ Recheck(c)
                 \/ \E k \in 1..ReadChunk : Call(c, k)
      PROVE LimiterInv'
    <2>1. UNCHANGED <<bucket, left, meter, seen, changes>>
        BY <1>5 DEF Cancel, Unlimited, Wake, RemoveWaiter, Recheck, Call
    <2>2. LimiterTypeOK'
        BY <1>5, <2>1
        DEF Cancel, Unlimited, Wake, RemoveWaiter, Recheck, Call, LimiterTypeOK, MoveTo, State,
            bucket, burst
    <2>3. MeterFits'
        BY <2>1 DEF MeterFits, Refilled, burst, bucket
    <2>4. SleepersKnowTheLimit' /\ WaitersAreBlocked'
        BY <1>5, <2>1
        DEF Cancel, Unlimited, Wake, RemoveWaiter, Recheck, Call, MoveTo, bucket, LimiterTypeOK,
            SleepersKnowTheLimit, WaitersAreBlocked
    <2> QED BY <2>2, <2>3, <2>4
<1>6. CASE UNCHANGED limiterVars
    <2>1. UNCHANGED <<bucket, waiters, calls, meter, seen, changes>>
        BY <1>6 DEF limiterVars
    <2> QED BY <2>1
        DEF bucket, calls, LimiterTypeOK, MeterFits, Refilled, burst, SleepersKnowTheLimit,
            WaitersAreBlocked
<1> QED BY <1>1, <1>2, <1>3, <1>4, <1>5, <1>6 DEF LimiterNext, WaitN

\* The inductive invariant holds throughout.
LEMMA InductiveInvariant == LimiterSpec => []LimiterInv
BY LimiterBegins, LimiterSteps, PTL DEF LimiterSpec

\* Every variable of the limiter keeps its type: the bucket is never overdrawn or
\* overfull (ratelimit.go:26-33).
THEOREM LimiterTypeCorrect == LimiterSpec => []LimiterTypeOK
<1>1. LimiterInv => LimiterTypeOK
    BY DEF LimiterInv
<1> QED BY <1>1, InductiveInvariant, PTL

\* The cap holds over every stretch of time since the limit was set, for any number of
\* readers (ratelimit.go:15-19).
THEOREM CapRespectedAlways == LimiterSpec => []CapRespected
<1>1. LimiterInv => CapRespected
    <2> SUFFICES ASSUME LimiterInv PROVE CapRespected
        OBVIOUS
    <2>1. rate \in Nat /\ tokens \in 0..BurstOf(rate) /\ elapsed \in Nat /\ meter \in Nat
        BY LimiterAssumption DEF LimiterInv, LimiterTypeOK, burst
    <2>2. Refilled \in tokens..burst /\ burst \in Nat
        BY <2>1, RefillBounds, BurstAdmits DEF Refilled, burst
    <2> QED BY <2>1, <2>2 DEF LimiterInv, MeterFits, CapRespected
<1> QED BY <1>1, InductiveInvariant, PTL

\* No reader sleeps on a limit that was replaced (ratelimit.go:22-25).
THEOREM SleepersKnowTheLimitAlways == LimiterSpec => []SleepersKnowTheLimit
<1>1. LimiterInv => SleepersKnowTheLimit
    BY DEF LimiterInv
<1> QED BY <1>1, InductiveInvariant, PTL

\* No channel stays registered after its reader went on (ratelimit.go:162-182).
THEOREM WaitersAreBlockedAlways == LimiterSpec => []WaitersAreBlocked
<1>1. LimiterInv => WaitersAreBlocked
    BY DEF LimiterInv
<1> QED BY <1>1, InductiveInvariant, PTL

---------------------------------------------------------------------------
(* The ranges of the parts *)

\* A finite set of integers that is not empty has a least and a greatest element.
LEMMA LeastAndGreatest ==
    ASSUME NEW S, S # {}, IsFiniteSet(S), \A j \in S : j \in Int
    PROVE  /\ \E j \in S : \A k \in S : j <= k
           /\ \E j \in S : \A k \in S : k <= j
  <1>1. FiniteSubsetsOf(S) = SUBSET S /\ IsWellFoundedOn(StrictSubsetOrdering(S), SUBSET S)
    BY FS_FiniteSubsetsOfFinite, FS_StrictSubsetOrderingWellFounded
  <1>2. \E j \in S : \A k \in S : j <= k
    <2> DEFINE below(j) == {k \in S : k < j}
               T == {below(j) : j \in S}
    <2>1. T \subseteq SUBSET S /\ T # {}
      OBVIOUS
    <2> HIDE DEF T
    <2>2. \E x \in T : \A y \in T : <<y, x>> \notin StrictSubsetOrdering(S)
      BY <1>1, <2>1, WFMin
    <2>3. PICK j \in S : \A y \in T : <<y, below(j)>> \notin StrictSubsetOrdering(S)
      BY <2>2 DEF T
    <2>4. ASSUME NEW k \in S, k < j PROVE FALSE
      <3>1. below(k) \in T /\ below(k) \subseteq below(j) /\ below(k) # below(j)
        BY <2>4 DEF T
      <3>2. <<below(k), below(j)>> \in StrictSubsetOrdering(S)
        BY <3>1 DEF StrictSubsetOrdering
      <3>3. QED
        BY <2>3, <3>1, <3>2
    <2>5. QED
      BY <2>4
  <1>3. \E j \in S : \A k \in S : k <= j
    <2> DEFINE above(j) == {k \in S : k > j}
               T == {above(j) : j \in S}
    <2>1. T \subseteq SUBSET S /\ T # {}
      OBVIOUS
    <2> HIDE DEF T
    <2>2. \E x \in T : \A y \in T : <<y, x>> \notin StrictSubsetOrdering(S)
      BY <1>1, <2>1, WFMin
    <2>3. PICK j \in S : \A y \in T : <<y, above(j)>> \notin StrictSubsetOrdering(S)
      BY <2>2 DEF T
    <2>4. ASSUME NEW k \in S, k > j PROVE FALSE
      <3>1. above(k) \in T /\ above(k) \subseteq above(j) /\ above(k) # above(j)
        BY <2>4 DEF T
      <3>2. <<above(k), above(j)>> \in StrictSubsetOrdering(S)
        BY <3>1 DEF StrictSubsetOrdering
      <3>3. QED
        BY <2>3, <3>1, <3>2
    <2>5. QED
      BY <2>4
  <1>4. QED
    BY <1>2, <1>3

\* Every connection count has its slots.
LEMMA SlotsSuffice ==
    ASSUME TransferAssumption
    PROVE  /\ MaxN \in Concurrencies /\ MaxN \in Nat \ {0}
           /\ \A k \in Concurrencies \cup {1} : k \in Nat \ {0} /\ 1..k \subseteq Part
           /\ Part \subseteq Slot /\ 0 \in Slot /\ 0 \notin Part
           /\ \A s \in Slot : s \in Nat
  <1>1. /\ Concurrencies # {} /\ IsFiniteSet(Concurrencies)
        /\ Concurrencies \subseteq Nat \ {0} /\ \A j \in Concurrencies : j \in Int
    BY DEF TransferAssumption
  <1>2. \E k \in Concurrencies : \A m \in Concurrencies : m <= k
    BY <1>1, LeastAndGreatest
  <1>3. MaxN \in Concurrencies /\ \A m \in Concurrencies : m <= MaxN
    BY <1>2 DEF MaxN
  <1>4. QED
    BY <1>1, <1>3 DEF Part, Slot

\* The chunks of a split fit into the file.
LEMMA ChunksFit ==
    ASSUME TransferAssumption, NEW k \in Nat \ {0}
    PROVE  Chunk(k) \in Nat /\ k * Chunk(k) <= Size
  <1>1. Size \in Nat
    BY DEF TransferAssumption
  <1>2. QED
    BY <1>1 DEF Chunk

\* The ranges of the parts are not empty, follow each other and end with the file.
LEMMA Ranges ==
    ASSUME TransferAssumption, NEW k \in Nat \ {0}, Chunk(k) >= 1, NEW s \in 1..k
    PROVE  /\ Lo(k, s) \in Nat /\ Hi(k, s) \in Nat /\ Lo(k, s) <= Hi(k, s) /\ Hi(k, s) < Size
           /\ s = 1 => Lo(k, s) = 0
           /\ s = k => Hi(k, s) = Size - 1
           /\ s < k => Lo(k, s + 1) = Hi(k, s) + 1
  <1> DEFINE c == Chunk(k)
  <1>1. c \in Nat /\ c >= 1 /\ k * c <= Size /\ Size \in Nat
    BY ChunksFit DEF TransferAssumption
  <1>2. Lo(k, s) = (s - 1) * c
    BY DEF Lo
  <1>3. Hi(k, s) = IF s = k THEN Size - 1 ELSE Lo(k, s) + c - 1
    BY DEF Hi
  <1>4. s < k => Lo(k, s + 1) = s * c
    BY DEF Lo
  <1> HIDE DEF c
  <1>5. (s - 1) * c \in Nat /\ (s - 1) * c + c = s * c
    BY <1>1
  <1>6. s * c <= k * c /\ s * c \in Nat /\ k * c \in Nat
    BY <1>1
  <1>7. QED
    BY <1>1, <1>2, <1>3, <1>4, <1>5, <1>6

LEMMA WholeRange ==
    ASSUME TransferAssumption, NEW k
    PROVE  Lo(k, 0) = 0 /\ Hi(k, 0) = Size - 1 /\ Size \in Nat /\ Size > 0
  BY DEF Lo, Hi, TransferAssumption

---------------------------------------------------------------------------
(* The content of the files *)

Content == Seq(0..(Size - 1))

Span(k, s) == Hi(k, s) - Lo(k, s) + 1

\* f is the beginning of part s of k.
Begins(f, k, s) ==
    /\ f \in Content
    /\ Len(f) <= Span(k, s)
    /\ \A i \in 1..Len(f) : f[i] = Lo(k, s) + i - 1

\* The split k into parts, or the whole file as slot 0.
Splits(k, s) == k \in Nat \ {0} /\ (s = 0 \/ (Chunk(k) >= 1 /\ s \in 1..k))

LEMMA SpanFits ==
    ASSUME TransferAssumption, NEW k, NEW s, Splits(k, s)
    PROVE  /\ Lo(k, s) \in Nat /\ Hi(k, s) \in Nat /\ Hi(k, s) < Size
           /\ Span(k, s) \in Nat /\ Span(k, s) > 0 /\ Lo(k, s) + Span(k, s) <= Size
           /\ Hi(k, s) + 1 = Lo(k, s) + Span(k, s)
           /\ s = 0 => Span(k, s) = Size
  BY Ranges, WholeRange DEF Splits, Span

\* PartRange is the content of the whole part.
LEMMA PartRangeIs ==
    ASSUME TransferAssumption, NEW k, NEW s, Splits(k, s)
    PROVE  /\ PartRange(k, s) \in Content
           /\ Len(PartRange(k, s)) = Span(k, s)
           /\ \A i \in 1..Span(k, s) : PartRange(k, s)[i] = Lo(k, s) + i - 1
           /\ s = 0 => PartRange(k, s) = Whole
  <1>1. /\ Lo(k, s) \in Nat /\ Span(k, s) \in Nat /\ Lo(k, s) + Span(k, s) <= Size
        /\ Size \in Nat
    BY SpanFits, WholeRange
  <1>2. PartRange(k, s) = [i \in 1..Span(k, s) |-> Lo(k, s) + i - 1]
    BY DEF PartRange, Span
  <1>3. \A i \in 1..Span(k, s) : Lo(k, s) + i - 1 \in 0..(Size - 1)
    BY <1>1
  <1>4. PartRange(k, s) \in Content /\ Len(PartRange(k, s)) = Span(k, s)
    BY <1>1, <1>2, <1>3 DEF Content
  <1>5. s = 0 => PartRange(k, s) = Whole
    <2>1. s = 0 => Lo(k, s) = 0 /\ Span(k, s) = Size
      BY WholeRange, SpanFits
    <2>2. QED
      BY <1>2, <2>1 DEF Whole
  <1>6. QED
    BY <1>2, <1>4, <1>5

\* A beginning in the sense of the model.
LEMMA BeginningIsPrefix ==
    ASSUME TransferAssumption, NEW k, NEW s, Splits(k, s), NEW f, Begins(f, k, s)
    PROVE  /\ IsPrefixOf(f, PartRange(k, s))
           /\ Len(f) \in Nat
           /\ Len(f) = Span(k, s) => f = PartRange(k, s)
  <1>1. f \in Content /\ Len(f) \in Nat
    BY DEF Begins, Content
  <1>2. IsPrefixOf(f, PartRange(k, s))
    BY <1>1, PartRangeIs DEF Begins, IsPrefixOf
  <1>3. Len(f) = Span(k, s) => f = PartRange(k, s)
    BY <1>1, PartRangeIs DEF Begins, Content
  <1>4. QED
    BY <1>1, <1>2, <1>3

\* The next byte of its range continues a beginning.
LEMMA NextByteContinues ==
    ASSUME TransferAssumption, NEW k, NEW s, Splits(k, s), NEW f, Begins(f, k, s),
           NEW b, b = Lo(k, s) + Len(f), b <= Hi(k, s)
    PROVE  Begins(Append(f, b), k, s) /\ Len(Append(f, b)) = Len(f) + 1
  <1>1. f \in Content /\ Len(f) \in Nat
    BY DEF Begins, Content
  <1>2. b \in 0..(Size - 1)
    <2>1. /\ Lo(k, s) \in Nat /\ Hi(k, s) \in Nat /\ Hi(k, s) < Size /\ Size \in Nat
      BY SpanFits, WholeRange
    <2>2. QED
      BY <1>1, <2>1
  <1>3. /\ Append(f, b) \in Content /\ Len(Append(f, b)) = Len(f) + 1
        /\ \A i \in 1..Len(f) : Append(f, b)[i] = f[i]
        /\ Append(f, b)[Len(f) + 1] = b
    BY <1>1, <1>2 DEF Content
  <1>4. Len(f) + 1 <= Span(k, s)
    BY <1>1, SpanFits DEF Span
  <1>5. \A i \in 1..(Len(f) + 1) : Append(f, b)[i] = Lo(k, s) + i - 1
    <2> TAKE i \in 1..(Len(f) + 1)
    <2>1. CASE i \in 1..Len(f)
      BY <1>3, <2>1 DEF Begins
    <2>2. CASE i = Len(f) + 1
      BY <1>1, <1>3, <2>2, SpanFits
    <2>3. QED
      BY <1>1, <2>1, <2>2
  <1>6. QED
    BY <1>3, <1>4, <1>5 DEF Begins

LEMMA NothingBegins ==
    ASSUME TransferAssumption, NEW k, NEW s, Splits(k, s)
    PROVE  Begins(<<>>, k, s) /\ Len(<<>>) = 0
  BY SpanFits DEF Begins, Content

\* Consecutive offsets, one sequence after the other.
LEMMA OffsetsFollow ==
    ASSUME NEW l \in Nat, NEW m \in Nat, NEW a \in Seq(Int), NEW b \in Seq(Int), NEW c \in Seq(Int),
           Len(a) = l, Len(b) = m, Len(c) = l + m,
           \A i \in 1..l : a[i] = i - 1, \A i \in 1..m : b[i] = l + i - 1,
           \A i \in 1..(l + m) : c[i] = i - 1
    PROVE  a \o b = c
  <1>1. a \o b \in Seq(Int) /\ Len(a \o b) = l + m
    BY ConcatProperties
  <1>2. \A i \in 1..(l + m) : (a \o b)[i] = IF i <= l THEN a[i] ELSE b[i - l]
    BY ConcatProperties
  <1>3. ASSUME NEW i \in 1..(l + m) PROVE (a \o b)[i] = c[i]
    <2>1. CASE i <= l
      BY <1>2, <2>1
    <2>2. CASE i > l
      <3>1. i - l \in 1..m
        BY <2>2
      <3>2. b[i - l] = i - 1
        BY <3>1
      <3>3. QED
        BY <1>2, <2>2, <3>2
    <2>3. QED
      BY <2>1, <2>2
  <1>4. QED
    BY <1>1, <1>3, SeqEqual

\* The parts of a split that are complete make the file, one after the other.
LEMMA JoinedIsWhole ==
    ASSUME TransferAssumption, n \in Nat \ {0}, Chunk(n) >= 1,
           \A s \in 1..n : Begins(file[s], n, s) /\ Len(file[s]) = Span(n, s)
    PROVE  Joined = Whole
  <1> DEFINE pre(m) == [i \in 1..m |-> i - 1]
             upto(s) == IF s = 0 THEN 0 ELSE Hi(n, s) + 1
             F == CHOOSE f : f = [i \in 0..n |-> IF i = 0 THEN <<>> ELSE f[i - 1] \o file[i]]
             G == [i \in 0..n |-> pre(upto(i))]
  <1>1. \A s \in 0..n : upto(s) \in 0..Size
    <2>1. \A s \in 1..n : Hi(n, s) \in Nat /\ Hi(n, s) < Size
      BY Ranges
    <2>2. QED
      BY <2>1, WholeRange
  <1>2. \A s \in 1..n : upto(s - 1) = Lo(n, s) /\ upto(s) = Lo(n, s) + Span(n, s)
    <2> TAKE s \in 1..n
    <2>1. upto(s) = Lo(n, s) + Span(n, s)
      BY SpanFits DEF Splits
    <2>2. CASE s = 1
      BY <2>1, <2>2, Ranges
    <2>3. CASE s # 1
      <3>1. s - 1 \in 1..n /\ s - 1 < n /\ s - 1 # 0
        BY <2>3
      <3>2. Lo(n, (s - 1) + 1) = Hi(n, s - 1) + 1
        BY <3>1, Ranges
      <3>3. (s - 1) + 1 = s
        OBVIOUS
      <3>4. QED
        BY <2>1, <3>1, <3>2, <3>3
    <2>4. QED
      BY <2>2, <2>3
  <1> HIDE DEF upto
  <1>3. \A m \in 0..Size : pre(m) \in Seq(Int) /\ Len(pre(m)) = m
    <2>1. Size \in Nat
      BY WholeRange
    <2>2. QED
      BY <2>1
  <1>4. ASSUME NEW s \in 1..n PROVE pre(upto(s - 1)) \o file[s] = pre(upto(s))
    <2> DEFINE a == pre(upto(s - 1))
               b == file[s]
               c == pre(upto(s))
    <2>1. s - 1 \in 0..n /\ s \in 0..n
      OBVIOUS
    <2>2. /\ a \in Seq(Int) /\ Len(a) = Lo(n, s)
          /\ c \in Seq(Int) /\ Len(c) = Lo(n, s) + Span(n, s)
      BY <1>1, <1>2, <1>3, <2>1
    <2>3. /\ b \in Seq(Int) /\ Len(b) = Span(n, s)
          /\ \A i \in 1..Span(n, s) : b[i] = Lo(n, s) + i - 1
      <3>1. Begins(b, n, s) /\ Len(b) = Span(n, s)
        OBVIOUS
      <3> HIDE DEF b
      <3>2. b \in Content /\ \A i \in 1..Len(b) : b[i] = Lo(n, s) + i - 1
        BY <3>1 DEF Begins
      <3>3. Size \in Nat /\ \A j \in 0..(Size - 1) : j \in Int
        BY WholeRange
      <3>4. b \in Seq(Int)
        BY <3>2, <3>3 DEF Content
      <3>5. QED
        BY <3>1, <3>2, <3>4
    <2>4. /\ Lo(n, s) \in Nat /\ Span(n, s) \in Nat
      BY SpanFits DEF Splits
    <2>5. /\ \A i \in 1..Lo(n, s) : a[i] = i - 1
          /\ \A i \in 1..(Lo(n, s) + Span(n, s)) : c[i] = i - 1
      BY <1>2
    <2> HIDE DEF a, b, c
    <2>8. a \o b = c
      <3> DEFINE l == Lo(n, s)
                 m == Span(n, s)
      <3>1. l \in Nat /\ m \in Nat /\ a \in Seq(Int) /\ b \in Seq(Int) /\ c \in Seq(Int)
        BY <2>2, <2>3, <2>4
      <3>2. Len(a) = l /\ Len(b) = m /\ Len(c) = l + m
        BY <2>2, <2>3
      <3>3. /\ \A i \in 1..l : a[i] = i - 1
            /\ \A i \in 1..m : b[i] = l + i - 1
            /\ \A i \in 1..(l + m) : c[i] = i - 1
        BY <2>3, <2>5
      <3> HIDE DEF l, m
      <3>4. QED
        BY <3>1, <3>2, <3>3, OffsetsFollow
    <2>9. QED
      BY <2>8 DEF a, b, c
  <1>5. G = [i \in 0..n |-> IF i = 0 THEN <<>> ELSE G[i - 1] \o file[i]]
    <2>1. G[0] = <<>> /\ 0 \in 0..n
      BY DEF upto
    <2>2. ASSUME NEW i \in 1..n PROVE G[i] = G[i - 1] \o file[i]
      <3> HIDE DEF pre
      <3> QED BY <1>4, <2>2
    <2> HIDE DEF pre
    <2>3. \A i \in 0..n : G[i] = IF i = 0 THEN <<>> ELSE G[i - 1] \o file[i]
      <3>1. \A i \in 1..n : G[i] = G[i - 1] \o file[i]
        BY <2>2
      <3> HIDE DEF G
      <3>2. TAKE i \in 0..n
      <3>3. i = 0 \/ i \in 1..n
        OBVIOUS
      <3>4. QED
        BY <2>1, <3>1, <3>3
    <2>4. QED
      BY <2>3
  <1> HIDE DEF pre
  <1>6. F = [i \in 0..n |-> IF i = 0 THEN <<>> ELSE F[i - 1] \o file[i]]
    <2> HIDE DEF G
    <2> QED BY <1>5
  <1> HIDE DEF F
  <1>7. \A i \in 0..n : F[i] = G[i]
    <2> DEFINE bad == {i \in 0..n : F[i] # G[i]}
    <2> SUFFICES ASSUME bad # {} PROVE FALSE
      OBVIOUS
    <2>1. IsFiniteSet(bad) /\ \A j \in bad : j \in Int
      <3>1. IsFiniteSet(0..n)
        BY FS_Interval
      <3>2. bad \subseteq 0..n /\ \A j \in 0..n : j \in Int
        OBVIOUS
      <3> HIDE DEF bad
      <3>3. QED
        BY <3>1, <3>2, FS_Subset
    <2>2. PICK j \in bad : \A k \in bad : j <= k
      <3> HIDE DEF bad
      <3> QED BY <2>1, LeastAndGreatest
    <2> HIDE DEF G
    <2>3. j # 0
      BY <1>5, <1>6, <2>2
    <2>4. j - 1 \in 0..n /\ j - 1 \notin bad
      BY <2>2, <2>3
    <2>5. F[j - 1] = G[j - 1]
      BY <2>4
    <2>6. F[j] = G[j]
      BY <1>5, <1>6, <2>2, <2>3, <2>5
    <2>7. QED
      BY <2>2, <2>6
  <1>8. F[n] = Whole
    <2>1. upto(n) = Size
      <3>1. n \in 1..n /\ n # 0
        OBVIOUS
      <3>2. Hi(n, n) = Size - 1 /\ Size \in Nat
        BY <3>1, Ranges, WholeRange
      <3>3. QED
        BY <3>1, <3>2 DEF upto
    <2>2. QED
      BY <1>7, <2>1 DEF Whole, pre
  <1>9. Joined = F[n]
    BY DEF Joined, F
  <1>10. QED
    BY <1>8, <1>9

---------------------------------------------------------------------------
(* The invariant *)

\* A file and the loop that works on it.
LoopState(c, f, k, s) ==
    /\ c.state # "off"
    /\ c.state \in {"ready", "body", "done"} => f # NoFile
    /\ c.state = "ready" => c.pos = Len(f)
    /\ c.state = "body" => c.next = Lo(k, s) + Len(f)
    /\ c.state = "done" => Len(f) = Span(k, s)

\* What a loop has left of its retries.
BudgetOf(c) ==
    /\ c.idle <= Retries + 1
    /\ c.state # "gaveup" => c.idle + c.remaining <= Retries /\ c.idle <= c.attempt

\* The files are functions of the slots; what they hold has the layout on disk.
Shape == file \in [Slot -> Content \cup {NoFile}] /\ (dst # NoFile => dst = Whole)

FilesBegin ==
    /\ \A i \in Part : file[i] # NoFile
                       => layout # 0 /\ i <= layout /\ Begins(file[i], layout, i)
    /\ file[0] # NoFile => Begins(file[0], 1, 0)

\* The split of the run and the one on disk.
Split ==
    /\ layout # 0 => Chunk(layout) >= 1
    /\ phase \notin {"idle", "single"} => Chunk(n) >= 1
    /\ phase = "single" => n = 1
    /\ phase \in {"parts", "assemble", "tidy"} => layout = n
    /\ phase = "tidy" => dst # NoFile

LoopsHold ==
    \A s \in Loops : /\ LoopState(conn[s], file[s], n, s)
                     /\ conn[s].state = "stopped" => Stopped \/ failed

\* What is assembled is complete.
Assembly ==
    phase = "assemble"
    => file[0] # NoFile /\ \A s \in 1..n : file[s] # NoFile /\ Len(file[s]) = Span(n, s)

Budget == \A s \in Slot : BudgetOf(conn[s])

TInv ==
    /\ TypeOK /\ Shape /\ FilesBegin /\ Split /\ LoopsHold /\ Assembly /\ Budget

Ctx == {"live", "cancelled", "paused", "aborted", "killed"}
ConnStates == {"off", "open", "ready", "body", "done", "stopped", "gaveup"}

LEMMA CeilingIsNat == ASSUME TransferAssumption PROVE Ceiling \in Nat /\ Retries \in Nat
  <1>1. Retries \in Nat /\ MaxAttemptsPerRetry \in Nat
    BY DEF TransferAssumption
  <1>2. (Retries + 1) * MaxAttemptsPerRetry \in Nat
    BY <1>1
  <1>3. QED
    BY <1>1, <1>2 DEF Ceiling

LEMMA ConnAtIsConn ==
    ASSUME TransferAssumption, NEW st \in ConnStates, NEW pos \in 0..Size
    PROVE  ConnAt(st, pos) \in Conn /\ BudgetOf(ConnAt(st, pos))
           /\ ConnAt(st, pos).state = st /\ ConnAt(st, pos).pos = pos
  <1>1. Ceiling \in Nat /\ Retries \in Nat /\ Size \in Nat
    BY CeilingIsNat, WholeRange
  <1>2. 0 \in 0..Size /\ Retries \in 0..Retries /\ 0 \in 0..Ceiling /\ 0 \in 0..(Ceiling + 1)
    BY <1>1
  <1>3. ConnAt(st, pos) \in Conn
    BY <1>2 DEF ConnAt, Conn, ConnStates
  <1>4. BudgetOf(ConnAt(st, pos))
    BY <1>1 DEF ConnAt, BudgetOf
  <1>5. QED
    BY <1>3, <1>4 DEF ConnAt

LEMMA OffIsConn ==
    ASSUME TransferAssumption
    PROVE  Off \in [Slot -> Conn] /\ \A s \in Slot : BudgetOf(Off[s])
  <1>1. "off" \in ConnStates /\ 0 \in 0..Size
    BY WholeRange DEF ConnStates
  <1>2. ConnAt("off", 0) \in Conn /\ BudgetOf(ConnAt("off", 0))
    BY <1>1, ConnAtIsConn
  <1>3. QED
    BY <1>2 DEF Off

LEMMA WholeIsContent == ASSUME TransferAssumption PROVE Whole \in Content
  <1>1. Splits(1, 0)
    BY DEF Splits
  <1>2. QED
    BY <1>1, PartRangeIs

\* The types after a step.
LEMMA Typed ==
    ASSUME TransferAssumption, Shape',
           layout' \in Concurrencies \cup {0, 1},
           phase' \in {"idle", "head", "prepare", "wipe", "parts", "single",
                       "assemble", "tidy"},
           n' \in Concurrencies \cup {1}, ctx' \in Ctx, failed' \in BOOLEAN,
           conn' \in [Slot -> Conn], runs' \in 0..MaxRuns
    PROVE  TypeOK'
  <1>1. \A s \in Slot : file'[s] = NoFile \/ file'[s] \in Content
    BY DEF Shape
  <1>2. dst' = NoFile \/ dst' \in Content
    BY WholeIsContent DEF Shape
  <1>3. QED
    BY <1>1, <1>2 DEF TypeOK, Content, Ctx

LEMMA TransferTypes ==
    ASSUME TransferAssumption, TInv
    PROVE  /\ layout \in Concurrencies \cup {0, 1} /\ layout \in Nat
           /\ phase \in {"idle", "head", "prepare", "wipe", "parts", "single",
                         "assemble", "tidy"}
           /\ n \in Concurrencies \cup {1} /\ n \in Nat \ {0} /\ 1..n \subseteq Part
           /\ ctx \in Ctx /\ failed \in BOOLEAN
           /\ conn \in [Slot -> Conn] /\ runs \in 0..MaxRuns
           /\ file \in [Slot -> Content \cup {NoFile}]
           /\ dst \in {NoFile, Whole}
           /\ Part \subseteq Slot /\ 0 \in Slot /\ 0 \notin Part
           /\ NoFile \notin Content /\ <<>> \in Content /\ \A s \in Slot : s \in Nat
  <1>1. NoFile \notin Content /\ <<>> \in Content
    BY DEF TransferAssumption, Content
  <1>2. QED
    BY <1>1, SlotsSuffice DEF TInv, TypeOK, Shape, Ctx

\* A loop, its file and its range.
LEMMA LoopFacts ==
    ASSUME TransferAssumption, TInv, NEW s \in Loops
    PROVE  /\ s \in Slot /\ Splits(n, s)
           /\ file[s] \in Content \cup {NoFile}
           /\ file[s] # NoFile => Begins(file[s], n, s)
           /\ conn[s] \in Conn /\ LoopState(conn[s], file[s], n, s) /\ BudgetOf(conn[s])
           /\ conn[s].state = "stopped" => Stopped \/ failed
  <1>1. CASE phase = "single"
    <2>1. s = 0 /\ n = 1
      BY <1>1 DEF Loops, TInv, Split
    <2>2. QED
      BY <2>1, TransferTypes DEF TInv, LoopsHold, Budget, FilesBegin, Splits
  <1>2. CASE phase = "parts"
    <2>1. s \in 1..n /\ layout = n /\ Chunk(n) >= 1
      BY <1>2 DEF Loops, TInv, Split
    <2>2. s \in Part /\ s \in Slot
      BY <2>1, TransferTypes
    <2>3. QED
      BY <2>1, <2>2, TransferTypes DEF TInv, LoopsHold, Budget, FilesBegin, Splits
  <1>3. QED
    BY <1>1, <1>2 DEF Loops

\* Files that are taken away disturb nothing; a layout goes after its parts.
LEMMA FewerFiles ==
    ASSUME TransferAssumption, TInv,
           file' \in [Slot -> Content \cup {NoFile}],
           \A s \in Slot : file'[s] \in {file[s], NoFile},
           \/ layout' = layout
           \/ layout' = 0 /\ \A i \in Part : file'[i] = NoFile,
           dst' \in {NoFile, Whole}
    PROVE  /\ Shape' /\ FilesBegin'
           /\ layout' \in Concurrencies \cup {0, 1}
           /\ layout' # 0 => Chunk(layout') >= 1
  <1>1. Shape'
    BY DEF Shape
  <1>2. FilesBegin'
    <2>1. ASSUME NEW i \in Part, file'[i] # NoFile
          PROVE  layout' # 0 /\ i <= layout' /\ Begins(file'[i], layout', i)
      <3>1. file'[i] = file[i] /\ layout' = layout
        BY <2>1, TransferTypes
      <3>2. QED
        BY <2>1, <3>1 DEF TInv, FilesBegin
    <2>2. file'[0] # NoFile => Begins(file'[0], 1, 0)
      BY TransferTypes DEF TInv, FilesBegin
    <2>3. QED
      BY <2>1, <2>2 DEF FilesBegin
  <1>3. QED
    BY <1>1, <1>2, TransferTypes DEF TInv, Split

\* The end of a run.
LEMMA RunEnds ==
    ASSUME TransferAssumption, TInv, phase' = "idle", conn' = Off, n' = n,
           ctx' \in Ctx, failed' \in BOOLEAN, runs' = runs,
           file' \in [Slot -> Content \cup {NoFile}],
           \A s \in Slot : file'[s] \in {file[s], NoFile},
           \/ layout' = layout
           \/ layout' = 0 /\ \A i \in Part : file'[i] = NoFile,
           dst' \in {NoFile, Whole}
    PROVE  TInv'
  <1>1. Shape' /\ FilesBegin' /\ layout' \in Concurrencies \cup {0, 1}
        /\ (layout' # 0 => Chunk(layout') >= 1)
    BY FewerFiles
  <1>2. TypeOK'
    <2>1. /\ n' \in Concurrencies \cup {1} /\ conn' \in [Slot -> Conn] /\ runs' \in 0..MaxRuns
      BY TransferTypes, OffIsConn
    <2>2. QED
      BY <1>1, <2>1, Typed
  <1>3. Split' /\ LoopsHold' /\ Assembly'
    BY <1>1 DEF Split, LoopsHold, Loops, Assembly, Chunk
  <1>4. Budget'
    BY OffIsConn DEF Budget
  <1>5. QED
    BY <1>1, <1>2, <1>3, <1>4 DEF TInv

\* A step of one loop, with its file.
LEMMA LoopMoves ==
    ASSUME TransferAssumption, TInv, NEW s \in Loops, NEW c \in Conn,
           NEW f \in Content \cup {NoFile},
           file' = [file EXCEPT ![s] = f], conn' = [conn EXCEPT ![s] = c],
           UNCHANGED <<layout, dst, phase, n, ctx, runs>>,
           failed' \in BOOLEAN, failed => failed',
           f # NoFile => Begins(f, n, s),
           LoopState(c, f, n, s), BudgetOf(c), c.state = "stopped" => Stopped \/ failed'
    PROVE  TInv'
  <1>0. /\ UNCHANGED layout /\ UNCHANGED dst /\ UNCHANGED phase /\ UNCHANGED n
        /\ UNCHANGED ctx /\ UNCHANGED runs
    OBVIOUS
  <1>1. s \in Slot /\ (phase = "single" => s = 0) /\ (phase = "parts" => s \in 1..n)
        /\ phase \in {"single", "parts"}
    BY LoopFacts DEF Loops
  <1>2. /\ file' \in [Slot -> Content \cup {NoFile}] /\ conn' \in [Slot -> Conn]
        /\ file'[s] = f /\ conn'[s] = c
        /\ \A t \in Slot : t # s => file'[t] = file[t] /\ conn'[t] = conn[t]
    BY <1>1, TransferTypes
  <1>3. Shape'
    BY <1>0, <1>2 DEF TInv, Shape
  <1>4. TypeOK'
    BY <1>0, <1>2, <1>3, Typed, TransferTypes
  <1>5. FilesBegin'
    <2>1. CASE phase = "single"
      <3>1. s = 0 /\ n = 1
        BY <1>1, <2>1 DEF TInv, Split
      <3>2. \A i \in Part : file'[i] = file[i]
        BY <1>2, <3>1, TransferTypes
      <3>3. file'[0] # NoFile => Begins(file'[0], 1, 0)
        BY <1>2, <3>1
      <3>4. QED
        BY <1>0, <3>2, <3>3 DEF TInv, FilesBegin
    <2>2. CASE phase = "parts"
      <3>1. s \in 1..n /\ layout = n /\ n # 0 /\ s <= n /\ s \in Part
        BY <1>1, <2>2, TransferTypes DEF TInv, Split
      <3>2. file'[0] = file[0]
        BY <1>2, <3>1, TransferTypes
      <3>3. ASSUME NEW i \in Part, file'[i] # NoFile
            PROVE  layout # 0 /\ i <= layout /\ Begins(file'[i], layout, i)
        <4>1. CASE i = s
          BY <1>2, <3>1, <3>3, <4>1
        <4>2. CASE i # s
          <5>1. file'[i] = file[i]
            BY <1>2, <4>2, TransferTypes
          <5>2. QED
            BY <3>3, <5>1 DEF TInv, FilesBegin
        <4>3. QED
          BY <4>1, <4>2
      <3>4. QED
        BY <1>0, <3>2, <3>3 DEF TInv, FilesBegin
    <2>3. QED
      BY <1>1, <2>1, <2>2
  <1>6. Split' /\ Assembly'
    BY <1>0, <1>1 DEF TInv, Split, Assembly
  <1>7. LoopsHold'
    <2>1. Loops' = Loops
      BY <1>0 DEF Loops
    <2>2. ASSUME NEW t \in Loops
          PROVE  LoopState(conn'[t], file'[t], n, t)
                 /\ (conn'[t].state = "stopped" => Stopped \/ failed')
      <3>1. t \in Slot /\ LoopState(conn[t], file[t], n, t)
            /\ (conn[t].state = "stopped" => Stopped \/ failed)
        BY LoopFacts
      <3>2. QED
        BY <1>2, <3>1
    <2>3. Stopped' = Stopped
      BY <1>0 DEF Stopped
    <2>4. QED
      BY <1>0, <2>1, <2>2, <2>3 DEF LoopsHold
  <1>8. Budget'
    BY <1>2 DEF TInv, Budget
  <1>9. QED
    BY <1>3, <1>4, <1>5, <1>6, <1>7, <1>8 DEF TInv

\* The files stay as they are.
LEMMA LoopMovesAlone ==
    ASSUME TransferAssumption, TInv, NEW s \in Loops, NEW c \in Conn,
           UNCHANGED <<disk, phase, n, ctx, runs>>, conn' = [conn EXCEPT ![s] = c],
           failed' \in BOOLEAN, failed => failed',
           LoopState(c, file[s], n, s), BudgetOf(c), c.state = "stopped" => Stopped \/ failed'
    PROVE  TInv'
  <1>1. file' = [file EXCEPT ![s] = file[s]]
    BY TransferTypes DEF disk
  <1>2. UNCHANGED <<layout, dst, phase, n, ctx, runs>>
    BY DEF disk
  <1>3. file[s] \in Content \cup {NoFile} /\ (file[s] # NoFile => Begins(file[s], n, s))
    BY LoopFacts
  <1>4. QED
    BY <1>1, <1>2, <1>3, LoopMoves

\* What becomes of a loop whose attempt failed.
LEMMA AfterFailureIs ==
    ASSUME TransferAssumption, TInv, NEW s \in Loops, conn[s].state \in {"ready", "body"}
    PROVE  LET c == AfterFailure(s, conn[s])
           IN  /\ c \in Conn /\ BudgetOf(c) /\ LoopState(c, file[s], n, s)
               /\ c.state \in {"ready", "gaveup"}
  <1> DEFINE d == conn[s]
             pos == IF d.state = "body" THEN PosAfter(s, d) ELSE d.pos
             adv == Advanced(pos, d)
             spare == IF adv THEN Retries ELSE d.remaining
             idle == IF adv THEN 0 ELSE d.idle + 1
             hwm == IF pos > d.hwm THEN pos ELSE d.hwm
             go == ~(spare = 0 \/ d.attempt >= Ceiling)
  <1>1. /\ d \in Conn /\ LoopState(d, file[s], n, s) /\ BudgetOf(d)
        /\ file[s] \in Content \cup {NoFile} /\ Splits(n, s)
        /\ (file[s] # NoFile => Begins(file[s], n, s))
    BY LoopFacts
  <1>2. file[s] # NoFile /\ file[s] \in Content /\ Begins(file[s], n, s)
    BY <1>1 DEF LoopState
  <1>3. Len(file[s]) \in 0..Size /\ Size \in Nat
    <2>1. Len(file[s]) \in Nat /\ Len(file[s]) <= Span(n, s)
      BY <1>1, <1>2, BeginningIsPrefix DEF Begins
    <2>2. Span(n, s) <= Size /\ Span(n, s) \in Nat /\ Size \in Nat
      BY <1>1, SpanFits, WholeRange
    <2>3. QED
      BY <2>1, <2>2
  <1>4. pos = Len(file[s]) /\ pos \in 0..Size
    BY <1>1, <1>3 DEF LoopState, PosAfter
  <1>5. /\ d.hwm \in 0..Size /\ d.next \in 0..Size /\ d.remaining \in 0..Retries
        /\ d.attempt \in 0..Ceiling /\ d.idle \in 0..(Ceiling + 1)
    BY <1>1 DEF Conn
  <1>6. Ceiling \in Nat /\ Retries \in Nat
    BY CeilingIsNat
  <1>7. d.idle <= Retries + 1 /\ d.idle + d.remaining <= Retries /\ d.idle <= d.attempt
    BY <1>1 DEF BudgetOf
  <1>8. AfterFailure(s, d) =
          [state |-> IF go THEN "ready" ELSE "gaveup", pos |-> pos, hwm |-> hwm,
           next |-> d.next, restarted |-> FALSE,
           remaining |-> IF go THEN spare - 1 ELSE spare,
           attempt |-> IF go THEN d.attempt + 1 ELSE d.attempt, idle |-> idle]
    BY <1>1 DEF AfterFailure, Advanced, Conn
  <1> HIDE DEF d, pos, adv
  <1>9. /\ hwm \in 0..Size /\ spare \in 0..Retries /\ idle \in 0..(Ceiling + 1)
        /\ go => spare - 1 \in 0..Retries /\ d.attempt + 1 \in 0..Ceiling
        /\ idle <= Retries + 1
        /\ go => idle + (spare - 1) <= Retries /\ idle <= d.attempt + 1
    <2>1. hwm \in 0..Size
      BY <1>4, <1>5
    <2> HIDE DEF hwm
    <2>2. spare \in 0..Retries /\ idle \in 0..(Ceiling + 1) /\ idle <= Retries + 1
          /\ idle <= d.attempt + 1
      <3>1. CASE adv
        BY <1>5, <1>6, <3>1
      <3>2. CASE ~adv
        BY <1>5, <1>6, <1>7, <3>2
      <3>3. QED
        BY <3>1, <3>2
    <2>3. idle + (spare - 1) <= Retries
      <3>1. CASE adv
        BY <1>5, <1>6, <3>1
      <3>2. CASE ~adv
        BY <1>5, <1>6, <1>7, <3>2
      <3>3. QED
        BY <3>1, <3>2
    <2> HIDE DEF spare, idle
    <2>4. go => spare - 1 \in 0..Retries /\ d.attempt + 1 \in 0..Ceiling
      BY <1>5, <1>6, <2>2
    <2>5. QED
      BY <2>1, <2>2, <2>3, <2>4
  <1> HIDE DEF hwm, spare, idle, go
  <1>10. AfterFailure(s, d) \in Conn
    BY <1>4, <1>5, <1>8, <1>9 DEF Conn
  <1>11. BudgetOf(AfterFailure(s, d))
    BY <1>8, <1>9 DEF BudgetOf
  <1>12. LoopState(AfterFailure(s, d), file[s], n, s)
    BY <1>2, <1>4, <1>8 DEF LoopState
  <1>13. AfterFailure(s, d).state \in {"ready", "gaveup"}
    BY <1>8
  <1>14. QED
    BY <1>10, <1>11, <1>12, <1>13 DEF d

---------------------------------------------------------------------------
(* The steps *)

\* A loop and its file, opened.
LEMMA Opened ==
    ASSUME TransferAssumption, NEW k, NEW s, Splits(k, s),
           NEW f \in Content, Begins(f, k, s), NEW st \in {"ready", "done"},
           st = "done" => Len(f) = Span(k, s)
    PROVE  /\ ConnAt(st, Len(f)) \in Conn /\ BudgetOf(ConnAt(st, Len(f)))
           /\ LoopState(ConnAt(st, Len(f)), f, k, s)
           /\ ConnAt(st, Len(f)).state # "stopped"
  <1>1. Len(f) \in 0..Size
    <2>1. Len(f) \in Nat /\ Len(f) <= Span(k, s)
      BY BeginningIsPrefix DEF Begins
    <2>2. Span(k, s) <= Size /\ Span(k, s) \in Nat /\ Size \in Nat
      BY SpanFits, WholeRange
    <2>3. QED
      BY <2>1, <2>2
  <1>2. /\ ConnAt(st, Len(f)) \in Conn /\ BudgetOf(ConnAt(st, Len(f)))
        /\ ConnAt(st, Len(f)).state = st /\ ConnAt(st, Len(f)).pos = Len(f)
    BY <1>1, ConnAtIsConn DEF ConnStates
  <1>3. f # NoFile
    BY DEF TransferAssumption, Content
  <1>4. QED
    BY <1>2, <1>3 DEF LoopState

LEMMA OpenPartKeeps ==
    ASSUME TransferAssumption, TInv, NEW s \in Slot, OpenPart(s) PROVE TInv'
  <1> DEFINE held == IF file[s] = NoFile THEN <<>> ELSE file[s]
             kept == IF Len(held) > Span(n, s) THEN <<>> ELSE held
             st == IF Len(kept) = Span(n, s) THEN "done" ELSE "ready"
             c == ConnAt(st, Len(kept))
  <1>1. s \in Loops
    BY DEF OpenPart, Loops
  <1>2. Splits(n, s) /\ file[s] \in Content \cup {NoFile}
        /\ (file[s] # NoFile => Begins(file[s], n, s))
    BY <1>1, LoopFacts
  <1>3. Begins(kept, n, s) /\ kept \in Content
    BY <1>2, NothingBegins, TransferTypes
  <1>4. /\ file' = [file EXCEPT ![s] = kept] /\ conn' = [conn EXCEPT ![s] = c]
        /\ UNCHANGED <<layout, dst, phase, n, ctx, runs>> /\ failed' = failed
    BY DEF OpenPart, SetFile, SetConn, Span
  <1> HIDE DEF kept
  <1>5. /\ c \in Conn /\ BudgetOf(c) /\ LoopState(c, kept, n, s) /\ c.state # "stopped"
    <2>1. st \in {"ready", "done"} /\ (st = "done" => Len(kept) = Span(n, s))
      OBVIOUS
    <2> HIDE DEF st
    <2>2. QED
      BY <1>2, <1>3, <2>1, Opened
  <1> HIDE DEF c
  <1>6. failed' \in BOOLEAN
    BY <1>4, TransferTypes
  <1>7. QED
    BY <1>1, <1>3, <1>4, <1>5, <1>6, LoopMoves

LEMMA OpenSingleKeeps ==
    ASSUME TransferAssumption, TInv, OpenSingle PROVE TInv'
  <1> DEFINE held == IF file[0] = NoFile THEN <<>> ELSE file[0]
             kept == IF Len(held) > Size THEN <<>> ELSE held
             c == ConnAt("ready", Len(kept))
  <1>1. 0 \in Loops
    BY DEF OpenSingle, Loops
  <1>2. Splits(n, 0) /\ file[0] \in Content \cup {NoFile}
        /\ (file[0] # NoFile => Begins(file[0], n, 0))
    BY <1>1, LoopFacts
  <1>3. Begins(kept, n, 0) /\ kept \in Content
    BY <1>2, NothingBegins, TransferTypes
  <1>4. CASE Len(kept) = Size
    <2>1. dst' = kept /\ SetFile(0, NoFile) /\ EndRun /\ UNCHANGED layout
      BY <1>4 DEF OpenSingle
    <2> HIDE DEF kept
    <2>2. kept = Whole
      BY <1>2, <1>3, <1>4, BeginningIsPrefix, PartRangeIs, SpanFits
    <2>3. /\ file' \in [Slot -> Content \cup {NoFile}]
          /\ \A s \in Slot : file'[s] \in {file[s], NoFile}
      BY <2>1, TransferTypes DEF SetFile
    <2>4. /\ phase' = "idle" /\ conn' = Off /\ n' = n /\ ctx' \in Ctx /\ failed' \in BOOLEAN
          /\ runs' = runs
      BY <2>1, TransferTypes DEF EndRun
    <2>5. QED
      BY <2>1, <2>2, <2>3, <2>4, RunEnds
  <1>5. CASE Len(kept) # Size
    <2>1. /\ file' = [file EXCEPT ![0] = kept] /\ conn' = [conn EXCEPT ![0] = c]
          /\ UNCHANGED <<layout, dst, phase, n, ctx, runs>> /\ failed' = failed
      BY <1>5 DEF OpenSingle, SetFile, SetConn
    <2> HIDE DEF kept
    <2>2. /\ c \in Conn /\ BudgetOf(c) /\ LoopState(c, kept, n, 0) /\ c.state # "stopped"
      BY <1>2, <1>3, Opened
    <2> HIDE DEF c
    <2>3. failed' \in BOOLEAN
      BY <2>1, TransferTypes
    <2>4. QED
      BY <1>1, <1>3, <2>1, <2>2, <2>3, LoopMoves
  <1>6. QED
    BY <1>4, <1>5

LEMMA AnswerRangeKeeps ==
    ASSUME TransferAssumption, TInv, NEW s \in Slot, AnswerRange(s) PROVE TInv'
  <1> DEFINE c == [conn[s] EXCEPT !.state = "body", !.next = Lo(n, s) + conn[s].pos]
  <1>1. s \in Loops /\ conn[s].state = "ready"
    BY DEF AnswerRange
  <1>2. /\ conn[s] \in Conn /\ LoopState(conn[s], file[s], n, s) /\ BudgetOf(conn[s])
        /\ Splits(n, s) /\ file[s] # NoFile /\ Begins(file[s], n, s)
        /\ conn[s].pos = Len(file[s])
    BY <1>1, LoopFacts DEF LoopState
  <1>3. Lo(n, s) + conn[s].pos \in 0..Size
    <2>1. Len(file[s]) \in Nat /\ Len(file[s]) <= Span(n, s)
      BY <1>2, BeginningIsPrefix DEF Begins
    <2>2. /\ Lo(n, s) \in Nat /\ Span(n, s) \in Nat /\ Lo(n, s) + Span(n, s) <= Size
          /\ Size \in Nat
      BY <1>2, SpanFits, WholeRange
    <2>3. QED
      BY <1>2, <2>1, <2>2
  <1>4. c \in Conn /\ c.state = "body" /\ c.next = Lo(n, s) + Len(file[s])
        /\ c.idle = conn[s].idle /\ c.remaining = conn[s].remaining
        /\ c.attempt = conn[s].attempt
    BY <1>2, <1>3 DEF Conn
  <1>5. /\ UNCHANGED <<disk, phase, n, ctx, runs>> /\ conn' = [conn EXCEPT ![s] = c]
        /\ failed' = failed
    BY DEF AnswerRange, SetConn
  <1> HIDE DEF c
  <1>6. BudgetOf(c) /\ LoopState(c, file[s], n, s)
    BY <1>1, <1>2, <1>4 DEF BudgetOf, LoopState
  <1>7. failed' \in BOOLEAN
    BY <1>5, TransferTypes
  <1>8. QED
    BY <1>1, <1>4, <1>5, <1>6, <1>7, LoopMovesAlone

LEMMA AnswerWholeKeeps ==
    ASSUME TransferAssumption, TInv, AnswerWhole PROVE TInv'
  <1> DEFINE c == [conn[0] EXCEPT !.state = "body", !.next = 0, !.restarted = TRUE]
  <1>1. 0 \in Loops /\ conn[0].state = "ready"
    BY DEF AnswerWhole, Loops
  <1>2. /\ conn[0] \in Conn /\ BudgetOf(conn[0]) /\ Splits(n, 0)
    BY <1>1, LoopFacts
  <1>3. 0 \in 0..Size /\ Lo(n, 0) = 0
    BY WholeRange
  <1>4. c \in Conn /\ c.state = "body" /\ c.next = 0
        /\ c.idle = conn[0].idle /\ c.remaining = conn[0].remaining
        /\ c.attempt = conn[0].attempt
    BY <1>2, <1>3 DEF Conn
  <1>5. /\ file' = [file EXCEPT ![0] = <<>>] /\ conn' = [conn EXCEPT ![0] = c]
        /\ UNCHANGED <<layout, dst, phase, n, ctx, runs>> /\ failed' = failed
    BY DEF AnswerWhole, SetConn, SetFile
  <1> HIDE DEF c
  <1>6. /\ BudgetOf(c) /\ <<>> \in Content /\ <<>> # NoFile
        /\ Begins(<<>>, n, 0) /\ Len(<<>>) = 0
    BY <1>1, <1>2, <1>4, NothingBegins, TransferTypes DEF BudgetOf
  <1>7. LoopState(c, <<>>, n, 0)
    BY <1>3, <1>4, <1>6 DEF LoopState
  <1>8. failed' \in BOOLEAN
    BY <1>5, TransferTypes
  <1>9. QED
    BY <1>1, <1>4, <1>5, <1>6, <1>7, <1>8, LoopMoves

LEMMA ReceiveKeeps ==
    ASSUME TransferAssumption, TInv, NEW s \in Slot, Receive(s) PROVE TInv'
  <1> DEFINE c == [conn[s] EXCEPT !.next = conn[s].next + 1]
             f == Append(file[s], conn[s].next)
  <1>1. s \in Loops /\ conn[s].state = "body" /\ conn[s].next <= Hi(n, s)
    BY DEF Receive
  <1>2. /\ conn[s] \in Conn /\ LoopState(conn[s], file[s], n, s) /\ BudgetOf(conn[s])
        /\ Splits(n, s) /\ file[s] # NoFile /\ Begins(file[s], n, s)
        /\ conn[s].next = Lo(n, s) + Len(file[s])
    BY <1>1, LoopFacts DEF LoopState
  <1>3. Begins(f, n, s) /\ Len(f) = Len(file[s]) + 1 /\ Len(file[s]) \in Nat
    BY <1>1, <1>2, NextByteContinues, BeginningIsPrefix
  <1>4. /\ Lo(n, s) \in Nat /\ Hi(n, s) \in Nat /\ Hi(n, s) < Size /\ Size \in Nat
    BY <1>2, SpanFits, WholeRange
  <1>5. conn[s].next + 1 \in 0..Size /\ conn[s].next + 1 = Lo(n, s) + Len(f)
    BY <1>1, <1>2, <1>3, <1>4
  <1>6. c \in Conn /\ c.state = "body" /\ c.next = Lo(n, s) + Len(f)
        /\ c.idle = conn[s].idle /\ c.remaining = conn[s].remaining
        /\ c.attempt = conn[s].attempt
    BY <1>1, <1>2, <1>5 DEF Conn
  <1>7. /\ file' = [file EXCEPT ![s] = f] /\ conn' = [conn EXCEPT ![s] = c]
        /\ UNCHANGED <<layout, dst, phase, n, ctx, runs>> /\ failed' = failed
    BY DEF Receive, SetConn, SetFile
  <1> HIDE DEF c, f
  <1>8. f \in Content /\ f # NoFile
    BY <1>3, TransferTypes DEF Begins
  <1>9. BudgetOf(c) /\ LoopState(c, f, n, s)
    BY <1>1, <1>2, <1>6, <1>8 DEF BudgetOf, LoopState
  <1>10. failed' \in BOOLEAN
    BY <1>7, TransferTypes
  <1>11. QED
    BY <1>1, <1>3, <1>6, <1>7, <1>8, <1>9, <1>10, LoopMoves

LEMMA PartDoneKeeps ==
    ASSUME TransferAssumption, TInv, NEW s \in Slot, PartDone(s) PROVE TInv'
  <1> DEFINE c == [conn[s] EXCEPT !.state = "done"]
  <1>1. s \in Loops /\ conn[s].state = "body" /\ conn[s].next > Hi(n, s)
    BY DEF PartDone, Loops
  <1>2. /\ conn[s] \in Conn /\ LoopState(conn[s], file[s], n, s) /\ BudgetOf(conn[s])
        /\ Splits(n, s) /\ file[s] # NoFile /\ Begins(file[s], n, s)
        /\ conn[s].next = Lo(n, s) + Len(file[s])
    BY <1>1, LoopFacts DEF LoopState
  <1>3. Len(file[s]) = Span(n, s)
    <2>1. Len(file[s]) \in Nat /\ Len(file[s]) <= Span(n, s)
      BY <1>2, BeginningIsPrefix DEF Begins
    <2>2. /\ Lo(n, s) \in Nat /\ Hi(n, s) \in Nat /\ Span(n, s) \in Nat
          /\ Hi(n, s) + 1 = Lo(n, s) + Span(n, s)
      BY <1>2, SpanFits
    <2>3. QED
      BY <1>1, <1>2, <2>1, <2>2
  <1>4. c \in Conn /\ c.state = "done"
        /\ c.idle = conn[s].idle /\ c.remaining = conn[s].remaining
        /\ c.attempt = conn[s].attempt
    BY <1>2 DEF Conn
  <1>5. /\ UNCHANGED <<disk, phase, n, ctx, runs>> /\ conn' = [conn EXCEPT ![s] = c]
        /\ failed' = failed
    BY DEF PartDone, SetConn
  <1> HIDE DEF c
  <1>6. BudgetOf(c) /\ LoopState(c, file[s], n, s)
    BY <1>1, <1>2, <1>3, <1>4 DEF BudgetOf, LoopState
  <1>7. failed' \in BOOLEAN
    BY <1>5, TransferTypes
  <1>8. QED
    BY <1>1, <1>4, <1>5, <1>6, <1>7, LoopMovesAlone

\* A run that ends with its files, or with those of a cancelled job gone.
LEMMA EndsAsItIs ==
    ASSUME TransferAssumption, TInv, UNCHANGED disk, EndRun PROVE TInv'
  <1>1. /\ file' \in [Slot -> Content \cup {NoFile}] /\ layout' = layout
        /\ \A s \in Slot : file'[s] \in {file[s], NoFile}
        /\ dst' \in {NoFile, Whole}
    BY TransferTypes DEF disk
  <1>2. /\ phase' = "idle" /\ conn' = Off /\ n' = n /\ ctx' \in Ctx /\ failed' \in BOOLEAN
        /\ runs' = runs
    BY TransferTypes DEF EndRun
  <1>3. QED
    BY <1>1, <1>2, RunEnds

LEMMA StopRunKeeps ==
    ASSUME TransferAssumption, TInv, StopRun PROVE TInv'
  <1>1. CASE UNCHANGED <<file, layout>>
    BY <1>1, EndsAsItIs DEF StopRun, disk
  <1>2. CASE file' = [s \in Slot |-> NoFile] /\ layout' = 0
    <2>1. /\ file' \in [Slot -> Content \cup {NoFile}]
          /\ \A s \in Slot : file'[s] \in {file[s], NoFile}
          /\ \A i \in Part : file'[i] = NoFile
      BY <1>2, TransferTypes
    <2>2. /\ phase' = "idle" /\ conn' = Off /\ n' = n /\ ctx' \in Ctx /\ failed' \in BOOLEAN
          /\ runs' = runs /\ dst' \in {NoFile, Whole}
      BY TransferTypes DEF EndRun, StopRun
    <2>3. QED
      BY <1>2, <2>1, <2>2, RunEnds
  <1>3. QED
    BY <1>1, <1>2 DEF StopRun, CleanupPartialsOnCancel

LEMMA SingleDoneKeeps ==
    ASSUME TransferAssumption, TInv, SingleDone PROVE TInv'
  <1>1. 0 \in Loops /\ conn[0].state = "body" /\ conn[0].next > Hi(n, 0)
    BY DEF SingleDone, Loops
  <1>2. /\ LoopState(conn[0], file[0], n, 0) /\ Splits(n, 0) /\ file[0] # NoFile
        /\ Begins(file[0], n, 0) /\ conn[0].next = Lo(n, 0) + Len(file[0])
    BY <1>1, LoopFacts DEF LoopState
  <1>3. file[0] = Whole
    <2>1. Len(file[0]) \in Nat /\ Len(file[0]) <= Span(n, 0)
      BY <1>2, BeginningIsPrefix DEF Begins
    <2>2. /\ Lo(n, 0) \in Nat /\ Hi(n, 0) \in Nat /\ Span(n, 0) \in Nat
          /\ Hi(n, 0) + 1 = Lo(n, 0) + Span(n, 0)
      BY <1>2, SpanFits
    <2>3. Len(file[0]) = Span(n, 0)
      BY <1>1, <1>2, <2>1, <2>2
    <2>4. QED
      BY <1>2, <2>3, BeginningIsPrefix, PartRangeIs
  <1>4. /\ file' \in [Slot -> Content \cup {NoFile}]
        /\ \A s \in Slot : file'[s] \in {file[s], NoFile}
        /\ dst' \in {NoFile, Whole} /\ layout' = layout
    BY <1>3, TransferTypes DEF SingleDone, SetFile
  <1>5. /\ phase' = "idle" /\ conn' = Off /\ n' = n /\ ctx' \in Ctx /\ failed' \in BOOLEAN
        /\ runs' = runs
    BY TransferTypes DEF EndRun, SingleDone
  <1>6. QED
    BY <1>4, <1>5, RunEnds

LEMMA AttemptFailsKeeps ==
    ASSUME TransferAssumption, TInv, NEW s \in Slot, AttemptFails(s) PROVE TInv'
  <1> DEFINE c == AfterFailure(s, conn[s])
  <1>1. s \in Loops /\ conn[s].state \in {"ready", "body"}
    BY DEF AttemptFails
  <1>2. /\ c \in Conn /\ BudgetOf(c) /\ LoopState(c, file[s], n, s)
        /\ c.state \in {"ready", "gaveup"}
    BY <1>1, AfterFailureIs
  <1>3. \/ StopRun
        \/ UNCHANGED disk /\ EndRun
        \/ /\ conn' = [conn EXCEPT ![s] = c] /\ UNCHANGED <<disk, phase, n, ctx, runs>>
           /\ failed' = failed
    BY DEF AttemptFails, SetConn
  <1> HIDE DEF c
  <1>4. failed \in BOOLEAN
    BY TransferTypes
  <1>5. ASSUME conn' = [conn EXCEPT ![s] = c], UNCHANGED <<disk, phase, n, ctx, runs>>,
               failed' = failed
        PROVE  TInv'
    BY <1>1, <1>2, <1>4, <1>5, LoopMovesAlone
  <1>6. QED
    BY <1>3, <1>5, StopRunKeeps, EndsAsItIs

LEMMA LoopStopsKeeps ==
    ASSUME TransferAssumption, TInv, NEW s \in Slot, LoopStops(s) PROVE TInv'
  <1> DEFINE c == [conn[s] EXCEPT !.state = "stopped"]
  <1>1. s \in Loops /\ conn[s].state = "ready" /\ (Stopped \/ failed)
    BY DEF LoopStops
  <1>2. conn[s] \in Conn /\ BudgetOf(conn[s])
    BY <1>1, LoopFacts
  <1>3. c \in Conn /\ c.state = "stopped"
        /\ c.idle = conn[s].idle /\ c.remaining = conn[s].remaining
        /\ c.attempt = conn[s].attempt
    BY <1>2 DEF Conn
  <1>4. \/ StopRun
        \/ /\ conn' = [conn EXCEPT ![s] = c] /\ UNCHANGED <<disk, phase, n, ctx, runs>>
           /\ failed' = failed
    BY DEF LoopStops, SetConn
  <1> HIDE DEF c
  <1>5. BudgetOf(c) /\ LoopState(c, file[s], n, s) /\ failed \in BOOLEAN
    BY <1>1, <1>2, <1>3, TransferTypes DEF BudgetOf, LoopState
  <1>6. ASSUME conn' = [conn EXCEPT ![s] = c], UNCHANGED <<disk, phase, n, ctx, runs>>,
               failed' = failed
        PROVE  TInv'
    BY <1>1, <1>3, <1>5, <1>6, LoopMovesAlone
  <1>7. QED
    BY <1>4, <1>6, StopRunKeeps

LEMMA PermanentErrorKeeps ==
    ASSUME TransferAssumption, TInv, NEW s \in Slot, PermanentError(s) PROVE TInv'
  <1> DEFINE c == [conn[s] EXCEPT !.state = "stopped"]
             f == file'[s]
  <1>1. s \in Loops /\ conn[s].state = "ready"
    BY DEF PermanentError
  <1>2. /\ conn[s] \in Conn /\ BudgetOf(conn[s]) /\ file[s] \in Content \cup {NoFile}
        /\ (file[s] # NoFile => Begins(file[s], n, s))
    BY <1>1, LoopFacts
  <1>3. c \in Conn /\ c.state = "stopped"
        /\ c.idle = conn[s].idle /\ c.remaining = conn[s].remaining
        /\ c.attempt = conn[s].attempt
    BY <1>2 DEF Conn
  <1>4. /\ file' = [file EXCEPT ![s] = f] /\ f \in {file[s], NoFile}
        /\ file' \in [Slot -> Content \cup {NoFile}]
        /\ \A t \in Slot : file'[t] \in {file[t], NoFile}
    BY TransferTypes DEF PermanentError, SetFile
  <1>5. /\ failed' = TRUE /\ UNCHANGED <<layout, dst, n, ctx, runs>>
        /\ \/ phase' = "idle" /\ conn' = Off
           \/ conn' = [conn EXCEPT ![s] = c] /\ phase' = phase
    BY DEF PermanentError, SetConn
  <1> HIDE DEF c, f
  <1>6. BudgetOf(c) /\ LoopState(c, f, n, s)
    BY <1>1, <1>2, <1>3 DEF BudgetOf, LoopState
  <1>7. f \in Content \cup {NoFile} /\ (f # NoFile => Begins(f, n, s))
    BY <1>2, <1>4
  <1>8. CASE phase' = "idle" /\ conn' = Off
    <2>1. ctx' \in Ctx /\ dst' \in {NoFile, Whole} /\ layout' = layout /\ failed' \in BOOLEAN
          /\ n' = n /\ runs' = runs
      BY <1>5, TransferTypes
    <2>2. QED
      BY <1>4, <1>8, <2>1, RunEnds
  <1>9. CASE conn' = [conn EXCEPT ![s] = c] /\ phase' = phase
    <2>1. UNCHANGED <<layout, dst, phase, n, ctx, runs>> /\ failed' \in BOOLEAN
          /\ (failed => failed')
      BY <1>5, <1>9
    <2>2. QED
      BY <1>1, <1>3, <1>4, <1>5, <1>6, <1>7, <1>9, <2>1, LoopMoves
  <1>10. QED
    BY <1>5, <1>8, <1>9

\* The parts of the invariant about the disk, when the disk stays as it is.
LEMMA DiskStays ==
    ASSUME TransferAssumption, TInv, UNCHANGED disk
    PROVE  /\ Shape' /\ FilesBegin' /\ layout' \in Concurrencies \cup {0, 1}
           /\ layout' # 0 => Chunk(layout') >= 1
           /\ file' = file /\ layout' = layout /\ dst' = dst
  <1>1. file' = file /\ layout' = layout /\ dst' = dst
    BY DEF disk
  <1>2. QED
    BY <1>1, TransferTypes DEF TInv, Shape, FilesBegin, Split

\* A chunk is whole for every split the code makes.
LEMMA ChunkOfOne == ASSUME TransferAssumption PROVE Chunk(1) >= 1
  <1>1. Size \in Nat /\ Size > 0
    BY WholeRange
  <1>2. QED
    BY <1>1 DEF Chunk

LEMMA StartKeeps ==
    ASSUME TransferAssumption, TInv, Start PROVE TInv'
  <1>1. Shape' /\ FilesBegin' /\ layout' \in Concurrencies \cup {0, 1}
        /\ (layout' # 0 => Chunk(layout') >= 1)
    BY DiskStays DEF Start
  <1>2. "open" \in ConnStates /\ 0 \in 0..Size
    BY WholeRange DEF ConnStates
  <1>3. /\ ConnAt("open", 0) \in Conn /\ BudgetOf(ConnAt("open", 0))
        /\ ConnAt("open", 0).state = "open"
    BY <1>2, ConnAtIsConn
  <1> DEFINE c == ConnAt("open", 0)
  <1> HIDE DEF c
  <1>4. ctx' \in Ctx /\ failed' \in BOOLEAN /\ runs' \in 0..MaxRuns
    <2>1. runs \in 0..MaxRuns /\ runs < MaxRuns /\ runs' = runs + 1
      BY TransferTypes DEF Start
    <2>2. MaxRuns \in Nat
      BY DEF TransferAssumption
    <2>3. runs' \in 0..MaxRuns
      BY <2>1, <2>2
    <2>4. QED
      BY <2>3 DEF Start, Ctx
  <1>5. CASE phase' = "single" /\ n' = 1 /\ conn' = [Off EXCEPT ![0] = c]
    <2>1. conn' \in [Slot -> Conn] /\ conn'[0] = c /\ \A s \in Slot : BudgetOf(conn'[s])
      BY <1>3, <1>5, OffIsConn, TransferTypes DEF c
    <2>2. TypeOK'
      BY <1>1, <1>4, <1>5, <2>1, Typed
    <2>3. Split' /\ Assembly' /\ Budget'
      BY <1>1, <1>5, <2>1 DEF Split, Assembly, Budget, Chunk
    <2>4. LoopsHold'
      BY <1>3, <1>5, <2>1 DEF LoopsHold, Loops, LoopState, c
    <2>5. QED
      BY <1>1, <2>2, <2>3, <2>4 DEF TInv
  <1>6. CASE /\ phase' = "head" /\ conn' = Off
             /\ \E k \in Concurrencies : n' = IF Chunk(k) = 0 THEN 1 ELSE k
    <2>1. n' \in Concurrencies \cup {1} /\ Chunk(n') >= 1
      <3>1. PICK k \in Concurrencies : n' = IF Chunk(k) = 0 THEN 1 ELSE k
        BY <1>6
      <3>2. k \in Nat \ {0}
        BY SlotsSuffice
      <3>3. Chunk(k) \in Nat
        BY <3>2, ChunksFit
      <3>4. QED
        BY <3>1, <3>3, ChunkOfOne
    <2>2. conn' \in [Slot -> Conn] /\ \A s \in Slot : BudgetOf(conn'[s])
      BY <1>6, OffIsConn
    <2>3. TypeOK'
      BY <1>1, <1>4, <1>6, <2>1, <2>2, Typed
    <2>4. Split' /\ Assembly' /\ Budget' /\ LoopsHold'
      BY <1>1, <1>6, <2>1, <2>2 DEF Split, Assembly, Budget, Chunk, LoopsHold, Loops
    <2>5. QED
      BY <1>1, <2>3, <2>4 DEF TInv
  <1>7. QED
    BY <1>5, <1>6 DEF Start, c

LEMMA StopFromOutsideKeeps ==
    ASSUME TransferAssumption, TInv, StopFromOutside PROVE TInv'
  <1>1. /\ Shape' /\ FilesBegin' /\ layout' \in Concurrencies \cup {0, 1}
        /\ (layout' # 0 => Chunk(layout') >= 1)
        /\ file' = file /\ layout' = layout /\ dst' = dst
    BY DiskStays DEF StopFromOutside
  <1>2. /\ phase' = phase /\ n' = n /\ failed' = failed /\ conn' = conn /\ runs' = runs
        /\ ctx' \in Ctx /\ ctx = "live" /\ ctx' # "live"
    BY DEF StopFromOutside, Ctx
  <1>3. TypeOK'
    BY <1>1, <1>2, Typed, TransferTypes
  <1>4. Split' /\ Assembly' /\ Budget'
    BY <1>1, <1>2 DEF TInv, Split, Assembly, Budget, Span
  <1>5. LoopsHold'
    <2>1. Loops' = Loops /\ Stopped'
      BY <1>2 DEF Loops, Stopped
    <2>2. QED
      BY <1>1, <1>2, <2>1 DEF TInv, LoopsHold
  <1>6. QED
    BY <1>1, <1>3, <1>4, <1>5 DEF TInv

LEMMA KillKeeps ==
    ASSUME TransferAssumption, TInv, Kill PROVE TInv'
  <1>1. /\ file' \in [Slot -> Content \cup {NoFile}] /\ layout' = layout
        /\ \A s \in Slot : file'[s] \in {file[s], NoFile}
        /\ dst' \in {NoFile, Whole}
    BY TransferTypes DEF disk, Kill
  <1>2. /\ phase' = "idle" /\ conn' = Off /\ n' = n /\ ctx' \in Ctx /\ failed' \in BOOLEAN
        /\ runs' = runs
    BY TransferTypes DEF Kill, Ctx
  <1>3. QED
    BY <1>1, <1>2, RunEnds

LEMMA ProbeKeeps ==
    ASSUME TransferAssumption, TInv, Probe PROVE TInv'
  <1>1. /\ Shape' /\ FilesBegin' /\ layout' \in Concurrencies \cup {0, 1}
        /\ (layout' # 0 => Chunk(layout') >= 1)
        /\ file' = file /\ layout' = layout /\ dst' = dst
    BY DiskStays DEF Probe
  <1>2. /\ phase = "head" /\ phase' = "prepare" /\ n' = n /\ failed' = failed
        /\ conn' = conn /\ runs' = runs /\ ctx' = ctx
    BY DEF Probe
  <1>3. TypeOK'
    BY <1>1, <1>2, Typed, TransferTypes
  <1>4. Split' /\ Assembly' /\ Budget' /\ LoopsHold'
    BY <1>1, <1>2 DEF TInv, Split, Assembly, Budget, LoopsHold, Loops, Chunk
  <1>5. QED
    BY <1>1, <1>3, <1>4 DEF TInv

LEMMA ProbeRefusedKeeps ==
    ASSUME TransferAssumption, TInv, ProbeRefused PROVE TInv'
  <1>1. /\ Shape' /\ FilesBegin' /\ layout' \in Concurrencies \cup {0, 1}
        /\ (layout' # 0 => Chunk(layout') >= 1)
        /\ layout' = layout /\ dst' = dst
    <2>1. /\ file' \in [Slot -> Content \cup {NoFile}] /\ layout' = layout
          /\ \A s \in Slot : file'[s] \in {file[s], NoFile}
          /\ dst' = dst /\ dst' \in {NoFile, Whole}
      BY TransferTypes DEF ProbeRefused, SetFile
    <2>2. QED
      BY <2>1, FewerFiles
  <1>2. /\ phase' = "idle" /\ n' = n /\ failed' = TRUE
        /\ conn' = conn /\ runs' = runs /\ ctx' = ctx
    BY DEF ProbeRefused
  <1>3. TypeOK'
    BY <1>1, <1>2, Typed, TransferTypes
  <1>4. Split' /\ Assembly' /\ Budget' /\ LoopsHold'
    BY <1>1, <1>2 DEF TInv, Split, Assembly, Budget, LoopsHold, Loops, Chunk
  <1>5. QED
    BY <1>1, <1>3, <1>4 DEF TInv

\* The layout of this run is written; parts that are left belong to it.
LEMMA WriteLayoutKeeps ==
    ASSUME TransferAssumption, TInv, WriteLayout, phase \in {"prepare", "wipe"},
           UNCHANGED <<dst, n, ctx, failed, runs>>,
           file' \in [Slot -> Content \cup {NoFile}],
           \A s \in Slot : file'[s] \in {file[s], NoFile},
           \A i \in Part : file'[i] # NoFile => layout = n /\ i <= n
    PROVE  TInv'
  <1>1. /\ layout' = n /\ phase' = "parts" /\ dst' = dst /\ n' = n /\ ctx' = ctx
        /\ failed' = failed /\ runs' = runs /\ n # 0 /\ Chunk(n) >= 1
        /\ n \in Concurrencies \cup {1}
    BY TransferTypes DEF WriteLayout, TInv, Split
  <1>2. /\ conn' \in [Slot -> Conn] /\ \A s \in Slot : BudgetOf(conn'[s])
        /\ \A s \in 1..n : conn'[s].state = "open"
    <2>1. "open" \in ConnStates /\ "off" \in ConnStates /\ 0 \in 0..Size
      BY WholeRange DEF ConnStates
    <2>2. /\ ConnAt("open", 0) \in Conn /\ BudgetOf(ConnAt("open", 0))
          /\ ConnAt("off", 0) \in Conn /\ BudgetOf(ConnAt("off", 0))
          /\ ConnAt("open", 0).state = "open"
      BY <2>1, ConnAtIsConn
    <2>3. conn' = [s \in Slot |-> IF s \in 1..n THEN ConnAt("open", 0) ELSE ConnAt("off", 0)]
      BY DEF WriteLayout
    <2>4. \A s \in 1..n : s \in Slot
      BY TransferTypes
    <2>5. QED
      BY <2>2, <2>3, <2>4
  <1>3. Shape'
    BY <1>1 DEF Shape, TInv
  <1>4. FilesBegin'
    <2>1. ASSUME NEW i \in Part, file'[i] # NoFile
          PROVE  layout' # 0 /\ i <= layout' /\ Begins(file'[i], layout', i)
      <3>1. file'[i] = file[i] /\ layout = n /\ i <= n
        BY <2>1, TransferTypes
      <3>2. QED
        BY <1>1, <2>1, <3>1 DEF TInv, FilesBegin
    <2>2. file'[0] # NoFile => Begins(file'[0], 1, 0)
      BY TransferTypes DEF TInv, FilesBegin
    <2>3. QED
      BY <2>1, <2>2 DEF FilesBegin
  <1>5. TypeOK'
    BY <1>1, <1>2, <1>3, Typed, TransferTypes
  <1>6. Split' /\ Assembly' /\ Budget'
    BY <1>1, <1>2 DEF Split, Assembly, Budget, Chunk
  <1>7. LoopsHold'
    <2>1. Loops' = 1..n
      BY <1>1 DEF Loops
    <2>2. ASSUME NEW s \in 1..n
          PROVE  LoopState(conn'[s], file'[s], n, s) /\ conn'[s].state # "stopped"
      BY <1>2 DEF LoopState
    <2>3. QED
      BY <1>1, <2>1, <2>2 DEF LoopsHold
  <1>8. QED
    BY <1>3, <1>4, <1>5, <1>6, <1>7 DEF TInv

LEMMA PrepareKeeps ==
    ASSUME TransferAssumption, TInv, PrepareMultipartResume PROVE TInv'
  <1>1. phase = "prepare" /\ UNCHANGED <<dst, n, ctx, failed, runs>>
    BY DEF PrepareMultipartResume
  <1>2. CASE Parts # {} /\ layout # n
    <2>1. phase' = "wipe" /\ UNCHANGED <<file, layout, conn>>
      BY <1>2 DEF PrepareMultipartResume
    <2>2. /\ Shape' /\ FilesBegin' /\ layout' \in Concurrencies \cup {0, 1}
          /\ (layout' # 0 => Chunk(layout') >= 1)
      BY <1>1, <2>1, DiskStays DEF disk
    <2>3. TypeOK'
      BY <1>1, <2>1, <2>2, Typed, TransferTypes
    <2>4. Split' /\ Assembly' /\ Budget' /\ LoopsHold'
      BY <1>1, <2>1, <2>2 DEF TInv, Split, Assembly, Budget, LoopsHold, Loops, Chunk
    <2>5. QED
      BY <2>2, <2>3, <2>4 DEF TInv
  <1>3. CASE ~(Parts # {} /\ layout # n)
    <2>1. WriteLayout /\ file' = [s \in Slot |-> IF s > n THEN NoFile ELSE file[s]]
      BY <1>3 DEF PrepareMultipartResume
    <2>2. /\ file' \in [Slot -> Content \cup {NoFile}]
          /\ \A s \in Slot : file'[s] \in {file[s], NoFile}
      BY <2>1, TransferTypes
    <2>3. \A i \in Part : file'[i] # NoFile => file[i] # NoFile /\ ~(i > n)
      BY <2>1, TransferTypes
    <2>4. \A i \in Part : file'[i] # NoFile => layout = n /\ i <= n
      BY <1>3, <2>3, TransferTypes DEF Parts
    <2>5. QED
      BY <1>1, <2>1, <2>2, <2>4, WriteLayoutKeeps
  <1>4. QED
    BY <1>2, <1>3

LEMMA WipeKeeps ==
    ASSUME TransferAssumption, TInv, Wipe PROVE TInv'
  <1>1. phase = "wipe" /\ UNCHANGED <<dst, n, ctx, failed, runs>>
    BY DEF Wipe
  <1>2. CASE Parts = {} /\ layout = 0
    <2>1. WriteLayout /\ UNCHANGED file
      BY <1>2 DEF Wipe
    <2>2. /\ file' \in [Slot -> Content \cup {NoFile}]
          /\ \A s \in Slot : file'[s] \in {file[s], NoFile}
          /\ \A i \in Part : file'[i] = NoFile
      BY <1>2, <2>1, TransferTypes DEF Parts
    <2>3. QED
      BY <1>1, <2>1, <2>2, WriteLayoutKeeps
  <1>3. CASE ~(Parts = {} /\ layout = 0)
    <2>1. /\ phase' = phase /\ conn' = conn
          /\ file' \in [Slot -> Content \cup {NoFile}]
          /\ \A s \in Slot : file'[s] \in {file[s], NoFile}
          /\ \/ layout' = layout
             \/ layout' = 0 /\ \A i \in Part : file'[i] = NoFile
      <3>1. CASE Parts # {}
        <4>1. PICK i \in Part : file' = [file EXCEPT ![i] = NoFile]
          BY <1>3, <3>1 DEF Wipe, Parts, SetFile
        <4>2. UNCHANGED <<layout, phase, conn>>
          BY <3>1 DEF Wipe
        <4>3. QED
          BY <4>1, <4>2, TransferTypes
      <3>2. CASE Parts = {}
        BY <1>3, <3>2, TransferTypes DEF Wipe, Parts
      <3>3. QED
        BY <3>1, <3>2
    <2>2. /\ Shape' /\ FilesBegin' /\ layout' \in Concurrencies \cup {0, 1}
          /\ (layout' # 0 => Chunk(layout') >= 1)
      BY <1>1, <2>1, FewerFiles, TransferTypes
    <2>3. TypeOK'
      BY <1>1, <2>1, <2>2, Typed, TransferTypes
    <2>4. Split' /\ Assembly' /\ Budget' /\ LoopsHold'
      BY <1>1, <2>1, <2>2 DEF TInv, Split, Assembly, Budget, LoopsHold, Loops, Chunk
    <2>5. QED
      BY <2>2, <2>3, <2>4 DEF TInv
  <1>4. QED
    BY <1>2, <1>3

\* When every loop has ended without an error, every part is complete.
LEMMA JoinKeeps ==
    ASSUME TransferAssumption, TInv, Join PROVE TInv'
  <1>1. phase = "parts" /\ Working = {} /\ n \in Nat \ {0}
    BY TransferTypes DEF Join
  <1>2. CASE failed \/ Stopped \/ \E i \in 1..n : conn[i].state = "gaveup"
    BY <1>2, StopRunKeeps, EndsAsItIs DEF Join
  <1>3. CASE ~(failed \/ Stopped \/ \E i \in 1..n : conn[i].state = "gaveup")
    <2>1. /\ phase' = "assemble" /\ file' = [file EXCEPT ![0] = <<>>]
          /\ UNCHANGED <<layout, dst, n, ctx, failed, conn, runs>>
      BY <1>3 DEF Join, SetFile
    <2>2. ASSUME NEW s \in 1..n PROVE file[s] # NoFile /\ Len(file[s]) = Span(n, s)
      <3>1. s \in Loops
        BY <1>1 DEF Loops
      <3>2. /\ conn[s].state \in ConnStates /\ LoopState(conn[s], file[s], n, s)
            /\ conn[s].state # "stopped"
        BY <1>3, <3>1, LoopFacts DEF Conn, ConnStates
      <3>3. conn[s].state \notin {"open", "ready", "body"} /\ conn[s].state # "gaveup"
        BY <1>1, <1>3 DEF Working
      <3>4. conn[s].state = "done"
        BY <3>2, <3>3 DEF ConnStates, LoopState
      <3>5. QED
        BY <3>2, <3>4 DEF LoopState
    <2>3. /\ file' \in [Slot -> Content \cup {NoFile}] /\ file'[0] = <<>>
          /\ \A s \in Part : file'[s] = file[s]
      BY <2>1, TransferTypes
    <2>4. Shape'
      BY <2>1, <2>3 DEF TInv, Shape
    <2>5. FilesBegin'
      <3>1. Begins(<<>>, 1, 0)
        BY NothingBegins DEF Splits
      <3>2. QED
        BY <2>1, <2>3, <3>1 DEF TInv, FilesBegin
    <2>6. TypeOK'
      BY <2>1, <2>4, Typed, TransferTypes
    <2>7. Assembly'
      <3>1. \A s \in 1..n : file'[s] # NoFile /\ Len(file'[s]) = Span(n, s)
        BY <2>2, <2>3, TransferTypes
      <3>2. <<>> # NoFile
        BY TransferTypes
      <3>3. QED
        BY <2>1, <2>3, <3>1, <3>2 DEF Assembly
    <2>8. Split' /\ Budget' /\ LoopsHold'
      BY <1>1, <2>1 DEF TInv, Split, Budget, LoopsHold, Loops, Chunk
    <2>9. QED
      BY <2>4, <2>5, <2>6, <2>7, <2>8 DEF TInv
  <1>4. QED
    BY <1>2, <1>3

\* What is assembled is the file.
LEMMA AssembledIsWhole ==
    ASSUME TransferAssumption, TInv, phase = "assemble"
    PROVE  /\ Joined = Whole /\ Begins(file[0], 1, 0) /\ file[0] \in Content
           /\ Len(file[0]) \in Nat /\ Len(file[0]) <= Size
           /\ Len(file[0]) = Size => file[0] = Whole
  <1>1. n \in Nat \ {0} /\ Chunk(n) >= 1 /\ layout = n
    BY TransferTypes DEF TInv, Split
  <1>2. ASSUME NEW s \in 1..n PROVE Begins(file[s], n, s) /\ Len(file[s]) = Span(n, s)
    <2>1. s \in Part /\ file[s] # NoFile /\ Len(file[s]) = Span(n, s)
      BY TransferTypes DEF TInv, Assembly
    <2>2. QED
      BY <1>1, <2>1 DEF TInv, FilesBegin
  <1>3. Joined = Whole
    BY <1>1, <1>2, JoinedIsWhole
  <1>4. Begins(file[0], 1, 0) /\ file[0] \in Content
    BY DEF TInv, Assembly, FilesBegin, Begins
  <1>5. Splits(1, 0)
    BY DEF Splits
  <1>6. QED
    BY <1>3, <1>4, <1>5, BeginningIsPrefix, PartRangeIs, SpanFits DEF Begins

\* The assembly grows by the next unit of the file.
LEMMA GrownBegins ==
    ASSUME TransferAssumption, TInv, phase = "assemble", file[0] # Joined
    PROVE  Begins(SubSeq(Joined, 1, Len(file[0]) + 1), 1, 0)
  <1> DEFINE l == Len(file[0]) + 1
  <1>1. Joined = Whole /\ l \in 1..Size /\ Size \in Nat
    <2>1. Size \in Nat
      BY WholeRange
    <2>2. QED
      BY <2>1, AssembledIsWhole
  <1> HIDE DEF l
  <1>2. Whole \in Content /\ Len(Whole) = Size
    <2>1. Splits(1, 0)
      BY DEF Splits
    <2>2. QED
      BY <2>1, PartRangeIs, SpanFits
  <1>3. Whole \in Seq(0..(Size - 1)) /\ 1 \in 1..(Len(Whole) + 1) /\ l \in 0..Len(Whole)
    BY <1>1, <1>2 DEF Content
  <1>4. SubSeq(Whole, 1, l) = [i \in 1..l |-> Whole[i]]
    <2>1. SubSeq(Whole, 1, l) = [i \in 1..(1 + l - 1) |-> Whole[i + 1 - 1]]
      BY <1>1, <1>3
    <2>2. QED
      BY <1>1, <2>1
  <1>5. /\ SubSeq(Whole, 1, l) \in Content /\ Len(SubSeq(Whole, 1, l)) = l
        /\ \A i \in 1..l : SubSeq(Whole, 1, l)[i] = i - 1
    <2>1. \A i \in 1..l : Whole[i] = i - 1 /\ i - 1 \in 0..(Size - 1)
      BY <1>1 DEF Whole
    <2>2. [i \in 1..l |-> Whole[i]] \in Content /\ Len([i \in 1..l |-> Whole[i]]) = l
      BY <1>1, <2>1 DEF Content
    <2>3. QED
      BY <1>4, <2>1, <2>2
  <1>6. Span(1, 0) = Size /\ Lo(1, 0) = 0
    BY SpanFits, WholeRange DEF Splits
  <1>7. Begins(SubSeq(Whole, 1, l), 1, 0)
    BY <1>1, <1>5, <1>6 DEF Begins
  <1>8. QED
    BY <1>1, <1>7 DEF l

LEMMA StopAssemblyKeeps ==
    ASSUME TransferAssumption, TInv, StopAssembly PROVE TInv'
  <1>1. CASE ctx = "aborted"
    <2>1. /\ file' \in [Slot -> Content \cup {NoFile}] /\ layout' = layout
          /\ \A s \in Slot : file'[s] \in {file[s], NoFile}
          /\ dst' \in {NoFile, Whole}
      BY <1>1, TransferTypes DEF StopAssembly, SetFile
    <2>2. /\ phase' = "idle" /\ conn' = Off /\ n' = n /\ ctx' \in Ctx /\ failed' \in BOOLEAN
          /\ runs' = runs
      BY <1>1, TransferTypes DEF StopAssembly, EndRun
    <2>3. QED
      BY <2>1, <2>2, RunEnds
  <1>2. CASE ctx # "aborted"
    BY <1>2, StopRunKeeps DEF StopAssembly
  <1>3. QED
    BY <1>1, <1>2

LEMMA AssembleKeeps ==
    ASSUME TransferAssumption, TInv, Assemble PROVE TInv'
  <1> DEFINE f == SubSeq(Joined, 1, Len(file[0]) + 1)
  <1>1. CASE Stopped
    BY <1>1, StopAssemblyKeeps DEF Assemble
  <1>2. CASE ~Stopped
    <2>1. /\ phase = "assemble" /\ file[0] # Joined /\ file' = [file EXCEPT ![0] = f]
          /\ UNCHANGED <<layout, dst, phase, n, ctx, failed, conn, runs>>
      BY <1>2 DEF Assemble, SetFile
    <2>2. Begins(f, 1, 0)
      BY <2>1, GrownBegins
    <2> HIDE DEF f
    <2>3. f \in Content /\ f # NoFile
      BY <2>2, TransferTypes DEF Begins
    <2>4. /\ file' \in [Slot -> Content \cup {NoFile}] /\ file'[0] = f
          /\ \A s \in Part : file'[s] = file[s]
      BY <2>1, <2>3, TransferTypes
    <2>5. Shape'
      BY <2>1, <2>4 DEF TInv, Shape
    <2>6. FilesBegin'
      BY <2>1, <2>2, <2>4 DEF TInv, FilesBegin
    <2>7. TypeOK'
      BY <2>1, <2>5, Typed, TransferTypes
    <2>8. Assembly'
      <3>1. \A s \in 1..n : file'[s] # NoFile /\ Len(file'[s]) = Span(n, s)
        BY <2>1, <2>4, TransferTypes DEF TInv, Assembly
      <3>2. QED
        BY <2>1, <2>3, <2>4, <3>1 DEF Assembly
    <2>9. Split' /\ Budget' /\ LoopsHold'
      BY <2>1 DEF TInv, Split, Budget, LoopsHold, Loops, Chunk
    <2>10. QED
      BY <2>5, <2>6, <2>7, <2>8, <2>9 DEF TInv
  <1>3. QED
    BY <1>1, <1>2

LEMMA PublishAssemblyKeeps ==
    ASSUME TransferAssumption, TInv, PublishAssembly PROVE TInv'
  <1>1. CASE Stopped
    BY <1>1, StopAssemblyKeeps DEF PublishAssembly
  <1>2. CASE ~Stopped
    <2>1. /\ phase = "assemble" /\ phase' = "tidy" /\ dst' = file[0] /\ file[0] = Whole
          /\ file' = [file EXCEPT ![0] = NoFile]
          /\ UNCHANGED <<layout, n, ctx, failed, conn, runs>>
      BY <1>2, AssembledIsWhole DEF PublishAssembly, SetFile
    <2>2. /\ file' \in [Slot -> Content \cup {NoFile}]
          /\ \A s \in Slot : file'[s] \in {file[s], NoFile}
          /\ layout' = layout /\ dst' \in {NoFile, Whole} /\ dst' # NoFile
      BY <2>1, TransferTypes, WholeIsContent
    <2>3. /\ Shape' /\ FilesBegin' /\ layout' \in Concurrencies \cup {0, 1}
          /\ (layout' # 0 => Chunk(layout') >= 1)
      BY <2>2, FewerFiles
    <2>4. TypeOK'
      BY <2>1, <2>3, Typed, TransferTypes
    <2>5. Split' /\ Assembly' /\ Budget' /\ LoopsHold'
      BY <2>1, <2>2, <2>3 DEF TInv, Split, Assembly, Budget, LoopsHold, Loops, Chunk
    <2>6. QED
      BY <2>3, <2>4, <2>5 DEF TInv
  <1>3. QED
    BY <1>1, <1>2

LEMMA TidyKeeps ==
    ASSUME TransferAssumption, TInv, Tidy PROVE TInv'
  <1> DEFINE kept == {i \in 1..n : file[i] # NoFile}
  <1>1. phase = "tidy" /\ dst' = dst /\ dst # NoFile /\ layout = n /\ n \in Nat \ {0}
    BY TransferTypes DEF Tidy, TInv, Split
  <1>2. CASE kept # {}
    <2> DEFINE i == CHOOSE i \in kept : \A j \in kept : i <= j
    <2>1. /\ file' = [file EXCEPT ![i] = NoFile]
          /\ UNCHANGED <<layout, phase, n, ctx, failed, conn, runs>>
      BY <1>2 DEF Tidy, SetFile
    <2> HIDE DEF i, kept
    <2>2. /\ file' \in [Slot -> Content \cup {NoFile}]
          /\ \A s \in Slot : file'[s] \in {file[s], NoFile}
          /\ layout' = layout /\ dst' \in {NoFile, Whole}
      BY <1>1, <2>1, TransferTypes
    <2>3. /\ Shape' /\ FilesBegin' /\ layout' \in Concurrencies \cup {0, 1}
          /\ (layout' # 0 => Chunk(layout') >= 1)
      BY <2>2, FewerFiles
    <2>4. TypeOK'
      BY <2>1, <2>3, Typed, TransferTypes
    <2>5. Split' /\ Assembly' /\ Budget' /\ LoopsHold'
      BY <1>1, <2>1, <2>3 DEF TInv, Split, Assembly, Budget, LoopsHold, Loops, Chunk
    <2>6. QED
      BY <2>3, <2>4, <2>5 DEF TInv
  <1>3. CASE kept = {}
    <2>1. layout' = 0 /\ file' = file /\ EndRun
      BY <1>3 DEF Tidy
    <2>2. \A i \in Part : file'[i] = NoFile
      <3>1. ASSUME NEW i \in Part, file[i] # NoFile PROVE FALSE
        <4>1. i <= n /\ i \in Nat \ {0}
          BY <1>1, <3>1, TransferTypes DEF TInv, FilesBegin
        <4>2. QED
          BY <1>1, <1>3, <3>1, <4>1
      <3>2. QED
        BY <2>1, <3>1
    <2>3. /\ file' \in [Slot -> Content \cup {NoFile}]
          /\ \A s \in Slot : file'[s] \in {file[s], NoFile}
          /\ dst' \in {NoFile, Whole}
      BY <1>1, <2>1, TransferTypes
    <2>4. /\ phase' = "idle" /\ conn' = Off /\ n' = n /\ ctx' \in Ctx /\ failed' \in BOOLEAN
          /\ runs' = runs
      BY <2>1, TransferTypes DEF EndRun
    <2>5. QED
      BY <2>1, <2>2, <2>3, <2>4, RunEnds
  <1>4. QED
    BY <1>2, <1>3

---------------------------------------------------------------------------
(* The theorems *)

LEMMA Starts == ASSUME TransferAssumption, Init PROVE TInv
  <1>1. /\ file \in [Slot -> Content \cup {NoFile}] /\ \A s \in Slot : file[s] = NoFile
        /\ layout = 0 /\ dst = NoFile /\ phase = "idle" /\ conn = Off /\ runs = 0
        /\ Part \subseteq Slot /\ 0 \in Slot
    BY SlotsSuffice DEF Init
  <1>2. Shape /\ FilesBegin
    BY <1>1 DEF Shape, FilesBegin
  <1>3. TypeOK
    <2>1. 0 \in 0..MaxRuns
      BY DEF TransferAssumption
    <2>2. conn \in [Slot -> Conn]
      BY <1>1, OffIsConn
    <2>3. QED
      BY <1>1, <2>1, <2>2 DEF TypeOK, Init
  <1>4. Split /\ LoopsHold /\ Assembly
    BY <1>1 DEF Split, LoopsHold, Loops, Assembly
  <1>5. Budget
    BY <1>1, OffIsConn DEF Budget
  <1>6. QED
    BY <1>2, <1>3, <1>4, <1>5 DEF TInv

LEMMA StutterKeeps == ASSUME TInv, UNCHANGED vars PROVE TInv'
  <1>1. /\ file' = file /\ layout' = layout /\ dst' = dst /\ phase' = phase /\ n' = n
        /\ ctx' = ctx /\ failed' = failed /\ conn' = conn /\ runs' = runs
    BY DEF vars, disk
  <1>2. TypeOK' /\ Shape' /\ FilesBegin'
    BY <1>1 DEF TInv, TypeOK, Shape, FilesBegin
  <1>3. Split' /\ Assembly' /\ Budget'
    BY <1>1 DEF TInv, Split, Assembly, Budget
  <1>4. LoopsHold'
    BY <1>1 DEF TInv, LoopsHold, Loops, Stopped
  <1>5. QED
    BY <1>2, <1>3, <1>4 DEF TInv

LEMMA StepKeeps == ASSUME TransferAssumption, TInv, [Next]_vars PROVE TInv'
  <1>1. ASSUME NEW s \in Slot, Loop(s) PROVE TInv'
    BY <1>1, OpenPartKeeps, AnswerRangeKeeps, ReceiveKeeps, PartDoneKeeps,
       AttemptFailsKeeps, LoopStopsKeeps, PermanentErrorKeeps DEF Loop
  <1>2. CASE RunStep
    <2>1. CASE ProbeFails
      BY <2>1, EndsAsItIs DEF ProbeFails
    <2>2. QED
      BY <1>1, <1>2, <2>1, OpenSingleKeeps, AnswerWholeKeeps, SingleDoneKeeps, ProbeKeeps,
         ProbeRefusedKeeps, PrepareKeeps, WipeKeeps, JoinKeeps, AssembleKeeps,
         PublishAssemblyKeeps, TidyKeeps DEF RunStep
  <1>3. QED
    BY <1>2, StartKeeps, StopFromOutsideKeeps, KillKeeps, StutterKeeps DEF Next

\* What a run relies on at each of its steps (downloader.go:1401-1431, 1461-1613, 1971-2107).
THEOREM TransferInvariant == ASSUME TransferAssumption PROVE Spec => []TInv
  <1>1. Init => TInv
    BY Starts
  <1>2. TInv /\ [Next]_vars => TInv'
    BY StepKeeps
  <1>3. QED
    BY <1>1, <1>2, PTL DEF Spec

\* For a file of any size, any connection counts and any number of runs that were
\* cancelled, paused, aborted, killed or gave up: what is published is the whole file,
\* every partial file is the beginning of its range in the layout on disk, and no loop
\* makes more than Retries + 1 requests in a row that bring nothing
\* (downloader.go:1401-1431, 1567-1590, 1991-2107).
THEOREM BytesAreSoundAlways == ASSUME TransferAssumption PROVE Spec => []BytesAreSound
  <1>1. ASSUME TInv PROVE BytesAreSound
    <2>1. PublishedIsWhole
      BY <1>1 DEF TInv, Shape, PublishedIsWhole
    <2>2. PartsMatchLayout
      <3>1. ASSUME NEW i \in Parts
            PROVE  layout # 0 /\ i <= layout /\ IsPrefixOf(file[i], PartRange(layout, i))
        <4>1. /\ i \in Part /\ layout # 0 /\ i <= layout /\ Begins(file[i], layout, i)
              /\ Chunk(layout) >= 1
          BY <1>1 DEF TInv, FilesBegin, Split, Parts
        <4>2. layout \in Nat /\ i \in Nat \ {0}
          BY <1>1, <4>1, TransferTypes
        <4>3. Splits(layout, i)
          BY <4>1, <4>2 DEF Splits
        <4>4. QED
          BY <4>1, <4>3, BeginningIsPrefix
      <3>2. file[0] # NoFile => IsPrefixOf(file[0], Whole)
        <4>1. Splits(1, 0)
          BY DEF Splits
        <4>2. QED
          BY <1>1, <4>1, BeginningIsPrefix, PartRangeIs DEF TInv, FilesBegin
      <3>3. QED
        BY <1>1, <3>1, <3>2 DEF PartsMatchLayout, TInv
    <2>3. BudgetIsRespected
      BY <1>1 DEF BudgetIsRespected, TInv, Budget, BudgetOf
    <2>4. QED
      BY <2>1, <2>2, <2>3 DEF BytesAreSound
  <1>2. Spec => []TInv
    BY TransferInvariant
  <1>3. QED
    BY <1>1, <1>2, PTL

\* Slot 0 is not a part.
LEMMA PartsStay ==
    ASSUME TransferAssumption, TInv, NEW i \in Part,
           \/ UNCHANGED file
           \/ \E f : file' = [file EXCEPT ![0] = f]
    PROVE  file'[i] = file[i]
  <1>1. CASE UNCHANGED file
    BY <1>1
  <1>2. CASE \E f : file' = [file EXCEPT ![0] = f]
    <2>1. PICK f : file' = [file EXCEPT ![0] = f]
      BY <1>2
    <2>2. QED
      BY <2>1, TransferTypes
  <1>3. QED
    BY <1>1, <1>2

\* What a step of a loop does to a part.
LEMMA LoopKeepsBytes ==
    ASSUME TransferAssumption, TInv, NEW s \in Slot, Loop(s), NEW i \in Part,
           ctx # "cancelled"
    PROVE  \/ file'[i] = file[i]
           \/ file[i] = NoFile \/ file[i] = <<>>
           \/ file[i] \in Content /\ file'[i] \in Content /\ Len(file'[i]) > Len(file[i])
  <1>1. CASE OpenPart(s)
    <2> DEFINE held == IF file[s] = NoFile THEN <<>> ELSE file[s]
               kept == IF Len(held) > Span(n, s) THEN <<>> ELSE held
    <2>1. s \in Loops
      BY <1>1 DEF OpenPart, Loops
    <2>2. file[s] # NoFile => Begins(file[s], n, s) /\ Splits(n, s)
      BY <2>1, LoopFacts
    <2>3. file[s] # NoFile => Len(file[s]) \in Nat /\ ~(Len(file[s]) > Span(n, s))
      <3>1. file[s] # NoFile => /\ Len(file[s]) \in Nat /\ Len(file[s]) <= Span(n, s)
                                /\ Span(n, s) \in Nat
        BY <2>2, BeginningIsPrefix, SpanFits DEF Begins
      <3>2. QED
        BY <3>1
    <2>4. file' = [file EXCEPT ![s] = kept]
      BY <1>1 DEF OpenPart, SetFile, Span
    <2>5. file[s] # NoFile => kept = file[s]
      BY <2>3
    <2> HIDE DEF kept
    <2>6. QED
      BY <2>4, <2>5, TransferTypes
  <1>2. CASE Receive(s)
    <2>1. s \in Loops /\ conn[s].state = "body" /\ conn[s].next <= Hi(n, s)
          /\ file' = [file EXCEPT ![s] = Append(file[s], conn[s].next)]
      BY <1>2 DEF Receive, SetFile
    <2>2. /\ Splits(n, s) /\ file[s] # NoFile /\ Begins(file[s], n, s)
          /\ conn[s].next = Lo(n, s) + Len(file[s])
      BY <2>1, LoopFacts DEF LoopState
    <2>3. /\ Append(file[s], conn[s].next) \in Content /\ file[s] \in Content
          /\ Len(Append(file[s], conn[s].next)) = Len(file[s]) + 1 /\ Len(file[s]) \in Nat
      BY <2>1, <2>2, NextByteContinues, BeginningIsPrefix DEF Begins
    <2>4. CASE i = s
      <3>1. file'[i] = Append(file[s], conn[s].next)
        BY <2>1, <2>4, TransferTypes
      <3>2. Len(file'[i]) > Len(file[i])
        BY <2>3, <2>4, <3>1
      <3>3. QED
        BY <2>3, <2>4, <3>1, <3>2
    <2>5. CASE i # s
      BY <2>1, <2>5, TransferTypes
    <2>6. QED
      BY <2>4, <2>5
  <1>3. CASE PermanentError(s)
    BY <1>3, TransferTypes DEF PermanentError, SetFile
  <1>4. CASE AnswerRange(s) \/ PartDone(s)
    BY <1>4 DEF AnswerRange, PartDone, disk
  <1>5. CASE AttemptFails(s) \/ LoopStops(s)
    <2>1. UNCHANGED file \/ StopRun
      BY <1>5 DEF AttemptFails, LoopStops, disk
    <2>2. UNCHANGED file
      BY <2>1 DEF StopRun, CleanupPartialsOnCancel
    <2>3. QED
      BY <2>2
  <1>6. QED
    BY <1>1, <1>2, <1>3, <1>4, <1>5 DEF Loop

\* No other step takes bytes of a part away, except when they are of no more use.
LEMMA RunKeepsBytes ==
    ASSUME TransferAssumption, TInv, [Next]_vars, NEW i \in Part,
           phase # "wipe", dst = NoFile, ctx # "cancelled"
    PROVE  \/ file'[i] = file[i]
           \/ file[i] = NoFile \/ file[i] = <<>>
           \/ file[i] \in Content /\ file'[i] \in Content /\ Len(file'[i]) > Len(file[i])
  <1>1. CASE \E s \in Slot : Loop(s)
    BY <1>1, LoopKeepsBytes
  <1>2. CASE Start \/ StopFromOutside \/ Kill \/ Probe \/ ProbeFails \/ UNCHANGED vars
    BY <1>2 DEF Start, StopFromOutside, Kill, Probe, ProbeFails, vars, disk
  <1>3. CASE OpenSingle
    <2>1. \E f : file' = [file EXCEPT ![0] = f]
      <3> DEFINE held == IF file[0] = NoFile THEN <<>> ELSE file[0]
                 kept == IF Len(held) > Size THEN <<>> ELSE held
      <3>1. file' = [file EXCEPT ![0] = NoFile] \/ file' = [file EXCEPT ![0] = kept]
        BY <1>3 DEF OpenSingle, SetFile
      <3> HIDE DEF kept
      <3>2. QED
        BY <3>1
    <2>2. QED
      BY <2>1, PartsStay
  <1>4. CASE AnswerWhole \/ SingleDone \/ ProbeRefused
    <2>1. UNCHANGED file \/ \E f : file' = [file EXCEPT ![0] = f]
      BY <1>4 DEF AnswerWhole, SingleDone, ProbeRefused, SetFile
    <2>2. QED
      BY <2>1, PartsStay
  <1>5. CASE Join
    <2>1. UNCHANGED file \/ \E f : file' = [file EXCEPT ![0] = f]
      BY <1>5 DEF Join, StopRun, CleanupPartialsOnCancel, SetFile, disk
    <2>2. QED
      BY <2>1, PartsStay
  <1>6. CASE Assemble \/ PublishAssembly
    <2>1. StopAssembly \/ \E f : file' = [file EXCEPT ![0] = f]
      <3> DEFINE f == SubSeq(Joined, 1, Len(file[0]) + 1)
      <3>1. \/ StopAssembly
            \/ file' = [file EXCEPT ![0] = f]
            \/ file' = [file EXCEPT ![0] = NoFile]
        BY <1>6 DEF Assemble, PublishAssembly, SetFile
      <3> HIDE DEF f
      <3>2. QED
        BY <3>1
    <2>2. UNCHANGED file \/ \E f : file' = [file EXCEPT ![0] = f]
      BY <2>1 DEF StopAssembly, StopRun, CleanupPartialsOnCancel, SetFile
    <2>3. QED
      BY <2>2, PartsStay
  <1>7. CASE PrepareMultipartResume
    <2>1. CASE Parts # {} /\ layout # n
      BY <1>7, <2>1 DEF PrepareMultipartResume
    <2>2. CASE ~(Parts # {} /\ layout # n)
      <3>1. file' = [s \in Slot |-> IF s > n THEN NoFile ELSE file[s]]
        BY <1>7, <2>2 DEF PrepareMultipartResume
      <3>2. file[i] # NoFile => layout = n /\ i <= n
        BY <2>2 DEF Parts, TInv, FilesBegin
      <3>3. i \in Nat /\ n \in Nat /\ i \in Slot
        BY TransferTypes
      <3>4. file[i] # NoFile => ~(i > n)
        BY <3>2, <3>3
      <3>5. QED
        BY <3>1, <3>3, <3>4
    <2>3. QED
      BY <2>1, <2>2
  <1>8. ~Wipe /\ ~Tidy
    BY DEF Wipe, Tidy, TInv, Split
  <1>9. QED
    BY <1>1, <1>2, <1>3, <1>4, <1>5, <1>6, <1>7, <1>8 DEF Next, RunStep

\* A pause, an abort, an error and a crash keep what can be resumed: the bytes of a part
\* are given up only for another layout, after the file is published, or for a cancelled
\* job (downloader.go:1341-1363, 1758-1802, 2116-2131).
THEOREM ResumableBytesAreKeptAlways ==
    ASSUME TransferAssumption PROVE Spec => ResumableBytesAreKept
  <1>1. ASSUME TInv, [Next]_vars,
               \E i \in Part : Held(file', i) < Held(file, i)
        PROVE  phase = "wipe" \/ dst # NoFile \/ ctx = "cancelled"
    <2>1. PICK i \in Part : Held(file', i) < Held(file, i)
      BY <1>1
    <2>2. SUFFICES ASSUME phase # "wipe", dst = NoFile, ctx # "cancelled" PROVE FALSE
      OBVIOUS
    <2>3. /\ file[i] \in Content \cup {NoFile} /\ file'[i] \in Content \cup {NoFile}
      <3>1. TInv'
        BY <1>1, StepKeeps
      <3>2. QED
        BY <1>1, <3>1, TransferTypes DEF TInv, Shape
    <2>4. Held(file, i) \in Nat /\ Held(file', i) \in Nat
      BY <2>3 DEF Held, Content
    <2>5. \/ file'[i] = file[i]
          \/ file[i] = NoFile \/ file[i] = <<>>
          \/ file[i] \in Content /\ file'[i] \in Content /\ Len(file'[i]) > Len(file[i])
      BY <1>1, <2>2, RunKeepsBytes
    <2>6. NoFile \notin Content /\ Len(<<>>) = 0
      BY <1>1, TransferTypes
    <2>7. QED
      <3>1. CASE file'[i] = file[i]
        BY <2>1, <2>4, <3>1 DEF Held
      <3>2. CASE file[i] = NoFile \/ file[i] = <<>>
        <4>1. Held(file, i) = 0
          BY <2>6, <3>2 DEF Held
        <4>2. QED
          BY <2>1, <2>4, <4>1
      <3>3. CASE file[i] \in Content /\ file'[i] \in Content /\ Len(file'[i]) > Len(file[i])
        <4>1. Held(file, i) = Len(file[i]) /\ Held(file', i) = Len(file'[i])
          BY <2>6, <3>3 DEF Held
        <4>2. QED
          BY <2>1, <2>4, <3>3, <4>1
      <3>4. QED
        BY <2>5, <3>1, <3>2, <3>3
  <1>2. Spec => []TInv
    BY TransferInvariant
  <1>3. QED
    BY <1>1, <1>2, PTL DEF Spec, ResumableBytesAreKept
=============================================================================
