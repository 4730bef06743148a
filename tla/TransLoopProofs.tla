--------------------------- MODULE TransLoopProofs ---------------------------
(***************************************************************************)
(* Proofs about TransLoop for every number of threads and ticks and every  *)
(* choice of latencies.                                                    *)
(***************************************************************************)
EXTENDS TransLoop, SumTheorems, TLAPS

\* The threads keep their types, whatever the merge does.
LEMMA ThreadTypes == Spec => []ThreadsTypeOK
<1> USE LoopAssumption DEF ThreadsTypeOK, Latency
<1>1. Init => ThreadsTypeOK
  BY DEF Init, NoLatency
<1>2. ThreadsTypeOK /\ [Next]_vars => ThreadsTypeOK'
  <2> SUFFICES ASSUME ThreadsTypeOK, [Next]_vars PROVE ThreadsTypeOK'
    OBVIOUS
  <2>1. ASSUME NEW t \in Threads, NEW d \in Latencies, NEW gap \in Gaps, Op(t, d, gap)
        PROVE  ThreadsTypeOK'
    <3> DEFINE lat == [cur_lat[t] EXCEPT ![d] = @ + 1]
    <3>1. lat \in Latency
      <4>1. cur_lat[t] \in Latency
        OBVIOUS
      <4> HIDE DEF ThreadsTypeOK
      <4> QED BY <4>1
    <3>2. elapsed[t] + gap + d \in Int
      OBVIOUS
    <3>3. elapsed' = [elapsed EXCEPT ![t] = elapsed[t] + gap + d]
      BY <2>1 DEF Op
    <3>4. elapsed' \in [Threads -> Int]
      BY <3>2, <3>3
    <3>5. (seq[t] + 1) % Word \in 0..Word - 1
      <4>1. seq[t] + 1 \in Int /\ Word \in Nat \ {0}
        OBVIOUS
      <4> QED BY <4>1, Quotient, Zenon
    <3>6. seq' \in [Threads -> 0..Word - 1]
      BY <2>1, <3>5 DEF Op
    <3>7. CASE Due(elapsed'[t], cur_tick[t])
      <4> DEFINE tpt == Append(cont_tpt[t], seq'[t])
                 lats == Append(cont_lat[t], lat)
      <4>1. /\ cont_tpt' = [cont_tpt EXCEPT ![t] = tpt]
            /\ cont_lat' = [cont_lat EXCEPT ![t] = lats]
            /\ cur_tick' = [cur_tick EXCEPT ![t] = cur_tick[t] + 1]
            /\ cur_lat' = [cur_lat EXCEPT ![t] = NoLatency]
            /\ UNCHANGED pc
        <5> USE <2>1, <3>7 DEF Op, Push
        <5>1. cont_tpt' = [cont_tpt EXCEPT ![t] = tpt]
          BY Zenon
        <5>2. cont_lat' = [cont_lat EXCEPT ![t] = lats]
          BY Zenon
        <5>3. /\ cur_tick' = [cur_tick EXCEPT ![t] = cur_tick[t] + 1]
              /\ cur_lat' = [cur_lat EXCEPT ![t] = NoLatency] /\ UNCHANGED pc
          BY Zenon
        <5> QED BY <5>1, <5>2, <5>3
      <4>2. tpt \in Seq(0..Word - 1)
        BY <3>6
      <4>3. lats \in Seq(Latency)
        <5>1. cont_lat[t] \in Seq(Latency)
          OBVIOUS
        <5> HIDE DEF Latency, lat, ThreadsTypeOK
        <5> QED BY <3>1, <5>1
      <4>4. cur_tick[t] + 1 \in 0..NumTicks
        <5>1. cur_tick[t] < NumTicks
          BY <2>1, Zenon DEF Op, MoreTicks
        <5>2. cur_tick[t] \in 0..NumTicks /\ NumTicks \in Nat
          OBVIOUS
        <5> HIDE DEF ThreadsTypeOK
        <5> QED BY <5>1, <5>2
      <4>5. NoLatency \in Latency
        BY DEF NoLatency
      <4> HIDE DEF tpt, lats, lat
      <4>6. cont_tpt' \in [Threads -> Seq(0..Word - 1)]
        BY <4>1, <4>2
      <4>7. cont_lat' \in [Threads -> Seq(Latency)]
        BY <4>1, <4>3
      <4>8. cur_tick' \in [Threads -> 0..NumTicks]
        BY <4>1, <4>4
      <4>9. cur_lat' \in [Threads -> Latency]
        BY <4>1, <4>5
      <4>10. UNCHANGED pc
        BY <4>1
      <4> QED BY <3>4, <3>6, <4>6, <4>7, <4>8, <4>9, <4>10, Zenon
    <3>8. CASE ~Due(elapsed'[t], cur_tick[t])
      <4>1. cur_lat' = [cur_lat EXCEPT ![t] = lat] /\ UNCHANGED <<cont_tpt, cont_lat, cur_tick, pc>>
        BY <2>1, <3>8 DEF Op
      <4> HIDE DEF lat
      <4>2. cur_lat' \in [Threads -> Latency]
        BY <3>1, <4>1
      <4> QED BY <3>4, <3>6, <4>1, <4>2, Zenon
    <3> QED BY <3>7, <3>8
  <2>2. ASSUME NEW t \in Threads, Return(t) PROVE ThreadsTypeOK'
    BY <2>2 DEF Return
  <2>3. CASE Merge
    BY <2>3 DEF Merge
  <2>4. CASE UNCHANGED vars
    BY <2>4 DEF vars
  <2> QED BY <2>1, <2>2, <2>3, <2>4 DEF Next, Terminated
<1> QED BY <1>1, <1>2, PTL DEF Spec
------------------------------------------------------------------------------
\* As long as it fits, the product of 32 bits is the product.
LEMMA ProductFits ==
  ASSUME NoWrap, NEW k \in 0..NumTicks - 1
  PROVE  (k * Tick) % ClockWord = k * Tick
<1> USE LoopAssumption
<1>1. k \in Nat /\ NumTicks - 1 - k \in Nat /\ Tick \in Nat /\ Tick > 0
      /\ ClockWord \in Nat /\ ClockWord > 0
  OBVIOUS
<1>2. k * Tick \in Nat /\ (NumTicks - 1 - k) * Tick \in Nat
  BY <1>1
<1>3. (NumTicks - 1) * Tick = k * Tick + (NumTicks - 1 - k) * Tick
  BY <1>1
<1>4. k * Tick < ClockWord
  BY <1>1, <1>2, <1>3 DEF NoWrap
<1> QED BY <1>1, <1>2, <1>4

\* A clock that is not set back does not go backwards in the loop.
Forward == \A t \in Threads : elapsed[t] >= 0

LEMMA ForwardAlways == ASSUME Monotonic PROVE Spec => []Forward
<1>1. Init => Forward
  BY DEF Init, Forward
<1>2. ThreadsTypeOK /\ Forward /\ [Next]_vars => Forward'
  <2> SUFFICES ASSUME ThreadsTypeOK, Forward, [Next]_vars PROVE Forward'
    OBVIOUS
  <2>1. ASSUME NEW t \in Threads, NEW d \in Latencies, NEW gap \in Gaps, Op(t, d, gap)
        PROVE  Forward'
    <3>1. gap \in Nat /\ d \in Nat
      BY LoopAssumption DEF Monotonic
    <3> QED BY <2>1, <3>1 DEF Op, Forward, ThreadsTypeOK
  <2> QED BY <2>1 DEF Forward, Next, Return, Merge, Terminated, vars
<1> QED BY <1>1, <1>2, ThreadTypes, PTL DEF Spec

\* No sample is taken before its time, whatever the operations take, when the
\* execution time is short enough for the product of 32 bits and the clock is
\* not set back.
THEOREM NeverEarly == ASSUME NoWrap, Monotonic PROVE Spec => []OnTime
<1>1. Init => OnTime
  BY DEF Init, OnTime
<1>2. ThreadsTypeOK /\ Forward /\ Forward' /\ OnTime /\ [Next]_vars => OnTime'
  <2> SUFFICES ASSUME ThreadsTypeOK, Forward, Forward', OnTime, [Next]_vars PROVE OnTime'
    OBVIOUS
  <2>1. ASSUME NEW t \in Threads, NEW d \in Latencies, NEW gap \in Gaps, Op(t, d, gap)
        PROVE  OnTime'
    <3>1. /\ gap \in Nat /\ d \in Nat /\ elapsed[t] \in Int
          /\ cur_tick[t] \in 0..NumTicks - 1
          /\ elapsed'[t] = elapsed[t] + gap + d
      <4>1. gap \in Nat /\ d \in Nat
        BY LoopAssumption DEF Monotonic
      <4>2. elapsed[t] \in Int /\ cur_tick[t] \in 0..NumTicks - 1
        BY <2>1, LoopAssumption DEF Op, MoreTicks, ThreadsTypeOK
      <4>3. elapsed'[t] = elapsed[t] + gap + d
        BY <2>1 DEF Op, ThreadsTypeOK
      <4> QED BY <4>1, <4>2, <4>3
    <3>2. \A u \in Threads \ {t} : elapsed'[u] = elapsed[u] /\ cur_tick'[u] = cur_tick[u]
      BY <2>1 DEF Op, ThreadsTypeOK
    <3>3. CASE Due(elapsed'[t], cur_tick[t])
      <4>1. elapsed'[t] > cur_tick[t] * Tick
        BY <3>1, <3>3, ProductFits DEF Due, Forward
      <4>2. cur_tick'[t] = cur_tick[t] + 1
        BY <2>1, <3>3 DEF Op, ThreadsTypeOK
      <4>3. (cur_tick'[t] - 1) * Tick = cur_tick[t] * Tick
        BY <3>1, <4>2, LoopAssumption
      <4> QED BY <3>2, <4>1, <4>3 DEF OnTime
    <3>4. CASE ~Due(elapsed'[t], cur_tick[t])
      <4>1. cur_tick' = cur_tick
        BY <2>1, <3>4 DEF Op
      <4>2. (cur_tick[t] - 1) * Tick \in Int
        BY <3>1, LoopAssumption
      <4> QED BY <3>1, <3>2, <4>1, <4>2 DEF OnTime
    <3> QED BY <3>3, <3>4
  <2> QED BY <2>1 DEF OnTime, Next, Return, Merge, Terminated, vars
<1> QED BY <1>1, <1>2, ThreadTypes, ForwardAlways, PTL DEF Spec
------------------------------------------------------------------------------
\* An operation that stalls the loop shows in the latency maps, and what is in
\* them stays there.
LEMMA StallsShow ==
  ASSUME ThreadsTypeOK, NEW t \in Threads, NEW d \in Latencies, NEW gap \in Gaps,
         Op(t, d, gap), NoStall(t)'
  PROVE  NoStall(t) /\ ~(gap + d > Tick)
<1> DEFINE lat == [cur_lat[t] EXCEPT ![d] = @ + 1]
           Stalls(e) == \E g \in Gaps : g + e > Tick
<1>1. /\ cur_lat[t] \in [Latencies -> Nat] /\ lat \in [Latencies -> Nat]
      /\ cont_lat[t] \in Seq(Latency) /\ Len(cont_lat[t]) \in Nat
      /\ t \in DOMAIN cur_lat /\ t \in DOMAIN cont_lat
  BY DEF ThreadsTypeOK, Latency
<1>2. /\ \A e \in Latencies : Stalls(e) => lat[e] = 0
      /\ \A e \in Latencies : Stalls(e) =>
           \A j \in 1..Len(cont_lat[t]) : cont_lat[t][j][e] = 0
  <2>1. CASE Due(elapsed'[t], cur_tick[t])
    <3> DEFINE n == Len(cont_lat[t]) + 1
    <3>1. cont_lat'[t] = Append(cont_lat[t], lat)
      BY <1>1, <2>1 DEF Op, Push
    <3> HIDE DEF lat
    <3>2. /\ Len(cont_lat'[t]) = n /\ cont_lat'[t][n] = lat
          /\ \A j \in 1..Len(cont_lat[t]) : cont_lat'[t][j] = cont_lat[t][j]
      BY <1>1, <3>1
    <3>3. \A e \in Latencies : Stalls(e) => \A j \in 1..n : cont_lat'[t][j][e] = 0
      BY <3>2 DEF NoStall
    <3>4. n \in 1..n /\ \A j \in 1..Len(cont_lat[t]) : j \in 1..n
      BY <1>1
    <3> QED BY <3>2, <3>3, <3>4
  <2>2. CASE ~Due(elapsed'[t], cur_tick[t])
    <3>1. cur_lat'[t] = lat /\ cont_lat' = cont_lat
      BY <1>1, <2>2 DEF Op
    <3> HIDE DEF lat
    <3>2. \A e \in Latencies : Stalls(e) =>
            cur_lat'[t][e] = 0 /\ \A j \in 1..Len(cont_lat'[t]) : cont_lat'[t][j][e] = 0
      BY DEF NoStall
    <3> QED BY <3>1, <3>2
  <2> QED BY <2>1, <2>2
<1>3. lat[d] > 0 /\ \A e \in Latencies \ {d} : lat[e] = cur_lat[t][e]
  BY <1>1
<1>4. ~Stalls(d)
  BY <1>2, <1>3
<1> HIDE DEF lat
<1>5. NoStall(t)
  <2> SUFFICES ASSUME NEW e \in Latencies, Stalls(e)
               PROVE  /\ cur_lat[t][e] = 0
                      /\ \A j \in 1..Len(cont_lat[t]) : cont_lat[t][j][e] = 0
    BY DEF NoStall
  <2> QED BY <1>2, <1>3, <1>4
<1> QED BY <1>4, <1>5

LEMMA NeverLateAlways == ASSUME NoWrap, Monotonic PROVE Spec => []NeverLate
<1>1. Init => NeverLate
  BY LoopAssumption DEF Init, NeverLate
<1>2. ThreadsTypeOK /\ Forward' /\ NeverLate /\ [Next]_vars => NeverLate'
  <2> SUFFICES ASSUME ThreadsTypeOK, Forward', NeverLate, [Next]_vars PROVE NeverLate'
    OBVIOUS
  <2>1. ASSUME NEW t \in Threads, NEW d \in Latencies, NEW gap \in Gaps, Op(t, d, gap)
        PROVE  NeverLate'
    <3>1. /\ gap \in Nat /\ d \in Nat /\ elapsed[t] \in Int
          /\ cur_tick[t] \in 0..NumTicks - 1
          /\ elapsed'[t] = elapsed[t] + gap + d
      <4>1. gap \in Nat /\ d \in Nat
        BY LoopAssumption DEF Monotonic
      <4>2. elapsed[t] \in Int /\ cur_tick[t] \in 0..NumTicks - 1
        BY <2>1, LoopAssumption DEF Op, MoreTicks, ThreadsTypeOK
      <4>3. elapsed'[t] = elapsed[t] + gap + d
        BY <2>1 DEF Op, ThreadsTypeOK
      <4> QED BY <4>1, <4>2, <4>3
    <3>2. ASSUME NEW u \in Threads \ {t}, NoStall(u)'
          PROVE  elapsed'[u] <= cur_tick'[u] * Tick
      <4>1. /\ elapsed'[u] = elapsed[u] /\ cur_tick'[u] = cur_tick[u]
            /\ cur_lat'[u] = cur_lat[u] /\ cont_lat'[u] = cont_lat[u]
        <5>1. CASE Due(elapsed'[t], cur_tick[t])
          BY <2>1, <5>1 DEF Op, Push, ThreadsTypeOK
        <5>2. CASE ~Due(elapsed'[t], cur_tick[t])
          BY <2>1, <5>2 DEF Op, ThreadsTypeOK
        <5> QED BY <5>1, <5>2
      <4>2. NoStall(u)
        BY <3>2, <4>1 DEF NoStall
      <4> QED BY <4>1, <4>2 DEF NeverLate
    <3>3. ASSUME NoStall(t)' PROVE elapsed'[t] <= cur_tick'[t] * Tick
      <4>1. NoStall(t) /\ ~(gap + d > Tick)
        BY <2>1, <3>3, StallsShow
      <4>2. CASE Due(elapsed'[t], cur_tick[t])
        <5>1. cur_tick'[t] = cur_tick[t] + 1
          BY <2>1, <4>2 DEF Op, ThreadsTypeOK
        <5>2. cur_tick'[t] * Tick = cur_tick[t] * Tick + Tick
          BY <3>1, <5>1, LoopAssumption
        <5>3. cur_tick[t] * Tick \in Nat /\ Tick \in Nat
          BY <3>1, LoopAssumption
        <5>4. elapsed[t] <= cur_tick[t] * Tick
          BY <4>1 DEF NeverLate
        <5> QED BY <3>1, <4>1, <5>2, <5>3, <5>4
      <4>3. CASE ~Due(elapsed'[t], cur_tick[t])
        <5>1. cur_tick' = cur_tick
          BY <2>1, <4>3 DEF Op
        <5> QED BY <3>1, <4>3, <5>1, ProductFits, LoopAssumption DEF Due, Forward
      <4> QED BY <4>2, <4>3
    <3> QED BY <3>2, <3>3 DEF NeverLate
  <2>2. ASSUME UNCHANGED <<elapsed, cur_tick, cur_lat, cont_lat>> PROVE NeverLate'
    BY <2>2 DEF NeverLate, NoStall
  <2> QED BY <2>1, <2>2 DEF Next, Return, Merge, Terminated, vars
<1> QED BY <1>1, <1>2, ThreadTypes, ForwardAlways, PTL DEF Spec

\* Samples with the same number stem from the same tick in all threads that no
\* operation has stalled for longer than a tick.
THEOREM SamplesInStep == ASSUME NoWrap, Monotonic PROVE Spec => []InStep
<1>1. ThreadsTypeOK /\ OnTime /\ NeverLate => InStep
  <2> SUFFICES ASSUME ThreadsTypeOK, OnTime, NeverLate,
                      NEW t \in Threads, NoStall(t), cur_tick[t] > 0
               PROVE  elapsed[t] \in (cur_tick[t] - 1) * Tick + 1 .. cur_tick[t] * Tick
    BY DEF InStep
  <2>1. /\ (cur_tick[t] - 1) * Tick \in Int /\ cur_tick[t] * Tick \in Int
        /\ elapsed[t] \in Int
    BY LoopAssumption DEF ThreadsTypeOK
  <2> QED BY <2>1 DEF OnTime, NeverLate
<1> QED BY <1>1, NeverEarly, NeverLateAlways, ThreadTypes, PTL
------------------------------------------------------------------------------
(* What the samples add up to.                                              *)

LEMMA SetsFinite ==
  /\ IsFiniteSet(Threads) /\ IsFiniteSet(Latencies) /\ 1 \in Threads
  /\ \A lat \in Latency : SumFunction(lat) \in Nat
<1>1. IsFiniteSet(Threads) /\ IsFiniteSet(Latencies) /\ 1 \in Threads
  BY LoopAssumption, FS_Interval DEF Threads
<1>2. \A lat \in Latency : SumFunction(lat) \in Nat
  BY <1>1, SumWhole DEF Latency
<1> QED BY <1>1, <1>2

\* One more operation in a latency map.
LEMMA OneMore ==
  ASSUME NEW lat \in Latency, NEW d \in Latencies
  PROVE  SumFunction([lat EXCEPT ![d] = @ + 1]) = SumFunction(lat) + 1
<1> DEFINE new == [lat EXCEPT ![d] = @ + 1]
<1>1. /\ lat \in [Latencies -> Nat] /\ new \in [Latencies -> Nat]
      /\ new[d] = lat[d] + 1 /\ \A e \in Latencies \ {d} : new[e] = lat[e]
  BY DEF Latency
<1> HIDE DEF new
<1>2. /\ SumFunction(lat) = SumFunctionOnSet(lat, Latencies)
      /\ SumFunction(new) = SumFunctionOnSet(new, Latencies)
      /\ SumFunction(lat) \in Nat
  BY <1>1, SetsFinite, SumWhole
<1>3. \A e \in Latencies : lat[e] \in Nat /\ new[e] \in Nat
  BY <1>1
<1>4. SumFunctionOnSet(new, Latencies) = SumFunctionOnSet(lat, Latencies) - lat[d] + new[d]
  BY <1>1, <1>3, SetsFinite, SumChange
<1>5. SumFunction(new) = SumFunction(lat) + 1
  BY <1>1, <1>2, <1>3, <1>4
<1> QED BY <1>5 DEF new

LEMMA NoneYet == NoLatency \in Latency /\ SumFunction(NoLatency) = 0
<1>1. NoLatency \in [Latencies -> Nat] /\ \A d \in Latencies : NoLatency[d] = 0
  BY DEF NoLatency
<1>2. SumFunction(NoLatency) = SumFunctionOnSet(NoLatency, Latencies)
  BY <1>1, SetsFinite, SumWhole
<1> QED BY <1>1, <1>2, SetsFinite, SumZero DEF Latency

\* Samples that add up still do when one is pushed that accounts for what came
\* since the last one.
LEMMA PushAddsUp ==
  ASSUME NEW tpt \in Seq(0..Word - 1), NEW lats \in Seq(Latency), AddsUp(tpt, lats),
         NEW x \in 0..Word - 1, NEW lat \in Latency,
         SumFunction(lat) % Word = (x - Before(tpt, Len(tpt) + 1)) % Word
  PROVE  AddsUp(Append(tpt, x), Append(lats, lat))
<1> DEFINE n == Len(tpt)
           t2 == Append(tpt, x)
           l2 == Append(lats, lat)
<1>1. n \in Nat /\ Len(lats) = n
  BY DEF AddsUp
<1>2. /\ Len(t2) = n + 1 /\ t2[n + 1] = x
      /\ \A j \in 1..n : t2[j] = tpt[j]
  OBVIOUS
<1>3. /\ Len(l2) = n + 1 /\ l2[n + 1] = lat
      /\ \A j \in 1..n : l2[j] = lats[j]
  <2> HIDE DEF n
  <2> QED BY <1>1
<1>4. \A j \in 1..n + 1 : Before(t2, j) = Before(tpt, j)
  <2> SUFFICES ASSUME NEW j \in 1..n + 1 PROVE Before(t2, j) = Before(tpt, j)
    OBVIOUS
  <2>1. j = 1 \/ j - 1 \in 1..n
    BY <1>1
  <2> HIDE DEF t2, n
  <2> QED BY <1>2, <2>1 DEF Before
<1>5. \A j \in 1..n : SumFunction(lats[j]) % Word = (tpt[j] - Before(tpt, j)) % Word
  BY DEF AddsUp
<1> SUFFICES ASSUME NEW j \in 1..n + 1
             PROVE  SumFunction(l2[j]) % Word = (t2[j] - Before(t2, j)) % Word
  <2> HIDE DEF t2, l2, n
  <2>1. Len(t2) = Len(l2)
    BY <1>2, <1>3
  <2> QED BY <1>2, <2>1 DEF AddsUp, t2, l2
<1>6. CASE j = n + 1
  <2>1. /\ l2[j] = lat /\ t2[j] = x /\ Before(t2, j) = Before(tpt, n + 1)
    BY <1>2, <1>3, <1>4, <1>6
  <2> HIDE DEF t2, l2
  <2> QED BY <2>1
<1>7. CASE j \in 1..n
  <2>1. /\ l2[j] = lats[j] /\ t2[j] = tpt[j] /\ Before(t2, j) = Before(tpt, j)
    BY <1>2, <1>3, <1>4, <1>7
  <2> HIDE DEF t2, l2, n
  <2> QED BY <2>1, <1>5, <1>7
<1>8. j = n + 1 \/ j \in 1..n
  BY <1>1
<1> QED BY <1>6, <1>7, <1>8
------------------------------------------------------------------------------
\* A thread takes both samples at once, has none left to take when it returns,
\* and its last one leaves nothing in cur_lat_map.
Sampling(t) ==
  /\ Len(cont_tpt[t]) = cur_tick[t] /\ Len(cont_lat[t]) = cur_tick[t]
  /\ cur_tick[t] = NumTicks => cur_lat[t] = NoLatency
  /\ pc[t] = "returned" => cur_tick[t] = NumTicks

Accounted(t) ==
  /\ AddsUp(cont_tpt[t], cont_lat[t])
  /\ SumFunction(cur_lat[t]) % Word =
       (seq[t] - Before(cont_tpt[t], Len(cont_tpt[t]) + 1)) % Word

SamplesInv == \A t \in Threads : Sampling(t) /\ Accounted(t)

\* The variables of a thread that its operations change.
Local(t) == <<seq[t], cur_tick[t], cur_lat[t], cont_tpt[t], cont_lat[t], pc[t]>>

LEMMA LocalSame ==
  ASSUME NEW t \in Threads, Sampling(t), Accounted(t), Local(t)' = Local(t)
  PROVE  Sampling(t)' /\ Accounted(t)'
<1>1. /\ seq'[t] = seq[t] /\ cur_tick'[t] = cur_tick[t] /\ cur_lat'[t] = cur_lat[t]
      /\ cont_tpt'[t] = cont_tpt[t] /\ cont_lat'[t] = cont_lat[t] /\ pc'[t] = pc[t]
  BY DEF Local
<1>2. Sampling(t)'
  BY <1>1 DEF Sampling
<1>3. Accounted(t)'
  BY <1>1 DEF Accounted
<1> QED BY <1>2, <1>3

LEMMA OpSamples ==
  ASSUME ThreadsTypeOK, SamplesInv, NEW t \in Threads, NEW d \in Latencies,
         NEW gap \in Gaps, Op(t, d, gap)
  PROVE  SamplesInv'
<1> DEFINE lat == [cur_lat[t] EXCEPT ![d] = @ + 1]
           x == (seq[t] + 1) % Word
           before == Before(cont_tpt[t], Len(cont_tpt[t]) + 1)
<1>1. Word \in Nat \ {0} /\ NumTicks \in Nat
  BY LoopAssumption
<1>2. /\ seq[t] \in 0..Word - 1 /\ cur_lat[t] \in Latency /\ cur_tick[t] \in 0..NumTicks
      /\ cont_tpt[t] \in Seq(0..Word - 1) /\ cont_lat[t] \in Seq(Latency)
      /\ t \in DOMAIN seq /\ t \in DOMAIN cur_lat /\ t \in DOMAIN cont_tpt
      /\ t \in DOMAIN cont_lat /\ t \in DOMAIN cur_tick
  BY DEF ThreadsTypeOK
<1>3. pc[t] = "run" /\ cur_tick[t] < NumTicks /\ pc' = pc
  BY Zenon DEF Op, MoreTicks
<1>4. seq'[t] = x
  BY <1>2 DEF Op
<1>5. lat \in Latency /\ SumFunction(lat) = SumFunction(cur_lat[t]) + 1
  <2>1. lat \in Latency
    BY <1>2 DEF Latency
  <2> QED BY <2>1, <1>2, OneMore
<1>6. x \in 0..Word - 1
  BY <1>1, <1>2
<1>7. before \in Int
  <2>1. Len(cont_tpt[t]) \in Nat
    BY <1>2
  <2>2. Len(cont_tpt[t]) + 1 # 1 =>
          (Len(cont_tpt[t]) + 1) - 1 \in 1..Len(cont_tpt[t])
    BY <2>1
  <2>3. \A j \in 1..Len(cont_tpt[t]) : cont_tpt[t][j] \in Int
    BY <1>1, <1>2
  <2> QED BY <2>2, <2>3 DEF Before
<1>8. SumFunction(lat) % Word = (x - before) % Word
  <2> DEFINE s == SumFunction(cur_lat[t])
             q == seq[t]
             m == -before
  <2>1. s \in Int /\ q \in Int /\ m \in Int
    <3>1. SumFunction(cur_lat[t]) \in Nat
      BY <1>2, SetsFinite
    <3> QED BY <1>1, <1>2, <1>7, <3>1
  <2>2. s % Word = (q + m) % Word
    <3>1. SumFunction(cur_lat[t]) % Word = (seq[t] - before) % Word
      BY DEF SamplesInv, Accounted
    <3>2. seq[t] - before = q + m
      BY <1>1, <1>2, <1>7
    <3> QED BY <3>1, <3>2
  <2> HIDE DEF s, q, m
  <2>3. (s + 1) % Word = (((q + 1) % Word) + m) % Word
    BY <1>1, <2>1, <2>2, ModStep
  <2>4. SumFunction(lat) = s + 1
    BY <1>5 DEF s
  <2>5. x - before = ((q + 1) % Word) + m
    BY <1>6, <1>7 DEF q, m
  <2> QED BY <2>3, <2>4, <2>5
<1>9. Sampling(t)' /\ Accounted(t)'
  <2>1. CASE Due(elapsed'[t], cur_tick[t])
    <3> DEFINE tpt == Append(cont_tpt[t], x)
               lats == Append(cont_lat[t], lat)
               n == cur_tick[t]
    <3>1. /\ cont_lat'[t] = lats /\ cur_lat'[t] = NoLatency
          /\ cur_tick'[t] = n + 1
      BY <1>2, <2>1 DEF Op, Push
    <3>2. cont_tpt'[t] = tpt
      BY <1>2, <1>4, <2>1 DEF Op, Push
    <3>3. n \in Nat /\ Len(cont_tpt[t]) = n /\ Len(cont_lat[t]) = n
      BY <1>1, <1>2 DEF SamplesInv, Sampling
    <3>4. Len(tpt) = n + 1 /\ tpt[n + 1] = x
      <4> HIDE DEF n, x
      <4> QED BY <1>2, <1>6, <3>3
    <3>5. Len(lats) = n + 1
      <4> HIDE DEF n, lat
      <4> QED BY <1>2, <1>5, <3>3
    <3>6. AddsUp(tpt, lats)
      <4>1. AddsUp(cont_tpt[t], cont_lat[t])
        BY DEF SamplesInv, Accounted
      <4> HIDE DEF x, lat
      <4> QED BY <4>1, <1>2, <1>5, <1>6, <1>8, PushAddsUp
    <3>7. Before(tpt, Len(tpt) + 1) = x
      <4>1. (n + 1) + 1 # 1 /\ ((n + 1) + 1) - 1 = n + 1
        BY <3>3
      <4> HIDE DEF tpt, n
      <4> QED BY <3>4, <4>1 DEF Before
    <3>8. SumFunction(NoLatency) % Word = (x - x) % Word
      <4> HIDE DEF x
      <4>1. x - x = 0
        BY <1>6
      <4> QED BY <4>1, NoneYet
    <3>9. Accounted(t)'
      <4> HIDE DEF tpt, lats, x
      <4> QED BY <1>4, <3>1, <3>2, <3>6, <3>7, <3>8 DEF Accounted
    <3>10. Sampling(t)'
      <4> HIDE DEF tpt, lats, x
      <4> QED BY <1>3, <3>1, <3>2, <3>4, <3>5 DEF Sampling
    <3> QED BY <3>9, <3>10
  <2>2. CASE ~Due(elapsed'[t], cur_tick[t])
    <3>1. /\ cur_lat'[t] = lat
          /\ cur_tick'[t] = cur_tick[t] /\ cont_tpt'[t] = cont_tpt[t]
          /\ cont_lat'[t] = cont_lat[t]
      BY <1>2, <2>2 DEF Op
    <3> HIDE DEF lat, x
    <3>2. AddsUp(cont_tpt[t], cont_lat[t])
      BY DEF SamplesInv, Accounted
    <3>3. Accounted(t)'
      BY <1>4, <1>8, <3>1, <3>2 DEF Accounted
    <3>4. Len(cont_tpt[t]) = cur_tick[t] /\ Len(cont_lat[t]) = cur_tick[t]
      BY DEF SamplesInv, Sampling
    <3>5. cur_tick[t] # NumTicks
      BY <1>1, <1>2, <1>3
    <3>6. Sampling(t)'
      BY <1>3, <3>1, <3>4, <3>5 DEF Sampling
    <3> QED BY <3>3, <3>6
  <2> QED BY <2>1, <2>2
<1>10. ASSUME NEW u \in Threads \ {t} PROVE Sampling(u)' /\ Accounted(u)'
  <2>1. Local(u)' = Local(u)
    <3>1. CASE Due(elapsed'[t], cur_tick[t])
      BY <3>1 DEF Op, Push, ThreadsTypeOK, Local
    <3>2. CASE ~Due(elapsed'[t], cur_tick[t])
      BY <3>2 DEF Op, ThreadsTypeOK, Local
    <3> QED BY <3>1, <3>2
  <2>2. u \in Threads /\ Sampling(u) /\ Accounted(u)
    BY DEF SamplesInv
  <2> QED BY <2>1, <2>2, LocalSame
<1> QED BY <1>9, <1>10 DEF SamplesInv

LEMMA SamplesAlways == Spec => []SamplesInv
<1>1. Init => SamplesInv
  <2> SUFFICES ASSUME Init, NEW t \in Threads PROVE Sampling(t) /\ Accounted(t)
    BY DEF SamplesInv
  <2>1. /\ pc[t] = "run" /\ seq[t] = 0 /\ cur_tick[t] = 0 /\ cur_lat[t] = NoLatency
        /\ cont_tpt[t] = <<>> /\ cont_lat[t] = <<>>
    BY DEF Init
  <2>2. Sampling(t)
    BY <2>1 DEF Sampling
  <2>3. AddsUp(<<>>, <<>>) /\ Before(<<>>, Len(<<>>) + 1) = 0
    BY DEF AddsUp, Before
  <2> QED BY <2>1, <2>2, <2>3, NoneYet DEF Accounted
<1>2. ThreadsTypeOK /\ SamplesInv /\ [Next]_vars => SamplesInv'
  <2> SUFFICES ASSUME ThreadsTypeOK, SamplesInv, [Next]_vars PROVE SamplesInv'
    OBVIOUS
  <2>1. ASSUME NEW t \in Threads, Return(t) PROVE SamplesInv'
    <3>1. ASSUME NEW u \in Threads PROVE Sampling(u)' /\ Accounted(u)'
      <4>1. /\ UNCHANGED <<seq, cur_tick, cur_lat, cont_tpt, cont_lat>>
            /\ pc' = [pc EXCEPT ![t] = "returned"] /\ ~(cur_tick[t] < NumTicks)
        BY <2>1 DEF Return, MoreTicks
      <4>2. Sampling(u) /\ Accounted(u)
        BY DEF SamplesInv
      <4>3. Accounted(u)'
        BY <4>1, <4>2 DEF Accounted
      <4>4. pc'[u] = "returned" => cur_tick[u] = NumTicks
        <5>1. CASE u = t
          <6>1. cur_tick[t] \in 0..NumTicks /\ NumTicks \in Nat
            BY LoopAssumption DEF ThreadsTypeOK
          <6> QED BY <4>1, <5>1, <6>1
        <5>2. CASE u # t
          BY <4>1, <4>2, <5>2 DEF Sampling, ThreadsTypeOK
        <5> QED BY <5>1, <5>2
      <4> QED BY <4>1, <4>2, <4>3, <4>4 DEF Sampling
    <3> QED BY <3>1 DEF SamplesInv
  <2>2. ASSUME UNCHANGED <<pc, seq, cur_tick, cur_lat, cont_tpt, cont_lat>> PROVE SamplesInv'
    <3>1. \A t \in Threads : Local(t)' = Local(t)
      BY <2>2 DEF Local
    <3> QED BY <3>1, LocalSame DEF SamplesInv
  <2> QED BY <2>1, <2>2, OpSamples DEF Next, Merge, Terminated, vars
<1> QED BY <1>1, <1>2, ThreadTypes, PTL DEF Spec

\* In every thread the latency maps and the throughput samples count the same
\* operations, stalls, catching up and the overflow of seq included, and a
\* thread that returns leaves no operation out.
THEOREM SamplesExact == Spec => []SamplesAddUp
<1>1. SamplesInv => SamplesAddUp
  BY DEF SamplesInv, Sampling, Accounted, SamplesAddUp
<1> QED BY <1>1, SamplesAlways, PTL
------------------------------------------------------------------------------
\* The samples merged, and the report once there is one.
MergedTpt ==
  [j \in 1..Len(cont_tpt[1]) |->
     SumFunction([t \in Sampled(j) |-> cont_tpt[t][j]]) % Word]
MergedLat ==
  [j \in 1..Len(cont_lat[1]) |->
     [d \in Latencies |-> SumFunction([t \in Threads |-> cont_lat[t][j][d]])]]

AllReturned == \A t \in Threads : pc[t] = "returned"
Reported == report # <<>> =>
              AllReturned /\ report = [tpt |-> MergedTpt, lat |-> MergedLat]

LEMMA ReportedAlways == Spec => []Reported
<1>1. Init => Reported
  BY DEF Init, Reported
<1>2. Reported /\ [Next]_vars => Reported'
  <2> SUFFICES ASSUME Reported, [Next]_vars PROVE Reported'
    OBVIOUS
  <2>1. ASSUME NEW t \in Threads, NEW d \in Latencies, NEW gap \in Gaps, Op(t, d, gap)
        PROVE  Reported'
    <3>1. pc[t] = "run" /\ UNCHANGED report
      BY <2>1, Zenon DEF Op
    <3>2. ~AllReturned
      BY <3>1 DEF AllReturned
    <3> QED BY <3>1, <3>2 DEF Reported
  <2>2. ASSUME NEW t \in Threads, Return(t) PROVE Reported'
    <3>1. pc[t] = "run" /\ UNCHANGED report
      BY <2>2, Zenon DEF Return
    <3>2. ~AllReturned
      BY <3>1 DEF AllReturned
    <3> QED BY <3>1, <3>2 DEF Reported
  <2>3. ASSUME UNCHANGED <<pc, cont_tpt, cont_lat>>
        PROVE  AllReturned' = AllReturned /\ MergedTpt' = MergedTpt /\ MergedLat' = MergedLat
    BY <2>3 DEF AllReturned, MergedTpt, MergedLat, Sampled
  <2>4. CASE Merge
    <3>1. AllReturned /\ report' = [tpt |-> MergedTpt, lat |-> MergedLat]
      BY <2>4, Zenon DEF Merge, AllReturned, MergedTpt, MergedLat
    <3>2. UNCHANGED <<pc, cont_tpt, cont_lat>>
      BY <2>4 DEF Merge
    <3> QED BY <2>3, <3>1, <3>2 DEF Reported
  <2>5. CASE UNCHANGED vars
    <3>1. UNCHANGED <<pc, cont_tpt, cont_lat>> /\ UNCHANGED report
      BY <2>5 DEF vars
    <3> QED BY <2>3, <3>1 DEF Reported
  <2> QED BY <2>1, <2>2, <2>4, <2>5 DEF Next, Terminated
<1> QED BY <1>1, <1>2, PTL DEF Spec

\* When the threads have returned each has taken all samples: none is missing
\* from the merge.
LEMMA AllSampled ==
  ASSUME ThreadsTypeOK, SamplesInv, AllReturned
  PROVE  /\ NumTicks \in Nat
         /\ \A t \in Threads : Len(cont_tpt[t]) = NumTicks /\ Len(cont_lat[t]) = NumTicks
         /\ \A t \in Threads, j \in 1..NumTicks :
              cont_tpt[t][j] \in 0..Word - 1 /\ cont_lat[t][j] \in Latency
         /\ \A j \in 1..NumTicks : Sampled(j) = Threads
<1>1. NumTicks \in Nat
  BY LoopAssumption
<1>2. \A t \in Threads : Len(cont_tpt[t]) = NumTicks /\ Len(cont_lat[t]) = NumTicks
  BY DEF SamplesInv, Sampling, AllReturned
<1>3. \A t \in Threads : cont_tpt[t] \in Seq(0..Word - 1) /\ cont_lat[t] \in Seq(Latency)
  BY DEF ThreadsTypeOK
<1>4. ASSUME NEW t \in Threads, NEW j \in 1..NumTicks
      PROVE  cont_tpt[t][j] \in 0..Word - 1 /\ cont_lat[t][j] \in Latency
  <2> DEFINE tpt == cont_tpt[t]
             lats == cont_lat[t]
             L == Latency
             W == 0..Word - 1
  <2>1. /\ tpt \in Seq(W) /\ Len(tpt) = NumTicks
        /\ lats \in Seq(L) /\ Len(lats) = NumTicks
    BY <1>2, <1>3
  <2> HIDE DEF tpt, lats, L, W
  <2>2. tpt[j] \in W
    BY <2>1
  <2>3. lats[j] \in L
    BY <2>1
  <2> QED BY <2>2, <2>3 DEF tpt, lats, L, W
<1>5. \A j \in 1..NumTicks : Sampled(j) = Threads
  BY <1>1, <1>2 DEF Sampled
<1> QED BY <1>1, <1>2, <1>4, <1>5

\* The j-th samples of all threads, what came before them and what their
\* latency maps count.
Sample(j) == [t \in Threads |-> cont_tpt[t][j]]
Earlier(j) == [t \in Threads |-> Before(cont_tpt[t], j)]
Counts(j) == [t \in Threads |-> SumFunction(cont_lat[t][j])]

LEMMA MergeTyped ==
  ASSUME ThreadsTypeOK, SamplesInv, AllReturned
  PROVE  /\ MergedTpt = [j \in 1..NumTicks |-> SumFunction(Sample(j)) % Word]
         /\ MergedTpt \in Seq(0..Word - 1) /\ MergedLat \in Seq(Latency)
         /\ Len(MergedTpt) = NumTicks /\ Len(MergedLat) = NumTicks
         /\ \A j \in 1..NumTicks :
              /\ Sample(j) \in [Threads -> Nat] /\ Earlier(j) \in [Threads -> Nat]
              /\ Counts(j) \in [Threads -> Nat]
              /\ SumFunction(Sample(j)) \in Nat
<1>1. 1 \in Threads /\ Word \in Nat \ {0} /\ IsFiniteSet(Threads)
  BY SetsFinite, LoopAssumption
<1>2. NumTicks \in Nat
  BY LoopAssumption
<1>3. MergedTpt = [j \in 1..NumTicks |-> SumFunction(Sample(j)) % Word]
  <2>1. \A j \in 1..NumTicks :
          [t \in Sampled(j) |-> cont_tpt[t][j]] = Sample(j)
    BY AllSampled DEF Sample
  <2>2. Len(cont_tpt[1]) = NumTicks
    BY <1>1, AllSampled
  <2> QED BY <2>1, <2>2 DEF MergedTpt
<1>4. ASSUME NEW j \in 1..NumTicks
      PROVE  /\ Sample(j) \in [Threads -> Nat] /\ Earlier(j) \in [Threads -> Nat]
             /\ Counts(j) \in [Threads -> Nat]
             /\ SumFunction(Sample(j)) \in Nat
  <2>1. \A t \in Threads : cont_tpt[t][j] \in Nat
    BY <1>1, AllSampled
  <2>2. Sample(j) \in [Threads -> Nat]
    BY <2>1 DEF Sample
  <2>3. \A t \in Threads : Before(cont_tpt[t], j) \in Nat
    <3>1. j = 1 \/ j - 1 \in 1..NumTicks
      BY <1>2
    <3>2. \A t \in Threads, i \in 1..NumTicks : cont_tpt[t][i] \in Nat
      BY <1>1, AllSampled
    <3> QED BY <3>1, <3>2 DEF Before
  <2>4. \A t \in Threads : SumFunction(cont_lat[t][j]) \in Nat
    BY AllSampled, SetsFinite
  <2>5. SumFunction(Sample(j)) \in Nat
    BY <1>1, <2>2, SumWhole
  <2> QED BY <2>2, <2>3, <2>4, <2>5 DEF Earlier, Counts
<1>5. MergedTpt \in Seq(0..Word - 1) /\ Len(MergedTpt) = NumTicks
  <2>1. \A j \in 1..NumTicks : SumFunction(Sample(j)) % Word \in 0..Word - 1
    BY <1>1, <1>4
  <2> QED BY <1>2, <1>3, <2>1
<1>6. MergedLat \in Seq(Latency) /\ Len(MergedLat) = NumTicks
  <2>1. ASSUME NEW j \in 1..NumTicks, NEW d \in Latencies
        PROVE  SumFunction([t \in Threads |-> cont_lat[t][j][d]]) \in Nat
    <3>1. [t \in Threads |-> cont_lat[t][j][d]] \in [Threads -> Nat]
      BY AllSampled DEF Latency
    <3> QED BY <1>1, <3>1, SumWhole
  <2>2. \A j \in 1..NumTicks :
          [d \in Latencies |-> SumFunction([t \in Threads |-> cont_lat[t][j][d]])] \in Latency
    BY <2>1 DEF Latency
  <2>3. Len(cont_lat[1]) = NumTicks
    BY <1>1, AllSampled
  <2>4. MergedLat =
          [j \in 1..NumTicks |->
             [d \in Latencies |-> SumFunction([t \in Threads |-> cont_lat[t][j][d]])]]
    BY <2>3 DEF MergedLat
  <2> QED BY <1>2, <2>2, <2>4
<1> QED BY <1>3, <1>4, <1>5, <1>6

\* Type correctness: what main() writes is as many samples of the same types.
THEOREM TypeCorrect == Spec => []TypeOK
<1>1. ThreadsTypeOK /\ SamplesInv /\ Reported => TypeOK
  BY MergeTyped DEF Reported, TypeOK
<1> QED BY <1>1, ThreadTypes, SamplesAlways, ReportedAlways, PTL

\* A merged latency map counts what the threads' maps count.
LEMMA MapsMerged ==
  ASSUME ThreadsTypeOK, SamplesInv, AllReturned, NEW j \in 1..NumTicks
  PROVE  SumFunction(MergedLat[j]) = SumFunction(Counts(j))
<1> DEFINE f == [t \in Threads |-> cont_lat[t][j]]
<1>1. f \in [Threads -> [Latencies -> Nat]]
  BY AllSampled DEF Latency
<1>2. /\ [t \in Threads |-> SumFunction(f[t])] = Counts(j)
      /\ [d \in Latencies |-> SumFunction([t \in Threads |-> f[t][d]])] = MergedLat[j]
  <2>1. [t \in Threads |-> SumFunction(f[t])] = Counts(j)
    BY Zenon DEF Counts
  <2>2. \A d \in Latencies :
          [t \in Threads |-> f[t][d]] = [t \in Threads |-> cont_lat[t][j][d]]
    OBVIOUS
  <2>3. j \in 1..Len(cont_lat[1])
    BY AllSampled, SetsFinite
  <2>4. MergedLat[j] = [d \in Latencies |-> SumFunction([t \in Threads |-> cont_lat[t][j][d]])]
    BY <2>3 DEF MergedLat
  <2> QED BY <2>1, <2>2, <2>4
<1> HIDE DEF f
<1>3. SumFunction([t \in Threads |-> SumFunction(f[t])])
        = SumFunction([d \in Latencies |-> SumFunction([t \in Threads |-> f[t][d]])])
  BY <1>1, SetsFinite, SumSwap
<1> QED BY <1>2, <1>3

\* The samples of all threads together add up with their latency maps.
LEMMA AllAddUp ==
  ASSUME ThreadsTypeOK, SamplesInv, AllReturned, NEW j \in 1..NumTicks
  PROVE  SumFunction(Counts(j)) % Word
           = (SumFunction(Sample(j)) - SumFunction(Earlier(j))) % Word
<1> DEFINE a == Sample(j)
           b == Earlier(j)
           l == Counts(j)
           h == [t \in Threads |-> l[t] + b[t]]
<1>1. /\ IsFiniteSet(Threads) /\ Word \in Nat \ {0}
      /\ a \in [Threads -> Nat] /\ b \in [Threads -> Nat] /\ l \in [Threads -> Nat]
  BY SetsFinite, LoopAssumption, MergeTyped
<1>2. \A t \in Threads : l[t] % Word = (a[t] - b[t]) % Word
  <2> TAKE t \in Threads
  <2>1. l[t] = SumFunction(cont_lat[t][j]) /\ a[t] = cont_tpt[t][j]
        /\ b[t] = Before(cont_tpt[t], j)
    BY DEF Counts, Sample, Earlier
  <2>2. j \in 1..Len(cont_tpt[t]) /\ AddsUp(cont_tpt[t], cont_lat[t])
    BY AllSampled DEF SamplesInv, Accounted
  <2> HIDE DEF a, b, l
  <2> QED BY <2>1, <2>2 DEF AddsUp
<1> HIDE DEF a, b, l
<1>3. \A t \in Threads : a[t] \in Nat /\ b[t] \in Nat /\ l[t] \in Nat
                         /\ h[t] = l[t] + b[t] /\ h[t] \in Nat
  BY <1>1
<1>4. \A t \in Threads : h[t] % Word = a[t] % Word
  <2> TAKE t \in Threads
  <2> DEFINE p == l[t]
             q == a[t] - b[t]
             r == b[t]
  <2>1. p \in Int /\ q \in Int /\ r \in Int /\ p % Word = q % Word
    BY <1>2, <1>3
  <2>2. h[t] = p + r /\ a[t] = q + r
    BY <1>3
  <2> HIDE DEF p, q, r, h
  <2>3. (p + r) % Word = (q + r) % Word
    BY <1>1, <2>1, ModSame
  <2> QED BY <2>2, <2>3
<1> DEFINE A == SumFunctionOnSet(a, Threads)
           B == SumFunctionOnSet(b, Threads)
           L == SumFunctionOnSet(l, Threads)
<1>5. A = SumFunction(a) /\ B = SumFunction(b) /\ L = SumFunction(l)
  BY <1>1, SumWhole
<1>6. A \in Nat /\ B \in Nat /\ L \in Nat
  BY <1>1, <1>3, SumNat
<1> HIDE DEF h
<1>7. SumFunctionOnSet(h, Threads) = L + B
  BY <1>1, <1>3, SumPlus
<1>8. SumFunctionOnSet(h, Threads) % Word = A % Word
  BY <1>1, <1>3, <1>4, SumMod
<1> HIDE DEF A, B, L
<1>9. L % Word = (A - B) % Word
  <2> DEFINE s == L + B
             m == -B
  <2>1. s \in Int /\ m \in Int /\ A \in Int /\ L = s + m /\ A - B = A + m
    BY <1>6
  <2>2. s % Word = A % Word
    BY <1>7, <1>8
  <2> HIDE DEF s, m
  <2>3. (s + m) % Word = (A + m) % Word
    BY <1>1, <2>1, <2>2, ModSame
  <2> QED BY <2>1, <2>3
<1>10. SumFunction(l) % Word = (SumFunction(a) - SumFunction(b)) % Word
  BY <1>5, <1>9
<1> QED BY <1>10 DEF a, b, l

\* So do the samples that main() merges modulo 2^32.
LEMMA MergeAddsUp ==
  ASSUME ThreadsTypeOK, SamplesInv, AllReturned
  PROVE  AddsUp(MergedTpt, MergedLat)
<1>1. Len(MergedTpt) = NumTicks /\ Len(MergedLat) = NumTicks
  BY MergeTyped
<1>2. Word \in Nat \ {0} /\ NumTicks \in Nat /\ IsFiniteSet(Threads)
  BY LoopAssumption, SetsFinite
<1> SUFFICES ASSUME NEW j \in 1..NumTicks
             PROVE  SumFunction(MergedLat[j]) % Word
                      = (MergedTpt[j] - Before(MergedTpt, j)) % Word
  BY <1>1 DEF AddsUp
<1> DEFINE A == SumFunction(Sample(j))
           B == SumFunction(Earlier(j))
<1>3. MergedTpt[j] = A % Word /\ A \in Nat
  BY MergeTyped
<1>4. B \in Nat /\ Before(MergedTpt, j) = B % Word
  <2>1. Earlier(j) \in [Threads -> Nat]
    BY MergeTyped
  <2>2. B = SumFunctionOnSet(Earlier(j), Threads) /\ B \in Nat
    BY <1>2, <2>1, SumWhole
  <2>3. CASE j = 1
    <3>1. \A t \in Threads : Earlier(j)[t] = 0
      BY <2>3 DEF Earlier, Before
    <3>2. B = 0
      BY <1>2, <2>2, <3>1, SumZero
    <3> HIDE DEF B
    <3> QED BY <1>2, <2>2, <2>3, <3>2 DEF Before
  <2>4. CASE j # 1
    <3>1. j - 1 \in 1..NumTicks
      BY <1>2, <2>4
    <3>2. Earlier(j) = Sample(j - 1)
      BY <2>4 DEF Earlier, Before, Sample
    <3>3. Before(MergedTpt, j) = MergedTpt[j - 1]
      BY <2>4 DEF Before
    <3>4. MergedTpt[j - 1] = SumFunction(Sample(j - 1)) % Word
      BY <3>1, MergeTyped
    <3> QED BY <2>2, <3>2, <3>3, <3>4
  <2> QED BY <2>3, <2>4
<1>5. SumFunction(MergedLat[j]) % Word = (A - B) % Word
  <2>1. SumFunction(MergedLat[j]) = SumFunction(Counts(j))
    BY MapsMerged
  <2> QED BY <2>1, AllAddUp
<1> HIDE DEF A, B
<1>6. (A - B) % Word = ((A % Word) - (B % Word)) % Word
  <2>1. Word \in Nat \ {0} /\ A \in Int /\ B \in Int
    BY <1>2, <1>3, <1>4
  <2> QED BY <2>1, ModMinus
<1> QED BY <1>3, <1>4, <1>5, <1>6

\* So do the merged samples: one per tick, which account for all operations of
\* all threads even if the counters or the merged sums have wrapped.
THEOREM ReportExact == Spec => []ReportAddsUp
<1>1. ASSUME ThreadsTypeOK, SamplesInv, Reported, report # <<>> PROVE ReportAddsUp
  <2>1. AllReturned /\ report.tpt = MergedTpt /\ report.lat = MergedLat
    BY <1>1 DEF Reported
  <2>2. AddsUp(MergedTpt, MergedLat) /\ Len(MergedTpt) = NumTicks
    BY <1>1, <2>1, MergeAddsUp, MergeTyped
  <2>3. ASSUME NumTicks > 0 PROVE MergedTpt[NumTicks] = SumFunction(seq) % Word
    <3>1. NumTicks \in 1..NumTicks /\ Word \in Nat \ {0}
      BY <2>3, LoopAssumption
    <3>2. ASSUME NEW t \in Threads PROVE cont_tpt[t][NumTicks] = seq[t]
      <4> DEFINE x == cont_tpt[t][NumTicks]
                 y == seq[t]
      <4>1. /\ cur_lat[t] = NoLatency
            /\ SumFunction(cur_lat[t]) % Word
                 = (seq[t] - Before(cont_tpt[t], Len(cont_tpt[t]) + 1)) % Word
        BY <1>1, <2>1 DEF SamplesInv, Sampling, Accounted, AllReturned
      <4>2. Len(cont_tpt[t]) = NumTicks /\ x \in 0..Word - 1
        BY <1>1, <2>1, <3>1, AllSampled
      <4>3. y \in 0..Word - 1
        BY <1>1 DEF ThreadsTypeOK
      <4>4. Before(cont_tpt[t], NumTicks + 1) = x
        <5>1. NumTicks + 1 # 1 /\ (NumTicks + 1) - 1 = NumTicks
          BY <3>1
        <5> QED BY <5>1 DEF Before
      <4> HIDE DEF x, y
      <4>5. 0 % Word = (y - x) % Word
        BY <4>1, <4>2, <4>4, NoneYet DEF x, y
      <4>6. x = y
        BY <3>1, <4>2, <4>3, <4>5, ModEqual
      <4> QED BY <4>6 DEF x, y
    <3>3. Sample(NumTicks) = seq
      <4>1. seq = [t \in Threads |-> seq[t]]
        BY <1>1 DEF ThreadsTypeOK
      <4> QED BY <3>2, <4>1 DEF Sample
    <3> QED BY <1>1, <2>1, <3>1, <3>3, MergeTyped
  <2> QED BY <2>1, <2>2, <2>3 DEF ReportAddsUp
<1>2. ThreadsTypeOK /\ SamplesInv /\ Reported => ReportAddsUp
  BY <1>1 DEF ReportAddsUp
<1> QED BY <1>2, ThreadTypes, SamplesAlways, ReportedAlways, PTL
==============================================================================
