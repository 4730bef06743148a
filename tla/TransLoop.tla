------------------------------ MODULE TransLoop ------------------------------
(***************************************************************************)
(* The measurement of one client process: the transaction loop of every    *)
(* worker thread, which samples the operations done so far and the         *)
(* latencies since the last sample once per TICK_US, and the merge of all  *)
(* samples after main() has joined the threads (redis_perf.cc;             *)
(* redis_trans_ycsb.cc has the same loop and merge).                       *)
(*                                                                         *)
(* An operation stands for one iteration of the loop with all the retries  *)
(* that its errors cause; its latency is the key of the latency map.  Time *)
(* is counted in units of the configuration's choice.                      *)
(***************************************************************************)
EXTENDS Integers, Sequences, FiniteSets, Functions

CONSTANTS
  NumThreads,  \* worker threads of the process
  NumTicks,    \* num_ticks: run_times_s * 1000000 / TICK_US
  Tick,        \* TICK_US
  ClockWord,   \* 2^32 microseconds: cur_tick * TICK_US is a uint32_t
  Word,        \* 2^32: seq and the merged samples are uint32_t
  Latencies,   \* bound: the latencies an operation may have
  Gaps         \* bound: the steps of the clock from one operation to the next

\* A gap is negative when the system clock is set back.
ASSUME LoopAssumption ==
  /\ {NumThreads, Tick, ClockWord, Word} \subseteq Nat \ {0}
  /\ NumTicks \in Nat
  /\ Latencies \subseteq Nat /\ IsFiniteSet(Latencies)
  /\ Gaps \subseteq Int

Threads == 1..NumThreads
Latency == [Latencies -> Nat]   \* cur_lat_map

VARIABLES
  pc,        \* where each worker thread is
  elapsed,   \* diff_ts_us(&et, &st) at the latest operation of each thread
  seq,       \* its operations so far
  cur_tick,  \* its samples so far
  cur_lat,   \* cur_lat_map: the latencies since the latest sample
  cont_tpt,  \* its samples of seq
  cont_lat,  \* its samples of cur_lat_map
  report     \* the merged samples that main() writes to the result file

vars == <<pc, elapsed, seq, cur_tick, cur_lat, cont_tpt, cont_lat, report>>

ThreadsTypeOK ==
  /\ pc \in [Threads -> {"run", "returned"}]
  /\ elapsed \in [Threads -> Int]
  /\ seq \in [Threads -> 0..Word - 1]
  /\ cur_tick \in [Threads -> 0..NumTicks]
  /\ cur_lat \in [Threads -> Latency]
  /\ cont_tpt \in [Threads -> Seq(0..Word - 1)]
  /\ cont_lat \in [Threads -> Seq(Latency)]

TypeOK ==
  /\ ThreadsTypeOK
  /\ report \in [tpt : Seq(0..Word - 1), lat : Seq(Latency)] \cup {<<>>}

NoLatency == [d \in Latencies |-> 0]

Init ==
  /\ pc = [t \in Threads |-> "run"]
  /\ elapsed = [t \in Threads |-> 0]
  /\ seq = [t \in Threads |-> 0]
  /\ cur_tick = [t \in Threads |-> 0]
  /\ cur_lat = [t \in Threads |-> NoLatency]
  /\ cont_tpt = [t \in Threads |-> <<>>]
  /\ cont_lat = [t \in Threads |-> <<>>]
  /\ report = <<>>
------------------------------------------------------------------------------
\* Bug variant: >= instead of >.
DueEarly(e, k) == e < 0 \/ e >= (k * Tick) % ClockWord

\* Bug variant: cur_tick is incremented before the comparison.
DueLate(e, k) == e < 0 \/ e > ((k + 1) * Tick) % ClockWord

\* diff_ts_us(&et, &st) > cur_tick * TICK_US: the left side is a uint64_t, huge
\* when the clock is behind st, the right side a product of 32 bits.
Due(e, k) == e < 0 \/ e > (k * Tick) % ClockWord

\* Bug variant: the sample is taken before the operation is counted.
PushBeforeCount(t, lat) ==
  /\ cont_tpt' = [cont_tpt EXCEPT ![t] = Append(@, seq[t])]
  /\ cont_lat' = [cont_lat EXCEPT ![t] = Append(@, lat)]

\* The samples pushed once seq and cur_lat_map have their new values.
Push(t, lat) ==
  /\ cont_tpt' = [cont_tpt EXCEPT ![t] = Append(@, seq'[t])]
  /\ cont_lat' = [cont_lat EXCEPT ![t] = Append(@, lat)]

\* Bug variant: cur_tick <= num_ticks.
OneMoreTick(t) == cur_tick[t] <= NumTicks

MoreTicks(t) == cur_tick[t] < NumTicks

\* One iteration of the loop, whose operation takes d.
Op(t, d, gap) ==
  LET lat == [cur_lat[t] EXCEPT ![d] = @ + 1] IN
  /\ pc[t] = "run"
  /\ MoreTicks(t)
  /\ elapsed' = [elapsed EXCEPT ![t] = @ + gap + d]
  /\ seq' = [seq EXCEPT ![t] = (@ + 1) % Word]
  /\ IF Due(elapsed'[t], cur_tick[t])
       THEN /\ Push(t, lat)
            /\ cur_lat' = [cur_lat EXCEPT ![t] = NoLatency]
            /\ cur_tick' = [cur_tick EXCEPT ![t] = @ + 1]
       ELSE /\ cur_lat' = [cur_lat EXCEPT ![t] = lat]
            /\ UNCHANGED <<cont_tpt, cont_lat, cur_tick>>
  /\ UNCHANGED <<pc, report>>

\* The worker returns.
Return(t) ==
  /\ pc[t] = "run"
  /\ ~MoreTicks(t)
  /\ pc' = [pc EXCEPT ![t] = "returned"]
  /\ UNCHANGED <<elapsed, seq, cur_tick, cur_lat, cont_tpt, cont_lat, report>>

\* Bug variant: the loop over the threads starts with thread 1, not 0.
LaterThreads(j) == {t \in Threads \ {1} : j <= Len(cont_tpt[t])}

\* The threads whose j-th sample the merge adds up.
Sampled(j) == {t \in Threads : j <= Len(cont_tpt[t])}

\* main() has joined all threads and merges as many samples as thread 0 has.
Merge ==
  /\ report = <<>>
  /\ \A t \in Threads : pc[t] = "returned"
  /\ report' =
       [tpt |-> [j \in 1..Len(cont_tpt[1]) |->
                   SumFunction([t \in Sampled(j) |-> cont_tpt[t][j]]) % Word],
        lat |-> [j \in 1..Len(cont_lat[1]) |->
                   [d \in Latencies |->
                      SumFunction([t \in Threads |-> cont_lat[t][j][d]])]]]
  /\ UNCHANGED <<pc, elapsed, seq, cur_tick, cur_lat, cont_tpt, cont_lat>>

\* The result file is written.
Terminated == report # <<>> /\ UNCHANGED vars

Next ==
  \/ \E t \in Threads, d \in Latencies, gap \in Gaps : Op(t, d, gap)
  \/ \E t \in Threads : Return(t)
  \/ Merge
  \/ Terminated

Spec == Init /\ [][Next]_vars
------------------------------------------------------------------------------
(* Properties.                                                             *)

\* No sample is early: a thread that has taken k samples has iterated for more
\* than k - 1 ticks.  With k = NumTicks: it runs for the execution time, the
\* last tick excepted.
OnTime ==
  \A t \in Threads : cur_tick[t] > 0 => elapsed[t] > (cur_tick[t] - 1) * Tick

\* No operation of the thread has stalled its loop for longer than a tick: its
\* latency maps have no such latency.
NoStall(t) ==
  \A d \in Latencies : (\E gap \in Gaps : gap + d > Tick) =>
    /\ cur_lat[t][d] = 0
    /\ \A j \in 1..Len(cont_lat[t]) : cont_lat[t][j][d] = 0

\* As long as no operation takes longer than a tick no sample is late either:
\* the k-th samples of these threads, which the merge adds up, stem from the
\* same tick, as the "record every 500ms" of the output format has it.
InStep ==
  \A t \in Threads : NoStall(t) /\ cur_tick[t] > 0 =>
    elapsed[t] \in (cur_tick[t] - 1) * Tick + 1 .. cur_tick[t] * Tick

Before(tpt, j) == IF j = 1 THEN 0 ELSE tpt[j - 1]

\* The j-th latency map accounts for the operations between two samples, whose
\* difference is right even if seq or the merged sum has wrapped in between.
AddsUp(tpt, lat) ==
  /\ Len(tpt) = Len(lat)
  /\ \A j \in 1..Len(tpt) : SumFunction(lat[j]) % Word = (tpt[j] - Before(tpt, j)) % Word

\* In every thread, stalls and catching up included, the latency maps and the
\* throughput samples count the same operations, and no operation is missing
\* from them when the thread returns.
SamplesAddUp ==
  \A t \in Threads :
    /\ AddsUp(cont_tpt[t], cont_lat[t])
    /\ SumFunction(cur_lat[t]) % Word =
         (seq[t] - Before(cont_tpt[t], Len(cont_tpt[t]) + 1)) % Word
    /\ pc[t] = "returned" => cur_lat[t] = NoLatency

\* So do the merged samples: one per tick, of all operations of all threads.
ReportAddsUp ==
  report # <<>> =>
    /\ AddsUp(report.tpt, report.lat)
    /\ Len(report.tpt) = NumTicks
    /\ NumTicks > 0 => report.tpt[NumTicks] = SumFunction(seq) % Word
------------------------------------------------------------------------------
(* What the proofs of OnTime and InStep assume of the configuration.       *)

\* The product cur_tick * TICK_US of the last tick fits into 32 bits: the
\* execution time is below 4295 seconds.
NoWrap == (NumTicks - 1) * Tick < ClockWord

\* The clock is never set back.
Monotonic == Gaps \subseteq Nat

\* Then a thread that no operation has stalled is not behind with its samples.
NeverLate == \A t \in Threads : NoStall(t) => elapsed[t] <= cur_tick[t] * Tick
==============================================================================
