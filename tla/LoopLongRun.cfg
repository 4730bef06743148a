SPECIFICATION Spec
CONSTANTS
  NumThreads = 1
  NumTicks = 5
  Tick = 3
  ClockWord = 7
  Word = 100
  Latencies <- ShortLatencies
  Gaps <- SomeGaps
INVARIANT OnTime
