SPECIFICATION Spec
CONSTANTS
  NumThreads = 2
  NumTicks = 4
  Tick = 2
  ClockWord = 7
  Word = 5
  Latencies <- StallLatencies
  Gaps <- SomeGaps
INVARIANT TypeOK OnTime InStep SamplesAddUp ReportAddsUp
