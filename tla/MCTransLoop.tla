----------------------------- MODULE MCTransLoop -----------------------------
(* TransLoop on small instances; the cfg files give the constants.         *)
EXTENDS TransLoop

\* Operations within a tick, and operations that stall the loop for several
\* ticks.
ShortLatencies == {1, 2}
StallLatencies == {1, 5}

\* The loop itself takes time.
SomeGaps == {0, 1}
==============================================================================
