------------------------------- MODULE Barrier -------------------------------
(***************************************************************************)
(* What the memcached synchronisation of redis-perf promises to the client *)
(* threads of all nodes: a sequence of Rounds barriers.  A thread enters a *)
(* barrier when it announces that it is ready, and nobody leaves a barrier *)
(* before every thread has entered it.  How threads and the controller     *)
(* bring this about is the subject of module MemcachedSync.                *)
(***************************************************************************)
EXTENDS Naturals

CONSTANTS Clients,   \* the client threads of all nodes
          Rounds     \* how many barriers each of them goes through

VARIABLES entered,   \* how many barriers each thread has entered
          left       \* how many barriers each thread has left

vars == <<entered, left>>

Init ==
  /\ entered = [c \in Clients |-> 0]
  /\ left = [c \in Clients |-> 0]

\* A thread outside any barrier arrives at the next one.
Enter(c) ==
  /\ entered[c] = left[c]
  /\ entered[c] < Rounds
  /\ entered' = [entered EXCEPT ![c] = @ + 1]
  /\ UNCHANGED left

\* A thread inside a barrier goes on once all threads have arrived.
Leave(c) ==
  /\ left[c] < entered[c]
  /\ \A d \in Clients : entered[d] >= entered[c]
  /\ left' = [left EXCEPT ![c] = @ + 1]
  /\ UNCHANGED entered

Next == \E c \in Clients : Enter(c) \/ Leave(c)

Spec == Init /\ [][Next]_vars
==============================================================================
