-------------------------- MODULE MemcachedSyncProofs --------------------------
(***************************************************************************)
(* Proofs about MemcachedSync for every number of clients, of threads per  *)
(* process and of barriers, with memcached failing or not, provided the    *)
(* clients are launched after the controller's flush_all.                  *)
(***************************************************************************)
EXTENDS MemcachedSync, TLAPS

\* The types, with the bounds on rounds that make them inductive.
LEMMA TypesInvariance == Spec => [](TypeOK /\ RoundsBounded)
<1> USE SyncAssumption DEF TypeOK, RoundsBounded, Clients, Rounds, Nodes
<1>1. Init => TypeOK /\ RoundsBounded
  <2> SUFFICES ASSUME Init PROVE TypeOK /\ RoundsBounded
    OBVIOUS
  <2>1. /\ ready \subseteq Clients \X Rounds /\ go \subseteq Rounds /\ aborted = {}
        /\ pc = [c \in Clients |-> "off"] /\ num_sync = [c \in Clients |-> 0]
        /\ ctl = "flush" /\ ctlRound = 0 /\ ctlNext = 1 /\ stale = FALSE
    BY DEF Init
  <2>2. num_sync \in [Clients -> 0..ClientRounds] /\ ctlRound \in 0..ControllerRounds
        /\ ctlNext \in 1..NumClients + 1
    BY <2>1
  <2>3. RoundsBounded
    BY <2>1
  <2> HIDE DEF Clients, Rounds, Nodes
  <2>4. TypeOK
    BY <2>1, <2>2
  <2> QED BY <2>3, <2>4
<1>2. TypeOK /\ RoundsBounded /\ [Next]_vars => TypeOK' /\ RoundsBounded'
  <2> SUFFICES ASSUME TypeOK, RoundsBounded, [Next]_vars
               PROVE  TypeOK' /\ RoundsBounded'
    OBVIOUS
  <2> USE DEF clientVars, ctlVars
  <2>1. ASSUME NEW n \in Nodes, Launch(n) PROVE TypeOK' /\ RoundsBounded'
    BY <2>1 DEF Launch
  <2>2. ASSUME NEW c \in Clients, Publish(c) PROVE TypeOK' /\ RoundsBounded'
    <3>1. num_sync[c] \in Rounds
      BY <2>2 DEF Publish
    <3> QED BY <2>2, <3>1 DEF Publish
  <2>3. ASSUME NEW c \in Clients, PublishFails(c) PROVE TypeOK' /\ RoundsBounded'
    <3>1. num_sync[c] \in Rounds
      BY <2>3 DEF PublishFails
    <3>2. NodeOf(c) \in Nodes
      BY DEF Nodes
    <3>3. CASE UNCHANGED <<ready, pc>>
      BY <2>3, <3>2, <3>3 DEF PublishFails
    <3>4. CASE /\ ready' = ready \cup {<<c, num_sync[c]>>}
               /\ pc' = [pc EXCEPT ![c] = "inside"]
      <4>1. ready' \subseteq Clients \X Rounds
        BY <3>1, <3>4
      <4>2. /\ pc' \in [Clients -> {"off", "outside", "inside", "done"}]
            /\ \A d \in Clients : pc'[d] = "inside" => num_sync[d] < ClientRounds
        BY <2>3, <3>4 DEF PublishFails
      <4>3. aborted' \subseteq Nodes /\ UNCHANGED <<go, num_sync, ctl, ctlRound, ctlNext, stale>>
        BY <2>3, <3>2 DEF PublishFails
      <4> QED BY <4>1, <4>2, <4>3
    <3> QED BY <2>3, <3>3, <3>4 DEF PublishFails
  <2>4. ASSUME NEW c \in Clients, Poll(c) PROVE TypeOK' /\ RoundsBounded'
    <3>1. /\ num_sync' = [num_sync EXCEPT ![c] = num_sync[c] + 1]
          /\ pc' = [pc EXCEPT ![c] = "outside"]
          /\ UNCHANGED <<ready, go, aborted, ctl, ctlRound, ctlNext, stale>>
      BY <2>4 DEF Poll
    <3>2. num_sync[c] + 1 \in 0..ClientRounds
      BY <2>4 DEF Poll
    <3>3. num_sync' \in [Clients -> 0..ClientRounds]
      BY <3>1, <3>2, Zenon
    <3>4. pc' \in [Clients -> {"off", "outside", "inside", "done"}]
      BY <3>1
    <3>5. \A d \in Clients : pc'[d] = "inside" => pc[d] = "inside" /\ num_sync'[d] = num_sync[d]
      BY <3>1
    <3> QED BY <3>1, <3>3, <3>4, <3>5
  <2>5. ASSUME NEW c \in Clients, Finish(c) PROVE TypeOK' /\ RoundsBounded'
    BY <2>5 DEF Finish
  <2>6. CASE Flush
    BY <2>6 DEF Flush
  <2>7. CASE Collect
    BY <2>7 DEF Collect
  <2>8. CASE Notify
    BY <2>8 DEF Notify, AllCollected, NextRound
  <2>9. CASE NotifyLost
    BY <2>9 DEF NotifyLost, AllCollected, NextRound
  <2>10. CASE UNCHANGED vars
    BY <2>10 DEF vars
  <2>11. CASE FlushLost
    BY <2>11 DEF FlushLost
  <2> QED
    BY <2>1, <2>2, <2>3, <2>4, <2>5, <2>6, <2>7, <2>8, <2>9, <2>10, <2>11
       DEF Next, ClientNext, Controller, Terminated
<1> QED BY <1>1, <1>2, PTL DEF Spec

\* Variables keep their types; it needs no assumption on the order in which the
\* programs are started.
THEOREM TypeInvariant == Spec => []TypeOK
BY TypesInvariance, PTL
------------------------------------------------------------------------------
\* A key that a thread stores on entering a barrier keeps the invariant.
LEMMA PublishKeeps ==
  ASSUME IInv, NEW c \in Clients, pc[c] = "outside", num_sync[c] < ClientRounds,
         ready' = ready \cup {<<c, num_sync[c]>>}, pc' = [pc EXCEPT ![c] = "inside"],
         UNCHANGED <<go, num_sync, ctlVars>>
  PROVE  NobodyBeforeFlush' /\ KeysAreTrue' /\ Lockstep'
<1> USE SyncAssumption DEF IInv, TypeOK
<1>1. /\ Entered(c) = num_sync[c] /\ Entered(c)' = num_sync[c] + 1
      /\ \A d \in Clients \ {c} : Entered(d)' = Entered(d)
  BY DEF Entered
<1>2. num_sync[c] \in Nat /\ \A d \in Clients : Entered(d) \in Nat
  BY DEF Entered
<1>3. \A d \in Clients : Entered(d)' \in Nat /\ Entered(d) <= Entered(d)'
  BY <1>1, <1>2
<1>4. NobodyBeforeFlush'
  BY DEF NobodyBeforeFlush, ctlVars
<1>5. Lockstep'
  <2> SUFFICES ASSUME ~stale, NEW b \in Clients, NEW d \in Clients
               PROVE  num_sync[b] <= Entered(d)'
    BY DEF Lockstep, ctlVars
  <2>1. num_sync[b] <= Entered(d) /\ num_sync[b] \in Nat
    BY DEF Lockstep
  <2> QED BY <1>2, <1>3, <2>1
<1>6. KeysAreTrue'
  <2> SUFFICES ASSUME ctl # "flush", ~stale
               PROVE  /\ \A d \in Clients, k \in Rounds : <<d, k>> \in ready' => k < Entered(d)'
                      /\ \A d \in Clients : d < ctlNext => ctlRound < Entered(d)'
                      /\ \A d \in Clients : ctlRound <= Entered(d)'
                      /\ \A k \in go, d \in Clients : k < Entered(d)'
    BY DEF KeysAreTrue, ctlVars
  <2>1. ASSUME NEW d \in Clients, NEW k \in Rounds, <<d, k>> \in ready'
        PROVE  k < Entered(d)'
    <3>1. CASE <<d, k>> \in ready
      <4>1. k < Entered(d) /\ k \in Nat
        BY <3>1 DEF KeysAreTrue, Rounds
      <4> QED BY <1>2, <1>3, <4>1
    <3>2. CASE <<d, k>> = <<c, num_sync[c]>>
      BY <1>1, <1>2, <3>2
    <3> QED BY <2>1, <3>1, <3>2
  <2>2. ASSUME NEW d \in Clients
        PROVE  ctlRound <= Entered(d)' /\ (d < ctlNext => ctlRound < Entered(d)')
    <3>1. ctlRound <= Entered(d) /\ (d < ctlNext => ctlRound < Entered(d)) /\ ctlRound \in Nat
      BY DEF KeysAreTrue
    <3> QED BY <1>2, <1>3, <3>1
  <2>3. ASSUME NEW d \in Clients, NEW k \in go PROVE k < Entered(d)'
    <3>1. k < Entered(d) /\ k \in Nat
      BY DEF KeysAreTrue, Rounds
    <3> QED BY <1>2, <1>3, <3>1
  <2> QED BY <2>1, <2>2, <2>3
<1> QED BY <1>4, <1>5, <1>6

\* A poll leaves what a thread has entered as it is, and the key it finds says
\* that every thread has entered the barrier it leaves.
LEMMA PollKeeps ==
  ASSUME IInv, OrderedStart, NEW c \in Clients, Poll(c)
  PROVE  NobodyBeforeFlush' /\ KeysAreTrue' /\ Lockstep'
<1> USE SyncAssumption DEF IInv, TypeOK
<1>1. /\ pc[c] = "inside" /\ num_sync[c] \in go /\ num_sync[c] \in Nat
      /\ num_sync' = [num_sync EXCEPT ![c] = num_sync[c] + 1]
      /\ pc' = [pc EXCEPT ![c] = "outside"]
      /\ UNCHANGED <<ready, go, ctl, ctlRound, ctlNext, stale>>
  <2>1. num_sync[c] \in Nat
    OBVIOUS
  <2> HIDE DEF IInv, TypeOK
  <2> QED BY <2>1 DEF Poll, ctlVars
<1>2. \A d \in Clients : Entered(d)' = Entered(d) /\ Entered(d) \in Nat
  <2> SUFFICES ASSUME NEW d \in Clients
               PROVE  Entered(d)' = Entered(d) /\ Entered(d) \in Nat
    OBVIOUS
  <2>1. num_sync[d] \in Nat
    OBVIOUS
  <2>2. CASE d = c
    <3>1. num_sync'[d] = num_sync[d] + 1 /\ pc[d] = "inside" /\ pc'[d] = "outside"
      BY <1>1, <2>2
    <3> HIDE DEF IInv, TypeOK
    <3> QED BY <2>1, <3>1 DEF Entered
  <2>3. CASE d # c
    <3>1. num_sync'[d] = num_sync[d] /\ pc'[d] = pc[d]
      BY <1>1, <2>3
    <3> HIDE DEF IInv, TypeOK
    <3> QED BY <2>1, <3>1 DEF Entered
  <2> QED BY <2>2, <2>3
<1>3. NobodyBeforeFlush'
  BY <1>1 DEF NobodyBeforeFlush
<1>4. KeysAreTrue'
  <2>1. KeysAreTrue
    OBVIOUS
  <2>2. \A d \in Clients : Entered(d)' = Entered(d)
    BY <1>2
  <2> HIDE DEF IInv, TypeOK
  <2> QED BY <1>1, <2>1, <2>2, Zenon DEF KeysAreTrue
<1>5. ctl # "flush"
  BY <1>1 DEF NobodyBeforeFlush
<1>6. ~stale => \A d \in Clients : num_sync[c] < Entered(d)
  BY <1>1, <1>5 DEF KeysAreTrue
<1>7. Lockstep'
  <2> SUFFICES ASSUME ~stale, NEW b \in Clients, NEW d \in Clients
               PROVE  num_sync'[b] <= Entered(d)
    BY <1>1, <1>2 DEF Lockstep
  <2>1. CASE b = c
    BY <1>1, <1>2, <1>6, <2>1
  <2>2. CASE b # c
    BY <1>1, <2>2 DEF Lockstep
  <2> QED BY <2>1, <2>2
<1> QED BY <1>3, <1>4, <1>7

\* The steps of the clients and of the controller keep the strengthened
\* invariant.
LEMMA InvariantStep ==
  ASSUME OrderedStart, IInv, [Next]_vars, TypeOK'
  PROVE  NobodyBeforeFlush' /\ KeysAreTrue' /\ Lockstep'
<1> DEFINE P == NobodyBeforeFlush /\ KeysAreTrue /\ Lockstep
<1> SUFFICES P' OBVIOUS
<1> USE SyncAssumption DEF IInv, TypeOK, RoundsBounded, NobodyBeforeFlush, KeysAreTrue,
        Lockstep, Entered, Clients, Rounds, Nodes, clientVars, ctlVars
<1>1. ASSUME NEW n \in Nodes, Launch(n) PROVE P'
  BY <1>1 DEF Launch
<1>2. ASSUME NEW c \in Clients, Publish(c) PROVE P'
  BY <1>2, PublishKeeps DEF Publish
<1>3. ASSUME NEW c \in Clients, PublishFails(c) PROVE P'
  <2>1. CASE UNCHANGED <<ready, pc>>
    BY <1>3, <2>1 DEF PublishFails
  <2>2. CASE /\ ready' = ready \cup {<<c, num_sync[c]>>}
             /\ pc' = [pc EXCEPT ![c] = "inside"]
    BY <1>3, <2>2, PublishKeeps DEF PublishFails
  <2> QED BY <1>3, <2>1, <2>2 DEF PublishFails
<1>4. ASSUME NEW c \in Clients, Poll(c) PROVE P'
  BY <1>4, PollKeeps
<1>5. ASSUME NEW c \in Clients, Finish(c) PROVE P'
  BY <1>5 DEF Finish
<1>6. CASE Flush
  BY <1>6 DEF Flush
<1>7. CASE Collect
  BY <1>7 DEF Collect
<1>8. CASE Notify
  BY <1>8 DEF Notify, AllCollected, NextRound
<1>9. CASE NotifyLost
  BY <1>9 DEF NotifyLost, AllCollected, NextRound
<1>10. CASE UNCHANGED vars
  BY <1>10 DEF vars
<1>11. CASE FlushLost
  <2>1. /\ ctl = "flush" /\ ctl' = "collect"
        /\ UNCHANGED <<ready, go, pc, num_sync, ctlRound, ctlNext>>
    BY <1>11 DEF FlushLost
  <2>2. ~stale' => ready = {} /\ go = {}
    BY <1>11 DEF FlushLost
  <2>3. \A c \in Clients : pc[c] = "off" /\ num_sync[c] = 0
    BY <2>1
  <2> QED BY <2>1, <2>2, <2>3
<1> QED
  BY <1>1, <1>2, <1>3, <1>4, <1>5, <1>6, <1>7, <1>8, <1>9, <1>10, <1>11
     DEF Next, ClientNext, Controller, Terminated

\* The strengthened invariant holds in every reachable state.
LEMMA Invariance == ASSUME OrderedStart PROVE Spec => []IInv
<1>1. Init => NobodyBeforeFlush /\ KeysAreTrue /\ Lockstep
  BY SyncAssumption DEF Init, NobodyBeforeFlush, KeysAreTrue, Lockstep, Entered, Clients
<1>2. IInv /\ TypeOK' /\ [Next]_vars => NobodyBeforeFlush' /\ KeysAreTrue' /\ Lockstep'
  BY InvariantStep
<1> QED BY <1>1, <1>2, TypesInvariance, PTL DEF Spec, IInv

\* No client thread gets past a barrier that another one has not reached, with
\* any number of clients and barriers, any leftovers in memcached, and also
\* when processes abort or notifications get lost, unless the flush_all gets
\* lost and leaves keys of an earlier run.
THEOREM LockstepHolds == ASSUME OrderedStart PROVE Spec => []Lockstep
BY Invariance, PTL DEF IInv
------------------------------------------------------------------------------
\* A thread that publishes its key enters the barrier.
LEMMA PublishEnters ==
  ASSUME TypeOK, NEW c \in Clients, pc[c] = "outside", num_sync[c] < ClientRounds,
         pc' = [pc EXCEPT ![c] = "inside"], UNCHANGED num_sync
  PROVE  Abstract!Enter(c)
<1>1. Entered(c) = num_sync[c] /\ Entered(c)' = Entered(c) + 1
  BY DEF TypeOK, Entered
<1>2. \A d \in Clients \ {c} : Entered(d)' = Entered(d)
  BY DEF TypeOK, Entered
<1>3. [d \in Clients |-> Entered(d)]' = [[d \in Clients |-> Entered(d)] EXCEPT ![c] = @ + 1]
  BY <1>1, <1>2
<1> QED BY <1>1, <1>3 DEF Abstract!Enter

\* A step of the protocol is an Enter, a Leave or invisible to the barrier,
\* unless keys of an earlier run have survived.
LEMMA BarrierStep ==
  ASSUME OrderedStart, IInv, [Next]_vars
  PROVE  [Abstract!Next \/ stale]_(Abstract!vars)
<1> USE SyncAssumption DEF IInv, TypeOK, RoundsBounded, NobodyBeforeFlush, Entered,
        Clients, clientVars, ctlVars
<1>1. ASSUME NEW n \in Nodes, Launch(n) PROVE UNCHANGED Abstract!vars
  BY <1>1 DEF Launch, Abstract!vars
<1>2. ASSUME NEW c \in Clients, Publish(c) PROVE Abstract!Enter(c)
  BY <1>2, PublishEnters DEF Publish
<1>3. ASSUME NEW c \in Clients, PublishFails(c)
      PROVE  Abstract!Enter(c) \/ UNCHANGED Abstract!vars
  <2>1. CASE UNCHANGED pc
    BY <1>3, <2>1 DEF PublishFails, Abstract!vars
  <2>2. CASE pc' = [pc EXCEPT ![c] = "inside"]
    BY <1>3, <2>2, PublishEnters DEF PublishFails
  <2> QED BY <1>3, <2>1, <2>2 DEF PublishFails
<1>4. ASSUME NEW c \in Clients, Poll(c) PROVE Abstract!Leave(c) \/ stale
  BY <1>4 DEF Poll, KeysAreTrue, Rounds, Abstract!Leave
<1>5. ASSUME NEW c \in Clients, Finish(c) PROVE UNCHANGED Abstract!vars
  BY <1>5 DEF Finish, Abstract!vars
<1>6. CASE Controller
  BY <1>6 DEF Controller, Flush, FlushLost, Collect, Notify, NotifyLost, NextRound,
     Abstract!vars
<1>7. CASE UNCHANGED vars
  BY <1>7 DEF vars, Abstract!vars
<1> QED
  BY <1>1, <1>2, <1>3, <1>4, <1>5, <1>6, <1>7
     DEF Next, ClientNext, Terminated, Abstract!Next

\* The memcached protocol implements the abstract sequence of barriers, as long
\* as no keys of an earlier run have survived the flush_all.
THEOREM BarrierRefinement == ASSUME OrderedStart PROVE Spec => ImplementsBarrier
<1>1. Init => Abstract!Init
  BY SyncAssumption DEF Init, Entered, Abstract!Init
<1>2. IInv /\ [Next]_vars => [Abstract!Next \/ stale]_(Abstract!vars)
  BY BarrierStep
<1> QED BY <1>1, <1>2, Invariance, PTL DEF Spec, ImplementsBarrier
==============================================================================
