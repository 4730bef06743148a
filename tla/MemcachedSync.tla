---------------------------- MODULE MemcachedSync ----------------------------
(***************************************************************************)
(* The synchronisation of client threads and controller through memcached: *)
(* DMCMemcachedClient::memcached_sync_ready (memcached.cc) as the threads  *)
(* of redis_perf, redis_load_ycsb and redis_trans_ycsb call it, and the    *)
(* loops of the controller scripts ycsb_load_and_trans.py (two barriers)   *)
(* and ycsb_load_or_trans.py (one barrier), which every other controller   *)
(* script repeats before it starts its own experiment.                     *)
(*                                                                         *)
(* A reader of a key only tests whether memcached has it, so the contents  *)
(* of memcached are the two sets of keys that the protocol uses.           *)
(***************************************************************************)
EXTENDS Integers

CONSTANTS
  NumClients,        \* <num-clients> of the controller, <all_thread_num> of the clients
  NumThreads,        \* <num_threads> of each client process
  ClientRounds,      \* memcached_sync_ready calls of a thread: 1 or 2
  ControllerRounds,  \* barriers the controller serves: 1 or 2
  OrderedStart,      \* clients are launched after the controller's flush_all
  MemcachedFails     \* a request to memcached may fail

ASSUME SyncAssumption ==
  /\ NumClients \in Nat \ {0}
  /\ NumThreads \in Nat \ {0}
  /\ ClientRounds \in Nat \ {0}
  /\ ControllerRounds \in Nat \ {0}
  /\ OrderedStart \in BOOLEAN
  /\ MemcachedFails \in BOOLEAN

Clients == 1..NumClients
Rounds == 0..ClientRounds - 1 \cup 0..ControllerRounds - 1

\* The process of a thread, from cid = sid * num_threads + i + 1.
NodeOf(c) == (c - 1) \div NumThreads
Nodes == {NodeOf(c) : c \in Clients}

VARIABLES
  ready,       \* {<<c, k>>} for the keys client-<c>-ready-<k> in memcached
  go,          \* {k} for the keys all-client-ready-<k> in memcached
  pc,          \* where each client thread is
  num_sync,    \* num_sync_ of each thread's DMCMemcachedClient
  aborted,     \* the client processes that have hit an assert(0)
  ctl,         \* where the controller is
  ctlRound,    \* the barrier it serves
  ctlNext,     \* the client its loop waits for, i in range(1, num_clients + 1)
  stale        \* history: keys of an earlier run have survived flush_all

clientVars == <<pc, num_sync, aborted>>
ctlVars == <<ctl, ctlRound, ctlNext, stale>>
vars == <<ready, go, pc, num_sync, aborted, ctl, ctlRound, ctlNext, stale>>

TypeOK ==
  /\ ready \subseteq Clients \X Rounds
  /\ go \subseteq Rounds
  /\ pc \in [Clients -> {"off", "outside", "inside", "done"}]
  /\ num_sync \in [Clients -> 0..ClientRounds]
  /\ aborted \subseteq Nodes
  /\ ctl \in {"flush", "collect", "done"}
  /\ ctlRound \in 0..ControllerRounds
  /\ ctlNext \in 1..NumClients + 1
  /\ stale \in BOOLEAN

\* What an earlier experiment, completed or interrupted, leaves in memcached.
LeftByEarlierRun ==
  \A c \in Clients, k \in Rounds :
    /\ k \in go => <<c, k>> \in ready
    /\ <<c, k>> \in ready => k = 0 \/ k - 1 \in go

Init ==
  /\ ready \in SUBSET (Clients \X Rounds)
  /\ go \in SUBSET Rounds
  /\ LeftByEarlierRun
  /\ pc = [c \in Clients |-> "off"]
  /\ num_sync = [c \in Clients |-> 0]
  /\ aborted = {}
  /\ ctl = "flush"
  /\ ctlRound = 0
  /\ ctlNext = 1
  /\ stale = FALSE
------------------------------------------------------------------------------
(* The client threads.  "outside" a barrier a thread prepares, loads the   *)
(* data set or runs its transactions; "inside" it polls memcached.         *)

Running(c) == NodeOf(c) \notin aborted

\* main() of node n creates its worker threads.
Launch(n) ==
  /\ \A c \in Clients : NodeOf(c) = n => pc[c] = "off"
  /\ OrderedStart => ctl # "flush"
  /\ pc' = [c \in Clients |-> IF NodeOf(c) = n THEN "outside" ELSE pc[c]]
  /\ UNCHANGED <<ready, go, num_sync, aborted, ctlVars>>

\* Bug variant: the thread publishes once more than the program has barriers.
PublishOnceMore(c) ==
  /\ Running(c)
  /\ pc[c] = "outside"
  /\ num_sync[c] <= ClientRounds
  /\ ready' = ready \cup {<<c, num_sync[c]>>}
  /\ pc' = [pc EXCEPT ![c] = "inside"]
  /\ UNCHANGED <<go, num_sync, aborted, ctlVars>>

\* memcached_sync_ready publishes client-<c>-ready-<num_sync_>.
Publish(c) ==
  /\ Running(c)
  /\ pc[c] = "outside"
  /\ num_sync[c] < ClientRounds
  /\ ready' = ready \cup {<<c, num_sync[c]>>}
  /\ pc' = [pc EXCEPT ![c] = "inside"]
  /\ UNCHANGED <<go, num_sync, aborted, ctlVars>>

\* memcached_publish gets an error, before or after memcached has stored the
\* key (a lost reply): assert(0) takes the whole process down.
PublishFails(c) ==
  /\ MemcachedFails
  /\ Running(c)
  /\ pc[c] = "outside"
  /\ num_sync[c] < ClientRounds
  /\ aborted' = aborted \cup {NodeOf(c)}
  /\ \/ UNCHANGED <<ready, pc>>
     \/ /\ ready' = ready \cup {<<c, num_sync[c]>>}
        /\ pc' = [pc EXCEPT ![c] = "inside"]
  /\ UNCHANGED <<go, num_sync, ctlVars>>

\* Bug variant: num_sync_ is not incremented after the barrier.
PollKeepsRound(c) ==
  /\ Running(c)
  /\ pc[c] = "inside"
  /\ num_sync[c] \in go
  /\ pc' = [pc EXCEPT ![c] = "outside"]
  /\ UNCHANGED <<ready, go, num_sync, aborted, ctlVars>>

\* Bug variant: the key that is polled does not name the barrier.
PollAnyKey(c) ==
  /\ Running(c)
  /\ pc[c] = "inside"
  /\ go # {}
  /\ num_sync' = [num_sync EXCEPT ![c] = @ + 1]
  /\ pc' = [pc EXCEPT ![c] = "outside"]
  /\ UNCHANGED <<ready, go, aborted, ctlVars>>

\* The iteration of the polling loop that finds all-client-ready-<num_sync_>;
\* an iteration that gets NULL, from a miss or an error, changes nothing.
Poll(c) ==
  /\ Running(c)
  /\ pc[c] = "inside"
  /\ num_sync[c] \in go
  /\ num_sync' = [num_sync EXCEPT ![c] = @ + 1]
  /\ pc' = [pc EXCEPT ![c] = "outside"]
  /\ UNCHANGED <<ready, go, aborted, ctlVars>>

\* The worker returns after its last phase.
Finish(c) ==
  /\ Running(c)
  /\ pc[c] = "outside"
  /\ num_sync[c] = ClientRounds
  /\ pc' = [pc EXCEPT ![c] = "done"]
  /\ UNCHANGED <<ready, go, num_sync, aborted, ctlVars>>
------------------------------------------------------------------------------
(* The controller script.                                                  *)

\* mc.flush_all()
Flush ==
  /\ ctl = "flush"
  /\ ready' = {}
  /\ go' = {}
  /\ ctl' = "collect"
  /\ UNCHANGED <<clientVars, ctlRound, ctlNext, stale>>

\* The same flush_all does not reach memcached: python-memcached passes over a
\* server that it cannot connect to, and the script goes on.
FlushLost ==
  /\ MemcachedFails
  /\ ctl = "flush"
  /\ ctl' = "collect"
  /\ stale' = (ready # {} \/ go # {})
  /\ UNCHANGED <<ready, go, clientVars, ctlRound, ctlNext>>

\* The loop sees client-<i>-ready-<k> and turns to the next client.
Collect ==
  /\ ctl = "collect"
  /\ ctlNext <= NumClients
  /\ <<ctlNext, ctlRound>> \in ready
  /\ ctlNext' = ctlNext + 1
  /\ UNCHANGED <<ready, go, clientVars, ctl, ctlRound, stale>>

\* Bug variant: the loop is range(1, num_clients) and misses the last client.
AllCollectedButLast == ctl = "collect" /\ ctlNext >= NumClients

\* The loop over the clients of this barrier is over.
AllCollected == ctl = "collect" /\ ctlNext = NumClients + 1

NextRound ==
  /\ ctlRound' = ctlRound + 1
  /\ ctlNext' = 1
  /\ ctl' = IF ctlRound + 1 = ControllerRounds THEN "done" ELSE "collect"
  /\ UNCHANGED <<ready, clientVars, stale>>

\* mc.set('all-client-ready-<k>', 1)
Notify ==
  /\ AllCollected
  /\ go' = go \cup {ctlRound}
  /\ NextRound

\* The same mc.set fails: python-memcached reports it in the result of set,
\* which the scripts ignore.
NotifyLost ==
  /\ MemcachedFails
  /\ AllCollected
  /\ UNCHANGED go
  /\ NextRound
------------------------------------------------------------------------------
ClientNext(c) ==
  \/ Publish(c)
  \/ PublishFails(c)
  \/ Poll(c)
  \/ Finish(c)

Controller == Flush \/ FlushLost \/ Collect \/ Notify \/ NotifyLost

\* The experiment is over.
Terminated ==
  /\ ctl = "done"
  /\ \A c \in Clients : pc[c] = "done"
  /\ UNCHANGED vars

Next ==
  \/ \E n \in Nodes : Launch(n)
  \/ \E c \in Clients : ClientNext(c)
  \/ Controller
  \/ Terminated

Spec == Init /\ [][Next]_vars

\* Every node is launched in the end, the operating system runs every thread
\* and the controller, and what a thread does outside a barrier takes finite
\* time.
FairSpec ==
  /\ Spec
  /\ \A n \in Nodes : WF_vars(Launch(n))
  /\ \A c \in Clients : WF_vars(ClientNext(c))
  /\ WF_vars(Controller)
------------------------------------------------------------------------------
(* Properties.                                                             *)

\* The barriers a thread has entered; num_sync counts those it has left.
Entered(c) == num_sync[c] + (IF pc[c] = "inside" THEN 1 ELSE 0)

\* No thread leaves barrier k before every thread has entered it, so no thread
\* runs transactions while another one still loads: memcached_sync_ready with
\* the controller's loops, whatever an earlier run left in memcached, whichever
\* processes abort and whichever notifications are lost.  Only keys that survive
\* the controller's flush_all can break it: nothing tells the threads of them.
Lockstep == ~stale => \A c, d \in Clients : num_sync[c] <= Entered(d)

(* The inductive invariant behind Lockstep.                                *)

\* A thread inside barrier k has k < ClientRounds, a controller that is not
\* done has a barrier left to serve.
RoundsBounded ==
  /\ \A c \in Clients : pc[c] = "inside" => num_sync[c] < ClientRounds
  /\ ctl # "done" <=> ctlRound < ControllerRounds

\* A thread that is not launched has left no barrier, and before the flush
\* no thread is launched and the controller is at its start.
NobodyBeforeFlush ==
  /\ ctl = "flush" => /\ ctlRound = 0 /\ ctlNext = 1 /\ ~stale
                     /\ \A c \in Clients : pc[c] = "off"
  /\ \A c \in Clients : pc[c] = "off" => num_sync[c] = 0

\* After the flush a key in memcached stands for what has happened: a ready key
\* for an entered barrier, the controller's loop index for the clients it has
\* seen, a barrier it has served and a go key for one every thread has entered.
KeysAreTrue ==
  ctl # "flush" /\ ~stale =>
    /\ \A c \in Clients, k \in Rounds : <<c, k>> \in ready => k < Entered(c)
    /\ \A c \in Clients : c < ctlNext => ctlRound < Entered(c)
    /\ \A c \in Clients : ctlRound <= Entered(c)
    /\ \A k \in go, c \in Clients : k < Entered(c)

IInv == TypeOK /\ RoundsBounded /\ NobodyBeforeFlush /\ KeysAreTrue /\ Lockstep

Abstract == INSTANCE Barrier
  WITH Rounds <- ClientRounds,
       entered <- [c \in Clients |-> Entered(c)],
       left <- num_sync

\* No request to memcached has failed so far.
NothingLost == ~stale /\ aborted = {} /\ (ctl # "flush" => 0..ctlRound - 1 \subseteq go)

\* The protocol implements the sequence of barriers of module Barrier: every
\* publish is an Enter, every successful poll a Leave, all else is invisible,
\* as long as no keys of an earlier run have survived the flush_all.
ImplementsBarrier ==
  Abstract!Init /\ [][Abstract!Next \/ stale]_(Abstract!vars)

\* If no request to memcached fails the experiment comes to its end: every
\* thread gets through all its barriers and the controller through its script,
\* so the keys that memcached_sync_ready polls for are those the controller sets.
BarriersComplete ==
  []NothingLost => <>(ctl = "done" /\ \A c \in Clients : pc[c] = "done")
==============================================================================
