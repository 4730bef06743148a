----------------------------- MODULE LoadAndTrans -----------------------------
(***************************************************************************)
(* The end-to-end experiment: redis_perf loads the data set between the    *)
(* two barriers of MemcachedSync and runs transactions after the second,   *)
(* with ycsb_load_and_trans.py as its controller.  Every thread loads its  *)
(* own share of the file (workload.h), so what a transaction finds depends *)
(* on the shares and the barriers of all threads.                          *)
(*                                                                         *)
(* Lines are numbered from 0, empty ones left out, and stand for the key   *)
(* they hold.  Transactions only add keys and so are part of the time a    *)
(* thread spends outside the barriers.                                     *)
(***************************************************************************)
EXTENDS Integers, FiniteSets

CONSTANTS
  NumClients,      \* <num-clients>: the worker threads of all processes
  NumThreads,      \* <num_threads> of each process
  MemcachedFails,  \* a request to memcached may fail
  NumLines,        \* the lines of ycsb.load
  MaxErrors        \* bound: SETs that fail

ASSUME LoadAssumption ==
  /\ {NumClients, NumThreads} \subseteq Nat \ {0}
  /\ {NumLines, MaxErrors} \subseteq Nat
  /\ MemcachedFails \in BOOLEAN

VARIABLES
  ready, go, pc, num_sync, aborted, ctl, ctlRound, ctlNext, stale,  \* of MemcachedSync
  todo,    \* the lines each thread has read and not yet loaded
  store,   \* the lines whose keys are in Redis
  errors   \* the SETs that have failed

Sync == INSTANCE MemcachedSync
  WITH ClientRounds <- 2, ControllerRounds <- 2, OrderedStart <- TRUE

Clients == Sync!Clients
Procs == Sync!Nodes
Proc(c) == Sync!NodeOf(c)
Lines == 0..NumLines - 1

barrierVars == <<ready, go, pc, num_sync, aborted, ctl, ctlRound, ctlNext, stale>>
vars == <<barrierVars, todo, store, errors>>

TypeOK ==
  /\ Sync!TypeOK
  /\ todo \in [Clients -> SUBSET Lines]
  /\ store \subseteq Lines
  /\ errors \in 0..MaxErrors

\* Redis is empty; memcached need not be.
Init ==
  /\ Sync!Init
  /\ todo = [c \in Clients |-> {}]
  /\ store = {}
  /\ errors = 0
------------------------------------------------------------------------------
\* Bug variant: the lines are counted from 1.
ShareOneFurther(c) == {cnt \in 1..NumLines : (cnt % NumClients) + 1 = c}

\* load_ycsb_single: the lines a client keeps
Share(c) == {cnt \in Lines : (cnt % NumClients) + 1 = c}

\* main() creates the threads, which read their shares of the file.
Launch(p) ==
  /\ Sync!Launch(p)
  /\ todo' = [c \in Clients |-> IF Proc(c) = p THEN Share(c) ELSE todo[c]]
  /\ UNCHANGED <<store, errors>>

\* Bug variant: a thread goes on to its transactions without the second barrier.
ReadyOnce(c) ==
  /\ \/ num_sync[c] = 0 /\ (Sync!Publish(c) \/ Sync!PublishFails(c))
     \/ /\ num_sync[c] = 1 /\ pc[c] = "outside" /\ todo[c] = {}
        /\ num_sync' = [num_sync EXCEPT ![c] = 2]
        /\ UNCHANGED <<ready, go, pc, aborted, ctl, ctlRound, ctlNext, stale>>
  /\ UNCHANGED <<todo, store, errors>>

\* memcached_sync_ready: the first call follows reading the file, the second
\* one loading it.
Ready(c) ==
  /\ num_sync[c] = 1 => todo[c] = {}
  /\ Sync!Publish(c) \/ Sync!PublishFails(c)
  /\ UNCHANGED <<todo, store, errors>>

\* The loop of memcached_sync_ready ends.
Leave(c) ==
  /\ Sync!Poll(c)
  /\ UNCHANGED <<todo, store, errors>>

Loading(c) ==
  Sync!Running(c) /\ pc[c] = "outside" /\ num_sync[c] = 1 /\ todo[c] # {}

Current(c) == CHOOSE n \in todo[c] : \A m \in todo[c] : n <= m

\* SET of the next line
Load(c) ==
  /\ Loading(c)
  /\ store' = store \cup {Current(c)}
  /\ todo' = [todo EXCEPT ![c] = @ \ {Current(c)}]
  /\ UNCHANGED <<barrierVars, errors>>

\* Bug variant: the thread goes on with the next line.
LoadFailsAndSkips(c) ==
  /\ Loading(c) /\ errors < MaxErrors
  /\ errors' = errors + 1
  /\ todo' = [todo EXCEPT ![c] = @ \ {Current(c)}]
  /\ UNCHANGED <<barrierVars, store>>

\* The SET raises an Error, before or after Redis has executed it, and is
\* repeated.
LoadFails(c) ==
  /\ Loading(c) /\ errors < MaxErrors
  /\ errors' = errors + 1
  /\ store' \in {store, store \cup {Current(c)}}
  /\ UNCHANGED <<barrierVars, todo>>

\* The worker returns when the execution time is over.
Return(c) ==
  /\ Sync!Finish(c)
  /\ UNCHANGED <<todo, store, errors>>

Controller == Sync!Controller /\ UNCHANGED <<todo, store, errors>>

Terminated == Sync!Terminated /\ UNCHANGED vars
------------------------------------------------------------------------------
Worker(c) == Ready(c) \/ Leave(c) \/ Load(c) \/ LoadFails(c) \/ Return(c)

Next ==
  \/ \E p \in Procs : Launch(p)
  \/ \E c \in Clients : Worker(c)
  \/ Controller
  \/ Terminated

Spec == Init /\ [][Next]_vars

\* Every process is launched in the end; threads and controller keep running.
FairSpec ==
  /\ Spec
  /\ \A p \in Procs : WF_vars(Launch(p))
  /\ \A c \in Clients : WF_vars(Worker(c))
  /\ WF_vars(Controller)
------------------------------------------------------------------------------
(* Properties.                                                             *)

\* No thread starts its transactions before every key of the file is in Redis:
\* the shares cover the file, a SET that fails is repeated, and the second
\* barrier waits for all threads, also when processes abort and notifications
\* are lost, unless keys of an earlier run survive the flush_all.
TransAfterLoad == ~stale => \A c \in Clients : num_sync[c] = 2 => store = Lines

\* The invariant behind it: what a thread has read and does not have to load
\* any more is in Redis, and all of it when it is at the second barrier.
SharesLoaded ==
  /\ \A c \in Clients : pc[c] # "off" => Share(c) \ todo[c] \subseteq store
  /\ \A c \in Clients : Sync!Entered(c) = 2 => todo[c] = {}

\* Loading leaves the barrier protocol alone.
ImplementsSync == Sync!Spec

\* If no request to memcached fails the whole file is loaded and every thread
\* ends.
LoadCompletes ==
  []Sync!NothingLost => <>(store = Lines /\ \A c \in Clients : pc[c] = "done")
==============================================================================
