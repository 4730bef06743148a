------------------------------ MODULE DMCCluster ------------------------------
(***************************************************************************)
(* The elasticity experiment of dmc_cluster mode.  The worker threads of   *)
(* redis_trans_ycsb pass the barrier of MemcachedSync and send operations  *)
(* through their DMCClusterAdapter (redis_adapter.h); the main thread of   *)
(* each process follows the scale messages, which the controller           *)
(* ycsb_dmc_cluster_elasticity.py sends after the barrier.                 *)
(*                                                                         *)
(* Barrier and scale messages share memcached: the flush_all before the    *)
(* barrier also removes the scale messages of an earlier experiment.  The  *)
(* timers of the controller may expire at any moment.                      *)
(***************************************************************************)
EXTENDS Integers, FiniteSets, Functions

CONSTANTS
  NumClients,      \* <num-clients>: the worker threads of all processes
  NumThreads,      \* <num_threads> of each process
  MemcachedFails,  \* a request to memcached may fail
  NumInitial,      \* num_dmc_cluster_initial_servers
  NumScale,        \* num_dmc_cluster_scale_servers
  NumTotal,        \* num_dmc_cluster_total_servers: the servers listed
  MayMiss,         \* a GET may find no value: twitter and ycsbd workloads
  MaxOps,          \* bound: operations of a thread
  MaxErrors        \* bound: requests that fail

\* The adapter has an assertion on the number of servers, commented out.
ASSUME ClusterAssumption ==
  /\ {NumClients, NumThreads, NumInitial, NumScale, NumTotal} \subseteq Nat \ {0}
  /\ NumInitial <= NumTotal /\ NumScale <= NumTotal
  /\ {MemcachedFails, MayMiss} \subseteq BOOLEAN
  /\ {MaxOps, MaxErrors} \subseteq Nat

VARIABLES
  ready, go, pc, num_sync, aborted, ctl, ctlRound, ctlNext, stale,  \* of MemcachedSync
  msgs,           \* the scale messages in memcached
  script,         \* where the controller is after the barrier
  main,           \* where the main thread of each process is
  num_alive,      \* num_alive_servers_ of each process
  access_vector,  \* access_vector_ of each process
  step,           \* where each worker thread is in its operation
  op,             \* its operation, GET or SET
  target,         \* target_server of its request
  ops,            \* the operations it has completed
  received,       \* the requests each server has received
  errors          \* the requests that have failed

Sync == INSTANCE MemcachedSync
  WITH ClientRounds <- 1, ControllerRounds <- 1, OrderedStart <- TRUE

Clients == Sync!Clients
Procs == Sync!Nodes
Proc(c) == Sync!NodeOf(c)
Servers == 0..NumTotal - 1

barrierVars == <<ready, go, pc, num_sync, aborted, ctl, ctlRound, ctlNext, stale>>
mainVars == <<main, num_alive>>
workerVars == <<access_vector, step, op, target, ops, received, errors>>
vars == <<barrierVars, msgs, script, mainVars, workerVars>>

Messages == {"dmc-scale-0", "dmc-scale-1"}

TypeOK ==
  /\ Sync!TypeOK
  /\ msgs \subseteq Messages
  /\ script \in {"scaleOut", "scaleIn", "done"}
  /\ main \in [Procs -> {"off", "waitOut", "waitIn", "join", "done"}]
  /\ num_alive \in [Procs -> {0, NumInitial, NumScale}]
  /\ access_vector \in [Procs -> [Servers -> Nat]]
  /\ step \in [Clients -> {"idle", "get", "getSend", "getWait",
                           "set", "setSend", "setWait"}]
  /\ op \in [Clients -> {"GET", "SET"}]
  /\ target \in [Clients -> Servers]
  /\ ops \in [Clients -> 0..MaxOps]
  /\ received \in [Servers -> Nat]
  /\ errors \in 0..MaxErrors

Init ==
  /\ Sync!Init
  /\ msgs \in SUBSET Messages
  /\ "dmc-scale-1" \in msgs => "dmc-scale-0" \in msgs
  /\ msgs # {} => 0 \in go
  /\ script = "scaleOut"
  /\ main = [p \in Procs |-> "off"]
  /\ num_alive = [p \in Procs |-> 0]
  /\ access_vector = [p \in Procs |-> [s \in Servers |-> 0]]
  /\ step = [c \in Clients |-> "idle"]
  /\ op = [c \in Clients |-> "SET"]
  /\ target = [c \in Clients |-> 0]
  /\ ops = [c \in Clients |-> 0]
  /\ received = [s \in Servers |-> 0]
  /\ errors = 0
------------------------------------------------------------------------------
(* The barrier, with what main() and the controller do around it.          *)

\* Bug variant: the worker threads are created before update_num_servers.
LaunchBeforeConfig(p) ==
  /\ Sync!Launch(p)
  /\ main' = [main EXCEPT ![p] = "waitOut"]
  /\ UNCHANGED <<msgs, script, num_alive, workerVars>>

\* main() loads the configuration and creates its worker threads.
Launch(p) ==
  /\ Sync!Launch(p)
  /\ main' = [main EXCEPT ![p] = "waitOut"]
  /\ num_alive' = [num_alive EXCEPT ![p] = NumInitial]
  /\ UNCHANGED <<msgs, script, workerVars>>

\* A worker thread goes through memcached_sync_ready.
SyncReady(c) ==
  /\ Sync!Publish(c) \/ Sync!PublishFails(c) \/ Sync!Poll(c)
  /\ UNCHANGED <<msgs, script, mainVars, workerVars>>

\* The worker returns: the execution time is over.
Return(c) ==
  /\ Sync!Finish(c)
  /\ step[c] = "idle" /\ ops[c] = MaxOps
  /\ UNCHANGED <<msgs, script, mainVars, workerVars>>

\* Bug variant: flush_all leaves the scale messages, as if they were sent
\* through another memcached.
FlushKeepsMessages ==
  /\ Sync!Flush
  /\ UNCHANGED <<msgs, script, mainVars, workerVars>>

\* mc.flush_all(), which may fail silently
Flush ==
  /\ \/ Sync!Flush /\ msgs' = {}
     \/ Sync!FlushLost /\ UNCHANGED msgs
  /\ UNCHANGED <<script, mainVars, workerVars>>

\* The controller serves the barrier.
ServeBarrier ==
  /\ Sync!Collect \/ Sync!Notify \/ Sync!NotifyLost
  /\ UNCHANGED <<msgs, script, mainVars, workerVars>>
------------------------------------------------------------------------------
(* The controller after the barrier, and the main threads.                 *)

Send(m) ==
  \/ msgs' = msgs \cup {m}
  \/ MemcachedFails /\ UNCHANGED msgs

\* mc.set('dmc-scale-0', 1)
AnnounceOut ==
  /\ ctl = "done"
  /\ script = "scaleOut"
  /\ script' = "scaleIn"
  /\ Send("dmc-scale-0")
  /\ UNCHANGED <<barrierVars, mainVars, workerVars>>

\* mc.set('dmc-scale-1', 1)
AnnounceIn ==
  /\ script = "scaleIn"
  /\ script' = "done"
  /\ Send("dmc-scale-1")
  /\ UNCHANGED <<barrierVars, mainVars, workerVars>>

GoMain(p, from, to) ==
  p \notin aborted /\ main[p] = from /\ main' = [main EXCEPT ![p] = to]

\* memcached_wait("dmc-scale-0") returns; update_num_servers.
ScaleOut(p) ==
  /\ "dmc-scale-0" \in msgs
  /\ GoMain(p, "waitOut", "waitIn")
  /\ num_alive' = [num_alive EXCEPT ![p] = NumScale]
  /\ UNCHANGED <<barrierVars, msgs, script, workerVars>>

\* Bug variant: main waits for dmc-scale-0 a second time.
ScaleInAtOnce(p) ==
  /\ "dmc-scale-0" \in msgs
  /\ GoMain(p, "waitIn", "join")
  /\ num_alive' = [num_alive EXCEPT ![p] = NumInitial]
  /\ UNCHANGED <<barrierVars, msgs, script, workerVars>>

\* Bug variant: the second update has the number of the first.
ScaleInToScale(p) ==
  /\ "dmc-scale-1" \in msgs
  /\ GoMain(p, "waitIn", "join")
  /\ num_alive' = [num_alive EXCEPT ![p] = NumScale]
  /\ UNCHANGED <<barrierVars, msgs, script, workerVars>>

\* memcached_wait("dmc-scale-1") returns; update_num_servers.
ScaleIn(p) ==
  /\ "dmc-scale-1" \in msgs
  /\ GoMain(p, "waitIn", "join")
  /\ num_alive' = [num_alive EXCEPT ![p] = NumInitial]
  /\ UNCHANGED <<barrierVars, msgs, script, workerVars>>

\* main has joined all workers and reports.
Join(p) ==
  /\ \A c \in Clients : Proc(c) = p => pc[c] = "done"
  /\ GoMain(p, "join", "done")
  /\ UNCHANGED <<barrierVars, msgs, script, num_alive, workerVars>>
------------------------------------------------------------------------------
(* A worker thread in its transaction loop.                                *)

\* The start of an operation, and what trans_retry comes back to.
Begin(o) == IF o = "GET" THEN "get" ELSE "set"

\* The loop turns to the next line of the workload.
Call(c) ==
  /\ Sync!Running(c)
  /\ pc[c] = "outside" /\ num_sync[c] = 1
  /\ step[c] = "idle" /\ ops[c] < MaxOps
  /\ \E o \in {"GET", "SET"} :
       /\ op' = [op EXCEPT ![c] = o]
       /\ step' = [step EXCEPT ![c] = Begin(o)]
  /\ UNCHANGED <<barrierVars, msgs, script, mainVars, access_vector, target, ops,
                 received, errors>>

GoStep(c, from, to) ==
  Sync!Running(c) /\ step[c] = from /\ step' = [step EXCEPT ![c] = to]

\* fetch_add counts the request for the server that was picked.
CountFor(c, s) ==
  /\ target' = [target EXCEPT ![c] = s]
  /\ access_vector' = [access_vector EXCEPT ![Proc(c)][s] = @ + 1]

\* Bug variant: the random server is not taken modulo num_alive_servers_, but
\* one further.
TargetUpTo(c) ==
  /\ GoStep(c, "get", "getSend") \/ GoStep(c, "set", "setSend")
  /\ \E s \in 0..num_alive[Proc(c)] : CountFor(c, s)
  /\ UNCHANGED <<barrierVars, msgs, script, mainVars, op, ops, received, errors>>

\* Bug variant: only GET counts the request.
CountGetOnly(c) ==
  /\ GoStep(c, "get", "getSend") \/ GoStep(c, "set", "setSend")
  /\ \E s \in 0..num_alive[Proc(c)] - 1 :
       IF step[c] = "get" THEN CountFor(c, s)
       ELSE target' = [target EXCEPT ![c] = s] /\ UNCHANGED access_vector
  /\ UNCHANGED <<barrierVars, msgs, script, mainVars, op, ops, received, errors>>

\* The adapter loads num_alive_servers_, picks a server and counts the request:
\* a random server for GET; for SET the CRC of all keys the adapter has seen.
\* Nobody can tell the load and the fetch_add apart, so they are one step.
Pick(c) ==
  /\ GoStep(c, "get", "getSend") \/ GoStep(c, "set", "setSend")
  /\ \E s \in 0..num_alive[Proc(c)] - 1 : CountFor(c, s)
  /\ UNCHANGED <<barrierVars, msgs, script, mainVars, op, ops, received, errors>>

\* It sends the request, and the server receives it.
SendRequest(c) ==
  /\ GoStep(c, "getSend", "getWait") \/ GoStep(c, "setSend", "setWait")
  /\ received' = [received EXCEPT ![target[c]] = @ + 1]
  /\ UNCHANGED <<barrierVars, msgs, script, mainVars, access_vector, op, target, ops, errors>>

\* The request succeeds and the operation is over.
Reply(c) ==
  /\ GoStep(c, "getWait", "idle") \/ GoStep(c, "setWait", "idle")
  /\ ops' = [ops EXCEPT ![c] = @ + 1]
  /\ UNCHANGED <<barrierVars, msgs, script, mainVars, access_vector, op, target,
                 received, errors>>

\* A GET finds no value, and the key is added with a SET of its own.
Miss(c) ==
  /\ MayMiss
  /\ GoStep(c, "getWait", "set")
  /\ UNCHANGED <<barrierVars, msgs, script, mainVars, access_vector, op, target,
                 ops, received, errors>>

\* The request fails, before or after the server has received it: the worker
\* makes a new adapter and starts the operation from the beginning.
Fail(c) ==
  /\ errors < MaxErrors
  /\ errors' = errors + 1
  /\ \E from \in {"getSend", "setSend", "getWait", "setWait"} : GoStep(c, from, Begin(op[c]))
  /\ UNCHANGED <<barrierVars, msgs, script, mainVars, access_vector, op, target, ops, received>>
------------------------------------------------------------------------------
Worker(c) ==
  \/ SyncReady(c) \/ Return(c) \/ Call(c) \/ Pick(c) \/ SendRequest(c)
  \/ Reply(c) \/ Miss(c) \/ Fail(c)

Main(p) == ScaleOut(p) \/ ScaleIn(p) \/ Join(p)

Controller == Flush \/ ServeBarrier \/ AnnounceOut \/ AnnounceIn

Terminated ==
  /\ script = "done"
  /\ \A p \in Procs : main[p] = "done"
  /\ UNCHANGED vars

Next ==
  \/ \E p \in Procs : Launch(p) \/ Main(p)
  \/ \E c \in Clients : Worker(c)
  \/ Controller
  \/ Terminated

Spec == Init /\ [][Next]_vars

\* Every process is launched in the end; threads and controller keep running.
FairSpec ==
  /\ Spec
  /\ \A p \in Procs : WF_vars(Launch(p)) /\ WF_vars(Main(p))
  /\ \A c \in Clients : WF_vars(Worker(c))
  /\ WF_vars(Controller)
------------------------------------------------------------------------------
(* Properties.                                                             *)

\* get and set never divide by a server count of zero, and never index beyond
\* the connections of their adapter, whatever main() stores in between.
ServersInRange ==
  \A c \in Clients :
    /\ step[c] # "idle" => num_alive[Proc(c)] \in 1..NumTotal
    /\ target[c] \in Servers

\* No process changes its number of servers before every thread of every
\* process has arrived at the barrier: neither a message of an earlier
\* experiment nor a lost notification starts the scaling early, unless the
\* flush_all has left what there was.
ScaleAfterBarrier ==
  ~stale /\ (\E p \in Procs : main[p] \in {"waitIn", "join", "done"}) =>
    \A c \in Clients : Sync!Entered(c) = 1

\* No process is ahead of the controller: it scales out, and in again, only
\* when this experiment's controller has come to it, so that every process runs
\* on all servers for a while.  It rests on a flush_all that is not lost.
FollowsScript ==
  ~stale => \A p \in Procs :
    /\ main[p] = "waitIn" => script # "scaleOut"
    /\ main[p] \in {"join", "done"} => script = "done"

(* The inductive invariants behind the three.                              *)

\* Only a launched thread has an operation, and its process has a number of
\* servers.
LaunchedFirst ==
  /\ num_alive \in [Procs -> {0, NumInitial, NumScale}]
  /\ target \in [Clients -> Servers]
  /\ DOMAIN step = Clients
  /\ \A c \in Clients : pc[c] # "off" => num_alive[Proc(c)] # 0
  /\ \A c \in Clients : step[c] # "idle" => pc[c] # "off"

\* Before the flush nobody is launched, and a scale message comes with a key of
\* the barrier; after it a message is one of this experiment's controller, which
\* sends them after the barrier.
MessagesAreTrue ==
  /\ ctl = "flush" => (\A p \in Procs : main[p] = "off") /\ (msgs # {} => go # {})
  /\ script # "scaleOut" => ctl = "done"
  /\ ctl # "flush" /\ ~stale =>
       /\ "dmc-scale-0" \in msgs => script # "scaleOut"
       /\ "dmc-scale-1" \in msgs => script = "done"

ScriptTypeOK ==
  /\ script \in {"scaleOut", "scaleIn", "done"}
  /\ main \in [Procs -> {"off", "waitOut", "waitIn", "join", "done"}]

ScaleInv == ScriptTypeOK /\ MessagesAreTrue /\ FollowsScript

SumOver(s) == SumFunction([p \in Procs |-> access_vector[p][s]])

\* The requests that are counted and not sent yet.
Sending(s) == {c \in Clients : step[c] \in {"getSend", "setSend"} /\ target[c] = s}

\* The access vectors account for what the servers have received and for what is
\* on its way, retries and added keys included: exactly as long as no request
\* fails, and never for less.
AccessVectorCovers ==
  \A s \in Servers :
    LET arrived == received[s] + Cardinality(Sending(s))
    IN  /\ arrived <= SumOver(s)
        /\ errors = 0 => arrived = SumOver(s)

\* The scale messages and the operations leave the barrier protocol alone.
ImplementsSync == Sync!Spec

\* No request to memcached has failed so far.
NothingLost ==
  /\ Sync!NothingLost
  /\ ctl # "flush" =>
       /\ script # "scaleOut" => "dmc-scale-0" \in msgs
       /\ script = "done" => "dmc-scale-1" \in msgs

\* If no request to memcached fails the experiment ends: every process follows
\* both scale steps, joins its threads and is back at the initial number of
\* servers.
ScalingCompletes ==
  []NothingLost => <>(\A p \in Procs : main[p] = "done" /\ num_alive[p] = NumInitial)
==============================================================================
