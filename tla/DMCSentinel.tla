----------------------------- MODULE DMCSentinel -----------------------------
(***************************************************************************)
(* The recovery experiment of dmc_sentinel mode.  The worker threads of    *)
(* the redis_perf processes access the DMC servers through their own       *)
(* DMCSentinelAdapter (redis_adapter.h), the main thread of each process   *)
(* waits for the messages of the controller ycsb_dmc_sentinel.py and moves *)
(* the adapters of its process to the backup, and the controller kills the *)
(* primary and announces, on a timer, the failure and the new backup.      *)
(*                                                                         *)
(* Servers are numbered as in dmc_cluster_config.json: 0 is the primary, 1 *)
(* the backup, 2 the backup that an operator starts after the failure.     *)
(* The timers of the controller are far longer than a request, yet nothing *)
(* in the code relies on it: here they may expire at any moment.           *)
(***************************************************************************)
EXTENDS Integers, Sequences, FiniteSets, Functions

CONSTANTS
  NumProcs,       \* redis_perf processes
  NumThreads,     \* worker threads of each of them
  NumInitial,     \* num_dmc_cluster_initial_servers
  NumTotal,       \* num_dmc_cluster_total_servers: the servers listed
  KillMayFail,    \* kill_servers may return without having killed the server
  MessageLoss,    \* mc.set of the controller may fail, which it ignores
  MaxOps,         \* bound: operations of a thread
  MaxGlitches     \* bound: requests that fail though their server is up

\* The adapter indexes node 1 whatever the configuration says.
ASSUME SentinelAssumption ==
  /\ {NumProcs, NumThreads} \subseteq Nat \ {0}
  /\ NumInitial \in Nat /\ NumInitial >= 2
  /\ NumTotal \in Nat /\ NumTotal >= NumInitial
  /\ {KillMayFail, MessageLoss} \subseteq BOOLEAN
  /\ {MaxOps, MaxGlitches} \subseteq Nat

Procs == 0..NumProcs - 1
Threads == 1..NumProcs * NumThreads
Proc(t) == (t - 1) \div NumThreads
Servers == 0..NumTotal - 1

VARIABLES
  alive,           \* the servers that are up
  msgs,            \* the messages in memcached
  ctl,             \* where the controller is
  main,            \* where the main thread of each process is
  primary_idx,     \* primary_idx_ of each process
  connect_backup,  \* connect_backup_ of each process
  access_vector,   \* access_vector_ of each process
  dmc_nodes,       \* the servers of dmc_nodes_ of each thread's adapter
  pc,              \* where each worker thread is
  op,              \* its operation, GET or SET
  target,          \* target_node or cur_primary of its operation
  ops,             \* the operations it has completed
  gets,            \* how many of them were GETs
  writer,          \* the server that has executed the latest SET
  glitches         \* requests that failed though their server was up

procVars == <<main, primary_idx, connect_backup>>
countVars == <<ops, gets>>
vars == <<alive, msgs, ctl, procVars, access_vector, dmc_nodes, pc, op, target,
          countVars, writer, glitches>>

Messages == {"dmc-primary-failed", "dmc-backup-created"}

TypeOK ==
  /\ alive \subseteq Servers
  /\ msgs \subseteq Messages
  /\ ctl \in {"kill", "failed", "created", "done"}
  /\ main \in [Procs -> {"waitFailed", "waitBackup", "join", "done"}]
  /\ primary_idx \in [Procs -> {0, 1}]
  /\ connect_backup \in [Procs -> BOOLEAN]
  /\ access_vector \in [Procs -> [Servers -> Nat]]
  /\ dmc_nodes \in [Threads -> Seq(Servers)]
  /\ pc \in [Threads -> {"idle", "connect", "pick", "request", "reply",
                         "fbRequest", "fbReply", "done"}]
  /\ op \in [Threads -> {"GET", "SET"}]
  /\ target \in [Threads -> Servers]
  /\ ops \in [Threads -> Nat]
  /\ gets \in [Threads -> Nat]
  /\ writer \in {0, 1}
  /\ glitches \in 0..MaxGlitches

Init ==
  /\ alive = 0..NumInitial - 1
  /\ msgs = {}
  /\ ctl = "kill"
  /\ main = [p \in Procs |-> "waitFailed"]
  /\ primary_idx = [p \in Procs |-> 0]
  /\ connect_backup = [p \in Procs |-> FALSE]
  /\ access_vector = [p \in Procs |-> [s \in Servers |-> 0]]
  /\ dmc_nodes = [t \in Threads |-> [i \in 1..NumInitial |-> i - 1]]
  /\ pc = [t \in Threads |-> "idle"]
  /\ op = [t \in Threads |-> "SET"]
  /\ target = [t \in Threads |-> 0]
  /\ ops = [t \in Threads |-> 0]
  /\ gets = [t \in Threads |-> 0]
  /\ writer = 0
  /\ glitches = 0
------------------------------------------------------------------------------
(* A worker thread.  It reads the atomics of its process one at a time.    *)

Go(t, from, to) == pc[t] = from /\ pc' = [pc EXCEPT ![t] = to]

\* The loop of worker() calls get or set for the next line of the workload.
Call(t) ==
  /\ ops[t] < MaxOps
  /\ Go(t, "idle", "connect")
  /\ \E o \in {"GET", "SET"} : op' = [op EXCEPT ![t] = o]
  /\ UNCHANGED <<alive, msgs, ctl, procVars, access_vector, dmc_nodes, target,
                 countVars, writer, glitches>>

\* Bug variant: the size of dmc_nodes_ is not compared with dmc_node_ips_.
AlwaysBackupMissing(t) == connect_backup[Proc(t)]

\* The new backup is announced and this adapter is not connected to it.
BackupMissing(t) == connect_backup[Proc(t)] /\ Len(dmc_nodes[t]) < NumTotal

\* The adapter looks whether it has to connect to the new backup, which is
\* dmc_node_ips_[2] however many servers it knows.
Connect(t) ==
  /\ Go(t, "connect", "pick")
  /\ dmc_nodes' = IF BackupMissing(t)
                    THEN [dmc_nodes EXCEPT ![t] = Append(@, 2)]
                    ELSE dmc_nodes
  /\ UNCHANGED <<alive, msgs, ctl, procVars, access_vector, op, target,
                 countVars, writer, glitches>>

\* SET goes to the primary; GET to the primary or any later node, chosen by
\* the microseconds of the clock.
Targets(t) ==
  IF op[t] = "GET" THEN primary_idx[Proc(t)]..Len(dmc_nodes[t]) - 1
                   ELSE {primary_idx[Proc(t)]}

Pick(t) ==
  /\ Go(t, "pick", "request")
  /\ \E n \in Targets(t) : target' = [target EXCEPT ![t] = n]
  /\ UNCHANGED <<alive, msgs, ctl, procVars, access_vector, dmc_nodes, op,
                 countVars, writer, glitches>>

\* The fallback of get and set is node 1.
Fallback(t) == dmc_nodes[t][2]

\* The server that the request of the thread is for.
Server(t) ==
  IF pc[t] \in {"fbRequest", "fbReply"} THEN Fallback(t)
                                        ELSE dmc_nodes[t][target[t] + 1]

\* The server executes the request.
Serve(t) ==
  /\ Server(t) \in alive
  /\ Go(t, "request", "reply") \/ Go(t, "fbRequest", "fbReply")
  /\ writer' = IF op[t] = "SET" THEN Server(t) ELSE writer
  /\ UNCHANGED <<alive, msgs, ctl, procVars, access_vector, dmc_nodes, op,
                 target, countVars, glitches>>

Count(p, n) == access_vector' = [access_vector EXCEPT ![p][n] = @ + 1]

\* The thread gets the reply: a GET that did not fall back counts its node.
Return(t) ==
  /\ Go(t, "reply", "idle") \/ Go(t, "fbReply", "idle")
  /\ ops' = [ops EXCEPT ![t] = @ + 1]
  /\ IF op[t] = "GET" THEN gets' = [gets EXCEPT ![t] = @ + 1] ELSE UNCHANGED gets
  /\ IF op[t] = "GET" /\ pc[t] = "reply" THEN Count(Proc(t), target[t])
                                         ELSE UNCHANGED access_vector
  /\ UNCHANGED <<alive, msgs, ctl, procVars, dmc_nodes, op, target, writer, glitches>>

\* The request or its reply is lost with the server, or by a glitch.
Lost(t) ==
  \/ Server(t) \notin alive /\ UNCHANGED glitches
  \/ Server(t) \in alive /\ glitches < MaxGlitches /\ glitches' = glitches + 1

\* Bug variant: a GET that falls back is not counted.
UncountedFail(t) ==
  /\ Go(t, "request", "fbRequest") \/ Go(t, "reply", "fbRequest")
  /\ Lost(t)
  /\ UNCHANGED <<alive, msgs, ctl, procVars, access_vector, dmc_nodes, op,
                 target, countVars, writer>>

\* Bug variant: the request is repeated on the node that failed.
FailRepeats(t) ==
  /\ Go(t, "request", "request") \/ Go(t, "reply", "request")
  /\ Lost(t)
  /\ UNCHANGED <<alive, msgs, ctl, procVars, access_vector, dmc_nodes, op,
                 target, countVars, writer>>

\* An Error is caught in the adapter, which turns to node 1; a GET counts it
\* before it is known whether node 1 answers.
Fail(t) ==
  /\ Go(t, "request", "fbRequest") \/ Go(t, "reply", "fbRequest")
  /\ Lost(t)
  /\ IF op[t] = "GET" THEN Count(Proc(t), 1) ELSE UNCHANGED access_vector
  /\ UNCHANGED <<alive, msgs, ctl, procVars, dmc_nodes, op, target, countVars, writer>>

\* The fallback fails as well: worker() catches the Error and calls the
\* adapter again with the same key.
FailTwice(t) ==
  /\ Go(t, "fbRequest", "connect") \/ Go(t, "fbReply", "connect")
  /\ Lost(t)
  /\ UNCHANGED <<alive, msgs, ctl, procVars, access_vector, dmc_nodes, op,
                 target, countVars, writer>>

\* The execution time of the thread is over.
Finish(t) ==
  /\ ops[t] = MaxOps
  /\ Go(t, "idle", "done")
  /\ UNCHANGED <<alive, msgs, ctl, procVars, access_vector, dmc_nodes, op,
                 target, countVars, writer, glitches>>
------------------------------------------------------------------------------
(* The main thread of a process.                                           *)

workerVars == <<access_vector, dmc_nodes, pc, op, target, countVars, writer, glitches>>

GoMain(p, from, to) == main[p] = from /\ main' = [main EXCEPT ![p] = to]

\* Bug variant: the two statements after the waits are swapped.
ConnectFirst(p) ==
  /\ "dmc-primary-failed" \in msgs
  /\ GoMain(p, "waitFailed", "waitBackup")
  /\ connect_backup' = [connect_backup EXCEPT ![p] = TRUE]
  /\ UNCHANGED <<alive, msgs, ctl, primary_idx, workerVars>>

\* Bug variant: main makes the server that is not there yet the primary.
SetPrimaryTwo(p) ==
  /\ "dmc-primary-failed" \in msgs
  /\ GoMain(p, "waitFailed", "waitBackup")
  /\ primary_idx' = [primary_idx EXCEPT ![p] = 2]
  /\ UNCHANGED <<alive, msgs, ctl, connect_backup, workerVars>>

\* Bug variant: main does not wait for the controller.
SetPrimaryAtOnce(p) ==
  /\ GoMain(p, "waitFailed", "waitBackup")
  /\ primary_idx' = [primary_idx EXCEPT ![p] = 1]
  /\ UNCHANGED <<alive, msgs, ctl, connect_backup, workerVars>>

\* memcached_wait("dmc-primary-failed") returns; set_primary(1).
SetPrimary(p) ==
  /\ "dmc-primary-failed" \in msgs
  /\ GoMain(p, "waitFailed", "waitBackup")
  /\ primary_idx' = [primary_idx EXCEPT ![p] = 1]
  /\ UNCHANGED <<alive, msgs, ctl, connect_backup, workerVars>>

\* memcached_wait("dmc-backup-created") returns; connect_backup().
ConnectBackup(p) ==
  /\ "dmc-backup-created" \in msgs
  /\ GoMain(p, "waitBackup", "join")
  /\ connect_backup' = [connect_backup EXCEPT ![p] = TRUE]
  /\ UNCHANGED <<alive, msgs, ctl, primary_idx, workerVars>>

\* main has joined all workers and reports.
Join(p) ==
  /\ \A t \in Threads : Proc(t) = p => pc[t] = "done"
  /\ GoMain(p, "join", "done")
  /\ UNCHANGED <<alive, msgs, ctl, primary_idx, connect_backup, workerVars>>
------------------------------------------------------------------------------
(* The controller script, and the operator who starts the new backup.      *)

\* kill_servers([7000]): it gives up without a pid file, and the result of
\* "sudo kill -9" is ignored.
Kill ==
  /\ ctl = "kill"
  /\ ctl' = "failed"
  /\ \/ alive' = alive \ {0}
     \/ KillMayFail /\ UNCHANGED alive
  /\ UNCHANGED <<msgs, procVars, workerVars>>

Send(m) ==
  \/ msgs' = msgs \cup {m}
  \/ MessageLoss /\ UNCHANGED msgs

\* mc.set('dmc-primary-failed', 1)
AnnounceFailure ==
  /\ ctl = "failed"
  /\ ctl' = "created"
  /\ Send("dmc-primary-failed")
  /\ UNCHANGED <<alive, procVars, workerVars>>

\* mc.set('dmc-backup-created', 1), whether or not the backup is up
AnnounceBackup ==
  /\ ctl = "created"
  /\ ctl' = "done"
  /\ Send("dmc-backup-created")
  /\ UNCHANGED <<alive, procVars, workerVars>>

\* "Start a new backup during the experiment after the seconds_before_fail".
StartBackup ==
  /\ ctl # "kill"
  /\ 2 \in Servers \ alive
  /\ alive' = alive \cup {2}
  /\ UNCHANGED <<msgs, ctl, procVars, workerVars>>
------------------------------------------------------------------------------
Work(t) ==
  \/ Call(t) \/ Connect(t) \/ Pick(t) \/ Serve(t) \/ Return(t)
  \/ Fail(t) \/ FailTwice(t) \/ Finish(t)

Main(p) == SetPrimary(p) \/ ConnectBackup(p) \/ Join(p)

Controller == Kill \/ AnnounceFailure \/ AnnounceBackup

Terminated ==
  /\ ctl = "done"
  /\ \A p \in Procs : main[p] = "done"
  /\ UNCHANGED vars

Next ==
  \/ \E t \in Threads : Work(t)
  \/ \E p \in Procs : Main(p)
  \/ Controller
  \/ StartBackup
  \/ Terminated

Spec == Init /\ [][Next]_vars

\* Every thread, process and the controller keep running; nothing makes the
\* operator start the new backup.
FairSpec ==
  /\ Spec
  /\ \A t \in Threads : WF_vars(Work(t))
  /\ \A p \in Procs : WF_vars(Main(p))
  /\ WF_vars(Controller)
------------------------------------------------------------------------------
(* Properties.                                                             *)

\* dmc_nodes_[i] is the i-th server of the configuration in every adapter, and
\* every index that get and set use is below its size (no num_alive of 0),
\* whenever the new backup is announced while operations are under way.
NodesMatchConfig ==
  \A t \in Threads :
    /\ Len(dmc_nodes[t]) <= NumTotal
    /\ \A i \in 1..Len(dmc_nodes[t]) : dmc_nodes[t][i] = i - 1
    /\ {1, primary_idx[Proc(t)], target[t]} \subseteq 0..Len(dmc_nodes[t]) - 1

\* kill_servers has returned and the primary is still there.
KillFailed == ctl # "kill" /\ 0 \in alive

\* The backup executes a SET only when the primary is dead: neither a stale
\* primary_idx_ nor the fallback, in any process, makes two servers accept
\* writes.  The only ways to get there are a request that failed on a live
\* server and a kill that did not work.
NoSplitBrain ==
  writer = 1 => 0 \notin alive \/ glitches > 0 \/ KillFailed

\* An adapter that is connected to the new backup never addresses the failed
\* primary again: main stores primary_idx_ before connect_backup_, and get and
\* set load them in the opposite order.
NewBackupAfterFailover ==
  \A t \in Threads :
    pc[t] \in {"request", "reply"} /\ Len(dmc_nodes[t]) > NumInitial => target[t] # 0

ThreadsOf(p) == {t \in Threads : Proc(t) = p}

\* The access vector that a process reports accounts for each GET, the
\* completed ones and those that wait for node 1 after a failure: never less,
\* and exactly once unless a live server failed a request.
AccessVectorExact ==
  \A p \in Procs :
    LET counted == SumFunction(access_vector[p])
        made == SumFunctionOnSet(gets, ThreadsOf(p)) +
                Cardinality({t \in ThreadsOf(p) :
                               op[t] = "GET" /\ pc[t] \in {"fbRequest", "fbReply"}})
    IN  counted >= made /\ (glitches = 0 => counted = made)

\* What the controller has sent is in memcached.
NothingLost ==
  /\ ctl \in {"created", "done"} => "dmc-primary-failed" \in msgs
  /\ ctl = "done" => "dmc-backup-created" \in msgs

\* The experiment ends: every thread gets through all its operations although
\* the primary dies under some of them and requests fail on live servers, even
\* if no new backup is ever started, and every process reports.
OperationsComplete == <>(~NothingLost \/ \A p \in Procs : main[p] = "done")
------------------------------------------------------------------------------
(* The inductive invariants behind the safety properties.                  *)

\* An adapter has the initial nodes and perhaps the new backup, indices are
\* below its size, and a SET is for one of the first two nodes.
NodesBounded ==
  \A t \in Threads :
    /\ Len(dmc_nodes[t]) \in NumInitial..NumTotal
    /\ \A i \in 1..Len(dmc_nodes[t]) :
         dmc_nodes[t][i] = IF i <= NumInitial THEN i - 1 ELSE 2
    /\ target[t] < Len(dmc_nodes[t])
    /\ op[t] = "SET" /\ pc[t] \in {"request", "reply"} => target[t] \in {0, 1}

\* connect_backup_ is set after primary_idx_, and only adapters that have seen
\* it set have more than the initial nodes.
BackupAfterPrimary ==
  /\ \A p \in Procs :
       /\ main[p] \in {"waitFailed", "waitBackup"} => ~connect_backup[p]
       /\ main[p] # "waitFailed" => primary_idx[p] = 1
  /\ \A t \in Threads : Len(dmc_nodes[t]) > NumInitial => connect_backup[Proc(t)]

NodesInv == TypeOK /\ NodesBounded /\ BackupAfterPrimary /\ NewBackupAfterFailover

\* Until the controller kills the primary nobody has moved away from it.
NobodyMovedEarly ==
  0 \in alive /\ ctl = "kill" /\ glitches = 0 =>
    /\ alive = 0..NumInitial - 1 /\ msgs = {} /\ writer = 0
    /\ \A p \in Procs : main[p] = "waitFailed" /\ primary_idx[p] = 0
    /\ \A t \in Threads :
         /\ pc[t] \notin {"fbRequest", "fbReply"}
         /\ pc[t] \in {"request", "reply"} /\ op[t] = "SET" => target[t] = 0
==============================================================================
