# A verification project for redis-perf

redis-perf measures Redis, Redis clusters, Redis Sentinel and DMC (disaggregated
memory cache) servers under YCSB and Twitter workloads. It consists of C++ client
programs, which run on many nodes with many threads each, and Python controller
scripts, which steer an experiment. All of them talk to each other through a
memcached instance. This directory holds TLA+ models of the parts whose behaviour
depends on the order in which these programs act, TLC configurations that check the
models on small instances, and proofs that TLAPS checks for all instances.

Contents: [Inventory](#inventory), [Modules](#modules), [Runs](#runs),
[Fairness](#fairness), [Proofs](#proofs), [Findings](#findings),
[What is not modelled](#what-is-not-modelled), [Plan](#plan).

## Inventory

Paths are relative to the root of the repository.

### Synchronisation of client threads (`memcached.cc`, `scripts/ycsb_load_and_trans.py`, `scripts/ycsb_load_or_trans.py`)

- State: the keys `client-<c>-ready-<k>` and `all-client-ready-<k>` in memcached;
  `num_sync_` of every `DMCMemcachedClient` (one per worker thread); the loop index
  of the controller.
- Operations: `memcached_sync_ready` publishes the ready key of the thread and polls
  for the go key. The controller calls `flush_all`, collects the ready keys of all
  clients in order, and sets the go key, once or twice.
- Interaction: every thread of every client program (`redis_perf`,
  `redis_load_ycsb`, `redis_trans_ycsb`) passes a barrier before it starts its work,
  and a thread of `redis_perf` a second one between its load and its transactions.
  Each of the controllers of `scripts/` contains the same loops before its own
  experiment.
- Hard: keys of an earlier experiment; threads that are a barrier ahead of others;
  a failing `memcached_set` aborts a process with all its threads; a failing
  `mc.set` or `flush_all` of the controller goes unnoticed; both sides count barriers
  on their own.
- Correct when: nobody leaves a barrier before everybody has entered it, unless the flush
  was lost, and, with memcached up, everybody gets through all barriers.

### Fail-over of dmc_sentinel mode (`redis_adapter.h`, `redis_perf.cc`, `scripts/ycsb_dmc_sentinel.py`, `scripts/redis_utils.py`)

- State: the atomics `primary_idx_`, `connect_backup_` and `access_vector_`, shared
  by all adapters of a process; `dmc_nodes_` of the adapter of each thread; the
  servers that are up; the messages `dmc-primary-failed` and `dmc-backup-created`.
- Operations: `DMCSentinelAdapter::get` and `set`, with a fallback to node 1 on any
  error; the loop of `worker()` that repeats an operation until it succeeds;
  `main()`, which waits for the two messages and calls `set_primary(1)` and
  `connect_backup()`; the controller, which kills the primary and sets the messages
  on a timer; the operator, who starts the new backup by hand.
- Hard: the atomics are read one at a time and used after they have changed;
  processes fail over at different times; the primary dies before or after it has
  executed a request; the messages do not say whether what they announce is true.
- Correct when: indices stay inside `dmc_nodes_`; no two servers take writes at the
  same time; reads do not return to the dead primary once the new backup is there;
  every operation completes; the reported access vector accounts for every GET.

### Sampling and merging of the measurements (`redis_perf.cc`, `redis_trans_ycsb.cc`, `utils.h`)

- State: `seq`, `cur_tick`, `cur_lat_map` and the samples of each worker thread; the
  merged samples.
- Operations: an iteration of the loop (an operation, its latency, perhaps a
  sample), the return of the worker, the merge in `main()`.
- Hard: the comparison mixes a 64-bit time with a 32-bit product; an operation may
  take longer than a tick; samples of all threads are added up by their number.
- Correct when: a sample is never early, samples with the same number stem from the
  same tick, and no operation is lost or counted twice.

### Load phase and workload shares (`workload.h`, `redis_perf.cc`, `redis_load_ycsb.cc`)

- State: the share of the file that each thread has read, the keys in Redis.
- Operations: `load_ycsb_single` keeps the lines with `(cnt % n) + 1 == server_id`;
  the load loop SETs each of them and repeats a SET that raises an error.
- Interaction: `redis_perf` loads between its two barriers, `redis_load_ycsb` after
  its only one. What a transaction of one thread finds depends on the loads of all
  others.
- Hard: lines are counted from 0 and clients from 1; a SET may fail before or after
  it was executed; a process may abort in the middle of its load.
- Correct when: no transaction starts before every key of the file is in Redis.

### Elasticity of dmc_cluster mode (`redis_adapter.h`, `redis_trans_ycsb.cc`, `scripts/ycsb_dmc_cluster_elasticity.py`)

- State: `num_alive_servers_` and `access_vector_` of each process, the connections of
  each adapter, the messages `dmc-scale-0` and `dmc-scale-1` in memcached, the CRC
  that picks the server of a SET.
- Operations: `update_num_servers`, which `main()` calls before it starts its workers
  and after each message; `get` and `set` of `DMCClusterAdapter`; the retries of the
  transaction loop and the SET that follows a GET without a value; the barrier and
  the messages of the controller.
- Interaction: messages and barrier keys share a memcached, and the `flush_all`
  before the barrier removes the messages of an earlier experiment.
- Hard: the number of servers changes between the moment a server is chosen and the
  moment its connection is used; `main()` may see an old message; a request that
  fails was counted, whether or not a server has received it; memcached fails.
- Correct when: a thread only addresses servers it is connected to; no process
  scales before the barrier or ahead of the controller; the access vector covers
  what the servers received; every process follows both steps and ends.

### Elasticity of a Redis cluster (`scripts/redis-cluster-scale-horizontal.py`, `scripts/redis-cluster-scale-vertical.py`, `scripts/legacy/scale-vertical.py`, `scripts/legacy/scale-horizontal.py`, `scripts/legacy/redis-cluster-node-starter.py`, `scripts/redis_utils.py`)

- State: the slots each master owns, the members of the cluster, and the script's own
  account of the slots, `port_slots`; the keys of the barriers, `redis-0-ready` and
  `test-finish` in memcached; whether the instances are up.
- Operations, `redis-cluster-scale-horizontal.py`: add a partner for every master,
  read the slot counts once, give half of the slots of each master to its partner,
  take them back.
- Operations of the other three scripts: gather all slots on 7000, remove 7001 and
  7002, add 7003 (and 7004), pass the barriers with the clients, move everything from
  7000 to 7003 and on to 7004 (half to 7003 and back in the legacy horizontal
  script).
- Interaction: the legacy scripts start a node starter and the clients on other nodes.
  The starter kills old instances, starts new ones, sets `redis-0-ready`, and stops
  them when it finds `test-finish`, which the script sets after its clients have
  returned.
- Hard: halves of odd numbers; the results of `redis-cli` are ignored, so the
  account and the cluster may differ; keys of an earlier run; three programs that
  wait for each other; a client program that does not take the arguments it is given.
- Correct when: the account of a pair is exact whatever the reshards did, a
  master that is left behind is empty, slots move under transactions only, the
  instances are up as long as somebody uses them, and the experiment ends if it has
  clients.

### redis-sentinel mode (`scripts/redis-sentinel.py`, `redis_adapter.h`, `redis_perf.cc`)

- State: the servers of the experiment (Sentinel at 7000, primary, backup, new backup);
  what Sentinel knows of them; the keys of the barriers; the phase of each client
  thread.
- Operations: the script starts primary, backup and Sentinel, takes the clients
  through both barriers, kills the primary and starts the new backup;
  `RedisSentinelAdapter::set` goes to the master, `get` to one of two nodes and to the
  master if that fails.
- Hard: a server needs time to boot, and one that has not written its pid cannot be
  killed; the fail-over takes place inside Sentinel; the clients do nothing but
  repeat what fails.
- Correct when: the primary is really dead after the kill, the clients get through, and
  the new backup becomes a backup.

### Start and clean-up of servers (`scripts/redis-instance-starter.py`, `scripts/redis-sentinel.py`, `scripts/redis_utils.py`)

- State: the directory `./<port>` of each server with its configuration and its pid
  file; the servers that boot or run.
- Operations: `cleanup_servers` kills what the pid files name and removes or renews the
  directories; `create_config`, `start_instances`, `kill_servers`; the handler of
  SIGINT, which cleans up the ports of its script.
- Interaction: scripts are run one after the other on the same node, in the same
  directories and on the same ports, whatever mode has run before.
- Hard: `redis-server` returns before the daemon has written its pid; the result of
  `sudo kill` is ignored; a script may be interrupted between any two commands, with or
  without its clean-up.
- Correct when: every server that runs can be found by the next clean-up of its port,
  unless it was still booting at the last one or the kill has failed.

### Throughput sweep (`scripts/ycsb.py`, `scripts/legacy/redis-server-starter.py`, `scripts/legacy/cmd_manager.py`)

- State: the keys `redis-0-ready`, `test-finish`, those of the barriers and of the
  results in memcached; the Redis server; the workload and client count the
  controller is at.
- Operations: `ycsb.py` starts a server through the starter for every workload, waits
  for its ready key, runs a round of clients for every count with `flush_all` before
  each, and sets `test-finish`. The starter starts its server, reports, polls for
  `test-finish` and kills the server.
- Hard: the keys of one workload are still there when the starter of the next one
  polls for them.
- Correct when: the controller goes on with the server of its workload, the server
  stays up for the rounds of its workload, and nothing of a workload is left when
  the next one begins.

### Smaller parts

- Set-up scripts, downloads, configuration templates, the vendored `json.hpp`.
- Legacy scripts without a counterpart: `legacy/redis-instance-controller.py`.

`PROJECT.json` lists all of them under `components`, and under `hazards` what is
hard to test in each, at its line.

## Modules

| module | models | role |
| --- | --- | --- |
| `Barrier` | what the synchronisation promises | abstract specification |
| `MemcachedSync` | client threads, memcached keys, controller | detailed specification, implements `Barrier` |
| `MemcachedSyncProofs` | | proofs about `MemcachedSync` |
| `DMCSentinel` | worker threads, main threads, controller, servers | fail-over experiment |
| `DMCSentinelProofs` | | proofs about `DMCSentinel` |
| `TransLoop` | transaction loop, samples, merge | measurement of one process |
| `TransLoopProofs` | | proofs about `TransLoop` |
| `LoadAndTrans` | `MemcachedSync` with two barriers, the shares of the file, the load loop of `redis_perf` | end-to-end experiment, composition |
| `DMCCluster` | `MemcachedSync` with one barrier, worker and main threads in dmc_cluster mode, the scale messages | elasticity experiment, composition |
| `DMCClusterProofs` | | proofs about `DMCCluster` |
| `RedisCluster` | slots and members of a Redis cluster, the `redis-cli` commands (external) | used by `HorizontalScale` and `ScaleScripts` |
| `HorizontalScale` | `redis-cluster-scale-horizontal.py` | script against a cluster |
| `ScaleScripts` | `redis-cluster-scale-vertical.py`, `legacy/scale-vertical.py`, `legacy/scale-horizontal.py`, `legacy/redis-cluster-node-starter.py`, clients | scripts against a cluster under load, implements `Barrier` |
| `RedisClusterProofs` | | proofs about `HorizontalScale` and `ScaleScripts` |
| `RedisServers` | `redis-instance-starter.py` and the server commands of `redis-sentinel.py`, directories, pid files, booting servers | what the scripts promise about servers |
| `RedisSentinel` | `RedisServers` with memcached, clients and Sentinel (external) | redis-sentinel experiment, composition, implements `RedisServers` |
| `RedisSentinelProofs` | | proofs about `RedisServers` and `RedisSentinel` |
| `YcsbSweep` | `ycsb.py`, the server starter, its clients (external) | throughput sweep |
| `YcsbProofs` | | proofs about `LoadAndTrans` and `YcsbSweep` |
| `SumTheorems` | | sums over finite sets and modulo a word, used by the proofs |
| `MC...` | | values of the constants for TLC |

The modules follow the code's names. `YcsbSweep` and `HorizontalScale` call their
specifications `SweepSpec` and `HorizontalSpec`, and their types `SweepTypeOK` and
`HorizontalTypeOK`, so that one module of proofs can extend them together with
`LoadAndTrans` and `ScaleScripts`, whose constants and operators they share. A definition whose comment begins with "Bug
variant" is not part of any specification: it is the mutated form of the definition
after it, which `PROJECT.json` uses to show that a property would notice the bug.

### MemcachedSync

A thread is `off` before its process is launched, `outside` a barrier while it
prepares, loads or runs transactions, `inside` while it polls, and `done` at the
end. `Publish` is `memcached_publish` of the ready key and `Poll` the iteration of
the polling loop that finds the go key; iterations that find nothing change nothing.
`PublishFails` is the `assert(0)` of `memcached_publish`, which ends the process of
the thread (`aborted`), whether or not memcached has stored the key. `Flush`,
`Collect`, `Notify` are the statements of the controller; `FlushLost` and `NotifyLost`
are a `flush_all` and an `mc.set` that do not reach memcached, which it ignores. A lost
flush that leaves keys behind sets the history variable `stale`. Nothing protects the
threads from such keys, so what holds of the barriers holds while `stale` is `FALSE`. Both programs ask only whether a key exists, so
memcached is two sets of keys, `ready` and `go`. It starts with what an earlier
experiment may have left there (`LeftByEarlierRun`): a go key of a barrier implies
the ready keys of all clients for it, and a ready key implies the go key before it.

`Barrier` has two counters per thread, the barriers entered and the barriers left.
The refinement maps them to `Entered(c)` (`num_sync_`, plus one inside) and
`num_sync`; `Publish` is `Enter`, `Poll` is `Leave`, everything else stutters.

### DMCSentinel

An operation of a thread goes through the loads of the shared atomics one by one:
`Connect` loads `connect_backup_` and connects to the new backup if it is missing,
`Pick` loads `primary_idx_` and chooses the node (a GET takes any node from the
primary on, since the code takes the microseconds of the clock modulo the number of
nodes), `Serve` is the execution of the request at the server, `Return` the reply.
`Fail` is the `catch` in the adapter, which turns to node 1, and `FailTwice` the
`catch` in `worker()`, which calls the adapter again. A request fails with its
server, before or after it was executed, or by a glitch, which stands for a timeout
or a broken connection. `SetPrimary`, `ConnectBackup`, `Join` are `main()`. `Kill`,
`AnnounceFailure`, `AnnounceBackup` are the controller. Its timers are not modelled:
the three steps may come at any moment, which includes the orders the timers make
likely and those they make unlikely. `StartBackup` is the operator, who may start
the new backup before or after it is announced, or never. The kill may do nothing
(`KillMayFail`) and an announcement may not reach memcached (`MessageLoss`): the
controller notices neither.

### TransLoop

`Op` is one iteration of the loop with all retries its errors cause: it takes a
latency and a gap of the clock, counts the operation and pushes a sample when
`Due`. `Due` keeps the widths of the code: the left side of the comparison is a
`uint64_t`, which is huge when the clock is behind the start, the right side a
32-bit product (`% ClockWord`). `Merge` adds the samples of all threads up, as many
as thread 0 has. The width of the throughput counters is `Word`.

### LoadAndTrans

The module instantiates `MemcachedSync` with two barriers on its own variables and
adds the load phase: `Launch` also reads the shares, `Ready` publishes the second
ready key only when the thread has nothing left to load, `Load` and `LoadFails` are
the iterations of the load loop between the barriers. `store` is the set of lines
whose keys are in Redis. The transactions of `redis_perf` are the subject of
`DMCSentinel` and `TransLoop`; here they are the time between the last barrier and
`Return`.

### DMCCluster

The module instantiates `MemcachedSync` with one barrier and adds to its actions
what happens around them: `Launch` sets the initial number of servers, `Flush` also
removes the scale messages, or is lost with them. `Pick` loads `num_alive_servers_` and
counts the request (`fetch_add`), `SendRequest` sends it, so that `ScaleOut` and `ScaleIn`
of the main thread can come in between, as can a failure: the request is counted and
nobody receives it (`Sending` are those on their way). Which server a SET takes depends on a CRC over all keys the
adapter has seen; the model takes any server in range. `Miss` is the SET that follows
a GET without a value (ycsbd and Twitter workloads). `Fail` covers errors before and
after the server has received the request.

### RedisCluster, HorizontalScale, ScaleScripts

`RedisCluster` has an operator per `redis-cli` command. As the scripts ignore the
results, a failing command is one that does less: `Reshard` moves fewer slots,
`AddNode` adds nothing, `DelNode` refuses a master that owns slots, and `EvenSplits`
are the ways a new cluster may share out its slots. `port_slots` is the account the
scripts keep and `get_port_slot_map` how they read it. In `HorizontalScale` an action is
an iteration of one of the script's loops.

The scripts of `ScaleScripts` have no branches, so each of them is a sequence of
commands that stands beside the others, and there is one action per kind of command:
`pc` is the next command of `script`. `Collect` and `Notify` are the two halves of a
barrier. The starter of the legacy scripts is a second process, and the client threads
go through the phases of `redis_perf`: started, at the first barrier, loading, at the
second, transactions. Nothing else changes the cluster, so the timers of the scripts do
not matter. The loops over keys are those of `MemcachedSync`, so the same abstract
specification applies: `Entered(c)` and `HasLeft(c)` read the two counters of
`Barrier` off the phase of a client. `fits` says whether the `redis_perf` of the client
node takes its arguments. For `redis-cluster-scale-vertical.py`, whose clients the operator
starts, it does. The legacy scripts give it five (`legacy/scale-vertical.py:119-123`,
`legacy/scale-horizontal.py:117-120`) and the program of this repository wants ten
(`redis_perf.cc:116-122`): then `LaunchClients` starts nobody. The model keeps both cases,
since the scripts may be run with the program they were written for.

### RedisServers, RedisSentinel

A server is named by the run that has started it and its port, `<<run, port>>`; its
`proc` is "none", "booting" or "up". `dir` says which run has made the directory of a
port and `pidfile` which directories hold a pid. `Boot` is the daemon: it takes its
port, or gives up if somebody has it, and writes its pid into the directory it was
started in, if that is still there. `Kill` is the `sudo kill` of the servers whose pids are
`Found`; it may fail for any of them (`KillFails`). `missed` records the servers a script
could not end: those whose directory was removed while they booted, since nobody can find
them any more, and those that survived a kill. Programs are sequences
of commands as in `ScaleScripts`. `SIGINT_handler` and `Killed` are the two ways a
script may be stopped before it has ended, `NextRun` starts any of the four programs
again. A script that has come to its end waits for SIGINT; the last run is not
interrupted, so that something can be said about how it ends. `MaxRuns` bounds the
runs.

`RedisSentinel` conjoins to each of these actions what it does to memcached, Sentinel
and the clients. `master`, `known` and `follows` are Sentinel's view and the
replication, which are external: Sentinel learns of a replica from a master that
serves (`Discover`), and promotes one it knows when the master does not serve
(`Failover`). `get` and `set` say when the adapter's call can return: the name "slave"
of the adapter's second node is not one that Sentinel monitors
(`redis-sentinel.conf.templ`), so half of the GETs depend on the retry at the master.

### YcsbSweep

Three actors share the keys of memcached: the controller, the starter, and the
clients of a round, which stand for all clients of the round (their barriers are
the subject of `MemcachedSync`). `cmd_manager.execute_on_node` starts an actor,
`join` waits for it.

## Runs

| run | configuration | checks |
| --- | --- | --- |
| `sync_barriers` | 2 processes of 2 threads, 2 barriers, any leftovers, failing requests | `TypeOK`, `Lockstep`, `ImplementsBarrier`, `BarriersComplete` |
| `load_and_trans` | 3 processes of 2 threads, 8 lines, 1 failing SET, failing requests after the flush | `TypeOK`, `TransAfterLoad`, `LoadCompletes` |
| `sentinel_failover` | 2 processes of 1 thread, 1 operation each, 2 glitches, kill and messages may fail | `TypeOK`, `NodesMatchConfig`, `NoSplitBrain`, `NewBackupAfterFailover`, `AccessVectorExact`, `OperationsComplete` |
| `redis_sentinel` | 3 servers, 2 scripts one after the other, 2 clients, failing kills | `SentinelTypeOK`, `ServersAccounted`, `PrimaryKilled`, `FailoverCompletes` |
| `sentinel_new_backup` | 1 script, 1 client, failing kills | `Rereplicated` (refuted) |
| `cluster_elasticity` | 2 processes of 1 thread, 1 operation each, 1 to 2 servers, 1 failing request, failing memcached requests after the flush | `TypeOK`, `ServersInRange`, `FollowsScript`, `ScaleAfterBarrier`, `AccessVectorCovers`, `ScalingCompletes` |
| `loop_stalls` | 2 threads, 4 ticks, operations of up to 3 ticks, counters modulo 5 | `TypeOK`, `OnTime`, `InStep`, `SamplesAddUp`, `ReportAddsUp` |
| `loop_long_run` | 5 ticks, the last product wraps | `OnTime` (refuted) |
| `horizontal_scaling` | 3 pairs of masters, 16 slots, failing add-node and scale-out | `HorizontalTypeOK`, `PairsAccounted`, `PartnerCovered`, `PartnersEmptied` |
| `scale_under_load` | the three gathering scripts, 16 slots, 3 clients, any leftovers, failing add-node and gathering, legacy clients that fit or not | `TypeOK`, `MovedOut`, `ClientsInPhase`, `ServersUp`, `ExperimentEnds` |
| `sweep_workloads` | 4 workloads of 3 rounds, any leftovers | `SweepTypeOK`, `ServerIsNew`, `WorkloadsApart` |
| `sweep_stale_finish` | 2 workloads of 1 round | `ServerOutlivesWorkload` (refuted) |

What the bounds leave in:

- **Synchronisation.** Two barriers are what the code has, and what lets one thread
  be a barrier ahead of another. With processes of two threads a process can be
  aborted by one of its threads while the other one is inside a barrier or past it,
  and the threads of the other process see what it leaves. `LeftByEarlierRun` gives every
  initial memcached an interrupted or completed run can leave, and the flush may be lost.
  `load_and_trans` and `cluster_elasticity` drop the states in which it was lost with keys
  there (`CONSTRAINT Flushed`): they multiply the states of these larger models, and the
  properties about the order of an experiment say nothing of them. Those that do not
  depend on the flush (`TypeOK`, `ServersInRange`, `AccessVectorCovers`) are proved without
  the constraint.
- **Load.** Eight lines and six clients give shares of different sizes (two lines
  for two of the clients, one for the others), so that threads are ready at
  different times, and one SET may be repeated.
- **Fail-over.** An operation that fails at both nodes is called again by `worker()`, so
  with two glitches and the death of the primary the one operation of a thread consists
  of up to four calls of the adapter. It can begin before the failure and end after the
  new backup is connected, with the adapter changed in between. With two processes one
  can be at the backup while the other one does not know of the failure, and one may
  finish while the other one is in its fallback. Three IPs are what
  `dmc_cluster_config.json` lists for this mode. The proofs have any number of
  processes, threads, operations and glitches; with one thread per process they are what
  covers threads that share the atomics.
- **redis-sentinel and servers.** A first script leaves behind whatever it likes, ended
  at any point in either way, and the second one meets it; a third one would meet the
  same. Two clients let one pass a barrier before the other. A kill may fail at any
  clean-up. Three servers are what
  the modes of `redis-instance-starter.py` need at least, and they share ports with the
  four of `redis-sentinel.py`.
- **Elasticity of dmc_cluster.** One operation of a thread is enough for the number
  of servers to change under it in both directions, and with the retry of a failing
  request and the SET after a missing GET it consists of up to four requests. Two
  processes can be at different steps of the script. One server grows to two; the
  proofs cover any numbers.
- **Sampling.** The tick, the latencies and the 32-bit word are scaled down
  together: what matters is whether a latency exceeds a tick, and whether the
  product of the last tick wraps. In `loop_stalls` the last product is 6 with a clock word
  of 7, and the throughput counters have a word of 5, so that the cumulative numbers of
  a thread and of both together wrap and the differences must still be right; in `loop_long_run` it is 12. Latencies of half a tick and of two and a half,
  each with or without a gap, leave threads in step, on the border (gap and latency
  fill the tick) and several ticks behind.
- **Elasticity of a Redis cluster.** 16 slots over three masters give shares of five
  and six, so odd and even halves; a cluster has at least three masters. The proofs
  have any number of slots and pairs. In `scale_under_load` three clients let a barrier be
  passed by some, and every initial memcached has a subset of the keys of an earlier
  run. An add-node may fail: its master never joins and takes no slots, so `MovedOut`
  asks for the masters that were added to have joined. `InFails` and `MoveFails` are
  `FALSE`: with a failing last reshard the slots stay where they are and nothing is claimed.
- **Sweep.** Three rounds tell the first, a middle and the last round of a workload
  apart; four workloads are what `workload_list` has. The controller is a loop, so
  more of either adds no behaviour.

Deadlock is checked in `loop_*`, where the end of a thread is a step of its own. In the
other runs the system may stop: `sync_barriers`, `load_and_trans` and
`cluster_elasticity` where a process has aborted or a notification is lost,
`sentinel_failover` where an announcement is lost, since somebody then polls forever;
`redis_sentinel` where clients wait for a master that a stopped script has left dead, or
for a fail-over without a replica; `sweep_*` when the clients wait for a server that has
been killed too early (finding 3). `horizontal_scaling`, `scale_under_load` and
`sentinel_new_backup` end when their scripts have. Wherever the program is meant to end,
a liveness property says so and names the states in which it need not. In `scale_under_load`
the legacy scripts also stop, polling, when their clients do not fit.

In `MemcachedSync`, `LoadAndTrans` and `DMCCluster` the assumption `OrderedStart`
stands for the order the repository's README asks for: the controller is started
first, so its `flush_all` precedes the clients. With `OrderedStart = FALSE` TLC finds the flush that deletes ready keys
after they were published, and threads that run ahead on the go keys of an earlier
experiment (`Lockstep` is refuted within a few states).

Every property of a passing run has a mutant in `PROJECT.json`, an alternative for
one definition of the model, such as a counter that is not incremented or two
statements swapped, under which TLC refutes the property.

## Fairness

Safety is checked without fairness, or under the same specification where a run
checks both. `FairSpec` of each module assumes:

- *MemcachedSync*, *LoadAndTrans*, *DMCCluster*: the node scripts launch every
  process; each thread, the main threads and the controller are scheduled; the work
  of a thread outside a barrier ends (it is bounded by the number of records or by
  the execution time). A thread of an aborted process, or one whose notification is
  lost, polls forever, so `BarriersComplete`, `LoadCompletes` and `ScalingCompletes` are
  claimed for the behaviours in which no request to memcached fails: `NothingLost` says so
  of each state, by what a failure would have left. `MaxErrors` bounds the requests to Redis that fail; with
  unboundedly many the retry loops need not end.
- *DMCSentinel*: worker threads, main threads and the controller are scheduled. The
  polls are guards: an iteration that finds nothing changes nothing, and once a
  message is set it stays, so weak fairness is enough. The operator is under no
  fairness. A request does not stay unanswered forever: a server that is up answers
  (`Serve`, `Return` are part of `Work`), and redis++ reports a dead one by an
  exception. `MaxGlitches` bounds the requests that fail on live servers; with
  unboundedly many the retry loop need not end. `OperationsComplete` is claimed for the
  behaviours in which no announcement is lost (`NothingLost`), whether or not the kill
  works.
- *ScaleScripts*: the script, the node starter and each client are scheduled, and the
  operator starts the clients (the README of the repository asks for it). What they
  poll for stays once it is there. `ExperimentEnds` says that the experiment ends if the
  client program fits; if it does not, the script stays at its first `Collect`, the starter
  polls for `test-finish` and the instances stay up, forever.
- *RedisSentinel*: the script, the servers that boot, Sentinel and the clients go on.
  Weak fairness of each group as a whole is enough, since the steps of a group are
  finitely many and stay possible. Interrupts and the next script are under no
  fairness. `FailoverCompletes` excludes a run that is stopped, one in which a clean-up or a
  kill, its own or an earlier one, has left a server alive, and a Sentinel that has heard of no replica when
  the primary dies: the script gives it the time of a load phase for that, which no
  step of the code guarantees.
- The other modules have no liveness property. `YcsbSweep` has none that holds
  (finding 3).

## Proofs

TLAPS checks all of these for every value of the constants that meets the named
assumptions. Every invariant that a passing run checks is stated by a theorem,
and so is the refinement of `Barrier`.

**`SumTheorems`**. The accounts of slots, accesses and samples are sums that the community
modules define by a fold, that is, by a function over the subsets of a set. What such a
sum is takes an induction over finite sets, and the library states induction for a
predicate, which the provers cannot instantiate. Its theorem on minimal elements
(`WFMin`) is stated for a set, so `SetInduction` and `SubsetInduction` use the set of all
numbers, or subsets, with the property instead. `SumIsSize` shows that a sum of natural
numbers is the size of a set of units, one column for each element. From it
follow the rest: a sum changes by what one addend does (`SumChange`), is taken apart
(`SumSplit`, `SumWhole`, `SumPair`), compared (`SumMonotonic`), exchanged with another sum
(`SumSwap`) and reduced modulo a word before or after it is taken (`SumMod`).

**`MemcachedSyncProofs`**, any number of threads, processes and barriers, with or
without failing requests.
`TypeInvariant` holds in whatever order the programs start. `LockstepHolds` and
`BarrierRefinement` assume `OrderedStart`. `Lockstep` is not inductive: a poll
is harmless only because the key it finds is true, and the key is true only because
the controller has seen every client, which it has done by keys that are true as
well. The inductive invariant `IInv` says so: it adds `KeysAreTrue` (after the flush
a ready key stands for an entered barrier, the loop index for clients that have
been seen, a go key for a barrier everybody has entered; all of it unless `stale`, which
never turns `FALSE` again), `NobodyBeforeFlush` (before
the flush nobody is launched, so the flush deletes nothing of this experiment) and
`RoundsBounded` (which the types of the counters rest on). `PublishKeeps` is the one
argument that `Publish` and `PublishFails` share. The refinement uses
`KeysAreTrue` again: it is the guard of `Leave`. `ImplementsBarrier` lets a step do
anything once keys have survived a lost flush, and nothing else.

**`YcsbProofs`, `LoadAndTrans`**, any number of clients, processes, lines and failing SETs.
Every step is a step of `MemcachedSync` or leaves its variables alone
(`SyncRefinement`), so the theorems of `MemcachedSyncProofs`, instantiated, hold of
the composition (`SyncInvariant`). `LoadedBeforeTrans` is `TransAfterLoad`. Its
invariant is `SharesLoaded`: what a thread has read and does not have to load any
more is in Redis, and that is all of it once the thread is at the second barrier. By
`Lockstep` a thread past the second barrier finds all threads there, and by
`SharesCover` the shares of all threads are the file: `cnt % n + 1` is the id of a
client. `TypeInvariant` joins the types of the barrier, of the load and the bound on the
SETs that fail.

**`DMCClusterProofs`**, any number of clients, processes, servers, operations and
errors. The barrier is carried over in the same way. `MainFollowsScript` has the
invariant `ScaleInv`: after the flush a scale message in memcached is one the
controller of this experiment has sent, and it sends them after the barrier;
`NoEarlyScale` adds the invariant of the barrier. `IndicesInRange` has the
invariant `LaunchedFirst`: a thread has an operation only if it was launched, and
its process then has the initial or the scaled number of servers, neither of which
is zero or exceeds the connections of the adapter. `TypeInvariant` is the types, with
`CountsInv` for the counters. `AccessCovered` is `AccessVectorCovers`, which is inductive
with those types: the step that counts a request makes it one of `Sending`, receiving it or
failing takes it out (`SendingChanges`), and the sum over the processes grows with the
process that counts (`CoversStep`).

**`DMCSentinelProofs`**, any number of processes, threads, operations, glitches.
`TypeInvariant` and `BackupAfterFailover` come from the invariant `NodesInv`, whose
core is `BackupAfterPrimary`: `main` sets `connect_backup_` only after
`primary_idx_`, and an adapter has more than its initial nodes only if it has seen
`connect_backup_`. `NodesMatch` assumes `NumTotal <= 3`, since every node after the
initial ones is `dmc_node_ips_[2]` in the code; with four IPs it is false.
`SplitBrainFree` needs no assumption: `NoSplitBrain` itself names the two ways to a
second writer, a request that has failed on a live server and a kill that has not worked.
Its invariant is `NobodyMovedEarly`: as long as the primary is up, the controller has not
tried to kill it and no request has failed (`Early`), no message is set, no `main` has
moved, no thread is in its fallback and every SET is for node 0. `AccessCounted` is
`AccessVectorExact`. Its invariant `ExactInv` is a balance of each process: the entries
of the access vector add up to the GETs that have completed and those that wait in the
fallback, which has counted them already, and to more only after a glitch. Node 1 stays
up, which is why no other failure makes the fallback count twice.

**`TransLoopProofs`**, any number of threads, ticks and any finite set of latencies. `NeverEarly`
assumes `NoWrap` (the product of the last tick fits) and `Monotonic` (the clock is
not set back); with them a sample is pushed only when the time exceeds its tick, and
time does not go back. `SamplesInStep` is about the threads whose latency maps show no operation longer
than a tick; its invariant is `NeverLate`: an operation within a tick cannot pass two
ticks at once, and by `StallsShow` a longer one stays visible in the maps.
`SamplesExact` needs neither assumption: `SamplesAddUp` holds with every clock and after
every wrap. Its invariant adds to it that the current map holds what was
counted since the last sample, modulo the word of the counters (`Accounted`), and that
a thread has as many samples as its tick says (`Sampling`). The latter is why `Merge`
finds a sample of each thread at every index. `ReportExact` first shows that the report is
the merge of the samples of threads that have all returned (`Reported`), which they do not
change any more; then the sum over the threads of the sums of their maps, each of
which is exact modulo the word, is exchanged with the sums over the latencies
(`MapsMerged`, `AllAddUp`). `TypeCorrect` types the report by the same facts.

**`RedisClusterProofs`, `HorizontalScale`**, any number of pairs and slots, with any of the commands
failing. The invariant `PairsInv` has `LoopsSoFar` (which pairs each loop has treated),
`PairsBounded` (a pair never has more than all slots) and `OwnersAreMembers` (who
was not added owns nothing, so a reshard to it moves nothing). `AccountExact` is
`PairsAccounted`: a reshard moves slots within a pair and the account is moved within
the pair as well. `ScaleInUndoes` is `PartnersEmptied`: the account of a partner is at
least what it owns (`PartnersCovered`), so the scale-in asks for everything.

**`RedisClusterProofs`, `ScaleScripts`**, any number of slots and clients, any keys of an
earlier run. A script has no branches, so its invariants are about where it is. `Timeline`
lists the places of the commands of each script: counted from the creation of the cluster
(`Creation`) and from the first collected barrier (`Meeting`) they are the same in all
three. `MastersLeftEmpty` is `MovedOut`, for scripts whose add-nodes have worked (`Joined`). Its invariant `ClusterInv` says which masters are
members at which place, that no command creates slots (their sum is at most `NumSlots`),
and what the moves have left so far: the new master is empty until they begin, so the
second move, if it does not fail, takes away all that the first one has brought. In the
vertical scripts both ask for all slots there are; the legacy horizontal one asks for half
of them and then for the same half back. `BarriersHold` is `ClientsInPhase`,
`BarriersImplemented` the refinement of `Barrier`. Both rest on `KeysInv`: after the flush a ready key tells how far
its client is (`KeysOf`) and a go key how far the script is (`Notified`), and no client is
there before the flush, since each script launches them later, or, in
`redis-cluster-scale-vertical.py`, the operator does once the cluster exists. `InstancesUp`
is `ServersUp`, with `StarterInv`: after the flush `redis-0-ready` is a report of the
starter of this run, and `test-finish` is there only when the script has joined its
clients. `ScriptsTypeCorrect` puts the types of the three together. Of the ports
they assume that there are finitely many (`RedisAssumption`), among them those the
scripts name (`ScaleAssumption`).

**`YcsbProofs`, `YcsbSweep`**, any number of workloads and client counts. `ServerNew` rests on
`ReadyIsNew`: from the launch of a starter to its report there is no ready key, and none
from the first round of a workload on. At the first workload the `flush_all` at the start
of `ycsb.py` has removed it, later the ones before the rounds have. `Apart` rests on
`Idle` and `ServerStopped`: what the controller joins has ended, and the starter has
stopped its server before it ends.

**`RedisSentinelProofs`**, any number of scripts, interrupted or not, and of clients.
`Accounted` is proved of `RedisServers` with the types: a kill ends what it finds, or
what it leaves is `missed` (`Killing`); its invariant adds that the
servers of runs to come do not exist and that a directory is from a run so far.
`Implements` shows that every step of the experiment is a step of `RedisServers` or leaves
its variables alone, so `Accounted` holds of the experiment. `SentinelTyped` needs
that no server follows itself, otherwise a master could be among its own replicas.
`FailureIsReal` is `PrimaryKilled`. `kill_servers` passes over a server without a pid
file, and nothing in the script waits for one. That the primary has booted follows from
the load: the script kills after the second barrier, a client enters that barrier only
after SETs that the master Sentinel reports has answered, and Sentinel reports another
master than the primary only if it has talked to the primary before (`RunInv`,
`PrimarySeen`). In the end the pid file is there by `Accounted`, and only a failing
`sudo kill`, which makes the primary `missed`, can leave it alive. `BackupForgotten` is about finding 2: in
every experiment that has missed no server the new backup is unknown to Sentinel for good
(`BackupOrphaned`). It is not there before the kill (`OrphanInv`), and afterwards its
configuration names a server nobody runs, so the counterexample to `Rereplicated` does
not depend on the timing. No run checks `BackupOrphaned`, as the run of the finding shows the
consequence.

Assumptions on constants that theorems rest on are those of the modules, which TLC
evaluates, and the ones named above: `OrderedStart`, `NumTotal <= 3`, `NoWrap`,
`Monotonic`. Without them the properties are false, as said at each.

Only model-checked: the liveness properties (`BarriersComplete`, `LoadCompletes`,
`ScalingCompletes`, `OperationsComplete`, `FailoverCompletes`, `ExperimentEnds`, and
`Rereplicated`, which is refuted), as the prover has no support for liveness under
fairness and for ENABLED. `OnTime` without `NoWrap` and `ServerOutlivesWorkload` are
refuted by their runs.

## Findings

1. `cur_tick * TICK_US` (`redis_perf.cc:101`) is a product of 32 bits. With a tick of
   500 ms it wraps at tick 8590, that is 4295 s into a run. From then on the right
   side is small, every operation takes a sample, and the thread returns long before
   its execution time is over. Run `loop_long_run`.
2. `redis-sentinel.py` configures the new backup as `slaveof` the primary at 7001 (`:55`),
   which it kills (`:88`) before it starts the new backup (`:93`). Under the comment
   "rereplicate backup" (`:90`) it thus starts a server that follows a dead one. Sentinel
   learns of replicas from the master, so it never hears of this one and nothing
   turns it to the new master: the experiment goes on without a backup. Run
   `sentinel_new_backup`.
3. `test-finish` stays in memcached from the end of a workload (`ycsb.py:127`) until
   the first round of the next one flushes it (`ycsb.py:49`), which comes after the
   new server has reported ready. The starter of the next workload polls for the key
   in between and may kill the server it has just started. Run `sweep_stale_finish`.

`kill_servers` (`scripts/redis_utils.py:118`) may return without having killed
anything, and `ycsb_dmc_sentinel.py` announces the failure all the same: all processes
then move to the backup while the primary is up. `NoSplitBrain` names this case instead
of excluding it (`KillFailed`). In the redis-sentinel experiment only a failing `sudo
kill` can cause it (`PrimaryKilled`).

The legacy scaling scripts do not go with the `redis_perf` beside them: it takes ten
arguments and exits otherwise (`redis_perf.cc:116-122`), they give it five
(`legacy/scale-vertical.py:119-123`, `legacy/scale-horizontal.py:117-120`). No client
publishes `client-1-ready-0`, and the script and its node starter poll for ever. No
document of the repository says that the two go together, so this is not a finding with a
run of its own; the second half of `ExperimentEnds` states it.

## What is not modelled

- The contents of keys and values, latency histograms beyond the counts per
  latency, the JSON files, logging.
- The timers of the controllers (any order they could cause is allowed) and the
  waiting times between two polls.
- Redis++, the DMC servers, memcached: only their answers as the code sees them.
- Requests to memcached that fail, a lost `flush_all` among them, in `RedisSentinel`,
  `ScaleScripts` and `YcsbSweep`, and in `DMCSentinel` beyond lost announcements: what they
  do to a barrier is the subject of `MemcachedSync`.
- Memory errors: the models keep indices and sizes and state that they match.
- Which file a program opens (`load_workload_ycsb_trans` in `workload.h` takes
  `%s.load`), as the contents of the files play no part.
- Eviction: Redis keeps what it was sent; transactions only add keys.
- Processes with different numbers of threads. `cid = sid * num_threads + i + 1`
  gives two threads the same id then; the models assume equal processes.
- `legacy/redis-instance-controller.py`: it waits for a key `cluster-change` that nothing
  in the repository sets, so it has no behaviour beyond its start.
- Two scripts at the same time on one node, and pids that the system gives to another
  process after a crash: the scripts are meant for an otherwise idle node.
- The time that is left after a reshard in `legacy/scale-vertical.py:159`: if the
  reshard takes longer than planned, `time.sleep` gets a negative number and the script
  ends with an exception. The models have no time.
- The single sample of `redis_load_ycsb`: it records the whole load at its end.
- The values that asynchronous replication loses at a fail-over.
- The components marked `not_modelled` in `PROJECT.json`, for the reasons given
  there.

## Plan

Done: `Barrier`, `MemcachedSync`, `DMCSentinel`, `TransLoop`, `LoadAndTrans`,
`DMCCluster`, `HorizontalScale`, `ScaleScripts`, `RedisServers`, `RedisSentinel`,
`YcsbSweep`, with the proofs above. What is left, in this order:

1. `RedisPerfRecovery`: `LoadAndTrans` and `DMCSentinel` in one specification with one
   controller (barriers, then kill and announcements) and one memcached. Properties:
   the primary is not killed before all threads have passed the second barrier, a
   message of an earlier experiment moves nobody to the backup. Proof: refinement of
   both parts, so that their theorems hold of the whole.
2. The single sample of `redis_load_ycsb`.
