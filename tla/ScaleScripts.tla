------------------------------ MODULE ScaleScripts ------------------------------
(***************************************************************************)
(* The elasticity experiments that gather a Redis cluster on one master    *)
(* and then move its slots while clients run: the current script           *)
(* redis-cluster-scale-vertical.py and its two predecessors,               *)
(* legacy/scale-vertical.py and legacy/scale-horizontal.py.                *)
(*                                                                         *)
(* A script has no branch and ignores the results of its commands, so it   *)
(* is a sequence of commands here, with one action for each kind of them.  *)
(* Timers are left out: nothing in the scripts relies on them.             *)
(*                                                                         *)
(* The current script starts the instances itself and an operator starts   *)
(* the clients; the legacy scripts start both on other nodes, and          *)
(* legacy/redis-cluster-node-starter.py keeps the instances until it finds *)
(* test-finish in memcached.  The legacy scripts give redis_perf five      *)
(* arguments: the program of this repository takes ten and exits, the one  *)
(* they were written for is external.  A client thread is seen as in       *)
(* MemcachedSync, without errors of memcached.                             *)
(***************************************************************************)
EXTENDS RedisCluster, Sequences

CONSTANTS NumClients,   \* num_redis_clients, num_clients
          JoinFails,    \* an add-node may fail
          GatherFails,  \* a reshard before the barriers may move too few slots
          MoveFails     \* a reshard after them may move too few slots

ASSUME ScaleAssumption ==
  /\ NumClients \in Nat \ {0}
  /\ 7000..7004 \subseteq Ports
  /\ {JoinFails, GatherFails, MoveFails} \subseteq BOOLEAN

Clients == 1..NumClients
initial_ports == {7000, 7001, 7002}
scale_port == 7003
shrink_port == 7004
------------------------------------------------------------------------------
(* The scripts.                                                            *)

Do(what, arg) == [do |-> what, arg |-> arg]
Move(from, to, n) == Do("move", [from |-> from, to |-> to, n |-> n])

\* All slots go to 7000, and the other masters leave the cluster.
Gathering ==
  <<Do("create", initial_ports), Do("measure", initial_ports),
    Do("gather", 7001), Do("gather", 7002), Do("remove", 7001), Do("remove", 7002)>>

\* The two barriers with the clients.
Barriers == <<Do("collect", 0), Do("notify", 0), Do("collect", 1), Do("notify", 1)>>

redis_cluster_scale_vertical ==
  <<Do("flush", {}), Do("startServers", {})>>
  \o Gathering
  \o <<Do("add", scale_port), Do("add", shrink_port)>>
  \o Barriers
  \o <<Move(7000, scale_port, NumSlots), Move(scale_port, shrink_port, NumSlots)>>

scale_vertical ==
  <<Do("flush", {}), Do("launchStarter", {}), Do("awaitServers", {})>>
  \o Gathering
  \o <<Do("add", scale_port), Do("add", shrink_port), Do("launchClients", {})>>
  \o Barriers
  \o <<Move(7000, scale_port, NumSlots), Move(scale_port, shrink_port, NumSlots),
       Do("join", {}), Do("finish", {})>>

scale_horizontal ==
  <<Do("flush", {}), Do("launchStarter", {}), Do("awaitServers", {})>>
  \o Gathering
  \o <<Do("add", scale_port), Do("launchClients", {})>>
  \o Barriers
  \o <<Move(7000, scale_port, NumSlots \div 2), Move(scale_port, 7000, NumSlots \div 2),
       Do("join", {}), Do("finish", {})>>

Scripts == {"redis-cluster-scale-vertical", "scale-vertical", "scale-horizontal"}

Commands ==
  [s \in Scripts |->
     CASE s = "redis-cluster-scale-vertical" -> redis_cluster_scale_vertical
       [] s = "scale-vertical" -> scale_vertical
       [] s = "scale-horizontal" -> scale_horizontal]

VARIABLES
  script,      \* the script that is run
  fits,        \* the redis_perf of the client node takes the arguments it is given
  pc,          \* its next command
  ready,       \* {<<c, k>>} for the keys client-<c>-ready-<k> in memcached
  go,          \* {k} for the keys all-client-ready-<k> in memcached
  flags,       \* the other keys in memcached
  client,      \* where each client thread is
  starter,     \* where the node starter of a legacy script is
  up           \* the Redis instances are up

clusterVars == <<slots, members>>
memcached == <<ready, go, flags>>
scriptVars == <<script, fits, pc, port_slots>>
vars == <<clusterVars, scriptVars, memcached, client, starter, up>>

Flags == {"redis-0-ready", "test-finish"}
Over == pc > Len(Commands[script])
Legacy == script # "redis-cluster-scale-vertical"

TypeOK ==
  /\ ClusterTypeOK
  /\ script \in Scripts /\ fits \in BOOLEAN
  /\ pc \in 1..Len(Commands[script]) + 1
  /\ port_slots \in [initial_ports -> 0..NumSlots]
  /\ ready \subseteq Clients \X {0, 1}
  /\ go \subseteq {0, 1}
  /\ flags \subseteq Flags
  /\ client \in [Clients -> {"off", "started", "ready-0", "load", "ready-1", "trans", "done"}]
  /\ starter \in {"off", "clear", "start", "report", "serving", "stop", "done"}
  /\ up \in BOOLEAN

\* Earlier runs may have left keys in memcached and instances that run.
Init ==
  /\ script \in Scripts
  /\ fits \in BOOLEAN /\ (~Legacy => fits)
  /\ pc = 1
  /\ port_slots = [p \in initial_ports |-> 0]
  /\ slots = [p \in Ports |-> 0] /\ members = {}
  /\ ready \in {{}, Clients \X {0}, Clients \X {0, 1}}
  /\ go \in SUBSET {0, 1}
  /\ flags \in SUBSET Flags
  /\ client = [c \in Clients |-> "off"]
  /\ starter = "off"
  /\ up \in BOOLEAN
------------------------------------------------------------------------------
(* The commands of the scripts.                                            *)

Arg == Commands[script][pc].arg

Run(what) ==
  /\ ~Over /\ Commands[script][pc].do = what
  /\ pc' = pc + 1
  /\ UNCHANGED <<script, fits>>

\* Bug variant: memcached keeps what an earlier run has left.
SkipFlush ==
  /\ Run("flush")
  /\ UNCHANGED <<clusterVars, port_slots, memcached, client, starter, up>>

\* mc.flush_all()
Flush ==
  /\ Run("flush")
  /\ ready' = {} /\ go' = {} /\ flags' = {}
  /\ UNCHANGED <<clusterVars, port_slots, client, starter, up>>

\* cleanup_servers, create_config and start_instances
StartServers ==
  /\ Run("startServers")
  /\ up' = TRUE
  /\ UNCHANGED <<clusterVars, port_slots, memcached, client, starter>>

\* run_redis_cluster_nodes.sh is started on the node of the instances.
LaunchStarter ==
  /\ Run("launchStarter")
  /\ starter' = "clear"
  /\ UNCHANGED <<clusterVars, port_slots, memcached, client, up>>

\* mc.get('redis-0-ready') has found the key.
AwaitServers ==
  /\ "redis-0-ready" \in flags
  /\ Run("awaitServers")
  /\ UNCHANGED <<clusterVars, port_slots, memcached, client, starter, up>>

Create ==
  /\ Run("create")
  /\ members' = Arg
  /\ slots' \in EvenSplits(Arg, 3)
  /\ UNCHANGED <<port_slots, memcached, client, starter, up>>

\* Bug variant: all instances are asked.
MeasureAll ==
  /\ Run("measure")
  /\ get_port_slot_map(Ports)
  /\ UNCHANGED <<clusterVars, memcached, client, starter, up>>

\* The number of slots of each initial master is read.
Measure ==
  /\ Run("measure")
  /\ get_port_slot_map(initial_ports)
  /\ UNCHANGED <<clusterVars, memcached, client, starter, up>>

\* All slots of a master go to 7000.
Gather ==
  /\ Run("gather")
  /\ Reshard(Arg, 7000, port_slots[Arg], GatherFails)
  /\ UNCHANGED <<port_slots, memcached, client, starter, up>>

Remove ==
  /\ Run("remove")
  /\ DelNode(Arg)
  /\ UNCHANGED <<port_slots, memcached, client, starter, up>>

Add ==
  /\ Run("add")
  /\ AddNode(Arg, JoinFails)
  /\ UNCHANGED <<port_slots, memcached, client, starter, up>>

\* redis_perf is started on the node of the clients: it creates its threads, or
\* prints its usage and exits, which the script does not notice.
LaunchClients ==
  /\ Run("launchClients")
  /\ client' = IF fits THEN [c \in Clients |-> "started"] ELSE client
  /\ UNCHANGED <<clusterVars, port_slots, memcached, starter, up>>

\* Bug variant: the loop ends with the first key it finds.
CollectOne ==
  /\ Run("collect")
  /\ \E c \in Clients : <<c, Arg>> \in ready
  /\ UNCHANGED <<clusterVars, port_slots, memcached, client, starter, up>>

\* The loop over client-<i>-ready-<k> has found all of them.
Collect ==
  /\ Run("collect")
  /\ \A c \in Clients : <<c, Arg>> \in ready
  /\ UNCHANGED <<clusterVars, port_slots, memcached, client, starter, up>>

\* Bug variant: the second notification repeats the first.
NotifyFirst ==
  /\ Run("notify")
  /\ go' = go \cup {0}
  /\ UNCHANGED <<clusterVars, port_slots, ready, flags, client, starter, up>>

\* mc.set(f'all-client-ready-<k>', 1)
Notify ==
  /\ Run("notify")
  /\ go' = go \cup {Arg}
  /\ UNCHANGED <<clusterVars, port_slots, ready, flags, client, starter, up>>

\* Bug variant: as many slots as 7000 had in the beginning are moved.
MoveMeasured ==
  /\ Run("move")
  /\ Reshard(Arg.from, Arg.to, port_slots[7000], MoveFails)
  /\ UNCHANGED <<port_slots, memcached, client, starter, up>>

\* A reshard under load asks for a fixed number of slots, wherever they are.
MoveSlots ==
  /\ Run("move")
  /\ Reshard(Arg.from, Arg.to, Arg.n, MoveFails)
  /\ UNCHANGED <<port_slots, memcached, client, starter, up>>

\* c_prom.join() returns.
Join ==
  /\ Run("join")
  /\ \A c \in Clients : client[c] = "done"
  /\ UNCHANGED <<clusterVars, port_slots, memcached, client, starter, up>>

\* mc.set('test-finish', 1)
Finish ==
  /\ Run("finish")
  /\ flags' = flags \cup {"test-finish"}
  /\ UNCHANGED <<clusterVars, port_slots, ready, go, client, starter, up>>

Script ==
  \/ Flush \/ StartServers \/ LaunchStarter \/ AwaitServers
  \/ Create \/ Measure \/ Gather \/ Remove \/ Add
  \/ LaunchClients \/ Collect \/ Notify \/ MoveSlots \/ Join \/ Finish
------------------------------------------------------------------------------
(* legacy/redis-cluster-node-starter.py                                    *)

GoStarter(from, to) == starter = from /\ starter' = to

\* The instances of an earlier run are killed.
ClearOld ==
  /\ GoStarter("clear", "start")
  /\ up' = FALSE
  /\ UNCHANGED <<clusterVars, scriptVars, memcached, client>>

StartNodes ==
  /\ GoStarter("start", "report")
  /\ up' = TRUE
  /\ UNCHANGED <<clusterVars, scriptVars, memcached, client>>

\* mc.set('redis-0-ready', 0)
ReportReady ==
  /\ GoStarter("report", "serving")
  /\ flags' = flags \cup {"redis-0-ready"}
  /\ UNCHANGED <<clusterVars, scriptVars, ready, go, client, up>>

\* mc.get('test-finish') has found the key.
SeeFinish ==
  /\ "test-finish" \in flags
  /\ GoStarter("serving", "stop")
  /\ UNCHANGED <<clusterVars, scriptVars, memcached, client, up>>

\* The instances are killed and their directories removed.
CleanUp ==
  /\ GoStarter("stop", "done")
  /\ up' = FALSE
  /\ UNCHANGED <<clusterVars, scriptVars, memcached, client>>

Starter == ClearOld \/ StartNodes \/ ReportReady \/ SeeFinish \/ CleanUp
------------------------------------------------------------------------------
(* The client threads, and the operator who starts them for the current    *)
(* script once the cluster answers: their adapters connect to it first.    *)

LaunchByHand ==
  /\ ~Legacy /\ members # {}
  /\ \A c \in Clients : client[c] = "off"
  /\ client' = [c \in Clients |-> "started"]
  /\ UNCHANGED <<clusterVars, scriptVars, memcached, starter, up>>

GoClient(c, from, to) == client[c] = from /\ client' = [client EXCEPT ![c] = to]

\* memcached_sync_ready publishes a key; the first call follows the set-up of
\* the thread, the second one its load phase, which needs the instances.
Publish(c) ==
  /\ \/ GoClient(c, "started", "ready-0") /\ ready' = ready \cup {<<c, 0>>}
     \/ up /\ GoClient(c, "load", "ready-1") /\ ready' = ready \cup {<<c, 1>>}
  /\ UNCHANGED <<clusterVars, scriptVars, go, flags, starter, up>>

\* memcached_sync_ready returns.
Pass(c) ==
  /\ \/ 0 \in go /\ GoClient(c, "ready-0", "load")
     \/ 1 \in go /\ GoClient(c, "ready-1", "trans")
  /\ UNCHANGED <<clusterVars, scriptVars, memcached, starter, up>>

\* The execution time is over, before, while or after slots are moved.
Return(c) ==
  /\ up /\ GoClient(c, "trans", "done")
  /\ UNCHANGED <<clusterVars, scriptVars, memcached, starter, up>>

Client(c) == Publish(c) \/ Pass(c) \/ Return(c)
------------------------------------------------------------------------------
Next == Script \/ Starter \/ LaunchByHand \/ \E c \in Clients : Client(c)

Spec == Init /\ [][Next]_vars

\* The processes keep running, and the operator starts the clients.
FairSpec ==
  /\ Spec
  /\ WF_vars(Script) /\ WF_vars(Starter) /\ WF_vars(LaunchByHand)
  /\ \A c \in Clients : WF_vars(Client(c))
------------------------------------------------------------------------------
(* Properties.                                                             *)

Past(what) == \E i \in 1..pc - 1 : Commands[script][i].do = what
Ahead(what) == \E i \in pc..Len(Commands[script]) : Commands[script][i].do = what

\* The masters that the script adds, and moves slots between, have joined.
Joined ==
  /\ scale_port \in members
  /\ script # "scale-horizontal" => shrink_port \in members

\* With nothing but the moves after the barriers to rely on, the master that
\* was added ends empty, and so does 7000 in the scripts that move everything,
\* even if not all slots had been gathered.  They need the masters that were
\* added: the scripts do not look at what add-node returns.
MovedOut ==
  Over /\ ~MoveFails /\ Joined =>
    slots[scale_port] = 0 /\ (script # "scale-horizontal" => slots[7000] = 0)

\* Clients use the cluster only when its masters are settled, and slots move
\* under transactions only, never under the load phase: the barriers hold
\* whatever an earlier run has left in memcached.
ClientsInPhase ==
  \A c \in Clients :
    /\ client[c] \in {"load", "ready-1", "trans", "done"} =>
         ~(Ahead("gather") \/ Ahead("remove") \/ Ahead("add"))
    /\ Past("move") => client[c] \in {"ready-1", "trans", "done"}

\* The instances are up from the first command to the cluster until the last
\* client has returned: the script neither takes the ready key of an earlier
\* starter for that of its own, nor does the starter see a test-finish early.
ServersUp ==
  Past("create") =>
    up \/ (Legacy /\ Over /\ \A c \in Clients : client[c] = "done")

\* The barriers each client has entered and left.
Entered(c) ==
  IF client[c] \in {"off", "started"} THEN 0
  ELSE IF client[c] \in {"ready-0", "load"} THEN 1 ELSE 2

HasLeft(c) ==
  IF client[c] \in {"off", "started", "ready-0"} THEN 0
  ELSE IF client[c] \in {"load", "ready-1"} THEN 1 ELSE 2

Abstract == INSTANCE Barrier
              WITH Rounds <- 2,
                   entered <- [c \in Clients |-> Entered(c)],
                   left <- [c \in Clients |-> HasLeft(c)]

\* The scripts' loops over keys implement the two barriers of module Barrier:
\* no client loads before all are there, nor any transacts before all have loaded.
ImplementsBarrier == Abstract!Spec

\* The experiment ends, and a legacy script leaves no instance behind, if the
\* client program fits.  If it does not, as the redis_perf of this repository
\* does not fit the legacy scripts, nobody ever publishes client-1-ready-0: the
\* script polls for ever, its node starter too, and the instances stay up.
ExperimentEnds ==
  /\ fits => <>(/\ Over
                /\ \A c \in Clients : client[c] = "done"
                /\ Legacy => starter = "done" /\ ~up)
  /\ ~fits => <>[](/\ ~Over /\ Commands[script][pc].do = "collect"
                   /\ starter = "serving" /\ up)
==============================================================================
