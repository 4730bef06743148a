----------------------------- MODULE RedisSentinel -----------------------------
(***************************************************************************)
(* The redis-sentinel experiment: redis-sentinel.py starts a primary, a    *)
(* backup and a Sentinel, kills the primary under load and starts a new    *)
(* backup; client threads use RedisSentinelAdapter, and Sentinel fails     *)
(* over.  The script may come after another one on the node, and it may    *)
(* be interrupted (RedisServers).                                          *)
(*                                                                         *)
(* Sentinel and replication are external: they are configured by           *)
(* redis-sentinel.conf.templ and redis-slave.conf.templ.  A client thread  *)
(* is seen as in MemcachedSync, without errors of memcached.               *)
(***************************************************************************)
EXTENDS RedisServers

CONSTANT NumClients   \* num_redis_clients

ASSUME ClientsAssumption == NumClients \in Nat \ {0}

Clients == 1..NumClients

VARIABLES
  ready,    \* {<<c, k>>} for the keys client-<c>-ready-<k> in memcached
  go,       \* {k} for the keys all-client-ready-<k> in memcached
  client,   \* where each client thread is
  master,   \* the port of the master Sentinel reports
  known,    \* the ports of the replicas it knows
  follows   \* whom each server replicates, 0 for nobody

memcached == <<ready, go>>
sentinelVars == <<master, known, follows>>
allVars == <<vars, memcached, client, sentinelVars>>

SentinelTypeOK ==
  /\ TypeOK
  /\ ready \subseteq Clients \X {0, 1}
  /\ go \subseteq {0, 1}
  /\ client \in [Clients -> {"off", "started", "ready-0", "load", "ready-1", "trans", "done"}]
  /\ master \in Ports
  /\ known \subseteq Ports \ {master}
  /\ follows \in [Ports -> Ports \cup {0}]

\* create_config: slaveof <ip> <primary_port>
Configured == [p \in Ports |-> IF p \in {backup_old_port, backup_new_port}
                                 THEN primary_port ELSE 0]

SentinelInit ==
  /\ Init
  /\ ready = {} /\ go = {}
  /\ client = [c \in Clients |-> "off"]
  /\ master = primary_port /\ known = {} /\ follows = Configured
------------------------------------------------------------------------------
(* The script.                                                             *)

\* The clean-up ends a Sentinel, and what it has learnt.
Configure ==
  /\ Prepare
  /\ IF sentinel_port \in Arg
       THEN master' = primary_port /\ known' = {} /\ follows' = Configured
       ELSE UNCHANGED sentinelVars
  /\ UNCHANGED <<memcached, client>>

ServerCommand ==
  /\ start_instance \/ kill_server \/ Other("create")
  /\ UNCHANGED <<memcached, client, sentinelVars>>

Flush ==
  /\ Other("flush")
  /\ ready' = {} /\ go' = {}
  /\ UNCHANGED <<client, sentinelVars>>

\* The loop over client-<i>-ready-<k> has found all of them.
Collect ==
  /\ Other("collect")
  /\ \A c \in Clients : <<c, Arg>> \in ready
  /\ UNCHANGED <<memcached, client, sentinelVars>>

\* mc.set(f'all-client-ready-<k>', 1)
Notify ==
  /\ Other("notify")
  /\ go' = go \cup {Arg}
  /\ UNCHANGED <<ready, client, sentinelVars>>

Script == Configure \/ ServerCommand \/ Flush \/ Collect \/ Notify

Interrupt ==
  /\ SIGINT_handler \/ Killed
  /\ UNCHANGED <<memcached, client, sentinelVars>>

\* The operator ends the clients of the run before.
Again ==
  /\ NextRun
  /\ client' = [c \in Clients |-> "off"]
  /\ UNCHANGED <<memcached, sentinelVars>>

BootServer(s) == Boot(s) /\ UNCHANGED <<memcached, client, sentinelVars>>
------------------------------------------------------------------------------
(* Sentinel.                                                               *)

SentinelUp == \E r \in Runs : <<r, sentinel_port>> \in Up /\ programs[r] = "redis-sentinel"
Serves(p) == \E r \in Runs : <<r, p>> \in Up /\ programs[r] # "cluster"

\* The master is asked for its replicas.
Discover(p) ==
  /\ SentinelUp /\ Serves(master) /\ Serves(p) /\ follows[p] = master /\ p \notin known
  /\ known' = known \cup {p}
  /\ UNCHANGED <<vars, memcached, client, master, follows>>

\* A replica is promoted; those that are known follow it.
Failover(p) ==
  /\ SentinelUp /\ ~Serves(master) /\ Serves(p) /\ p \in known
  /\ master' = p /\ known' = known \ {p}
  /\ follows' = [q \in Ports |-> CASE q = p -> 0 [] q \in known \ {p} -> p [] OTHER -> follows[q]]
  /\ UNCHANGED <<vars, memcached, client>>
------------------------------------------------------------------------------
(* The client threads.                                                     *)

Launch(c) ==
  /\ program = "redis-sentinel" /\ running /\ Past("flush")
  /\ client[c] = "off"
  /\ client' = [client EXCEPT ![c] = "started"]
  /\ UNCHANGED <<vars, memcached, sentinelVars>>

GoClient(c, from, to) == client[c] = from /\ client' = [client EXCEPT ![c] = to]

\* Bug variant: the address of the primary is kept.
AnswersPrimary(node) == node = "master" /\ SentinelUp /\ Serves(primary_port)

\* A node of the adapter is found through Sentinel, by its name.  Only
\* "master" is monitored, so a request to the node "slave" is an error.
Answers(node) == node = "master" /\ SentinelUp /\ Serves(master)

set == Answers("master")
get == \E node \in {"master", "slave"} : Answers(node) \/ Answers("master")

\* Bug variant: num_sync_ is counted when a barrier is entered and when it is left.
PublishCountedTwice(c) ==
  /\ \/ GoClient(c, "started", "ready-0") /\ ready' = ready \cup {<<c, 0>>}
     \/ set /\ GoClient(c, "load", "ready-1") /\ ready' = ready \cup {<<c, 2>>}
  /\ UNCHANGED <<vars, go, sentinelVars>>

\* Bug variant: the second call precedes the load.
PublishUnloaded(c) ==
  /\ \/ GoClient(c, "started", "ready-0") /\ ready' = ready \cup {<<c, 0>>}
     \/ GoClient(c, "load", "ready-1") /\ ready' = ready \cup {<<c, 1>>}
  /\ UNCHANGED <<vars, go, sentinelVars>>

\* memcached_sync_ready publishes a key; the load comes before the second call.
Publish(c) ==
  /\ \/ GoClient(c, "started", "ready-0") /\ ready' = ready \cup {<<c, 0>>}
     \/ set /\ GoClient(c, "load", "ready-1") /\ ready' = ready \cup {<<c, 1>>}
  /\ UNCHANGED <<vars, go, sentinelVars>>

\* memcached_sync_ready returns.
Pass(c) ==
  /\ \/ 0 \in go /\ GoClient(c, "ready-0", "load")
     \/ 1 \in go /\ GoClient(c, "ready-1", "trans")
  /\ UNCHANGED <<vars, memcached, sentinelVars>>

\* The last request is answered, before or after the failure.
Return(c) ==
  /\ get \/ set
  /\ GoClient(c, "trans", "done")
  /\ UNCHANGED <<vars, memcached, sentinelVars>>

Client(c) == Launch(c) \/ Publish(c) \/ Pass(c) \/ Return(c)
------------------------------------------------------------------------------
SentinelNext ==
  \/ Script \/ Interrupt \/ Again
  \/ \E s \in Servers : BootServer(s)
  \/ \E p \in Ports : Discover(p) \/ Failover(p)
  \/ \E c \in Clients : Client(c)

SentinelSpec == SentinelInit /\ [][SentinelNext]_allVars

\* Scripts, servers, Sentinel and clients go on; nobody has to interrupt them.
\* Each of them has finitely many steps to take.
FairSpec ==
  /\ SentinelSpec
  /\ WF_allVars(Script)
  /\ WF_allVars(\E s \in Servers : BootServer(s))
  /\ WF_allVars(\E p \in Ports : Discover(p) \/ Failover(p))
  /\ WF_allVars(\E c \in Clients : Client(c))
------------------------------------------------------------------------------
(* Properties.                                                             *)

Experiment == program = "redis-sentinel" /\ running

\* The failure is real: once kill_servers has returned nobody serves the port
\* of the primary but a server that survived sudo kill or an earlier clean-up.
\* That the pid file is there relies on the load, which has gone through the
\* primary.
PrimaryKilled ==
  Experiment /\ Past("kill") =>
    \A r \in Runs : <<r, primary_port>> \in Up => <<r, primary_port>> \in missed

\* Sentinel had not heard of the backup when the primary was killed.
NoReplica == Past("kill") /\ master = primary_port /\ known = {}

\* The new backup is configured for the primary that is dead when it starts.
\* Sentinel, which learns of replicas from their master, does not hear of it.
BackupOrphaned ==
  Experiment /\ Past("kill") /\ missed = {} =>
    /\ ~Serves(primary_port)
    /\ follows[backup_new_port] = primary_port
    /\ backup_new_port \notin known

\* An experiment that nothing disturbs ends with all clients done, although
\* the primary is killed under them and half of the GETs go to a node that
\* never answers.
FailoverCompletes ==
  Experiment /\ pc = 1 ~>
    \/ pc = Length + 1 /\ \A c \in Clients : client[c] = "done"
    \/ ~running \/ missed # {} \/ NoReplica

\* The new backup becomes a backup: it replicates the master.
Rereplicated ==
  [](Experiment /\ <<run, backup_new_port>> \in Up =>
       <>(follows[backup_new_port] = master \/ ~running \/ missed # {} \/ NoReplica))
==============================================================================
