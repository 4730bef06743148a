------------------------------ MODULE YcsbSweep ------------------------------
(***************************************************************************)
(* The throughput sweep: ycsb.py runs a list of workloads, each with a     *)
(* list of client counts.  For every workload it starts a Redis server     *)
(* through redis-server-starter.py on another node, waits until the        *)
(* starter reports it ready, runs a round of clients for every count, and  *)
(* tells the starter to stop the server.  All of them meet in one          *)
(* memcached, which every round clears.                                    *)
(*                                                                         *)
(* The client program of the sweep is not part of the repository; it is    *)
(* modelled by what ycsb.py expects of it.  The keys that all clients of a *)
(* round publish are one key here.                                         *)
(***************************************************************************)
EXTENDS Naturals

CONSTANTS NumWorkloads,  \* the length of workload_list
          NumRounds      \* the length of num_client_list

ASSUME SweepAssumption == {NumWorkloads, NumRounds} \subseteq Nat \ {0}

VARIABLES
  keys,     \* the keys in memcached
  script,   \* where ycsb.py is
  wl,       \* the workload it is at
  round,    \* the client count it is at
  starter,  \* where redis-server-starter.py is
  server,   \* the Redis server is up
  clients   \* where the clients of the round are

scriptVars == <<script, wl, round>>
sweepVars == <<keys, scriptVars, starter, server, clients>>

Keys == {"redis-ready", "test-finish", "ready-0", "go-0", "ready-1", "go-1", "result"}

SweepTypeOK ==
  /\ keys \subseteq Keys
  /\ script \in {"begin", "launch", "waitServer", "flush", "start", "wait-0", "wait-1",
              "results", "finish", "join", "done"}
  /\ wl \in 0..NumWorkloads
  /\ round \in 0..NumRounds - 1
  /\ starter \in {"off", "starting", "report", "serving", "stopping"}
  /\ server \in BOOLEAN
  /\ clients \in {"off", "started", "ready-0", "load", "ready-1", "trans"}

\* Anything may be left in memcached, and a server that was not stopped.
SweepInit ==
  /\ keys \in SUBSET Keys
  /\ script = "begin" /\ wl = 0 /\ round = 0
  /\ starter = "off"
  /\ server \in BOOLEAN
  /\ clients = "off"
------------------------------------------------------------------------------
(* ycsb.py                                                                 *)

Go(from, to) == script = from /\ script' = to

\* mc.flush_all() before the first workload
FlushAtStart ==
  /\ Go("begin", "launch")
  /\ keys' = {}
  /\ UNCHANGED <<wl, round, starter, server, clients>>

\* run_redis_server.sh is started on the server's node.
LaunchStarter ==
  /\ Go("launch", "waitServer")
  /\ starter' = "starting"
  /\ UNCHANGED <<keys, wl, round, server, clients>>

\* mc.get('redis-0-ready') has found the key.
ServerReady ==
  /\ "redis-ready" \in keys
  /\ Go("waitServer", "flush")
  /\ UNCHANGED <<keys, wl, round, starter, server, clients>>

\* Bug variant: the rounds do not clear memcached.
KeepKeys ==
  /\ Go("flush", "start")
  /\ UNCHANGED <<keys, wl, round, starter, server, clients>>

\* mc.flush_all() before a round
FlushRound ==
  /\ Go("flush", "start")
  /\ keys' = {}
  /\ UNCHANGED <<wl, round, starter, server, clients>>

\* run_redis_client_tpt.sh is started on the clients' node.
StartClients ==
  /\ Go("start", "wait-0")
  /\ clients' = "started"
  /\ UNCHANGED <<keys, wl, round, starter, server>>

\* The two barriers.
Notify(from, ready, go, to) ==
  /\ ready \in keys
  /\ Go(from, to)
  /\ keys' = keys \cup {go}
  /\ UNCHANGED <<wl, round, starter, server, clients>>

NotifyLoad == Notify("wait-0", "ready-0", "go-0", "wait-1")
NotifyTrans == Notify("wait-1", "ready-1", "go-1", "results")

LastRound == round = NumRounds - 1

\* Bug variant: the client counts go on with the next workload.
ResultsKeepCount ==
  /\ "result" \in keys
  /\ clients = "off"
  /\ Go("results", IF LastRound THEN "finish" ELSE "flush")
  /\ round' = round + 1
  /\ UNCHANGED <<keys, wl, starter, server, clients>>

\* All results are there and c_prom.join() returns.
Results ==
  /\ "result" \in keys
  /\ clients = "off"
  /\ Go("results", IF LastRound THEN "finish" ELSE "flush")
  /\ round' = IF LastRound THEN 0 ELSE round + 1
  /\ UNCHANGED <<keys, wl, starter, server, clients>>

\* mc.set('test-finish', 1)
SetFinish ==
  /\ Go("finish", "join")
  /\ keys' = keys \cup {"test-finish"}
  /\ UNCHANGED <<wl, round, starter, server, clients>>

\* Bug variant: the starter is not waited for.
NextWithoutJoin ==
  /\ Go("join", IF wl + 1 = NumWorkloads THEN "done" ELSE "launch")
  /\ wl' = wl + 1
  /\ UNCHANGED <<keys, round, starter, server, clients>>

\* instance_prom.join() returns.
NextWorkload ==
  /\ starter = "off"
  /\ Go("join", IF wl + 1 = NumWorkloads THEN "done" ELSE "launch")
  /\ wl' = wl + 1
  /\ UNCHANGED <<keys, round, starter, server, clients>>
------------------------------------------------------------------------------
(* redis-server-starter.py                                                 *)

GoStarter(from, to) == starter = from /\ starter' = to

\* It kills the server of a previous run and starts its own.
StartServer ==
  /\ GoStarter("starting", "report")
  /\ server' = TRUE
  /\ UNCHANGED <<keys, scriptVars, clients>>

\* mc.set('redis-0-ready', 0)
ReportReady ==
  /\ GoStarter("report", "serving")
  /\ keys' = keys \cup {"redis-ready"}
  /\ UNCHANGED <<scriptVars, server, clients>>

\* mc.get('test-finish') has found the key.
SeeFinish ==
  /\ "test-finish" \in keys
  /\ GoStarter("serving", "stopping")
  /\ UNCHANGED <<keys, scriptVars, server, clients>>

\* The server is killed and the script ends.
StopServer ==
  /\ GoStarter("stopping", "off")
  /\ server' = FALSE
  /\ UNCHANGED <<keys, scriptVars, clients>>
------------------------------------------------------------------------------
(* The clients of a round, as ycsb.py expects them: they repeat a request  *)
(* that fails, so loading and transactions end only with the server up.    *)

GoClients(from, to) == clients = from /\ clients' = to

Publish(key) == keys' = keys \cup {key} /\ UNCHANGED <<scriptVars, starter, server>>

ClientsReady == GoClients("started", "ready-0") /\ Publish("ready-0")
ClientsLoaded == server /\ GoClients("load", "ready-1") /\ Publish("ready-1")
ClientsFinish == server /\ GoClients("trans", "off") /\ Publish("result")

ClientsGo ==
  /\ \/ "go-0" \in keys /\ GoClients("ready-0", "load")
     \/ "go-1" \in keys /\ GoClients("ready-1", "trans")
  /\ UNCHANGED <<keys, scriptVars, starter, server>>
------------------------------------------------------------------------------
YcsbScript ==
  \/ FlushAtStart \/ LaunchStarter \/ ServerReady \/ FlushRound \/ StartClients
  \/ NotifyLoad \/ NotifyTrans \/ Results \/ SetFinish \/ NextWorkload

Starter == StartServer \/ ReportReady \/ SeeFinish \/ StopServer

ClientsNext == ClientsReady \/ ClientsGo \/ ClientsLoaded \/ ClientsFinish

SweepNext == YcsbScript \/ Starter \/ ClientsNext

SweepSpec == SweepInit /\ [][SweepNext]_sweepVars
------------------------------------------------------------------------------
(* Properties.                                                             *)

\* The server that ycsb.py goes on with is the one it has started for this
\* workload: the ready key of the previous starter is gone when it waits.
ServerIsNew ==
  script \in {"flush", "start", "wait-0", "wait-1", "results", "finish", "join"} =>
    starter \notin {"starting", "report"}

\* Nothing of a workload is left when the next one begins: the server is down,
\* its starter has ended and so have the clients.
WorkloadsApart ==
  script \in {"launch", "done"} /\ wl > 0 =>
    ~server /\ starter = "off" /\ clients = "off"

\* The starter's "wait for finishing workload": the server stays up until the
\* rounds of its workload are over.
ServerOutlivesWorkload == clients \in {"load", "trans"} => server
==============================================================================
