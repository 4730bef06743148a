-------------------------- MODULE RedisSentinelProofs --------------------------
(***************************************************************************)
(* Proofs about RedisServers and RedisSentinel, for any number of scripts  *)
(* that are run on the node, interrupted or not, and any number of client  *)
(* threads: the scripts keep account of the servers they start, and the    *)
(* primary of the redis-sentinel experiment is killed for real.            *)
(***************************************************************************)
EXTENDS RedisSentinel, SequenceTheorems, TLAPS

\* The programs are sequences, and what they notify are barriers.
CommandsAreSequences ==
  \A q \in Programs :
    /\ Len(Commands[q]) \in Nat
    /\ \A k \in 1..Len(Commands[q]) :
         Commands[q][k].do = "notify" => Commands[q][k].arg \in {0, 1}

LEMMA CommandsTyped == ASSUME ServersAssumption PROVE CommandsAreSequences
<1> DEFINE Args == (SUBSET Ports) \cup Nat
           Cmd == [do : {"prepare", "start", "create"}, arg : Args]
<1>1. SUBSET Ports \subseteq Args /\ Nat \subseteq Args
  BY Zenon
<1> HIDE DEF Args
<1>2. NumServers \in Nat /\ server_ports \subseteq Ports
  BY SMT DEF ServersAssumption, server_ports, Ports
<1>3. create_single_instance \in Seq(Cmd)
  <2>1. Do("prepare", {7000}) \in Cmd /\ Do("start", 7000) \in Cmd
    BY <1>1, SMT DEF Do, Ports
  <2> HIDE DEF Cmd
  <2> QED BY <2>1, SMT DEF create_single_instance
<1>4. create_multiple_instances \in Seq(Cmd)
  <2> DEFINE port(k) == 7000 + (k - 1) \div 2
  <2>1. \A k \in 1..2 * NumServers : port(k) \in Ports /\ port(k) \in Nat
    BY SMT DEF ServersAssumption, Ports
  <2> HIDE DEF port
  <2>2. \A k \in 1..2 * NumServers :
          Do("prepare", {port(k)}) \in Cmd /\ Do("start", port(k)) \in Cmd
    <3>1. \A k \in 1..2 * NumServers : {port(k)} \in Args /\ port(k) \in Args
      BY <1>1, <2>1, Zenon
    <3> QED BY <3>1, Zenon DEF Do
  <2> HIDE DEF Cmd
  <2>3. create_multiple_instances \in [1..2 * NumServers -> Cmd]
    <3> DEFINE command(k) == IF k % 2 = 1 THEN Do("prepare", {port(k)}) ELSE Do("start", port(k))
    <3>1. \A k \in 1..2 * NumServers : command(k) \in Cmd
      <4> SUFFICES ASSUME NEW k \in 1..2 * NumServers PROVE command(k) \in Cmd
        OBVIOUS
      <4>1. Do("prepare", {port(k)}) \in Cmd /\ Do("start", port(k)) \in Cmd
        BY <2>2, Zenon
      <4>2. CASE k % 2 = 1
        BY <4>1, <4>2, Zenon
      <4>3. CASE k % 2 # 1
        BY <4>1, <4>3, Zenon
      <4> QED BY <4>2, <4>3
    <3>2. create_multiple_instances = [k \in 1..2 * NumServers |-> command(k)]
      BY SMT DEF create_multiple_instances, port
    <3> HIDE DEF command
    <3> QED BY <3>1, <3>2, Zenon
  <2>4. 2 * NumServers \in Nat
    BY <1>2
  <2> QED BY <2>3, <2>4
<1>5. create_cluster \in Seq(Cmd)
  <2> DEFINE port(k) == 6999 + k
             starts == [k \in 1..NumServers |-> Do("start", port(k))]
  <2>1. create_cluster = <<Do("prepare", server_ports)>> \o starts \o <<Do("create", server_ports)>>
    BY DEF create_cluster
  <2>2. \A k \in 1..NumServers : port(k) \in Nat
    BY <1>2, SMT
  <2> HIDE DEF port
  <2>3. \A k \in 1..NumServers : port(k) \in Args
    BY <1>1, <2>2, Zenon
  <2>4. \A k \in 1..NumServers : Do("start", port(k)) \in Cmd
    BY <2>3, Zenon DEF Do
  <2>5. Do("prepare", server_ports) \in Cmd /\ Do("create", server_ports) \in Cmd
    BY <1>1, <1>2, Zenon DEF Do
  <2> HIDE DEF Cmd
  <2>6. starts \in Seq(Cmd)
    BY <1>2, <2>4
  <2>7. <<Do("prepare", server_ports)>> \in Seq(Cmd) /\ <<Do("create", server_ports)>> \in Seq(Cmd)
    BY <2>5
  <2> HIDE DEF starts
  <2> QED BY <2>1, <2>6, <2>7, ConcatProperties
<1>6. \A s \in Seq(Cmd) : Len(s) \in Nat /\ \A k \in 1..Len(s) : s[k].do # "notify"
  <2>1. \A c \in Cmd : c.do # "notify"
    BY Zenon
  <2> HIDE DEF Cmd
  <2>2. \A s \in Seq(Cmd) : Len(s) \in Nat /\ \A k \in 1..Len(s) : s[k] \in Cmd
    BY SMT
  <2> QED BY <2>1, <2>2
<1>7. /\ Len(redis_sentinel) \in Nat
      /\ \A k \in 1..Len(redis_sentinel) :
           redis_sentinel[k].do = "notify" => redis_sentinel[k].arg \in {0, 1}
  BY SMT DEF redis_sentinel, Do
<1> HIDE DEF Cmd
<1>8. \A q \in Programs : Commands[q] \in Seq(Cmd) \/ Commands[q] = redis_sentinel
  BY <1>3, <1>4, <1>5 DEF Programs, Commands
<1> QED BY <1>6, <1>7, <1>8 DEF CommandsAreSequences
------------------------------------------------------------------------------
(* The scripts and their servers.                                          *)

\* A script that has ended is not the last one, and no script has anything to
\* do with the servers of those to come.
ScriptsInv ==
  /\ TypeOK
  /\ ~running => run < MaxRuns
  /\ \A p \in Ports : dir[p] <= run
  /\ \A s \in Servers : s[1] > run => proc[s] = "none"

ServersInv == ScriptsInv /\ ServersAccounted

LEMMA InitServers == ASSUME ServersAssumption, Init PROVE ServersInv
<1> USE DEF Init
<1>1. Length \in Nat
  BY CommandsTyped, SMT DEF CommandsAreSequences, Length, program, Runs, ServersAssumption
<1>2. TypeOK
  BY <1>1, SMT DEF TypeOK, Runs, Servers, ServersAssumption, Programs
<1> QED BY <1>2, SMT DEF ServersInv, ScriptsInv, ServersAccounted, Booting, Up, ServersAssumption

\* What the servers, their directories and their pid files keep while one
\* script runs.
ServerFacts ==
  /\ dir \in [Ports -> 0..MaxRuns] /\ pidfile \subseteq Ports
  /\ proc \in [Servers -> {"none", "booting", "up"}] /\ missed \subseteq Servers
  /\ \A p \in Ports : dir[p] <= run
  /\ \A s \in Servers : s[1] > run => proc[s] = "none"
  /\ ServersAccounted

LEMMA ServersParts == ServersInv <=> ServerFacts /\ (~running => run < MaxRuns)
                        /\ run \in Runs /\ programs \in [Runs -> Programs]
                        /\ pc \in 1..Length + 1 /\ running \in BOOLEAN
BY Zenon DEF ServersInv, ScriptsInv, ServerFacts, TypeOK

LEMMA ServersProjections == \A r \in Runs : \A p \in Ports :
  <<r, p>> \in Servers /\ <<r, p>>[1] = r /\ <<r, p>>[2] = p
BY SMT DEF Servers

LEMMA ServersPairs == \A s \in Servers : s[1] \in Runs /\ s[2] \in Ports /\ s = <<s[1], s[2]>>
BY SMT DEF Servers

\* A kill ends the servers that are found, but for the survivors.
LEMMA Killing ==
  ASSUME ServerFacts, NEW ports, NEW survivors, Kill(ports, survivors)
  PROVE  /\ proc' \in [Servers -> {"none", "booting", "up"}]
         /\ survivors \subseteq Servers
         /\ \A s \in Servers : proc'[s] = IF s \in Found(ports) \ survivors THEN "none" ELSE proc[s]
         /\ \A s \in Servers : proc'[s] = "none" \/ proc'[s] = proc[s]
BY DEF Kill, Found, Booting, Up, ServerFacts

\* A clean-up loses no server but the ones it misses.
LEMMA CleanupKeeps ==
  ASSUME ServersAssumption, ServerFacts, run \in Runs, run' = run,
         NEW ports, NEW mkdir \in BOOLEAN, cleanup_servers(ports, mkdir)
  PROVE  ServerFacts'
<1> PICK survivors \in SUBSET Found(ports) :
           /\ Kill(ports, survivors)
           /\ missed' = missed \cup survivors
                         \cup {s \in Booting : s[2] \in ports \ pidfile /\ dir[s[2]] = s[1]}
  BY DEF cleanup_servers
<1>killed. /\ proc' \in [Servers -> {"none", "booting", "up"}]
           /\ survivors \subseteq Servers
           /\ \A s \in Servers :
                proc'[s] = IF s \in Found(ports) \ survivors THEN "none" ELSE proc[s]
           /\ \A s \in Servers : proc'[s] = "none" \/ proc'[s] = proc[s]
  BY Killing
<1> USE DEF ServerFacts, cleanup_servers
<1>1. proc' \in [Servers -> {"none", "booting", "up"}]
  BY <1>killed
<1>2. dir' \in [Ports -> 0..MaxRuns] /\ \A p \in Ports : dir'[p] <= run'
  BY SMT DEF Runs, ServersAssumption
<1>3. pidfile' \subseteq Ports /\ missed' \subseteq Servers
  BY <1>killed DEF Booting
<1>4. \A s \in Servers : proc'[s] = "none" \/ proc'[s] = proc[s]
  BY <1>killed
<1>5. \A s \in Servers : s[1] > run => proc'[s] = "none"
  BY <1>4
<1>6. ASSUME NEW s \in Servers, proc'[s] \in {"booting", "up"}, s \notin missed'
      PROVE  dir'[s[2]] = s[1] /\ (proc'[s] = "up" => s[2] \in pidfile')
  <2>1. proc[s] = proc'[s] /\ s \notin missed /\ s[2] \in Ports
    BY <1>4, <1>6, ServersPairs
  <2>2. dir[s[2]] = s[1] /\ (proc[s] = "up" => s[2] \in pidfile)
    BY <1>6, <2>1 DEF ServersAccounted, Booting, Up
  <2>3. s[2] \notin ports
    <3>1. CASE s[2] \in ports \cap pidfile
      <4>1. s \in Found(ports) \ survivors
        BY <1>6, <2>1, <2>2, <3>1 DEF Found, Booting, Up
      <4> QED BY <1>6, <1>killed, <4>1
    <3>2. CASE s[2] \in ports \ pidfile
      BY <1>6, <2>1, <2>2, <3>2 DEF Booting
    <3> QED BY <3>1, <3>2
  <2> QED BY <2>1, <2>2, <2>3
<1>7. ServersAccounted'
  BY <1>6 DEF ServersAccounted, Booting, Up
<1> QED BY <1>1, <1>2, <1>3, <1>5, <1>7

\* A server that is started is in the directory of its port.
LEMMA StartKeeps ==
  ASSUME ServersAssumption, ServerFacts, run \in Runs, start_instance
  PROVE  ServerFacts'
<1>1. /\ run' = run /\ UNCHANGED <<dir, pidfile, missed>>
      /\ proc' = IF dir[Arg] = 0 THEN proc ELSE [proc EXCEPT ![<<dir[Arg], Arg>>] = "booting"]
  BY DEF start_instance, Run
<1>2. CASE dir[Arg] = 0
  BY <1>1, <1>2 DEF ServerFacts, ServersAccounted, Booting, Up
<1>3. CASE proc' = [proc EXCEPT ![<<dir[Arg], Arg>>] = "booting"]
  <2>1. proc' \in [Servers -> {"none", "booting", "up"}]
    BY <1>3 DEF ServerFacts
  <2>2. \A s \in Servers : s # <<dir[Arg], Arg>> => proc'[s] = proc[s]
    BY <1>3 DEF ServerFacts
  <2>3. <<dir[Arg], Arg>> \in Servers => dir[Arg] <= run /\ proc'[<<dir[Arg], Arg>>] = "booting"
    BY <1>3 DEF ServerFacts, Servers
  <2>4. \A s \in Servers : s[1] > run => proc'[s] = "none"
    <3> SUFFICES ASSUME NEW s \in Servers, s[1] > run PROVE proc'[s] = "none"
      OBVIOUS
    <3>1. CASE s = <<dir[Arg], Arg>>
      BY <2>3, <3>1, ServersPairs, SMT DEF Runs, ServerFacts, ServersAssumption
    <3>2. CASE s # <<dir[Arg], Arg>>
      BY <2>2, <3>2 DEF ServerFacts
    <3> QED BY <3>1, <3>2
  <2>5. ServersAccounted'
    <3> SUFFICES ASSUME NEW s \in Servers, proc'[s] \in {"booting", "up"}, s \notin missed
                 PROVE  dir[s[2]] = s[1] /\ (proc'[s] = "up" => s[2] \in pidfile)
      BY <1>1 DEF ServersAccounted, Booting, Up
    <3>1. CASE s = <<dir[Arg], Arg>>
      BY <2>3, <3>1
    <3>2. CASE s # <<dir[Arg], Arg>>
      BY <2>2, <3>2 DEF ServerFacts, ServersAccounted, Booting, Up
    <3> QED BY <3>1, <3>2
  <2> QED BY <1>1, <2>1, <2>4, <2>5 DEF ServerFacts
<1> QED BY <1>1, <1>2, <1>3

\* A server that has booted has its pid file where the next clean-up looks.
LEMMA BootKeeps ==
  ASSUME ServerFacts, NEW s \in Servers, Boot(s)
  PROVE  ServerFacts'
<1>1. /\ UNCHANGED <<run, dir, missed>> /\ proc[s] = "booting"
      /\ \/ proc' = [proc EXCEPT ![s] = "up"]
            /\ (dir[s[2]] = s[1] => s[2] \in pidfile')
         \/ proc' = [proc EXCEPT ![s] = "none"]
      /\ pidfile \subseteq pidfile' /\ pidfile' \subseteq pidfile \cup {s[2]}
  BY DEF Boot, scriptVars
<1>2. proc' \in [Servers -> {"none", "booting", "up"}] /\ pidfile' \subseteq Ports
  BY <1>1, ServersPairs DEF ServerFacts
<1>3. \A t \in Servers : t # s => proc'[t] = proc[t]
  BY <1>1 DEF ServerFacts
<1>4. \A t \in Servers : t[1] > run => proc'[t] = "none"
  BY <1>1, <1>3 DEF ServerFacts
<1>5. ServersAccounted'
  <2> SUFFICES ASSUME NEW t \in Servers, proc'[t] \in {"booting", "up"}, t \notin missed
               PROVE  dir[t[2]] = t[1] /\ (proc'[t] = "up" => t[2] \in pidfile')
    BY <1>1 DEF ServersAccounted, Booting, Up
  <2>1. CASE t = s
    <3>1. dir[s[2]] = s[1]
      BY <1>1, <2>1 DEF ServerFacts, ServersAccounted, Booting, Up
    <3> QED BY <1>1, <2>1, <3>1 DEF ServerFacts
  <2>2. CASE t # s
    BY <1>1, <1>3, <2>2 DEF ServerFacts, ServersAccounted, Booting, Up
  <2> QED BY <2>1, <2>2
<1> QED BY <1>1, <1>2, <1>4, <1>5 DEF ServerFacts

LEMMA LengthTyped ==
  ASSUME ServersAssumption, run \in Runs, programs \in [Runs -> Programs]
  PROVE  Length \in Nat /\ program \in Programs
BY CommandsTyped DEF CommandsAreSequences, Length, program

\* What the script itself keeps.
ScriptFacts ==
  /\ run \in Runs /\ programs \in [Runs -> Programs]
  /\ pc \in 1..Length + 1 /\ running \in BOOLEAN
  /\ ~running => run < MaxRuns

LEMMA CommandKeeps ==
  ASSUME ServersAssumption, ScriptFacts, NEW what, Run(what)
  PROVE  ScriptFacts' /\ run' = run
<1>1. /\ UNCHANGED <<run, programs, running>> /\ pc' = pc + 1 /\ pc <= Length /\ running
      /\ Length' = Length
  BY DEF Run, Length, program
<1>2. Length \in Nat
  BY LengthTyped DEF ScriptFacts
<1>3. pc' \in 1..Length' + 1
  BY <1>1, <1>2, SMT DEF ScriptFacts
<1> QED BY <1>1, <1>3 DEF ScriptFacts

LEMMA ServersStep ==
  ASSUME ServersAssumption, ServersInv, [Next]_vars
  PROVE  ServersInv'
<1>1. ServerFacts /\ ScriptFacts
  BY ServersParts DEF ScriptFacts
<1>2. ServerFacts' /\ ScriptFacts'
  <2>1. CASE Prepare
    <3>1. ScriptFacts' /\ run' = run
      BY <1>1, <2>1, CommandKeeps DEF Prepare
    <3> QED BY <1>1, <2>1, <3>1, CleanupKeeps DEF Prepare, ScriptFacts
  <2>2. CASE start_instance
    <3>1. ScriptFacts'
      BY <1>1, <2>2, CommandKeeps DEF start_instance
    <3> QED BY <1>1, <2>2, <3>1, StartKeeps DEF ScriptFacts
  <2>3. CASE kill_server
    <3>1. ScriptFacts' /\ run' = run
      BY <1>1, <2>3, CommandKeeps DEF kill_server
    <3>2. PICK survivors \in SUBSET Found({Arg}) :
            /\ Kill({Arg}, survivors) /\ missed' = missed \cup survivors
            /\ UNCHANGED <<dir, pidfile>>
      BY <2>3 DEF kill_server
    <3>3. /\ \A s \in Servers : proc'[s] = "none" \/ proc'[s] = proc[s]
          /\ survivors \subseteq Servers
      BY <1>1, <3>2, Killing
    <3>4. proc' \in [Servers -> {"none", "booting", "up"}]
      BY <1>1, <3>2, Killing
    <3> QED BY <1>1, <3>1, <3>2, <3>3, <3>4 DEF ServerFacts, ServersAccounted, Booting, Up
  <2>4. ASSUME NEW what \in {"create", "flush", "collect", "notify"}, Other(what)
        PROVE  ServerFacts' /\ ScriptFacts'
    <3>1. ScriptFacts' /\ run' = run
      BY <1>1, <2>4, CommandKeeps DEF Other
    <3>2. UNCHANGED serverVars
      BY <2>4 DEF Other
    <3> QED BY <1>1, <3>1, <3>2 DEF serverVars, ServerFacts, ServersAccounted, Booting, Up
  <2>5. CASE SIGINT_handler
    <3>1. UNCHANGED <<run, programs, pc>> /\ running' = FALSE /\ run < MaxRuns
      BY <2>5 DEF SIGINT_handler
    <3>2. ScriptFacts'
      BY <1>1, <3>1 DEF ScriptFacts, Length, program
    <3>3. ServerFacts'
      <4>1. CASE cleanup_servers(OwnPorts[program], FALSE)
        BY <1>1, <3>1, <4>1, CleanupKeeps DEF ScriptFacts
      <4>2. CASE UNCHANGED serverVars
        BY <1>1, <3>1, <4>2 DEF serverVars, ServerFacts, ServersAccounted, Booting, Up
      <4> QED BY <2>5, <4>1, <4>2 DEF SIGINT_handler
    <3> QED BY <3>2, <3>3
  <2>6. CASE Killed
    <3>1. UNCHANGED <<run, programs, pc, serverVars>> /\ running' = FALSE /\ run < MaxRuns
      BY <2>6 DEF Killed
    <3> QED BY <1>1, <3>1 DEF serverVars, ServerFacts, ScriptFacts, ServersAccounted, Booting,
            Up, Length, program
  <2>7. CASE NextRun
    <3>1. /\ ~running /\ run' = run + 1 /\ pc' = 1 /\ running' = TRUE /\ UNCHANGED serverVars
          /\ \E next \in Programs : programs' = [programs EXCEPT ![run + 1] = next]
      BY <2>7 DEF NextRun
    <3>2. run \in Nat /\ run' \in Runs
      BY <1>1, <3>1, SMT DEF ScriptFacts, Runs, ServersAssumption
    <3>3. Length' \in Nat /\ programs' \in [Runs -> Programs]
      <4>1. programs' \in [Runs -> Programs]
        BY <1>1, <3>1 DEF ScriptFacts
      <4>2. programs'[run'] \in Programs
        BY <3>2, <4>1
      <4> QED BY <4>1, <4>2, CommandsTyped DEF CommandsAreSequences, Length, program
    <3>4. ScriptFacts'
      <4>1. pc' \in 1..Length' + 1
        <5>1. \A len \in Nat : 1 \in 1..len + 1
          BY SMT
        <5> QED BY <3>1, <3>3, <5>1, Zenon
      <4>2. running' \in BOOLEAN /\ running'
        BY <3>1
      <4> QED BY <3>2, <3>3, <4>1, <4>2 DEF ScriptFacts
    <3>5. UNCHANGED <<dir, pidfile, proc, missed>>
      BY <3>1 DEF serverVars
    <3>6. /\ \A p \in Ports : dir[p] <= run + 1
          /\ \A s \in Servers : s[1] > run + 1 => proc[s] = "none"
      <4>1. \A p \in Ports : dir[p] \in Int /\ dir[p] <= run
        BY <1>1, SMT DEF ServerFacts, ServersAssumption
      <4>2. \A s \in Servers : s[1] \in Int
        BY ServersPairs, SMT DEF Runs, ServersAssumption
      <4>3. \A s \in Servers : s[1] > run => proc[s] = "none"
        BY <1>1 DEF ServerFacts
      <4> QED BY <3>2, <4>1, <4>2, <4>3, SMT
    <3> QED BY <1>1, <3>1, <3>4, <3>5, <3>6 DEF ServerFacts, ServersAccounted, Booting, Up
  <2>8. ASSUME NEW s \in Servers, Boot(s) PROVE ServerFacts' /\ ScriptFacts'
    <3>1. UNCHANGED <<run, programs, pc, running>>
      BY <2>8 DEF Boot, scriptVars
    <3> QED BY <1>1, <2>8, <3>1, BootKeeps DEF ScriptFacts, Length, program
  <2>9. CASE UNCHANGED vars
    BY <1>1, <2>9 DEF vars, scriptVars, serverVars, ServerFacts, ScriptFacts, ServersAccounted,
       Booting, Up, Length, program
  <2> QED BY <2>1, <2>2, <2>3, <2>4, <2>5, <2>6, <2>7, <2>8, <2>9 DEF Next
<1> QED BY <1>2 DEF ServersInv, ScriptsInv, ServerFacts, ScriptFacts, TypeOK

\* Whatever scripts are run on a node and however they end, a server that runs
\* can be killed by the next clean-up of its port, unless its directory was
\* removed while it was booting.
THEOREM Accounted == ASSUME ServersAssumption PROVE Spec => [](TypeOK /\ ServersAccounted)
<1>1. ServersInv => TypeOK /\ ServersAccounted
  BY DEF ServersInv, ScriptsInv
<1> QED BY <1>1, InitServers, ServersStep, PTL DEF Spec
------------------------------------------------------------------------------
(* The experiment composes RedisServers with memcached, the clients and    *)
(* Sentinel.                                                               *)

LEMMA SentinelStepIsServersStep == SentinelNext => [Next]_vars
BY DEF SentinelNext, Script, Configure, ServerCommand, Flush, Collect, Notify, Interrupt, Again,
   BootServer, Discover, Failover, Client, Launch, Publish, Pass, Return, Next

\* What RedisServers promises of the scripts holds of the experiment too: its
\* clients, Sentinel and memcached touch no server, directory or pid file.
THEOREM Implements == SentinelSpec => Spec
<1>1. SentinelInit => Init
  BY DEF SentinelInit
<1>2. [SentinelNext]_allVars => [Next]_vars
  BY SentinelStepIsServersStep DEF allVars
<1> QED BY <1>1, <1>2, PTL DEF SentinelSpec, Spec

ClientStates == {"off", "started", "ready-0", "load", "ready-1", "trans", "done"}

\* No server replicates itself: the configurations name the primary, which is
\* no backup, and a replica that is promoted follows nobody.
SentinelFacts ==
  /\ ready \subseteq Clients \X {0, 1} /\ go \subseteq {0, 1}
  /\ client \in [Clients -> ClientStates]
  /\ master \in Ports
  /\ known \subseteq Ports \ {master}
  /\ follows \in [Ports -> Ports \cup {0}]
  /\ \A p \in Ports : follows[p] # p

LEMMA PortsAre ==
  /\ {sentinel_port, primary_port, backup_old_port, backup_new_port} \subseteq Ports
  /\ 0 \notin Ports /\ backup_old_port # primary_port /\ backup_new_port # primary_port
  /\ sentinel_port # primary_port
BY SMT DEF Ports, sentinel_port, primary_port, backup_old_port, backup_new_port

LEMMA ConfiguredFollows ==
  Configured \in [Ports -> Ports \cup {0}] /\ \A p \in Ports : Configured[p] # p
<1>1. \A p \in Ports : Configured[p] = IF p \in {backup_old_port, backup_new_port}
                                         THEN primary_port ELSE 0
  BY DEF Configured
<1>2. \A p \in Ports : Configured[p] \in Ports \cup {0} /\ Configured[p] # p
  BY <1>1, PortsAre
<1> QED BY <1>2 DEF Configured

LEMMA SentinelFactsInit == ASSUME SentinelInit PROVE SentinelFacts
BY ConfiguredFollows, PortsAre DEF SentinelInit, SentinelFacts, ClientStates

LEMMA SentinelFactsStep ==
  ASSUME ServersAssumption, ScriptFacts, SentinelFacts, [SentinelNext]_allVars
  PROVE  SentinelFacts'
<1> USE DEF SentinelFacts
<1>1. CASE Configure
  BY <1>1, ConfiguredFollows, PortsAre DEF Configure, memcached, sentinelVars
<1>2. CASE Notify
  <2>1. /\ pc <= Length /\ Commands[program][pc].do = "notify" /\ go' = go \cup {Arg}
        /\ UNCHANGED <<ready, client, sentinelVars>>
    BY <1>2 DEF Notify, Other, Run
  <2>2. pc \in 1..Length /\ program \in Programs
    <3>1. Length \in Nat /\ program \in Programs
      BY LengthTyped DEF ScriptFacts
    <3> QED BY <2>1, <3>1, SMT DEF ScriptFacts
  <2>3. Arg \in {0, 1}
    BY <2>1, <2>2, CommandsTyped DEF CommandsAreSequences, Arg, Length
  <2> QED BY <2>1, <2>3 DEF sentinelVars
<1>3. CASE ServerCommand \/ Collect \/ Interrupt \/ \E s \in Servers : BootServer(s)
  BY <1>3 DEF ServerCommand, Collect, Interrupt, BootServer, memcached, sentinelVars
<1>4. CASE Flush \/ Again
  BY <1>4 DEF Flush, Again, memcached, sentinelVars, ClientStates
<1>5. ASSUME NEW p \in Ports, Discover(p) PROVE SentinelFacts'
  <2>1. p # master
    BY <1>5 DEF Discover
  <2> QED BY <1>5, <2>1 DEF Discover, memcached
<1>6. ASSUME NEW p \in Ports, Failover(p) PROVE SentinelFacts'
  <2>1. \A q \in Ports : follows'[q] = CASE q = p -> 0
                                         [] q \in known \ {p} -> p
                                         [] OTHER -> follows[q]
    BY <1>6 DEF Failover
  <2>2. \A q \in Ports : follows'[q] \in Ports \cup {0} /\ follows'[q] # q
    BY <2>1, PortsAre
  <2>3. follows' \in [Ports -> Ports \cup {0}]
    BY <1>6, <2>2 DEF Failover
  <2> QED BY <1>6, <2>2, <2>3 DEF Failover, memcached
<1>7. ASSUME NEW c \in Clients, Client(c) PROVE SentinelFacts'
  <2>1. UNCHANGED <<go, sentinelVars>>
    BY <1>7 DEF Client, Launch, Publish, Pass, Return, memcached
  <2>2. \E state \in ClientStates : client' = [client EXCEPT ![c] = state]
    BY <1>7 DEF Client, Launch, Publish, Pass, Return, GoClient, ClientStates
  <2>3. ready' \in {ready, ready \cup {<<c, 0>>}, ready \cup {<<c, 1>>}}
    BY <1>7 DEF Client, Launch, Publish, Pass, Return, memcached
  <2> QED BY <2>1, <2>2, <2>3 DEF sentinelVars
<1>8. CASE UNCHANGED allVars
  BY <1>8 DEF allVars, memcached, sentinelVars
<1> QED BY <1>1, <1>2, <1>3, <1>4, <1>5, <1>6, <1>7, <1>8 DEF SentinelNext, Script

\* Script, clients and Sentinel stay within their types: a master is never
\* among its own replicas, whoever is promoted.
THEOREM SentinelTyped == ASSUME ServersAssumption PROVE SentinelSpec => []SentinelTypeOK
<1> DEFINE Inv == ServersInv /\ SentinelFacts
<1>1. SentinelInit => Inv
  BY InitServers, SentinelFactsInit DEF SentinelInit
<1>2. Inv /\ [SentinelNext]_allVars => Inv'
  <2> SUFFICES ASSUME Inv, [SentinelNext]_allVars PROVE Inv'
    OBVIOUS
  <2>1. ServersInv'
    BY ServersStep, SentinelStepIsServersStep DEF allVars
  <2>2. SentinelFacts'
    BY ServersParts, SentinelFactsStep DEF ScriptFacts
  <2> QED BY <2>1, <2>2
<1>3. Inv => SentinelTypeOK
  BY DEF ServersInv, ScriptsInv, SentinelFacts, SentinelTypeOK, ClientStates
<1> QED BY <1>1, <1>2, <1>3, PTL DEF SentinelSpec
------------------------------------------------------------------------------
(* The failure is real.                                                    *)

\* The primary of this run is not about to boot: it is up or gone, or it cannot
\* come up because an earlier server, missed by its clean-up, has the port.
PrimarySeen ==
  \/ \E r \in Runs : r # run /\ <<r, primary_port>> \in Up
  \/ pc >= 4 /\ <<run, primary_port>> \notin Booting

\* What is behind it: a client passes the first barrier only when the primary
\* has been started, and it enters the second only when it has loaded its
\* share, for which Sentinel must have reported a master that serves.
\* Sentinel moves on from the primary only if it has seen it serve.
RunInv ==
  /\ pc = 1 => \A c \in Clients : client[c] = "off"
  /\ pc <= 7 => \A c \in Clients : client[c] \in {"off", "started", "ready-0"}
  /\ pc \in 2..7 => 0 \notin go /\ \A c \in Clients : <<c, 1>> \notin ready
  /\ pc >= 8 /\ (\E c \in Clients : <<c, 1>> \in ready) => PrimarySeen
  /\ pc <= 3 => \A p \in Ports : proc[<<run, p>>] = "none"
  /\ pc >= 3 => \A p \in Ports : dir[p] = run
  /\ pc >= 3 /\ (master # primary_port \/ known # {}) => PrimarySeen
  /\ pc >= 9 => PrimarySeen
  /\ pc >= 11 => <<run, primary_port>> \notin Up \/ <<run, primary_port>> \in missed

ExperimentInv == Experiment => RunInv

\* The commands of redis-sentinel.py.
LEMMA ExperimentProgram ==
  ASSUME program = "redis-sentinel"
  PROVE  Commands[program] = redis_sentinel /\ Length = 11
<1>1. Commands[program] = redis_sentinel
  BY DEF Commands, Programs
<1>2. Len(redis_sentinel) = 11
  BY SMT DEF redis_sentinel
<1> QED BY <1>1, <1>2 DEF Length

LEMMA ExperimentCommands ==
  ASSUME program = "redis-sentinel", pc \in Nat \ {0}, pc <= Length
  PROVE  LET what == Commands[program][pc].do
         IN  /\ what = "flush" <=> pc = 1
             /\ what = "prepare" <=> pc = 2
             /\ pc = 2 => Arg = Ports
             /\ what = "start" <=> pc \in {3, 4, 5, 11}
             /\ pc = 3 => Arg = primary_port
             /\ pc \in {4, 5, 11} => Arg # primary_port
             /\ what = "collect" <=> pc \in {6, 8}
             /\ pc = 8 => Arg = 1
             /\ what = "notify" <=> pc \in {7, 9}
             /\ pc = 7 => Arg = 0
             /\ pc = 9 => Arg = 1
             /\ what = "kill" <=> pc = 10
             /\ pc = 10 => Arg = primary_port
             /\ what # "create"
<1>1. pc \in 1..11
  BY ExperimentProgram, SMT
<1>2. Commands[program] = redis_sentinel
  BY ExperimentProgram
<1> QED BY <1>1, <1>2, SMT DEF Arg, redis_sentinel, Do, primary_port, backup_old_port,
       backup_new_port, sentinel_port

LEMMA ExperimentPast ==
  ASSUME program = "redis-sentinel", pc \in Nat \ {0}
  PROVE  (Past("kill") <=> pc >= 11) /\ (Past("flush") <=> pc >= 2)
<1>1. Commands[program] = redis_sentinel /\ Length = 11
  BY ExperimentProgram
<1>2. \A j \in 1..11 : /\ redis_sentinel[j].do = "kill" <=> j = 10
                       /\ redis_sentinel[j].do = "flush" <=> j = 1
  BY SMT DEF redis_sentinel, Do
<1>3. \A what : Past(what) <=> \E j \in 1..pc - 1 : j <= 11 /\ redis_sentinel[j].do = what
  BY <1>1 DEF Past
<1>4. Past("kill") <=> \E j \in 1..pc - 1 : j <= 11 /\ j = 10
  BY <1>2, <1>3, SMT
<1>5. Past("flush") <=> \E j \in 1..pc - 1 : j <= 11 /\ j = 1
  BY <1>2, <1>3, SMT
<1> QED BY <1>4, <1>5, SMT

\* All that is known before a step.
AllInv == ServersInv /\ SentinelFacts /\ ExperimentInv

\* A step that leaves the run alone and starts no primary keeps what was seen.
LEMMA SeenStays ==
  ASSUME run' = run, run \in Runs, pc \in Nat, pc' \in Nat, pc <= pc', PrimarySeen,
         \A r \in Runs : r # run /\ <<r, primary_port>> \in Up => <<r, primary_port>> \in Up',
         pc >= 4 /\ <<run, primary_port>> \in Booting' => <<run, primary_port>> \in Booting
  PROVE  PrimarySeen'
<1>1. CASE \E r \in Runs : r # run /\ <<r, primary_port>> \in Up
  BY <1>1 DEF PrimarySeen
<1>2. CASE pc >= 4 /\ <<run, primary_port>> \notin Booting
  <2>1. pc' >= 4 /\ <<run, primary_port>> \notin Booting'
    BY <1>2, SMT
  <2> QED BY <2>1 DEF PrimarySeen
<1> QED BY <1>1, <1>2 DEF PrimarySeen

\* A server that has the port of the primary shows that the primary is not
\* booting: either it is the primary, or one that was missed.
LEMMA ServesShows ==
  ASSUME AllInv, Experiment, pc >= 3, Serves(primary_port)
  PROVE  PrimarySeen
<1>1. PICK r \in Runs : <<r, primary_port>> \in Up
  BY DEF Serves
<1>2. CASE r # run
  BY <1>1, <1>2 DEF PrimarySeen
<1>3. CASE r = run
  <2>1. proc[<<run, primary_port>>] = "up"
    BY <1>1, <1>3 DEF Up
  <2>2. ~(pc <= 3)
    BY <2>1, PortsAre DEF AllInv, ExperimentInv, RunInv
  <2>3. pc \in Nat
    BY LengthTyped, SMT DEF AllInv, ServersInv, ScriptsInv, TypeOK
  <2>4. pc >= 4
    BY <2>2, <2>3, SMT
  <2> QED BY <2>1, <2>4 DEF Booting, PrimarySeen
<1> QED BY <1>2, <1>3

\* Whenever Sentinel answers, the primary has been seen.
LEMMA AnswerShows ==
  ASSUME AllInv, Experiment, pc >= 3, Serves(master)
  PROVE  PrimarySeen
<1>1. CASE master = primary_port
  BY <1>1, ServesShows
<1>2. CASE master # primary_port
  BY <1>2 DEF AllInv, ExperimentInv, RunInv
<1> QED BY <1>1, <1>2

\* What every step of a run knows.
RunKnown ==
  /\ Experiment /\ run' = run /\ run \in Runs
  /\ pc \in Nat \ {0} /\ RunInv /\ ServerFacts /\ SentinelFacts

\* A command moves pc by one.
CommandKnown == RunKnown /\ pc' = pc + 1 /\ pc <= Length

LEMMA ConfigureRun ==
  ASSUME CommandKnown, Configure
  PROVE  RunInv'
<1>1. pc = 2 /\ Arg = Ports /\ pc' = 3
  BY ExperimentCommands DEF CommandKnown, RunKnown, Experiment, Configure, Prepare, Run
<1>2. /\ cleanup_servers(Ports, TRUE)
      /\ master' = primary_port /\ known' = {} /\ UNCHANGED <<ready, go, client>>
  BY <1>1, PortsAre DEF Configure, Prepare, memcached
<1>3. \A p \in Ports : dir'[p] = run'
  BY <1>2 DEF cleanup_servers, CommandKnown, RunKnown
<1>4. \A p \in Ports : proc'[<<run', p>>] = "none"
  <2>1. \A p \in Ports : proc[<<run, p>>] = "none"
    BY <1>1 DEF CommandKnown, RunKnown, RunInv
  <2>2. \A s \in Servers : proc'[s] = "none" \/ proc'[s] = proc[s]
    BY <1>2, Killing DEF cleanup_servers, CommandKnown, RunKnown
  <2> QED BY <2>1, <2>2, ServersProjections DEF CommandKnown, RunKnown
<1> QED BY <1>1, <1>2, <1>3, <1>4, SMT DEF CommandKnown, RunKnown, RunInv

LEMMA StartRun ==
  ASSUME CommandKnown, start_instance, UNCHANGED <<memcached, client, sentinelVars>>
  PROVE  RunInv'
<1>1. /\ pc \in {3, 4, 5, 11} /\ Arg \in Ports /\ (Arg = primary_port => pc = 3)
      /\ pc' \in {4, 5, 6, 12} /\ (pc # 11 => pc' <= 6)
  <2>1. pc \in {3, 4, 5, 11}
    BY ExperimentCommands DEF CommandKnown, RunKnown, Experiment, start_instance, Run
  <2>2. Arg \in {primary_port, backup_old_port, backup_new_port, sentinel_port}
    <3>1. Arg = redis_sentinel[pc].arg
      BY ExperimentProgram DEF Arg, CommandKnown, RunKnown, Experiment
    <3> QED BY <2>1, <3>1, SMT DEF redis_sentinel, Do
  <2>3. Arg = primary_port => pc = 3
    BY <2>1, ExperimentCommands DEF CommandKnown, RunKnown, Experiment
  <2>4. pc' \in {4, 5, 6, 12} /\ (pc # 11 => pc' <= 6)
    BY <2>1, SMT DEF CommandKnown
  <2> QED BY <2>1, <2>2, <2>3, <2>4, PortsAre
<1>2. \A p \in Ports : dir[p] = run
  BY <1>1 DEF CommandKnown, RunKnown, RunInv
<1>3. /\ proc' \in {proc, [proc EXCEPT ![<<run, Arg>>] = "booting"]}
      /\ UNCHANGED <<dir, missed, ready, go, client, master, known>>
  BY <1>1, <1>2 DEF start_instance, memcached, sentinelVars
<1>4. \A s \in Servers : s # <<run, Arg>> => proc'[s] = proc[s]
  BY <1>3 DEF CommandKnown, RunKnown, ServerFacts
<1>5. \A r \in Runs : r # run => proc'[<<r, primary_port>>] = proc[<<r, primary_port>>]
  BY <1>4, ServersProjections, PortsAre
<1>6. pc # 3 => proc'[<<run, primary_port>>] = proc[<<run, primary_port>>]
  BY <1>1, <1>4, ServersProjections, PortsAre DEF CommandKnown, RunKnown
<1>7. PrimarySeen => PrimarySeen'
  <2>1. \A r \in Runs : r # run /\ <<r, primary_port>> \in Up => <<r, primary_port>> \in Up'
    BY <1>5, ServersProjections, PortsAre DEF Up
  <2>2. pc >= 4 /\ <<run, primary_port>> \in Booting' => <<run, primary_port>> \in Booting
    BY <1>6, ServersProjections, PortsAre DEF Booting
  <2>3. pc \in Nat /\ pc' \in Nat /\ pc <= pc'
    BY SMT DEF CommandKnown, RunKnown
  <2> QED BY <2>1, <2>2, <2>3, SeenStays DEF CommandKnown, RunKnown
<1>8. CASE pc = 11
  <2>1. <<run, primary_port>> \notin Up' \/ <<run, primary_port>> \in missed'
    BY <1>3, <1>6, <1>8 DEF CommandKnown, RunKnown, RunInv, Up
  <2>2. PrimarySeen
    BY <1>8 DEF CommandKnown, RunKnown, RunInv
  <2>3. pc' = 12
    BY <1>8 DEF CommandKnown
  <2> QED BY <1>2, <1>3, <1>7, <2>1, <2>2, <2>3 DEF CommandKnown, RunKnown, RunInv
<1>9. CASE pc \in {3, 4, 5}
  BY <1>1, <1>2, <1>3, <1>7, <1>9, SMT DEF CommandKnown, RunKnown, RunInv
<1> QED BY <1>1, <1>8, <1>9

LEMMA KillRun ==
  ASSUME CommandKnown, kill_server, UNCHANGED <<memcached, client, sentinelVars>>
  PROVE  RunInv'
<1>1. pc = 10 /\ pc' = 11 /\ Arg = primary_port
  BY ExperimentCommands DEF CommandKnown, RunKnown, Experiment, kill_server, Run
<1>2. PICK survivors \in SUBSET Found({primary_port}) :
        /\ Kill({primary_port}, survivors) /\ missed' = missed \cup survivors
        /\ UNCHANGED <<dir, pidfile, ready, go, client, master, known>>
  BY <1>1 DEF kill_server, memcached, sentinelVars
<1>3. \A p \in Ports : dir[p] = run
  BY <1>1 DEF CommandKnown, RunKnown, RunInv
<1>4. /\ \A s \in Servers : proc'[s] = "none" \/ proc'[s] = proc[s]
      /\ \A s \in Servers : s[1] # run => proc'[s] = proc[s]
      /\ \A s \in Servers \ survivors :
           s \in Found({primary_port}) => proc'[s] = "none"
  <2>1. \A s \in Found({primary_port}) : s[1] = run
    BY <1>3, ServersPairs, PortsAre DEF Found
  <2> QED BY <1>2, <2>1, Killing DEF CommandKnown, RunKnown
<1>5. PrimarySeen'
  <2>1. PrimarySeen
    BY <1>1 DEF CommandKnown, RunKnown, RunInv
  <2>2. \A r \in Runs : r # run /\ <<r, primary_port>> \in Up => <<r, primary_port>> \in Up'
    BY <1>4, ServersProjections, PortsAre DEF Up
  <2>3. <<run, primary_port>> \in Booting' => <<run, primary_port>> \in Booting
    BY <1>4 DEF Booting
  <2>4. pc \in Nat /\ pc' \in Nat /\ pc <= pc'
    BY SMT DEF CommandKnown, RunKnown
  <2> QED BY <2>1, <2>2, <2>3, <2>4, SeenStays DEF CommandKnown, RunKnown
<1>6. <<run, primary_port>> \notin Up' \/ <<run, primary_port>> \in missed'
  <2> SUFFICES ASSUME <<run, primary_port>> \in Up' PROVE <<run, primary_port>> \in missed'
    OBVIOUS
  <2>1. <<run, primary_port>> \in Servers /\ proc'[<<run, primary_port>>] = "up"
    BY DEF Up
  <2>2. <<run, primary_port>> \in Up
    BY <1>4, <2>1 DEF Up
  <2>3. CASE <<run, primary_port>> \in survivors
    BY <1>2, <2>3
  <2>4. CASE <<run, primary_port>> \notin survivors
    <3>1. <<run, primary_port>> \notin Found({primary_port})
      BY <1>4, <2>1, <2>4
    <3>2. primary_port \notin pidfile
      BY <1>3, <2>1, <2>2, <3>1, ServersProjections, PortsAre
         DEF Found, CommandKnown, RunKnown
    <3> QED BY <1>2, <2>1, <2>2, <3>2, ServersProjections, PortsAre
            DEF CommandKnown, RunKnown, ServerFacts, ServersAccounted
  <2> QED BY <2>3, <2>4
<1> QED BY <1>1, <1>2, <1>3, <1>5, <1>6 DEF CommandKnown, RunKnown, RunInv

\* The commands that touch no server.
LEMMA OtherRun ==
  ASSUME CommandKnown, NEW what \in {"create", "flush", "collect", "notify"}, Other(what),
         Flush \/ Collect \/ Notify \/ UNCHANGED <<memcached, client, sentinelVars>>,
         ~(what = "create"), what = Commands[program][pc].do,
         what = "flush" => Flush, what = "collect" => Collect, what = "notify" => Notify,
         NumClients \in Nat \ {0}
  PROVE  RunInv'
<1>1. UNCHANGED <<dir, pidfile, proc, missed>>
  BY DEF Other, serverVars
<1>2. UNCHANGED <<client, master, known>>
  BY DEF Flush, Collect, Notify, memcached, sentinelVars
<1>3. PrimarySeen => PrimarySeen'
  <2>1. pc \in Nat /\ pc' \in Nat /\ pc <= pc'
    BY SMT DEF CommandKnown, RunKnown
  <2> QED BY <1>1, <2>1, SeenStays DEF CommandKnown, RunKnown, Up, Booting
<1>4. CASE what = "flush"
  <2>1. pc = 1 /\ pc' = 2 /\ go' = {} /\ ready' = {}
    BY <1>4, ExperimentCommands DEF CommandKnown, RunKnown, Experiment, Flush
  <2> QED BY <1>1, <1>2, <2>1, SMT DEF CommandKnown, RunKnown, RunInv
<1>5. CASE what = "collect"
  <2>1. /\ pc \in {6, 8} /\ (pc = 8 => Arg = 1) /\ UNCHANGED <<go, ready>>
        /\ \A c \in Clients : <<c, Arg>> \in ready
    BY <1>5, ExperimentCommands DEF CommandKnown, RunKnown, Experiment, Collect, memcached
  <2>2. CASE pc = 6
    <3>1. pc' = 7
      BY <2>2 DEF CommandKnown
    <3> QED BY <1>1, <1>2, <1>3, <2>1, <2>2, <3>1, SMT DEF CommandKnown, RunKnown, RunInv
  <2>3. CASE pc = 8
    <3>1. 1 \in Clients
      BY SMT DEF Clients
    <3>2. PrimarySeen
      BY <2>1, <2>3, <3>1 DEF CommandKnown, RunKnown, RunInv
    <3>3. pc' = 9
      BY <2>3 DEF CommandKnown
    <3> QED BY <1>1, <1>2, <1>3, <2>1, <2>3, <3>2, <3>3, SMT DEF CommandKnown, RunKnown, RunInv
  <2> QED BY <2>1, <2>2, <2>3
<1>6. CASE what = "notify"
  <2>1. pc \in {7, 9} /\ UNCHANGED ready
    BY <1>6, ExperimentCommands DEF CommandKnown, RunKnown, Experiment, Notify
  <2>2. pc' \in {8, 10} /\ (pc = 7 <=> pc' = 8)
    BY <2>1, SMT DEF CommandKnown
  <2>3. CASE pc = 7
    <3>1. pc \in 2..7 /\ pc' = 8
      BY <2>3, SMT DEF CommandKnown
    <3>2. \A c \in Clients : <<c, 1>> \notin ready
      BY <3>1 DEF CommandKnown, RunKnown, RunInv
    <3>3. pc >= 3 => /\ \A p \in Ports : dir[p] = run
                     /\ master # primary_port \/ known # {} => PrimarySeen
      BY DEF CommandKnown, RunKnown, RunInv
    <3>4. pc' # 1 /\ ~(pc' <= 7) /\ ~(pc' \in 2..7) /\ ~(pc' <= 3) /\ ~(pc' >= 9) /\ ~(pc' >= 11)
      BY <3>1, SMT
    <3>5. pc >= 3
      BY <2>3
    <3> QED BY <1>1, <1>2, <1>3, <2>1, <3>2, <3>3, <3>4, <3>5, Zenon
            DEF CommandKnown, RunKnown, RunInv
  <2>4. CASE pc = 9
    <3>1. PrimarySeen /\ pc' = 10 /\ \A p \in Ports : dir[p] = run
      BY <2>4 DEF CommandKnown, RunKnown, RunInv
    <3> QED BY <1>1, <1>2, <1>3, <3>1 DEF CommandKnown, RunKnown, RunInv
  <2> QED BY <2>1, <2>3, <2>4
<1> QED BY <1>4, <1>5, <1>6

\* A server that boots: the primary cannot come up once it has been seen.
LEMMA BootRun ==
  ASSUME RunKnown, NEW s \in Servers, BootServer(s)
  PROVE  RunInv'
<1>1. /\ UNCHANGED <<run, pc, dir, missed, ready, go, client, master, known>>
      /\ proc[s] = "booting"
      /\ \/ proc' = [proc EXCEPT ![s] = "up"] /\ \A t \in Up : t[2] # s[2]
         \/ proc' = [proc EXCEPT ![s] = "none"]
  BY DEF BootServer, Boot, scriptVars, memcached, sentinelVars
<1>2. /\ \A t \in Servers : t # s => proc'[t] = proc[t]
      /\ proc'[s] # "booting"
  BY <1>1 DEF RunKnown, ServerFacts
<1>3. PrimarySeen => PrimarySeen'
  <2>1. \A r \in Runs : r # run /\ <<r, primary_port>> \in Up => <<r, primary_port>> \in Up'
    BY <1>1, <1>2 DEF Up
  <2>2. <<run, primary_port>> \in Booting' => <<run, primary_port>> \in Booting
    BY <1>2 DEF Booting
  <2>3. pc \in Nat /\ pc' \in Nat /\ pc <= pc'
    BY <1>1, SMT DEF RunKnown
  <2> QED BY <1>1, <2>1, <2>2, <2>3, SeenStays DEF RunKnown
<1>4. pc <= 3 => \A p \in Ports : proc'[<<run, p>>] = "none"
  BY <1>1, <1>2, ServersProjections DEF RunKnown, RunInv
<1>5. pc >= 11 => <<run, primary_port>> \notin Up' \/ <<run, primary_port>> \in missed
  <2> SUFFICES ASSUME pc >= 11, <<run, primary_port>> \in Up'
               PROVE  <<run, primary_port>> \in missed
    OBVIOUS
  <2>1. PrimarySeen
    <3>1. pc >= 9
      BY SMT DEF RunKnown
    <3> QED BY <3>1 DEF RunKnown, RunInv
  <2>2. CASE s = <<run, primary_port>>
    <3>1. \A t \in Up : t[2] # primary_port
      <4>1. proc'[s] = "up"
        BY <2>2 DEF Up
      <4>2. proc' # [proc EXCEPT ![s] = "none"]
        BY <4>1 DEF RunKnown, ServerFacts
      <4>3. s[2] = primary_port
        BY <2>2
      <4> QED BY <1>1, <4>2, <4>3
    <3>2. \A r \in Runs : <<r, primary_port>> \notin Up
      BY <3>1
    <3>3. <<run, primary_port>> \notin Booting
      BY <2>1, <3>2 DEF PrimarySeen
    <3> QED BY <1>1, <2>2, <3>3 DEF Booting
  <2>3. CASE s # <<run, primary_port>>
    BY <1>2, <2>3 DEF Up, RunKnown, RunInv
  <2> QED BY <2>2, <2>3
<1> QED BY <1>1, <1>3, <1>4, <1>5 DEF RunKnown, RunInv

\* Sentinel and the clients learn of the primary only by what it serves.
LEMMA SentinelRun ==
  ASSUME AllInv, RunKnown, NEW p \in Ports, Discover(p) \/ Failover(p)
  PROVE  RunInv'
<1>1. UNCHANGED <<run, pc, dir, proc, missed, ready, go, client>>
  BY DEF Discover, Failover, vars, scriptVars, serverVars, memcached
<1>2. PrimarySeen => PrimarySeen'
  BY <1>1 DEF PrimarySeen, Up, Booting
<1>3. pc >= 3 => PrimarySeen
  <2>1. CASE Discover(p)
    BY <2>1, AnswerShows DEF Discover, RunKnown
  <2>2. CASE Failover(p)
    BY <2>2 DEF Failover, RunKnown, RunInv
  <2> QED BY <2>1, <2>2
<1> QED BY <1>1, <1>2, <1>3 DEF RunKnown, RunInv, Up

LEMMA ClientRun ==
  ASSUME AllInv, RunKnown, NEW c \in Clients, Client(c)
  PROVE  RunInv'
<1>1. UNCHANGED <<run, programs, pc, dir, proc, missed, go, master, known>>
  BY DEF Client, Launch, Publish, Pass, Return, vars, scriptVars, serverVars, memcached,
     sentinelVars
<1>2. PrimarySeen => PrimarySeen'
  BY <1>1 DEF PrimarySeen, Up, Booting
<1>3. pc # 1
  <2>1. CASE Launch(c)
    BY <2>1, ExperimentPast DEF Launch, RunKnown, Experiment
  <2>2. CASE client[c] # "off"
    BY <2>2 DEF RunKnown, RunInv
  <2> QED BY <2>1, <2>2 DEF Client, Publish, Pass, Return, GoClient
<1>4. CASE pc <= 7
  <2>1. client[c] \in {"off", "started", "ready-0"} /\ 0 \notin go
    BY <1>3, <1>4, SMT DEF RunKnown, RunInv
  <2>2. \/ client' = [client EXCEPT ![c] = "started"] /\ ready' = ready
        \/ client' = [client EXCEPT ![c] = "ready-0"] /\ ready' = ready \cup {<<c, 0>>}
    BY <2>1 DEF Client, Launch, Publish, Pass, Return, GoClient, memcached
  <2>3. \A b \in Clients : client'[b] \in {"off", "started", "ready-0"}
    <3>1. \A b \in Clients : client[b] \in {"off", "started", "ready-0"}
      BY <1>4 DEF RunKnown, RunInv
    <3>2. client \in [Clients -> ClientStates]
      BY DEF RunKnown, SentinelFacts
    <3> QED BY <2>2, <3>1, <3>2
  <2>4. \A b \in Clients : <<b, 1>> \in ready' => <<b, 1>> \in ready
    BY <2>2
  <2>5. pc' = pc /\ pc \in 2..7
    BY <1>1, <1>3, <1>4, SMT DEF RunKnown
  <2>6. \A b \in Clients : <<b, 1>> \notin ready'
    BY <2>4, <2>5 DEF RunKnown, RunInv
  <2>7. pc >= 3 /\ (master # primary_port \/ known # {}) => PrimarySeen
    BY DEF RunKnown, RunInv
  <2>8. ~(pc' >= 8) /\ ~(pc' >= 9) /\ ~(pc' >= 11) /\ pc' # 1
    BY <2>5, SMT
  <2>9. (pc >= 3 => \A q \in Ports : dir[q] = run)
        /\ (pc <= 3 => \A q \in Ports : proc[<<run, q>>] = "none")
    BY DEF RunKnown, RunInv
  <2> QED BY <1>1, <1>2, <2>1, <2>3, <2>5, <2>6, <2>7, <2>8, <2>9 DEF RunInv
<1>5. CASE pc >= 8
  <2>1. (\E b \in Clients : <<b, 1>> \in ready') => PrimarySeen
    <3>1. CASE ready' \in {ready, ready \cup {<<c, 0>>}}
      BY <1>5, <3>1 DEF RunKnown, RunInv
    <3>2. CASE set
      <4>1. pc >= 3
        BY <1>5, SMT DEF RunKnown
      <4> QED BY <3>2, <4>1, AnswerShows DEF set, Answers, RunKnown
    <3> QED BY <3>1, <3>2 DEF Client, Launch, Publish, Pass, Return, memcached
  <2> QED BY <1>1, <1>2, <1>5, <2>1, SMT DEF RunKnown, RunInv, Up
<1> QED BY <1>4, <1>5, SMT DEF RunKnown

LEMMA InitExperiment == ASSUME ServersAssumption, SentinelInit PROVE AllInv
<1>1. ServersInv /\ SentinelFacts
  BY InitServers, SentinelFactsInit DEF SentinelInit
<1>2. RunInv
  <2>1. /\ pc = 1 /\ client = [c \in Clients |-> "off"]
        /\ proc = [s \in Servers |-> "none"] /\ run \in Runs
    BY SMT DEF SentinelInit, Init, Runs, ServersAssumption
  <2> QED BY <2>1, ServersProjections, SMT DEF RunInv
<1> QED BY <1>1, <1>2 DEF AllInv, ExperimentInv

LEMMA ExperimentStep ==
  ASSUME ServersAssumption, ClientsAssumption, AllInv, [SentinelNext]_allVars
  PROVE  AllInv'
<1>1. ServersInv'
  BY ServersStep, SentinelStepIsServersStep DEF AllInv, allVars
<1>2. SentinelFacts'
  BY ServersParts, SentinelFactsStep DEF AllInv, ScriptFacts
<1>3. ExperimentInv'
  <2> SUFFICES ASSUME Experiment' PROVE RunInv'
    BY DEF ExperimentInv
  <2>1. CASE Again
    <3>1. /\ pc' = 1 /\ run' = run + 1 /\ UNCHANGED proc
          /\ client' = [c \in Clients |-> "off"]
      BY <2>1 DEF Again, NextRun, serverVars
    <3>2. run \in Nat /\ run' \in Runs
      BY <1>1, <3>1, SMT DEF AllInv, ServersInv, ScriptsInv, TypeOK, Runs, ServersAssumption
    <3>3. run' > run
      BY <3>1, <3>2, SMT
    <3>4. \A p \in Ports : proc'[<<run', p>>] = "none"
      BY <3>1, <3>2, <3>3, ServersProjections DEF AllInv, ServersInv, ScriptsInv
    <3>5. \A c \in Clients : client'[c] = "off"
      BY <3>1
    <3>6. /\ ~(pc' \in 2..7) /\ ~(pc' >= 8) /\ ~(pc' >= 3) /\ ~(pc' >= 9) /\ ~(pc' >= 11)
      BY <3>1, SMT
    <3> QED BY <3>4, <3>5, <3>6 DEF RunInv
  <2>2. CASE Interrupt
    BY <2>2 DEF Interrupt, SIGINT_handler, Killed, Experiment
  <2>3. ASSUME ~Again, ~Interrupt PROVE run' = run /\ programs' = programs /\ running' = running
    BY <2>3 DEF SentinelNext, Script, Configure, ServerCommand, Flush, Collect, Notify, BootServer,
       Discover, Failover, Client, Launch, Publish, Pass, Return, Prepare, start_instance,
       kill_server, Other, Run, Boot, allVars, vars, scriptVars
  <2>4. CASE ~Again /\ ~Interrupt
    <3>1. RunKnown
      <4>1. Experiment
        BY <2>3, <2>4 DEF Experiment, program
      <4>2. pc \in Nat \ {0}
        BY SMT DEF AllInv, ServersInv, ScriptsInv, TypeOK
      <4> QED BY <2>3, <2>4, <4>1, <4>2, ServersParts DEF RunKnown, AllInv, ExperimentInv
    <3>2. ASSUME NEW what, Run(what)
          PROVE  CommandKnown /\ what = Commands[program][pc].do
      BY <3>1, <3>2 DEF Run, CommandKnown
    <3>3. CASE Configure
      BY <3>2, <3>3, ConfigureRun DEF Configure, Prepare
    <3>4. CASE ServerCommand
      <4>1. UNCHANGED <<memcached, client, sentinelVars>>
        BY <3>4 DEF ServerCommand
      <4>2. CASE start_instance
        BY <3>2, <4>1, <4>2, StartRun DEF start_instance
      <4>3. CASE kill_server
        BY <3>2, <4>1, <4>3, KillRun DEF kill_server
      <4>4. CASE Other("create")
        BY <3>1, <3>2, <4>4, ExperimentCommands DEF Other, CommandKnown, RunKnown, Experiment
      <4> QED BY <3>4, <4>2, <4>3, <4>4 DEF ServerCommand
    <3>5. CASE Flush
      <4>1. Other("flush") /\ Run("flush")
        BY <3>5 DEF Flush, Other
      <4> QED BY <3>2, <3>5, <4>1, OtherRun DEF ClientsAssumption
    <3>6. CASE Collect
      <4>1. Other("collect") /\ Run("collect")
        BY <3>6 DEF Collect, Other
      <4> QED BY <3>2, <3>6, <4>1, OtherRun DEF ClientsAssumption
    <3>7. CASE Notify
      <4>1. Other("notify") /\ Run("notify")
        BY <3>7 DEF Notify, Other
      <4> QED BY <3>2, <3>7, <4>1, OtherRun DEF ClientsAssumption
    <3>8. ASSUME NEW s \in Servers, BootServer(s) PROVE RunInv'
      BY <3>1, <3>8, BootRun
    <3>9. ASSUME NEW p \in Ports, Discover(p) \/ Failover(p) PROVE RunInv'
      BY <3>1, <3>9, SentinelRun
    <3>10. ASSUME NEW c \in Clients, Client(c) PROVE RunInv'
      BY <3>1, <3>10, ClientRun
    <3>11. CASE UNCHANGED allVars
      BY <3>1, <3>11 DEF RunKnown, RunInv, PrimarySeen, Up, Booting, allVars, vars, scriptVars,
         serverVars, memcached, sentinelVars
    <3> QED BY <2>4, <3>3, <3>4, <3>5, <3>6, <3>7, <3>8, <3>9, <3>10, <3>11
            DEF SentinelNext, Script
  <2> QED BY <2>1, <2>2, <2>4
<1> QED BY <1>1, <1>2, <1>3 DEF AllInv

LEMMA KilledForReal == ASSUME AllInv PROVE PrimaryKilled
<1> SUFFICES ASSUME Experiment, Past("kill"), NEW r \in Runs, <<r, primary_port>> \in Up
             PROVE  <<r, primary_port>> \in missed
  BY DEF PrimaryKilled
<1>1. pc \in Nat \ {0}
  BY SMT DEF AllInv, ServersInv, ScriptsInv, TypeOK
<1>2. pc >= 11 /\ RunInv
  BY <1>1, ExperimentPast DEF Experiment, AllInv, ExperimentInv
<1>3. CASE r = run
  BY <1>2, <1>3 DEF RunInv
<1>4. CASE r # run
  <2>1. dir[primary_port] = run
    <3>1. pc >= 3
      BY <1>1, <1>2, SMT
    <3> QED BY <1>2, <3>1, PortsAre DEF RunInv
  <2> QED BY <1>4, <2>1, ServersProjections, PortsAre
          DEF AllInv, ServersInv, ServersAccounted
<1> QED BY <1>3, <1>4

\* Once kill_servers has returned, no server on the port of the primary is up
\* or ever comes up, but for one that a clean-up missed or that survived sudo
\* kill, whose result nobody looks at: although kill_servers passes over a server
\* without a pid file, the barrier behind the load leaves it no chance to be
\* still booting, for any number of clients and runs.
THEOREM FailureIsReal ==
  ASSUME ServersAssumption, ClientsAssumption
  PROVE  SentinelSpec => []PrimaryKilled
<1>1. SentinelInit => AllInv
  BY InitExperiment
<1>2. AllInv /\ [SentinelNext]_allVars => AllInv'
  BY ExperimentStep
<1>3. AllInv => PrimaryKilled
  BY KilledForReal
<1> QED BY <1>1, <1>2, <1>3, PTL DEF SentinelSpec
------------------------------------------------------------------------------
(* The new backup is nobody's replica.                                     *)

\* Until the last command no server of this run is on the port of the new
\* backup, and its configuration names the primary all along.
OrphanInv ==
  /\ pc <= 11 => proc[<<run, backup_new_port>>] = "none"
  /\ pc >= 3 => follows[backup_new_port] = primary_port /\ backup_new_port \notin known

Orphaned == Experiment /\ missed = {} => OrphanInv

LEMMA NewBackup ==
  /\ backup_new_port \in Ports /\ backup_new_port # primary_port
  /\ Configured[backup_new_port] = primary_port
<1>1. backup_new_port \in Ports /\ backup_new_port # primary_port
  BY PortsAre
<1> QED BY <1>1 DEF Configured

\* Who serves a port of an experiment that has missed no server is of this run.
LEMMA ServesOwn ==
  ASSUME AllInv, Experiment, missed = {}, pc >= 3, NEW p \in Ports, Serves(p)
  PROVE  <<run, p>> \in Up
<1>1. PICK r \in Runs : <<r, p>> \in Up
  BY DEF Serves
<1>2. dir[p] = r
  BY <1>1, ServersProjections DEF AllInv, ServersInv, ServersAccounted
<1>3. dir[p] = run
  BY DEF AllInv, ExperimentInv, RunInv
<1> QED BY <1>1, <1>2, <1>3

\* Sentinel cannot discover the new backup: before the kill it is not there,
\* and after it the server it claims to replicate does not answer.
LEMMA NotDiscovered ==
  ASSUME AllInv, Orphaned, Experiment, missed = {}, pc \in Nat, pc >= 3
  PROVE  ~Discover(backup_new_port)
<1> SUFFICES ASSUME Discover(backup_new_port) PROVE FALSE
  OBVIOUS
<1>1. Serves(primary_port) /\ Serves(backup_new_port)
  BY DEF Discover, Orphaned, OrphanInv
<1>2. <<run, primary_port>> \in Up /\ <<run, backup_new_port>> \in Up
  BY <1>1, ServesOwn, PortsAre
<1>3. ~(pc <= 11)
  BY <1>2 DEF Up, Orphaned, OrphanInv
<1>4. pc >= 11
  BY <1>3, SMT
<1> QED BY <1>2, <1>4 DEF AllInv, ExperimentInv, RunInv

LEMMA OrphanInit == ASSUME ServersAssumption, SentinelInit PROVE Orphaned
<1>1. pc = 1 /\ run \in Runs /\ proc = [s \in Servers |-> "none"]
  BY SMT DEF SentinelInit, Init, Runs, ServersAssumption
<1>2. ~(pc >= 3)
  BY <1>1, SMT
<1> QED BY <1>1, <1>2, ServersProjections, NewBackup DEF Orphaned, OrphanInv

\* The commands of the script.
LEMMA OrphanCommand ==
  ASSUME CommandKnown, OrphanInv, Configure \/ ServerCommand \/ Flush \/ Collect \/ Notify
  PROVE  OrphanInv'
<1>1. pc' = pc + 1 /\ run' = run /\ pc \in Nat \ {0} /\ pc <= Length
  BY DEF CommandKnown, RunKnown
<1>2. CASE Configure
  <2>1. pc = 2 /\ Arg = Ports
    BY <1>2, ExperimentCommands DEF CommandKnown, RunKnown, Experiment, Configure, Prepare, Run
  <2>2. known' = {} /\ follows' = Configured
    BY <1>2, <2>1, PortsAre DEF Configure
  <2>3. proc[<<run, backup_new_port>>] = "none"
    BY <2>1 DEF OrphanInv
  <2>4. proc'[<<run, backup_new_port>>] = "none"
    BY <1>2, <2>3, Killing, ServersProjections, NewBackup
       DEF Configure, Prepare, cleanup_servers, CommandKnown, RunKnown
  <2> QED BY <1>1, <2>2, <2>4, NewBackup DEF OrphanInv
<1>3. CASE start_instance /\ UNCHANGED sentinelVars
  <2>1. pc \in {3, 4, 5, 11} /\ Arg = redis_sentinel[pc].arg
    BY <1>3, ExperimentCommands, ExperimentProgram
       DEF CommandKnown, RunKnown, Experiment, start_instance, Run, Arg
  <2>2. follows[backup_new_port] = primary_port /\ backup_new_port \notin known
    BY <2>1 DEF OrphanInv
  <2>3. CASE pc = 11
    BY <1>1, <1>3, <2>2, <2>3 DEF OrphanInv, sentinelVars
  <2>4. CASE pc # 11
    <3>1. Arg # backup_new_port
      BY <2>1, <2>4, SMT DEF redis_sentinel, Do, primary_port, backup_old_port, backup_new_port,
         sentinel_port
    <3>2. proc'[<<run, backup_new_port>>] = proc[<<run, backup_new_port>>]
      BY <1>3, <3>1, ServersProjections, NewBackup
         DEF start_instance, CommandKnown, RunKnown, ServerFacts
    <3>3. pc <= 11
      BY <2>1
    <3> QED BY <1>1, <1>3, <2>2, <3>2, <3>3 DEF OrphanInv, sentinelVars
  <2> QED BY <2>3, <2>4
<1>4. CASE kill_server /\ UNCHANGED sentinelVars
  <2>1. pc = 10
    BY <1>4, ExperimentCommands DEF CommandKnown, RunKnown, Experiment, kill_server, Run
  <2>2. proc[<<run, backup_new_port>>] = "none"
    BY <2>1 DEF OrphanInv
  <2>3. proc'[<<run, backup_new_port>>] = "none"
    BY <1>4, <2>2, Killing, ServersProjections, NewBackup
       DEF kill_server, CommandKnown, RunKnown
  <2> QED BY <1>1, <1>4, <2>1, <2>3 DEF OrphanInv, sentinelVars
<1>5. CASE (\E what \in {"create", "flush", "collect", "notify"} : Other(what))
           /\ UNCHANGED sentinelVars
  <2>1. UNCHANGED <<proc, follows, known>>
    BY <1>5 DEF Other, serverVars, sentinelVars
  <2>2. pc \in 1..11 /\ pc # 2
    <3>1. pc # 2
      BY <1>5, ExperimentCommands DEF CommandKnown, RunKnown, Experiment, Other, Run
    <3> QED BY <1>1, <3>1, ExperimentProgram, SMT DEF CommandKnown, RunKnown, Experiment
  <2> QED BY <1>1, <2>1, <2>2, SMT DEF OrphanInv
<1> QED BY <1>2, <1>3, <1>4, <1>5 DEF ServerCommand, Flush, Collect, Notify

LEMMA OrphanStep ==
  ASSUME ServersAssumption, ClientsAssumption, AllInv, Orphaned, [SentinelNext]_allVars
  PROVE  Orphaned'
<1>1. AllInv'
  BY ExperimentStep
<1> SUFFICES ASSUME Experiment', missed' = {} PROVE OrphanInv'
  BY DEF Orphaned
<1>2. CASE Again
  <2>1. pc' = 1 /\ run' = run + 1 /\ UNCHANGED proc
    BY <1>2 DEF Again, NextRun, serverVars
  <2>2. run \in Nat /\ run' \in Runs
    BY <1>1, <2>1, SMT DEF AllInv, ServersInv, ScriptsInv, TypeOK, Runs, ServersAssumption
  <2>3. run' > run
    BY <2>1, <2>2, SMT
  <2>4. proc'[<<run', backup_new_port>>] = "none"
    BY <2>1, <2>2, <2>3, ServersProjections, NewBackup DEF AllInv, ServersInv, ScriptsInv
  <2>5. ~(pc' >= 3)
    BY <2>1, SMT
  <2> QED BY <2>4, <2>5 DEF OrphanInv
<1>3. CASE Interrupt
  BY <1>3 DEF Interrupt, SIGINT_handler, Killed, Experiment
<1>4. CASE ~Again /\ ~Interrupt
  <2>1. /\ run' = run /\ programs' = programs /\ running' = running
        /\ missed \subseteq missed'
    BY <1>4 DEF SentinelNext, Script, Configure, ServerCommand, Flush, Collect, Notify,
       BootServer, Discover, Failover, Client, Launch, Publish, Pass, Return, Prepare,
       start_instance, kill_server, Other, Run, Boot, allVars, vars, scriptVars, serverVars,
       cleanup_servers
  <2>2. Experiment /\ missed = {} /\ OrphanInv
    BY <2>1 DEF Experiment, program, Orphaned
  <2>3. RunKnown
    <3>1. pc \in Nat \ {0}
      BY SMT DEF AllInv, ServersInv, ScriptsInv, TypeOK
    <3> QED BY <2>1, <2>2, <3>1, ServersParts DEF RunKnown, AllInv, ExperimentInv
  <2>4. CASE Script
    <3>1. CommandKnown
      BY <2>3, <2>4 DEF Script, Configure, ServerCommand, Flush, Collect, Notify, Prepare,
         start_instance, kill_server, Other, Run, CommandKnown
    <3> QED BY <2>2, <2>4, <3>1, OrphanCommand DEF Script
  <2>5. ASSUME NEW s \in Servers, BootServer(s) PROVE OrphanInv'
    <3>1. /\ UNCHANGED <<pc, follows, known>> /\ proc[s] = "booting"
          /\ \/ proc' = [proc EXCEPT ![s] = "up"]
             \/ proc' = [proc EXCEPT ![s] = "none"]
      BY <2>5 DEF BootServer, Boot, scriptVars, sentinelVars
    <3>2. \A t \in Servers : t # s => proc'[t] = proc[t]
      BY <2>3, <3>1 DEF RunKnown, ServerFacts
    <3>3. pc <= 11 => proc'[<<run, backup_new_port>>] = "none"
      BY <2>2, <2>3, <3>1, <3>2, ServersProjections, NewBackup DEF OrphanInv, RunKnown
    <3> QED BY <2>1, <2>2, <3>1, <3>3 DEF OrphanInv
  <2>6. ASSUME NEW p \in Ports, Discover(p) PROVE OrphanInv'
    <3>1. UNCHANGED <<pc, proc, follows>> /\ known' = known \cup {p}
      BY <2>6 DEF Discover, vars, scriptVars, serverVars
    <3>2. pc >= 3 => p # backup_new_port
      BY <2>2, <2>3, <2>6, NotDiscovered DEF RunKnown
    <3> QED BY <2>1, <2>2, <3>1, <3>2 DEF OrphanInv
  <2>7. ASSUME NEW p \in Ports, Failover(p) PROVE OrphanInv'
    <3>1. UNCHANGED <<pc, proc>> /\ p \in known /\ known' = known \ {p}
      BY <2>7 DEF Failover, vars, scriptVars, serverVars
    <3>2. backup_new_port \notin known => follows'[backup_new_port] = follows[backup_new_port]
      <4> SUFFICES ASSUME backup_new_port \notin known
                   PROVE  follows'[backup_new_port] = follows[backup_new_port]
        OBVIOUS
      <4>1. backup_new_port # p /\ backup_new_port \notin known \ {p}
        BY <3>1
      <4>2. follows'[backup_new_port] = CASE backup_new_port = p -> 0
                                          [] backup_new_port \in known \ {p} -> p
                                          [] OTHER -> follows[backup_new_port]
        BY <2>7, NewBackup DEF Failover
      <4> QED BY <4>1, <4>2
    <3> QED BY <2>1, <2>2, <3>1, <3>2 DEF OrphanInv
  <2>8. CASE (\E c \in Clients : Client(c)) \/ UNCHANGED allVars
    <3>1. UNCHANGED <<pc, proc, follows, known>>
      BY <2>8 DEF Client, Launch, Publish, Pass, Return, allVars, vars, scriptVars, serverVars,
         sentinelVars
    <3> QED BY <2>1, <2>2, <3>1 DEF OrphanInv
  <2> QED BY <1>4, <2>4, <2>5, <2>6, <2>7, <2>8 DEF SentinelNext
<1> QED BY <1>2, <1>3, <1>4

\* In every experiment that has missed no server, in a clean-up or with a kill
\* that failed, the new backup is configured for a server that nobody runs any
\* more, and stays unknown to Sentinel: the counterexample to Rereplicated is no
\* accident of its timing.
THEOREM BackupForgotten ==
  ASSUME ServersAssumption, ClientsAssumption
  PROVE  SentinelSpec => []BackupOrphaned
<1> DEFINE Inv == AllInv /\ Orphaned
<1>1. SentinelInit => Inv
  BY InitExperiment, OrphanInit
<1>2. Inv /\ [SentinelNext]_allVars => Inv'
  BY ExperimentStep, OrphanStep
<1>3. Inv => BackupOrphaned
  <2> SUFFICES ASSUME Inv, Experiment, Past("kill"), missed = {}
               PROVE  /\ ~Serves(primary_port) /\ follows[backup_new_port] = primary_port
                      /\ backup_new_port \notin known
    BY DEF BackupOrphaned
  <2>1. pc \in Nat \ {0}
    BY SMT DEF AllInv, ServersInv, ScriptsInv, TypeOK
  <2>2. pc >= 3
    <3>1. pc >= 11
      BY <2>1, ExperimentPast DEF Experiment
    <3> QED BY <2>1, <3>1, SMT
  <2>3. ~Serves(primary_port)
    BY KilledForReal DEF PrimaryKilled, Serves
  <2> QED BY <2>2, <2>3 DEF Orphaned, OrphanInv
<1> QED BY <1>1, <1>2, <1>3, PTL DEF SentinelSpec
==============================================================================
