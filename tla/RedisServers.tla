------------------------------ MODULE RedisServers ------------------------------
(***************************************************************************)
(* How the scripts of redis-perf start, kill and clean up Redis servers:   *)
(* redis-instance-starter.py in its three modes and redis-sentinel.py,     *)
(* with redis_utils.py, run one after the other on one node.               *)
(*                                                                         *)
(* A server on port p has ./p as its working directory.  redis-server      *)
(* returns to the script as soon as it is a daemon, which boots on its     *)
(* own, takes its port and writes ./p/pid; a script can only kill what has *)
(* written its pid.  A script waits for SIGINT at its end and cleans up    *)
(* then; it may also be killed without cleaning up.  The redis-cli command *)
(* that creates a cluster, flush_all and the barriers are Other commands,  *)
(* since they change no server.  Pids are not reused.                      *)
(***************************************************************************)
EXTENDS Integers, Sequences

CONSTANTS NumServers,  \* --num-servers
          KillFails,   \* sudo kill may fail
          MaxRuns      \* bound on the scripts that are run; the last one is not interrupted

ASSUME ServersAssumption ==
  /\ NumServers \in 3..4
  /\ KillFails \in BOOLEAN
  /\ MaxRuns \in Nat \ {0}

Ports == 7000..7003
server_ports == {7000 + i : i \in 0..NumServers - 1}
sentinel_port == 7000
primary_port == 7001
backup_old_port == 7002
backup_new_port == 7003

Runs == 1..MaxRuns
Servers == Runs \X Ports   \* the server that <<run, port>> has started
------------------------------------------------------------------------------
(* The programs.                                                           *)

Do(what, arg) == [do |-> what, arg |-> arg]

create_single_instance ==
  <<Do("prepare", {7000}), Do("start", 7000)>>

create_multiple_instances ==
  [k \in 1..2 * NumServers |->
     LET port == 7000 + (k - 1) \div 2
     IN  IF k % 2 = 1 THEN Do("prepare", {port}) ELSE Do("start", port)]

create_cluster ==
  <<Do("prepare", server_ports)>>
  \o [k \in 1..NumServers |-> Do("start", 6999 + k)]
  \o <<Do("create", server_ports)>>

redis_sentinel ==
  <<Do("flush", {}), Do("prepare", Ports),
    Do("start", primary_port), Do("start", backup_old_port), Do("start", sentinel_port),
    Do("collect", 0), Do("notify", 0), Do("collect", 1), Do("notify", 1),
    Do("kill", primary_port), Do("start", backup_new_port)>>

Programs == {"single", "multi", "cluster", "redis-sentinel"}

Commands ==
  [program \in Programs |->
     CASE program = "single" -> create_single_instance
       [] program = "multi" -> create_multiple_instances
       [] program = "cluster" -> create_cluster
       [] program = "redis-sentinel" -> redis_sentinel]

\* The ports that SIGINT_handler cleans up.
OwnPorts ==
  [program \in Programs |->
     CASE program = "single" -> {7000}
       [] program = "redis-sentinel" -> Ports
       [] OTHER -> server_ports]

VARIABLES
  run,       \* the number of the script that is run
  programs,  \* the program of each run; "single" for those to come
  pc,        \* its next command
  running,   \* it has neither exited nor been killed
  dir,       \* the run that has made ./<port>, 0 if there is no such directory
  pidfile,   \* the ports that have a file ./<port>/pid
  proc,      \* the state of each server
  missed     \* servers that a script could not end: their pid was not written yet
             \* when their directory was removed, or sudo kill has failed

scriptVars == <<run, programs, pc, running>>
serverVars == <<dir, pidfile, proc, missed>>
vars == <<scriptVars, serverVars>>

program == programs[run]
Length == Len(Commands[program])
Past(what) == \E j \in 1..pc - 1 : j <= Length /\ Commands[program][j].do = what

Booting == {s \in Servers : proc[s] = "booting"}
Up == {s \in Servers : proc[s] = "up"}

TypeOK ==
  /\ run \in Runs
  /\ programs \in [Runs -> Programs]
  /\ pc \in 1..Length + 1
  /\ running \in BOOLEAN
  /\ dir \in [Ports -> 0..MaxRuns]
  /\ pidfile \subseteq Ports
  /\ proc \in [Servers -> {"none", "booting", "up"}]
  /\ missed \subseteq Servers

Init ==
  /\ run = 1
  /\ programs \in {[r \in Runs |-> IF r = 1 THEN first ELSE "single"] : first \in Programs}
  /\ pc = 1 /\ running = TRUE
  /\ dir = [p \in Ports |-> 0] /\ pidfile = {}
  /\ proc = [s \in Servers |-> "none"]
  /\ missed = {}
------------------------------------------------------------------------------
(* redis_utils.py                                                          *)

\* The servers whose pids are found.
Found(ports) ==
  {s \in Booting \cup Up : s[2] \in ports \cap pidfile /\ dir[s[2]] = s[1]}

\* sudo kill -9 for each of them, whose result is ignored.
Kill(ports, survivors) ==
  /\ survivors \subseteq Found(ports) /\ (survivors # {} => KillFails)
  /\ proc' = [s \in Servers |-> IF s \in Found(ports) \ survivors THEN "none" ELSE proc[s]]

\* Bug variant: directories are removed with their servers running.
cleanup_without_kill(ports, mkdir) ==
  /\ missed' = missed \cup {s \in Booting : s[2] \in ports /\ dir[s[2]] = s[1]}
  /\ dir' = [p \in Ports |-> IF p \in ports THEN (IF mkdir THEN run ELSE 0) ELSE dir[p]]
  /\ pidfile' = pidfile \ ports
  /\ UNCHANGED proc

\* The servers whose pids are found are killed, and the directories are
\* removed, or replaced by empty ones.
cleanup_servers(ports, mkdir) ==
  /\ \E survivors \in SUBSET Found(ports) :
       /\ Kill(ports, survivors)
       /\ missed' = missed \cup survivors
                     \cup {s \in Booting : s[2] \in ports \ pidfile /\ dir[s[2]] = s[1]}
  /\ dir' = [p \in Ports |-> IF p \in ports THEN (IF mkdir THEN run ELSE 0) ELSE dir[p]]
  /\ pidfile' = pidfile \ ports
------------------------------------------------------------------------------
(* The commands of the scripts.                                            *)

Arg == Commands[program][pc].arg

Run(what) ==
  /\ running /\ pc <= Length /\ Commands[program][pc].do = what
  /\ pc' = pc + 1
  /\ UNCHANGED <<run, programs, running>>

\* cleanup_servers with mkdir, and create_config
Prepare ==
  /\ Run("prepare")
  /\ cleanup_servers(Arg, TRUE)

\* Without a directory for the port nothing is started.
start_instance ==
  /\ Run("start")
  /\ proc' = IF dir[Arg] = 0 THEN proc ELSE [proc EXCEPT ![<<dir[Arg], Arg>>] = "booting"]
  /\ UNCHANGED <<dir, pidfile, missed>>

\* Nothing is killed without a pid file; the file stays in any case.
kill_server ==
  /\ Run("kill")
  /\ \E survivors \in SUBSET Found({Arg}) :
       Kill({Arg}, survivors) /\ missed' = missed \cup survivors
  /\ UNCHANGED <<dir, pidfile>>

Other(what) ==
  /\ what \in {"create", "flush", "collect", "notify"}
  /\ Run(what)
  /\ UNCHANGED serverVars

\* The handler cleans up and exits; the number of servers may not be set yet
\* when the script has done nothing so far.
SIGINT_handler ==
  /\ running /\ run < MaxRuns /\ running' = FALSE
  /\ \/ cleanup_servers(OwnPorts[program], FALSE)
     \/ pc = 1 /\ UNCHANGED serverVars
  /\ UNCHANGED <<run, programs, pc>>

\* The script ends without cleaning up: another signal, or its terminal goes.
Killed ==
  /\ running /\ run < MaxRuns /\ running' = FALSE
  /\ UNCHANGED <<run, programs, pc, serverVars>>

\* The next script is started on the node.
NextRun ==
  /\ ~running
  /\ run' = run + 1
  /\ \E next \in Programs : programs' = [programs EXCEPT ![run + 1] = next]
  /\ pc' = 1 /\ running' = TRUE
  /\ UNCHANGED serverVars

\* A server takes its port, or ends if another one has it.  Its pid file goes
\* into the directory it was started in, and is lost if that is gone.
Boot(s) ==
  LET own == IF dir[s[2]] = s[1] THEN {s[2]} ELSE {}
  IN  /\ proc[s] = "booting"
      /\ \/ /\ \A t \in Up : t[2] # s[2]
            /\ proc' = [proc EXCEPT ![s] = "up"]
            /\ pidfile' = pidfile \cup own
         \/ /\ \E t \in Up : t[2] = s[2]
            /\ proc' = [proc EXCEPT ![s] = "none"]
            /\ pidfile' \in {pidfile, pidfile \cup own}
      /\ UNCHANGED <<scriptVars, dir, missed>>
------------------------------------------------------------------------------
Next ==
  \/ Prepare \/ start_instance \/ kill_server
  \/ \E what \in {"create", "flush", "collect", "notify"} : Other(what)
  \/ SIGINT_handler \/ Killed \/ NextRun
  \/ \E s \in Servers : Boot(s)

Spec == Init /\ [][Next]_vars
------------------------------------------------------------------------------
\* A server that runs can be killed by the next clean-up of its port: it is in
\* the directory of the port, with its pid.  Only a server gets lost that was
\* booting when its directory was removed, or that survived a failing kill.
ServersAccounted ==
  \A s \in (Booting \cup Up) \ missed :
    dir[s[2]] = s[1] /\ (s \in Up => s[2] \in pidfile)
==============================================================================
