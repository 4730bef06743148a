------------------------------ MODULE YcsbProofs ------------------------------
(***************************************************************************)
(* Proofs about the YCSB experiments.  LoadAndTrans, for every number of   *)
(* clients, lines and errors, with failing requests to memcached: no       *)
(* transaction before the data set is loaded.  YcsbSweep, for any number   *)
(* of workloads and of rounds, and whatever is left in memcached at the    *)
(* start: ycsb.py goes on with the server it has started, and leaves       *)
(* nothing of a workload to the next.                                      *)
(***************************************************************************)
EXTENDS LoadAndTrans, YcsbSweep, WellFoundedInduction, TLAPS

(* LoadAndTrans: what the barriers guarantee comes from MemcachedSyncProofs. *)

SyncFacts == INSTANCE MemcachedSyncProofs
  WITH ClientRounds <- 2, ControllerRounds <- 2, OrderedStart <- TRUE

\* Every step of the composition is a step of the protocol or invisible to it.
LEMMA SyncStep == ASSUME [Next]_vars PROVE [Sync!Next]_barrierVars
<1>1. ASSUME NEW p \in Procs, Launch(p) PROVE Sync!Next
  BY <1>1 DEF Launch, Procs, Sync!Next
<1>2. ASSUME NEW c \in Clients, Ready(c) \/ Leave(c) \/ Return(c) PROVE Sync!Next
  BY <1>2 DEF Ready, Leave, Return, Clients, Sync!Next, Sync!ClientNext
<1>3. ASSUME NEW c \in Clients, Load(c) \/ LoadFails(c) PROVE UNCHANGED barrierVars
  BY <1>3 DEF Load, LoadFails
<1>4. CASE Controller
  BY <1>4 DEF Controller, Sync!Next
<1>5. CASE UNCHANGED vars
  BY <1>5 DEF vars
<1> QED
  BY <1>1, <1>2, <1>3, <1>4, <1>5 DEF Next, Worker, Terminated

\* The composition implements the barrier protocol.
THEOREM SyncRefinement == Spec => ImplementsSync
<1>1. Init => Sync!Init
  BY DEF Init
<1>2. [Next]_vars => [Sync!Next]_(Sync!vars)
  BY SyncStep DEF barrierVars, Sync!vars
<1> QED BY <1>1, <1>2, PTL DEF Spec, ImplementsSync, Sync!Spec

\* So the invariant of the protocol holds of it; the two instances of the
\* protocol have the same definitions.
LEMMA SyncInvariant == Spec => []Sync!IInv
<1>1. Sync!Init => SyncFacts!Init
  BY
     DEF Sync!Init, SyncFacts!Init, Sync!LeftByEarlierRun,
         SyncFacts!LeftByEarlierRun, Sync!Clients, SyncFacts!Clients,
         Sync!Rounds, SyncFacts!Rounds, Sync!Nodes, SyncFacts!Nodes,
         Sync!NodeOf, SyncFacts!NodeOf
<1>2. [Sync!Next]_(Sync!vars) => [SyncFacts!Next]_(SyncFacts!vars)
  BY
     DEF Sync!Clients, SyncFacts!Clients, Sync!Rounds, SyncFacts!Rounds,
         Sync!Nodes, SyncFacts!Nodes, Sync!NodeOf, SyncFacts!NodeOf,
         Sync!Running, SyncFacts!Running, Sync!Launch, SyncFacts!Launch,
         Sync!Publish, SyncFacts!Publish, Sync!PublishFails,
         SyncFacts!PublishFails, Sync!Poll, SyncFacts!Poll, Sync!Finish,
         SyncFacts!Finish, Sync!Flush, SyncFacts!Flush, Sync!FlushLost,
         SyncFacts!FlushLost, Sync!Collect, SyncFacts!Collect, Sync!AllCollected, SyncFacts!AllCollected,
         Sync!NextRound, SyncFacts!NextRound, Sync!Notify, SyncFacts!Notify,
         Sync!NotifyLost, SyncFacts!NotifyLost, Sync!ClientNext,
         SyncFacts!ClientNext, Sync!Controller, SyncFacts!Controller,
         Sync!Terminated, SyncFacts!Terminated, Sync!Next, SyncFacts!Next,
         Sync!vars, SyncFacts!vars, Sync!clientVars, SyncFacts!clientVars,
         Sync!ctlVars, SyncFacts!ctlVars
<1>3. SyncFacts!IInv => Sync!IInv
  BY
     DEF Sync!IInv, SyncFacts!IInv, Sync!TypeOK, SyncFacts!TypeOK,
         Sync!RoundsBounded, SyncFacts!RoundsBounded,
         Sync!NobodyBeforeFlush, SyncFacts!NobodyBeforeFlush,
         Sync!KeysAreTrue, SyncFacts!KeysAreTrue, Sync!Lockstep,
         SyncFacts!Lockstep, Sync!Entered, SyncFacts!Entered, Sync!Clients,
         SyncFacts!Clients, Sync!Rounds, SyncFacts!Rounds, Sync!Nodes,
         SyncFacts!Nodes, Sync!NodeOf, SyncFacts!NodeOf
<1>4. SyncFacts!Spec => []SyncFacts!IInv
  <2>1. SyncFacts!SyncAssumption
    BY LoadAssumption DEF SyncFacts!SyncAssumption
  <2> QED BY <2>1, SyncFacts!Invariance, PTL
<1> QED
  BY <1>1, <1>2, <1>3, <1>4, SyncRefinement, PTL DEF ImplementsSync, Sync!Spec, SyncFacts!Spec
------------------------------------------------------------------------------
LoadTypeOK ==
  /\ todo \in [Clients -> SUBSET Lines]
  /\ store \subseteq Lines

LoadInv == LoadTypeOK /\ SharesLoaded

\* Every line is in the share of a client.
LEMMA SharesCover ==
  ASSUME NEW n \in Lines
  PROVE  \E c \in Clients : n \in Share(c)
<1>1. NumClients \in Nat /\ NumClients > 0 /\ n \in Int
  BY LoadAssumption DEF Lines
<1>2. n % NumClients \in 0..NumClients - 1
  BY <1>1, SMT
<1>3. (n % NumClients) + 1 \in Clients
  BY <1>1, <1>2, SMT DEF Clients, Sync!Clients
<1> QED BY <1>3 DEF Share

\* A line that is being loaded is one of the thread's own.
LEMMA CurrentLine ==
  ASSUME LoadTypeOK, NEW c \in Clients, todo[c] # {}
  PROVE  Current(c) \in Lines
<1>1. todo[c] \subseteq Lines
  BY DEF LoadTypeOK
<1>2. \E n \in todo[c] : \A m \in todo[c] : n <= m
  <2>1. todo[c] \subseteq Nat
    BY <1>1, LoadAssumption, SMT DEF Lines
  <2>2. \E n \in todo[c] : \A m \in todo[c] : ~(<<m, n>> \in OpToRel(<, Nat))
    BY <2>1, NatLessThanWellFounded, WFMin, Zenon
  <2>3. \A m, n \in Nat : m < n => <<m, n>> \in OpToRel(<, Nat)
    BY DEF OpToRel
  <2>4. PICK n \in todo[c] : \A m \in todo[c] : ~(m < n)
    BY <2>1, <2>2, <2>3, Zenon
  <2> QED BY <2>1, <2>4, SMT
<1> QED BY <1>1, <1>2 DEF Current

LEMMA LoadStep ==
  ASSUME LoadInv, Sync!IInv, [Next]_vars
  PROVE  LoadInv'
<1> USE DEF LoadInv, LoadTypeOK
<1>1. ASSUME NEW p \in Procs, Launch(p) PROVE LoadInv'
  <2>1. /\ todo' = [c \in Clients |-> IF Proc(c) = p THEN Share(c) ELSE todo[c]]
        /\ store' = store /\ num_sync' = num_sync
        /\ pc' = [c \in Clients |-> IF Proc(c) = p THEN "outside" ELSE pc[c]]
        /\ \A c \in Clients : Proc(c) = p => pc[c] = "off"
    BY <1>1 DEF Launch, Sync!Launch, Proc, Clients
  <2>2. LoadTypeOK'
    BY <2>1 DEF Share
  <2>3. ASSUME NEW c \in Clients, pc'[c] # "off" PROVE Share(c) \ todo'[c] \subseteq store'
    <3>1. CASE Proc(c) = p
      BY <2>1, <3>1
    <3>2. CASE Proc(c) # p
      BY <2>1, <2>3, <3>2 DEF SharesLoaded
    <3> QED BY <3>1, <3>2
  <2>4. ASSUME NEW c \in Clients, Sync!Entered(c)' = 2 PROVE todo'[c] = {}
    <3>1. CASE Proc(c) = p
      <4>1. num_sync[c] = 0 /\ pc'[c] = "outside"
        BY <2>1, <3>1 DEF Sync!IInv, Sync!NobodyBeforeFlush, Clients
      <4>2. Sync!Entered(c)' = 0
        BY <2>1, <4>1 DEF Sync!Entered
      <4> QED BY <2>4, <4>2
    <3>2. CASE Proc(c) # p
      BY <2>1, <2>4, <3>2 DEF SharesLoaded, Sync!Entered
    <3> QED BY <3>1, <3>2
  <2> QED BY <2>2, <2>3, <2>4 DEF SharesLoaded
<1>2. ASSUME NEW c \in Clients, Ready(c) PROVE LoadInv'
  <2>1. /\ todo' = todo /\ store' = store /\ num_sync' = num_sync
        /\ pc[c] = "outside" /\ (num_sync[c] = 1 => todo[c] = {})
        /\ pc' = pc \/ pc' = [pc EXCEPT ![c] = "inside"]
    BY <1>2 DEF Ready, Sync!Publish, Sync!PublishFails
  <2>2. num_sync[c] \in 0..2 /\ pc \in [Clients -> {"off", "outside", "inside", "done"}]
    BY DEF Sync!IInv, Sync!TypeOK, Clients
  <2>3. \A d \in Clients : pc'[d] # "off" => pc[d] # "off"
    BY <2>1, <2>2
  <2>4. ASSUME NEW d \in Clients, Sync!Entered(d)' = 2 PROVE todo[d] = {}
    <3>1. CASE d = c
      BY <2>1, <2>2, <2>4, <3>1 DEF SharesLoaded, Sync!Entered
    <3>2. CASE d # c
      BY <2>1, <2>2, <2>4, <3>2 DEF SharesLoaded, Sync!Entered
    <3> QED BY <3>1, <3>2
  <2> QED BY <2>1, <2>3, <2>4 DEF SharesLoaded
<1>3. ASSUME NEW c \in Clients, Leave(c) PROVE LoadInv'
  <2>1. /\ todo' = todo /\ store' = store
        /\ num_sync' = [num_sync EXCEPT ![c] = @ + 1]
        /\ pc[c] = "inside" /\ pc' = [pc EXCEPT ![c] = "outside"]
    BY <1>3 DEF Leave, Sync!Poll
  <2>2. /\ num_sync \in [Clients -> 0..2]
        /\ pc \in [Clients -> {"off", "outside", "inside", "done"}]
    BY DEF Sync!IInv, Sync!TypeOK, Clients
  <2>3. \A d \in Clients : pc'[d] # "off" => pc[d] # "off"
    BY <2>1, <2>2
  <2>4. \A d \in Clients : Sync!Entered(d)' = Sync!Entered(d)
    BY <2>1, <2>2, SMT DEF Sync!Entered
  <2> QED BY <2>1, <2>3, <2>4 DEF SharesLoaded
<1>4. ASSUME NEW c \in Clients, Load(c) PROVE LoadInv'
  <2>1. /\ todo' = [todo EXCEPT ![c] = @ \ {Current(c)}]
        /\ store' = store \cup {Current(c)}
        /\ num_sync' = num_sync /\ pc' = pc /\ todo[c] # {}
    BY <1>4 DEF Load, Loading, barrierVars
  <2>2. Current(c) \in Lines
    BY <2>1, CurrentLine
  <2>3. LoadTypeOK'
    BY <2>1, <2>2
  <2>4. \A d \in Clients : Share(d) \ todo'[d] \subseteq (Share(d) \ todo[d]) \cup {Current(c)}
    BY <2>1
  <2>5. \A d \in Clients : todo'[d] \subseteq todo[d] /\ Sync!Entered(d)' = Sync!Entered(d)
    BY <2>1 DEF Sync!Entered
  <2> QED BY <2>1, <2>3, <2>4, <2>5 DEF SharesLoaded
<1>5. ASSUME NEW c \in Clients, LoadFails(c) PROVE LoadInv'
  <2>1. /\ todo' = todo /\ num_sync' = num_sync /\ pc' = pc
        /\ store' \in {store, store \cup {Current(c)}} /\ todo[c] # {}
    BY <1>5 DEF LoadFails, Loading, barrierVars
  <2>2. Current(c) \in Lines
    BY <2>1, CurrentLine
  <2>3. store \subseteq store' /\ store' \subseteq Lines
    BY <2>1, <2>2
  <2> QED BY <2>1, <2>3 DEF SharesLoaded, Sync!Entered
<1>6. ASSUME NEW c \in Clients, Return(c) PROVE LoadInv'
  <2>1. /\ todo' = todo /\ store' = store /\ num_sync' = num_sync
        /\ pc[c] = "outside" /\ pc' = [pc EXCEPT ![c] = "done"]
    BY <1>6 DEF Return, Sync!Finish
  <2>2. pc \in [Clients -> {"off", "outside", "inside", "done"}]
    BY DEF Sync!IInv, Sync!TypeOK, Clients
  <2>3. \A d \in Clients : /\ pc'[d] # "off" => pc[d] # "off"
                           /\ Sync!Entered(d)' = Sync!Entered(d)
    BY <2>1, <2>2 DEF Sync!Entered
  <2> QED BY <2>1, <2>3 DEF SharesLoaded
<1>7. CASE Controller
  <2>1. UNCHANGED <<todo, store, num_sync, pc>>
    BY <1>7 DEF Controller, Sync!Controller, Sync!Flush, Sync!FlushLost, Sync!Collect,
       Sync!Notify, Sync!NotifyLost, Sync!NextRound, Sync!clientVars
  <2> QED BY <2>1 DEF SharesLoaded, Sync!Entered
<1>8. CASE UNCHANGED vars
  BY <1>8 DEF vars, barrierVars, SharesLoaded, Sync!Entered
<1> QED
  BY <1>1, <1>2, <1>3, <1>4, <1>5, <1>6, <1>7, <1>8 DEF Next, Worker, Terminated

\* A thread that is past the barrier has loaded its share, in every run.
THEOREM LoadInvariance == Spec => []LoadInv
<1>1. Init => LoadInv
  <2> SUFFICES ASSUME Init PROVE LoadInv
    OBVIOUS
  <2>1. \A c \in Clients : todo[c] = {} /\ pc[c] = "off"
    BY DEF Init, Sync!Init, Clients
  <2>2. store = {} /\ todo \in [Clients -> SUBSET Lines]
    BY DEF Init
  <2> QED BY <2>1, <2>2 DEF LoadInv, LoadTypeOK, SharesLoaded
<1>2. LoadInv /\ Sync!IInv /\ [Next]_vars => LoadInv'
  BY LoadStep
<1> QED BY <1>1, <1>2, SyncInvariant, PTL DEF Spec

\* No transaction before every line of every client is loaded: the shares cover
\* the file, and the second barrier waits for all threads, unless keys of an
\* earlier run survive a flush_all that is lost.
THEOREM LoadedBeforeTrans == Spec => []TransAfterLoad
<1>1. LoadInv /\ Sync!IInv => TransAfterLoad
  <2> SUFFICES ASSUME LoadInv, Sync!IInv, ~stale, NEW c \in Clients, num_sync[c] = 2
               PROVE  store = Lines
    BY DEF TransAfterLoad
  <2>1. ASSUME NEW d \in Clients PROVE Share(d) \subseteq store
    <3>1. /\ num_sync[d] \in 0..2 /\ num_sync[c] <= Sync!Entered(d)
          /\ pc[d] = "inside" => num_sync[d] < 2
          /\ pc[d] = "off" => num_sync[d] = 0
      BY DEF Sync!IInv, Sync!TypeOK, Sync!Lockstep, Sync!RoundsBounded,
         Sync!NobodyBeforeFlush, Clients
    <3>2. Sync!Entered(d) = 2 /\ pc[d] # "off"
      BY <3>1, SMT DEF Sync!Entered
    <3> QED BY <3>2 DEF LoadInv, SharesLoaded
  <2>2. Lines \subseteq store
    BY <2>1, SharesCover
  <2> QED BY <2>2 DEF LoadInv, LoadTypeOK
<1> QED BY <1>1, LoadInvariance, SyncInvariant, PTL

\* The repeated SETs are counted within their bound.
ErrorsInv == errors \in 0..MaxErrors

LEMMA ErrorsBounded == Spec => []ErrorsInv
<1>1. Init => ErrorsInv
  BY LoadAssumption, SMT DEF Init, ErrorsInv
<1>2. ErrorsInv /\ [Next]_vars => ErrorsInv'
  <2> SUFFICES ASSUME errors \in 0..MaxErrors, [Next]_vars PROVE errors' \in 0..MaxErrors
    BY DEF ErrorsInv
  <2>1. errors' = errors \/ (errors < MaxErrors /\ errors' = errors + 1)
    <3>1. ASSUME NEW p \in Procs, Launch(p) PROVE errors' = errors
      BY <3>1 DEF Launch
    <3>2. ASSUME NEW c \in Clients, Worker(c)
          PROVE  errors' = errors \/ (errors < MaxErrors /\ errors' = errors + 1)
      BY <3>2 DEF Worker, Ready, Leave, Load, LoadFails, Return
    <3>3. CASE Controller \/ UNCHANGED vars
      BY <3>3 DEF Controller, vars
    <3> QED BY <3>1, <3>2, <3>3 DEF Next, Terminated
  <2>2. MaxErrors \in Nat
    BY LoadAssumption
  <2> QED BY <2>1, <2>2, SMT
<1> QED BY <1>1, <1>2, PTL DEF Spec

\* Variables keep their types: in particular a thread loads only lines of the
\* file.
THEOREM TypeInvariant == Spec => []TypeOK
<1>1. LoadInv /\ Sync!IInv /\ ErrorsInv => TypeOK
  BY DEF ErrorsInv, LoadInv, LoadTypeOK, Sync!IInv, TypeOK
<1> QED BY <1>1, LoadInvariance, SyncInvariant, ErrorsBounded, PTL
------------------------------------------------------------------------------
(* YcsbSweep.                                                               *)

\* Between the launch of a starter and its report nobody finds a ready key, nor
\* does anyone from the first round on: FlushAtStart or FlushRound has removed
\* the one of the starter before.
ReadyIsNew ==
  \/ script \in {"launch", "start", "wait-0", "wait-1", "results", "finish", "join"}
  \/ script = "waitServer" /\ starter \in {"starting", "report"}
  => "redis-ready" \notin keys

\* Where the starter and the clients are, as far as ycsb.py can tell.
Idle ==
  /\ script \in {"begin", "launch", "done"} => starter = "off"
  /\ script \in {"begin", "launch", "waitServer", "flush", "start", "finish", "join", "done"} =>
       clients = "off"

\* A starter that has ended has stopped its server.
ServerStopped ==
  script # "begin" /\ (script \in {"launch", "done"} => wl > 0) /\ starter = "off" => ~server

SweepInv ==
  /\ SweepTypeOK
  /\ script = "begin" => wl = 0
  /\ script # "done" => wl < NumWorkloads
  /\ ReadyIsNew
  /\ ServerIsNew
  /\ Idle
  /\ ServerStopped
------------------------------------------------------------------------------
LEMMA SweepStart == ASSUME SweepAssumption, SweepInit PROVE SweepInv
BY DEF SweepAssumption, SweepInit, SweepInv, SweepTypeOK, ReadyIsNew, ServerIsNew, Idle, ServerStopped

\* ycsb.py keeps the invariant: each of its steps.
LEMMA ScriptKeeps ==
  ASSUME SweepAssumption, SweepInv, YcsbScript
  PROVE  SweepInv'
<1> USE DEF Go, SweepInv, SweepTypeOK, ReadyIsNew, ServerIsNew, Idle, ServerStopped
<1>1. CASE FlushAtStart
  BY <1>1, SMT DEF FlushAtStart, Keys
<1>2. CASE LaunchStarter
  BY <1>2, SMT DEF LaunchStarter
<1>3. CASE ServerReady
  BY <1>3, SMT DEF ServerReady
<1>4. CASE FlushRound
  BY <1>4, SMT DEF FlushRound, Keys
<1>5. CASE StartClients
  BY <1>5, SMT DEF StartClients
<1>6. CASE NotifyLoad
  BY <1>6, SMT DEF NotifyLoad, Notify, Keys
<1>7. CASE NotifyTrans
  BY <1>7, SMT DEF NotifyTrans, Notify, Keys
<1>8. CASE Results
  <2>1. round' \in 0..NumRounds - 1
    BY <1>8, SMT DEF Results, LastRound, SweepAssumption
  <2> QED BY <1>8, <2>1, SMT DEF Results
<1>9. CASE SetFinish
  BY <1>9, SMT DEF SetFinish, Keys
<1>10. CASE NextWorkload
  <2>1. wl' \in 0..NumWorkloads /\ wl' > 0 /\ (script' # "done" => wl' < NumWorkloads)
    BY <1>10, SMT DEF NextWorkload, SweepAssumption
  <2> QED BY <1>10, <2>1, SMT DEF NextWorkload
<1> QED BY <1>1, <1>2, <1>3, <1>4, <1>5, <1>6, <1>7, <1>8, <1>9, <1>10 DEF YcsbScript

\* The starter keeps it.
LEMMA StarterKeeps ==
  ASSUME SweepInv, Starter
  PROVE  SweepInv'
<1> USE DEF GoStarter, scriptVars, SweepInv, SweepTypeOK, ReadyIsNew, ServerIsNew, Idle, ServerStopped
<1>1. CASE StartServer
  BY <1>1, SMT DEF StartServer
<1>2. CASE ReportReady
  <2>1. script = "waitServer" /\ script' = script /\ starter' = "serving"
    BY <1>2, SMT DEF ReportReady
  <2> QED BY <1>2, <2>1, SMT DEF ReportReady, Keys
<1>3. CASE SeeFinish
  BY <1>3, SMT DEF SeeFinish
<1>4. CASE StopServer
  <2>1. UNCHANGED <<keys, script, wl, round, clients>> /\ starter' = "off"
    BY <1>4 DEF StopServer
  <2>2. server' = FALSE
    BY <1>4 DEF StopServer
  <2>3. SweepTypeOK'
    BY <2>1, <2>2
  <2>4. ServerStopped'
    BY <2>2
  <2> QED BY <2>1, <2>3, <2>4, SMT
<1> QED BY <1>1, <1>2, <1>3, <1>4 DEF Starter

\* The clients keep it.
LEMMA ClientsKeep ==
  ASSUME SweepInv, ClientsNext
  PROVE  SweepInv'
<1> USE DEF GoClients, scriptVars, SweepInv, SweepTypeOK, ReadyIsNew, ServerIsNew, Idle, ServerStopped
<1>1. CASE ClientsReady
  BY <1>1, SMT DEF ClientsReady, Publish, Keys
<1>2. CASE ClientsGo
  BY <1>2, SMT DEF ClientsGo
<1>3. CASE ClientsLoaded
  BY <1>3, SMT DEF ClientsLoaded, Publish, Keys
<1>4. CASE ClientsFinish
  BY <1>4, SMT DEF ClientsFinish, Publish, Keys
<1> QED BY <1>1, <1>2, <1>3, <1>4 DEF ClientsNext

LEMMA SweepInvariance == ASSUME SweepAssumption PROVE SweepSpec => []SweepInv
<1>1. SweepInit => SweepInv
  BY SweepStart
<1>2. SweepInv /\ [SweepNext]_sweepVars => SweepInv'
  <2>1. ASSUME SweepInv, UNCHANGED sweepVars PROVE SweepInv'
    BY <2>1 DEF sweepVars, scriptVars, SweepInv, SweepTypeOK, ReadyIsNew, ServerIsNew, Idle, ServerStopped
  <2> QED BY <2>1, ScriptKeeps, StarterKeeps, ClientsKeep DEF SweepNext
<1> QED BY <1>1, <1>2, PTL DEF SweepSpec
------------------------------------------------------------------------------
\* ycsb.py, its starter and the clients stay within their types; in particular
\* the client count never runs past num_client_list.
THEOREM SweepTypeInvariant == ASSUME SweepAssumption PROVE SweepSpec => []SweepTypeOK
BY SweepInvariance, PTL DEF SweepInv

\* ycsb.py never takes the ready key of an earlier starter for the one of the
\* starter it waits for, even if memcached holds one when it begins.
THEOREM ServerNew == ASSUME SweepAssumption PROVE SweepSpec => []ServerIsNew
BY SweepInvariance, PTL DEF SweepInv

\* When a workload begins, the server, the starter and the clients of the one
\* before have ended.
THEOREM Apart == ASSUME SweepAssumption PROVE SweepSpec => []WorkloadsApart
<1>1. SweepInv => WorkloadsApart
  BY DEF SweepInv, Idle, ServerStopped, WorkloadsApart
<1> QED BY <1>1, SweepInvariance, PTL
==============================================================================
