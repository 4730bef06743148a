-------------------------- MODULE DMCSentinelProofs --------------------------
(***************************************************************************)
(* Proofs about DMCSentinel for every number of processes and threads.     *)
(***************************************************************************)
EXTENDS DMCSentinel, SumTheorems, TLAPS

\* The process of a thread is one of the processes.
LEMMA ProcType == ASSUME NEW t \in Threads PROVE Proc(t) \in Procs
<1> USE SentinelAssumption DEF Threads, Procs, Proc
<1> DEFINE q == (t - 1) \div NumThreads
<1>1. NumThreads \in Nat /\ NumThreads > 0 /\ NumProcs \in Nat /\ NumProcs > 0
  OBVIOUS
<1>2. t \in Int /\ t >= 1 /\ t <= NumProcs * NumThreads
  BY <1>1
<1>3. q \in Int /\ q >= 0 /\ NumThreads * q <= t - 1
  BY <1>1, <1>2
<1>4. NumThreads * q < NumThreads * NumProcs
  BY <1>1, <1>2, <1>3
<1>5. q < NumProcs
  BY <1>1, <1>3, <1>4
<1> QED BY <1>1, <1>3, <1>5
------------------------------------------------------------------------------
\* What Init establishes.
LEMMA NodesInit == Init => NodesInv
<1> SUFFICES ASSUME Init PROVE NodesInv
  OBVIOUS
<1> USE SentinelAssumption, ProcType DEF Init
<1>1. [i \in 1..NumInitial |-> i - 1] \in Seq(Servers)
      /\ Len([i \in 1..NumInitial |-> i - 1]) = NumInitial
  BY DEF Servers
<1>2. TypeOK
  BY <1>1 DEF TypeOK, Servers
<1>3. NodesBounded /\ BackupAfterPrimary /\ NewBackupAfterFailover
  BY <1>1 DEF NodesBounded, BackupAfterPrimary, NewBackupAfterFailover
<1> QED BY <1>2, <1>3 DEF NodesInv

\* The parts of the invariant that relate indices, nodes and atomics.
IndexInv == NodesBounded /\ BackupAfterPrimary /\ NewBackupAfterFailover

\* A step from a place where a request is under way, or to a place where none
\* is, that touches neither adapter nor atomics keeps those parts.
LEMMA MoveKeeps ==
  ASSUME NodesInv, NEW t \in Threads, NEW to,
         pc' = [pc EXCEPT ![t] = to],
         to \in {"request", "reply"} => pc[t] \in {"request", "reply"},
         UNCHANGED <<procVars, dmc_nodes, op, target>>
  PROVE  IndexInv'
BY DEF IndexInv, NodesInv, TypeOK, NodesBounded, BackupAfterPrimary,
       NewBackupAfterFailover, procVars

\* Where node 1 and the target of a SET are.
LEMMA FirstNodes ==
  ASSUME NodesInv, NEW t \in Threads
  PROVE  /\ Fallback(t) = 1
         /\ target[t] \in {0, 1} => dmc_nodes[t][target[t] + 1] = target[t]
<1>1. Len(dmc_nodes[t]) \in Nat /\ Len(dmc_nodes[t]) >= 2 /\ NumInitial >= 2 /\ NumInitial \in Nat
  BY SentinelAssumption DEF NodesInv, TypeOK, NodesBounded
<1>2. \A i \in 1..Len(dmc_nodes[t]) :
        dmc_nodes[t][i] = IF i <= NumInitial THEN i - 1 ELSE 2
  BY DEF NodesInv, NodesBounded
<1>3. dmc_nodes[t][1] = 0 /\ dmc_nodes[t][2] = 1
  BY <1>1, <1>2
<1> QED BY <1>3 DEF Fallback

\* The actions of a thread after Pick are such steps, and keep the types.
LEMMA RequestStep ==
  ASSUME NodesInv, NEW t \in Threads,
         Serve(t) \/ Return(t) \/ Fail(t) \/ FailTwice(t) \/ Finish(t)
  PROVE  TypeOK' /\ IndexInv'
<1> USE SentinelAssumption, ProcType
<1>1. IndexInv'
  BY MoveKeeps DEF Serve, Return, Fail, FailTwice, Finish, Go
<1>2. /\ pc' \in [Threads -> {"idle", "connect", "pick", "request", "reply",
                               "fbRequest", "fbReply", "done"}]
      /\ UNCHANGED <<alive, msgs, ctl, procVars, dmc_nodes, op, target>>
  BY DEF NodesInv, TypeOK, Serve, Return, Fail, FailTwice, Finish, Go
<1>3. ASSUME NEW p \in Procs, NEW n \in Servers, Count(p, n)
      PROVE  access_vector' \in [Procs -> [Servers -> Nat]]
  BY <1>3 DEF NodesInv, TypeOK, Count
<1>4. target[t] \in Servers /\ 1 \in Servers
  BY DEF NodesInv, TypeOK, Servers
<1>5. access_vector' \in [Procs -> [Servers -> Nat]]
  BY <1>3, <1>4 DEF NodesInv, TypeOK, Serve, Return, Fail, FailTwice, Finish
<1>6. writer' \in {0, 1} /\ glitches' \in 0..MaxGlitches
  <2>1. CASE Serve(t)
    <3>1. CASE pc[t] = "request"
      <4>1. op[t] = "SET" => Server(t) \in {0, 1}
        BY <3>1, FirstNodes DEF NodesInv, NodesBounded, Server
      <4> QED BY <2>1, <4>1 DEF NodesInv, TypeOK, Serve
    <3>2. CASE pc[t] = "fbRequest"
      <4>1. Server(t) = 1
        BY <3>2, FirstNodes DEF Server
      <4> QED BY <2>1, <4>1 DEF NodesInv, TypeOK, Serve
    <3> QED BY <2>1, <3>1, <3>2 DEF Serve, Go
  <2>2. CASE ~Serve(t)
    BY <2>2 DEF NodesInv, TypeOK, Return, Fail, FailTwice, Finish, Lost
  <2> QED BY <2>1, <2>2
<1>7. ops' \in [Threads -> Nat] /\ gets' \in [Threads -> Nat]
  <2>1. CASE Return(t)
    <3>1. ops \in [Threads -> Nat] /\ gets \in [Threads -> Nat]
      BY DEF NodesInv, TypeOK
    <3>2. /\ ops' = [ops EXCEPT ![t] = @ + 1]
          /\ gets' = [gets EXCEPT ![t] = @ + 1] \/ gets' = gets
      BY <2>1 DEF Return
    <3> QED BY <3>1, <3>2
  <2>2. CASE ~Return(t)
    BY <2>2 DEF NodesInv, TypeOK, Serve, Fail, FailTwice, Finish, countVars
  <2> QED BY <2>1, <2>2
<1>8. TypeOK'
  BY <1>2, <1>5, <1>6, <1>7 DEF NodesInv, TypeOK, procVars
<1> QED BY <1>1, <1>8

\* Connecting to the new backup appends server 2.
LEMMA ConnectStep ==
  ASSUME NodesInv, NEW t \in Threads, Connect(t)
  PROVE  TypeOK' /\ IndexInv'
<1> USE SentinelAssumption, ProcType
<1>1. CASE BackupMissing(t)
  <2> DEFINE new == Append(dmc_nodes[t], 2)
  <2>1. /\ dmc_nodes[t] \in Seq(Servers)
        /\ Len(dmc_nodes[t]) \in NumInitial..NumTotal - 1
        /\ connect_backup[Proc(t)]
    BY <1>1 DEF NodesInv, TypeOK, NodesBounded, BackupMissing
  <2>2. 2 \in Servers
    BY <2>1 DEF Servers
  <2>3. /\ new \in Seq(Servers)
        /\ Len(new) = Len(dmc_nodes[t]) + 1
        /\ \A i \in 1..Len(dmc_nodes[t]) : new[i] = dmc_nodes[t][i]
        /\ new[Len(dmc_nodes[t]) + 1] = 2
    BY <2>1, <2>2
  <2> HIDE DEF new
  <2>4. /\ dmc_nodes' = [dmc_nodes EXCEPT ![t] = new]
        /\ pc' = [pc EXCEPT ![t] = "pick"]
        /\ UNCHANGED <<alive, msgs, ctl, procVars, access_vector, op, target,
                       countVars, writer, glitches>>
    BY <1>1 DEF Connect, Go, new
  <2>5. TypeOK'
    BY <2>3, <2>4 DEF NodesInv, TypeOK, procVars, countVars
  <2>6. dmc_nodes'[t] = new /\ \A u \in Threads \ {t} : dmc_nodes'[u] = dmc_nodes[u]
    BY <2>4 DEF NodesInv, TypeOK
  <2>7. NodesBounded'
    <3>1. \A i \in 1..Len(new) : new[i] = IF i <= NumInitial THEN i - 1 ELSE 2
      <4> SUFFICES ASSUME NEW i \in 1..Len(new)
                   PROVE  new[i] = IF i <= NumInitial THEN i - 1 ELSE 2
        OBVIOUS
      <4>1. Len(dmc_nodes[t]) \in Nat /\ Len(dmc_nodes[t]) >= NumInitial /\ NumInitial \in Nat
        BY <2>1
      <4>2. CASE i \in 1..Len(dmc_nodes[t])
        BY <2>3, <4>2 DEF NodesInv, NodesBounded
      <4>3. CASE i = Len(dmc_nodes[t]) + 1
        BY <2>3, <4>1, <4>3
      <4> QED BY <2>3, <4>1, <4>2, <4>3
    <3>2. Len(new) \in NumInitial..NumTotal /\ target[t] < Len(new)
      <4>1. target[t] \in Int /\ target[t] < Len(dmc_nodes[t])
        BY DEF NodesInv, TypeOK, NodesBounded, Servers
      <4>2. Len(new) \in NumInitial..NumTotal
        BY <2>1, <2>3
      <4> QED BY <2>1, <2>3, <4>1, <4>2
    <3>3. pc'[t] = "pick" /\ \A u \in Threads \ {t} : pc'[u] = pc[u]
      BY <2>4 DEF NodesInv, TypeOK
    <3> SUFFICES ASSUME NEW u \in Threads
                 PROVE  /\ Len(dmc_nodes'[u]) \in NumInitial..NumTotal
                        /\ \A i \in 1..Len(dmc_nodes'[u]) :
                             dmc_nodes'[u][i] = IF i <= NumInitial THEN i - 1 ELSE 2
                        /\ target[u] < Len(dmc_nodes'[u])
                        /\ op[u] = "SET" /\ pc'[u] \in {"request", "reply"} => target[u] \in {0, 1}
      BY <2>4 DEF NodesBounded
    <3>4. CASE u = t
      BY <2>6, <3>1, <3>2, <3>3, <3>4
    <3>5. CASE u # t
      <4>1. dmc_nodes'[u] = dmc_nodes[u] /\ pc'[u] = pc[u]
        BY <2>6, <3>3, <3>5
      <4> QED BY <4>1 DEF NodesInv, NodesBounded
    <3> QED BY <3>4, <3>5
  <2>8. BackupAfterPrimary' /\ NewBackupAfterFailover'
    BY <2>1, <2>4, <2>6
       DEF NodesInv, TypeOK, BackupAfterPrimary, NewBackupAfterFailover, procVars
  <2> QED BY <2>5, <2>7, <2>8 DEF IndexInv
<1>2. CASE ~BackupMissing(t)
  <2>1. IndexInv'
    BY <1>2, MoveKeeps DEF Connect, Go
  <2>2. TypeOK'
    BY <1>2 DEF NodesInv, TypeOK, Connect, Go, procVars, countVars
  <2> QED BY <2>1, <2>2
<1> QED BY <1>1, <1>2

\* The node picked is below the size of dmc_nodes_, and it is not node 0 once
\* this adapter is connected to the new backup.
LEMMA PickStep ==
  ASSUME NodesInv, NEW t \in Threads, Pick(t)
  PROVE  TypeOK' /\ IndexInv'
<1> USE SentinelAssumption, ProcType
<1>1. PICK n \in Targets(t) : target' = [target EXCEPT ![t] = n]
  BY DEF Pick
<1>2. /\ n \in Nat /\ n < Len(dmc_nodes[t]) /\ n \in Servers
      /\ op[t] = "SET" => n \in {0, 1}
      /\ primary_idx[Proc(t)] = 1 => n # 0
  <2>1. /\ primary_idx[Proc(t)] \in {0, 1}
        /\ Len(dmc_nodes[t]) \in 2..NumTotal
        /\ op[t] \in {"GET", "SET"}
    <3>1. primary_idx[Proc(t)] \in {0, 1} /\ op[t] \in {"GET", "SET"}
      BY DEF NodesInv, TypeOK
    <3>2. Len(dmc_nodes[t]) \in NumInitial..NumTotal
      BY DEF NodesInv, NodesBounded
    <3> QED BY <3>1, <3>2
  <2>2. CASE op[t] = "GET"
    BY <1>1, <2>1, <2>2 DEF Targets, Servers
  <2>3. CASE op[t] = "SET"
    BY <1>1, <2>1, <2>3 DEF Targets, Servers
  <2> QED BY <2>1, <2>2, <2>3
<1>3. TypeOK'
  BY <1>1, <1>2 DEF NodesInv, TypeOK, Pick, Go, procVars, countVars
<1>4. /\ pc' = [pc EXCEPT ![t] = "request"]
      /\ UNCHANGED <<procVars, dmc_nodes, op>>
  BY DEF Pick, Go
<1>5. NodesBounded'
  <2> SUFFICES ASSUME NEW u \in Threads
               PROVE  /\ Len(dmc_nodes[u]) \in NumInitial..NumTotal
                      /\ \A i \in 1..Len(dmc_nodes[u]) :
                           dmc_nodes[u][i] = IF i <= NumInitial THEN i - 1 ELSE 2
                      /\ target'[u] < Len(dmc_nodes[u])
                      /\ op[u] = "SET" /\ pc'[u] \in {"request", "reply"} => target'[u] \in {0, 1}
    BY <1>4 DEF NodesBounded
  <2>1. Len(dmc_nodes[u]) \in NumInitial..NumTotal
        /\ \A i \in 1..Len(dmc_nodes[u]) :
             dmc_nodes[u][i] = IF i <= NumInitial THEN i - 1 ELSE 2
    BY DEF NodesInv, NodesBounded
  <2>2. CASE u = t
    <3>1. target'[u] = n
      BY <1>1, <2>2 DEF NodesInv, TypeOK
    <3> QED BY <1>2, <2>1, <2>2, <3>1
  <2>3. CASE u # t
    <3>1. target'[u] = target[u] /\ pc'[u] = pc[u]
      BY <1>1, <1>4, <2>3 DEF NodesInv, TypeOK
    <3>2. target[u] < Len(dmc_nodes[u])
          /\ (op[u] = "SET" /\ pc[u] \in {"request", "reply"} => target[u] \in {0, 1})
      BY DEF NodesInv, NodesBounded
    <3> QED BY <2>1, <3>1, <3>2
  <2> QED BY <2>2, <2>3
<1>6. BackupAfterPrimary'
  BY <1>4 DEF NodesInv, BackupAfterPrimary, procVars
<1>7. Len(dmc_nodes[t]) > NumInitial => n # 0
  BY <1>2 DEF NodesInv, TypeOK, BackupAfterPrimary, Procs
<1>8. NewBackupAfterFailover'
  BY <1>1, <1>4, <1>7 DEF NodesInv, TypeOK, NewBackupAfterFailover
<1> QED BY <1>3, <1>5, <1>6, <1>8 DEF IndexInv

\* Every action keeps the types, the bounds on indices and the order of
\* set_primary and connect_backup.
LEMMA NodesStep == NodesInv /\ [Next]_vars => NodesInv'
<1> SUFFICES ASSUME NodesInv, [Next]_vars PROVE TypeOK' /\ IndexInv'
  BY DEF NodesInv, IndexInv
<1>1. ASSUME NEW t \in Threads, Call(t) PROVE TypeOK' /\ IndexInv'
  BY <1>1 DEF Call, Go, NodesInv, TypeOK, IndexInv, NodesBounded, BackupAfterPrimary,
     NewBackupAfterFailover, procVars, countVars
<1>2. ASSUME NEW t \in Threads, Work(t) PROVE TypeOK' /\ IndexInv'
  BY <1>1, <1>2, ConnectStep, PickStep, RequestStep DEF Work
<1>3. ASSUME NEW p \in Procs, Main(p) PROVE TypeOK' /\ IndexInv'
  <2> USE ProcType DEF GoMain, NodesInv, TypeOK, IndexInv, NodesBounded, BackupAfterPrimary,
          NewBackupAfterFailover, workerVars, countVars
  <2>1. CASE SetPrimary(p)
    BY <2>1 DEF SetPrimary
  <2>2. CASE ConnectBackup(p)
    BY <2>2 DEF ConnectBackup
  <2>3. CASE Join(p)
    BY <2>3 DEF Join
  <2> QED BY <1>3, <2>1, <2>2, <2>3 DEF Main
<1>4. CASE Controller \/ StartBackup
  <2>1. UNCHANGED <<procVars, workerVars>>
    BY <1>4 DEF Controller, Kill, AnnounceFailure, AnnounceBackup, StartBackup
  <2>2. IndexInv'
    BY <2>1 DEF NodesInv, IndexInv, NodesBounded, BackupAfterPrimary,
       NewBackupAfterFailover, procVars, workerVars
  <2>3. alive' \subseteq Servers /\ msgs' \subseteq Messages
    BY <1>4 DEF Controller, Kill, AnnounceFailure, AnnounceBackup, Send, Messages,
       StartBackup, NodesInv, TypeOK
  <2>4. ctl' \in {"kill", "failed", "created", "done"}
    BY <1>4 DEF Controller, Kill, AnnounceFailure, AnnounceBackup, StartBackup,
       NodesInv, TypeOK
  <2> QED
    BY <2>1, <2>2, <2>3, <2>4 DEF NodesInv, TypeOK, procVars, countVars, workerVars
<1>5. CASE UNCHANGED vars
  BY <1>5 DEF vars, NodesInv, TypeOK, IndexInv, NodesBounded, BackupAfterPrimary,
     NewBackupAfterFailover, procVars, countVars
<1> QED BY <1>2, <1>3, <1>4, <1>5 DEF Next, Terminated

LEMMA NodesInvariance == Spec => []NodesInv
BY NodesInit, NodesStep, PTL DEF Spec

\* The variables of every reachable state have their types.
THEOREM TypeInvariant == Spec => []TypeOK
BY NodesInvariance, PTL DEF NodesInv

\* The indices of a sequence of two or three nodes.
LEMMA IndexBelow ==
  ASSUME NEW n \in 2..3, NEW b \in Nat, b < n
  PROVE  0 \in 0..n - 1 /\ 1 \in 0..n - 1 /\ b \in 0..n - 1
OBVIOUS

\* No index of get or set is out of range and every node is the server that
\* the configuration lists at its place, provided it lists at most three.
THEOREM NodesMatch == ASSUME NumTotal <= 3 PROVE Spec => []NodesMatchConfig
<1>1. NodesInv => NodesMatchConfig
  <2> SUFFICES ASSUME NodesInv, NEW t \in Threads
               PROVE  /\ Len(dmc_nodes[t]) <= NumTotal
                      /\ \A i \in 1..Len(dmc_nodes[t]) : dmc_nodes[t][i] = i - 1
                      /\ {1, primary_idx[Proc(t)], target[t]}
                           \subseteq 0..Len(dmc_nodes[t]) - 1
    BY DEF NodesMatchConfig
  <2> USE SentinelAssumption
  <2>1. /\ Len(dmc_nodes[t]) \in NumInitial..NumTotal /\ Len(dmc_nodes[t]) \in 2..3
        /\ target[t] \in Nat /\ target[t] < Len(dmc_nodes[t])
        /\ primary_idx[Proc(t)] \in {0, 1}
    <3>1. primary_idx[Proc(t)] \in {0, 1}
      BY ProcType DEF NodesInv, TypeOK
    <3>2. Len(dmc_nodes[t]) \in NumInitial..NumTotal /\ target[t] < Len(dmc_nodes[t])
      BY DEF NodesInv, NodesBounded
    <3>3. target[t] \in Nat
      BY DEF NodesInv, TypeOK, Servers
    <3>4. NumInitial \in Nat /\ NumInitial >= 2 /\ NumTotal \in Nat /\ NumTotal <= 3
      OBVIOUS
    <3>5. Len(dmc_nodes[t]) \in 2..3
      <4>1. ASSUME NEW n \in NumInitial..NumTotal PROVE n \in 2..3
        BY <3>4
      <4> QED BY <3>2, <4>1
    <3> QED BY <3>1, <3>2, <3>3, <3>5
  <2>2. \A i \in 1..Len(dmc_nodes[t]) : dmc_nodes[t][i] = i - 1
    BY <2>1 DEF NodesInv, NodesBounded
  <2>3. Len(dmc_nodes[t]) <= NumTotal
    <3>1. ASSUME NEW n \in NumInitial..NumTotal PROVE n <= NumTotal
      OBVIOUS
    <3> QED BY <2>1, <3>1
  <2>4. {1, primary_idx[Proc(t)], target[t]} \subseteq 0..Len(dmc_nodes[t]) - 1
    <3>1. /\ 0 \in 0..Len(dmc_nodes[t]) - 1 /\ 1 \in 0..Len(dmc_nodes[t]) - 1
          /\ target[t] \in 0..Len(dmc_nodes[t]) - 1
      BY <2>1, IndexBelow
    <3>2. primary_idx[Proc(t)] \in 0..Len(dmc_nodes[t]) - 1
      BY <2>1, <3>1
    <3> QED BY <3>1, <3>2
  <2> QED BY <2>2, <2>3, <2>4
<1> QED BY <1>1, NodesInvariance, PTL

\* An adapter that is connected to the new backup has left the primary.
THEOREM BackupAfterFailover == Spec => []NewBackupAfterFailover
BY NodesInvariance, PTL DEF NodesInv
------------------------------------------------------------------------------
\* The primary is alive, the controller has not tried to kill it, and no
\* request has failed.
Early == 0 \in alive /\ ctl = "kill" /\ glitches = 0

\* As long as it is so, only a glitch makes a request fail: its node is one of
\* the initial servers, all of which are up.
LEMMA NoEarlyError ==
  ASSUME NodesInv, NobodyMovedEarly, Early,
         NEW t \in Threads, pc[t] \in {"request", "reply"}, Lost(t)
  PROVE  glitches' = 1
<1> USE SentinelAssumption DEF Early
<1>1. Len(dmc_nodes[t]) = NumInitial
  <2>1. ~connect_backup[Proc(t)]
    BY ProcType DEF NobodyMovedEarly, NodesInv, BackupAfterPrimary
  <2>2. Len(dmc_nodes[t]) \in Nat /\ Len(dmc_nodes[t]) >= NumInitial
    BY DEF NodesInv, NodesBounded, TypeOK
  <2>3. ~(Len(dmc_nodes[t]) > NumInitial)
    BY <2>1 DEF NodesInv, BackupAfterPrimary
  <2> QED BY <2>2, <2>3
<1>2. target[t] \in Nat /\ target[t] < NumInitial
  <2>1. target[t] \in Nat
    BY DEF NodesInv, TypeOK, Servers
  <2>2. target[t] < Len(dmc_nodes[t])
    BY DEF NodesInv, NodesBounded
  <2> QED BY <1>1, <2>1, <2>2
<1>3. dmc_nodes[t][target[t] + 1] = target[t]
  <2>1. target[t] + 1 \in 1..Len(dmc_nodes[t]) /\ target[t] + 1 <= NumInitial
    BY <1>1, <1>2
  <2>2. dmc_nodes[t][target[t] + 1] = (target[t] + 1) - 1
    BY <2>1 DEF NodesInv, NodesBounded
  <2> QED BY <1>2, <2>2
<1>4. target[t] \in alive
  BY <1>2 DEF NobodyMovedEarly
<1>5. Server(t) = target[t]
  BY <1>3 DEF Server
<1> QED BY <1>4, <1>5 DEF Lost

\* It is never so again once it has ceased to be.
LEMMA EarlyBefore == ASSUME NodesInv, [Next]_vars, Early' PROVE Early
<1> USE DEF Early, Go, GoMain, procVars, countVars, workerVars
<1>1. ASSUME NEW t \in Threads, Work(t) PROVE Early
  <2>1. glitches \in Nat
    BY SentinelAssumption DEF NodesInv, TypeOK
  <2>2. CASE Fail(t) \/ FailTwice(t)
    <3>1. glitches' = glitches \/ glitches' = glitches + 1
      BY <2>2 DEF Fail, FailTwice, Lost
    <3>2. glitches = 0
      BY <2>1, <3>1
    <3> QED BY <2>2, <3>2 DEF Fail, FailTwice
  <2>3. CASE ~(Fail(t) \/ FailTwice(t))
    BY <1>1, <2>3 DEF Work, Call, Connect, Pick, Serve, Return, Finish
  <2> QED BY <2>2, <2>3
<1>2. ASSUME NEW p \in Procs, Main(p) PROVE Early
  BY <1>2 DEF Main, SetPrimary, ConnectBackup, Join
<1>3. CASE Controller
  BY <1>3 DEF Controller, Kill, AnnounceFailure, AnnounceBackup
<1>4. CASE StartBackup
  BY <1>4 DEF StartBackup
<1>5. CASE UNCHANGED vars
  BY <1>5 DEF vars
<1> QED BY <1>1, <1>2, <1>3, <1>4, <1>5 DEF Next, Terminated

\* Until then nobody moves away from the primary.
LEMMA EarlyStep ==
  ASSUME NodesInv, NobodyMovedEarly, [Next]_vars
  PROVE  NobodyMovedEarly'
<1> SUFFICES ASSUME Early' PROVE NobodyMovedEarly'
  BY DEF NobodyMovedEarly, Early
<1>0. Early
  BY EarlyBefore
<1> USE <1>0 DEF Go, GoMain, procVars, countVars, workerVars, Early
<1>1. ASSUME NEW t \in Threads, Call(t) PROVE NobodyMovedEarly'
  BY <1>1 DEF Call, NobodyMovedEarly, NodesInv, TypeOK
<1>2. ASSUME NEW t \in Threads, Connect(t) PROVE NobodyMovedEarly'
  BY <1>2 DEF Connect, NobodyMovedEarly, NodesInv, TypeOK
<1>3. ASSUME NEW t \in Threads, Pick(t) PROVE NobodyMovedEarly'
  <2>1. 0 \in alive /\ op[t] = "SET" => Targets(t) = {0}
    BY ProcType DEF Targets, NobodyMovedEarly
  <2>2. 0 \in alive /\ op[t] = "SET" => target' = [target EXCEPT ![t] = 0]
    BY <1>3, <2>1 DEF Pick
  <2>3. \A u \in Threads \ {t} : target'[u] = target[u] /\ pc'[u] = pc[u]
    BY <1>3 DEF Pick, NodesInv, TypeOK
  <2> QED BY <1>3, <2>2, <2>3 DEF Pick, NobodyMovedEarly, NodesInv, TypeOK
<1>4. ASSUME NEW t \in Threads, Serve(t) PROVE NobodyMovedEarly'
  <2>1. 0 \in alive /\ op[t] = "SET" => Server(t) = 0
    BY <1>4, FirstNodes DEF Serve, Server, NobodyMovedEarly
  <2> QED BY <1>4, <2>1 DEF Serve, NobodyMovedEarly, NodesInv, TypeOK
<1>5. ASSUME NEW t \in Threads, Return(t) PROVE NobodyMovedEarly'
  BY <1>5 DEF Return, NobodyMovedEarly, NodesInv, TypeOK
<1>6. ASSUME NEW t \in Threads, Fail(t) PROVE NobodyMovedEarly'
  <2>1. glitches' = 1
    BY <1>6, NoEarlyError DEF Fail
  <2> QED BY <2>1
<1>7. ASSUME NEW t \in Threads, FailTwice(t) PROVE NobodyMovedEarly'
  BY <1>7 DEF FailTwice, NobodyMovedEarly
<1>8. ASSUME NEW t \in Threads, Finish(t) PROVE NobodyMovedEarly'
  BY <1>8 DEF Finish, NobodyMovedEarly, NodesInv, TypeOK
<1>9. ASSUME NEW p \in Procs, Main(p) PROVE NobodyMovedEarly'
  BY <1>9 DEF Main, SetPrimary, ConnectBackup, Join, NobodyMovedEarly
<1>10. CASE Kill
  BY <1>10 DEF Kill, NobodyMovedEarly
<1>11. CASE AnnounceFailure \/ AnnounceBackup \/ StartBackup
  BY <1>11 DEF AnnounceFailure, AnnounceBackup, StartBackup, NobodyMovedEarly
<1>12. CASE UNCHANGED vars
  BY <1>12 DEF vars, NobodyMovedEarly
<1> QED
  BY <1>1, <1>2, <1>3, <1>4, <1>5, <1>6, <1>7, <1>8, <1>9, <1>10, <1>11, <1>12
     DEF Next, Work, Controller, Terminated

\* The backup never executes a SET while the primary is alive, in any process,
\* unless a request has failed on a live server or kill_servers has not worked:
\* lost announcements and the order of the steps cannot bring it about.
THEOREM SplitBrainFree == Spec => []NoSplitBrain
<1>1. Init => NobodyMovedEarly
  BY DEF Init, NobodyMovedEarly
<1>2. NodesInv /\ NobodyMovedEarly /\ [Next]_vars => NobodyMovedEarly'
  BY EarlyStep
<1>3. NodesInv /\ NobodyMovedEarly => NoSplitBrain
  <2>1. NodesInv => glitches = 0 \/ glitches > 0
    BY SentinelAssumption DEF NodesInv, TypeOK
  <2> QED BY <2>1 DEF NobodyMovedEarly, NoSplitBrain, KillFailed
<1> QED BY <1>1, <1>2, <1>3, NodesInvariance, PTL DEF Spec
------------------------------------------------------------------------------
(* The access vectors.                                                      *)

\* A GET of the thread has been counted and waits for node 1.
Waits(t) == op[t] = "GET" /\ pc[t] \in {"fbRequest", "fbReply"}
Waiting(p) == {t \in ThreadsOf(p) : Waits(t)}

Counted(p) == SumFunction(access_vector[p])
Completed(p) == SumFunctionOnSet(gets, ThreadsOf(p))

\* The parts of the balance of a process, and the invariant of it: node 1, which
\* is the one that can make a GET be counted twice, stays up.
Exact(p) ==
  /\ Counted(p) >= Completed(p) + Cardinality(Waiting(p))
  /\ glitches = 0 => Counted(p) = Completed(p) + Cardinality(Waiting(p))

ExactInv == 1 \in alive /\ \A p \in Procs : Exact(p)

LEMMA ExactAccess == ExactInv => AccessVectorExact
BY DEF ExactInv, Exact, AccessVectorExact, Counted, Completed, Waiting, Waits

LEMMA SetsFinite ==
  /\ IsFiniteSet(Servers)
  /\ \A p \in Procs : IsFiniteSet(ThreadsOf(p)) /\ IsFiniteSet(Waiting(p))
<1>1. NumTotal - 1 \in Int /\ NumProcs * NumThreads \in Int
  BY SentinelAssumption
<1>2. IsFiniteSet(Servers) /\ IsFiniteSet(Threads)
  BY <1>1, FS_Interval DEF Servers, Threads
<1>3. ASSUME NEW p \in Procs PROVE ThreadsOf(p) \in SUBSET Threads /\ Waiting(p) \in SUBSET Threads
  BY DEF ThreadsOf, Waiting
<1> QED BY <1>2, <1>3, FS_Subset

LEMMA BalanceNumbers ==
  ASSUME TypeOK, NEW p \in Procs
  PROVE  /\ Counted(p) \in Nat
         /\ Completed(p) \in Nat
         /\ Cardinality(Waiting(p)) \in Nat
<1>1. Counted(p) \in Nat
  <2>1. access_vector[p] \in [Servers -> Nat]
    BY DEF TypeOK
  <2> QED BY <2>1, SetsFinite, SumWhole DEF Counted
<1>2. Completed(p) \in Nat
  <2>1. \A t \in ThreadsOf(p) : gets[t] \in Nat
    BY DEF TypeOK, ThreadsOf
  <2> QED BY <2>1, SetsFinite, SumNat DEF Completed
<1>3. Cardinality(Waiting(p)) \in Nat
  BY SetsFinite, FS_CardinalityType
<1> QED BY <1>1, <1>2, <1>3

\* A count adds one to the sum of its process.
LEMMA CountAdds ==
  ASSUME TypeOK, NEW q \in Procs, NEW n \in Servers, Count(q, n), NEW p \in Procs
  PROVE  Counted(p)' = Counted(p) + (IF p = q THEN 1 ELSE 0)
<1> DEFINE f == access_vector[p]
           g == access_vector'[p]
<1>1. f \in [Servers -> Nat]
  BY DEF TypeOK
<1>2. CASE p = q
  <2>1. /\ g \in [Servers -> Nat]
        /\ g[n] = f[n] + 1
        /\ \A s \in Servers \ {n} : g[s] = f[s]
    BY <1>1, <1>2 DEF Count, TypeOK
  <2>2. Counted(p) = SumFunctionOnSet(f, Servers) /\ Counted(p)' = SumFunctionOnSet(g, Servers)
    BY <1>1, <2>1, SetsFinite, SumWhole DEF Counted
  <2> HIDE DEF f, g
  <2>3. SumFunctionOnSet(g, Servers) = SumFunctionOnSet(f, Servers) - f[n] + g[n]
    BY <1>1, <2>1, SetsFinite, SumChange
  <2>4. SumFunctionOnSet(f, Servers) \in Nat /\ f[n] \in Nat
    BY <1>1, SetsFinite, SumNat
  <2> QED BY <1>2, <2>1, <2>2, <2>3, <2>4
<1>3. CASE p # q
  <2>1. g = f
    BY <1>3 DEF Count, TypeOK
  <2>2. Counted(p)' = Counted(p)
    BY <2>1 DEF Counted
  <2> QED BY <1>3, <2>2, BalanceNumbers
<1> QED BY <1>2, <1>3

\* So does a completed GET to those of its process.
LEMMA GetAdds ==
  ASSUME TypeOK, NEW t \in Threads, gets' = [gets EXCEPT ![t] = @ + 1], NEW p \in Procs
  PROVE  Completed(p)' = Completed(p) + (IF p = Proc(t) THEN 1 ELSE 0)
<1>1. \A u \in Threads : gets[u] \in Nat /\ gets'[u] = gets[u] + (IF u = t THEN 1 ELSE 0)
  BY DEF TypeOK
<1>2. \A u \in ThreadsOf(p) : u \in Threads /\ gets[u] \in Nat /\ gets'[u] \in Nat
  BY <1>1 DEF ThreadsOf
<1>3. Completed(p)' = SumFunctionOnSet(gets', ThreadsOf(p))
  BY DEF Completed, ThreadsOf
<1>4. CASE p = Proc(t)
  <2>1. t \in ThreadsOf(p)
    BY <1>4 DEF ThreadsOf
  <2>2. \A u \in ThreadsOf(p) \ {t} : gets'[u] = gets[u]
    BY <1>1, <1>2
  <2>3. SumFunctionOnSet(gets', ThreadsOf(p))
        = SumFunctionOnSet(gets, ThreadsOf(p)) - gets[t] + gets'[t]
    <3> DEFINE S == ThreadsOf(p)
               f == gets
               g == gets'
    <3>1. /\ IsFiniteSet(S) /\ t \in S
          /\ \A u \in S : f[u] \in Nat /\ g[u] \in Nat
          /\ \A u \in S \ {t} : g[u] = f[u]
      BY SetsFinite, <1>2, <2>1, <2>2
    <3> HIDE DEF S, f, g
    <3>2. SumFunctionOnSet(g, S) = SumFunctionOnSet(f, S) - f[t] + g[t]
      BY <3>1, SumChange
    <3> QED BY <3>2 DEF S, f, g
  <2>4. Completed(p) \in Nat
    BY BalanceNumbers
  <2> QED BY <1>1, <1>3, <1>4, <2>3, <2>4 DEF Completed
<1>5. CASE p # Proc(t)
  <2>1. \A u \in ThreadsOf(p) : gets[u] \in Nat /\ gets'[u] = gets[u]
    BY <1>1, <1>5 DEF ThreadsOf
  <2>2. SumFunctionOnSet(gets', ThreadsOf(p)) = SumFunctionOnSet(gets, ThreadsOf(p))
    BY <2>1, SetsFinite, SumSame
  <2> QED BY <1>3, <1>5, <2>2, BalanceNumbers DEF Completed
<1> QED BY <1>4, <1>5

\* A thread that moves changes the number of those that wait in its process by
\* whether it waits itself, before and after.
LEMMA WaitingChanges ==
  ASSUME TypeOK, NEW t \in Threads, NEW p \in Procs,
         \A u \in Threads \ {t} : pc'[u] = pc[u] /\ op'[u] = op[u]
  PROVE  Cardinality(Waiting(p))' =
           Cardinality(Waiting(p))
           + (IF p = Proc(t) /\ Waits(t)' THEN 1 ELSE 0)
           - (IF p = Proc(t) /\ Waits(t) THEN 1 ELSE 0)
<1> DEFINE W == Waiting(p) \ {t}
<1>1. \A u \in ThreadsOf(p) : u \in Threads /\ (u # t => (Waits(u)' <=> Waits(u)))
  BY DEF ThreadsOf, Waits
<1>2. Waiting(p)' = {u \in ThreadsOf(p) : Waits(u)'}
  BY DEF Waiting, ThreadsOf
<1>3. t \in ThreadsOf(p) <=> p = Proc(t)
  BY DEF ThreadsOf
<1>4. IsFiniteSet(W) /\ Cardinality(W) \in Nat
  BY SetsFinite, FS_RemoveElement, FS_CardinalityType
<1>5. IsFiniteSet(Waiting(p))
  BY SetsFinite
<1>6. t \notin W /\ W \cup {t} = Waiting(p) \cup {t}
  OBVIOUS
<1>7. Cardinality(W \cup {t}) = Cardinality(W) + 1
  BY <1>4, <1>6, FS_AddElement
<1>8. Waiting(p) = IF p = Proc(t) /\ Waits(t) THEN W \cup {t} ELSE W
  BY <1>3 DEF Waiting
<1>9. Waiting(p)' = IF p = Proc(t) /\ Waits(t)' THEN W \cup {t} ELSE W
  BY <1>1, <1>2, <1>3 DEF Waiting
<1> HIDE DEF W
<1>10. Cardinality(Waiting(p)) = Cardinality(W) + (IF p = Proc(t) /\ Waits(t) THEN 1 ELSE 0)
  BY <1>4, <1>7, <1>8
<1>11. Cardinality(Waiting(p)') = Cardinality(W) + (IF p = Proc(t) /\ Waits(t)' THEN 1 ELSE 0)
  BY <1>4, <1>7, <1>9
<1> QED BY <1>4, <1>10, <1>11

\* Nothing of it changes for a process whose counters and waiting threads stay.
LEMMA ExactSame ==
  ASSUME TypeOK, NEW p \in Procs, Exact(p),
         Counted(p)' = Counted(p), Completed(p)' = Completed(p),
         Cardinality(Waiting(p))' = Cardinality(Waiting(p)),
         glitches' = glitches \/ glitches' = glitches + 1
  PROVE  Exact(p)'
<1>1. glitches \in Nat
  BY SentinelAssumption DEF TypeOK
<1>2. glitches' = 0 => glitches = 0
  BY <1>1
<1> QED BY <1>2 DEF Exact

\* The steps of a thread keep the balance of every process.
LEMMA ExactWork ==
  ASSUME NodesInv, ExactInv, NEW t \in Threads, Work(t)
  PROVE  ExactInv'
<1> TypeOK /\ Proc(t) \in Procs /\ 1 \in alive
  BY ProcType DEF NodesInv, ExactInv
<1>1. 1 \in alive'
  BY DEF Work, Call, Connect, Pick, Serve, Return, Fail, FailTwice, Finish
<1> SUFFICES ASSUME NEW p \in Procs PROVE Exact(p)'
  BY <1>1 DEF ExactInv
<1> Exact(p)
  BY DEF ExactInv
<1>2. \A u \in Threads \ {t} : pc'[u] = pc[u] /\ op'[u] = op[u]
  BY DEF Work, Call, Connect, Pick, Serve, Return, Fail, FailTwice, Finish, Go, TypeOK
<1>3. Cardinality(Waiting(p))' =
        Cardinality(Waiting(p))
        + (IF p = Proc(t) /\ Waits(t)' THEN 1 ELSE 0)
        - (IF p = Proc(t) /\ Waits(t) THEN 1 ELSE 0)
  BY <1>2, WaitingChanges
<1>4. /\ Counted(p) \in Nat /\ Completed(p) \in Nat /\ Cardinality(Waiting(p)) \in Nat
      /\ glitches \in Nat
  BY BalanceNumbers, SentinelAssumption DEF TypeOK
<1>5. UNCHANGED access_vector => Counted(p)' = Counted(p)
  BY DEF Counted
<1>6. UNCHANGED gets => Completed(p)' = Completed(p)
  BY DEF Completed, ThreadsOf
<1>7. CASE Call(t) \/ Connect(t) \/ Pick(t) \/ Serve(t) \/ Finish(t)
  <2>1. Waits(t)' <=> Waits(t)
    BY <1>7 DEF Call, Connect, Pick, Serve, Finish, Go, Waits, TypeOK
  <2>2. UNCHANGED <<access_vector, gets, glitches>>
    BY <1>7 DEF Call, Connect, Pick, Serve, Finish, countVars
  <2>3. Cardinality(Waiting(p))' = Cardinality(Waiting(p))
    BY <1>3, <1>4, <2>1
  <2> QED BY <1>5, <1>6, <2>2, <2>3, ExactSame
<1>8. CASE Return(t)
  <2>1. ~Waits(t)' /\ UNCHANGED glitches
    BY <1>8 DEF Return, Go, Waits, TypeOK
  <2>2. CASE op[t] # "GET"
    <3>1. ~Waits(t) /\ UNCHANGED <<access_vector, gets>>
      BY <1>8, <2>2 DEF Return, Waits
    <3>2. Cardinality(Waiting(p))' = Cardinality(Waiting(p))
      BY <1>3, <1>4, <2>1, <3>1
    <3> QED BY <1>5, <1>6, <2>1, <3>1, <3>2, ExactSame
  <2>3. CASE op[t] = "GET" /\ pc[t] = "reply"
    <3>1. /\ ~Waits(t) /\ Count(Proc(t), target[t]) /\ target[t] \in Servers
          /\ gets' = [gets EXCEPT ![t] = @ + 1]
      BY <1>8, <2>3 DEF Return, Waits, TypeOK
    <3>2. Counted(p)' = Counted(p) + (IF p = Proc(t) THEN 1 ELSE 0)
      BY <3>1, CountAdds
    <3>3. Completed(p)' = Completed(p) + (IF p = Proc(t) THEN 1 ELSE 0)
      BY <3>1, GetAdds
    <3>4. Cardinality(Waiting(p))' = Cardinality(Waiting(p))
      BY <1>3, <1>4, <2>1, <3>1
    <3> QED BY <1>4, <2>1, <3>2, <3>3, <3>4 DEF Exact
  <2>4. CASE op[t] = "GET" /\ pc[t] # "reply"
    <3>1. /\ Waits(t) /\ UNCHANGED access_vector
          /\ gets' = [gets EXCEPT ![t] = @ + 1]
      BY <1>8, <2>4 DEF Return, Go, Waits
    <3>2. Completed(p)' = Completed(p) + (IF p = Proc(t) THEN 1 ELSE 0)
      BY <3>1, GetAdds
    <3>3. Cardinality(Waiting(p))' =
            Cardinality(Waiting(p)) - (IF p = Proc(t) THEN 1 ELSE 0)
      BY <1>3, <1>4, <2>1, <3>1
    <3> QED BY <1>4, <1>5, <2>1, <3>1, <3>2, <3>3 DEF Exact
  <2> QED BY <2>2, <2>3, <2>4
<1>9. CASE Fail(t)
  <2>1. /\ glitches' = glitches \/ glitches' = glitches + 1
        /\ UNCHANGED gets
        /\ ~Waits(t) /\ (Waits(t)' <=> op[t] = "GET")
    BY <1>9 DEF Fail, Lost, Go, Waits, TypeOK, countVars
  <2>2. CASE op[t] = "GET"
    <3>1. Count(Proc(t), 1)
      BY <1>9, <2>2 DEF Fail
    <3>2. 1 \in Servers
      BY SentinelAssumption DEF Servers
    <3>3. Counted(p)' = Counted(p) + (IF p = Proc(t) THEN 1 ELSE 0)
      BY <3>1, <3>2, CountAdds
    <3>4. Cardinality(Waiting(p))' =
            Cardinality(Waiting(p)) + (IF p = Proc(t) THEN 1 ELSE 0)
      BY <1>3, <1>4, <2>1, <2>2
    <3> QED BY <1>4, <1>6, <2>1, <3>3, <3>4 DEF Exact
  <2>3. CASE op[t] # "GET"
    <3>1. UNCHANGED access_vector
      BY <1>9, <2>3 DEF Fail
    <3>2. Cardinality(Waiting(p))' = Cardinality(Waiting(p))
      BY <1>3, <1>4, <2>1, <2>3
    <3> QED BY <1>5, <1>6, <2>1, <3>1, <3>2, ExactSame
  <2> QED BY <2>2, <2>3
<1>10. CASE FailTwice(t)
  <2>1. Server(t) = 1
    BY <1>10, FirstNodes DEF FailTwice, Go, Server
  <2>2. glitches' = glitches + 1 /\ UNCHANGED <<access_vector, gets>>
    BY <1>10, <2>1 DEF FailTwice, Lost, countVars
  <2>3. ~Waits(t)'
    BY <1>10 DEF FailTwice, Go, Waits, TypeOK
  <2>4. Cardinality(Waiting(p))' <= Cardinality(Waiting(p))
        /\ Cardinality(Waiting(p))' \in Int
    BY <1>3, <1>4, <2>3
  <2> QED BY <1>4, <1>5, <1>6, <2>2, <2>4 DEF Exact
<1> QED BY <1>7, <1>8, <1>9, <1>10 DEF Work

LEMMA ExactStep ==
  ASSUME NodesInv, ExactInv, [Next]_vars
  PROVE  ExactInv'
<1>1. ASSUME NEW t \in Threads, Work(t) PROVE ExactInv'
  BY <1>1, ExactWork
<1>2. ASSUME UNCHANGED workerVars, 1 \in alive' PROVE ExactInv'
  <2>1. UNCHANGED <<access_vector, gets, glitches, op, pc>>
    BY <1>2 DEF workerVars, countVars
  <2>2. ASSUME NEW p \in Procs
        PROVE  /\ Counted(p)' = Counted(p) /\ Completed(p)' = Completed(p)
               /\ Waiting(p)' = Waiting(p)
    BY <2>1 DEF Counted, Completed, Waiting, Waits, ThreadsOf
  <2> QED BY <1>2, <2>1, <2>2 DEF ExactInv, Exact
<1>3. 1 \in alive
  BY DEF ExactInv
<1>4. ASSUME NEW p \in Procs, Main(p) PROVE UNCHANGED workerVars /\ 1 \in alive'
  BY <1>3, <1>4 DEF Main, SetPrimary, ConnectBackup, Join
<1>5. CASE Controller \/ StartBackup
  <2>1. UNCHANGED workerVars
    BY <1>5 DEF Controller, Kill, AnnounceFailure, AnnounceBackup, StartBackup
  <2>2. alive' = alive \/ alive' = alive \ {0} \/ alive' = alive \cup {2}
    BY <1>5 DEF Controller, Kill, AnnounceFailure, AnnounceBackup, StartBackup
  <2> QED BY <1>2, <1>3, <2>1, <2>2
<1>6. CASE UNCHANGED vars
  BY <1>2, <1>3, <1>6 DEF vars, workerVars
<1> QED BY <1>1, <1>2, <1>4, <1>5, <1>6 DEF Next, Terminated

LEMMA ExactInit == Init => ExactInv
<1> SUFFICES ASSUME Init PROVE ExactInv
  OBVIOUS
<1>1. 1 \in alive
  BY SentinelAssumption DEF Init
<1>2. ASSUME NEW p \in Procs PROVE Exact(p)
  <2>1. access_vector[p] \in [Servers -> Nat] /\ \A s \in Servers : access_vector[p][s] = 0
    BY DEF Init
  <2>2. Counted(p) = 0
    <3>1. Counted(p) = SumFunctionOnSet(access_vector[p], Servers)
      BY <2>1, SetsFinite, SumWhole DEF Counted
    <3> QED BY <2>1, <3>1, SetsFinite, SumZero
  <2>3. Completed(p) = 0
    <3>1. \A t \in ThreadsOf(p) : gets[t] = 0
      BY DEF Init, ThreadsOf
    <3> QED BY <3>1, SetsFinite, SumZero DEF Completed
  <2>4. Waiting(p) = {}
    BY DEF Init, Waiting, Waits, ThreadsOf
  <2>5. Cardinality(Waiting(p)) = 0
    BY <2>4, FS_EmptySet
  <2> QED BY <2>2, <2>3, <2>5 DEF Exact
<1> QED BY <1>1, <1>2 DEF ExactInv

\* The access vector of every process accounts for each of its GETs, for any
\* number of threads and servers and whatever fails: never for less, and exactly
\* once as long as no server has failed a request while it was up.
THEOREM AccessCounted == Spec => []AccessVectorExact
<1>1. NodesInv /\ ExactInv /\ [Next]_vars => ExactInv'
  BY ExactStep
<1> QED BY <1>1, ExactInit, ExactAccess, NodesInvariance, PTL DEF Spec
==============================================================================
