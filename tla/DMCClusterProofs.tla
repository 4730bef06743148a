--------------------------- MODULE DMCClusterProofs ---------------------------
(***************************************************************************)
(* Proofs about DMCCluster for every number of clients, servers and        *)
(* operations, with failing requests to memcached and to servers.  What    *)
(* the barrier guarantees comes from MemcachedSyncProofs: the composition  *)
(* is shown to implement the protocol, whose theorems then hold of it.     *)
(***************************************************************************)
EXTENDS DMCCluster, SumTheorems, TLAPS

SyncFacts == INSTANCE MemcachedSyncProofs
  WITH ClientRounds <- 1, ControllerRounds <- 1, OrderedStart <- TRUE

\* Every step of the composition is a step of the protocol or invisible to it.
LEMMA SyncStep == ASSUME [Next]_vars PROVE [Sync!Next]_barrierVars
<1>1. ASSUME NEW p \in Procs, Launch(p) PROVE Sync!Next
  BY <1>1 DEF Launch, Procs, Sync!Next
<1>2. ASSUME NEW p \in Procs, Main(p) PROVE UNCHANGED barrierVars
  BY <1>2 DEF Main, ScaleOut, ScaleIn, Join
<1>3. ASSUME NEW c \in Clients, SyncReady(c) \/ Return(c) PROVE Sync!Next
  BY <1>3 DEF SyncReady, Return, Clients, Sync!Next, Sync!ClientNext
<1>4. ASSUME NEW c \in Clients,
             Call(c) \/ Pick(c) \/ SendRequest(c) \/ Reply(c) \/ Miss(c) \/ Fail(c)
      PROVE  UNCHANGED barrierVars
  BY <1>4 DEF Call, Pick, SendRequest, Reply, Miss, Fail
<1>5. CASE Controller
  BY <1>5 DEF Controller, Flush, ServeBarrier, AnnounceOut, AnnounceIn, Sync!Next,
     Sync!Controller
<1>6. CASE UNCHANGED vars
  BY <1>6 DEF vars
<1> QED
  BY <1>1, <1>2, <1>3, <1>4, <1>5, <1>6 DEF Next, Worker, Terminated

\* The composition implements the barrier protocol.
THEOREM SyncRefinement == Spec => ImplementsSync
<1>1. Init => Sync!Init
  BY DEF Init
<1>2. [Next]_vars => [Sync!Next]_(Sync!vars)
  BY SyncStep DEF barrierVars, Sync!vars
<1> QED BY <1>1, <1>2, PTL DEF Spec, ImplementsSync, Sync!Spec

\* So the invariant of the protocol holds of it; the two instances of the
\* protocol have the same definitions.
LEMMA SyncInvariant == Spec => []Sync!IInv
<1>1. Sync!Init => SyncFacts!Init
  BY
     DEF Sync!Init, SyncFacts!Init, Sync!LeftByEarlierRun,
         SyncFacts!LeftByEarlierRun, Sync!Clients, SyncFacts!Clients,
         Sync!Rounds, SyncFacts!Rounds, Sync!Nodes, SyncFacts!Nodes,
         Sync!NodeOf, SyncFacts!NodeOf
<1>2. [Sync!Next]_(Sync!vars) => [SyncFacts!Next]_(SyncFacts!vars)
  BY
     DEF Sync!Clients, SyncFacts!Clients, Sync!Rounds, SyncFacts!Rounds,
         Sync!Nodes, SyncFacts!Nodes, Sync!NodeOf, SyncFacts!NodeOf,
         Sync!Running, SyncFacts!Running, Sync!Launch, SyncFacts!Launch,
         Sync!Publish, SyncFacts!Publish, Sync!PublishFails,
         SyncFacts!PublishFails, Sync!Poll, SyncFacts!Poll, Sync!Finish,
         SyncFacts!Finish, Sync!Flush, SyncFacts!Flush, Sync!FlushLost,
         SyncFacts!FlushLost, Sync!Collect, SyncFacts!Collect, Sync!AllCollected, SyncFacts!AllCollected,
         Sync!NextRound, SyncFacts!NextRound, Sync!Notify, SyncFacts!Notify,
         Sync!NotifyLost, SyncFacts!NotifyLost, Sync!ClientNext,
         SyncFacts!ClientNext, Sync!Controller, SyncFacts!Controller,
         Sync!Terminated, SyncFacts!Terminated, Sync!Next, SyncFacts!Next,
         Sync!vars, SyncFacts!vars, Sync!clientVars, SyncFacts!clientVars,
         Sync!ctlVars, SyncFacts!ctlVars
<1>3. SyncFacts!IInv => Sync!IInv
  BY
     DEF Sync!IInv, SyncFacts!IInv, Sync!TypeOK, SyncFacts!TypeOK,
         Sync!RoundsBounded, SyncFacts!RoundsBounded,
         Sync!NobodyBeforeFlush, SyncFacts!NobodyBeforeFlush,
         Sync!KeysAreTrue, SyncFacts!KeysAreTrue, Sync!Lockstep,
         SyncFacts!Lockstep, Sync!Entered, SyncFacts!Entered, Sync!Clients,
         SyncFacts!Clients, Sync!Rounds, SyncFacts!Rounds, Sync!Nodes,
         SyncFacts!Nodes, Sync!NodeOf, SyncFacts!NodeOf
<1>4. SyncFacts!Spec => []SyncFacts!IInv
  <2>1. SyncFacts!SyncAssumption
    BY ClusterAssumption DEF SyncFacts!SyncAssumption
  <2> QED BY <2>1, SyncFacts!Invariance, PTL
<1> QED
  BY <1>1, <1>2, <1>3, <1>4, SyncRefinement, PTL DEF ImplementsSync, Sync!Spec, SyncFacts!Spec
------------------------------------------------------------------------------
\* The steps of the composition keep the types of script and main and the
\* truth of the scale messages.
LEMMA ScaleStep ==
  ASSUME ScaleInv, [Next]_vars
  PROVE  ScaleInv'
<1> USE DEF ScaleInv, ScriptTypeOK, MessagesAreTrue, FollowsScript
<1>1. ASSUME NEW p \in Procs, Launch(p) PROVE ScaleInv'
  BY <1>1 DEF Launch, Sync!Launch, Sync!ctlVars
<1>2. ASSUME NEW p \in Procs, ScaleOut(p) PROVE ScaleInv'
  BY <1>2 DEF ScaleOut, GoMain, barrierVars
<1>3. ASSUME NEW p \in Procs, ScaleIn(p) PROVE ScaleInv'
  BY <1>3 DEF ScaleIn, GoMain, barrierVars
<1>4. ASSUME NEW p \in Procs, Join(p) PROVE ScaleInv'
  BY <1>4 DEF Join, GoMain, barrierVars
<1>5. ASSUME NEW c \in Clients, Worker(c) PROVE ScaleInv'
  <2>1. UNCHANGED <<ctl, stale, go, msgs, script, main>>
    BY <1>5 DEF Worker, SyncReady, Return, Call, Pick, SendRequest, Reply, Miss, Fail,
       Sync!Publish, Sync!PublishFails, Sync!Poll, Sync!Finish, Sync!ctlVars,
       barrierVars, mainVars
  <2> QED BY <2>1
<1>6. CASE Flush
  <2>1. ctl = "flush" /\ ctl' = "collect" /\ UNCHANGED <<script, main>>
    BY <1>6 DEF Flush, Sync!Flush, Sync!FlushLost, mainVars
  <2>2. ~stale' => msgs' = {}
    BY <1>6 DEF Flush, Sync!Flush, Sync!FlushLost
  <2> QED BY <2>1, <2>2
<1>7. CASE ServeBarrier
  <2>1. /\ ctl = "collect" /\ ctl' \in {"collect", "done"}
        /\ UNCHANGED <<stale, msgs, script, main>>
    BY <1>7 DEF ServeBarrier, mainVars, Sync!Collect, Sync!Notify, Sync!NotifyLost,
       Sync!NextRound, Sync!AllCollected
  <2> QED BY <2>1
<1>8. CASE AnnounceOut
  BY <1>8 DEF AnnounceOut, Send, barrierVars, mainVars
<1>9. CASE AnnounceIn
  BY <1>9 DEF AnnounceIn, Send, barrierVars, mainVars
<1>10. CASE UNCHANGED vars
  BY <1>10 DEF vars, barrierVars, mainVars
<1> QED
  BY <1>1, <1>2, <1>3, <1>4, <1>5, <1>6, <1>7, <1>8, <1>9, <1>10
     DEF Next, Main, Controller, Terminated

LEMMA ScaleInvariance == Spec => []ScaleInv
<1>1. Init => ScaleInv
  BY DEF Init, Sync!Init, ScaleInv, ScriptTypeOK, MessagesAreTrue, FollowsScript
<1>2. ScaleInv /\ [Next]_vars => ScaleInv'
  BY ScaleStep
<1> QED BY <1>1, <1>2, PTL DEF Spec

\* No main thread is ahead of the controller, whatever an earlier experiment
\* has left in memcached, unless it survives a flush_all that is lost.
THEOREM MainFollowsScript == Spec => []FollowsScript
BY ScaleInvariance, PTL DEF ScaleInv

\* Nobody scales before every thread of every process is at the barrier, unless
\* keys and messages of an earlier experiment survive a flush_all that is lost.
THEOREM NoEarlyScale == Spec => []ScaleAfterBarrier
<1>1. ScaleInv /\ Sync!IInv => ScaleAfterBarrier
  <2> SUFFICES ASSUME ScaleInv, Sync!IInv, ~stale, NEW p \in Procs,
                      main[p] \in {"waitIn", "join", "done"}, NEW c \in Clients
               PROVE  Sync!Entered(c) = 1
    BY DEF ScaleAfterBarrier
  <2>1. ctl = "done"
    BY DEF ScaleInv, MessagesAreTrue, FollowsScript
  <2>2. c \in Sync!Clients
    BY DEF Clients
  <2> QED
    BY <2>1, <2>2 DEF Sync!IInv, Sync!TypeOK, Sync!RoundsBounded, Sync!KeysAreTrue,
       Sync!Entered
<1> QED BY <1>1, ScaleInvariance, SyncInvariant, PTL
------------------------------------------------------------------------------
\* A worker step that leaves main alone keeps the invariant of the indices: it
\* picks one of the servers that its process has, if it picks one.
LEMMA WorkerKeeps ==
  ASSUME LaunchedFirst, Sync!TypeOK, NEW c \in Clients, UNCHANGED num_alive,
         \A d \in Clients : pc'[d] # "off" <=> pc[d] # "off",
         \/ UNCHANGED step
         \/ \E to : step' = [step EXCEPT ![c] = to] /\ pc[c] # "off",
         \/ UNCHANGED target
         \/ \E s \in 0..num_alive[Proc(c)] - 1 : target' = [target EXCEPT ![c] = s]
  PROVE  LaunchedFirst'
<1> USE ClusterAssumption DEF LaunchedFirst
<1>1. target' \in [Clients -> Servers]
  <2>1. ASSUME NEW s \in 0..num_alive[Proc(c)] - 1 PROVE s \in Servers
    <3>1. num_alive[Proc(c)] \in {0, NumInitial, NumScale}
      BY DEF Procs, Proc, Clients, Sync!Nodes
    <3> QED BY <3>1 DEF Servers
  <2> QED BY <2>1
<1>2. /\ DOMAIN step' = Clients
      /\ \A d \in Clients : step'[d] # "idle" => pc'[d] # "off"
  OBVIOUS
<1> QED BY <1>1, <1>2

LEMMA RangeStep ==
  ASSUME LaunchedFirst, Sync!TypeOK, [Next]_vars
  PROVE  LaunchedFirst'
<1> USE DEF LaunchedFirst
<1>1. ASSUME NEW p \in Procs, Launch(p) PROVE LaunchedFirst'
  <2>1. \A c \in Clients : pc'[c] # "off" => pc[c] # "off" \/ Proc(c) = p
    BY <1>1 DEF Launch, Sync!Launch, Clients, Proc
  <2>2. \A c \in Clients : pc[c] # "off" => pc'[c] # "off"
    BY <1>1 DEF Launch, Sync!Launch, Clients
  <2>3. /\ num_alive' = [num_alive EXCEPT ![p] = NumInitial]
        /\ UNCHANGED <<step, target>>
    BY <1>1 DEF Launch, workerVars
  <2>4. \A c \in Clients : Proc(c) \in Procs
    BY DEF Procs, Proc, Clients, Sync!Nodes
  <2> QED BY <2>1, <2>2, <2>3, <2>4, ClusterAssumption
<1>2. ASSUME NEW p \in Procs, Main(p) PROVE LaunchedFirst'
  <2>1. /\ num_alive' \in [Procs -> {0, NumInitial, NumScale}]
        /\ \A q \in Procs : num_alive[q] # 0 => num_alive'[q] # 0
    BY <1>2, ClusterAssumption DEF Main, ScaleOut, ScaleIn, Join
  <2>2. UNCHANGED <<pc, step, target>>
    BY <1>2 DEF Main, ScaleOut, ScaleIn, Join, barrierVars, workerVars
  <2>3. \A c \in Clients : Proc(c) \in Procs
    BY DEF Procs, Proc, Clients, Sync!Nodes
  <2> QED BY <2>1, <2>2, <2>3
<1>3. ASSUME NEW c \in Clients, SyncReady(c) \/ Return(c) PROVE LaunchedFirst'
  <2>1. \A d \in Clients : pc'[d] # "off" <=> pc[d] # "off"
    BY <1>3 DEF SyncReady, Return, Clients, Sync!TypeOK, Sync!Publish, Sync!PublishFails,
       Sync!Poll, Sync!Finish
  <2>2. UNCHANGED <<num_alive, step, target>>
    BY <1>3 DEF SyncReady, Return, mainVars, workerVars
  <2> QED BY <2>1, <2>2
<1>4. ASSUME NEW c \in Clients,
             Call(c) \/ Pick(c) \/ SendRequest(c) \/ Reply(c) \/ Miss(c) \/ Fail(c)
      PROVE  LaunchedFirst'
  <2>1. UNCHANGED <<num_alive, pc>>
    BY <1>4 DEF Call, Pick, SendRequest, Reply, Miss, Fail, barrierVars, mainVars
  <2>2. \E to : step' = [step EXCEPT ![c] = to] /\ pc[c] # "off"
    BY <1>4 DEF Call, Pick, SendRequest, Reply, Miss, Fail, GoStep
  <2>3. \/ UNCHANGED target
        \/ \E s \in 0..num_alive[Proc(c)] - 1 : target' = [target EXCEPT ![c] = s]
    BY <1>4 DEF Call, Pick, CountFor, SendRequest, Reply, Miss, Fail
  <2> QED BY <2>1, <2>2, <2>3, WorkerKeeps
<1>5. CASE Controller
  BY <1>5 DEF Controller, Flush, ServeBarrier, AnnounceOut, AnnounceIn, Sync!Flush,
     Sync!FlushLost, Sync!Collect, Sync!Notify, Sync!NotifyLost, Sync!NextRound, Sync!clientVars,
     barrierVars, mainVars, workerVars
<1>6. CASE UNCHANGED vars
  BY <1>6 DEF vars, barrierVars, mainVars, workerVars
<1> QED
  BY <1>1, <1>2, <1>3, <1>4, <1>5, <1>6 DEF Next, Worker, Terminated

\* The divisor of get and set is never 0 and their index never beyond the
\* connections, for every configuration within the servers it lists.
THEOREM IndicesInRange == Spec => []ServersInRange
<1>1. Init => LaunchedFirst
  BY ClusterAssumption
     DEF Init, LaunchedFirst, Sync!Init, Clients, Servers
<1>2. LaunchedFirst /\ Sync!IInv /\ [Next]_vars => LaunchedFirst'
  BY RangeStep DEF Sync!IInv
<1>3. LaunchedFirst => ServersInRange
  <2> SUFFICES ASSUME LaunchedFirst, NEW c \in Clients
               PROVE  /\ step[c] # "idle" => num_alive[Proc(c)] \in 1..NumTotal
                      /\ target[c] \in Servers
    BY DEF ServersInRange
  <2>1. num_alive[Proc(c)] \in {0, NumInitial, NumScale}
    BY DEF LaunchedFirst, Procs, Proc, Clients, Sync!Nodes
  <2> QED BY <2>1, ClusterAssumption DEF LaunchedFirst
<1> QED BY <1>1, <1>2, <1>3, SyncInvariant, PTL DEF Spec
------------------------------------------------------------------------------
(* The types of what the workers count.                                    *)

\* An operation that has begun is one that may still be counted.
CountsInv ==
  /\ access_vector \in [Procs -> [Servers -> Nat]]
  /\ received \in [Servers -> Nat]
  /\ step \in [Clients -> {"idle", "get", "getSend", "getWait", "set", "setSend", "setWait"}]
  /\ op \in [Clients -> {"GET", "SET"}]
  /\ ops \in [Clients -> 0..MaxOps]
  /\ \A c \in Clients : step[c] # "idle" => ops[c] < MaxOps
  /\ errors \in 0..MaxErrors
  /\ msgs \subseteq Messages

LEMMA CountsStep ==
  ASSUME CountsInv, LaunchedFirst, [Next]_vars
  PROVE  CountsInv'
<1> USE ClusterAssumption DEF CountsInv
<1>1. ASSUME NEW p \in Procs, Launch(p) \/ Main(p) PROVE CountsInv'
  <2>1. UNCHANGED <<workerVars, msgs>>
    BY <1>1 DEF Launch, Main, ScaleOut, ScaleIn, Join
  <2> QED BY <2>1 DEF workerVars
<1>2. ASSUME NEW c \in Clients, Worker(c) PROVE CountsInv'
  <2> UNCHANGED msgs
    BY <1>2 DEF Worker, SyncReady, Return, Call, Pick, SendRequest, Reply, Miss, Fail
  <2>1. CASE SyncReady(c) \/ Return(c)
    BY <2>1 DEF SyncReady, Return, workerVars
  <2>2. CASE Call(c)
    BY <2>2 DEF Call, Begin
  <2>3. CASE Pick(c)
    <3>1. PICK s \in 0..num_alive[Proc(c)] - 1 : CountFor(c, s)
      BY <2>3 DEF Pick
    <3>2. \A f \in [Servers -> Nat] : [f EXCEPT ![s] = f[s] + 1] \in [Servers -> Nat]
      <4>1. num_alive[Proc(c)] \in {0, NumInitial, NumScale}
        BY DEF LaunchedFirst, Procs, Proc, Clients, Sync!Nodes
      <4>2. s \in Servers
        BY <4>1 DEF Servers
      <4> QED BY <4>2
    <3>3. access_vector' = [access_vector EXCEPT ![Proc(c)] =
            [access_vector[Proc(c)] EXCEPT ![s] = access_vector[Proc(c)][s] + 1]]
      BY <3>1 DEF CountFor
    <3>4. access_vector' \in [Procs -> [Servers -> Nat]]
      BY <3>2, <3>3
    <3>5. \E to \in {"getSend", "setSend"} : step[c] # "idle" /\ step' = [step EXCEPT ![c] = to]
      BY <2>3 DEF Pick, GoStep
    <3> QED BY <2>3, <3>4, <3>5 DEF Pick
  <2>5. CASE SendRequest(c)
    <3>1. received' \in [Servers -> Nat]
      BY <2>5 DEF SendRequest, LaunchedFirst
    <3>2. \E to \in {"getWait", "setWait"} : step[c] # "idle" /\ step' = [step EXCEPT ![c] = to]
      BY <2>5 DEF SendRequest, GoStep
    <3> QED BY <2>5, <3>1, <3>2 DEF SendRequest
  <2>6. CASE Reply(c)
    <3>1. ops[c] + 1 \in 0..MaxOps /\ step' = [step EXCEPT ![c] = "idle"]
      BY <2>6, SMT DEF Reply, GoStep
    <3>2. /\ ops' = [ops EXCEPT ![c] = ops[c] + 1]
          /\ UNCHANGED <<access_vector, received, op, errors>>
      BY <2>6 DEF Reply
    <3>3. \A d \in Clients \ {c} : ops'[d] = ops[d] /\ step'[d] = step[d]
      BY <3>1, <3>2
    <3>4. step'[c] = "idle"
      BY <3>1
    <3> QED BY <3>1, <3>2, <3>3, <3>4
  <2>7. CASE Miss(c)
    BY <2>7 DEF Miss, GoStep
  <2>8. CASE Fail(c)
    <3>1. errors' \in 0..MaxErrors
      BY <2>8, SMT DEF Fail
    <3>2. \E to \in {"get", "set"} : step[c] # "idle" /\ step' = [step EXCEPT ![c] = to]
      BY <2>8 DEF Fail, GoStep, Begin
    <3> QED BY <2>8, <3>1, <3>2 DEF Fail
  <2> QED BY <1>2, <2>1, <2>2, <2>3, <2>5, <2>6, <2>7, <2>8 DEF Worker
<1>3. CASE Controller
  <2>1. UNCHANGED workerVars
    BY <1>3 DEF Controller, Flush, ServeBarrier, AnnounceOut, AnnounceIn
  <2>2. msgs' \subseteq Messages
    BY <1>3 DEF Controller, Flush, ServeBarrier, AnnounceOut, AnnounceIn, Send, Messages
  <2> QED BY <2>1, <2>2 DEF workerVars
<1>4. CASE UNCHANGED vars
  BY <1>4 DEF vars, workerVars
<1> QED BY <1>1, <1>2, <1>3, <1>4 DEF Next, Terminated

\* Variables keep their types: in particular no count is lost to an index that
\* the access vector does not have.
THEOREM TypeInvariant == Spec => []TypeOK
<1>1. Init => CountsInv /\ LaunchedFirst
  BY ClusterAssumption DEF Init, CountsInv, LaunchedFirst, Sync!Init, Clients, Servers
<1>2. CountsInv /\ LaunchedFirst /\ Sync!IInv /\ [Next]_vars => CountsInv' /\ LaunchedFirst'
  BY CountsStep, RangeStep DEF Sync!IInv
<1>3. CountsInv /\ LaunchedFirst /\ Sync!IInv /\ ScaleInv => TypeOK
  BY DEF CountsInv, LaunchedFirst, Sync!IInv, ScaleInv, ScriptTypeOK, TypeOK
<1> QED BY <1>1, <1>2, <1>3, SyncInvariant, ScaleInvariance, PTL DEF Spec
------------------------------------------------------------------------------
(* What the servers have received, and what the processes have counted.     *)

LEMMA ProcsFinite == IsFiniteSet(Procs)
<1> DEFINE h == [c \in Clients |-> Proc(c)]
<1>1. IsFiniteSet(Clients)
  BY ClusterAssumption, FS_Interval DEF Clients, Sync!Clients
<1>2. h \in Surjection(Clients, Procs)
  BY DEF Surjection, Procs, Sync!Nodes, Clients, Proc
<1> HIDE DEF h
<1> QED BY <1>1, <1>2, FS_Surjection

\* A request that is counted adds one to the sum of its server, and to no other.
LEMMA CountAdds ==
  ASSUME CountsInv, NEW c \in Clients, NEW t \in Servers, CountFor(c, t), NEW s \in Servers
  PROVE  SumOver(s)' = SumOver(s) + (IF s = t THEN 1 ELSE 0)
<1> DEFINE f == [p \in Procs |-> access_vector[p][s]]
           g == [p \in Procs |-> access_vector'[p][s]]
<1>1. Proc(c) \in Procs
  BY DEF Procs, Proc, Clients, Sync!Nodes
<1>2. f \in [Procs -> Nat]
  BY DEF CountsInv
<1>3. /\ \A p \in Procs \ {Proc(c)} : g[p] = f[p]
      /\ g[Proc(c)] = f[Proc(c)] + (IF s = t THEN 1 ELSE 0)
  BY <1>1 DEF CountFor, CountsInv
<1>4. g \in [Procs -> Nat]
  <2>1. \A p \in Procs : g[p] \in Nat
    BY <1>2, <1>3
  <2> QED BY <2>1
<1>5. SumOver(s) = SumFunctionOnSet(f, Procs) /\ SumOver(s)' = SumFunctionOnSet(g, Procs)
  BY DEF SumOver, SumFunction
<1>6. SumFunctionOnSet(g, Procs) = SumFunctionOnSet(f, Procs) - f[Proc(c)] + g[Proc(c)]
  <2> HIDE DEF f, g
  <2> QED BY <1>1, <1>2, <1>3, <1>4, ProcsFinite, SumChange
<1>7. SumFunctionOnSet(f, Procs) \in Nat
  <2> HIDE DEF f, g
  <2> QED BY <1>2, ProcsFinite, SumNat
<1> HIDE DEF f, g
<1> QED BY <1>1, <1>2, <1>3, <1>5, <1>6, <1>7

LEMMA SumsAreNumbers == CountsInv => \A s \in Servers : SumOver(s) \in Nat
<1> SUFFICES ASSUME CountsInv, NEW s \in Servers PROVE SumOver(s) \in Nat
  OBVIOUS
<1>1. [p \in Procs |-> access_vector[p][s]] \in [Procs -> Nat]
  BY DEF CountsInv
<1> QED BY <1>1, ProcsFinite, SumWhole DEF SumOver

\* A step of one thread adds it to the requests that are on their way to a
\* server, takes it away from them, or leaves them as they are.
LEMMA SendingChanges ==
  ASSUME NEW c \in Clients, NEW s \in Servers,
         \A d \in Clients \ {c} : step'[d] = step[d] /\ target'[d] = target[d]
  PROVE  /\ Cardinality(Sending(s)) \in Nat
         /\ c \notin Sending(s) /\ c \in Sending(s)' =>
              Cardinality(Sending(s))' = Cardinality(Sending(s)) + 1
         /\ c \in Sending(s) /\ c \notin Sending(s)' =>
              Cardinality(Sending(s))' = Cardinality(Sending(s)) - 1
         /\ (c \in Sending(s) <=> c \in Sending(s)') =>
              Cardinality(Sending(s))' = Cardinality(Sending(s))
<1>1. IsFiniteSet(Sending(s))
  <2>1. IsFiniteSet(Clients)
    BY ClusterAssumption, FS_Interval DEF Clients, Sync!Clients
  <2> QED BY <2>1, FS_Subset DEF Sending
<1>2. Sending(s) \ {c} = Sending(s)' \ {c}
  BY DEF Sending
<1>3. CASE c \notin Sending(s) /\ c \in Sending(s)'
  <2>1. Sending(s)' = Sending(s) \cup {c}
    BY <1>2, <1>3
  <2> QED BY <1>1, <1>3, <2>1, FS_AddElement, FS_CardinalityType
<1>4. CASE c \in Sending(s) /\ c \notin Sending(s)'
  <2>1. Sending(s)' = Sending(s) \ {c}
    BY <1>2, <1>4
  <2> QED BY <1>1, <1>4, <2>1, FS_RemoveElement, FS_CardinalityType
<1>5. CASE c \in Sending(s) <=> c \in Sending(s)'
  <2>1. Sending(s)' = Sending(s)
    BY <1>2, <1>5
  <2> QED BY <1>1, <1>5, <2>1, FS_CardinalityType
<1> QED BY <1>3, <1>4, <1>5

LEMMA CoversStep ==
  ASSUME AccessVectorCovers, CountsInv, LaunchedFirst, [Next]_vars
  PROVE  AccessVectorCovers'
<1> DEFINE Arrived(s) == received[s] + Cardinality(Sending(s))
<1> SUFFICES ASSUME NEW s \in Servers
             PROVE  /\ Arrived(s)' <= SumOver(s)'
                    /\ errors' = 0 => Arrived(s)' = SumOver(s)'
  BY DEF AccessVectorCovers
<1> DEFINE Covered == /\ Arrived(s)' <= SumOver(s)'
                      /\ errors' = 0 => Arrived(s)' = SumOver(s)'
<1>1. /\ SumOver(s) \in Nat /\ received[s] \in Nat /\ errors \in Nat
      /\ Arrived(s) <= SumOver(s)
      /\ errors = 0 => Arrived(s) = SumOver(s)
  BY SumsAreNumbers DEF AccessVectorCovers, CountsInv
<1>2. CASE UNCHANGED <<access_vector, received, errors, step, target>>
  BY <1>1, <1>2 DEF SumOver, Sending
<1>3. ASSUME NEW c \in Clients, Pick(c) PROVE Covered
  <2>1. PICK t \in 0..num_alive[Proc(c)] - 1 : CountFor(c, t)
    BY <1>3 DEF Pick
  <2>2. t \in Servers /\ target' = [target EXCEPT ![c] = t]
    <3>1. num_alive[Proc(c)] \in {0, NumInitial, NumScale}
      BY DEF LaunchedFirst, Procs, Proc, Clients, Sync!Nodes
    <3> QED BY <2>1, <3>1, ClusterAssumption DEF Servers, CountFor
  <2>3. SumOver(s)' = SumOver(s) + (IF s = t THEN 1 ELSE 0)
    BY <2>1, <2>2, CountAdds
  <2>4. PICK to \in {"getSend", "setSend"} : /\ step[c] \in {"get", "set"}
                                             /\ step' = [step EXCEPT ![c] = to]
    BY <1>3 DEF Pick, GoStep
  <2>5. /\ c \notin Sending(s) /\ (c \in Sending(s)' <=> s = t)
        /\ \A d \in Clients \ {c} : step'[d] = step[d] /\ target'[d] = target[d]
    BY <2>2, <2>4 DEF Sending, CountsInv, LaunchedFirst
  <2>6. Cardinality(Sending(s)) \in Nat
        /\ Cardinality(Sending(s))' = Cardinality(Sending(s)) + (IF s = t THEN 1 ELSE 0)
    BY <2>5, SendingChanges
  <2>7. UNCHANGED <<received, errors>>
    BY <1>3 DEF Pick
  <2> QED BY <1>1, <2>3, <2>6, <2>7
<1>4. ASSUME NEW c \in Clients, SendRequest(c) PROVE Covered
  <2>1. PICK to \in {"getWait", "setWait"} : /\ step[c] \in {"getSend", "setSend"}
                                             /\ step' = [step EXCEPT ![c] = to]
    BY <1>4 DEF SendRequest, GoStep
  <2>2. /\ received' = [received EXCEPT ![target[c]] = received[target[c]] + 1]
        /\ UNCHANGED <<access_vector, target, errors>>
    BY <1>4 DEF SendRequest
  <2>3. /\ (c \in Sending(s) <=> s = target[c]) /\ c \notin Sending(s)'
        /\ \A d \in Clients \ {c} : step'[d] = step[d] /\ target'[d] = target[d]
    BY <2>1, <2>2 DEF Sending, CountsInv
  <2>4. Cardinality(Sending(s)) \in Nat
        /\ Cardinality(Sending(s))' = Cardinality(Sending(s)) - (IF s = target[c] THEN 1 ELSE 0)
    BY <2>3, SendingChanges
  <2>5. received'[s] = received[s] + (IF s = target[c] THEN 1 ELSE 0)
    BY <2>2 DEF CountsInv, LaunchedFirst
  <2>6. SumOver(s)' = SumOver(s)
    BY <2>2 DEF SumOver
  <2> QED BY <1>1, <2>2, <2>4, <2>5, <2>6
<1>5. ASSUME NEW c \in Clients, Fail(c) PROVE Covered
  <2>1. PICK to \in {"get", "set"} : step' = [step EXCEPT ![c] = to]
    BY <1>5 DEF Fail, GoStep, Begin
  <2>2. UNCHANGED <<access_vector, received, target>> /\ errors' = errors + 1
    BY <1>5 DEF Fail
  <2>3. /\ c \notin Sending(s)'
        /\ \A d \in Clients \ {c} : step'[d] = step[d] /\ target'[d] = target[d]
    BY <2>1, <2>2 DEF Sending, CountsInv
  <2>4. /\ Cardinality(Sending(s)) \in Nat
        /\ \/ Cardinality(Sending(s))' = Cardinality(Sending(s))
           \/ Cardinality(Sending(s))' = Cardinality(Sending(s)) - 1
    BY <2>3, SendingChanges
  <2>5. SumOver(s)' = SumOver(s)
    BY <2>2 DEF SumOver
  <2> QED BY <1>1, <2>2, <2>4, <2>5
<1>6. ASSUME NEW c \in Clients, Call(c) \/ Reply(c) \/ Miss(c) PROVE Covered
  <2>1. UNCHANGED <<access_vector, received, errors, target>>
    BY <1>6 DEF Call, Reply, Miss
  <2>2. PICK to \in {"get", "set", "idle"} : /\ step[c] \in {"idle", "getWait", "setWait"}
                                             /\ step' = [step EXCEPT ![c] = to]
    BY <1>6 DEF Call, Begin, Reply, Miss, GoStep
  <2>3. /\ c \notin Sending(s) /\ c \notin Sending(s)'
        /\ \A d \in Clients \ {c} : step'[d] = step[d] /\ target'[d] = target[d]
    BY <2>1, <2>2 DEF Sending, CountsInv
  <2>4. Cardinality(Sending(s))' = Cardinality(Sending(s)) /\ SumOver(s)' = SumOver(s)
    BY <2>1, <2>3, SendingChanges DEF SumOver
  <2> QED BY <1>1, <2>1, <2>4
<1>7. ASSUME NEW p \in Procs, Launch(p) \/ Main(p)
      PROVE  UNCHANGED <<access_vector, received, errors, step, target>>
  BY <1>7 DEF Launch, Main, ScaleOut, ScaleIn, Join, workerVars
<1>8. ASSUME NEW c \in Clients, SyncReady(c) \/ Return(c)
      PROVE  UNCHANGED <<access_vector, received, errors, step, target>>
  BY <1>8 DEF SyncReady, Return, workerVars
<1>9. ASSUME Controller \/ UNCHANGED vars
      PROVE  UNCHANGED <<access_vector, received, errors, step, target>>
  BY <1>9 DEF Controller, Flush, ServeBarrier, AnnounceOut, AnnounceIn, vars, workerVars
<1> QED BY <1>2, <1>3, <1>4, <1>5, <1>6, <1>7, <1>8, <1>9 DEF Next, Worker, Terminated

\* For any number of processes, servers and failed requests the access vectors
\* together cover what each server has received and what is on its way to it, and
\* exactly so while no request has failed: no count is lost, and none goes to another server.
THEOREM AccessCovered == Spec => []AccessVectorCovers
<1>1. Init => AccessVectorCovers /\ CountsInv /\ LaunchedFirst
  <2> SUFFICES ASSUME Init PROVE AccessVectorCovers /\ CountsInv /\ LaunchedFirst
    OBVIOUS
  <2>1. CountsInv /\ LaunchedFirst
    BY ClusterAssumption DEF Init, CountsInv, LaunchedFirst, Sync!Init, Clients, Servers
  <2>2. ASSUME NEW s \in Servers PROVE SumOver(s) = 0
    <3> DEFINE f == [p \in Procs |-> access_vector[p][s]]
    <3>1. \A p \in Procs : f[p] = 0
      BY DEF Init
    <3>2. SumOver(s) = SumFunctionOnSet(f, Procs)
      BY DEF SumOver, SumFunction
    <3> HIDE DEF f
    <3> QED BY <3>1, <3>2, ProcsFinite, SumZero
  <2>3. \A s \in Servers : received[s] = 0 /\ Sending(s) = {}
    BY DEF Init, Sending
  <2>4. Cardinality({}) = 0
    BY FS_EmptySet
  <2> QED BY <2>1, <2>2, <2>3, <2>4 DEF AccessVectorCovers
<1>2. AccessVectorCovers /\ CountsInv /\ LaunchedFirst /\ Sync!IInv /\ [Next]_vars =>
        AccessVectorCovers' /\ CountsInv' /\ LaunchedFirst'
  BY CoversStep, CountsStep, RangeStep DEF Sync!IInv
<1> QED BY <1>1, <1>2, SyncInvariant, PTL DEF Spec
==============================================================================
