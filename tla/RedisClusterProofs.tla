-------------------------- MODULE RedisClusterProofs --------------------------
(***************************************************************************)
(* Proofs about the scripts that scale a Redis cluster.  HorizontalScale:  *)
(* the account that the script keeps of the slots is good enough to undo   *)
(* the scale-out, for any number of masters and slots.  ScaleScripts: the  *)
(* masters that are left are empty, for any number of slots, and slots     *)
(* move under transactions only and between instances that are up, for     *)
(* any number of clients.                                                  *)
(***************************************************************************)
EXTENDS HorizontalScale, ScaleScripts, SumTheorems, SequenceTheorems, TLAPS

\* What a reshard does to the two masters, and to nobody else.
Resharded(from, to, n, mayFail) ==
  /\ slots' \in [Ports -> 0..NumSlots]
  /\ members' = members
  /\ \A p \in Ports \ {from, to} : slots'[p] = slots[p]
  /\ slots'[from] + slots'[to] = slots[from] + slots[to]
  /\ slots'[to] <= slots[to] + n
  /\ slots'[from] <= slots[from]
  /\ ~({from, to} \subseteq members) =>
        slots'[from] = slots[from] /\ slots'[to] = slots[to]
  /\ {from, to} \subseteq members /\ ~mayFail /\ slots[from] <= n =>
        slots'[from] = 0

LEMMA Resharding ==
  ASSUME RedisAssumption,
         slots \in [Ports -> 0..NumSlots],
         NEW from \in Ports, NEW to \in Ports, from # to,
         slots[from] + slots[to] <= NumSlots,
         NEW n \in Nat, NEW mayFail \in BOOLEAN,
         Reshard(from, to, n, mayFail)
  PROVE  Resharded(from, to, n, mayFail)
<1> DEFINE most == IF {from, to} \subseteq members THEN Least(n, slots[from]) ELSE 0
<1> slots[from] \in Nat /\ slots[to] \in Nat /\ slots[from] <= NumSlots /\ NumSlots \in Nat
  BY SMT DEF RedisAssumption
<1>1. /\ most \in Nat /\ most <= n /\ most <= slots[from]
      /\ ~({from, to} \subseteq members) => most = 0
      /\ {from, to} \subseteq members /\ slots[from] <= n => most = slots[from]
  BY SMT DEF Least
<1>2. PICK k \in (IF mayFail THEN 0..most ELSE {most}) :
        slots' = [slots EXCEPT ![from] = @ - k, ![to] = @ + k]
  BY Zenon DEF Reshard
<1>3. k \in Nat /\ k <= most /\ (~mayFail => k = most)
  <2> HIDE DEF most
  <2> QED BY <1>1, <1>2, SMT
<1> HIDE DEF most
<1>4. slots'[from] = slots[from] - k /\ slots'[to] = slots[to] + k
  BY <1>2, SMT
<1>5. \A p \in Ports \ {from, to} : slots'[p] = slots[p]
  BY <1>2, SMT
<1>6. slots' \in [Ports -> 0..NumSlots]
  BY <1>1, <1>2, <1>3, SMT
<1>7. members' = members
  BY DEF Reshard
<1> QED BY <1>1, <1>3, <1>4, <1>5, <1>6, <1>7, SMT DEF Resharded

------------------------------------------------------------------------------
(* HorizontalScale.                                                         *)

\* What the loops have done so far: a partner owns nothing before its turn in
\* the scale-out, nor after its turn in a scale-in without failures.
LoopsSoFar ==
  /\ ~Measured => \A n \in Initial : slots[Partner(n)] = 0
  /\ phase = "out" =>
       \A n \in Initial : n >= i => slots[Partner(n)] = 0 /\ port_slots[Partner(n)] = 0
  /\ phase = "in" /\ ~InFails =>
       \A n \in Initial : n < i => slots[Partner(n)] = 0

\* The two of a pair never own more than all slots.
PairsBounded == \A n \in Initial : slots[n] + slots[Partner(n)] <= NumSlots

\* An instance that was not added owns nothing.
OwnersAreMembers ==
  /\ Initial \subseteq members
  /\ \A p \in Ports \ members : slots[p] = 0

PairsInv ==
  /\ HorizontalTypeOK
  /\ LoopsSoFar
  /\ PairsBounded
  /\ OwnersAreMembers
  /\ PairsAccounted
  /\ PartnerCovered
  /\ PartnersEmptied
------------------------------------------------------------------------------
\* The account with two entries changed.
LEMMA Booking ==
  ASSUME NEW f \in [server_ports -> 0..NumSlots], NEW g,
         NEW from \in server_ports, NEW to \in server_ports, from # to,
         NEW m \in 0..NumSlots, f[from] - m \in 0..NumSlots,
         g = [f EXCEPT ![from] = @ - m, ![to] = m]
  PROVE  /\ g \in [server_ports -> 0..NumSlots]
         /\ g[from] = f[from] - m /\ g[to] = m
         /\ \A p \in server_ports \ {from, to} : g[p] = f[p]
<1>1. g[from] = f[from] - m
  BY Zenon
<1>2. g[to] = m
  BY Zenon
<1>3. \A p \in server_ports \ {from, to} : g[p] = f[p]
  BY Zenon
<1>4. g \in [server_ports -> 0..NumSlots]
  BY SMT
<1> QED BY <1>1, <1>2, <1>3, <1>4

\* Halves of a number of slots.
LEMMA Halves ==
  ASSUME NEW m \in Nat
  PROVE  m \div 2 \in Nat /\ m \div 2 <= m /\ m - m \div 2 \in Nat /\ m - m \div 2 <= m
  BY SMT

\* The instances of different pairs are different.
LEMMA PairsDistinct ==
  ASSUME HorizontalAssumption
  PROVE  \A n \in Initial :
           /\ n \in server_ports /\ Partner(n) \in server_ports
           /\ n \in Ports /\ Partner(n) \in Ports
           /\ \A m \in Initial : n # Partner(m) /\ (n # m => Partner(n) # Partner(m))
  BY SMT DEF HorizontalAssumption, Initial, Partner, server_ports

\* An iteration stays within the loop or goes to the next one.
LEMMA Iterating ==
  ASSUME HorizontalAssumption, i \in Initial, NEW from, NEW to, Iterate(from, to)
  PROVE  /\ phase = from /\ i' \in Initial
         /\ \/ phase' = from /\ i' = i + 1
            \/ phase' = to /\ i' = 0 /\ i = NumInitial - 1
  BY SMT DEF HorizontalAssumption, Initial, Iterate
------------------------------------------------------------------------------
LEMMA HorizontalStart ==
  ASSUME RedisAssumption, HorizontalAssumption, HorizontalInit
  PROVE  PairsInv
<1>1. HorizontalTypeOK
  BY SMT DEF RedisAssumption, HorizontalAssumption, HorizontalInit, EvenSplits, HorizontalTypeOK,
     ClusterTypeOK, Initial
<1>2. \A n \in Initial : slots[Partner(n)] = 0 /\ slots[n] <= NumSlots
  <2>1. \A n \in Initial : n \in Ports /\ Partner(n) \in Ports \ Initial
    BY SMT DEF HorizontalAssumption, Initial, Partner
  <2>2. \A q \in Ports \ Initial : slots[q] = 0
    BY DEF HorizontalInit, EvenSplits
  <2>3. \A q \in Ports : slots[q] <= NumSlots
    BY <1>1, SMT DEF RedisAssumption, HorizontalTypeOK, ClusterTypeOK
  <2> QED BY <2>1, <2>2, <2>3
<1>3. PairsBounded
  <2>1. \A n \in Initial : slots[n] \in Nat
    BY <1>1, SMT DEF RedisAssumption, HorizontalAssumption, HorizontalTypeOK, ClusterTypeOK, Initial
  <2> QED BY <1>2, <2>1, SMT DEF RedisAssumption, PairsBounded
<1>4. OwnersAreMembers
  BY DEF HorizontalInit, EvenSplits, OwnersAreMembers
<1> QED BY <1>1, <1>2, <1>3, <1>4 DEF HorizontalInit, PairsInv, Measured, LoopsSoFar, PairsAccounted,
       PartnerCovered, PartnersEmptied

LEMMA AddKeeps ==
  ASSUME RedisAssumption, HorizontalAssumption, PairsInv, AddScaleNode
  PROVE  PairsInv'
<1>1. /\ slots' = slots /\ port_slots' = port_slots /\ members \subseteq members'
      /\ members' \subseteq Ports
  BY PairsDistinct DEF AddScaleNode, AddNode, PairsInv, HorizontalTypeOK, ClusterTypeOK
<1>2. phase = "add" /\ phase' \in {"add", "measure"} /\ i' \in Initial
  BY Iterating DEF AddScaleNode, PairsInv, HorizontalTypeOK
<1>3. \A n \in Initial : slots[Partner(n)] = 0
  BY <1>2 DEF PairsInv, LoopsSoFar, Measured
<1> QED BY <1>1, <1>2, <1>3 DEF PairsInv, HorizontalTypeOK, ClusterTypeOK, LoopsSoFar, PairsBounded,
       OwnersAreMembers, PairsAccounted, PartnerCovered, PartnersEmptied, Measured

LEMMA MeasureKeeps ==
  ASSUME RedisAssumption, HorizontalAssumption, PairsInv, ReadPortSlots
  PROVE  PairsInv'
<1>1. /\ slots' = slots /\ members' = members /\ i' = i
      /\ port_slots' = [p \in server_ports |-> slots[p]]
      /\ phase = "measure" /\ phase' = "out"
  BY DEF ReadPortSlots, get_port_slot_map
<1>2. \A n \in Initial : slots[Partner(n)] = 0
  BY <1>1 DEF PairsInv, LoopsSoFar, Measured
<1>3. \A n \in Initial : /\ port_slots'[n] = slots[n]
                         /\ port_slots'[Partner(n)] = slots[Partner(n)]
  BY <1>1, PairsDistinct
<1>4. HorizontalTypeOK' /\ OwnersAreMembers' /\ PairsBounded' /\ PairsAccounted'
  <2>1. server_ports \subseteq Ports
    BY DEF HorizontalAssumption, server_ports
  <2>2. port_slots' \in [server_ports -> 0..NumSlots]
    BY <1>1, <2>1 DEF PairsInv, HorizontalTypeOK, ClusterTypeOK
  <2>3. HorizontalTypeOK'
    BY <1>1, <2>2 DEF PairsInv, HorizontalTypeOK, ClusterTypeOK
  <2>4. OwnersAreMembers' /\ PairsBounded'
    BY <1>1 DEF PairsInv, OwnersAreMembers, PairsBounded
  <2>5. PairsAccounted'
    BY <1>1, <1>3 DEF PairsAccounted
  <2> QED BY <2>3, <2>4, <2>5
<1>5. PartnerCovered'
  BY <1>1, <1>2, <1>3, SMT DEF PartnerCovered
<1>6. LoopsSoFar' /\ PartnersEmptied'
  BY <1>1, <1>2, <1>3 DEF LoopsSoFar, PartnersEmptied, Measured
<1> QED BY <1>4, <1>5, <1>6 DEF PairsInv

\* The scale-out of pair i.
LEMMA ScaleOutKeeps ==
  ASSUME RedisAssumption, HorizontalAssumption, PairsInv, ScaleOut
  PROVE  PairsInv'
<1> DEFINE half == port_slots[i] \div 2
<1>1. /\ phase = "out" /\ i \in Initial /\ i' \in Initial
      /\ \/ phase' = "out" /\ i' = i + 1
         \/ phase' = "in" /\ i' = 0
  BY Iterating DEF ScaleOut, PairsInv, HorizontalTypeOK
<1>2. /\ i \in Ports /\ Partner(i) \in Ports /\ i # Partner(i)
      /\ i \in server_ports /\ Partner(i) \in server_ports
      /\ \A n \in Initial : /\ n \in Ports /\ Partner(n) \in Ports
                            /\ n \in server_ports /\ Partner(n) \in server_ports
                            /\ n # Partner(i) /\ i # Partner(n)
                            /\ n # i => Partner(n) # Partner(i)
  BY <1>1, PairsDistinct
<1>3. /\ slots \in [Ports -> 0..NumSlots] /\ port_slots \in [server_ports -> 0..NumSlots]
      /\ slots[Partner(i)] = 0 /\ port_slots[Partner(i)] = 0
      /\ slots[i] + slots[Partner(i)] <= NumSlots
      /\ slots[i] + slots[Partner(i)] = port_slots[i] + port_slots[Partner(i)]
  BY <1>1, SMT DEF PairsInv, HorizontalTypeOK, ClusterTypeOK, LoopsSoFar, PairsBounded, PairsAccounted,
     Measured, Initial, HorizontalAssumption
<1>4. half \in Nat /\ half <= port_slots[i] /\ port_slots[i] - half \in 0..NumSlots
      /\ half \in 0..NumSlots /\ port_slots[i] \in Nat
  BY <1>2, <1>3, Halves, SMT DEF RedisAssumption
<1>5. /\ Reshard(i, Partner(i), half, OutFails)
      /\ port_slots' = [port_slots EXCEPT ![i] = @ - half, ![Partner(i)] = half]
  BY DEF ScaleOut
<1> HIDE DEF half
<1>6. /\ port_slots' \in [server_ports -> 0..NumSlots]
      /\ port_slots'[i] = port_slots[i] - half /\ port_slots'[Partner(i)] = half
      /\ \A q \in server_ports \ {i, Partner(i)} : port_slots'[q] = port_slots[q]
  <2>1. /\ port_slots \in [server_ports -> 0..NumSlots] /\ half \in 0..NumSlots
        /\ i \in server_ports /\ Partner(i) \in server_ports /\ i # Partner(i)
        /\ port_slots[i] - half \in 0..NumSlots
        /\ port_slots' = [port_slots EXCEPT ![i] = @ - half, ![Partner(i)] = half]
    BY <1>2, <1>3, <1>4, <1>5
  <2>2. port_slots'[i] = port_slots[i] - half
    BY <2>1, Zenon
  <2>3. port_slots'[Partner(i)] = half
    BY <2>1, Zenon
  <2>4. \A q \in server_ports \ {i, Partner(i)} : port_slots'[q] = port_slots[q]
    BY <2>1, Zenon
  <2>5. port_slots' \in [server_ports -> 0..NumSlots]
    BY <2>1, SMT
  <2> QED BY <2>2, <2>3, <2>4, <2>5
<1>7. /\ slots' \in [Ports -> 0..NumSlots]
      /\ members' = members
      /\ \A q \in Ports \ {i, Partner(i)} : slots'[q] = slots[q]
      /\ slots'[i] + slots'[Partner(i)] = slots[i] + slots[Partner(i)]
      /\ slots'[Partner(i)] <= slots[Partner(i)] + half
      /\ Partner(i) \notin members => slots'[Partner(i)] = slots[Partner(i)]
  <2>1. OutFails \in BOOLEAN
    BY DEF HorizontalAssumption
  <2>2. Resharded(i, Partner(i), half, OutFails)
    <3>1. /\ slots \in [Ports -> 0..NumSlots] /\ half \in Nat
          /\ i \in Ports /\ Partner(i) \in Ports /\ i # Partner(i)
          /\ slots[i] + slots[Partner(i)] <= NumSlots
          /\ Reshard(i, Partner(i), half, OutFails)
      BY <1>2, <1>3, <1>4, <1>5
    <3> QED BY <2>1, <3>1, Resharding, Zenon
  <2> QED BY <2>2 DEF Resharded
<1>8. \A n \in Initial : n # i =>
        /\ slots'[n] = slots[n] /\ slots'[Partner(n)] = slots[Partner(n)]
        /\ port_slots'[n] = port_slots[n] /\ port_slots'[Partner(n)] = port_slots[Partner(n)]
  BY <1>2, <1>6, <1>7
<1>9. HorizontalTypeOK'
  BY <1>1, <1>6, <1>7 DEF PairsInv, HorizontalTypeOK, ClusterTypeOK
<1>10. \A n \in Initial : n > i => slots'[Partner(n)] = 0 /\ port_slots'[Partner(n)] = 0
  BY <1>1, <1>8, SMT DEF PairsInv, LoopsSoFar, Initial, HorizontalAssumption
<1>11. LoopsSoFar'
  <2>1. CASE phase' = "out" /\ i' = i + 1
    BY <2>1, <1>1, <1>10, SMT DEF LoopsSoFar, Measured, Initial, HorizontalAssumption
  <2>2. CASE phase' = "in" /\ i' = 0
    BY <2>2, SMT DEF LoopsSoFar, Measured, Initial, HorizontalAssumption
  <2> QED BY <1>1, <2>1, <2>2
<1>12. PairsBounded'
  BY <1>3, <1>7, <1>8 DEF PairsInv, PairsBounded
<1>13. OwnersAreMembers'
  <2>1. \A q \in Ports \ members : slots'[q] = slots[q]
    BY <1>1, <1>7 DEF PairsInv, OwnersAreMembers
  <2> QED BY <1>7, <2>1 DEF PairsInv, OwnersAreMembers
<1>14. PairsAccounted'
  <2>1. slots'[i] + slots'[Partner(i)] = port_slots'[i] + port_slots'[Partner(i)]
    <3>1. slots'[i] + slots'[Partner(i)] = port_slots[i] + port_slots[Partner(i)]
      BY <1>3, <1>7, Zenon
    <3>2. /\ port_slots[i] \in Nat /\ port_slots[Partner(i)] = 0 /\ half \in Nat
          /\ port_slots'[i] = port_slots[i] - half /\ port_slots'[Partner(i)] = half
      BY <1>3, <1>4, <1>6, Zenon
    <3> QED BY <3>1, <3>2
  <2> QED BY <1>1, <1>8, <2>1 DEF PairsInv, PairsAccounted, Measured
<1>15. PartnerCovered'
  <2>1. slots'[Partner(i)] <= port_slots'[Partner(i)]
    BY <1>3, <1>4, <1>6, <1>7, SMT
  <2> QED BY <1>1, <1>8, <2>1 DEF PairsInv, PartnerCovered, Measured
<1> QED BY <1>1, <1>9, <1>11, <1>12, <1>13, <1>14, <1>15 DEF PairsInv, PartnersEmptied

\* The scale-in of pair i.
LEMMA ScaleInKeeps ==
  ASSUME RedisAssumption, HorizontalAssumption, PairsInv, ScaleIn
  PROVE  PairsInv'
<1> DEFINE n0 == port_slots[Partner(i)]
<1>1. /\ phase = "in" /\ i \in Initial /\ i' \in Initial
      /\ \/ phase' = "in" /\ i' = i + 1
         \/ phase' = "done" /\ i' = 0 /\ i = NumInitial - 1
  BY Iterating DEF ScaleIn, PairsInv, HorizontalTypeOK
<1>2. /\ i \in Ports /\ Partner(i) \in Ports /\ i # Partner(i)
      /\ i \in server_ports /\ Partner(i) \in server_ports
      /\ \A n \in Initial : /\ n \in Ports /\ Partner(n) \in Ports
                            /\ n \in server_ports /\ Partner(n) \in server_ports
                            /\ n # Partner(i) /\ i # Partner(n)
                            /\ n # i => Partner(n) # Partner(i)
  BY <1>1, PairsDistinct
<1>3. /\ slots \in [Ports -> 0..NumSlots] /\ port_slots \in [server_ports -> 0..NumSlots]
      /\ slots[i] + slots[Partner(i)] <= NumSlots
      /\ slots[Partner(i)] <= n0
      /\ slots[i] + slots[Partner(i)] = port_slots[i] + port_slots[Partner(i)]
  BY <1>1 DEF PairsInv, HorizontalTypeOK, ClusterTypeOK, PairsBounded, PartnerCovered, PairsAccounted,
     Measured
<1>4. /\ n0 \in Nat /\ slots[i] \in Nat /\ slots[Partner(i)] \in Nat
      /\ slots[Partner(i)] + slots[i] <= NumSlots
  BY <1>2, <1>3, SMT DEF RedisAssumption
<1>5. Reshard(Partner(i), i, n0, InFails) /\ port_slots' = port_slots
  BY DEF ScaleIn
<1> HIDE DEF n0
<1>6. /\ slots' \in [Ports -> 0..NumSlots]
      /\ members' = members
      /\ \A q \in Ports \ {i, Partner(i)} : slots'[q] = slots[q]
      /\ slots'[Partner(i)] + slots'[i] = slots[Partner(i)] + slots[i]
      /\ slots'[Partner(i)] <= slots[Partner(i)]
      /\ Partner(i) \notin members => slots'[Partner(i)] = slots[Partner(i)]
      /\ {Partner(i), i} \subseteq members /\ ~InFails => slots'[Partner(i)] = 0
  <2>1. InFails \in BOOLEAN
    BY DEF HorizontalAssumption
  <2>2. Resharded(Partner(i), i, n0, InFails)
    <3>1. /\ slots \in [Ports -> 0..NumSlots] /\ n0 \in Nat
          /\ i \in Ports /\ Partner(i) \in Ports /\ Partner(i) # i
          /\ slots[Partner(i)] + slots[i] <= NumSlots
          /\ Reshard(Partner(i), i, n0, InFails)
      BY <1>2, <1>3, <1>4, <1>5
    <3> QED BY <2>1, <3>1, Resharding, Zenon
  <2> QED BY <1>2, <1>3, <2>2 DEF Resharded
<1>7. slots'[i] \in Nat /\ slots'[Partner(i)] \in Nat
  BY <1>2, <1>6, SMT DEF RedisAssumption
<1>8. /\ slots'[i] + slots'[Partner(i)] = slots[i] + slots[Partner(i)]
      /\ slots'[Partner(i)] <= n0
  BY <1>3, <1>4, <1>6, <1>7, SMT
<1>9. \A n \in Initial : n # i =>
        slots'[n] = slots[n] /\ slots'[Partner(n)] = slots[Partner(n)]
  BY <1>2, <1>6
<1>10. ~InFails => slots'[Partner(i)] = 0
  BY <1>1, <1>2, <1>6 DEF PairsInv, OwnersAreMembers
<1>11. ~InFails => \A n \in Initial : n <= i => slots'[Partner(n)] = 0
  BY <1>1, <1>9, <1>10, SMT DEF PairsInv, LoopsSoFar, Initial, HorizontalAssumption
<1>12. HorizontalTypeOK'
  BY <1>1, <1>5, <1>6 DEF PairsInv, HorizontalTypeOK, ClusterTypeOK
<1>13. LoopsSoFar' /\ PartnersEmptied'
  <2>1. CASE phase' = "in" /\ i' = i + 1
    BY <2>1, <1>1, <1>11, SMT DEF LoopsSoFar, PartnersEmptied, Measured, Initial,
       HorizontalAssumption
  <2>2. CASE phase' = "done" /\ i' = 0 /\ i = NumInitial - 1
    BY <2>2, <1>11, SMT DEF LoopsSoFar, PartnersEmptied, Measured, Initial,
       HorizontalAssumption
  <2> QED BY <1>1, <2>1, <2>2
<1>14. PairsBounded'
  BY <1>3, <1>8, <1>9 DEF PairsInv, PairsBounded
<1>15. OwnersAreMembers'
  <2>1. \A q \in Ports \ members : slots'[q] = slots[q]
    BY <1>1, <1>6 DEF PairsInv, OwnersAreMembers
  <2> QED BY <1>6, <2>1 DEF PairsInv, OwnersAreMembers
<1>16. PairsAccounted' /\ PartnerCovered'
  <2> USE DEF n0
  <2>1. Measured
    BY <1>1 DEF Measured
  <2>2. /\ slots'[i] + slots'[Partner(i)] = port_slots'[i] + port_slots'[Partner(i)]
        /\ slots'[Partner(i)] <= port_slots'[Partner(i)]
    BY <1>3, <1>5, <1>8
  <2> QED BY <1>5, <1>9, <2>1, <2>2 DEF PairsInv, PairsAccounted, PartnerCovered
<1> QED BY <1>12, <1>13, <1>14, <1>15, <1>16 DEF PairsInv
------------------------------------------------------------------------------
\* The invariant behind all results.
THEOREM PairsInvariance ==
  ASSUME RedisAssumption, HorizontalAssumption
  PROVE  HorizontalSpec => []PairsInv
<1>1. HorizontalInit => PairsInv
  BY HorizontalStart
<1>2. PairsInv /\ [HorizontalNext]_horizontalVars => PairsInv'
  <2> SUFFICES ASSUME PairsInv, [HorizontalNext]_horizontalVars PROVE PairsInv'
    OBVIOUS
  <2>1. CASE UNCHANGED horizontalVars
    BY <2>1 DEF horizontalVars, PairsInv, HorizontalTypeOK, ClusterTypeOK, LoopsSoFar, PairsBounded, Measured,
       OwnersAreMembers, PairsAccounted, PartnerCovered, PartnersEmptied
  <2> QED BY <2>1, AddKeeps, MeasureKeeps, ScaleOutKeeps, ScaleInKeeps DEF HorizontalNext
<1> QED BY <1>1, <1>2, PTL DEF HorizontalSpec

\* The account of a pair is exact, whatever the reshards have moved
\* (redis-cluster-scale-horizontal.py:110-111).
THEOREM AccountExact ==
  ASSUME RedisAssumption, HorizontalAssumption
  PROVE  HorizontalSpec => []PairsAccounted
BY PairsInvariance, PTL DEF PairsInv

\* The account of a partner covers all it owns, so that asking for that many
\* slots back leaves nothing behind (redis-cluster-scale-horizontal.py:120-122).
THEOREM PartnersCovered ==
  ASSUME RedisAssumption, HorizontalAssumption
  PROVE  HorizontalSpec => []PartnerCovered
BY PairsInvariance, PTL DEF PairsInv

\* A scale-in without failures undoes a scale-out with failures: the partners
\* are left empty (redis-cluster-scale-horizontal.py:120-122).
THEOREM ScaleInUndoes ==
  ASSUME RedisAssumption, HorizontalAssumption
  PROVE  HorizontalSpec => []PartnersEmptied
BY PairsInvariance, PTL DEF PairsInv

\* Variables keep their types; no instance ever owns more than all slots.
THEOREM HorizontalTypeInvariant ==
  ASSUME RedisAssumption, HorizontalAssumption
  PROVE  HorizontalSpec => []HorizontalTypeOK
BY PairsInvariance, PTL DEF PairsInv
------------------------------------------------------------------------------
(* ScaleScripts: the scripts, command by command.                           *)

vertical == "redis-cluster-scale-vertical"

\* The positions of "create" and of the first "collect" in a script.
Creation(s) == IF s = vertical THEN 3 ELSE 4
Meeting(s) == IF s = vertical THEN 11 ELSE IF s = "scale-vertical" THEN 13 ELSE 12

\* Where the commands of a script are, relative to these two.
Placed(s, k, c) ==
  LET n == Creation(s)
      m == Meeting(s)
  IN  /\ c.do = "flush" => k = 1
      /\ c.do = "startServers" => k = 2 /\ s = vertical
      /\ c.do = "launchStarter" => k = 2 /\ s # vertical
      /\ c.do = "awaitServers" => k = 3 /\ s # vertical
      /\ c.do = "create" => k = n /\ c.arg = initial_ports
      /\ c.do = "measure" => k = n + 1
      /\ c.do = "gather" => k \in n + 2..n + 3 /\ c.arg \in {7001, 7002}
      /\ c.do = "remove" => k \in n + 4..n + 5 /\ c.arg \in {7001, 7002}
      /\ c.do = "add" => \/ k = n + 6 /\ c.arg = scale_port
                         \/ k = n + 7 /\ c.arg = shrink_port /\ s # "scale-horizontal"
      /\ c.do = "launchClients" => k = m - 1 /\ s # vertical
      /\ c.do = "collect" => \/ k = m /\ c.arg = 0
                             \/ k = m + 2 /\ c.arg = 1
      /\ c.do = "notify" => \/ k = m + 1 /\ c.arg = 0
                            \/ k = m + 3 /\ c.arg = 1
      /\ c.do = "move" =>
           \/ /\ k = m + 4 /\ c.arg.from = 7000 /\ c.arg.to = scale_port
              /\ c.arg.n = IF s = "scale-horizontal" THEN NumSlots \div 2 ELSE NumSlots
           \/ /\ k = m + 5 /\ c.arg.from = scale_port
              /\ IF s = "scale-horizontal"
                 THEN c.arg.to = 7000 /\ c.arg.n = NumSlots \div 2
                 ELSE c.arg.to = shrink_port /\ c.arg.n = NumSlots
      /\ c.do = "join" => k = m + 6 /\ s # vertical
      /\ c.do = "finish" => k = m + 7 /\ s # vertical

\* A command is of one kind, and a reshard has three arguments.
LEMMA CommandIs ==
  /\ \A what, arg : Do(what, arg).do = what /\ Do(what, arg).arg = arg
  /\ \A from, to, n : LET c == Move(from, to, n)
                      IN  c.do = "move" /\ c.arg.from = from /\ c.arg.to = to /\ c.arg.n = n
BY DEF Do, Move

LEMMA CommandsOf ==
  /\ Commands[vertical] = redis_cluster_scale_vertical
  /\ Commands["scale-vertical"] = scale_vertical
  /\ Commands["scale-horizontal"] = scale_horizontal
<1>1. vertical \in Scripts /\ "scale-vertical" \in Scripts /\ "scale-horizontal" \in Scripts
  BY DEF Scripts, vertical
<1> QED BY <1>1 DEF Commands, vertical

LEMMA VerticalPlaced ==
  /\ Len(redis_cluster_scale_vertical) = 16
  /\ \A k \in 1..16 : Placed(vertical, k, redis_cluster_scale_vertical[k])
<1> DEFINE S == redis_cluster_scale_vertical
<1>1. Len(S) = 16
  BY SMT DEF redis_cluster_scale_vertical, Gathering, Barriers
<1>2. /\ S[1] = Do("flush", {}) /\ S[2] = Do("startServers", {})
      /\ S[3] = Do("create", initial_ports) /\ S[4] = Do("measure", initial_ports)
      /\ S[5] = Do("gather", 7001) /\ S[6] = Do("gather", 7002)
      /\ S[7] = Do("remove", 7001) /\ S[8] = Do("remove", 7002)
      /\ S[9] = Do("add", scale_port) /\ S[10] = Do("add", shrink_port)
      /\ S[11] = Do("collect", 0) /\ S[12] = Do("notify", 0)
      /\ S[13] = Do("collect", 1) /\ S[14] = Do("notify", 1)
      /\ S[15] = Move(7000, scale_port, NumSlots)
      /\ S[16] = Move(scale_port, shrink_port, NumSlots)
  BY SMT DEF redis_cluster_scale_vertical, Gathering, Barriers
<1> HIDE DEF S
<1>3. Creation(vertical) = 3 /\ Meeting(vertical) = 11
  BY DEF Creation, Meeting
<1> SUFFICES ASSUME NEW k \in 1..16 PROVE Placed(vertical, k, S[k])
  BY <1>1 DEF S
<1>4. CASE k \in 1..7
  <2>1. k = 1 \/ k = 2 \/ k = 3 \/ k = 4 \/ k = 5 \/ k = 6 \/ k = 7
    BY <1>4
  <2> QED BY <1>2, <1>3, <2>1, CommandIs DEF Placed
<1>5. CASE k \in 8..12
  <2>1. k = 8 \/ k = 9 \/ k = 10 \/ k = 11 \/ k = 12
    BY <1>5
  <2> QED BY <1>2, <1>3, <2>1, CommandIs DEF Placed, vertical
<1>6. CASE k \in 13..14
  <2>1. \/ k = Meeting(vertical) + 2 /\ S[k] = Do("collect", 1)
        \/ k = Meeting(vertical) + 3 /\ S[k] = Do("notify", 1)
    BY <1>2, <1>3, <1>6
  <2> QED BY <2>1, CommandIs DEF Placed
<1>7. CASE k \in 15..16
  <2>1. /\ S[15].do = "move" /\ S[15].arg.from = 7000
        /\ S[15].arg.to = scale_port /\ S[15].arg.n = NumSlots
        /\ S[16].do = "move" /\ S[16].arg.from = scale_port
        /\ S[16].arg.to = shrink_port /\ S[16].arg.n = NumSlots
    BY <1>2, CommandIs
  <2>2. k = 15 \/ k = 16
    BY <1>7
  <2> QED BY <1>3, <2>1, <2>2 DEF Placed, vertical
<1> QED BY <1>4, <1>5, <1>6, <1>7

LEMMA LegacyVerticalPlaced ==
  /\ Len(scale_vertical) = 20
  /\ \A k \in 1..20 : Placed("scale-vertical", k, scale_vertical[k])
<1> DEFINE S == scale_vertical
<1>1. Len(S) = 20
  BY SMT DEF scale_vertical, Gathering, Barriers
<1>2. /\ S[1] = Do("flush", {}) /\ S[2] = Do("launchStarter", {})
      /\ S[3] = Do("awaitServers", {}) /\ S[4] = Do("create", initial_ports)
      /\ S[5] = Do("measure", initial_ports) /\ S[6] = Do("gather", 7001)
      /\ S[7] = Do("gather", 7002) /\ S[8] = Do("remove", 7001)
      /\ S[9] = Do("remove", 7002) /\ S[10] = Do("add", scale_port)
      /\ S[11] = Do("add", shrink_port) /\ S[12] = Do("launchClients", {})
      /\ S[13] = Do("collect", 0) /\ S[14] = Do("notify", 0)
      /\ S[15] = Do("collect", 1) /\ S[16] = Do("notify", 1)
      /\ S[17] = Move(7000, scale_port, NumSlots)
      /\ S[18] = Move(scale_port, shrink_port, NumSlots) /\ S[19] = Do("join", {})
      /\ S[20] = Do("finish", {})
  BY SMT DEF scale_vertical, Gathering, Barriers
<1> HIDE DEF S
<1>3. /\ Creation("scale-vertical") = 4 /\ Meeting("scale-vertical") = 13
      /\ "scale-vertical" # vertical
  BY DEF Creation, Meeting, vertical
<1> SUFFICES ASSUME NEW k \in 1..20 PROVE Placed("scale-vertical", k, S[k])
  BY <1>1 DEF S
<1>4. CASE k \in 1..6
  <2>1. k = 1 \/ k = 2 \/ k = 3 \/ k = 4 \/ k = 5 \/ k = 6
    BY <1>4
  <2> QED BY <1>2, <1>3, <2>1, CommandIs DEF Placed
<1>5. CASE k \in 7..11
  <2>1. k = 7 \/ k = 8 \/ k = 9 \/ k = 10 \/ k = 11
    BY <1>5
  <2> QED BY <1>2, <1>3, <2>1, CommandIs DEF Placed
<1>6. CASE k \in 12..16
  <2>1. k = 12 \/ k = 13 \/ k = 14 \/ k = 15 \/ k = 16
    BY <1>6
  <2> QED BY <1>2, <1>3, <2>1, CommandIs DEF Placed
<1>7. CASE k \in 17..18
  <2>1. /\ S[17].do = "move" /\ S[17].arg.from = 7000
        /\ S[17].arg.to = scale_port /\ S[17].arg.n = NumSlots
        /\ S[18].do = "move" /\ S[18].arg.from = scale_port
        /\ S[18].arg.to = shrink_port /\ S[18].arg.n = NumSlots
    BY <1>2, CommandIs
  <2>2. k = 17 \/ k = 18
    BY <1>7
  <2> QED BY <1>3, <2>1, <2>2 DEF Placed
<1>8. CASE k \in 19..20
  <2>1. k = 19 \/ k = 20
    BY <1>8
  <2> QED BY <1>2, <1>3, <2>1, CommandIs DEF Placed
<1> QED BY <1>4, <1>5, <1>6, <1>7, <1>8

LEMMA LegacyHorizontalPlaced ==
  /\ Len(scale_horizontal) = 19
  /\ \A k \in 1..19 : Placed("scale-horizontal", k, scale_horizontal[k])
<1> DEFINE S == scale_horizontal
<1>1. Len(S) = 19
  BY SMT DEF scale_horizontal, Gathering, Barriers
<1>2. /\ S[1] = Do("flush", {}) /\ S[2] = Do("launchStarter", {})
      /\ S[3] = Do("awaitServers", {}) /\ S[4] = Do("create", initial_ports)
      /\ S[5] = Do("measure", initial_ports) /\ S[6] = Do("gather", 7001)
      /\ S[7] = Do("gather", 7002) /\ S[8] = Do("remove", 7001)
      /\ S[9] = Do("remove", 7002) /\ S[10] = Do("add", scale_port)
      /\ S[11] = Do("launchClients", {}) /\ S[12] = Do("collect", 0)
      /\ S[13] = Do("notify", 0) /\ S[14] = Do("collect", 1)
      /\ S[15] = Do("notify", 1) /\ S[16] = Move(7000, scale_port, NumSlots \div 2)
      /\ S[17] = Move(scale_port, 7000, NumSlots \div 2) /\ S[18] = Do("join", {})
      /\ S[19] = Do("finish", {})
  BY SMT DEF scale_horizontal, Gathering, Barriers
<1> HIDE DEF S
<1>3. /\ Creation("scale-horizontal") = 4 /\ Meeting("scale-horizontal") = 12
      /\ "scale-horizontal" # vertical
  BY DEF Creation, Meeting, vertical
<1> SUFFICES ASSUME NEW k \in 1..19 PROVE Placed("scale-horizontal", k, S[k])
  BY <1>1 DEF S
<1>4. CASE k \in 1..6
  <2>1. k = 1 \/ k = 2 \/ k = 3 \/ k = 4 \/ k = 5 \/ k = 6
    BY <1>4
  <2> QED BY <1>2, <1>3, <2>1, CommandIs DEF Placed
<1>5. CASE k \in 7..11
  <2>1. k = 7 \/ k = 8 \/ k = 9 \/ k = 10 \/ k = 11
    BY <1>5
  <2> QED BY <1>2, <1>3, <2>1, CommandIs DEF Placed
<1>6. CASE k \in 12..15
  <2>1. k = 12 \/ k = 13 \/ k = 14 \/ k = 15
    BY <1>6
  <2> QED BY <1>2, <1>3, <2>1, CommandIs DEF Placed
<1>7. CASE k \in 16..17
  <2>1. /\ S[16].do = "move" /\ S[16].arg.from = 7000
        /\ S[16].arg.to = scale_port /\ S[16].arg.n = NumSlots \div 2
        /\ S[17].do = "move" /\ S[17].arg.from = scale_port
        /\ S[17].arg.to = 7000 /\ S[17].arg.n = NumSlots \div 2
    BY <1>2, CommandIs
  <2>2. k = 16 \/ k = 17
    BY <1>7
  <2> QED BY <1>3, <2>1, <2>2 DEF Placed
<1>8. CASE k \in 18..19
  <2>1. k = 18 \/ k = 19
    BY <1>8
  <2> QED BY <1>2, <1>3, <2>1, CommandIs DEF Placed
<1> QED BY <1>4, <1>5, <1>6, <1>7, <1>8

\* How long a script is, and where its commands are.
LEMMA Timeline ==
  ASSUME NEW s \in Scripts
  PROVE  /\ Len(Commands[s]) = IF s = vertical THEN Meeting(s) + 5 ELSE Meeting(s) + 7
         /\ Len(Commands[s]) \in Nat
         /\ \A k \in 1..Len(Commands[s]) : Placed(s, k, Commands[s][k])
<1>1. CASE s = vertical
  BY <1>1, CommandsOf, VerticalPlaced DEF Meeting
<1>2. CASE s = "scale-vertical"
  BY <1>2, CommandsOf, LegacyVerticalPlaced DEF Meeting, vertical
<1>3. CASE s = "scale-horizontal"
  BY <1>3, CommandsOf, LegacyHorizontalPlaced DEF Meeting, vertical
<1> QED BY <1>1, <1>2, <1>3 DEF Scripts, vertical

\* The order of the two in the scripts.
LEMMA Positions ==
  ASSUME NEW s \in Scripts
  PROVE  /\ Creation(s) \in Nat /\ Meeting(s) \in Nat
         /\ Creation(s) > 2 /\ Creation(s) + 7 < Meeting(s)
         /\ s = vertical => Creation(s) = 3
         /\ s # vertical => Creation(s) = 4
         /\ s = "scale-vertical" => Meeting(s) = 13 /\ s # vertical
BY DEF Scripts, Creation, Meeting, vertical
------------------------------------------------------------------------------
(* ScaleScripts: the slots.                                                 *)

ScriptTyped ==
  /\ script \in Scripts
  /\ pc \in 1..Len(Commands[script]) + 1
  /\ port_slots \in [initial_ports -> 0..NumSlots]

\* The masters after the commands so far, and what is at 7000 and at the master
\* that was added: it is empty when the moves begin, and the first one leaves
\* 7000 empty or it with no more slots than the second one takes away, if the
\* masters they need have joined.
MastersInv ==
  LET n == Creation(script)
      m == Meeting(script)
  IN  /\ pc <= n => members = {}
      /\ pc > n => 7000 \in members
      /\ pc <= m + 4 => slots[scale_port] = 0
      /\ ~MoveFails /\ Joined /\ pc > m + 4 =>
           IF script = "scale-horizontal"
           THEN slots[scale_port] <= NumSlots \div 2
           ELSE slots[7000] = 0
      /\ ~MoveFails /\ Joined /\ pc > m + 5 => slots[scale_port] = 0

ClusterInv ==
  /\ ScriptTyped
  /\ ClusterTypeOK
  /\ SumFunction(slots) <= NumSlots
  /\ MastersInv

\* A command is at its place in the script.
LEMMA Running ==
  ASSUME ScriptTyped, NEW what, Run(what)
  PROVE  /\ script \in Scripts /\ script' = script
         /\ pc \in Nat /\ pc > 0 /\ pc' = pc + 1
         /\ pc' \in 1..Len(Commands[script']) + 1
         /\ Commands[script][pc].do = what
         /\ Placed(script, pc, Commands[script][pc])
<1>1. script \in Scripts /\ pc \in 1..Len(Commands[script]) + 1
  BY DEF ScriptTyped
<1>2. Len(Commands[script]) \in Nat
  BY <1>1, Timeline
<1>3. pc \in 1..Len(Commands[script])
  BY <1>1, <1>2 DEF Run, Over
<1>4. script' = script /\ pc' = pc + 1 /\ Commands[script][pc].do = what
  BY DEF Run
<1>5. Placed(script, pc, Commands[script][pc])
  BY <1>1, <1>3, Timeline
<1> QED BY <1>1, <1>2, <1>3, <1>4, <1>5

LEMMA PortsOfScripts ==
  ASSUME RedisAssumption, ScaleAssumption
  PROVE  /\ {7000, 7001, 7002, scale_port, shrink_port} \subseteq Ports
         /\ initial_ports \subseteq Ports /\ scale_port \in Ports \ initial_ports
         /\ 7000 # scale_port /\ 7000 # shrink_port /\ scale_port # shrink_port
         /\ scale_port \notin {7001, 7002} /\ 7000 \notin {7001, 7002}
         /\ IsFiniteSet(Ports) /\ NumSlots \in Nat /\ NumSlots \div 2 \in Nat
         /\ {GatherFails, MoveFails} \subseteq BOOLEAN
<1>1. 7000..7004 \subseteq Ports /\ IsFiniteSet(Ports) /\ NumSlots \in Nat
      /\ {GatherFails, MoveFails} \subseteq BOOLEAN
  BY DEF RedisAssumption, ScaleAssumption
<1>2. NumSlots \div 2 \in Nat
  BY <1>1
<1> QED BY <1>1, <1>2 DEF initial_ports, scale_port, shrink_port

\* A reshard only moves slots: nobody ever owns more than all of them.
LEMMA SlotsMoved ==
  ASSUME RedisAssumption, ClusterTypeOK, SumFunction(slots) <= NumSlots,
         NEW from \in Ports, NEW to \in Ports, from # to,
         NEW n \in Nat, NEW mayFail \in BOOLEAN,
         Reshard(from, to, n, mayFail)
  PROVE  /\ Resharded(from, to, n, mayFail)
         /\ ClusterTypeOK'
         /\ SumFunction(slots') <= NumSlots
<1>1. NumSlots \in Nat /\ IsFiniteSet(Ports) /\ slots \in [Ports -> 0..NumSlots]
      /\ members \subseteq Ports
  BY DEF RedisAssumption, ClusterTypeOK
<1>2. slots \in [Ports -> Nat]
  BY <1>1
<1> DEFINE rest == SumFunctionOnSet(slots, (Ports \ {from}) \ {to})
<1>3. SumFunction(slots) = slots[from] + slots[to] + rest /\ rest \in Nat
  BY <1>1, <1>2, SumPair
<1>4. slots[from] \in Nat /\ slots[to] \in Nat
  BY <1>2
<1> HIDE DEF rest
<1>5. slots[from] + slots[to] <= NumSlots
  BY <1>1, <1>3, <1>4
<1>6. Resharded(from, to, n, mayFail)
  BY <1>1, <1>5, Resharding
<1>7. /\ slots' \in [Ports -> 0..NumSlots] /\ members' = members
      /\ \A p \in Ports \ {from, to} : slots'[p] = slots[p]
      /\ slots'[from] + slots'[to] = slots[from] + slots[to]
  BY <1>6 DEF Resharded
<1>8. slots' \in [Ports -> Nat]
  BY <1>1, <1>7
<1>9. SumFunction(slots') = slots'[from] + slots'[to]
                              + SumFunctionOnSet(slots', (Ports \ {from}) \ {to})
  BY <1>1, <1>8, SumPair
<1>10. SumFunctionOnSet(slots', (Ports \ {from}) \ {to}) = rest
  <2> DEFINE S == (Ports \ {from}) \ {to}
  <2>1. IsFiniteSet(S)
    BY <1>1, FS_Subset
  <2>2. \A p \in S : slots[p] \in Nat /\ slots'[p] = slots[p]
    BY <1>2, <1>7
  <2> HIDE DEF S
  <2>3. SumFunctionOnSet(slots', S) = SumFunctionOnSet(slots, S)
    BY <2>1, <2>2, SumSame
  <2> QED BY <2>3 DEF S, rest
<1>11. SumFunction(slots') = SumFunction(slots)
  BY <1>3, <1>7, <1>9, <1>10
<1> QED BY <1>1, <1>6, <1>7, <1>11 DEF ClusterTypeOK

\* A command that leaves the cluster alone is not one of those that the
\* invariant is about.
LEMMA ElsewhereKeeps ==
  ASSUME ClusterInv, script' = script, pc' = pc + 1, pc \in Nat,
         slots' = slots, members' = members,
         ScriptTyped',
         pc # Creation(script),
         pc # Meeting(script) + 4, pc # Meeting(script) + 5
  PROVE  ClusterInv'
<1> DEFINE n == Creation(script)
           m == Meeting(script)
<1>1. n \in Nat /\ m \in Nat /\ n + 7 < m
  BY Positions DEF ClusterInv, ScriptTyped
<1>2. /\ pc <= n => members = {}
      /\ pc > n => 7000 \in members
      /\ pc <= m + 4 => slots[scale_port] = 0
      /\ ~MoveFails /\ Joined /\ pc > m + 4 =>
           IF script = "scale-horizontal"
           THEN slots[scale_port] <= NumSlots \div 2
           ELSE slots[7000] = 0
      /\ ~MoveFails /\ Joined /\ pc > m + 5 => slots[scale_port] = 0
  BY DEF ClusterInv, MastersInv
<1>3. n' = n /\ m' = m /\ Joined' = Joined
  BY DEF Joined
<1> HIDE DEF n, m
<1>4. pc # n /\ pc # m + 4 /\ pc # m + 5
  BY DEF n, m
<1>5. /\ pc + 1 <= n => pc <= n
      /\ pc + 1 > n => pc > n
      /\ pc + 1 <= m + 4 => pc <= m + 4
      /\ pc + 1 > m + 4 => pc > m + 4
      /\ pc + 1 > m + 5 => pc > m + 5
  BY <1>1, <1>4
<1>6. MastersInv'
  <2>1. /\ pc' <= n => members' = {}
        /\ pc' > n => 7000 \in members'
    BY <1>2, <1>5
  <2>2. /\ pc' <= m + 4 => slots'[scale_port] = 0
        /\ ~MoveFails /\ Joined' /\ pc' > m + 4 =>
             IF script' = "scale-horizontal"
             THEN slots'[scale_port] <= NumSlots \div 2
             ELSE slots'[7000] = 0
        /\ ~MoveFails /\ Joined' /\ pc' > m + 5 => slots'[scale_port] = 0
    BY <1>2, <1>3, <1>5
  <2> QED BY <1>3, <2>1, <2>2 DEF MastersInv, n, m
<1> QED BY <1>6 DEF ClusterInv, ClusterTypeOK

LEMMA CreateKeeps ==
  ASSUME RedisAssumption, ScaleAssumption, ClusterInv, Create
  PROVE  ClusterInv'
<1> DEFINE n == Creation(script)
           m == Meeting(script)
<1>1. /\ script \in Scripts /\ script' = script /\ pc \in Nat /\ pc' = pc + 1
      /\ pc' \in 1..Len(Commands[script']) + 1
      /\ pc = n /\ Arg = initial_ports
  BY Running DEF Create, ClusterInv, Placed, Arg
<1>2. n \in Nat /\ m \in Nat /\ n + 7 < m
  BY <1>1, Positions
<1>3. n' = n /\ m' = m
  BY <1>1
<1> HIDE DEF n, m
<1>4. members' = initial_ports /\ slots' \in EvenSplits(initial_ports, 3)
      /\ port_slots' = port_slots
  BY <1>1 DEF Create
<1>5. /\ slots' \in [Ports -> 0..NumSlots] /\ SumFunction(slots') = NumSlots
      /\ \A p \in Ports \ initial_ports : slots'[p] = 0
  BY <1>4 DEF EvenSplits
<1>6. slots'[scale_port] = 0 /\ 7000 \in members' /\ members' \subseteq Ports
  BY <1>4, <1>5, PortsOfScripts DEF initial_ports
<1>7. pc' > n /\ ~(pc' <= n) /\ ~(pc' > n + 6) /\ ~(pc' > n + 7)
      /\ ~(pc' > m + 4) /\ ~(pc' > m + 5)
  BY <1>1, <1>2
<1>8. MastersInv'
  BY <1>3, <1>6, <1>7 DEF MastersInv, n, m
<1>9. ScriptTyped'
  BY <1>1, <1>4 DEF ClusterInv, ScriptTyped
<1>10. ClusterTypeOK' /\ SumFunction(slots)' <= NumSlots
  BY <1>5, <1>6, PortsOfScripts DEF ClusterTypeOK
<1> QED BY <1>8, <1>9, <1>10 DEF ClusterInv

LEMMA GatherKeeps ==
  ASSUME RedisAssumption, ScaleAssumption, ClusterInv, Gather
  PROVE  ClusterInv'
<1> DEFINE n == Creation(script)
           m == Meeting(script)
           a == Arg
           k == port_slots[Arg]
<1>1. /\ script \in Scripts /\ script' = script /\ pc \in Nat /\ pc' = pc + 1
      /\ pc' \in 1..Len(Commands[script']) + 1
      /\ pc \in n + 2..n + 3 /\ a \in {7001, 7002}
  BY Running DEF Gather, ClusterInv, Placed, Arg
<1>2. n \in Nat /\ m \in Nat /\ n + 7 < m
  BY <1>1, Positions
<1>3. k \in Nat /\ port_slots' = port_slots /\ Reshard(a, 7000, k, GatherFails)
  BY <1>1, PortsOfScripts DEF Gather, ClusterInv, ScriptTyped, initial_ports
<1>4. a \in Ports /\ 7000 \in Ports /\ a # 7000 /\ a # scale_port /\ 7000 # scale_port
      /\ GatherFails \in BOOLEAN /\ scale_port \in Ports
  BY <1>1, PortsOfScripts
<1> HIDE DEF a, k
<1>5. /\ Resharded(a, 7000, k, GatherFails) /\ ClusterTypeOK'
      /\ SumFunction(slots') <= NumSlots
  BY <1>3, <1>4, SlotsMoved DEF ClusterInv
<1>6. slots'[scale_port] = slots[scale_port] /\ members' = members
  BY <1>4, <1>5 DEF Resharded
<1> HIDE DEF n, m
<1>7. pc > n /\ ~(pc' <= n) /\ pc <= m + 4 /\ ~(pc' > n + 6) /\ ~(pc' > n + 7)
      /\ ~(pc' > m + 4) /\ ~(pc' > m + 5)
  BY <1>1, <1>2
<1>8. 7000 \in members /\ slots[scale_port] = 0
  BY <1>7 DEF ClusterInv, MastersInv, n, m
<1>9. MastersInv'
  <2>1. n' = n /\ m' = m
    BY <1>1 DEF n, m
  <2> QED BY <1>6, <1>7, <1>8, <2>1 DEF MastersInv, n, m
<1>10. ScriptTyped'
  BY <1>1, <1>3 DEF ClusterInv, ScriptTyped
<1> QED BY <1>5, <1>9, <1>10 DEF ClusterInv

LEMMA RemoveKeeps ==
  ASSUME RedisAssumption, ScaleAssumption, ClusterInv, Remove
  PROVE  ClusterInv'
<1> DEFINE n == Creation(script)
           m == Meeting(script)
<1>1. /\ script \in Scripts /\ script' = script /\ pc \in Nat /\ pc' = pc + 1
      /\ pc' \in 1..Len(Commands[script']) + 1
      /\ pc \in n + 4..n + 5 /\ Arg \in {7001, 7002}
  BY Running DEF Remove, ClusterInv, Placed, Arg
<1>2. n \in Nat /\ m \in Nat /\ n + 7 < m
  BY <1>1, Positions
<1>3. slots' = slots /\ port_slots' = port_slots
      /\ members' \in {members, members \ {Arg}}
  BY DEF Remove, DelNode
<1> HIDE DEF n, m
<1>4. pc > n /\ ~(pc' <= n) /\ pc <= m + 4 /\ ~(pc' > n + 6) /\ ~(pc' > n + 7)
      /\ ~(pc' > m + 4) /\ ~(pc' > m + 5)
  BY <1>1, <1>2
<1>5. 7000 \in members /\ slots[scale_port] = 0
  BY <1>4 DEF ClusterInv, MastersInv, n, m
<1>6. 7000 \in members' /\ members' \subseteq Ports
  <2>1. Arg # 7000
    BY <1>1
  <2>2. members \subseteq Ports
    BY DEF ClusterInv, ClusterTypeOK
  <2> QED BY <1>3, <1>5, <2>1, <2>2
<1>7. MastersInv'
  <2>1. n' = n /\ m' = m
    BY <1>1 DEF n, m
  <2> QED BY <1>3, <1>4, <1>5, <1>6, <2>1 DEF MastersInv, n, m
<1>8. ScriptTyped'
  BY <1>1, <1>3 DEF ClusterInv, ScriptTyped
<1> QED BY <1>3, <1>6, <1>7, <1>8 DEF ClusterInv, ClusterTypeOK

LEMMA AddMasterKeeps ==
  ASSUME RedisAssumption, ScaleAssumption, ClusterInv, Add
  PROVE  ClusterInv'
<1> DEFINE n == Creation(script)
           m == Meeting(script)
<1>1. /\ script \in Scripts /\ script' = script /\ pc \in Nat /\ pc' = pc + 1
      /\ pc' \in 1..Len(Commands[script']) + 1
      /\ \/ pc = n + 6 /\ Arg = scale_port
         \/ pc = n + 7 /\ Arg = shrink_port /\ script # "scale-horizontal"
  BY Running DEF Add, ClusterInv, Placed, Arg
<1>2. n \in Nat /\ m \in Nat /\ n + 7 < m
  BY <1>1, Positions
<1>3. slots' = slots /\ port_slots' = port_slots /\ members' \in {members, members \cup {Arg}}
  BY DEF Add, AddNode
<1> HIDE DEF n, m
<1>4. pc > n /\ ~(pc' <= n) /\ pc <= m + 4 /\ ~(pc' > m + 4) /\ ~(pc' > m + 5)
  BY <1>1, <1>2
<1>5. 7000 \in members /\ slots[scale_port] = 0
  BY <1>4 DEF ClusterInv, MastersInv, n, m
<1>6. 7000 \in members' /\ members' \subseteq Ports
  BY <1>1, <1>3, <1>5, PortsOfScripts DEF ClusterInv, ClusterTypeOK
<1>7. MastersInv'
  <2>1. n' = n /\ m' = m
    BY <1>1 DEF n, m
  <2> QED BY <1>3, <1>4, <1>5, <1>6, <2>1 DEF MastersInv, n, m
<1>8. ScriptTyped'
  BY <1>1, <1>3 DEF ClusterInv, ScriptTyped
<1> QED BY <1>3, <1>6, <1>7, <1>8 DEF ClusterInv, ClusterTypeOK

\* The two reshards under load.
LEMMA MoveKeeps ==
  ASSUME RedisAssumption, ScaleAssumption, ClusterInv, MoveSlots
  PROVE  ClusterInv'
<1> DEFINE n == Creation(script)
           m == Meeting(script)
           from == Arg.from
           to == Arg.to
           k == Arg.n
<1>1. /\ script \in Scripts /\ script' = script /\ pc \in Nat /\ pc' = pc + 1
      /\ pc' \in 1..Len(Commands[script']) + 1
      /\ \/ /\ pc = m + 4 /\ from = 7000 /\ to = scale_port
            /\ k = IF script = "scale-horizontal" THEN NumSlots \div 2 ELSE NumSlots
         \/ /\ pc = m + 5 /\ from = scale_port
            /\ IF script = "scale-horizontal"
               THEN to = 7000 /\ k = NumSlots \div 2
               ELSE to = shrink_port /\ k = NumSlots
  BY Running DEF MoveSlots, ClusterInv, Placed, Arg
<1>2. n \in Nat /\ m \in Nat /\ n + 7 < m
  BY <1>1, Positions
<1>3. Reshard(from, to, k, MoveFails) /\ port_slots' = port_slots
  BY DEF MoveSlots
<1> HIDE DEF n, m, from, to, k
<1>4. from \in Ports /\ to \in Ports /\ from # to /\ k \in Nat /\ MoveFails \in BOOLEAN
  BY <1>1, PortsOfScripts
<1>5. /\ Resharded(from, to, k, MoveFails) /\ ClusterTypeOK'
      /\ SumFunction(slots') <= NumSlots
  BY <1>3, <1>4, SlotsMoved DEF ClusterInv
<1>6. /\ slots' \in [Ports -> 0..NumSlots] /\ members' = members
      /\ \A p \in Ports \ {from, to} : slots'[p] = slots[p]
      /\ slots'[to] <= slots[to] + k
      /\ {from, to} \subseteq members /\ ~MoveFails /\ slots[from] <= k => slots'[from] = 0
  BY <1>5 DEF Resharded
<1>7. pc > n /\ pc' > n /\ ~(pc' <= n) /\ ~(pc' <= m + 4)
  BY <1>1, <1>2
<1>8. /\ 7000 \in members /\ Joined' = Joined
      /\ Joined => /\ scale_port \in members
                   /\ script # "scale-horizontal" => shrink_port \in members
  BY <1>1, <1>6, <1>7 DEF ClusterInv, MastersInv, Joined, n, m
<1>9. \A p \in Ports : slots[p] <= NumSlots /\ slots[p] \in Nat
  BY PortsOfScripts DEF ClusterInv, ClusterTypeOK
<1>10. ~MoveFails /\ Joined =>
         /\ IF script = "scale-horizontal"
            THEN slots'[scale_port] <= NumSlots \div 2
            ELSE slots'[7000] = 0
         /\ pc' > m + 5 => slots'[scale_port] = 0
  <2> SUFFICES ASSUME ~MoveFails, Joined
               PROVE  /\ IF script = "scale-horizontal"
                         THEN slots'[scale_port] <= NumSlots \div 2
                         ELSE slots'[7000] = 0
                      /\ pc' > m + 5 => slots'[scale_port] = 0
    OBVIOUS
  <2>1. CASE pc = m + 4
    <3>1. from = 7000 /\ to = scale_port /\ ~(pc' > m + 5) /\ slots[scale_port] = 0
      <4>1. pc <= m + 4
        BY <1>2, <2>1
      <4>2. slots[scale_port] = 0
        BY <4>1 DEF ClusterInv, MastersInv, m
      <4> QED BY <1>1, <1>2, <2>1, <4>2
    <3>2. CASE script = "scale-horizontal"
      <4>1. k = NumSlots \div 2 /\ NumSlots \div 2 \in Nat
        BY <1>1, <1>2, <2>1, <3>2, PortsOfScripts
      <4> QED BY <1>6, <3>1, <3>2, <4>1
    <3>3. CASE script # "scale-horizontal"
      <4>1. k = NumSlots
        BY <1>1, <1>2, <2>1, <3>3
      <4>2. slots'[7000] = 0
        BY <1>4, <1>6, <1>8, <1>9, <3>1, <4>1
      <4> QED BY <3>1, <3>3, <4>2
    <3> QED BY <3>2, <3>3
  <2>2. CASE pc = m + 5
    <3>1. pc > m + 4 /\ from = scale_port
      BY <1>1, <1>2, <2>2
    <3>2. IF script = "scale-horizontal"
          THEN slots[scale_port] <= NumSlots \div 2
          ELSE slots[7000] = 0
      BY <3>1 DEF ClusterInv, MastersInv, m
    <3>3. CASE script = "scale-horizontal"
      <4>1. to = 7000 /\ k = NumSlots \div 2 /\ slots[scale_port] <= k
        BY <1>1, <1>2, <2>2, <3>2, <3>3
      <4>2. slots'[scale_port] = 0
        BY <1>6, <1>8, <3>1, <4>1
      <4>3. 0 <= NumSlots \div 2
        BY PortsOfScripts
      <4> QED BY <3>3, <4>2, <4>3
    <3>4. CASE script # "scale-horizontal"
      <4>1. to = shrink_port /\ k = NumSlots
        BY <1>1, <1>2, <2>2, <3>4
      <4>2. slots'[scale_port] = 0
        BY <1>4, <1>6, <1>8, <1>9, <3>1, <3>4, <4>1
      <4>3. slots'[7000] = slots[7000]
        BY <1>6, <3>1, <4>1, PortsOfScripts
      <4> QED BY <3>2, <3>4, <4>2, <4>3
    <3> QED BY <3>3, <3>4
  <2> QED BY <1>1, <2>1, <2>2
<1>11. MastersInv'
  <2>1. n' = n /\ m' = m
    BY <1>1 DEF n, m
  <2>2. ~MoveFails /\ Joined' =>
          /\ IF script = "scale-horizontal"
             THEN slots'[scale_port] <= NumSlots \div 2
             ELSE slots'[7000] = 0
          /\ pc' > m + 5 => slots'[scale_port] = 0
    BY <1>8, <1>10
  <2> QED BY <1>1, <1>6, <1>7, <1>8, <2>1, <2>2 DEF MastersInv, n, m
<1>12. ScriptTyped'
  BY <1>1, <1>3 DEF ClusterInv, ScriptTyped
<1> QED BY <1>5, <1>11, <1>12 DEF ClusterInv

\* The commands that leave the cluster alone.
Others ==
  \/ Flush \/ StartServers \/ LaunchStarter \/ AwaitServers \/ Measure
  \/ LaunchClients \/ Collect \/ Notify \/ Join \/ Finish

LEMMA OthersKeep ==
  ASSUME RedisAssumption, ScaleAssumption, ClusterInv, Others
  PROVE  ClusterInv'
<1> DEFINE n == Creation(script)
           m == Meeting(script)
           Kinds == {"flush", "startServers", "launchStarter", "awaitServers", "measure",
                     "launchClients", "collect", "notify", "join", "finish"}
<1>1. PICK what \in Kinds : Run(what)
  BY DEF Others, Flush, StartServers, LaunchStarter, AwaitServers, Measure, LaunchClients,
     Collect, Notify, Join, Finish
<1>2. slots' = slots /\ members' = members
  BY DEF Others, Flush, StartServers, LaunchStarter, AwaitServers, Measure, LaunchClients,
     Collect, Notify, Join, Finish, clusterVars
<1>3. /\ script \in Scripts /\ script' = script /\ pc \in Nat /\ pc' = pc + 1
      /\ pc' \in 1..Len(Commands[script']) + 1
      /\ Commands[script][pc].do = what /\ Placed(script, pc, Commands[script][pc])
  BY <1>1, Running DEF ClusterInv
<1>4. /\ n \in Nat /\ m \in Nat /\ n > 2 /\ n + 7 < m
      /\ script = vertical => n = 3
      /\ script # vertical => n = 4
      /\ script = "scale-vertical" => m = 13 /\ script # vertical
  BY <1>3, Positions
<1>5. \/ pc \in {1, n + 1, m, m + 1, m + 2, m + 3, m + 6, m + 7}
      \/ pc = 2
      \/ pc = 3 /\ script # vertical
      \/ pc = m - 1 /\ script # vertical
  BY <1>1, <1>3 DEF Placed
<1>6. pc # n /\ pc # m + 4 /\ pc # m + 5
  <2>1. script \in {vertical, "scale-vertical", "scale-horizontal"}
    BY <1>3 DEF Scripts, vertical
  <2> HIDE DEF n, m
  <2> QED BY <1>4, <1>5, <2>1
<1>7. port_slots' \in [initial_ports -> 0..NumSlots]
  <2>1. CASE port_slots' = port_slots
    BY <2>1 DEF ClusterInv, ScriptTyped
  <2>2. CASE Measure
    BY <2>2, PortsOfScripts DEF Measure, get_port_slot_map, ClusterInv, ClusterTypeOK
  <2> QED BY <2>1, <2>2 DEF Others, Flush, StartServers, LaunchStarter, AwaitServers,
         LaunchClients, Collect, Notify, Join, Finish
<1>8. ScriptTyped'
  BY <1>3, <1>7 DEF ScriptTyped
<1> HIDE DEF n, m
<1> QED BY <1>2, <1>3, <1>6, <1>8, ElsewhereKeeps DEF n, m

LEMMA ClusterAlways ==
  ASSUME RedisAssumption, ScaleAssumption
  PROVE  Spec => []ClusterInv
<1>1. Init => ClusterInv
  <2> SUFFICES ASSUME Init PROVE ClusterInv
    OBVIOUS
  <2>1. script \in Scripts /\ pc = 1 /\ members = {}
        /\ slots = [p \in Ports |-> 0] /\ port_slots = [p \in initial_ports |-> 0]
    BY DEF Init
  <2>2. Len(Commands[script]) \in Nat
    BY <2>1, Timeline
  <2>3. NumSlots \in Nat /\ IsFiniteSet(Ports) /\ scale_port \in Ports
    BY PortsOfScripts
  <2>4. ScriptTyped /\ ClusterTypeOK
    BY <2>1, <2>2, <2>3 DEF ScriptTyped, ClusterTypeOK
  <2>5. SumFunction(slots) <= NumSlots
    <3>1. slots \in [Ports -> Nat] /\ \A p \in Ports : slots[p] = 0
      BY <2>1
    <3>2. SumFunction(slots) = 0
      BY <2>3, <3>1, SumWhole, SumZero
    <3> QED BY <2>3, <3>2
  <2>6. MastersInv
    <3>1. Creation(script) \in Nat /\ Meeting(script) \in Nat /\ Creation(script) > 2
      BY <2>1, Positions
    <3> QED BY <2>1, <2>3, <3>1 DEF MastersInv
  <2> QED BY <2>4, <2>5, <2>6 DEF ClusterInv
<1>2. ClusterInv /\ [Next]_vars => ClusterInv'
  <2> SUFFICES ASSUME ClusterInv, [Next]_vars PROVE ClusterInv'
    OBVIOUS
  <2>1. ASSUME UNCHANGED <<clusterVars, scriptVars>> PROVE ClusterInv'
    <3>1. UNCHANGED <<script, pc, slots, members, port_slots>>
      BY <2>1 DEF clusterVars, scriptVars
    <3>2. ScriptTyped' /\ ClusterTypeOK' /\ SumFunction(slots)' <= NumSlots
      BY <3>1 DEF ClusterInv, ScriptTyped, ClusterTypeOK
    <3>3. MastersInv'
      <4>1. /\ Creation(script)' = Creation(script) /\ Meeting(script)' = Meeting(script)
            /\ Joined' = Joined
        BY <3>1 DEF Joined
      <4> QED BY <3>1, <4>1 DEF ClusterInv, MastersInv
    <3> QED BY <3>2, <3>3 DEF ClusterInv
  <2>2. CASE Script
    BY <2>2, CreateKeeps, GatherKeeps, RemoveKeeps, AddMasterKeeps, MoveKeeps, OthersKeep
       DEF Script, Others
  <2>3. CASE Starter \/ LaunchByHand \/ UNCHANGED vars
    <3>1. UNCHANGED <<clusterVars, scriptVars>>
      BY <2>3 DEF Starter, ClearOld, StartNodes, ReportReady, SeeFinish, CleanUp,
         LaunchByHand, vars
    <3> QED BY <2>1, <3>1
  <2>4. ASSUME NEW c \in Clients, Client(c) PROVE ClusterInv'
    <3>1. UNCHANGED <<clusterVars, scriptVars>>
      BY <2>4 DEF Client, Publish, Pass, Return
    <3> QED BY <2>1, <3>1
  <2> QED BY <2>2, <2>3, <2>4 DEF Next
<1> QED BY <1>1, <1>2, PTL DEF Spec

\* Where the scripts move all slots, or half of them there and back, the
\* masters that are left end empty for every number of slots and however much
\* of the gathering has failed.
THEOREM MastersLeftEmpty ==
  ASSUME RedisAssumption, ScaleAssumption
  PROVE  Spec => []MovedOut
<1>1. ClusterInv => MovedOut
  <2> SUFFICES ASSUME ClusterInv, Over, ~MoveFails, Joined
               PROVE  /\ slots[scale_port] = 0
                      /\ script # "scale-horizontal" => slots[7000] = 0
    BY DEF MovedOut
  <2>1. script \in Scripts
    BY DEF ClusterInv, ScriptTyped
  <2>2. Meeting(script) \in Nat
    BY <2>1, Positions
  <2>3. pc \in Nat /\ pc > Len(Commands[script])
        /\ Len(Commands[script]) \in {Meeting(script) + 5, Meeting(script) + 7}
    <3>1. /\ Len(Commands[script]) \in Nat
          /\ Len(Commands[script]) \in {Meeting(script) + 5, Meeting(script) + 7}
      BY <2>1, Timeline
    <3>2. pc \in 1..Len(Commands[script]) + 1 /\ pc > Len(Commands[script])
      BY DEF ClusterInv, ScriptTyped, Over
    <3> HIDE DEF Commands
    <3> QED BY <3>1, <3>2
  <2>4. pc > Meeting(script) + 4 /\ pc > Meeting(script) + 5
    BY <2>2, <2>3
  <2>5. /\ pc > Meeting(script) + 5 => slots[scale_port] = 0
        /\ pc > Meeting(script) + 4 /\ script # "scale-horizontal" => slots[7000] = 0
    <3>1. MastersInv
      BY DEF ClusterInv
    <3> QED BY <3>1 DEF MastersInv
  <2> QED BY <2>4, <2>5
<1> QED BY <1>1, ClusterAlways, PTL

------------------------------------------------------------------------------
(* ScaleScripts: the barriers.                                              *)

Settled == {"ready-1", "trans", "done"}
Stages == {"off", "started", "ready-0", "load"} \cup Settled

KeysTyped ==
  /\ ready \subseteq Clients \X {0, 1} /\ go \subseteq {0, 1}
  /\ client \in [Clients -> Stages]

\* The clients are started after this command.
Launch(s) == IF s = vertical THEN Creation(s) ELSE Meeting(s) - 1

\* Once memcached is flushed, the keys in it are those of this run: a client
\* that has published one is as far as that, and no further than the script has
\* let it come.
KeysOf(c) ==
  LET m == Meeting(script)
  IN  /\ pc > 1 /\ <<c, 0>> \in ready => client[c] \notin {"off", "started"}
      /\ pc > 1 /\ <<c, 1>> \in ready => client[c] \in Settled
      /\ client[c] # "off" => pc > Launch(script)
      /\ client[c] = "load" \/ client[c] \in Settled => pc > m + 1
      /\ pc > m => client[c] \notin {"off", "started"}
      /\ pc > m + 2 => client[c] \in Settled

Notified ==
  /\ pc > 1 /\ 0 \in go => pc > Meeting(script) + 1
  /\ pc > 1 /\ 1 \in go => pc > Meeting(script) + 3

KeysInv == KeysTyped /\ Notified /\ \A c \in Clients : KeysOf(c)

LEMMA Launched ==
  ASSUME NEW s \in Scripts
  PROVE  /\ Launch(s) \in Nat /\ Launch(s) > 2 /\ Launch(s) < Meeting(s)
         /\ Launch(s) >= Creation(s) /\ Meeting(s) \in Nat /\ Meeting(s) > 10
BY DEF Scripts, Launch, Creation, Meeting, vertical

LEMMA FlushKeys ==
  ASSUME ScriptTyped, KeysInv, Flush
  PROVE  KeysInv'
<1>1. /\ script \in Scripts /\ script' = script /\ pc \in Nat /\ pc' = pc + 1 /\ pc = 1
  BY Running DEF Flush, Placed
<1>2. ready' = {} /\ go' = {} /\ client' = client
  BY DEF Flush
<1>3. KeysTyped' /\ Notified'
  BY <1>2 DEF KeysInv, KeysTyped, Notified
<1>4. ASSUME NEW c \in Clients PROVE KeysOf(c)'
  <2>1. client[c] = "off"
    BY <1>1, Launched DEF KeysInv, KeysOf
  <2>2. client'[c] = "off" /\ ~(pc' > Meeting(script')) /\ ~(pc' > Meeting(script') + 2)
    BY <1>1, <1>2, <2>1, Launched
  <2> QED BY <1>2, <2>2 DEF KeysOf, Settled
<1> QED BY <1>3, <1>4 DEF KeysInv

\* The script goes on, and the clients and their keys stay as they are.
LEMMA GoOnKeeps ==
  ASSUME KeysInv, script \in Scripts, script' = script, pc \in Nat, pc' = pc + 1, pc > 1,
         ready' = ready, client' = client
  PROVE  /\ go' = go => Notified'
         /\ \A c \in Clients :
              /\ pc = Meeting(script) => client[c] \notin {"off", "started"}
              /\ pc = Meeting(script) + 2 => client[c] \in Settled
              => KeysOf(c)'
<1> DEFINE m == Meeting(script)
           l == Launch(script)
<1>1. l \in Nat /\ m \in Nat
  BY Launched
<1>2. m' = m /\ l' = l
  OBVIOUS
<1> HIDE DEF m, l
<1>3. ASSUME go' = go PROVE Notified'
  <2>1. (0 \in go => pc > m + 1) /\ (1 \in go => pc > m + 3)
    BY DEF KeysInv, Notified, m
  <2>2. (0 \in go' => pc' > m + 1) /\ (1 \in go' => pc' > m + 3)
    BY <1>1, <1>3, <2>1
  <2> QED BY <1>2, <2>2 DEF Notified, m
<1>4. ASSUME NEW c \in Clients,
             pc = Meeting(script) => client[c] \notin {"off", "started"},
             pc = Meeting(script) + 2 => client[c] \in Settled
      PROVE  KeysOf(c)'
  <2>1. /\ <<c, 0>> \in ready => client[c] \notin {"off", "started"}
        /\ <<c, 1>> \in ready => client[c] \in Settled
        /\ client[c] # "off" => pc > l
        /\ client[c] = "load" \/ client[c] \in Settled => pc > m + 1
        /\ pc > m => client[c] \notin {"off", "started"}
        /\ pc > m + 2 => client[c] \in Settled
    BY DEF KeysInv, KeysOf, m, l
  <2>2. (pc' > m => pc > m \/ pc = m) /\ (pc' > m + 2 => pc > m + 2 \/ pc = m + 2)
    BY <1>1
  <2>3. /\ pc' > m => client[c] \notin {"off", "started"}
        /\ pc' > m + 2 => client[c] \in Settled
    BY <1>4, <2>1, <2>2 DEF m
  <2>4. /\ client[c] # "off" => pc' > l
        /\ client[c] = "load" \/ client[c] \in Settled => pc' > m + 1
    BY <1>1, <2>1
  <2> QED BY <1>2, <2>1, <2>3, <2>4 DEF KeysOf, m, l
<1> QED BY <1>3, <1>4

LEMMA CollectKeys ==
  ASSUME ScriptTyped, KeysInv, Collect
  PROVE  KeysInv'
<1> DEFINE m == Meeting(script)
<1>1. /\ script \in Scripts /\ script' = script /\ pc \in Nat /\ pc' = pc + 1
      /\ \/ pc = m /\ Arg = 0
         \/ pc = m + 2 /\ Arg = 1
  BY Running DEF Collect, Placed, Arg
<1>2. m \in Nat /\ m > 10
  BY <1>1, Launched
<1>3. ready' = ready /\ go' = go /\ client' = client
      /\ \A c \in Clients : <<c, Arg>> \in ready
  BY DEF Collect, memcached
<1> HIDE DEF m
<1>4. pc > 1
  BY <1>1, <1>2
<1>5. ASSUME NEW c \in Clients
      PROVE  /\ pc = m => client[c] \notin {"off", "started"}
             /\ pc = m + 2 => client[c] \in Settled
  <2>1. (pc = m => Arg = 0) /\ (pc = m + 2 => Arg = 1)
    BY <1>1, <1>2
  <2>2. <<c, Arg>> \in ready
    BY <1>3
  <2> QED BY <1>4, <2>1, <2>2 DEF KeysInv, KeysOf
<1>6. Notified' /\ \A c \in Clients : KeysOf(c)'
  BY <1>1, <1>3, <1>4, <1>5, GoOnKeeps DEF m
<1> QED BY <1>3, <1>6 DEF KeysInv, KeysTyped

LEMMA NotifyKeys ==
  ASSUME ScriptTyped, KeysInv, Notify
  PROVE  KeysInv'
<1> DEFINE m == Meeting(script)
<1>1. /\ script \in Scripts /\ script' = script /\ pc \in Nat /\ pc' = pc + 1
      /\ \/ pc = m + 1 /\ Arg = 0
         \/ pc = m + 3 /\ Arg = 1
  BY Running DEF Notify, Placed, Arg
<1>2. m \in Nat /\ m > 10
  BY <1>1, Launched
<1>3. ready' = ready /\ go' = go \cup {Arg} /\ client' = client
  BY DEF Notify
<1> HIDE DEF m
<1>4. pc > 1 /\ pc # m /\ pc # m + 2
  BY <1>1, <1>2
<1>5. \A c \in Clients : KeysOf(c)'
  BY <1>1, <1>3, <1>4, GoOnKeeps DEF m
<1>6. Notified'
  <2>1. (0 \in go => pc > m + 1) /\ (1 \in go => pc > m + 3)
    BY <1>4 DEF KeysInv, Notified, m
  <2>2. (0 \in go' => pc' > m + 1) /\ (1 \in go' => pc' > m + 3)
    BY <1>1, <1>2, <1>3, <2>1
  <2>3. m' = m
    BY <1>1 DEF m
  <2> QED BY <2>2, <2>3 DEF Notified, m
<1>7. KeysTyped'
  BY <1>1, <1>3 DEF KeysInv, KeysTyped
<1> QED BY <1>5, <1>6, <1>7 DEF KeysInv

\* All clients are started, by the script or by hand, before any has a key.
LEMMA StartKeys ==
  ASSUME KeysInv, script \in Scripts, script' = script, pc \in Nat, pc' \in Nat, pc' >= pc,
         \A c \in Clients : client[c] = "off",
         client' = [c \in Clients |-> "started"],
         ready' = ready, go' = go, pc > 1, pc' > Launch(script), pc' <= Meeting(script)
  PROVE  KeysInv'
<1> DEFINE m == Meeting(script)
<1>1. m \in Nat
  BY Launched
<1>2. KeysTyped'
  BY DEF KeysInv, KeysTyped, Stages
<1>3. Notified'
  <2> HIDE DEF m
  <2>1. (0 \in go => pc > m + 1) /\ (1 \in go => pc > m + 3)
    BY DEF KeysInv, Notified, m
  <2>2. (0 \in go' => pc' > m + 1) /\ (1 \in go' => pc' > m + 3)
    BY <1>1, <2>1
  <2> QED BY <2>2 DEF Notified, m
<1>4. ASSUME NEW c \in Clients PROVE KeysOf(c)'
  <2>1. <<c, 0>> \notin ready /\ <<c, 1>> \notin ready
    BY DEF KeysInv, KeysOf, Settled
  <2>2. client'[c] = "started" /\ ~(pc' > m) /\ ~(pc' > m + 2)
    BY <1>1
  <2>3. client'[c] # "load" /\ client'[c] \notin Settled
    BY <2>2 DEF Settled
  <2> QED BY <2>1, <2>2, <2>3 DEF KeysOf
<1> QED BY <1>2, <1>3, <1>4 DEF KeysInv

LEMMA LaunchClientsKeys ==
  ASSUME ScriptTyped, KeysInv, LaunchClients
  PROVE  KeysInv'
<1> DEFINE m == Meeting(script)
           l == Launch(script)
<1>1. /\ script \in Scripts /\ script' = script /\ pc \in Nat /\ pc' = pc + 1
      /\ pc = m - 1 /\ script # vertical
  BY Running DEF LaunchClients, Placed
<1>2. m \in Nat /\ m > 10 /\ l = m - 1
  BY <1>1, Launched DEF Launch
<1>3. /\ ready' = ready /\ go' = go
      /\ client' = [c \in Clients |-> "started"] \/ client' = client
  BY DEF LaunchClients, memcached
<1> HIDE DEF m, l
<1>4. pc > 1 /\ ~(pc > l) /\ pc' > l /\ pc' <= m /\ pc' \in Nat /\ pc' >= pc
      /\ pc # m /\ pc # m + 2
  BY <1>1, <1>2
<1>5. \A c \in Clients : client[c] = "off"
  BY <1>4 DEF KeysInv, KeysOf, l
<1>6. CASE client' = client
  <2>1. Notified' /\ \A c \in Clients : KeysOf(c)'
    BY <1>1, <1>3, <1>4, <1>6, GoOnKeeps DEF m
  <2> QED BY <1>3, <1>6, <2>1 DEF KeysInv, KeysTyped
<1>7. CASE client' = [c \in Clients |-> "started"]
  BY <1>1, <1>3, <1>4, <1>5, <1>7, StartKeys DEF m, l
<1> QED BY <1>3, <1>6, <1>7

LEMMA ClientsThere ==
  ASSUME ScaleAssumption
  PROVE  \E c : c \in Clients
<1>1. 1 \in Clients
  BY DEF ScaleAssumption, Clients
<1> QED BY <1>1

LEMMA LaunchByHandKeys ==
  ASSUME ScaleAssumption, ClusterInv, KeysInv, LaunchByHand
  PROVE  KeysInv'
<1> DEFINE m == Meeting(script)
           n == Creation(script)
<1>1. script \in Scripts /\ pc \in Nat /\ script = vertical /\ pc' = pc /\ script' = script
  <2>1. script \in Scripts /\ script = vertical /\ pc' = pc /\ script' = script
    BY DEF ClusterInv, ScriptTyped, LaunchByHand, scriptVars, Legacy, vertical
  <2>2. pc \in Nat
    BY <2>1, Timeline DEF ClusterInv, ScriptTyped
  <2> QED BY <2>1, <2>2
<1>2. m \in Nat /\ n \in Nat /\ n > 2 /\ n + 7 < m /\ m > 10 /\ Launch(script) = n
  BY <1>1, Positions, Launched DEF Launch
<1>3. /\ ready' = ready /\ go' = go /\ client' = [c \in Clients |-> "started"]
      /\ members # {} /\ \A c \in Clients : client[c] = "off"
  BY DEF LaunchByHand, memcached
<1>4. pc > n
  BY <1>1, <1>2, <1>3 DEF ClusterInv, MastersInv
<1>5. pc <= m
  <2>1. PICK c : c \in Clients
    BY ClientsThere
  <2>2. KeysOf(c) /\ client[c] = "off"
    BY <1>3, <2>1 DEF KeysInv
  <2>3. pc > m => client[c] \notin {"off", "started"}
    BY <2>2 DEF KeysOf
  <2>4. ~(pc > m)
    BY <2>2, <2>3
  <2> QED BY <1>1, <1>2, <2>4
<1> HIDE DEF m, n
<1>6. pc > 1
  BY <1>1, <1>2, <1>4
<1> QED BY <1>1, <1>2, <1>3, <1>4, <1>5, <1>6, StartKeys DEF m, n

\* The commands that neither touch the keys nor wait for a client's.
Unkeyed ==
  \/ StartServers \/ LaunchStarter \/ AwaitServers \/ Create \/ Measure
  \/ Gather \/ Remove \/ Add \/ MoveSlots \/ Join \/ Finish

LEMMA UnkeyedSame ==
  ASSUME Unkeyed
  PROVE  /\ \E what \in {"startServers", "launchStarter", "awaitServers", "create", "measure",
                        "gather", "remove", "add", "move", "join", "finish"} : Run(what)
         /\ UNCHANGED <<ready, go, client>>
<1>1. CASE StartServers \/ LaunchStarter \/ AwaitServers
  BY <1>1 DEF StartServers, LaunchStarter, AwaitServers, memcached
<1>2. CASE Create \/ Measure
  BY <1>2 DEF Create, Measure, memcached
<1>3. CASE Gather
  BY <1>3 DEF Gather, memcached
<1>4. CASE Remove
  BY <1>4 DEF Remove, memcached
<1>5. CASE Add
  BY <1>5 DEF Add, memcached
<1>6. CASE MoveSlots \/ Join \/ Finish
  BY <1>6 DEF MoveSlots, Join, Finish, memcached
<1> QED BY <1>1, <1>2, <1>3, <1>4, <1>5, <1>6 DEF Unkeyed

LEMMA UnkeyedKeys ==
  ASSUME ScriptTyped, KeysInv, Unkeyed
  PROVE  KeysInv'
<1> DEFINE n == Creation(script)
           m == Meeting(script)
           Kinds == {"startServers", "launchStarter", "awaitServers", "create", "measure",
                     "gather", "remove", "add", "move", "join", "finish"}
<1> HIDE DEF n, m
<1>1. (\E what \in Kinds : Run(what)) /\ UNCHANGED <<ready, go, client>>
  BY UnkeyedSame
<1>2. PICK what \in Kinds : Run(what)
  BY <1>1
<1>3. /\ script \in Scripts /\ script' = script /\ pc \in Nat /\ pc' = pc + 1
      /\ Commands[script][pc].do = what /\ Placed(script, pc, Commands[script][pc])
  BY <1>2, Running
<1>4. n \in Nat /\ m \in Nat /\ n > 2 /\ n + 7 < m
  BY <1>3, Positions DEF n, m
<1>5. \/ pc \in {2, 3, n, n + 1, n + 6, n + 7, m + 4, m + 5, m + 6, m + 7}
      \/ pc \in n + 2..n + 3 \/ pc \in n + 4..n + 5
  BY <1>2, <1>3 DEF Placed, n, m
<1>6. pc > 1 /\ pc # m /\ pc # m + 2
  BY <1>4, <1>5
<1>7. Notified' /\ \A c \in Clients : KeysOf(c)'
  BY <1>1, <1>3, <1>6, GoOnKeeps DEF m
<1> QED BY <1>1, <1>7 DEF KeysInv, KeysTyped

\* A client thread: the others' keys and stages stay, and its own stage is the
\* one that its keys and those of the script allow.
LEMMA ClientKeys ==
  ASSUME ScriptTyped, KeysInv, NEW c \in Clients, Client(c)
  PROVE  KeysInv'
<1> DEFINE m == Meeting(script)
           l == Launch(script)
<1>1. script \in Scripts /\ script' = script /\ pc' = pc /\ pc \in Nat
  <2>1. script \in Scripts /\ script' = script /\ pc' = pc
    BY DEF ScriptTyped, Client, Publish, Pass, Return, scriptVars
  <2> QED BY <2>1, Timeline DEF ScriptTyped
<1>2. m \in Nat /\ l \in Nat /\ l > 2 /\ l < m
  BY <1>1, Launched
<1>3. m' = m /\ l' = l
  BY <1>1
<1>4. go' = go
  BY DEF Client, Publish, Pass, Return, memcached
<1>5. Notified'
  BY <1>1, <1>3, <1>4 DEF KeysInv, Notified
<1>6. /\ client[c] # "off" => pc > l
      /\ client[c] = "load" \/ client[c] \in Settled => pc > m + 1
      /\ pc > m + 2 => client[c] \in Settled
      /\ pc > 1 /\ <<c, 0>> \in ready => client[c] \notin {"off", "started"}
      /\ pc > 1 /\ <<c, 1>> \in ready => client[c] \in Settled
  BY DEF KeysInv, KeysOf
<1>7. PICK to \in Stages :
        /\ client' = [client EXCEPT ![c] = to]
        /\ \/ client[c] = "started" /\ to = "ready-0" /\ ready' = ready \cup {<<c, 0>>}
           \/ client[c] = "load" /\ to = "ready-1" /\ ready' = ready \cup {<<c, 1>>}
           \/ 0 \in go /\ client[c] = "ready-0" /\ to = "load" /\ ready' = ready
           \/ 1 \in go /\ client[c] = "ready-1" /\ to = "trans" /\ ready' = ready
           \/ client[c] = "trans" /\ to = "done" /\ ready' = ready
  BY DEF Client, Publish, Pass, Return, GoClient, Stages, Settled, memcached
<1>8. client \in [Clients -> Stages]
  BY DEF KeysInv, KeysTyped
<1>9. client'[c] = to /\ \A d \in Clients \ {c} : client'[d] = client[d]
  BY <1>7, <1>8
<1>10. /\ ready' \subseteq ready \cup {<<c, 0>>, <<c, 1>>}
       /\ ready' \subseteq Clients \X {0, 1}
  BY <1>7 DEF KeysInv, KeysTyped
<1>11. KeysTyped'
  BY <1>4, <1>7, <1>8, <1>10 DEF KeysInv, KeysTyped
<1> HIDE DEF m, l
<1>12. ASSUME NEW d \in Clients PROVE KeysOf(d)'
  <2>1. CASE d # c
    <3>1. /\ client'[d] = client[d]
          /\ <<d, 0>> \in ready' => <<d, 0>> \in ready
          /\ <<d, 1>> \in ready' => <<d, 1>> \in ready
      BY <1>9, <1>10, <2>1
    <3> QED BY <1>1, <3>1 DEF KeysInv, KeysOf
  <2>2. CASE d = c
    <3>1. client[c] # "off"
      BY <1>7 DEF Settled
    <3>2. pc > l /\ pc > 1
      BY <1>1, <1>2, <1>6, <3>1
    <3>3. to = "load" \/ to \in Settled => pc > m + 1
      <4>1. 0 \in go => pc > m + 1
        BY <3>2 DEF KeysInv, Notified, m
      <4> QED BY <1>6, <1>7, <4>1 DEF Settled
    <3>4. pc > m + 2 => to \in Settled
      BY <1>6, <1>7 DEF Settled
    <3>5. to \notin {"off", "started"}
      BY <1>7
    <3>6. <<c, 1>> \in ready' => to \in Settled
      BY <1>6, <1>7, <3>2 DEF Settled
    <3> QED BY <1>1, <1>3, <1>9, <2>2, <3>2, <3>3, <3>4, <3>5, <3>6 DEF KeysOf, m, l
  <2> QED BY <2>1, <2>2
<1> QED BY <1>5, <1>11, <1>12 DEF KeysInv

LEMMA KeysAlways ==
  ASSUME RedisAssumption, ScaleAssumption
  PROVE  Spec => []KeysInv
<1>1. Init => KeysInv
  <2> SUFFICES ASSUME Init PROVE KeysInv
    OBVIOUS
  <2>1. script \in Scripts /\ pc = 1 /\ client = [c \in Clients |-> "off"]
        /\ ready \in {{}, Clients \X {0}, Clients \X {0, 1}} /\ go \in SUBSET {0, 1}
    BY DEF Init
  <2>2. KeysTyped
    BY <2>1 DEF KeysTyped, Stages
  <2>3. Notified
    BY <2>1 DEF Notified
  <2>4. ASSUME NEW c \in Clients PROVE KeysOf(c)
    <3>1. /\ client[c] = "off" /\ ~(pc > 1)
          /\ ~(pc > Meeting(script)) /\ ~(pc > Meeting(script) + 2)
      BY <2>1, Launched
    <3> QED BY <3>1 DEF KeysOf, Settled
  <2> QED BY <2>2, <2>3, <2>4 DEF KeysInv
<1>2. ClusterInv /\ KeysInv /\ [Next]_vars => KeysInv'
  <2> SUFFICES ASSUME ClusterInv, KeysInv, [Next]_vars PROVE KeysInv'
    OBVIOUS
  <2>1. ScriptTyped
    BY DEF ClusterInv
  <2>2. CASE Script
    BY <2>1, <2>2, FlushKeys, LaunchClientsKeys, CollectKeys, NotifyKeys, UnkeyedKeys
       DEF Script, Unkeyed
  <2>3. CASE LaunchByHand
    BY <2>3, LaunchByHandKeys
  <2>4. CASE Starter \/ UNCHANGED vars
    <3>1. UNCHANGED <<script, pc, ready, go, client>>
      BY <2>4 DEF Starter, ClearOld, StartNodes, ReportReady, SeeFinish, CleanUp,
         vars, scriptVars, memcached
    <3> QED BY <3>1 DEF KeysInv, KeysTyped, Notified, KeysOf
  <2>5. ASSUME NEW c \in Clients, Client(c) PROVE KeysInv'
    BY <2>1, <2>5, ClientKeys
  <2> QED BY <2>2, <2>3, <2>4, <2>5 DEF Next
<1> QED BY <1>1, <1>2, ClusterAlways, PTL DEF Spec

\* What is past and what is ahead of a script, by its position.
LEMMA PastAndAhead ==
  ASSUME ScriptTyped
  PROVE  /\ Past("create") => pc > Creation(script)
         /\ Past("move") => pc > Meeting(script) + 4
         /\ Ahead("gather") \/ Ahead("remove") \/ Ahead("add") => pc < Meeting(script)
<1> DEFINE n == Creation(script)
           m == Meeting(script)
           L == Len(Commands[script])
<1>1. script \in Scripts /\ L \in Nat /\ pc \in 1..L + 1
  BY Timeline DEF ScriptTyped
<1>2. n \in Nat /\ m \in Nat /\ n + 7 < m
  BY <1>1, Positions
<1>3. \A k \in 1..L : Placed(script, k, Commands[script][k])
  BY <1>1, Timeline
<1>4. \A k \in 1..pc - 1 : k \in 1..L /\ k < pc
  BY <1>1
<1>5. \A k \in pc..L : k \in 1..L /\ k >= pc
  BY <1>1
<1>6. Past("create") => pc > n
  <2> SUFFICES ASSUME NEW k \in 1..pc - 1, Commands[script][k].do = "create"
               PROVE  pc > n
    BY DEF Past
  <2>1. k = n
    BY <1>3, <1>4 DEF Placed
  <2> QED BY <1>4, <2>1
<1>7. Past("move") => pc > m + 4
  <2> SUFFICES ASSUME NEW k \in 1..pc - 1, Commands[script][k].do = "move"
               PROVE  pc > m + 4
    BY DEF Past
  <2>1. k = m + 4 \/ k = m + 5
    BY <1>3, <1>4 DEF Placed
  <2> HIDE DEF m
  <2> QED BY <1>1, <1>2, <1>4, <2>1
<1>8. Ahead("gather") \/ Ahead("remove") \/ Ahead("add") => pc < m
  <2> SUFFICES ASSUME NEW k \in pc..L,
                      Commands[script][k].do \in {"gather", "remove", "add"}
               PROVE  pc < m
    BY DEF Ahead
  <2>1. k \in n + 2..n + 3 \/ k \in n + 4..n + 5 \/ k = n + 6 \/ k = n + 7
    BY <1>3, <1>5 DEF Placed
  <2> HIDE DEF n, m
  <2> QED BY <1>1, <1>2, <1>5, <2>1
<1> QED BY <1>6, <1>7, <1>8

\* A step of the scripts or clients is an Enter, a Leave or invisible to the
\* barriers: a client passes only when the keys of all have been collected.
LEMMA BarriersStep ==
  ASSUME ScriptTyped, KeysInv, [Next]_vars
  PROVE  [Abstract!Next]_(Abstract!vars)
<1> DEFINE m == Meeting(script)
<1>1. script \in Scripts /\ pc \in Nat /\ m \in Nat /\ m > 10
  BY Launched, Timeline DEF ScriptTyped
<1> HIDE DEF m
<1>2. client \in [Clients -> Stages]
  BY DEF KeysInv, KeysTyped
<1>3. ASSUME client' = client PROVE UNCHANGED Abstract!vars
  BY <1>3 DEF Abstract!vars, Entered, HasLeft
<1>4. ASSUME NEW c \in Clients, NEW to,
             \/ client[c] = "started" /\ to = "ready-0"
             \/ client[c] = "load" /\ to = "ready-1",
             client' = [client EXCEPT ![c] = to]
      PROVE  Abstract!Enter(c)
  <2>1. Entered(c) = HasLeft(c) /\ Entered(c) < 2 /\ Entered(c)' = Entered(c) + 1
        /\ HasLeft(c)' = HasLeft(c)
    BY <1>2, <1>4 DEF Entered, HasLeft
  <2>2. \A d \in Clients \ {c} : Entered(d)' = Entered(d) /\ HasLeft(d)' = HasLeft(d)
    BY <1>2, <1>4 DEF Entered, HasLeft
  <2>3. [d \in Clients |-> Entered(d)]' = [[d \in Clients |-> Entered(d)] EXCEPT ![c] = @ + 1]
    BY <2>1, <2>2
  <2>4. [d \in Clients |-> HasLeft(d)]' = [d \in Clients |-> HasLeft(d)]
    BY <2>1, <2>2
  <2> QED BY <2>1, <2>3, <2>4 DEF Abstract!Enter
<1>5. ASSUME NEW c \in Clients, NEW to,
             \/ client[c] = "ready-0" /\ to = "load" /\ pc > m
             \/ client[c] = "ready-1" /\ to = "trans" /\ pc > m + 2,
             client' = [client EXCEPT ![c] = to]
      PROVE  Abstract!Leave(c)
  <2>1. HasLeft(c) < Entered(c) /\ HasLeft(c)' = HasLeft(c) + 1 /\ Entered(c)' = Entered(c)
    BY <1>2, <1>5 DEF Entered, HasLeft
  <2>2. \A d \in Clients \ {c} : Entered(d)' = Entered(d) /\ HasLeft(d)' = HasLeft(d)
    BY <1>2, <1>5 DEF Entered, HasLeft
  <2>3. ASSUME NEW d \in Clients PROVE Entered(d) >= Entered(c)
    <3>1. /\ pc > m => client[d] \notin {"off", "started"}
          /\ pc > m + 2 => client[d] \in Settled
      BY DEF KeysInv, KeysOf, m
    <3> QED BY <1>5, <3>1 DEF Entered, Settled
  <2>4. [d \in Clients |-> HasLeft(d)]' = [[d \in Clients |-> HasLeft(d)] EXCEPT ![c] = @ + 1]
    BY <2>1, <2>2
  <2>5. [d \in Clients |-> Entered(d)]' = [d \in Clients |-> Entered(d)]
    BY <2>1, <2>2
  <2> QED BY <2>1, <2>3, <2>4, <2>5 DEF Abstract!Leave
<1>6. ASSUME NEW c \in Clients, Client(c) PROVE [Abstract!Next]_(Abstract!vars)
  <2>1. client[c] # "off" => pc > 1
    <3>1. Launch(script) \in Nat /\ Launch(script) > 2
      BY <1>1, Launched
    <3>2. client[c] # "off" => pc > Launch(script)
      BY DEF KeysInv, KeysOf
    <3> QED BY <1>1, <3>1, <3>2
  <2>2. pc > 1 => (0 \in go => pc > m + 1) /\ (1 \in go => pc > m + 3)
    BY DEF KeysInv, Notified, m
  <2>3. (pc > m + 1 => pc > m) /\ (pc > m + 3 => pc > m + 2)
    BY <1>1
  <2>4. CASE Publish(c)
    BY <1>4, <2>4 DEF Publish, GoClient, Abstract!Next
  <2>5. CASE Pass(c)
    BY <1>5, <2>1, <2>2, <2>3, <2>5 DEF Pass, GoClient, Abstract!Next
  <2>6. CASE Return(c)
    <3>1. client[c] = "trans" /\ client' = [client EXCEPT ![c] = "done"]
      BY <2>6 DEF Return, GoClient
    <3>2. \A d \in Clients : Entered(d)' = Entered(d) /\ HasLeft(d)' = HasLeft(d)
      BY <1>2, <3>1 DEF Entered, HasLeft
    <3> QED BY <3>2 DEF Abstract!vars
  <2> QED BY <1>6, <2>4, <2>5, <2>6 DEF Client
<1>7. ASSUME \A c \in Clients : client[c] = "off",
             client' = [c \in Clients |-> "started"]
      PROVE  UNCHANGED Abstract!vars
  BY <1>7 DEF Abstract!vars, Entered, HasLeft
<1>8. CASE LaunchClients
  <2>1. /\ Run("launchClients")
        /\ client' = [c \in Clients |-> "started"] \/ client' = client
    BY <1>8 DEF LaunchClients
  <2>2. pc = m - 1 /\ script # vertical
    BY <2>1, Running DEF Placed, m
  <2>3. ~(pc > Launch(script))
    BY <1>1, <2>2 DEF Launch, m
  <2>4. \A c \in Clients : client[c] = "off"
    BY <2>3 DEF KeysInv, KeysOf
  <2> QED BY <1>3, <1>7, <2>1, <2>4
<1>9. CASE LaunchByHand
  BY <1>7, <1>9 DEF LaunchByHand
<1>10. CASE (Script /\ ~LaunchClients) \/ Starter \/ UNCHANGED vars
  <2>1. CASE Script /\ ~LaunchClients
    <3>1. Flush \/ Collect \/ Notify \/ Unkeyed
      BY <2>1 DEF Script, Unkeyed
    <3>2. client' = client
      BY <3>1, UnkeyedSame DEF Flush, Collect, Notify
    <3> QED BY <1>3, <3>2
  <2>2. CASE Starter \/ UNCHANGED vars
    <3>1. client' = client
      BY <2>2 DEF Starter, ClearOld, StartNodes, ReportReady, SeeFinish, CleanUp, vars
    <3> QED BY <1>3, <3>1
  <2> QED BY <1>10, <2>1, <2>2
<1> QED BY <1>6, <1>8, <1>9, <1>10 DEF Next

\* Each script, with its clients, implements the two barriers of module Barrier
\* by the same keys as the controllers of MemcachedSync, whatever an earlier run
\* has left in memcached.
THEOREM BarriersImplemented ==
  ASSUME RedisAssumption, ScaleAssumption
  PROVE  Spec => ImplementsBarrier
<1>1. Init => Abstract!Init
  BY DEF Init, Entered, HasLeft, Abstract!Init
<1>2. ClusterInv /\ KeysInv /\ [Next]_vars => [Abstract!Next]_(Abstract!vars)
  BY BarriersStep DEF ClusterInv
<1> QED BY <1>1, <1>2, ClusterAlways, KeysAlways, PTL
        DEF Spec, ImplementsBarrier, Abstract!Spec

\* Whatever an earlier run has left in memcached, clients meet a cluster whose
\* masters are settled, and slots move when all of them have loaded.
THEOREM BarriersHold ==
  ASSUME RedisAssumption, ScaleAssumption
  PROVE  Spec => []ClientsInPhase
<1>1. ClusterInv /\ KeysInv => ClientsInPhase
  <2> SUFFICES ASSUME ClusterInv, KeysInv, NEW c \in Clients
               PROVE  /\ client[c] \in {"load", "ready-1", "trans", "done"} =>
                           ~(Ahead("gather") \/ Ahead("remove") \/ Ahead("add"))
                      /\ Past("move") => client[c] \in {"ready-1", "trans", "done"}
    BY DEF ClientsInPhase
  <2> DEFINE m == Meeting(script)
  <2>1. ScriptTyped /\ script \in Scripts
    BY DEF ClusterInv, ScriptTyped
  <2>2. m \in Nat /\ pc \in Nat
    BY <2>1, Launched, Timeline DEF ScriptTyped
  <2>3. /\ client[c] = "load" \/ client[c] \in Settled => pc > m + 1
        /\ pc > m + 2 => client[c] \in Settled
    <3>1. KeysOf(c)
      BY DEF KeysInv
    <3> QED BY <3>1 DEF KeysOf
  <2>4. /\ Past("move") => pc > m + 4
        /\ Ahead("gather") \/ Ahead("remove") \/ Ahead("add") => pc < m
    BY <2>1, PastAndAhead
  <2> HIDE DEF m
  <2>5. (pc > m + 4 => pc > m + 2) /\ (pc > m + 1 => ~(pc < m))
    BY <2>2
  <2> QED BY <2>3, <2>4, <2>5 DEF Settled
<1> QED BY <1>1, ClusterAlways, KeysAlways, PTL

------------------------------------------------------------------------------
(* ScaleScripts: the node starter of the legacy scripts.                    *)

Served == {"serving", "stop", "done"}

StarterTyped ==
  /\ flags \subseteq Flags
  /\ starter \in {"off", "clear", "start", "report"} \cup Served
  /\ up \in BOOLEAN

\* Since the flush the two keys in memcached are of this run: the ready key is
\* there after the starter has set it, and test-finish when all clients are done.
StarterInv ==
  LET m == Meeting(script)
  IN  /\ StarterTyped
      /\ script = vertical => starter = "off" /\ (pc > 2 => up)
      /\ script # vertical =>
           /\ pc <= 2 => starter = "off"
           /\ pc > 3 => starter \in Served
           /\ pc > 1 /\ "redis-0-ready" \in flags => starter \in Served
           /\ pc > 1 /\ "test-finish" \in flags => pc > m + 7
           /\ starter \in {"report", "serving", "stop"} => up
           /\ starter \in {"stop", "done"} => pc > m + 7
           /\ pc > m + 6 => \A c \in Clients : client[c] = "done"

LEMMA FlushStarter ==
  ASSUME ScriptTyped, StarterInv, Flush
  PROVE  StarterInv'
<1>1. /\ script \in Scripts /\ script' = script /\ pc \in Nat /\ pc' = pc + 1 /\ pc = 1
  BY Running DEF Flush, Placed
<1>2. flags' = {} /\ starter' = starter /\ up' = up
  BY DEF Flush
<1>3. StarterTyped' /\ starter' = "off" /\ ~(pc' > 2) /\ ~(pc' > 3)
      /\ ~(pc' > Meeting(script') + 6)
  BY <1>1, <1>2, Launched DEF StarterInv, StarterTyped
<1> QED BY <1>2, <1>3 DEF StarterInv, Served

LEMMA StartServersStarter ==
  ASSUME ScriptTyped, StarterInv, StartServers
  PROVE  StarterInv'
<1>1. /\ script \in Scripts /\ script' = script /\ script = vertical
  BY Running DEF StartServers, Placed
<1>2. flags' = flags /\ starter' = starter /\ up' = TRUE
  BY DEF StartServers, memcached
<1> QED BY <1>1, <1>2 DEF StarterInv, StarterTyped

LEMMA LaunchStarterStarter ==
  ASSUME ScriptTyped, StarterInv, LaunchStarter
  PROVE  StarterInv'
<1> DEFINE m == Meeting(script)
<1>1. /\ script \in Scripts /\ script' = script /\ pc \in Nat /\ pc' = pc + 1
      /\ pc = 2 /\ script # vertical
  BY Running DEF LaunchStarter, Placed
<1>2. flags' = flags /\ starter' = "clear" /\ up' = up
  BY DEF LaunchStarter, memcached
<1>3. m \in Nat /\ m > 10 /\ m' = m
  BY <1>1, Launched
<1> HIDE DEF m
<1>4. starter = "off" /\ "redis-0-ready" \notin flags /\ "test-finish" \notin flags
  BY <1>1, <1>3 DEF StarterInv, Served, m
<1>5. ~(pc' <= 2) /\ ~(pc' > 3) /\ ~(pc' > m + 6)
  BY <1>1, <1>3
<1>6. StarterTyped'
  BY <1>2 DEF StarterInv, StarterTyped
<1> QED BY <1>1, <1>2, <1>3, <1>4, <1>5, <1>6 DEF StarterInv, m

\* The script goes on, and the starter, its keys and the instances stay.
LEMMA GoOnStarter ==
  ASSUME StarterInv, script \in Scripts, script' = script, pc \in Nat, pc' = pc + 1, pc > 2,
         flags' = flags, starter' = starter, up' = up,
         script # vertical /\ pc = 3 => starter \in Served,
         script # vertical /\ pc' > Meeting(script) + 6 =>
           \A c \in Clients : client'[c] = "done"
  PROVE  StarterInv'
<1> DEFINE m == Meeting(script)
<1>1. m \in Nat /\ m' = m
  BY Launched
<1> HIDE DEF m
<1>2. StarterTyped'
  BY DEF StarterInv, StarterTyped
<1>3. CASE script = vertical
  BY <1>2, <1>3 DEF StarterInv
<1>4. CASE script # vertical
  <2>1. /\ pc > 3 => starter \in Served
        /\ pc > 1 /\ "redis-0-ready" \in flags => starter \in Served
        /\ pc > 1 /\ "test-finish" \in flags => pc > m + 7
        /\ starter \in {"report", "serving", "stop"} => up
        /\ starter \in {"stop", "done"} => pc > m + 7
    BY <1>4 DEF StarterInv, m
  <2>2. pc > 1 /\ ~(pc' <= 2) /\ (pc' > 3 => pc > 3 \/ pc = 3)
        /\ (pc > m + 7 => pc' > m + 7)
    BY <1>1
  <2>3. pc' > m + 6 => \A c \in Clients : client'[c] = "done"
    BY <1>4 DEF m
  <2>4. /\ pc' > 3 => starter' \in Served
        /\ pc' > 1 /\ "redis-0-ready" \in flags' => starter' \in Served
        /\ pc' > 1 /\ "test-finish" \in flags' => pc' > m + 7
        /\ starter' \in {"report", "serving", "stop"} => up'
        /\ starter' \in {"stop", "done"} => pc' > m + 7
    BY <1>4, <2>1, <2>2
  <2> QED BY <1>1, <1>2, <1>4, <2>2, <2>3, <2>4 DEF StarterInv, m
<1> QED BY <1>3, <1>4

LEMMA AwaitServersStarter ==
  ASSUME ScriptTyped, StarterInv, AwaitServers
  PROVE  StarterInv'
<1>1. /\ script \in Scripts /\ script' = script /\ pc \in Nat /\ pc' = pc + 1
      /\ pc = 3 /\ script # vertical
  BY Running DEF AwaitServers, Placed
<1>2. flags' = flags /\ starter' = starter /\ up' = up /\ "redis-0-ready" \in flags
  BY DEF AwaitServers, memcached
<1>3. starter \in Served /\ pc > 2 /\ ~(pc' > Meeting(script) + 6)
  BY <1>1, <1>2, Launched DEF StarterInv
<1> QED BY <1>1, <1>2, <1>3, GoOnStarter

LEMMA FinishStarter ==
  ASSUME ScriptTyped, StarterInv, Finish
  PROVE  StarterInv'
<1> DEFINE m == Meeting(script)
<1>1. /\ script \in Scripts /\ script' = script /\ pc \in Nat /\ pc' = pc + 1
      /\ pc = m + 7 /\ script # vertical
  BY Running DEF Finish, Placed
<1>2. flags' = flags \cup {"test-finish"} /\ starter' = starter /\ up' = up
      /\ client' = client
  BY DEF Finish
<1>3. m \in Nat /\ m > 10 /\ m' = m
  BY <1>1, Launched
<1> HIDE DEF m
<1>4. pc > 3 /\ pc > m + 6 /\ pc' > m + 7 /\ ~(pc' <= 2)
  BY <1>1, <1>3
<1>5. starter \in Served /\ (starter \in {"report", "serving", "stop"} => up)
      /\ \A c \in Clients : client[c] = "done"
  BY <1>1, <1>4 DEF StarterInv, m
<1>6. StarterTyped'
  BY <1>2 DEF StarterInv, StarterTyped, Flags
<1> QED BY <1>1, <1>2, <1>3, <1>4, <1>5, <1>6 DEF StarterInv, m

\* The commands that neither touch nor await the starter.
Unserved ==
  \/ Create \/ Measure \/ Gather \/ Remove \/ Add
  \/ LaunchClients \/ Collect \/ Notify \/ MoveSlots \/ Join

LEMMA UnservedStarter ==
  ASSUME ScriptTyped, StarterInv, Unserved
  PROVE  StarterInv'
<1> DEFINE n == Creation(script)
           m == Meeting(script)
           Kinds == {"create", "measure", "gather", "remove", "add",
                     "launchClients", "collect", "notify", "move"}
           Alike == UNCHANGED <<flags, starter, up>> /\ (LaunchClients \/ client' = client)
<1> HIDE DEF n, m
<1>1. (Join \/ \E what \in Kinds : Run(what)) /\ Alike
  <2>1. CASE Create \/ Measure
    BY <2>1 DEF Create, Measure, memcached
  <2>2. CASE Gather
    BY <2>2 DEF Gather, memcached
  <2>3. CASE Remove
    BY <2>3 DEF Remove, memcached
  <2>4. CASE Add
    BY <2>4 DEF Add, memcached
  <2>5. CASE LaunchClients
    BY <2>5 DEF LaunchClients, memcached
  <2>6. CASE Collect \/ Notify
    BY <2>6 DEF Collect, Notify, memcached
  <2>7. CASE MoveSlots \/ Join
    BY <2>7 DEF MoveSlots, Join, memcached
  <2> QED BY <2>1, <2>2, <2>3, <2>4, <2>5, <2>6, <2>7 DEF Unserved
<1>2. PICK what \in Kinds \cup {"join"} : Run(what) /\ (what \in Kinds \/ Join)
  BY <1>1 DEF Join
<1>3. /\ script \in Scripts /\ script' = script /\ pc \in Nat /\ pc' = pc + 1
      /\ Commands[script][pc].do = what /\ Placed(script, pc, Commands[script][pc])
  BY <1>2, Running
<1>4. /\ n \in Nat /\ m \in Nat /\ n > 2 /\ n + 7 < m
      /\ (script # vertical => n = 4)
  BY <1>3, Positions DEF n, m
<1>5. \/ pc \in {n, n + 1, n + 6, n + 7, m, m + 1, m + 2, m + 3, m + 4, m + 5, m + 6}
      \/ pc = m - 1
      \/ pc \in n + 2..n + 3 \/ pc \in n + 4..n + 5
  BY <1>2, <1>3 DEF Placed, n, m
<1>6. pc > 2 /\ pc <= m + 6 /\ (script # vertical => pc # 3)
  BY <1>4, <1>5
<1>7. ASSUME pc' > m + 6 PROVE \A c \in Clients : client'[c] = "done"
  <2>1. pc = m + 6
    BY <1>3, <1>4, <1>6, <1>7
  <2>2. Commands[script][pc].do = "join"
    BY <1>2, <1>3, <1>4, <2>1 DEF Placed, n, m
  <2>3. Join
    BY <1>2, <1>3, <2>2
  <2> QED BY <2>3 DEF Join
<1> QED BY <1>1, <1>3, <1>6, <1>7, GoOnStarter DEF m

\* A step of the starter itself, which only legacy scripts have.
LEMMA StarterStep ==
  ASSUME ScriptTyped, StarterInv, Starter
  PROVE  StarterInv'
<1> DEFINE m == Meeting(script)
<1>1. script' = script /\ pc' = pc /\ client' = client /\ m' = m
  BY DEF Starter, ClearOld, StartNodes, ReportReady, SeeFinish, CleanUp, scriptVars
<1>2. /\ starter # "off"
      /\ \/ starter = "clear" /\ starter' = "start" /\ flags' = flags /\ up' = FALSE
         \/ starter = "start" /\ starter' = "report" /\ flags' = flags /\ up' = TRUE
         \/ /\ starter = "report" /\ starter' = "serving" /\ up' = up
            /\ flags' = flags \cup {"redis-0-ready"}
         \/ /\ starter = "serving" /\ starter' = "stop" /\ flags' = flags /\ up' = up
            /\ "test-finish" \in flags
         \/ starter = "stop" /\ starter' = "done" /\ flags' = flags /\ up' = FALSE
  <2>1. CASE ClearOld \/ StartNodes
    BY <2>1 DEF ClearOld, StartNodes, GoStarter, memcached
  <2>2. CASE ReportReady \/ SeeFinish \/ CleanUp
    BY <2>2 DEF ReportReady, SeeFinish, CleanUp, GoStarter, memcached
  <2> QED BY <2>1, <2>2 DEF Starter
<1> HIDE DEF m
<1>3. StarterTyped'
  <2>1. flags' \subseteq Flags /\ up' \in BOOLEAN
    BY <1>2 DEF StarterInv, StarterTyped, Flags
  <2> QED BY <1>2, <2>1 DEF StarterTyped, Served
<1>4. /\ script # vertical /\ ~(pc <= 2)
      /\ pc > 3 => starter \in Served
      /\ pc > 1 /\ "redis-0-ready" \in flags => starter \in Served
      /\ pc > 1 /\ "test-finish" \in flags => pc > m + 7
      /\ starter \in {"report", "serving", "stop"} => up
      /\ starter \in {"stop", "done"} => pc > m + 7
      /\ pc > m + 6 => \A c \in Clients : client[c] = "done"
  BY <1>2 DEF StarterInv, m
<1>5. pc > 1
  <2>1. pc \in Nat
    BY Timeline DEF ScriptTyped
  <2> QED BY <1>4, <2>1
<1>6. /\ pc > 3 => starter' \in Served
      /\ "redis-0-ready" \in flags' => starter' \in Served
      /\ "test-finish" \in flags' => pc > m + 7
      /\ starter' \in {"report", "serving", "stop"} => up'
      /\ starter' \in {"stop", "done"} => pc > m + 7
  BY <1>2, <1>4, <1>5 DEF Served
<1> QED BY <1>1, <1>3, <1>4, <1>6 DEF StarterInv, m

\* Clients that are done stay so.
LEMMA ClientsStarter ==
  ASSUME ScriptTyped, StarterInv, LaunchByHand \/ \E c \in Clients : Client(c)
  PROVE  StarterInv'
<1> DEFINE m == Meeting(script)
<1>1. script' = script /\ pc' = pc /\ m' = m /\ UNCHANGED <<flags, starter, up>>
  BY DEF LaunchByHand, Client, Publish, Pass, Return, scriptVars, memcached
<1>2. StarterTyped'
  BY <1>1 DEF StarterInv, StarterTyped
<1> HIDE DEF m
<1>3. ASSUME script # vertical, pc > m + 6 PROVE \A c \in Clients : client'[c] = "done"
  <2>1. \A c \in Clients : client[c] = "done"
    BY <1>3 DEF StarterInv, m
  <2>2. ~LaunchByHand
    BY <1>3 DEF LaunchByHand, Legacy, vertical
  <2>3. ~\E c \in Clients : Client(c)
    BY <2>1 DEF Client, Publish, Pass, Return, GoClient
  <2> QED BY <2>2, <2>3
<1> QED BY <1>1, <1>2, <1>3 DEF StarterInv, m

LEMMA StarterAlways ==
  ASSUME RedisAssumption, ScaleAssumption
  PROVE  Spec => []StarterInv
<1>1. Init => StarterInv
  <2> SUFFICES ASSUME Init PROVE StarterInv
    OBVIOUS
  <2>1. script \in Scripts /\ pc = 1 /\ starter = "off" /\ up \in BOOLEAN
        /\ flags \in SUBSET Flags
    BY DEF Init
  <2>2. StarterTyped /\ ~(pc > 1) /\ ~(pc > 2) /\ ~(pc > 3) /\ ~(pc > Meeting(script) + 6)
    BY <2>1, Launched DEF StarterTyped
  <2> QED BY <2>1, <2>2 DEF StarterInv
<1>2. ClusterInv /\ StarterInv /\ [Next]_vars => StarterInv'
  <2> SUFFICES ASSUME ClusterInv, StarterInv, [Next]_vars PROVE StarterInv'
    OBVIOUS
  <2>1. ScriptTyped
    BY DEF ClusterInv
  <2>2. CASE Script
    BY <2>1, <2>2, FlushStarter, StartServersStarter, LaunchStarterStarter,
       AwaitServersStarter, FinishStarter, UnservedStarter DEF Script, Unserved
  <2>3. CASE Starter
    BY <2>1, <2>3, StarterStep
  <2>4. CASE LaunchByHand \/ \E c \in Clients : Client(c)
    BY <2>1, <2>4, ClientsStarter
  <2>5. CASE UNCHANGED vars
    BY <2>5 DEF vars, scriptVars, memcached, StarterInv, StarterTyped
  <2> QED BY <2>2, <2>3, <2>4, <2>5 DEF Next
<1> QED BY <1>1, <1>2, ClusterAlways, PTL DEF Spec

\* No key of an earlier run lets a script begin before its own instances are up
\* or the starter stop them before the last client has returned.
THEOREM InstancesUp ==
  ASSUME RedisAssumption, ScaleAssumption
  PROVE  Spec => []ServersUp
<1>1. ClusterInv /\ StarterInv => ServersUp
  <2> SUFFICES ASSUME ClusterInv, StarterInv, Past("create")
               PROVE  up \/ (Legacy /\ Over /\ \A c \in Clients : client[c] = "done")
    BY DEF ServersUp
  <2> DEFINE n == Creation(script)
             m == Meeting(script)
             L == Len(Commands[script])
  <2>1. ScriptTyped /\ script \in Scripts
    BY DEF ClusterInv, ScriptTyped
  <2>2. n \in Nat /\ m \in Nat /\ L \in Nat /\ pc \in Nat /\ pc > n
        /\ (script = vertical => n = 3) /\ (script # vertical => n = 4 /\ L = m + 7)
    BY <2>1, Positions, Timeline, PastAndAhead DEF ScriptTyped
  <2> HIDE DEF n, m, L
  <2>3. CASE script = vertical
    <3>1. pc > 2
      BY <2>2, <2>3
    <3> QED BY <2>3, <3>1 DEF StarterInv
  <2>4. CASE script # vertical
    <3>1. pc > 3 /\ (pc > m + 7 => pc > m + 6 /\ pc > L)
      BY <2>2, <2>4
    <3>2. starter \in Served
      BY <2>4, <3>1 DEF StarterInv
    <3>3. starter # "done" => up
      BY <2>4, <3>2 DEF StarterInv, Served
    <3>4. starter = "done" => pc > L /\ \A c \in Clients : client[c] = "done"
      BY <2>4, <3>1 DEF StarterInv, m
    <3> QED BY <2>4, <3>3, <3>4 DEF Legacy, Over, L, vertical
  <2> QED BY <2>3, <2>4
<1> QED BY <1>1, ClusterAlways, StarterAlways, PTL

\* Nobody replaces the client program.
LEMMA FitsTyped == Spec => [](fits \in BOOLEAN)
<1>1. Init => fits \in BOOLEAN
  BY DEF Init
<1>2. ASSUME [Next]_vars PROVE fits' = fits
  <2>1. CASE Script
    <3>1. PICK what : Run(what)
      BY <2>1 DEF Script, Flush, StartServers, LaunchStarter, AwaitServers, Create, Measure,
         Gather, Remove, Add, LaunchClients, Collect, Notify, MoveSlots, Join, Finish
    <3> QED BY <3>1 DEF Run
  <2>2. CASE Starter
    BY <2>2 DEF Starter, ClearOld, StartNodes, ReportReady, SeeFinish, CleanUp, scriptVars
  <2>3. CASE LaunchByHand \/ UNCHANGED vars
    BY <2>3 DEF LaunchByHand, vars, scriptVars
  <2>4. ASSUME NEW c \in Clients, Client(c) PROVE fits' = fits
    BY <2>4 DEF Client, Publish, Pass, Return, scriptVars
  <2> QED BY <1>2, <2>1, <2>2, <2>3, <2>4 DEF Next
<1>3. fits \in BOOLEAN /\ [Next]_vars => fits' \in BOOLEAN
  BY <1>2
<1> DEFINE F == fits \in BOOLEAN
<1> HIDE DEF F
<1>4. (Init => F) /\ (F /\ [Next]_vars => F')
  BY <1>1, <1>3 DEF F
<1>5. Spec => []F
  BY <1>4, PTL DEF Spec
<1> QED BY <1>5 DEF F

\* Script, cluster, memcached, clients and instances have their types.
THEOREM ScriptsTypeCorrect ==
  ASSUME RedisAssumption, ScaleAssumption
  PROVE  Spec => []TypeOK
<1>1. ClusterInv /\ KeysInv /\ StarterInv /\ fits \in BOOLEAN => TypeOK
  BY DEF ClusterInv, ScriptTyped, KeysInv, KeysTyped, Stages, Settled, StarterInv,
     StarterTyped, Served, TypeOK
<1> QED BY <1>1, ClusterAlways, KeysAlways, StarterAlways, FitsTyped, PTL
==============================================================================
