----------------------------- MODULE RedisCluster -----------------------------
(***************************************************************************)
(* A Redis cluster as the scripts of redis-perf see it: how many of its    *)
(* slots each master owns, and what the redis-cli commands behind          *)
(* redis_utils.py do to it.  The scripts ignore the results of these       *)
(* commands, so a command that fails is one that does less.                *)
(***************************************************************************)
EXTENDS Integers, FiniteSets, Functions

CONSTANTS Ports,     \* the Redis instances, by their ports
          NumSlots   \* 16384

ASSUME RedisAssumption == NumSlots \in Nat /\ IsFiniteSet(Ports)

VARIABLES slots,      \* the number of slots each instance owns
          members,    \* the masters of the cluster
          port_slots  \* a script's account of the slots

ClusterTypeOK ==
  /\ slots \in [Ports -> 0..NumSlots]
  /\ members \subseteq Ports

\* redis-cli --cluster create spreads the slots over the n nodes as evenly as
\* it can.
EvenSplits(nodes, n) ==
  {split \in [Ports -> 0..NumSlots \cap {0, NumSlots \div n, NumSlots \div n + 1}] :
     /\ \A p \in Ports \ nodes : split[p] = 0
     /\ \A p \in nodes : split[p] >= NumSlots \div n
     /\ SumFunction(split) = NumSlots}

Least(m, n) == IF m < n THEN m ELSE n

\* redis-cli --cluster reshard moves n slots between masters, or all there are
\* if these are fewer; one that fails moves some of them.
Reshard(from, to, n, mayFail) ==
  LET most == IF {from, to} \subseteq members THEN Least(n, slots[from]) ELSE 0
  IN  /\ \E k \in (IF mayFail THEN 0..most ELSE {most}) :
           slots' = [slots EXCEPT ![from] = @ - k, ![to] = @ + k]
      /\ UNCHANGED members

\* redis-cli --cluster del-node refuses a master that still owns slots.
DelNode(p) ==
  /\ members' = IF slots[p] = 0 THEN members \ {p} ELSE members
  /\ UNCHANGED slots

\* get_port_slot_map reads the number of slots of each instance asked for.
get_port_slot_map(ports) == port_slots' = [p \in ports |-> slots[p]]

\* redis-cli --cluster add-node adds an empty master.
AddNode(p, mayFail) ==
  /\ \/ members' = members \cup {p}
     \/ mayFail /\ UNCHANGED members
  /\ UNCHANGED slots
==============================================================================
