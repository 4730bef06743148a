---------------------------- MODULE HorizontalScale ----------------------------
(***************************************************************************)
(* redis-cluster-scale-horizontal.py: a cluster of NumInitial masters gets *)
(* as many empty ones; every master gives half of its slots to a partner   *)
(* and takes them back.  The script reads the slot counts once, before the *)
(* first reshard, and then keeps its own account of them in port_slots.    *)
(*                                                                         *)
(* The barriers of the script are those of MemcachedSync, and its timers   *)
(* are left out: nothing else changes the cluster.                         *)
(***************************************************************************)
EXTENDS RedisCluster

CONSTANTS NumInitial,  \* the number of initial masters
          AddFails,    \* add-node may fail
          OutFails,    \* a reshard of the scale-out may move too few slots
          InFails      \* a reshard of the scale-in may move too few slots

ASSUME HorizontalAssumption ==
  /\ NumInitial \in Nat /\ NumInitial >= 3
  /\ 0..2 * NumInitial - 1 \subseteq Ports
  /\ {AddFails, OutFails, InFails} \subseteq BOOLEAN

Initial == 0..NumInitial - 1
server_ports == 0..2 * NumInitial - 1

\* scale_ports[i]
Partner(i) == NumInitial + i

VARIABLES phase,  \* which loop the script is in
          i       \* its loop index

horizontalVars == <<slots, members, phase, i, port_slots>>

HorizontalTypeOK ==
  /\ ClusterTypeOK
  /\ phase \in {"add", "measure", "out", "in", "done"}
  /\ i \in Initial
  /\ port_slots \in [server_ports -> 0..NumSlots]

\* The instances are up and create_cluster has returned.
HorizontalInit ==
  /\ members = Initial
  /\ slots \in EvenSplits(Initial, NumInitial)
  /\ phase = "add" /\ i = 0
  /\ port_slots = [p \in server_ports |-> 0]

\* Bug variant: a loop runs once more.
IterateOnceMore(from, to) ==
  /\ phase = from
  /\ IF i < NumInitial
     THEN i' = i + 1 /\ UNCHANGED phase
     ELSE i' = 0 /\ phase' = to

\* One iteration of the loop "from", which is followed by "to".
Iterate(from, to) ==
  /\ phase = from
  /\ IF i + 1 < NumInitial
     THEN i' = i + 1 /\ UNCHANGED phase
     ELSE i' = 0 /\ phase' = to

\* cluster_add_node of a scale node
AddScaleNode ==
  /\ Iterate("add", "measure")
  /\ AddNode(Partner(i), AddFails)
  /\ UNCHANGED port_slots

\* The script reads the slots of all instances once.
ReadPortSlots ==
  /\ phase = "measure" /\ phase' = "out"
  /\ get_port_slot_map(server_ports)
  /\ UNCHANGED <<slots, members, i>>

\* Bug variant: the partner's account is halved once more.
ScaleOutSwapped ==
  LET half == port_slots[i] \div 2
      rest == port_slots[i] - half
  IN  /\ Iterate("out", "in")
      /\ Reshard(i, Partner(i), half, OutFails)
      /\ port_slots' = [port_slots EXCEPT ![i] = rest, ![Partner(i)] = rest \div 2]

\* Bug variant: the master's own account is left as it was.
ScaleOutHalfBooked ==
  LET half == port_slots[i] \div 2
  IN  /\ Iterate("out", "in")
      /\ Reshard(i, Partner(i), half, OutFails)
      /\ port_slots' = [port_slots EXCEPT ![Partner(i)] = half]

\* Half of the slots go to the partner; the account is updated whatever the
\* reshard did.
ScaleOut ==
  LET half == port_slots[i] \div 2
  IN  /\ Iterate("out", "in")
      /\ Reshard(i, Partner(i), half, OutFails)
      /\ port_slots' = [port_slots EXCEPT ![i] = @ - half, ![Partner(i)] = half]

\* Bug variant: the partner gives half of its slots back.
ScaleInHalf ==
  /\ Iterate("in", "done")
  /\ Reshard(Partner(i), i, port_slots[Partner(i)] \div 2, InFails)
  /\ UNCHANGED port_slots

\* The partner gives back what the account says it has.
ScaleIn ==
  /\ Iterate("in", "done")
  /\ Reshard(Partner(i), i, port_slots[Partner(i)], InFails)
  /\ UNCHANGED port_slots

HorizontalNext == AddScaleNode \/ ReadPortSlots \/ ScaleOut \/ ScaleIn

HorizontalSpec == HorizontalInit /\ [][HorizontalNext]_horizontalVars
------------------------------------------------------------------------------
(* Properties.                                                             *)

Measured == phase \in {"out", "in", "done"}

\* The account of a pair is exact even when reshards move too few slots: what
\* one of the two has not got, the other one has kept.
PairsAccounted ==
  Measured =>
    \A n \in Initial :
      slots[n] + slots[Partner(n)] = port_slots[n] + port_slots[Partner(n)]

\* The account never has fewer slots at a partner than it owns, so the
\* scale-in asks for all of them.
PartnerCovered ==
  Measured => \A n \in Initial : slots[Partner(n)] <= port_slots[Partner(n)]

\* A scale-in without failures leaves the partners empty, whatever failed
\* before it.
PartnersEmptied ==
  phase = "done" /\ ~InFails => \A n \in Initial : slots[Partner(n)] = 0
==============================================================================
