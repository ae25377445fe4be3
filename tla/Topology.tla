------------------------------ MODULE Topology ------------------------------
(***************************************************************************)
(* The communicators of TwoLevelClockSync and HierarchicalClockSync, as    *)
(* the splits build them from where the ranks run.  node[r] is the node of *)
(* rank r, binding[r] the sockets it may run on, {} when that cannot be    *)
(* found out.  All splits keep the order of the ranks, so rank 0 of a      *)
(* communicator, its leader, is its smallest rank.                         *)
(***************************************************************************)
EXTENDS Integers, FiniteSets, FiniteSetsExt

Leader(comm) == Min(comm)

\* create_intranode_communicator: the ranks that share memory.
Intranode(node, r) == {s \in DOMAIN node : node[s] = node[r]}

\* create_interlevel_communicator: the leaders of the given communicators.
Interlevel(comms) == {Leader(comm) : comm \in comms}

Internode(node) == Interlevel({Intranode(node, s) : s \in DOMAIN node})

\* Mutant: the socket found last is taken, whatever was found before.
LastSocket(sockets) == IF sockets = {} THEN -1 ELSE Max(sockets)

\* get_socket_id: the sockets of the cores r is bound to must be one.
GetSocketId(sockets) ==
  IF Cardinality(sockets) = 1 THEN CHOOSE socket \in sockets : TRUE ELSE -1

\* Whose socket is not known is on socket 0.
SocketId(binding, r) == Max({0, GetSocketId(binding[r])})

Intrasocket(node, binding, r) ==
  {s \in Intranode(node, r) : SocketId(binding, s) = SocketId(binding, r)}

\* Mutant: the leaders of the sockets of all nodes.
IntersocketWorld(node, binding, r) ==
  Interlevel({Intrasocket(node, binding, s) : s \in DOMAIN node})

Intersocket(node, binding, r) ==
  Interlevel({Intrasocket(node, binding, s) : s \in Intranode(node, r)})

\* The communicators r has, level by level, {} where the split gave it none.
IfMember(comm, r) == IF r \in comm THEN comm ELSE {}

Levels3(node, binding, r) ==
  <<IfMember(Internode(node), r), IfMember(Intersocket(node, binding, r), r),
    Intrasocket(node, binding, r)>>

Levels2(node, r) == <<IfMember(Internode(node), r), Intranode(node, r)>>

-----------------------------------------------------------------------------
(* The tree the levels make, for the properties.                           *)

\* The levels at which r takes its clock from another rank.
Attached(levels, r) ==
  {l \in DOMAIN levels : levels[l] # {} /\ r # Leader(levels[l])}
=============================================================================
