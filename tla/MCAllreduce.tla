---------------------------- MODULE MCAllreduce ----------------------------
(***************************************************************************)
(* Small allreduce systems: three non-offloaded clients, and three clients *)
(* on two daemons.                                                         *)
(***************************************************************************)
EXTENDS Allreduce

CONSTANTS c1, c2, c3, d1, d2

NoHome == [c \in Clients |-> NoPeer]
TwoHomes == [c \in Clients |-> IF c = c1 THEN d1 ELSE d2]

ClientsPerDaemon == [d \in Daemons |-> Cardinality({c \in Clients : Home[c] = d})]
=============================================================================
