----------------------------- MODULE MCBroker -------------------------------
(***************************************************************************)
(* The broker with two hypervisor connections and two subscriber          *)
(* connections.  Descriptors are numbered from 3: the daemon's log file   *)
(* and the two listening sockets take the numbers below.                  *)
(***************************************************************************)
EXTENDS Broker

(* A READ of one sector, and the all-zero header the server rejects.      *)
ValidRead == [sector |-> 10, num_sectors |-> 1, op |-> OP_READ, size |-> 512]
AllZero == [sector |-> 0, num_sectors |-> 0, op |-> OP_READ, size |-> 0]
MCHeaders == {ValidRead, AllZero}

(* Connections and heap addresses are interchangeable identities.        *)
Symmetry == Permutations(Producers) \cup Permutations(Clients)
            \cup Permutations(Nodes)
=============================================================================
