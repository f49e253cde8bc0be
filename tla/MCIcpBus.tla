------------------------------ MODULE MCIcpBus ------------------------------
(***************************************************************************)
(* Model values for IcpBus.  A frame to one node has two bytes and one to  *)
(* BROADCAST, whose name is longer, has four: enough for the tail of a     *)
(* frame to be left over when a longer one replaces a shorter one in the   *)
(* middle of its transmission.                                             *)
(***************************************************************************)
EXTENDS IcpBus, TLC

Lengths == [d \in Node \cup {Broadcast} |-> IF d = Broadcast THEN 4 ELSE 2]

\* Nodes the tester sends nothing to are alike
Symmetry == Permutations(Node \ Targets)
=============================================================================
