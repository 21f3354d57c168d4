------------------------------ MODULE MCMdata ------------------------------
(* Values for TLC: a value whose only line is a dot, which version 1 has to *)
(* escape; a zone whose client is not root, with an agent of either         *)
(* version; and a hardware virtual machine.                                 *)
EXTENDS Mdata

MCVal == {<<TextLine(1, "")>>}
MCZone == {[serial |-> FALSE, root |-> FALSE, version |-> v] : v \in {1, 2}}
MCHvm == {[serial |-> TRUE, root |-> TRUE, version |-> 2]}
MCAll == MCZone \cup MCHvm

=============================================================================
