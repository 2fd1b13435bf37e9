---------------------------- MODULE MCParentRegistry ----------------------------
EXTENDS ParentRegistry, TLC

(* One owner fills the memory with a child and a broker, one takes half. *)
MCCharges == {[bytes |-> 1, egress |-> 0], [bytes |-> 2, egress |-> 1]}

(* For the liveness run, which cannot use symmetry: one size of owner. *)
MCOneCharge == {[bytes |-> 1, egress |-> 1]}

Symmetry == Permutations(Parents) \cup Permutations(Callers) \cup Permutations(Principals)
=================================================================================
