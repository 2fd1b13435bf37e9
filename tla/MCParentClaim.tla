----------------------------- MODULE MCParentClaim -----------------------------
EXTENDS ParentClaim

(* Two processes of one pid namespace, and one of a container that uses the *)
(* same pid as the first.                                                   *)
MCSlots == {[ns |-> 1, pid |-> 1], [ns |-> 1, pid |-> 2], [ns |-> 2, pid |-> 1]}
================================================================================
