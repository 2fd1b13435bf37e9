-------------------------------- MODULE MCAssay --------------------------------
(* Two processes of one host and one tool. *)
EXTENDS Assay
================================================================================
