--------------------------- MODULE MCParentSession ---------------------------
(* Two turn identities under a budget for two, one reader of the journal.   *)
(* The constants are given in MCParentSession.cfg; temporal properties are  *)
(* among those checked, so the turns are not made symmetric.                *)
EXTENDS ParentSession
==============================================================================
