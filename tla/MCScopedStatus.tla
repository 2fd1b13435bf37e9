---------------------------- MODULE MCScopedStatus ----------------------------
(* One scoped operation with its callers. *)
EXTENDS ScopedStatus
=============================================================================
