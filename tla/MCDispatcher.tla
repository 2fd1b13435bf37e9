----------------------------- MODULE MCDispatcher -----------------------------
(* The execution registry of the dispatcher, the status file of one scoped  *)
(* operation, and the registry of cells: Init picks the one that runs.      *)
EXTENDS Executions, ScopedStatus, CellRegistry

VARIABLE part

(* A small request, and one that takes most of the memory and the broker. *)
MCMemory(q) == IF q = "small" THEN 1 ELSE 2
MCEgress(q) == IF q = "small" THEN 0 ELSE 1

dispatcherVars == <<vars, scopedVars, registryVars, part>>

OtherStatus == ScopedInit /\ lifecycle = "one-shot"

MCInit ==
    /\ part \in {"executions", "status", "cells"}
    /\ Init /\ RegistryInit
    /\ IF part = "status" THEN ScopedInit ELSE OtherStatus

NextOfExecutions ==
    part = "executions" /\ Next /\ UNCHANGED <<scopedVars, registryVars, part>>
NextOfStatus ==
    part = "status" /\ ScopedNext /\ UNCHANGED <<vars, registryVars, part>>
NextOfCells ==
    part = "cells" /\ RegistryNext /\ UNCHANGED <<vars, scopedVars, part>>

MCNext == NextOfExecutions \/ NextOfStatus \/ NextOfCells

(* Workers of executions run as in FairSpec. *)
MCSpec == MCInit /\ [][MCNext]_dispatcherVars /\ \A i \in Ids : SF_vars(WorkerStep(i))
=============================================================================
