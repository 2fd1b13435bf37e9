--------------------------------- MODULE MCHost ---------------------------------
(* The parts of one cell's host, each on its own: Init picks the part that  *)
(* runs, and the others keep their initial state.                           *)
EXTENDS MemoryMap, Cells, CellRun, Broker, Workspace, Assay, Pilot

VARIABLE part

(* An empty file, one shorter than a page, and one of two extents.          *)
MCLengths == [i \in Images |-> CASE i = "empty" -> 0 [] i = "small" -> 1 [] i = "large" -> 5]
MCToolOf == [k \in Keys |-> IF k = "k1" THEN "a" ELSE "b"]

(* The first of the configurations a part that does not run is left in.     *)
OtherMap == step = "asked" /\ initrdAt = 0 /\ sealed = <<>> /\ nextGpa = WindowGpa
            /\ boot = [memory |-> 4, kernel |-> 1, hasInitrd |-> FALSE, initrd |-> 0, images |-> <<>>]
OtherRun == RunInit /\ kind = "worker"
OtherBroker == BrokerInit /\ route = "fleet" /\ get = "some" /\ harness = "loop" /\ total = MaxTotal

OtherPilot == /\ Len(queued) = 1 /\ now = [report |-> FALSE, members |-> "none", inputs |-> "none", expects |-> FALSE,
                                           force |-> FALSE, fetch |-> FALSE, mailbox |-> FALSE]
              /\ path = Declared /\ attested = [p \in Programs |-> "tool"]

allVars == <<mapVars, cellVars, runVars, brokerVars, workVars, assayVars, pilotVars, part>>

Init ==
    /\ part \in {"map", "cells", "run", "broker", "workspace", "assay", "pilot"}
    /\ IF part = "map" THEN MapInit ELSE OtherMap
    /\ CellsInit
    /\ IF part = "run" THEN RunInit ELSE OtherRun
    /\ IF part = "broker" THEN BrokerInit ELSE OtherBroker
    /\ WorkInit
    /\ AssayInit
    /\ PilotInit /\ (part # "pilot" => OtherPilot)

NextOfMap ==
    /\ part = "map" /\ MapNext
    /\ UNCHANGED <<cellVars, runVars, brokerVars, workVars, assayVars, pilotVars, part>>
NextOfCells ==
    /\ part = "cells" /\ CellsNext
    /\ UNCHANGED <<mapVars, runVars, brokerVars, workVars, assayVars, pilotVars, part>>
NextOfRun ==
    /\ part = "run" /\ RunNext
    /\ UNCHANGED <<mapVars, cellVars, brokerVars, workVars, assayVars, pilotVars, part>>
NextOfBroker ==
    /\ part = "broker" /\ BrokerNext
    /\ UNCHANGED <<mapVars, cellVars, runVars, workVars, assayVars, pilotVars, part>>
NextOfWorkspace ==
    /\ part = "workspace" /\ WorkNext
    /\ UNCHANGED <<mapVars, cellVars, runVars, brokerVars, assayVars, pilotVars, part>>
NextOfAssay ==
    /\ part = "assay" /\ AssayNext
    /\ UNCHANGED <<mapVars, cellVars, runVars, brokerVars, workVars, pilotVars, part>>
NextOfPilot ==
    /\ part = "pilot" /\ PilotNext
    /\ UNCHANGED <<mapVars, cellVars, runVars, brokerVars, workVars, assayVars, part>>

Next ==
    \/ NextOfMap \/ NextOfCells \/ NextOfRun \/ NextOfBroker \/ NextOfWorkspace
    \/ NextOfAssay \/ NextOfPilot

(* The threads of a run are scheduled; runVars change only in its own part. *)
Spec == Init /\ [][Next]_allVars /\ RunFairness
=================================================================================
