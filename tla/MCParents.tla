------------------------------- MODULE MCParents -------------------------------
(* The owners and the registry inside one process, and the durable life of  *)
(* one incarnation: Init picks the one that runs.                           *)
EXTENDS MCParentRegistry, MCParentClaim

VARIABLE part

parentsVars == <<vars, claimVars, part>>

ParentsInit == part \in {"registry", "claim"} /\ Init /\ ClaimInit

NextOfRegistry == part = "registry" /\ Next /\ UNCHANGED <<claimVars, part>>
NextOfClaim == part = "claim" /\ ClaimNext /\ UNCHANGED <<vars, part>>

ParentsNext == NextOfRegistry \/ NextOfClaim

ParentsSpec == ParentsInit /\ [][ParentsNext]_parentsVars
================================================================================
