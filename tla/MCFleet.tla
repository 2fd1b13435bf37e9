-------------------------------- MODULE MCFleet --------------------------------
(* The router in front of a fleet, and the routes of the node it forwards a *)
(* parent's provision and creation to: Init picks the one that runs.        *)
EXTENDS MCRouter, ParentProvision

VARIABLE part

(* Two tenants, and a token that is handed from one to the other. *)
ClientsAre(first, second) == [b \in Bearers |-> IF b = "b1" THEN first ELSE second]
MCClientFiles == {ClientsAre("ta", "tb"), ClientsAre("tb", "nobody")}

(* Three plans for one run: a new conversation, a continued one, and one of *)
(* another tenant.                                                          *)
PlanOf(caller, past) == [run |-> "run", caller |-> caller, settings |-> "s", past |-> past]
MCPlans == {PlanOf("ta", "new"), PlanOf("ta", "continued"), PlanOf("tb", "new")}

(* Calls, routers and handlers occur only in quantifiers and under equality. *)
(* Handlers and calls belong to different parts, and are swapped together.   *)
Flip(b, S) == CHOOSE p \in Permutations(S) : \A x \in S : (p[x] # x) = b
FleetSymmetry ==
    {Flip(b, Calls) @@ Flip(b, Handlers) @@ Flip(c, Routers) : b, c \in BOOLEAN}

fleetVars == <<vars, provisionVars, part>>

FleetInit ==
    /\ part \in {"router", "parents"} /\ Init /\ ProvisionInit
    /\ part = "router" => clients = ClientsAre("ta", "tb")
    /\ part = "parents" => traffic = Dashboards /\ \A c, d \in Calls : home[c] = home[d]

NextOfRouter == part = "router" /\ Next /\ UNCHANGED <<provisionVars, part>>
NextOfParents == part = "parents" /\ ProvisionNext /\ UNCHANGED <<vars, part>>

FleetNext == NextOfRouter \/ NextOfParents

FleetSpec == FleetInit /\ [][FleetNext]_fleetVars
================================================================================
