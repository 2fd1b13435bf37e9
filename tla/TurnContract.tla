---------------------------- MODULE TurnContract -----------------------------
(***************************************************************************)
(* What a parent incarnation promises about its turns, whatever happens to *)
(* the process or the machine: the durable journal of a turn only moves    *)
(* forward, one stage at a time; its child is launched at most once, and   *)
(* only while the journal says exactly "reserved"; and no turn is reserved *)
(* while another one is unresolved.                                        *)
(***************************************************************************)
EXTENDS Integers

CONSTANT Turns

VARIABLES stage,   \* the stage of each turn that survives a power loss
          ran      \* the turns whose child was launched

contract == <<stage, ran>>

Stage == {"none", "reserved", "destroyed", "committed"}

CInit == stage = [t \in Turns |-> "none"] /\ ran = {}

CReserve(t) ==
    /\ stage[t] = "none"
    /\ \A u \in Turns \ {t} : stage[u] \in {"none", "committed"}
    /\ stage' = [stage EXCEPT ![t] = "reserved"]
    /\ UNCHANGED ran

CRun(t) ==
    /\ stage[t] = "reserved"
    /\ t \notin ran
    /\ ran' = ran \cup {t}
    /\ UNCHANGED stage

CDestroy(t) ==
    /\ stage[t] = "reserved"
    /\ stage' = [stage EXCEPT ![t] = "destroyed"]
    /\ UNCHANGED ran

CCommit(t) ==
    /\ stage[t] = "destroyed"
    /\ stage' = [stage EXCEPT ![t] = "committed"]
    /\ UNCHANGED ran

CNext == \E t \in Turns : CReserve(t) \/ CRun(t) \/ CDestroy(t) \/ CCommit(t)

CSpec == CInit /\ [][CNext]_contract
==============================================================================
