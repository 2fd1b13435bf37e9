------------------------------ MODULE MCReceiver ------------------------------
(* What stands between a request and a launch, each part on its own: the    *)
(* admission journal, the scoped authority, the turns of a retained parent, *)
(* the admission of motes and the launch of admitted ones.                  *)
(* Init picks the part that runs, and the others keep their initial state.  *)
EXTENDS AdmissionJournal, MCScopedAuthority, ScopedTurn, MCMotes

VARIABLE part

receiverVars == <<admissionVars, authVars, turnVars, declaredVars, part>>

(* The turn scopes of a run, and the threads of each part, occur only in    *)
(* quantifiers and under equality.  Each set has two members, and the parts *)
(* that do not run stay as they began, so all are swapped together.         *)
Flip(b, S) == CHOOSE p \in Permutations(S) : \A x \in S : (p[x] # x) = b
ReceiverSymmetry ==
    {Flip(b, Turns) @@ Flip(b, Requests) @@ Flip(b, Admins) @@ Flip(b, Launchers) : b \in BOOLEAN}

ReceiverInit ==
    /\ part \in {"admission", "authority", "turns", "motes", "launch"}
    /\ AdmissionInit /\ AuthInit /\ TurnsInit
    /\ IF part = "launch" THEN AdmittedInit({Equipped}) ELSE MotesInit /\ LaunchInit
    /\ part \notin {"motes", "launch"} => closurePolicy.revoked = {}

NextOfAdmission ==
    part = "admission" /\ AdmissionNext /\ UNCHANGED <<authVars, turnVars, declaredVars, part>>
NextOfAuthority ==
    part = "authority" /\ AuthNext /\ UNCHANGED <<admissionVars, turnVars, declaredVars, part>>
NextOfTurns ==
    part = "turns" /\ TurnsNext /\ UNCHANGED <<admissionVars, authVars, declaredVars, part>>
NextOfMotes ==
    part = "motes" /\ MotesNext /\ UNCHANGED <<admissionVars, authVars, turnVars, launchVars, part>>
NextOfLaunch ==
    part = "launch" /\ DeclaredNext /\ UNCHANGED <<admissionVars, authVars, turnVars, part>>

ReceiverNext ==
    \/ NextOfAdmission \/ NextOfAuthority \/ NextOfTurns \/ NextOfMotes \/ NextOfLaunch

(* The answers about one operation of the run, and one enrolment that was   *)
(* not synced: those of two operations meet only in the sync of their       *)
(* directory, and a report changes nothing.                                 *)
OneReported ==
    /\ Cardinality(told) <= 1
    /\ Cardinality(reported) <= 1
    /\ Cardinality(soft) <= 1

ReceiverSpec == ReceiverInit /\ [][ReceiverNext]_receiverVars
===============================================================================
