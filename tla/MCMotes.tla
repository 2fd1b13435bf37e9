-------------------------------- MODULE MCMotes --------------------------------
(* A runtime and tools for it: one that shares a library with the runtime,  *)
(* one that brings other bytes for the same library, and one whose path     *)
(* lies below the first tool's.                                             *)
EXTENDS MoteLaunch, TLC

File(h, n) == [hash |-> h, needs |-> n]
Program(pub, fs, bin, h, lib) ==
    [publisher |-> pub, fs |-> fs, entry |-> bin,
     files |-> IF lib = "none" THEN bin :> File(h, {})
               ELSE (bin :> File(h, {<<"lib", "c">>})) @@ (<<"lib", "c">> :> File(lib, {}))]
MCSource ==
    [runtime |-> Program("p1", "fs1", <<"harness">>, "h", "c"),
     tool    |-> Program("p2", "fs2", <<"tool">>, "t", "c"),
     other   |-> Program("p2", "fs3", <<"tool">>, "u", "d"),
     nested  |-> Program("p2", "fs4", <<"tool", "x">>, "x", "none")]

Equipped == <<"runtime", "tool">>
MCPlans == {<<"runtime">>, Equipped, <<"runtime", "other">>, <<"runtime", "runtime">>,
            <<"runtime", "tool", "nested">>}

Policy(ps, r) == [publishers |-> ps, revoked |-> r, closures |-> {}]
MCPolicies == {Policy({"p1", "p2"}, {}), Policy({"p1", "p2"}, {"fs2"})}
MCManifests == {{"t"}}

Req(a, t, h) == [attempt |-> a, mote |-> Equipped, task |-> t, harness |-> h]
MCTasks == {Req("a", "one", TRUE), Req("a", "two", TRUE), Req("b", "one", FALSE)}
MCProfiles == {[binds |-> Req("a", "one", TRUE), boot |-> 1, issued |-> 0, expires |-> 1]}

(* Two launches at once are followed while the operator has not edited the  *)
(* lists and has written grants by hand only; one through everything.       *)
Busy == {l \in Launchers : launcher[l] # Unoccupied}
Explored ==
    Cardinality(Busy) > 1 =>
        /\ closurePolicy = Policy({"p1", "p2"}, {}) /\ localRevoked = {} /\ trustedMotes = {Equipped}
        /\ modelProfile = NoProfile /\ issuer = Unoccupied /\ hostClock = 0
================================================================================
