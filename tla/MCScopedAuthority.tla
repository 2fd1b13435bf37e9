--------------------------- MODULE MCScopedAuthority ---------------------------
(* One operation with three decisions signed for it. *)
EXTENDS ScopedAuthority, TLC

Tool(method, h, n, H, N) ==
    [method |-> method, signed |-> [hosts |-> h, requests |-> n], declared |-> [hosts |-> H, requests |-> N]]
MCStores == <<[operation |-> "read", signed |-> 2, declared |-> 2], [operation |-> "append", signed |-> 1, declared |-> 3]>>
Order(route, deadline, tools) ==
    [id |-> "op", op |-> "start", route |-> route, issued |-> 0, admission |-> 1, deadline |-> deadline,
     tools |-> tools, stores |-> IF tools = <<>> THEN <<>> ELSE MCStores, cap |-> 1, turnTokens |-> 1, runTokens |-> 2]

Modelled == Order("model", 1, <<Tool("get", {"a", "b"}, 2, AnyHost, 3), Tool("post", {"c"}, 1, {"c"}, 2),
                                Tool("get", {"b"}, 3, {"b"}, 3)>>)
ModelFree == Order("none", 3, <<>>)
Disjoint == Order("model", 4, <<Tool("get", {"a"}, 1, AnyHost, 1), Tool("get", {"b"}, 1, AnyHost, 1)>>)
MCDecisions == {Modelled, ModelFree, Disjoint}

Pass(key, op, d, exp) == [key |-> key, op |-> op, decision |-> d, iat |-> 0, exp |-> exp]
MCPermits == {Pass("k1", "start", d, 2) : d \in {Modelled, ModelFree}}
             \cup {Pass("k1", "model", Modelled, x) : x \in {1, 3}}
             \cup {Pass("k2", "cleanup", [Modelled EXCEPT !.op = "cleanup", !.admission = 3], 3),
                   Pass("k2", "read", [ModelFree EXCEPT !.op = "read"], 3)}
(* Requests occur only in quantifiers and under equality. *)
RequestSymmetry == Permutations(Requests)

(* Requests under way at once are followed in the first receiver, one at a  *)
(* time in the one after it.                                                *)
OneAfterRestart == owner > 1 => Cardinality({r \in Requests : request[r] # Waiting}) <= 1

MCKeyFiles == {{"k1", "k2"}, {"k2"}, {}}
================================================================================
