------------------------------ MODULE MCRouter ------------------------------
(* Small fleets of requests: each behaviour serves one of them. *)
EXTENDS Router, TLC

Request(route, id, bearer) ==
    [route |-> route, id |-> id, body |-> "x", pin |-> "none", parent |-> "none",
     lifecycle |-> "none", bearer |-> bearer, wellFormed |-> TRUE]
Operation(route, id, lifecycle, parent) ==
    [Request(route, id, "scoped") EXCEPT !.lifecycle = lifecycle, !.parent = parent]

SubmitX == Request("submit", "e", "client")
Executions == {SubmitX, [SubmitX EXCEPT !.body = "y"], [SubmitX EXCEPT !.pin = "b2"],
               Request("cancel", "e", "client"), [Request("prewarm", "e", "client") EXCEPT !.pin = "b1"],
               [SubmitX EXCEPT !.bearer = "discovery"]}
Parents == {Request(r, "p", "client") : r \in {"provision", "create", "parent"}}
OneShot(route, id) == Operation(route, id, "one-shot", "none")
Retiring == {OneShot("prepare", "o1"), OneShot("start", "o1"), OneShot("cleanup", "o1")}
Crowded == {OneShot("prepare", "o1"), OneShot("prepare", "o2"), OneShot("cleanup", "o1")}
Root(route) == Operation(route, "o1", "enduring-initial", "p")
Rooted == {Root("prepare"), Root("cleanup")}
Turns == {Root("prepare"), Operation("prepare", "o2", "enduring-turn", "p"),
          Operation("start", "o2", "enduring-turn", "p")}
Dashboards == {Request("capabilities", "e", "discovery"), Request("cells", "e", "client")}

MCTraffics == {Executions, Parents, Retiring, Crowded, Rooted, Turns, Dashboards}
MCRequests == UNION MCTraffics
MCKeys == {<<"executions", "e">>, <<"provisions", "p">>, <<"parents", "p">>,
           <<"scoped_parents", "p">>, <<"scoped_ops", "o1">>, <<"scoped_ops", "o2">>}
MCCapacity(t) == IF t = Crowded THEN 1 ELSE 2
(* What follows the use of a binding that was not durable, and two handlers  *)
(* of one replica, are explored for the smaller sets of requests only.       *)
Explored == traffic \in {Crowded, Rooted} =>
                exposed = {} /\ Cardinality({home[c] : c \in Calls}) = 2
Symmetry == Permutations(Calls) \cup Permutations(Routers)
=============================================================================
