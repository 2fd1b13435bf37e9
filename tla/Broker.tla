--------------------------------- MODULE Broker ---------------------------------
(***************************************************************************)
(* The model and web allowance of a worker turn: who hands the broker out  *)
(* (ChildBrokers::for_turn, the scoped supply, the one-shot Harness        *)
(* claim), how HttpBroker spends it (egress.rs, egress_post.rs), how the   *)
(* gateway relay numbers its requests (tenancy_model_relay.rs) and the     *)
(* loop of the JSON harness in the guest (json_harness.rs).                *)
(*                                                                         *)
(* The guest is either that harness, with whatever tools it starts, or a   *)
(* program that uses its port as it likes.  The broker serves one request  *)
(* at a time while the vCPU waits; a request that is sent may be billed    *)
(* whether or not its response ever arrives.                               *)
(***************************************************************************)
EXTENDS Integers, Sequences, FiniteSets

CONSTANTS
    TurnIds,       \* turns the owner of the parent may reserve
    MaxAsks,       \* Config.max_turns: model requests of the harness
    MaxCalls,      \* Config.max_calls: tool calls of the harness
    MaxRequests,   \* HttpPolicy.max_requests
    MaxOutput,     \* JsonPostGrant.max_output_tokens
    MaxTotal,      \* bound: JsonPostGrant.max_total_output_tokens
    MaxGets,       \* GetGrant.max_requests
    MaxPosts,      \* PostGrant.max_requests
    MaxHops        \* requests of one fetch that follows redirects (6 in the code)

(* The loop of the harness asks no more often than the policy allows:       *)
(* template_model_requests, Template::arguments and json_config.            *)
ASSUME BrokerAssumption ==
    /\ {MaxAsks, MaxRequests, MaxOutput, MaxTotal, MaxHops} \subseteq Nat \ {0}
    /\ {MaxCalls, MaxGets, MaxPosts} \subseteq Nat
    /\ MaxAsks =< MaxRequests

VARIABLES
    route,     \* "fleet", "scoped" or "oneshot": which transport the turn uses
    get,       \* HttpPolicy.get: "none" (shared budget), "empty" or "some"
    harness,   \* the guest: "loop" is the JSON harness, "any" does as it likes
    total,     \* JsonPostGrant.max_total_output_tokens
    profile,   \* the pinned profile of a fleet parent is installed
    claims,    \* turns whose broker was claimed
    turn,      \* the turn being executed
    stage,     \* where the worker thread of the host is
    spent,     \* counters of the HttpBroker
    sequence,  \* requests the relay numbered
    bearer,    \* the relay still holds its credential
    expired,   \* the Control of the turn has a reason
    request,   \* tokens or redirects of the request being served
    loop,      \* the harness: requests made, calls made, calls pending, loop left;
               \* whether the model request being served is one of its tools',
               \* and whether such a one was charged
    asked      \* what reached the provider or the gateway, per turn

brokerVars == <<route, get, harness, total, profile, claims, turn, stage, spent, sequence, bearer,
                expired, request, loop, asked>>
given == <<route, get, harness, total>>

NoTurn == "none"
Fresh == [used |-> 0, gets |-> 0, posts |-> 0, tokens |-> 0]
NewLoop == [asks |-> 0, calls |-> 0, pending |-> 0, over |-> FALSE, tool |-> FALSE,
            diverted |-> FALSE]

BrokerTypeOK ==
    /\ route \in {"fleet", "scoped", "oneshot"}
    /\ get \in {"none", "empty", "some"} /\ harness \in {"loop", "any"}
    /\ total \in Nat /\ profile \in BOOLEAN /\ bearer \in BOOLEAN /\ expired \in BOOLEAN
    /\ claims \subseteq TurnIds /\ turn \in TurnIds \cup {NoTurn}
    /\ stage \in {"idle", "claimed", "lent", "running", "model", "charged", "sent", "hop",
                  "hopping", "post"}
    /\ spent \in [used : Nat, gets : Nat, posts : Nat, tokens : Nat]
    /\ sequence \in Nat /\ request \in Nat
    /\ loop \in [asks : 0..MaxAsks, calls : 0..MaxCalls, pending : 0..MaxCalls,
                 over : BOOLEAN, tool : BOOLEAN, diverted : BOOLEAN]
    /\ asked \in [TurnIds -> Seq([id : Nat, tokens : Nat])]

(* The grant funds every request of the loop. *)
Funded == MaxAsks * MaxOutput =< total

(* A fleet policy always has its own GET grant; a scoped one only when web  *)
(* tools were admitted; a one-shot Harness shares one budget.  read_profile *)
(* and json_config want a grant that funds the loop; for a scoped one-shot  *)
(* affordable_request_output_tokens wants one request of it.                *)
BrokerInit ==
    /\ route \in {"fleet", "scoped", "oneshot"} /\ harness \in {"loop", "any"}
    /\ get \in CASE route = "fleet" -> {"empty", "some"}
                 [] route = "scoped" -> {"none", "empty", "some"}
                 [] OTHER -> {"none"}
    /\ total \in MaxOutput..MaxTotal
    /\ route = "fleet" \/ (route = "oneshot" /\ harness = "loop") => Funded
    /\ profile = TRUE /\ claims = {} /\ turn = NoTurn /\ stage = "idle"
    /\ spent = Fresh /\ sequence = 0 /\ bearer = FALSE /\ expired = FALSE
    /\ request = 0 /\ loop = NewLoop /\ asked = [t \in TurnIds |-> <<>>]

-----------------------------------------------------------------------------
(* Handing the broker out. *)

(* The turn is over: its broker, relay and leases are dropped. *)
Dropped ==
    /\ stage' = "idle" /\ turn' = NoTurn
    /\ spent' = Fresh /\ sequence' = 0 /\ bearer' = FALSE /\ expired' = FALSE
    /\ request' = 0 /\ loop' = NewLoop
    /\ UNCHANGED <<given, profile, claims, asked>>

(* claimed.insert, pending.remove, or the tombstone created anew: once per  *)
(* turn, whatever happens afterwards.                                       *)
ClaimTurn(t) ==
    /\ stage = "idle" /\ t \notin claims
    /\ claims' = claims \cup {t} /\ turn' = t /\ stage' = "claimed"
    /\ UNCHANGED <<given, profile, spent, sequence, bearer, expired, request, loop, asked>>

(* A fleet turn reads the pinned profile again after its claim; a scoped    *)
(* one checks that its broker fits the reservation and adds its tools.      *)
Supplied ==
    /\ stage = "claimed" /\ (route = "fleet" => profile)
    /\ stage' = "lent" /\ bearer' = (route = "scoped")
    /\ UNCHANGED <<given, profile, claims, turn, spent, sequence, expired, request, loop, asked>>

(* The profile is gone, or the broker does not fit the reservation. *)
NotSupplied ==
    /\ stage = "claimed"
    /\ route = "fleet" => ~profile
    /\ Dropped

(* The cell is forked and run, unless the control already has a reason. *)
Launch ==
    /\ stage = "lent" /\ ~expired
    /\ stage' = "running"
    /\ UNCHANGED <<given, profile, claims, turn, spent, sequence, bearer, expired, request, loop, asked>>

NotLaunched == stage = "lent" /\ expired /\ Dropped

(* The guest ends, or the cell is stopped; then everything is dropped. *)
EndTurn == stage = "running" /\ Dropped

-----------------------------------------------------------------------------
(* Serving one request; "running" is also the answer to the guest. *)

Answer == stage' = "running" /\ request' = 0

Serving(place, n) ==
    /\ stage' = place /\ request' = n
    /\ UNCHANGED <<given, profile, claims, turn, spent, sequence, bearer, expired, asked>>

(* An answer that changes nothing but the guest: an error ends the loop of  *)
(* the harness when it was its own model request.                           *)
Told(model) ==
    /\ Answer
    /\ loop' = [loop EXCEPT !.over = @ \/ (model /\ harness = "loop" /\ ~loop.tool), !.tool = FALSE]
    /\ UNCHANGED <<given, profile, claims, turn, spent, sequence, bearer, expired, asked>>

(* The harness asks at most MaxAsks times and with no call outstanding; any *)
(* other guest asks what validate_chat lets through.                        *)
AskModel(tokens) ==
    /\ stage = "running" /\ tokens \in 1..MaxOutput
    /\ IF harness = "loop"
       THEN /\ tokens = MaxOutput /\ loop.pending = 0 /\ ~loop.over /\ loop.asks < MaxAsks
            /\ loop' = [loop EXCEPT !.asks = @ + 1]
       ELSE UNCHANGED loop
    /\ Serving("model", tokens)

(* post_json: a POST of a tool to the URL of the model is a model request.  *)
ToolAsksModel(tokens) ==
    /\ stage = "running" /\ tokens \in 1..MaxOutput
    /\ harness = "loop" /\ loop.pending > 0
    /\ loop' = [loop EXCEPT !.tool = TRUE]
    /\ Serving("model", tokens)

(* Mutant: GETs spend the allowance of the model. *)
ModelUsedShared == spent.used

(* With a GET grant of its own the model does not pay for GETs. *)
ModelUsed == IF get = "none" THEN spent.used ELSE spent.used - spent.gets

Affordable(tokens) ==
    ModelUsed < MaxRequests /\ spent.tokens + tokens =< total

(* Reserve: once a request may leave the host it is paid for. *)
ChargeModel ==
    /\ stage = "model" /\ Affordable(request)
    /\ route = "scoped" => ~expired
    /\ spent' = [spent EXCEPT !.used = @ + 1, !.tokens = @ + request]
    /\ stage' = "charged"
    /\ loop' = [loop EXCEPT !.diverted = @ \/ loop.tool]
    /\ UNCHANGED <<given, profile, claims, turn, sequence, bearer, expired, request, asked>>

(* Over the budget, cancelled, or for another reason: an endpoint       *)
(* that is not authorized, a body that collides with the pinned parameters  *)
(* or is too large.                                                         *)
RefuseModel == stage = "model" /\ Told(TRUE)

(* Relay: the number is taken before the transport.  A context whose        *)
(* control has a reason gives up its credential.                            *)
InvokeRelay ==
    /\ stage = "charged" /\ route = "scoped"
    /\ sequence' = sequence + 1
    /\ IF expired
       THEN /\ bearer' = FALSE /\ Answer /\ UNCHANGED asked
            /\ loop' = [loop EXCEPT !.over = @ \/ (harness = "loop" /\ ~loop.tool), !.tool = FALSE]
       ELSE /\ bearer /\ stage' = "sent"
            /\ asked' = [asked EXCEPT ![turn] = Append(@, [id |-> sequence', tokens |-> request])]
            /\ UNCHANGED <<bearer, request, loop>>
    /\ UNCHANGED <<given, profile, claims, turn, spent, expired>>

(* Direct: the credential is read and the body staged after the charge, and *)
(* curl starts only under a live control.                                   *)
SendDirect ==
    /\ stage = "charged" /\ route # "scoped" /\ ~expired
    /\ stage' = "sent"
    /\ asked' = [asked EXCEPT ![turn] = Append(@, [id |-> 0, tokens |-> request])]
    /\ UNCHANGED <<given, profile, claims, turn, spent, sequence, bearer, expired, request, loop>>

(* The body is not canonical, the credential is missing, or curl is not     *)
(* started: paid for, and not sent.                                         *)
NotSent == stage = "charged" /\ Told(TRUE)

(* Mutant: the number of a request without an answer is used again. *)
ResponseLostForgets ==
    /\ stage = "sent" /\ Answer
    /\ sequence' = IF route = "scoped" THEN sequence - 1 ELSE sequence
    /\ UNCHANGED <<given, profile, claims, turn, spent, bearer, expired, loop, asked>>

(* Killed at a deadline or cancellation, lost, malformed, too large, an     *)
(* error status, 429: never replayed and never refunded.                    *)
ResponseLost == stage = "sent" /\ Told(TRUE)

(* The provider answers with calls of tools, the whole batch valid and      *)
(* within the budgets, or with the answer of the turn; to a tool it is data. *)
ResponseCalls(n) ==
    /\ stage = "sent" /\ ~expired
    /\ Answer
    /\ IF harness = "loop" /\ ~loop.tool
       THEN /\ n =< MaxCalls - loop.calls /\ (n > 0 => loop.asks < MaxAsks)
            /\ loop' = [loop EXCEPT !.pending = n, !.over = (n = 0)]
       ELSE loop' = [loop EXCEPT !.tool = FALSE]
    /\ UNCHANGED <<given, profile, claims, turn, spent, sequence, bearer, expired, asked>>

(* A tool of the batch returned a valid result. *)
ToolReturns ==
    /\ stage = "running" /\ loop.pending > 0
    /\ loop' = [loop EXCEPT !.pending = @ - 1, !.calls = @ + 1]
    /\ UNCHANGED <<given, profile, claims, turn, stage, spent, sequence, bearer, expired, request, asked>>

-----------------------------------------------------------------------------
(* Web tools. *)

UsesTools == harness = "any" \/ loop.pending > 0

AskGet ==
    /\ stage = "running" /\ UsesTools
    /\ Serving("hop", 0) /\ UNCHANGED loop

GetAllowed ==
    /\ request < MaxHops
    /\ CASE get = "none" -> route = "oneshot" /\ spent.used < MaxRequests
         [] get = "empty" -> FALSE
         [] OTHER -> spent.gets < MaxGets

(* Every hop is authorized and paid for by itself. *)
Hop ==
    /\ stage = "hop" /\ GetAllowed
    /\ spent' = [spent EXCEPT !.used = @ + 1, !.gets = @ + 1]
    /\ stage' = "hopping" /\ request' = request + 1
    /\ UNCHANGED <<given, profile, claims, turn, sequence, bearer, expired, loop, asked>>

Redirected ==
    /\ stage = "hopping" /\ ~expired
    /\ stage' = "hop"
    /\ UNCHANGED <<given, profile, claims, turn, spent, sequence, bearer, expired, request, loop, asked>>

(* The budget, the host or its address refuse the hop; or the body, an      *)
(* error or the end of the process is the answer.                           *)
GetEnds == stage \in {"hop", "hopping"} /\ Told(FALSE)

(* A POST to any URL but the model's. *)
AskPost ==
    /\ stage = "running" /\ UsesTools
    /\ Serving("post", 0) /\ UNCHANGED loop

(* post_plain: a counter of its own.  A policy without a GET grant has no   *)
(* post grant either.                                                       *)
PostPlain ==
    /\ stage = "post" /\ get # "none" /\ spent.posts < MaxPosts
    /\ spent' = [spent EXCEPT !.posts = @ + 1]
    /\ Answer
    /\ UNCHANGED <<given, profile, claims, turn, sequence, bearer, expired, loop, asked>>

RefusePost == stage = "post" /\ Told(FALSE)

-----------------------------------------------------------------------------
(* A cancellation or the deadline of the turn. *)
Expire ==
    /\ turn # NoTurn /\ ~expired /\ expired' = TRUE
    /\ UNCHANGED <<given, profile, claims, turn, stage, spent, sequence, bearer, request, loop, asked>>

(* The operator withdraws the profile: a pinned hash cannot be replaced. *)
WithdrawProfile ==
    /\ route = "fleet" /\ profile /\ profile' = FALSE
    /\ UNCHANGED <<given, claims, turn, stage, spent, sequence, bearer, expired, request, loop, asked>>

BrokerNext ==
    \/ \E t \in TurnIds : ClaimTurn(t)
    \/ Supplied \/ NotSupplied \/ Launch \/ NotLaunched \/ EndTurn
    \/ \E tokens \in 1..MaxOutput : AskModel(tokens) \/ ToolAsksModel(tokens)
    \/ ChargeModel \/ RefuseModel \/ InvokeRelay \/ SendDirect \/ NotSent
    \/ ResponseLost \/ (\E n \in 0..MaxCalls : ResponseCalls(n)) \/ ToolReturns
    \/ AskGet \/ Hop \/ Redirected \/ GetEnds \/ AskPost \/ PostPlain \/ RefusePost
    \/ Expire \/ WithdrawProfile

BrokerSpec == BrokerInit /\ [][BrokerNext]_brokerVars

-----------------------------------------------------------------------------
Tokens(asks) == LET Total[n \in 0..Len(asks)] == IF n = 0 THEN 0 ELSE Total[n - 1] + asks[n].tokens
                IN  Total[Len(asks)]

(* What a turn put on the wire fits its reservation, under its own ids. *)
AskedWithinBudget ==
    \A t \in TurnIds :
        /\ Len(asked[t]) =< MaxRequests /\ Tokens(asked[t]) =< total
        /\ route = "scoped" =>
              \A m, n \in DOMAIN asked[t] : asked[t][m].id = asked[t][n].id => m = n

(* A worker that follows the harness is not refused for the budget, if the  *)
(* grant funds its loop and no tool of its spent from it.                   *)
NeverStarved ==
    stage = "model" /\ harness = "loop" /\ route # "oneshot" /\ Funded
        /\ ~loop.tool /\ ~loop.diverted => Affordable(request)

(* "Failed or interrupted requests are not refunded because they may be     *)
(* billed" and "a lost response is never silently retried": what a turn     *)
(* ever put on the wire, answered or not, fits its reservation, and the     *)
(* gateway sees no request id twice, although the guest may be any program, *)
(* and the claim, the charge, the number and the transport are separate     *)
(* steps that each may fail.  Yet a worker that follows the harness is      *)
(* never refused a model request for the budget while its grant funds the   *)
(* loop: GETs, redirects, posts and failures spend from allowances of their *)
(* own (but for the one-shot Harness, whose GETs share it by design, and    *)
(* for a tool that posts to the URL of the model: see ToolsSpareModel).     *)
BudgetsKept == AskedWithinBudget /\ NeverStarved

(* docs/tenancy-scoped-artifacts.md on the web tools of a scoped worker:    *)
(* "independent GET/POST budgets that never spend or buy model requests".   *)
(* post_json picks the grant by the URL alone, so the POST of a tool to the *)
(* URL of the model, with a body validate_chat takes, is charged as a model *)
(* request.                                                                 *)
ToolsSpareModel == route = "scoped" /\ get # "none" => ~loop.diverted
=================================================================================
