----------------------------- MODULE FleetProofs -----------------------------
(***************************************************************************)
(* Proofs about the fleet: the router's replicas and their ownership       *)
(* ledgers (Router), and the provision of a parent on the node that the    *)
(* router bound it to (ParentProvision).  Each section has the parts of an *)
(* inductive invariant, lemmas on what the steps do, and the theorems that *)
(* follow.                                                                 *)
(***************************************************************************)
EXTENDS Router, ParentProvision, FiniteSetTheorems, TLAPS

-------------------------------------------------------------------------------
(* The router (Router).                                                     *)

(* The routes that bind an id. *)
Binding == {"submit", "provision", "create", "prepare"}

(* The routes that only look their id up. *)
Looking == {"poll", "cancel", "parent", "start", "read", "cleanup"}

(* The owners that the versions of a record which a power loss may leave    *)
(* name.                                                                    *)
Owners(k) == {v.owner : v \in maybe[k]}

(* A handler's request is one of those served, t, and how far it is says    *)
(* which route it is on; what a root retires was confirmed, in done.        *)
Handled(w, t, done) ==
    w.pc # "idle" =>
        /\ w.q \in t /\ PinAllowed(w.q)
        /\ w.pc \in {"claim", "sweep", "choose", "publish", "visible"} =>
              /\ w.q.route \in Binding
              /\ w.inner => w.q.route = "prepare" /\ w.q.lifecycle = "enduring-initial"
        /\ w.pc = "sweep" => Scoped(w.q)
        /\ w.pc \in {"publish", "visible"} => w.b # None
        /\ w.pc = "send" => ~w.inner /\ (w.q.route \in Binding => w.b # None)
        /\ w.pc \in {"retire", "unmark"} =>
              /\ w.q.route = "cleanup"
              /\ w.inner => w.q.lifecycle = "enduring-initial"
              /\ w.q.lifecycle = "enduring-initial" => ParentKey(w.q) \in done
Handling == \A c \in Calls : Handled(call[c], traffic, confirmed)

(* The versions of a record include the one that is seen; what is past the  *)
(* quarantine can no longer be prepared; and a parent's record carries a    *)
(* marker only after its cleanup was confirmed.                             *)
Recorded ==
    /\ \A k \in Keys : entry[k] \in maybe[k]
    /\ \A k \in aged : \A q \in traffic : q.route = "prepare" /\ Key(q) = k => q.id \in expired
    /\ \A k \in Keys : k[1] = "scoped_parents" /\ k \notin confirmed => \A v \in maybe[k] : ~v.mark

(* A handler, w, is at one of the steps P of binding k or posting to its    *)
(* owner.                                                                   *)
On(w, k, P) == w.pc \in P /\ ~w.inner /\ w.q.route \in Binding /\ Key(w.q) = k

(* An id that was never used while its record was not durable reached one   *)
(* node; while it can still make a node act, every version of its record    *)
(* names that node, and so does every handler that is about to post.        *)
Bound ==
    \A q \in traffic : q.route \in Binding /\ Key(q) \notin exposed =>
        /\ \A x, y \in reached[Key(q)] : x = y
        /\ Effectful(q) =>
              /\ \A x \in reached[Key(q)] : Owners(Key(q)) \subseteq {x}
              /\ \A c \in Calls : On(call[c], Key(q), {"send"}) => Owners(Key(q)) \subseteq {call[c].b}
              /\ \A c \in Calls : On(call[c], Key(q), {"visible"}) => entry[Key(q)].owner = call[c].b

(* What a creation and a preparation follow: the provision, the parent.     *)
Leader(q) == IF q.route = "create" THEN <<"provisions", q.id>> ELSE ParentKey(q)
Led(q) ==
    /\ q.route \in {"create", "prepare"} /\ Leader(q) \notin exposed
    /\ q.route = "create" => q.id \notin early
    /\ q.route = "prepare" =>
          q.lifecycle \in {"enduring-initial", "enduring-turn"} /\ Leader(q) \notin confirmed

(* A handler, w, has linked the record of the parent l of its root. *)
Linked(w, l) == w.pc = "visible" /\ w.inner /\ ParentKey(w.q) = l

(* Whatever names a node for an id that follows another, names the one that *)
(* every version of the other's record does.                                *)
Following ==
    \A q \in traffic : Led(q) =>
        /\ \A x \in Owners(Key(q)) : x # None => Owners(Leader(q)) \subseteq {x}
        /\ \A x \in reached[Key(q)] : Owners(Leader(q)) \subseteq {x}
        /\ \A c \in Calls : On(call[c], Key(q), {"publish", "visible", "send"}) =>
              Owners(Leader(q)) \subseteq {call[c].b}
        /\ \A c \in Calls : Linked(call[c], Leader(q)) => entry[Leader(q)].owner = call[c].b

(* One handler at most has published a submission or a creation and not yet *)
(* posted it, none once it was posted, and the record is durable by then.   *)
Once ==
    \A k \in Keys : k[1] \in {"executions", "parents"} =>
        /\ posts[k] \in {0, 1}
        /\ \A c, d \in Calls :
              On(call[c], k, {"visible", "send"}) /\ On(call[d], k, {"visible", "send"}) => c = d
        /\ \A c \in Calls : On(call[c], k, {"visible", "send"}) => posts[k] = 0
        /\ \A c \in Calls : On(call[c], k, {"visible"}) => entry[k].owner # None
        /\ \A c \in Calls : On(call[c], k, {"send"}) => None \notin Owners(k)
        /\ posts[k] # 0 => None \notin Owners(k)

RouterInv == TypeOK /\ Handling /\ Recorded /\ Bound /\ Following /\ Once

-----------------------------------------------------------------------------
(* Requests, keys and handlers.                                             *)

(* The disjuncts of the next-state relation, by what they do. *)
LEMMA RouterCases ==
    ASSUME [Next]_vars
    PROVE  \/ \E c \in Calls, q \in traffic : Bind(c, q) /\ q.route \in Binding
           \/ \E c \in Calls, q \in traffic : Find(c, q) /\ q.route \in Looking
           \/ \E c \in Calls, q \in traffic : Prewarm(c, q)
           \/ \E c \in Calls, q \in traffic : ProbeBegins(c, q)
           \/ \E c \in Calls : Claim(c)
           \/ \E c \in Calls : Sweep(c)
           \/ \E c \in Calls : Choose(c)
           \/ \E c \in Calls : Publish(c)
           \/ \E c \in Calls : Sync(c)
           \/ \E c \in Calls : SyncFails(c)
           \/ \E c \in Calls, v \in BOOLEAN : Forward(c, v)
           \/ \E c \in Calls : Confirmed(c)
           \/ \E c \in Calls : Retire(c)
           \/ \E c \in Calls : Unmark(c)
           \/ \E c \in Calls : ProbeEnds(c)
           \/ \E r \in Routers : Crash(r)
           \/ \E q \in traffic : Expire(q)
           \/ \E k \in Keys : Age(k)
           \/ PowerLoss
           \/ UNCHANGED vars
  <1>1. ASSUME NEW c \in Calls, NEW q \in traffic,
               Submit(c, q) \/ Provision(c, q) \/ Create(c, q) \/ Prepare(c, q)
        PROVE  Bind(c, q) /\ q.route \in Binding
    BY <1>1 DEF Submit, Provision, Create, Prepare, Binding
  <1>2. ASSUME NEW c \in Calls, NEW q \in traffic,
               FindExecution(c, q) \/ FindParent(c, q) \/ FindOperation(c, q)
        PROVE  Find(c, q) /\ q.route \in Looking
    BY <1>2 DEF FindExecution, FindParent, FindOperation, Looking
  <1>3. ASSUME NEW c \in Calls,
               ForwardPost(c) \/ ForwardOwned(c) \/ ForwardParent(c) \/ ForwardScoped(c)
        PROVE  \E v \in BOOLEAN : Forward(c, v)
    BY <1>3 DEF ForwardPost, ForwardOwned, ForwardParent, ForwardScoped
  <1>4. CASE Next
    BY <1>1, <1>2, <1>3, <1>4 DEF Next
  <1>5. QED
    BY <1>4

(* The ledgers of keys. *)
LEMMA KeyShape ==
    ASSUME NEW q
    PROVE  /\ Key(q)[1] = Ledger(q) /\ Key(q)[2] = q.id
           /\ ParentKey(q)[1] = "scoped_parents" /\ ParentKey(q)[2] = q.parent
           /\ Ledger(q) \in Ledgers \ {"scoped_parents"}
           /\ Ledger(q) = "executions" /\ q.route \in Binding => q.route = "submit"
           /\ Ledger(q) = "parents" /\ q.route \in Binding => q.route = "create"
           /\ Ledger(q) = "provisions" /\ q.route \in Binding => q.route = "provision"
           /\ Ledger(q) = "scoped_ops" /\ q.route \in Binding => q.route = "prepare"
           /\ q.route = "submit" => Ledger(q) = "executions"
           /\ q.route = "create" => Ledger(q) = "parents"
           /\ q.route = "provision" => Ledger(q) = "provisions"
           /\ q.route = "prepare" => Ledger(q) = "scoped_ops"
           /\ q.route = "cleanup" => Ledger(q) = "scoped_ops"
           /\ Scoped(q) => Ledger(q) = "scoped_ops"
  BY DEF Key, ParentKey, Ledger, Ledgers, Binding, Scoped

(* A request that is served has keys in the ledgers it is about.             *)
LEMMA BindingKeys ==
    ASSUME TypeOK, NEW q \in traffic
    PROVE  /\ q \in Requests
           /\ q.route \in Binding \cup {"cleanup"} => Key(q) \in Keys
           /\ q.lifecycle \in {"enduring-initial", "enduring-turn"} => ParentKey(q) \in Keys /\ Scoped(q)
           /\ q.route = "create" => <<"provisions", q.id>> \in Keys
           /\ q.route = "prepare" => q.lifecycle \in {"one-shot", "enduring-initial", "enduring-turn"}
  <1>1. traffic \in Traffics
    BY DEF TypeOK
  <1>2. q \in Requests
    BY <1>1, RouterAssumption
  <1>3. q.route \in Binding \cup {"cleanup"} => q.route \notin {"prewarm"} \cup Reports
    BY DEF Binding, Reports
  <1>4. QED
    BY <1>2, <1>3, RequestAssumption DEF Lifecycles

(* Requests that bind the same id are on the same route, and follow the     *)
(* same parent.                                                             *)
LEMMA SameKey ==
    ASSUME TypeOK, NEW q \in traffic, NEW o \in traffic,
           q.route \in Binding, o.route \in Binding, Key(q) = Key(o)
    PROVE  /\ q.route = o.route /\ q.id = o.id
           /\ q.route = "prepare" => /\ ParentKey(q) = ParentKey(o)
                                     /\ q.lifecycle = "one-shot" <=> o.lifecycle = "one-shot"
           /\ Leader(q) = Leader(o) \/ q.route \notin {"create", "prepare"}
  <1>1. Ledger(q) = Ledger(o) /\ q.id = o.id
    BY KeyShape
  <1>2. q.route = o.route
    BY <1>1, KeyShape DEF Binding
  <1>3. traffic \in Traffics
    BY DEF TypeOK
  <1>4. q.route = "prepare" => q.parent = o.parent /\ (q.lifecycle = "one-shot" <=> o.lifecycle = "one-shot")
    BY <1>1, <1>2, <1>3, RequestAssumption
  <1>5. QED
    BY <1>1, <1>2, <1>4 DEF ParentKey, Leader

(* What a request follows is another key, in another ledger. *)
LEMMA LeaderKey ==
    ASSUME TypeOK, NEW q \in traffic, Led(q)
    PROVE  /\ Key(q) \in Keys /\ Leader(q) \in Keys /\ q.route \in Binding
           /\ Leader(q)[1] \in {"provisions", "scoped_parents"} /\ Key(q)[1] \in {"parents", "scoped_ops"}
           /\ Leader(q) # Key(q)
           /\ Leader(q)[1] = "scoped_parents" => Leader(q) \notin confirmed
  <1>1. q.route \in {"create", "prepare"} /\ q.route \in Binding
    BY DEF Led, Binding
  <1>2. CASE q.route = "create"
    <2>1. Leader(q) = <<"provisions", q.id>>
      BY <1>2 DEF Leader
    <2>2. Key(q)[1] = "parents"
      BY <1>2, KeyShape
    <2>3. QED
      BY <1>1, <1>2, <2>1, <2>2, BindingKeys
  <1>3. CASE q.route = "prepare"
    <2>1. Leader(q) = ParentKey(q) /\ q.lifecycle \in {"enduring-initial", "enduring-turn"}
          /\ Leader(q) \notin confirmed
      BY <1>3 DEF Leader, Led
    <2>2. Key(q)[1] = "scoped_ops" /\ ParentKey(q)[1] = "scoped_parents"
      BY <1>3, KeyShape
    <2>3. QED
      BY <1>1, <1>3, <2>1, <2>2, BindingKeys
  <1>4. QED
    BY <1>1, <1>2, <1>3

(* What a handler carries. *)
LEMMA IdleFacts == Idle \in CallType /\ Idle.pc = "idle"
  BY DEF Idle, CallType

(* The fields of a handler at work. *)
LEMMA AtWork ==
    ASSUME NEW w \in CallType, w.pc # "idle"
    PROVE  /\ w \in [pc : Steps \cup {"probe"}, q : Requests, b : Backends \cup {None},
                     inner : BOOLEAN, again : BOOLEAN]
           /\ w.q \in Requests /\ w.b \in Backends \cup {None} /\ w.inner \in BOOLEAN
  BY DEF CallType, Idle

(* A handler that goes on keeps its request, its node and its depth.         *)
LEMMA GoesOn ==
    ASSUME NEW w \in CallType, w.pc # "idle", NEW p \in Steps \cup {"probe"}
    PROVE  /\ LET y == [w EXCEPT !.pc = p] IN
              y \in CallType /\ y.pc = p /\ y.q = w.q /\ y.b = w.b /\ y.inner = w.inner /\ y.pc # "idle"
           /\ LET y == [w EXCEPT !.pc = p, !.again = TRUE] IN
              y \in CallType /\ y.pc = p /\ y.q = w.q /\ y.b = w.b /\ y.inner = w.inner /\ y.pc # "idle"
  <1>1. w \in [pc : Steps \cup {"probe"}, q : Requests, b : Backends \cup {None},
               inner : BOOLEAN, again : BOOLEAN]
    BY AtWork
  <1>2. p # "idle"
    BY DEF Steps
  <1>3. QED
    BY <1>1, <1>2 DEF CallType

(* The key a handler works on. *)
LEMMA WorkingKey ==
    ASSUME RouterInv, NEW c \in Calls,
           call[c].pc \in {"claim", "sweep", "choose", "publish", "visible", "retire", "unmark"}
    PROVE  /\ call[c] \in CallType /\ call[c].pc # "idle" /\ call[c].q \in traffic
           /\ Handled(call[c], traffic, confirmed)
           /\ Working(c) \in Keys /\ Working(c)[1] \in Ledgers
           /\ call[c].inner => Working(c) = ParentKey(call[c].q) /\ Working(c)[1] = "scoped_parents"
           /\ ~call[c].inner => Working(c) = Key(call[c].q) /\ Working(c)[1] # "scoped_parents"
  <1>1. call[c] \in CallType /\ call[c].pc # "idle" /\ TypeOK
    BY DEF RouterInv, TypeOK
  <1>2. Handled(call[c], traffic, confirmed)
    BY DEF RouterInv, Handling
  <1>3. call[c].q \in traffic
    BY <1>1, <1>2 DEF Handled
  <1>4. CASE call[c].inner
    <2>1. call[c].q.lifecycle = "enduring-initial"
      BY <1>2, <1>4 DEF Handled
    <2>2. Working(c) = ParentKey(call[c].q)
      BY <1>4 DEF Working
    <2>3. ParentKey(call[c].q) \in Keys
      BY <1>1, <1>3, <2>1, BindingKeys
    <2>4. QED
      BY <1>1, <1>2, <1>3, <1>4, <2>2, <2>3, KeyShape DEF Ledgers
  <1>5. CASE ~call[c].inner
    <2>1. call[c].q.route \in Binding \cup {"cleanup"}
      BY <1>1, <1>2 DEF Handled
    <2>2. Working(c) = Key(call[c].q)
      BY <1>5 DEF Working
    <2>3. Key(call[c].q) \in Keys
      BY <1>1, <1>3, <2>1, BindingKeys
    <2>4. QED
      BY <1>1, <1>2, <1>3, <1>5, <2>2, <2>3, KeyShape
  <1>6. QED
    BY <1>4, <1>5

(* The views are sets of backends. *)
LEMMA ViewsBackends == UNION Views \subseteq Backends
  BY RouterAssumption DEF Views

(* The capped counter of POSTs. *)
LEMMA Smallest ==
    Min({1, 2}) = 1 /\ Min({2, 2}) = 2 /\ Min({3, 2}) = 2
  <1>1. ASSUME NEW x \in Int, NEW y \in Int, x <= y
        PROVE  Min({x, y}) = x /\ Min({y, x}) = x
    <2>1. \A z \in {x, y} : (\A u \in {x, y} : z <= u) <=> z = x
      BY <1>1
    <2>2. Min({x, y}) = x
      BY <2>1 DEF Min
    <2>3. {x, y} = {y, x}
      OBVIOUS
    <2>4. QED
      BY <2>2, <2>3
  <1>2. QED
    BY <1>1

(* What only grows. *)
LEMMA Grows ==
    ASSUME [Next]_vars
    PROVE  /\ traffic' = traffic /\ home' = home
           /\ exposed \subseteq exposed' /\ confirmed \subseteq confirmed'
           /\ early \subseteq early' /\ expired \subseteq expired'
  <1>1. ASSUME NEW c \in Calls, NEW q \in traffic, Bind(c, q) /\ q.route \in Binding
        PROVE  /\ traffic' = traffic /\ home' = home
               /\ exposed \subseteq exposed' /\ confirmed \subseteq confirmed'
               /\ early \subseteq early' /\ expired \subseteq expired'
    BY <1>1 DEF Bind, history
  <1>2. ASSUME NEW c \in Calls, NEW q \in traffic, Find(c, q) /\ q.route \in Looking
        PROVE  /\ traffic' = traffic /\ home' = home
               /\ exposed \subseteq exposed' /\ confirmed \subseteq confirmed'
               /\ early \subseteq early' /\ expired \subseteq expired'
    BY <1>2 DEF Find, history
  <1>3. ASSUME NEW c \in Calls, NEW q \in traffic, Prewarm(c, q)
        PROVE  /\ traffic' = traffic /\ home' = home
               /\ exposed \subseteq exposed' /\ confirmed \subseteq confirmed'
               /\ early \subseteq early' /\ expired \subseteq expired'
    BY <1>3 DEF Prewarm, history
  <1>4. ASSUME NEW c \in Calls, NEW q \in traffic, ProbeBegins(c, q)
        PROVE  /\ traffic' = traffic /\ home' = home
               /\ exposed \subseteq exposed' /\ confirmed \subseteq confirmed'
               /\ early \subseteq early' /\ expired \subseteq expired'
    BY <1>4 DEF ProbeBegins, history
  <1>5. ASSUME NEW c \in Calls, Claim(c)
        PROVE  /\ traffic' = traffic /\ home' = home
               /\ exposed \subseteq exposed' /\ confirmed \subseteq confirmed'
               /\ early \subseteq early' /\ expired \subseteq expired'
    BY <1>5 DEF Claim, history
  <1>6. ASSUME NEW c \in Calls, Sweep(c)
        PROVE  /\ traffic' = traffic /\ home' = home
               /\ exposed \subseteq exposed' /\ confirmed \subseteq confirmed'
               /\ early \subseteq early' /\ expired \subseteq expired'
    BY <1>6 DEF Sweep, history
  <1>7. ASSUME NEW c \in Calls, Choose(c)
        PROVE  /\ traffic' = traffic /\ home' = home
               /\ exposed \subseteq exposed' /\ confirmed \subseteq confirmed'
               /\ early \subseteq early' /\ expired \subseteq expired'
    BY <1>7 DEF Choose, history
  <1>8. ASSUME NEW c \in Calls, Publish(c)
        PROVE  /\ traffic' = traffic /\ home' = home
               /\ exposed \subseteq exposed' /\ confirmed \subseteq confirmed'
               /\ early \subseteq early' /\ expired \subseteq expired'
    BY <1>8 DEF Publish, history
  <1>9. ASSUME NEW c \in Calls, Sync(c)
        PROVE  /\ traffic' = traffic /\ home' = home
               /\ exposed \subseteq exposed' /\ confirmed \subseteq confirmed'
               /\ early \subseteq early' /\ expired \subseteq expired'
    BY <1>9 DEF Sync, history
  <1>10. ASSUME NEW c \in Calls, SyncFails(c)
        PROVE  /\ traffic' = traffic /\ home' = home
               /\ exposed \subseteq exposed' /\ confirmed \subseteq confirmed'
               /\ early \subseteq early' /\ expired \subseteq expired'
    BY <1>10 DEF SyncFails, history
  <1>11. ASSUME NEW c \in Calls, NEW v \in BOOLEAN, Forward(c, v)
        PROVE  /\ traffic' = traffic /\ home' = home
               /\ exposed \subseteq exposed' /\ confirmed \subseteq confirmed'
               /\ early \subseteq early' /\ expired \subseteq expired'
    BY <1>11 DEF Forward, history
  <1>12. ASSUME NEW c \in Calls, Confirmed(c)
        PROVE  /\ traffic' = traffic /\ home' = home
               /\ exposed \subseteq exposed' /\ confirmed \subseteq confirmed'
               /\ early \subseteq early' /\ expired \subseteq expired'
    BY <1>12 DEF Confirmed, history
  <1>13. ASSUME NEW c \in Calls, Retire(c)
        PROVE  /\ traffic' = traffic /\ home' = home
               /\ exposed \subseteq exposed' /\ confirmed \subseteq confirmed'
               /\ early \subseteq early' /\ expired \subseteq expired'
    BY <1>13 DEF Retire, history
  <1>14. ASSUME NEW c \in Calls, Unmark(c)
        PROVE  /\ traffic' = traffic /\ home' = home
               /\ exposed \subseteq exposed' /\ confirmed \subseteq confirmed'
               /\ early \subseteq early' /\ expired \subseteq expired'
    BY <1>14 DEF Unmark, history
  <1>15. ASSUME NEW c \in Calls, ProbeEnds(c)
        PROVE  /\ traffic' = traffic /\ home' = home
               /\ exposed \subseteq exposed' /\ confirmed \subseteq confirmed'
               /\ early \subseteq early' /\ expired \subseteq expired'
    BY <1>15 DEF ProbeEnds, history
  <1>16. ASSUME NEW r \in Routers, Crash(r)
        PROVE  /\ traffic' = traffic /\ home' = home
               /\ exposed \subseteq exposed' /\ confirmed \subseteq confirmed'
               /\ early \subseteq early' /\ expired \subseteq expired'
    BY <1>16 DEF Crash, history
  <1>17. ASSUME NEW q \in traffic, Expire(q)
        PROVE  /\ traffic' = traffic /\ home' = home
               /\ exposed \subseteq exposed' /\ confirmed \subseteq confirmed'
               /\ early \subseteq early' /\ expired \subseteq expired'
    BY <1>17 DEF Expire, history
  <1>18. ASSUME NEW k \in Keys, Age(k)
        PROVE  /\ traffic' = traffic /\ home' = home
               /\ exposed \subseteq exposed' /\ confirmed \subseteq confirmed'
               /\ early \subseteq early' /\ expired \subseteq expired'
    BY <1>18 DEF Age, history
  <1>19. CASE PowerLoss
    BY <1>19 DEF PowerLoss, history
  <1>20. CASE UNCHANGED vars
    BY <1>20 DEF vars, history
  <1>21. QED
    BY RouterCases, <1>1, <1>2, <1>3, <1>4, <1>5, <1>6, <1>7, <1>8, <1>9, <1>10,
       <1>11, <1>12, <1>13, <1>14, <1>15, <1>16, <1>17, <1>18, <1>19, <1>20

-----------------------------------------------------------------------------
(* How the handlers go on.                                                  *)

(* A handler that names no node for an id it binds. *)
Silent(w) == w.pc \notin {"publish", "visible", "send"} \/ (w.pc = "send" /\ w.q.route \notin Binding)

(* A handler that ended names no node. *)
LEMMA SilentIdle == Silent(Idle) /\ \A t, done : Handled(Idle, t, done)
  BY IdleFacts DEF Silent, Handled

(* One handler goes on and the others stay. *)
LEMMA Moved ==
    ASSUME TypeOK, NEW c \in Calls, NEW w, call' = [call EXCEPT ![c] = w]
    PROVE  call'[c] = w /\ \A d \in Calls : d # c => call'[d] = call[d]
  BY DEF TypeOK

(* A handler that goes on to a sound state leaves all of them sound.         *)
LEMMA OneMoves ==
    ASSUME RouterInv, [Next]_vars, NEW c \in Calls, NEW w \in CallType,
           Handled(w, traffic, confirmed'), call' = [call EXCEPT ![c] = w]
    PROVE  call' \in [Calls -> CallType] /\ Handling'
  <1>1. TypeOK /\ call \in [Calls -> CallType] /\ \A d \in Calls : Handled(call[d], traffic, confirmed)
    BY DEF RouterInv, TypeOK, Handling
  <1>2. traffic' = traffic /\ confirmed \subseteq confirmed'
    BY Grows
  <1>3. \A d \in Calls : Handled(call[d], traffic, confirmed')
    BY <1>1, <1>2 DEF Handled
  <1>4. call'[c] = w /\ \A d \in Calls : d # c => call'[d] = call[d]
    BY <1>1, Moved
  <1>5. \A d \in Calls : Handled(call'[d], traffic, confirmed')
    BY <1>3, <1>4
  <1>6. QED
    BY <1>1, <1>2, <1>5 DEF Handling

(* A handler that answers and one that goes on without naming a node. *)
LEMMA AnswersMoves ==
    ASSUME NEW c \in Calls, Answers(c)
    PROVE  \E w \in CallType : /\ call' = [call EXCEPT ![c] = w]
                               /\ Silent(w) /\ Handled(w, traffic, confirmed')
  BY IdleFacts, SilentIdle DEF Answers

(* A request's handler begins. *)
LEMMA BindMoves ==
    ASSUME RouterInv, NEW c \in Calls, NEW q \in traffic, Bind(c, q), q.route \in Binding
    PROVE  \E w \in CallType : /\ call' = [call EXCEPT ![c] = w]
                               /\ Silent(w) /\ Handled(w, traffic, confirmed')
  <1> DEFINE w == Work(q, "claim", None, FALSE, FALSE)
  <1>1. q \in Requests
    BY BindingKeys DEF RouterInv
  <1>2. w \in CallType /\ w.pc = "claim" /\ w.q = q /\ w.inner = FALSE /\ w.b = None
    BY <1>1 DEF Steps, Work, CallType
  <1>3. call' = [call EXCEPT ![c] = w] /\ PinAllowed(q)
    BY DEF Bind, Admitted
  <1> HIDE DEF w
  <1>4. Silent(w) /\ Handled(w, traffic, confirmed')
    BY <1>2, <1>3 DEF Silent, Handled
  <1>5. QED
    BY <1>2, <1>3, <1>4

(* A route that only looks its owner up goes on to post. *)
LEMMA FindMoves ==
    ASSUME RouterInv, NEW c \in Calls, NEW q \in traffic, Find(c, q), q.route \in Looking
    PROVE  \E w \in CallType : /\ call' = [call EXCEPT ![c] = w]
                               /\ Silent(w) /\ Handled(w, traffic, confirmed')
  <1> DEFINE b == entry[Key(q)].owner
             w == Work(q, "send", b, FALSE, FALSE)
  <1>1. q \in Requests
    BY BindingKeys DEF RouterInv
  <1>2. b \in Backends \cup {None}
    <2>1. q.route \notin {"prewarm"} \cup Reports
      BY DEF Looking, Reports
    <2>2. QED
      BY <1>1, <2>1, RequestAssumption DEF RouterInv, TypeOK, Entry
  <1>3. w \in CallType /\ w.pc = "send" /\ w.q = q /\ w.inner = FALSE
    BY <1>1, <1>2 DEF Steps, Work, CallType
  <1>4. call' = [call EXCEPT ![c] = w] /\ PinAllowed(q)
    BY DEF Find, Admitted
  <1> HIDE DEF w
  <1>5. Silent(w) /\ Handled(w, traffic, confirmed')
    BY <1>3, <1>4 DEF Silent, Handled, Looking, Binding
  <1>6. QED
    BY <1>3, <1>4, <1>5

(* A prewarm goes on to its pin, which is a backend. *)
LEMMA PrewarmMoves ==
    ASSUME RouterInv, NEW c \in Calls, NEW q \in traffic, Prewarm(c, q)
    PROVE  \E w \in CallType : /\ call' = [call EXCEPT ![c] = w]
                               /\ Silent(w) /\ Handled(w, traffic, confirmed')
  <1> DEFINE w == Work(q, "send", q.pin, FALSE, FALSE)
  <1>1. q \in Requests
    BY BindingKeys DEF RouterInv
  <1>2. call' = [call EXCEPT ![c] = w] /\ PinAllowed(q) /\ q.route = "prewarm"
    BY DEF Prewarm, Admitted
  <1>3. q.pin \in Backends
    BY <1>2, ViewsBackends DEF PinAllowed
  <1>4. w \in CallType /\ w.pc = "send" /\ w.q = q /\ w.inner = FALSE
    BY <1>1, <1>3 DEF Steps, Work, CallType
  <1> HIDE DEF w
  <1>5. Silent(w) /\ Handled(w, traffic, confirmed')
    BY <1>2, <1>4 DEF Silent, Handled, Binding
  <1>6. QED
    BY <1>2, <1>4, <1>5

(* A report begins to probe. *)
LEMMA ProbeMoves ==
    ASSUME RouterInv, NEW c \in Calls, NEW q \in traffic, ProbeBegins(c, q)
    PROVE  \E w \in CallType : /\ call' = [call EXCEPT ![c] = w]
                               /\ Silent(w) /\ Handled(w, traffic, confirmed')
  <1> DEFINE w == Work(q, "probe", None, FALSE, FALSE)
  <1>1. q \in Requests
    BY BindingKeys DEF RouterInv
  <1>2. call' = [call EXCEPT ![c] = w] /\ PinAllowed(q)
    BY DEF ProbeBegins, Admitted
  <1>3. w \in CallType /\ w.pc = "probe" /\ w.q = q
    BY <1>1 DEF Steps, Work, CallType
  <1> HIDE DEF w
  <1>4. Silent(w) /\ Handled(w, traffic, confirmed')
    BY <1>2, <1>3 DEF Silent, Handled
  <1>5. QED
    BY <1>2, <1>3, <1>4

(* A claim goes on to choose or to sweep, or to use the owner it found,     *)
(* whose record was durable or counts as exposed.                           *)
LEMMA ClaimMoves ==
    ASSUME RouterInv, NEW c \in Calls, Claim(c)
    PROVE  \E w \in CallType :
              /\ call' = [call EXCEPT ![c] = w] /\ Handled(w, traffic, confirmed')
              /\ \/ Silent(w)
                 \/ /\ w.q = call[c].q /\ w.inner = FALSE /\ w.b = entry[Working(c)].owner /\ w.b # None
                    /\ Durable(Working(c)) \/ Working(c) \in exposed'
                    /\ call[c].inner => w.pc = "publish"
                    /\ ~call[c].inner => w.pc = "send" /\ w.q.route \in {"provision", "prepare"}
  <1> DEFINE k == Working(c)
             q == call[c].q
  <1>1. call[c].pc = "claim" /\ confirmed' = confirmed
    BY DEF Claim, At
  <1>2. call[c] \in CallType /\ Handled(call[c], traffic, confirmed) /\ k \in Keys /\ q \in traffic
    BY <1>1, WorkingKey
  <1>3. q \in Requests /\ PinAllowed(q) /\ q.route \in Binding
        /\ (call[c].inner => q.route = "prepare" /\ q.lifecycle = "enduring-initial")
    BY <1>1, <1>2, AtWork DEF Handled
  <1>4. CASE Answers(c)
    BY <1>4, AnswersMoves
  <1>5. CASE lock[k[1]] = None /\ Has(k) /\ entry[k].body = Body(c) /\ ~Answers(c)
    <2>1. Owned(c, entry[k].owner) /\ (Durable(k) \/ k \in exposed')
      BY <1>5 DEF Claim
    <2>2. entry[k].owner \in Backends /\ entry[k].owner # None
      BY <1>2, <1>5, RouterAssumption DEF Has, RouterInv, TypeOK, Entry
    <2>3. CASE call[c].inner
      <3> DEFINE w == Work(q, "publish", entry[k].owner, FALSE, FALSE)
      <3>1. w \in CallType /\ w.pc = "publish" /\ w.q = q /\ w.inner = FALSE /\ w.b = entry[k].owner
        BY <1>3, <2>2 DEF Steps, Work, CallType
      <3>2. call' = [call EXCEPT ![c] = w]
        BY <2>1, <2>3 DEF Owned
      <3> HIDE DEF w
      <3>3. Handled(w, traffic, confirmed')
        BY <1>2, <1>3, <2>2, <3>1 DEF Handled
      <3>4. QED
        BY <2>1, <2>2, <2>3, <3>1, <3>2, <3>3
    <2>4. CASE ~call[c].inner
      <3> DEFINE w == Work(q, "send", entry[k].owner, FALSE, FALSE)
      <3>1. w \in CallType /\ w.pc = "send" /\ w.q = q /\ w.inner = FALSE /\ w.b = entry[k].owner
        BY <1>3, <2>2 DEF Steps, Work, CallType
      <3>2. call' = [call EXCEPT ![c] = w] /\ q.route \in {"provision", "prepare"}
        BY <1>5, <2>1, <2>4 DEF Owned
      <3> HIDE DEF w
      <3>3. Handled(w, traffic, confirmed')
        BY <1>2, <1>3, <2>2, <3>1 DEF Handled
      <3>4. QED
        BY <2>1, <2>2, <2>4, <3>1, <3>2, <3>3
    <2>5. QED
      BY <2>3, <2>4
  <1>6. CASE ~Answers(c) /\ ~(lock[k[1]] = None /\ Has(k) /\ entry[k].body = Body(c))
    <2>1. \/ call' = [call EXCEPT ![c] = [call[c] EXCEPT !.pc = "choose"]]
          \/ call' = [call EXCEPT ![c] = [call[c] EXCEPT !.pc = "sweep"]] /\ Scoped(q)
      BY <1>6 DEF Claim, Becomes
    <2>2. ASSUME NEW p \in {"choose", "sweep"}, p = "sweep" => Scoped(q)
          PROVE  LET w == [call[c] EXCEPT !.pc = p] IN
                 w \in CallType /\ Silent(w) /\ Handled(w, traffic, confirmed')
      <3> DEFINE w == [call[c] EXCEPT !.pc = p]
      <3>1. w \in CallType /\ w.pc = p /\ w.q = q /\ w.inner = call[c].inner
        BY <1>1, <1>2, GoesOn DEF Steps
      <3> HIDE DEF w
      <3>2. Silent(w) /\ Handled(w, traffic, confirmed')
        BY <1>2, <1>3, <2>2, <3>1 DEF Silent, Handled
      <3>3. QED
        BY <3>1, <3>2 DEF w
    <2>3. QED
      BY <2>1, <2>2
  <1>7. QED
    BY <1>4, <1>5, <1>6

(* A sweep goes back to its claim. *)
LEMMA SweepMoves ==
    ASSUME RouterInv, NEW c \in Calls, Sweep(c)
    PROVE  \E w \in CallType : /\ call' = [call EXCEPT ![c] = w]
                               /\ Silent(w) /\ Handled(w, traffic, confirmed')
  <1>1. call[c].pc = "sweep" /\ confirmed' = confirmed
    BY DEF Sweep, At, history
  <1>2. call[c] \in CallType /\ Handled(call[c], traffic, confirmed) /\ call[c].q \in traffic
    BY <1>1, WorkingKey
  <1>3. CASE Answers(c)
    BY <1>3, AnswersMoves
  <1>4. CASE ~Answers(c)
    <2> DEFINE w == [call[c] EXCEPT !.pc = "claim", !.again = TRUE]
    <2>1. call' = [call EXCEPT ![c] = w]
      BY <1>4 DEF Sweep
    <2>2. w \in CallType /\ w.pc = "claim" /\ w.q = call[c].q /\ w.inner = call[c].inner
      BY <1>1, <1>2, GoesOn DEF Steps
    <2> HIDE DEF w
    <2>3. Silent(w) /\ Handled(w, traffic, confirmed')
      BY <1>1, <1>2, <2>2 DEF Silent, Handled
    <2>4. QED
      BY <2>1, <2>2, <2>3
  <1>5. QED
    BY <1>3, <1>4

(* A choice that names a node: a creation's is its provision's owner, a     *)
(* turn's its parent's, durable or exposed; a creation without a provision  *)
(* is early.                                                                *)
LEMMA ChooseMoves ==
    ASSUME RouterInv, NEW c \in Calls, Choose(c)
    PROVE  \E w \in CallType :
              /\ call' = [call EXCEPT ![c] = w] /\ Handled(w, traffic, confirmed')
              /\ \/ Silent(w)
                 \/ /\ w.pc = "publish" /\ w.q = call[c].q /\ w.inner = call[c].inner
                    /\ w.q.lifecycle = "enduring-initial" => w.inner
                    /\ w.q.route = "create" =>
                          \/ w.q.id \in early'
                          \/ /\ w.b = entry[<<"provisions", w.q.id>>].owner
                             /\ Durable(<<"provisions", w.q.id>>) \/ <<"provisions", w.q.id>> \in exposed'
                    /\ w.q.route = "prepare" /\ w.q.lifecycle = "enduring-turn" =>
                          /\ w.b = entry[ParentKey(w.q)].owner
                          /\ Durable(ParentKey(w.q)) \/ ParentKey(w.q) \in exposed'
  <1> DEFINE q == call[c].q
  <1>1. call[c].pc = "choose" /\ confirmed' = confirmed
    BY DEF Choose, At
  <1>2. call[c] \in CallType /\ Handled(call[c], traffic, confirmed) /\ q \in traffic
    BY <1>1, WorkingKey
  <1>3. q \in Requests /\ PinAllowed(q) /\ q.route \in Binding /\ TypeOK
        /\ (call[c].inner => q.route = "prepare" /\ q.lifecycle = "enduring-initial")
    BY <1>1, <1>2, AtWork DEF Handled, RouterInv
  <1>4. CASE q.lifecycle = "enduring-initial" /\ ~call[c].inner
    <2> DEFINE w == Work(q, "claim", None, TRUE, FALSE)
    <2>1. call' = [call EXCEPT ![c] = w]
      BY <1>4 DEF Choose
    <2>2. w \in CallType /\ w.pc = "claim" /\ w.q = q /\ w.inner = TRUE
      BY <1>3 DEF Steps, Work, CallType
    <2>3. q.route = "prepare"
      BY <1>2, <1>3, <1>4, BindingKeys DEF Scoped, Binding
    <2> HIDE DEF w
    <2>4. Silent(w) /\ Handled(w, traffic, confirmed')
      BY <1>2, <1>3, <1>4, <2>2, <2>3 DEF Silent, Handled
    <2>5. QED
      BY <2>1, <2>2, <2>4
  <1>5. CASE ~(q.lifecycle = "enduring-initial" /\ ~call[c].inner)
    <2>1. CASE Answers(c)
      BY <2>1, AnswersMoves
    <2>2. CASE ~Answers(c)
      <3>1. PICK pick \in Pick(q) :
                /\ Choice(c, pick) # None
                /\ call' = [call EXCEPT ![c] = [call[c] EXCEPT !.pc = "publish", !.b = Choice(c, pick)]]
                /\ early' = IF q.route = "create" /\ ~Has(<<"provisions", q.id>>)
                            THEN early \cup {q.id} ELSE early
                /\ exposed' = exposed \cup {k \in ReadFrom(q) : ~Durable(k)}
        BY <1>5, <2>2 DEF Choose
      <3> DEFINE b == Choice(c, pick)
                 w == [call[c] EXCEPT !.pc = "publish", !.b = b]
                 prov == <<"provisions", q.id>>
      <3>2. pick \in Backends \cup {None}
        <4>1. q.pin # None => q.pin \in UNION Views
          BY <1>3 DEF PinAllowed
        <4>2. pick \in UNION Views \/ pick = None
          BY <4>1 DEF Pick, PickBackend, PickOwner
        <4>3. QED
          BY <4>2, ViewsBackends
      <3>3. \/ q.route = "create" /\ Has(prov) /\ b = entry[prov].owner
            \/ q.route = "prepare" /\ q.lifecycle = "enduring-turn" /\ b = entry[ParentKey(q)].owner
            \/ /\ b = pick /\ ~(q.route = "create" /\ Has(prov))
               /\ ~(q.route = "prepare" /\ q.lifecycle = "enduring-turn")
        BY DEF Choice
      <3>4. b \in Backends \cup {None}
        BY <1>2, <1>3, <3>2, <3>3, BindingKeys DEF TypeOK, Entry
      <3>5. b \in Backends /\ b # None
        BY <3>1, <3>4
      <3> HIDE DEF b
      <3>6. w \in CallType /\ w.pc = "publish" /\ w.q = q /\ w.inner = call[c].inner /\ w.b = b
        <4>1. call[c] \in [pc : Steps \cup {"probe"}, q : Requests, b : Backends \cup {None},
                           inner : BOOLEAN, again : BOOLEAN]
          BY <1>1, <1>2, AtWork
        <4>2. QED
          BY <3>5, <4>1 DEF CallType, Steps
      <3>7. call' = [call EXCEPT ![c] = w]
        BY <3>1 DEF b
      <3> HIDE DEF w
      <3>8. Handled(w, traffic, confirmed')
        BY <1>1, <1>2, <3>5, <3>6 DEF Handled
      <3>9. ASSUME q.route = "create"
            PROVE  \/ q.id \in early'
                   \/ b = entry[prov].owner /\ (Durable(prov) \/ prov \in exposed')
        <4>1. CASE Has(prov)
          <5>1. ReadFrom(q) = {prov}
            BY <3>9, <4>1 DEF ReadFrom
          <5>2. QED
            BY <3>1, <3>3, <3>9, <4>1, <5>1
        <4>2. CASE ~Has(prov)
          BY <3>1, <3>9, <4>2
        <4>3. QED
          BY <4>1, <4>2
      <3>10. ASSUME q.route = "prepare", q.lifecycle = "enduring-turn"
             PROVE  b = entry[ParentKey(q)].owner /\ (Durable(ParentKey(q)) \/ ParentKey(q) \in exposed')
        <4>1. ReadFrom(q) = {ParentKey(q)}
          BY <3>10 DEF ReadFrom
        <4>2. b = entry[ParentKey(q)].owner
          BY <3>3, <3>10
        <4>3. Durable(ParentKey(q)) \/ ParentKey(q) \in exposed'
          BY <3>1, <4>1
        <4>4. QED
          BY <4>2, <4>3
      <3>11. QED
        BY <1>5, <3>6, <3>7, <3>8, <3>9, <3>10
    <2>3. QED
      BY <2>1, <2>2
  <1>6. QED
    BY <1>4, <1>5

(* A publication that finds the name taken is refused; one that links it    *)
(* is visible.                                                              *)
LEMMA PublishMoves ==
    ASSUME RouterInv, NEW c \in Calls, Publish(c)
    PROVE  \E w \in CallType :
              /\ call' = [call EXCEPT ![c] = w] /\ Handled(w, traffic, confirmed')
              /\ \/ Silent(w) /\ UNCHANGED <<entry, maybe, aged>>
                 \/ /\ w.pc = "visible" /\ w.q = call[c].q /\ w.inner = call[c].inner /\ w.b = call[c].b
                    /\ ~Has(Working(c))
                    /\ entry' = [entry EXCEPT ![Working(c)] =
                                   [owner |-> call[c].b, body |-> Body(c), mark |-> entry[Working(c)].mark]]
                    /\ Unsynced /\ aged' = aged \ {Working(c)}
  <1>1. call[c].pc = "publish" /\ confirmed' = confirmed
    BY DEF Publish, At, history
  <1>2. call[c] \in CallType /\ Handled(call[c], traffic, confirmed) /\ call[c].q \in traffic
    BY <1>1, WorkingKey
  <1>3. CASE Has(Working(c))
    <2>1. Answers(c) /\ UNCHANGED <<entry, maybe, aged>>
      BY <1>3 DEF Publish
    <2>2. QED
      BY <2>1, AnswersMoves
  <1>4. CASE ~Has(Working(c))
    <2> DEFINE w == [call[c] EXCEPT !.pc = "visible"]
    <2>1. call' = [call EXCEPT ![c] = w]
      BY <1>4 DEF Publish, Becomes
    <2>2. w \in CallType /\ w.pc = "visible" /\ w.q = call[c].q /\ w.inner = call[c].inner /\ w.b = call[c].b
      BY <1>1, <1>2, GoesOn DEF Steps
    <2> HIDE DEF w
    <2>3. Handled(w, traffic, confirmed')
      BY <1>1, <1>2, <2>2 DEF Handled
    <2>4. QED
      BY <1>4, <2>1, <2>2, <2>3 DEF Publish
  <1>5. QED
    BY <1>3, <1>4

(* A synced claim posts, or returns to the claim of its root. *)
LEMMA SyncMoves ==
    ASSUME RouterInv, NEW c \in Calls, Sync(c)
    PROVE  \E w \in CallType :
              /\ call' = [call EXCEPT ![c] = w] /\ Handled(w, traffic, confirmed')
              /\ w.q = call[c].q /\ w.inner = FALSE /\ w.b = call[c].b
              /\ w.pc = IF call[c].inner THEN "publish" ELSE "send"
  <1>1. call[c].pc = "visible" /\ confirmed' = confirmed
    BY DEF Sync, At, history
  <1>2. call[c] \in CallType /\ Handled(call[c], traffic, confirmed) /\ call[c].q \in traffic
    BY <1>1, WorkingKey
  <1>3. call[c].q \in Requests /\ call[c].b \in Backends \cup {None} /\ call[c].inner \in BOOLEAN
    BY <1>1, <1>2, AtWork
  <1>4. CASE call[c].inner
    <2> DEFINE w == Work(call[c].q, "publish", call[c].b, FALSE, FALSE)
    <2>1. call' = [call EXCEPT ![c] = w]
      BY <1>4 DEF Sync
    <2>2. w \in CallType /\ w.pc = "publish" /\ w.q = call[c].q /\ w.inner = FALSE /\ w.b = call[c].b
      BY <1>3 DEF Steps, Work, CallType
    <2> HIDE DEF w
    <2>3. Handled(w, traffic, confirmed')
      BY <1>1, <1>2, <2>2 DEF Handled
    <2>4. QED
      BY <1>4, <2>1, <2>2, <2>3
  <1>5. CASE ~call[c].inner
    <2> DEFINE w == [call[c] EXCEPT !.pc = "send"]
    <2>1. call' = [call EXCEPT ![c] = w]
      BY <1>5 DEF Sync, Becomes
    <2>2. w \in CallType /\ w.pc = "send" /\ w.q = call[c].q /\ w.inner = FALSE /\ w.b = call[c].b
      BY <1>1, <1>2, <1>3, <1>5, GoesOn DEF Steps
    <2> HIDE DEF w
    <2>3. Handled(w, traffic, confirmed')
      BY <1>1, <1>2, <2>2 DEF Handled
    <2>4. QED
      BY <1>5, <2>1, <2>2, <2>3
  <1>6. QED
    BY <1>4, <1>5

(* A confirmed cleanup goes on to retire. *)
LEMMA ConfirmedMoves ==
    ASSUME RouterInv, NEW c \in Calls, Confirmed(c)
    PROVE  \E w \in CallType : /\ call' = [call EXCEPT ![c] = w]
                               /\ Silent(w) /\ Handled(w, traffic, confirmed')
  <1> DEFINE w == [call[c] EXCEPT !.pc = "retire"]
  <1>1. call[c].pc = "send" /\ call[c].q.route = "cleanup" /\ call' = [call EXCEPT ![c] = w]
    BY DEF Confirmed, At, Becomes
  <1>2. call[c] \in CallType /\ Handled(call[c], traffic, confirmed)
    BY DEF RouterInv, TypeOK, Handling
  <1>3. w \in CallType /\ w.pc = "retire" /\ w.q = call[c].q /\ w.inner = call[c].inner
    BY <1>1, <1>2, GoesOn DEF Steps
  <1>4. call[c].q.lifecycle = "enduring-initial" => ParentKey(call[c].q) \in confirmed'
    BY DEF Confirmed
  <1> HIDE DEF w
  <1>5. Silent(w) /\ Handled(w, traffic, confirmed')
    BY <1>1, <1>2, <1>3, <1>4 DEF Silent, Handled
  <1>6. QED
    BY <1>1, <1>3, <1>5

(* After its own binding a root's cleanup retires its parent's. *)
LEMMA RetiresNextMoves ==
    ASSUME RouterInv, NEW c \in Calls, call[c].pc \in {"retire", "unmark"}, RetiresNext(c), UNCHANGED confirmed
    PROVE  \E w \in CallType : /\ call' = [call EXCEPT ![c] = w]
                               /\ Silent(w) /\ Handled(w, traffic, confirmed')
  <1>1. call[c] \in CallType /\ Handled(call[c], traffic, confirmed) /\ call[c].q \in traffic
    BY WorkingKey
  <1>2. CASE call[c].q.lifecycle = "enduring-initial" /\ ~call[c].inner
    <2> DEFINE w == Work(call[c].q, "retire", None, TRUE, FALSE)
    <2>1. call' = [call EXCEPT ![c] = w]
      BY <1>2 DEF RetiresNext
    <2>2. w \in CallType /\ w.pc = "retire" /\ w.q = call[c].q /\ w.inner = TRUE
      BY <1>1, AtWork DEF Steps, Work, CallType
    <2> HIDE DEF w
    <2>3. Silent(w) /\ Handled(w, traffic, confirmed')
      BY <1>1, <1>2, <2>2 DEF Silent, Handled
    <2>4. QED
      BY <2>1, <2>2, <2>3
  <1>3. CASE ~(call[c].q.lifecycle = "enduring-initial" /\ ~call[c].inner)
    BY <1>3, AnswersMoves DEF RetiresNext
  <1>4. QED
    BY <1>2, <1>3

(* A retirement goes on to the marker, the parent or its end. *)
LEMMA RetireMoves ==
    ASSUME RouterInv, NEW c \in Calls, Retire(c)
    PROVE  \E w \in CallType : /\ call' = [call EXCEPT ![c] = w]
                               /\ Silent(w) /\ Handled(w, traffic, confirmed')
  <1>1. call[c].pc = "retire" /\ UNCHANGED confirmed
    BY DEF Retire, At, history
  <1>2. CASE RetiresNext(c)
    BY <1>1, <1>2, RetiresNextMoves
  <1>3. CASE ~RetiresNext(c)
    <2> DEFINE w == [call[c] EXCEPT !.pc = "unmark"]
    <2>1. call' = [call EXCEPT ![c] = w]
      BY <1>3 DEF Retire, Becomes
    <2>2. call[c] \in CallType /\ Handled(call[c], traffic, confirmed)
      BY <1>1, WorkingKey
    <2>3. w \in CallType /\ w.pc = "unmark" /\ w.q = call[c].q /\ w.inner = call[c].inner
      BY <1>1, <2>2, GoesOn DEF Steps
    <2> HIDE DEF w
    <2>4. Silent(w) /\ Handled(w, traffic, confirmed')
      BY <1>1, <2>2, <2>3 DEF Silent, Handled
    <2>5. QED
      BY <2>1, <2>3, <2>4
  <1>4. QED
    BY <1>2, <1>3

(* The removal of the marker ends a retirement. *)
LEMMA UnmarkMoves ==
    ASSUME RouterInv, NEW c \in Calls, Unmark(c)
    PROVE  \E w \in CallType : /\ call' = [call EXCEPT ![c] = w]
                               /\ Silent(w) /\ Handled(w, traffic, confirmed')
  BY RetiresNextMoves DEF Unmark, At, history

-----------------------------------------------------------------------------
(* How the records go on.                                                   *)

(* A binding that may be removed: of a scoped operation whose permits have  *)
(* run out or of a parent whose cleanup was confirmed.                      *)
Removable(k) ==
    /\ k[1] \in {"scoped_ops", "scoped_parents"}
    /\ \A q \in traffic : q.route = "prepare" /\ Key(q) = k => q.id \in expired
    /\ k[1] = "scoped_parents" => k \in confirmed

(* In a step: the record seen is one of the versions, and no other version  *)
(* is new; a marker is not set on a parent whose cleanup is not confirmed.  *)
Versioned(k) ==
    /\ entry'[k] \in maybe'[k] /\ maybe'[k] \subseteq maybe[k] \cup {entry'[k]}
    /\ \/ entry'[k].mark => entry[k].mark
       \/ entry'[k] \in maybe[k]
       \/ k[1] = "scoped_parents" => k \in confirmed

(* In a step: the record keeps its owner, all handlers are gone and it is   *)
(* an older version, or it may be removed and is.                           *)
OwnerKept(k) ==
    \/ entry'[k].owner = entry[k].owner
    \/ entry'[k] \in maybe[k] /\ \A d \in Calls : call'[d] = Idle
    \/ entry'[k].owner = None /\ Removable(k)

(* The records, the absent one and their markers. *)
LEMMA EntryShape ==
    ASSUME TypeOK
    PROVE  /\ entry \in [Keys -> Entry] /\ maybe \in [Keys -> SUBSET Entry]
           /\ \A k \in Keys : /\ entry[k] \in Entry /\ entry[k].mark \in BOOLEAN
                              /\ entry[k].owner \in Backends \cup {None}
           /\ NoRecord \in Entry /\ NoRecord.owner = None
           /\ \A m \in BOOLEAN : LET e == [NoRecord EXCEPT !.mark = m] IN
                 e \in Entry /\ e.owner = None /\ e.mark = m
           /\ \A e \in Entry, m \in BOOLEAN : LET f == [e EXCEPT !.mark = m] IN
                 f \in Entry /\ f.owner = e.owner /\ f.mark = m
  BY DEF TypeOK, Entry, NoRecord

(* The versions after a change of the records, synced or not. *)
LEMMA VersionsMove ==
    ASSUME TypeOK, entry' \in [Keys -> Entry], Unsynced \/ \E l : Synced(l)
    PROVE  /\ maybe' \in [Keys -> SUBSET Entry]
           /\ \A k \in Keys : entry'[k] \in maybe'[k] /\ maybe'[k] \subseteq maybe[k] \cup {entry'[k]}
  <1>1. maybe \in [Keys -> SUBSET Entry]
    BY DEF TypeOK
  <1>2. CASE Unsynced
    BY <1>1, <1>2 DEF Unsynced
  <1>3. ASSUME NEW l, Synced(l)
        PROVE  /\ maybe' \in [Keys -> SUBSET Entry]
               /\ \A k \in Keys : entry'[k] \in maybe'[k] /\ maybe'[k] \subseteq maybe[k] \cup {entry'[k]}
    BY <1>1, <1>3 DEF Synced
  <1>4. QED
    BY <1>2, <1>3

(* A step that leaves the records alone. *)
LEMMA UntouchedRecords ==
    ASSUME RouterInv, UNCHANGED <<entry, maybe>>
    PROVE  /\ entry' \in [Keys -> Entry] /\ maybe' \in [Keys -> SUBSET Entry]
           /\ \A k \in Keys : Versioned(k) /\ OwnerKept(k)
  BY DEF RouterInv, TypeOK, Recorded, Versioned, OwnerKept

(* sweep_retired. *)
LEMMA SweepRecords ==
    ASSUME RouterInv, NEW c \in Calls, Sweep(c)
    PROVE  /\ entry' \in [Keys -> Entry] /\ maybe' \in [Keys -> SUBSET Entry]
           /\ \A k \in Keys : Versioned(k) /\ OwnerKept(k)
  <1> DEFINE l == Working(c)[1]
  <1>1. TypeOK /\ call[c].pc = "sweep"
    BY DEF RouterInv, Sweep, At
  <1>2. l \in {"scoped_ops", "scoped_parents"}
    <2>1. Scoped(call[c].q) /\ call[c].pc # "idle"
      BY <1>1 DEF RouterInv, Handling, Handled
    <2>2. QED
      BY <1>1, <2>1, WorkingKey, KeyShape
  <1>3. CASE UNCHANGED <<entry, maybe>>
    BY <1>3, UntouchedRecords
  <1>4. ASSUME entry' \in [Keys -> Entry], Unsynced \/ Synced(l),
               \A k \in Keys : \/ entry'[k] = entry[k]
                               \/ k \in In(l) /\ Sweepable(k) /\ entry'[k].owner = None
        PROVE  /\ entry' \in [Keys -> Entry] /\ maybe' \in [Keys -> SUBSET Entry]
               /\ \A k \in Keys : Versioned(k) /\ OwnerKept(k)
    <2>1. /\ maybe' \in [Keys -> SUBSET Entry]
          /\ \A k \in Keys : entry'[k] \in maybe'[k] /\ maybe'[k] \subseteq maybe[k] \cup {entry'[k]}
      BY <1>1, <1>4, VersionsMove
    <2>2. ASSUME NEW k \in Keys, k \in In(l), Sweepable(k), entry'[k].owner = None
          PROVE  OwnerKept(k)
      <3>1. CASE Has(k)
        <4>1. k \in aged /\ k[1] = l /\ entry[k].mark
          BY <2>2, <3>1 DEF Sweepable, In
        <4>2. \A q \in traffic : q.route = "prepare" /\ Key(q) = k => q.id \in expired
          BY <4>1 DEF RouterInv, Recorded
        <4>3. k[1] = "scoped_parents" => k \in confirmed
          BY <4>1 DEF RouterInv, Recorded
        <4>4. QED
          BY <1>2, <2>2, <4>1, <4>2, <4>3 DEF OwnerKept, Removable
      <3>2. CASE ~Has(k)
        BY <2>2, <3>2 DEF Has, OwnerKept
      <3>3. QED
        BY <3>1, <3>2
    <2>3. \A k \in Keys : OwnerKept(k)
      BY <1>4, <2>2 DEF OwnerKept
    <2>4. \A k \in Keys : entry'[k].mark => entry[k].mark
      BY <1>4 DEF Sweepable
    <2>5. QED
      BY <1>4, <2>1, <2>3, <2>4 DEF Versioned
  <1>5. CASE /\ entry' = [x \in Keys |-> IF x \in In(l) /\ Sweepable(x) THEN NoRecord ELSE entry[x]]
             /\ Synced(l)
    <2>1. entry' \in [Keys -> Entry]
      BY <1>1, <1>5, EntryShape
    <2>2. \A k \in Keys : entry'[k] = entry[k] \/ (k \in In(l) /\ Sweepable(k) /\ entry'[k].owner = None)
      BY <1>1, <1>5, EntryShape
    <2>3. QED
      BY <1>4, <1>5, <2>1, <2>2
  <1>6. ASSUME NEW S \in SUBSET {x \in In(l) : Sweepable(x)}, NEW x \in In(l), Sweepable(x),
               entry' = [y \in Keys |-> IF y \in S THEN NoRecord
                                        ELSE IF y = x THEN [NoRecord EXCEPT !.mark = TRUE]
                                        ELSE entry[y]],
               Unsynced
        PROVE  /\ entry' \in [Keys -> Entry] /\ maybe' \in [Keys -> SUBSET Entry]
               /\ \A k \in Keys : Versioned(k) /\ OwnerKept(k)
    <2> DEFINE e == [NoRecord EXCEPT !.mark = TRUE]
    <2>1. e \in Entry /\ e.owner = None
      BY <1>1, EntryShape
    <2>2. \A y \in Keys : entry'[y] = IF y \in S THEN NoRecord ELSE IF y = x THEN e ELSE entry[y]
      BY <1>6
    <2>3. DOMAIN entry' = Keys /\ entry' = [y \in Keys |-> entry'[y]]
      BY <1>6
    <2> HIDE DEF e
    <2>4. \A y \in Keys : entry'[y] \in Entry
      BY <1>1, <2>1, <2>2, EntryShape
    <2>5. entry' \in [Keys -> Entry]
      BY <2>3, <2>4
    <2>6. \A k \in Keys : entry'[k] = entry[k] \/ (k \in In(l) /\ Sweepable(k) /\ entry'[k].owner = None)
      BY <1>1, <1>6, <2>1, <2>2, EntryShape
    <2>7. QED
      BY <1>4, <1>6, <2>5, <2>6
  <1>7. QED
    BY <1>3, <1>5, <1>6 DEF Sweep

(* Ledger::retire and the removal of the marker. *)
LEMMA RetireRecords ==
    ASSUME RouterInv, NEW c \in Calls, Retire(c) \/ Unmark(c)
    PROVE  /\ entry' \in [Keys -> Entry] /\ maybe' \in [Keys -> SUBSET Entry]
           /\ \A k \in Keys : Versioned(k) /\ OwnerKept(k)
  <1> DEFINE k == Working(c)
  <1>1. TypeOK /\ call[c].pc \in {"retire", "unmark"}
    BY DEF RouterInv, Retire, Unmark, At
  <1>2. k \in Keys /\ entry[k] \in Entry /\ entry[k].mark \in BOOLEAN
    BY <1>1, WorkingKey, EntryShape
  <1>3. /\ k[1] \in {"scoped_ops", "scoped_parents"}
        /\ k[1] = "scoped_parents" => k \in confirmed
    <2>1. /\ call[c].q.route = "cleanup"
          /\ call[c].inner => call[c].q.lifecycle = "enduring-initial"
          /\ call[c].q.lifecycle = "enduring-initial" => ParentKey(call[c].q) \in confirmed
      BY <1>1 DEF RouterInv, Handling, Handled
    <2>2. QED
      BY <1>1, <2>1, WorkingKey, KeyShape
  <1>4. CASE UNCHANGED <<entry, maybe>>
    BY <1>4, UntouchedRecords
  <1>5. ASSUME NEW e \in Entry, entry' = [entry EXCEPT ![k] = e], Unsynced \/ Synced(k[1]),
               e.owner = entry[k].owner \/ (e.owner = None /\ k \in aged)
        PROVE  /\ entry' \in [Keys -> Entry] /\ maybe' \in [Keys -> SUBSET Entry]
               /\ \A x \in Keys : Versioned(x) /\ OwnerKept(x)
    <2>1. entry' \in [Keys -> Entry] /\ entry'[k] = e /\ \A x \in Keys : x # k => entry'[x] = entry[x]
      BY <1>1, <1>2, <1>5, EntryShape
    <2>2. /\ maybe' \in [Keys -> SUBSET Entry]
          /\ \A x \in Keys : entry'[x] \in maybe'[x] /\ maybe'[x] \subseteq maybe[x] \cup {entry'[x]}
      BY <1>1, <1>5, <2>1, VersionsMove
    <2>3. \A x \in Keys : Versioned(x)
      BY <1>3, <2>1, <2>2 DEF Versioned
    <2>4. k \in aged => \A q \in traffic : q.route = "prepare" /\ Key(q) = k => q.id \in expired
      BY DEF RouterInv, Recorded
    <2>5. OwnerKept(k)
      BY <1>3, <1>5, <2>1, <2>4 DEF OwnerKept, Removable
    <2>6. \A x \in Keys : x # k => OwnerKept(x)
      BY <2>1 DEF OwnerKept
    <2>7. QED
      BY <2>1, <2>2, <2>3, <2>5, <2>6
  <1>6. CASE Retire(c) /\ entry' = [entry EXCEPT ![k].mark = TRUE] /\ (Synced(k[1]) \/ Unsynced)
    <2> DEFINE e == [entry[k] EXCEPT !.mark = TRUE]
    <2>1. e \in Entry /\ e.owner = entry[k].owner
      BY <1>1, <1>2, EntryShape
    <2>2. entry' = [entry EXCEPT ![k] = e]
      BY <1>6
    <2> HIDE DEF e
    <2>3. QED
      BY <1>5, <1>6, <2>1, <2>2
  <1>7. CASE k \in aged /\ entry' = [entry EXCEPT ![k] = [NoRecord EXCEPT !.mark = entry[k].mark]] /\ Unsynced
    <2> DEFINE e == [NoRecord EXCEPT !.mark = entry[k].mark]
    <2>1. e \in Entry /\ e.owner = None
      BY <1>1, <1>2, EntryShape
    <2>2. entry' = [entry EXCEPT ![k] = e]
      BY <1>7
    <2> HIDE DEF e
    <2>3. QED
      BY <1>5, <1>7, <2>1, <2>2
  <1>8. CASE entry' = [entry EXCEPT ![k].mark = FALSE] /\ (Synced(k[1]) \/ Unsynced)
    <2> DEFINE e == [entry[k] EXCEPT !.mark = FALSE]
    <2>1. e \in Entry /\ e.owner = entry[k].owner
      BY <1>1, <1>2, EntryShape
    <2>2. entry' = [entry EXCEPT ![k] = e]
      BY <1>8
    <2> HIDE DEF e
    <2>3. QED
      BY <1>5, <1>8, <2>1, <2>2
  <1>9. CASE Retire(c)
    BY <1>4, <1>6, <1>7, <1>9 DEF Retire
  <1>10. CASE Unmark(c)
    BY <1>4, <1>8, <1>10 DEF Unmark
  <1>11. QED
    BY <1>9, <1>10

(* The directory sync leaves the record that is seen. *)
LEMMA SyncRecords ==
    ASSUME RouterInv, NEW c \in Calls, Sync(c)
    PROVE  /\ entry' \in [Keys -> Entry] /\ maybe' \in [Keys -> SUBSET Entry] /\ entry' = entry
           /\ \A k \in Keys : Versioned(k) /\ OwnerKept(k)
           /\ maybe'[Working(c)] = {entry[Working(c)]}
  <1>1. TypeOK /\ call[c].pc = "visible" /\ entry' = entry /\ Synced(Working(c)[1])
    BY DEF RouterInv, Sync, At
  <1>2. Working(c) \in Keys
    BY <1>1, WorkingKey
  <1>3. entry' \in [Keys -> Entry]
    BY <1>1, EntryShape
  <1>4. /\ maybe' \in [Keys -> SUBSET Entry]
        /\ \A k \in Keys : entry'[k] \in maybe'[k] /\ maybe'[k] \subseteq maybe[k] \cup {entry'[k]}
    BY <1>1, <1>3, VersionsMove
  <1>5. maybe'[Working(c)] = {entry'[Working(c)]}
    BY <1>1, <1>2 DEF Synced
  <1>6. QED
    BY <1>1, <1>3, <1>4, <1>5 DEF Versioned, OwnerKept

(* The power loss leaves one of the versions. *)
LEMMA LossRecords ==
    ASSUME RouterInv, PowerLoss
    PROVE  /\ entry' \in [Keys -> Entry] /\ maybe' \in [Keys -> SUBSET Entry]
           /\ \A k \in Keys : Versioned(k) /\ OwnerKept(k)
  <1> DEFINE lost == {k \in Keys : ~Durable(k)}
  <1>1. PICK e \in [lost -> UNION {maybe[k] : k \in lost}] :
            /\ \A k \in lost : e[k] \in maybe[k]
            /\ entry' = [k \in Keys |-> IF k \in lost THEN e[k] ELSE entry[k]]
    BY DEF PowerLoss
  <1>2. TypeOK /\ \A k \in Keys : entry[k] \in maybe[k] /\ entry[k] \in Entry /\ maybe[k] \in SUBSET Entry
    BY EntryShape DEF RouterInv, Recorded
  <1>3. \A k \in Keys : entry'[k] \in maybe[k]
    BY <1>1, <1>2
  <1>4. entry' \in [Keys -> Entry]
    BY <1>1, <1>2
  <1>5. maybe' = [k \in Keys |-> {entry'[k]}] /\ call' = [c \in Calls |-> Idle]
    BY DEF PowerLoss
  <1>6. \A k \in Keys : entry'[k] \in maybe'[k] /\ maybe'[k] \subseteq maybe[k] \cup {entry'[k]}
    BY <1>5
  <1>7. maybe' \in [Keys -> SUBSET Entry]
    BY <1>4, <1>5
  <1>8. \A d \in Calls : call'[d] = Idle
    BY <1>5
  <1>9. QED
    BY <1>3, <1>4, <1>6, <1>7, <1>8 DEF Versioned, OwnerKept

(* The link under a free name. *)
LEMMA PublishRecords ==
    ASSUME RouterInv, NEW c \in Calls, Publish(c), ~Has(Working(c))
    PROVE  /\ entry' \in [Keys -> Entry] /\ maybe' \in [Keys -> SUBSET Entry]
           /\ \A k \in Keys : Versioned(k)
           /\ entry'[Working(c)].owner = call[c].b
           /\ \A k \in Keys : k # Working(c) => entry'[k] = entry[k] /\ maybe'[k] = maybe[k]
  <1> DEFINE k == Working(c)
             e == [owner |-> call[c].b, body |-> Body(c), mark |-> entry[k].mark]
  <1>1. TypeOK /\ call[c].pc = "publish"
    BY DEF RouterInv, Publish, At
  <1>2. k \in Keys /\ call[c] \in CallType /\ call[c].pc # "idle"
    BY <1>1, WorkingKey
  <1>3. call[c].b \in Backends \cup {None} /\ call[c].q \in Requests
    BY <1>2, AtWork
  <1>4. Body(c) \in {q.body : q \in Requests} \cup {q.parent : q \in Requests}
    BY <1>3 DEF Body
  <1>5. e \in Entry /\ e.owner = call[c].b /\ e.mark = entry[k].mark
    BY <1>1, <1>2, <1>3, <1>4, EntryShape DEF Entry
  <1>6. entry' = [entry EXCEPT ![k] = e] /\ Unsynced
    BY DEF Publish
  <1> HIDE DEF e
  <1>7. entry' \in [Keys -> Entry] /\ entry'[k] = e /\ \A x \in Keys : x # k => entry'[x] = entry[x]
    BY <1>1, <1>2, <1>5, <1>6, EntryShape
  <1>8. /\ maybe' \in [Keys -> SUBSET Entry]
        /\ \A x \in Keys : entry'[x] \in maybe'[x] /\ maybe'[x] \subseteq maybe[x] \cup {entry'[x]}
    BY <1>1, <1>6, <1>7, VersionsMove
  <1>9. \A x \in Keys : entry'[x].mark => entry[x].mark
    BY <1>5, <1>7
  <1>10. \A x \in Keys : entry[x] \in maybe[x]
    BY DEF RouterInv, Recorded
  <1>11. \A x \in Keys : x # k => maybe'[x] = maybe[x]
    BY <1>6, <1>7, <1>10 DEF Unsynced
  <1>12. QED
    BY <1>5, <1>7, <1>8, <1>9, <1>11 DEF Versioned

-----------------------------------------------------------------------------
(* Types, handlers and records.                                             *)

(* Every step keeps the handlers typed and sound. *)
LEMMA CallStep ==
    ASSUME RouterInv, [Next]_vars
    PROVE  call' \in [Calls -> CallType] /\ Handling'
  <1>t. call \in [Calls -> CallType] /\ Handling
    BY DEF RouterInv, TypeOK
  <1>1. ASSUME NEW c \in Calls, NEW q \in traffic, Bind(c, q) /\ q.route \in Binding
        PROVE  call' \in [Calls -> CallType] /\ Handling'
    BY <1>1, OneMoves, BindMoves
  <1>2. ASSUME NEW c \in Calls, NEW q \in traffic, Find(c, q) /\ q.route \in Looking
        PROVE  call' \in [Calls -> CallType] /\ Handling'
    BY <1>2, OneMoves, FindMoves
  <1>3. ASSUME NEW c \in Calls, NEW q \in traffic, Prewarm(c, q)
        PROVE  call' \in [Calls -> CallType] /\ Handling'
    BY <1>3, OneMoves, PrewarmMoves
  <1>4. ASSUME NEW c \in Calls, NEW q \in traffic, ProbeBegins(c, q)
        PROVE  call' \in [Calls -> CallType] /\ Handling'
    BY <1>4, OneMoves, ProbeMoves
  <1>5. ASSUME NEW c \in Calls, Claim(c)
        PROVE  call' \in [Calls -> CallType] /\ Handling'
    BY <1>5, OneMoves, ClaimMoves
  <1>6. ASSUME NEW c \in Calls, Sweep(c)
        PROVE  call' \in [Calls -> CallType] /\ Handling'
    BY <1>6, OneMoves, SweepMoves
  <1>7. ASSUME NEW c \in Calls, Choose(c)
        PROVE  call' \in [Calls -> CallType] /\ Handling'
    BY <1>7, OneMoves, ChooseMoves
  <1>8. ASSUME NEW c \in Calls, Publish(c)
        PROVE  call' \in [Calls -> CallType] /\ Handling'
    BY <1>8, OneMoves, PublishMoves
  <1>9. ASSUME NEW c \in Calls, Sync(c)
        PROVE  call' \in [Calls -> CallType] /\ Handling'
    BY <1>9, OneMoves, SyncMoves
  <1>10. ASSUME NEW c \in Calls, SyncFails(c)
        PROVE  call' \in [Calls -> CallType] /\ Handling'
    <2>1. Answers(c)
      BY <1>10 DEF SyncFails
    <2>2. QED
      BY <2>1, OneMoves, AnswersMoves
  <1>11. ASSUME NEW c \in Calls, NEW v \in BOOLEAN, Forward(c, v)
        PROVE  call' \in [Calls -> CallType] /\ Handling'
    <2>1. Answers(c)
      BY <1>11 DEF Forward
    <2>2. QED
      BY <2>1, OneMoves, AnswersMoves
  <1>12. ASSUME NEW c \in Calls, Confirmed(c)
        PROVE  call' \in [Calls -> CallType] /\ Handling'
    BY <1>12, OneMoves, ConfirmedMoves
  <1>13. ASSUME NEW c \in Calls, Retire(c)
        PROVE  call' \in [Calls -> CallType] /\ Handling'
    BY <1>13, OneMoves, RetireMoves
  <1>14. ASSUME NEW c \in Calls, Unmark(c)
        PROVE  call' \in [Calls -> CallType] /\ Handling'
    BY <1>14, OneMoves, UnmarkMoves
  <1>15. ASSUME NEW c \in Calls, ProbeEnds(c)
        PROVE  call' \in [Calls -> CallType] /\ Handling'
    <2>1. call' = [call EXCEPT ![c] = Idle]
      BY <1>15 DEF ProbeEnds
    <2>2. QED
      BY <2>1, OneMoves, IdleFacts, SilentIdle
  <1>16. ASSUME NEW r \in Routers, Crash(r)
        PROVE  call' \in [Calls -> CallType] /\ Handling'
    <2>1. call' \in [Calls -> CallType] /\ \A d \in Calls : call'[d] \in {Idle, call[d]}
      BY <1>16, <1>t, IdleFacts DEF Crash
    <2>2. UNCHANGED <<traffic, confirmed>>
      BY <1>16 DEF Crash, history
    <2>3. QED
      BY <1>t, <2>1, <2>2, SilentIdle DEF Handling
  <1>17. ASSUME NEW q \in traffic, Expire(q)
        PROVE  call' \in [Calls -> CallType] /\ Handling'
    BY <1>17, <1>t DEF Expire, history, Handling
  <1>18. ASSUME NEW k \in Keys, Age(k)
        PROVE  call' \in [Calls -> CallType] /\ Handling'
    BY <1>18, <1>t DEF Age, history, Handling
  <1>19. CASE PowerLoss
    <2>1. call' \in [Calls -> CallType] /\ \A d \in Calls : call'[d] \in {Idle, call[d]}
      BY <1>19, <1>t, IdleFacts DEF PowerLoss
    <2>2. UNCHANGED <<traffic, confirmed>>
      BY <1>19 DEF PowerLoss, history
    <2>3. QED
      BY <1>t, <2>1, <2>2, SilentIdle DEF Handling
  <1>20. CASE UNCHANGED vars
    BY <1>20, <1>t DEF vars, history, Handling
  <1>21. QED
    BY RouterCases, <1>1, <1>2, <1>3, <1>4, <1>5, <1>6, <1>7, <1>8, <1>9, <1>10,
       <1>11, <1>12, <1>13, <1>14, <1>15, <1>16, <1>17, <1>18, <1>19, <1>20

(* Every step keeps the locks typed. *)
LEMMA LockStep ==
    ASSUME RouterInv, [Next]_vars
    PROVE  lock' \in [Ledgers -> Calls \cup {None}]
  <1>t. lock \in [Ledgers -> Calls \cup {None}]
    BY DEF RouterInv, TypeOK
  <1>f. \A S : Freed(S) \in [Ledgers -> Calls \cup {None}]
    BY <1>t DEF Freed
  <1>1. ASSUME NEW c \in Calls, NEW q \in traffic, Bind(c, q) /\ q.route \in Binding
        PROVE  lock' \in [Ledgers -> Calls \cup {None}]
    BY <1>1, <1>t DEF Bind, ledgers
  <1>2. ASSUME NEW c \in Calls, NEW q \in traffic, Find(c, q) /\ q.route \in Looking
        PROVE  lock' \in [Ledgers -> Calls \cup {None}]
    BY <1>2, <1>t DEF Find, ledgers
  <1>3. ASSUME NEW c \in Calls, NEW q \in traffic, Prewarm(c, q)
        PROVE  lock' \in [Ledgers -> Calls \cup {None}]
    BY <1>3, <1>t DEF Prewarm, ledgers
  <1>4. ASSUME NEW c \in Calls, NEW q \in traffic, ProbeBegins(c, q)
        PROVE  lock' \in [Ledgers -> Calls \cup {None}]
    BY <1>4, <1>t DEF ProbeBegins, ledgers
  <1>5. ASSUME NEW c \in Calls, Claim(c)
        PROVE  lock' \in [Ledgers -> Calls \cup {None}]
    <2>1. Working(c)[1] \in Ledgers
      BY <1>5, WorkingKey DEF Claim, At
    <2>2. Answers(c) \/ Owned(c, entry[Working(c)].owner) \/ UNCHANGED lock
          \/ lock' = [lock EXCEPT ![Working(c)[1]] = c]
      BY <1>5 DEF Claim
    <2>3. QED
      BY <1>t, <1>f, <2>1, <2>2 DEF Answers, Owned
  <1>6. ASSUME NEW c \in Calls, Sweep(c)
        PROVE  lock' \in [Ledgers -> Calls \cup {None}]
    <2>1. Answers(c) \/ UNCHANGED lock
      BY <1>6 DEF Sweep
    <2>2. QED
      BY <1>t, <1>f, <2>1 DEF Answers
  <1>7. ASSUME NEW c \in Calls, Choose(c)
        PROVE  lock' \in [Ledgers -> Calls \cup {None}]
    <2>1. Answers(c) \/ UNCHANGED lock
      BY <1>7 DEF Choose
    <2>2. QED
      BY <1>t, <1>f, <2>1 DEF Answers
  <1>8. ASSUME NEW c \in Calls, Publish(c)
        PROVE  lock' \in [Ledgers -> Calls \cup {None}]
    <2>1. Answers(c) \/ UNCHANGED lock
      BY <1>8 DEF Publish
    <2>2. QED
      BY <1>t, <1>f, <2>1 DEF Answers
  <1>9. ASSUME NEW c \in Calls, Sync(c)
        PROVE  lock' \in [Ledgers -> Calls \cup {None}]
    <2>1. lock' = [lock EXCEPT ![Working(c)[1]] = None] \/ lock' = Freed({c})
      BY <1>9 DEF Sync
    <2>2. QED
      BY <1>t, <1>f, <2>1
  <1>10. ASSUME NEW c \in Calls, SyncFails(c)
        PROVE  lock' \in [Ledgers -> Calls \cup {None}]
    BY <1>10, <1>f DEF SyncFails, Answers
  <1>11. ASSUME NEW c \in Calls, NEW v \in BOOLEAN, Forward(c, v)
        PROVE  lock' \in [Ledgers -> Calls \cup {None}]
    BY <1>11, <1>f DEF Forward, Answers
  <1>12. ASSUME NEW c \in Calls, Confirmed(c)
        PROVE  lock' \in [Ledgers -> Calls \cup {None}]
    BY <1>12, <1>t DEF Confirmed, ledgers
  <1>13. ASSUME NEW c \in Calls, Retire(c)
        PROVE  lock' \in [Ledgers -> Calls \cup {None}]
    <2>1. RetiresNext(c) \/ lock' = [lock EXCEPT ![Working(c)[1]] = c]
      BY <1>13 DEF Retire
    <2>2. QED
      BY <1>t, <1>f, <2>1 DEF RetiresNext, Answers
  <1>14. ASSUME NEW c \in Calls, Unmark(c)
        PROVE  lock' \in [Ledgers -> Calls \cup {None}]
    <2>1. RetiresNext(c) \/ lock' = [lock EXCEPT ![Working(c)[1]] = c]
      BY <1>14 DEF Unmark
    <2>2. QED
      BY <1>t, <1>f, <2>1 DEF RetiresNext, Answers
  <1>15. ASSUME NEW c \in Calls, ProbeEnds(c)
        PROVE  lock' \in [Ledgers -> Calls \cup {None}]
    BY <1>15, <1>t DEF ProbeEnds, ledgers
  <1>16. ASSUME NEW r \in Routers, Crash(r)
        PROVE  lock' \in [Ledgers -> Calls \cup {None}]
    BY <1>16, <1>f DEF Crash
  <1>17. ASSUME NEW q \in traffic, Expire(q)
        PROVE  lock' \in [Ledgers -> Calls \cup {None}]
    BY <1>17, <1>t DEF Expire, ledgers
  <1>18. ASSUME NEW k \in Keys, Age(k)
        PROVE  lock' \in [Ledgers -> Calls \cup {None}]
    BY <1>18, <1>t DEF Age, ledgers
  <1>19. CASE PowerLoss
    BY <1>19 DEF PowerLoss
  <1>20. CASE UNCHANGED vars
    BY <1>20, <1>t DEF vars, ledgers
  <1>21. QED
    BY RouterCases, <1>1, <1>2, <1>3, <1>4, <1>5, <1>6, <1>7, <1>8, <1>9, <1>10,
       <1>11, <1>12, <1>13, <1>14, <1>15, <1>16, <1>17, <1>18, <1>19, <1>20

(* Every step keeps the records typed and versioned. *)
LEMMA RecordStep ==
    ASSUME RouterInv, [Next]_vars
    PROVE  /\ entry' \in [Keys -> Entry] /\ maybe' \in [Keys -> SUBSET Entry]
           /\ \A x \in Keys : Versioned(x)
  <1>1. ASSUME NEW c \in Calls, NEW q \in traffic, Bind(c, q) /\ q.route \in Binding
        PROVE  /\ entry' \in [Keys -> Entry] /\ maybe' \in [Keys -> SUBSET Entry]
               /\ \A x \in Keys : Versioned(x)
    <2>1. UNCHANGED <<entry, maybe>>
      BY <1>1 DEF Bind, ledgers
    <2>2. QED
      BY <2>1, UntouchedRecords
  <1>2. ASSUME NEW c \in Calls, NEW q \in traffic, Find(c, q) /\ q.route \in Looking
        PROVE  /\ entry' \in [Keys -> Entry] /\ maybe' \in [Keys -> SUBSET Entry]
               /\ \A x \in Keys : Versioned(x)
    <2>1. UNCHANGED <<entry, maybe>>
      BY <1>2 DEF Find, ledgers
    <2>2. QED
      BY <2>1, UntouchedRecords
  <1>3. ASSUME NEW c \in Calls, NEW q \in traffic, Prewarm(c, q)
        PROVE  /\ entry' \in [Keys -> Entry] /\ maybe' \in [Keys -> SUBSET Entry]
               /\ \A x \in Keys : Versioned(x)
    <2>1. UNCHANGED <<entry, maybe>>
      BY <1>3 DEF Prewarm, ledgers
    <2>2. QED
      BY <2>1, UntouchedRecords
  <1>4. ASSUME NEW c \in Calls, NEW q \in traffic, ProbeBegins(c, q)
        PROVE  /\ entry' \in [Keys -> Entry] /\ maybe' \in [Keys -> SUBSET Entry]
               /\ \A x \in Keys : Versioned(x)
    <2>1. UNCHANGED <<entry, maybe>>
      BY <1>4 DEF ProbeBegins, ledgers
    <2>2. QED
      BY <2>1, UntouchedRecords
  <1>5. ASSUME NEW c \in Calls, Claim(c)
        PROVE  /\ entry' \in [Keys -> Entry] /\ maybe' \in [Keys -> SUBSET Entry]
               /\ \A x \in Keys : Versioned(x)
    <2>1. UNCHANGED <<entry, maybe>>
      BY <1>5 DEF Claim, ledgers
    <2>2. QED
      BY <2>1, UntouchedRecords
  <1>6. ASSUME NEW c \in Calls, Sweep(c)
        PROVE  /\ entry' \in [Keys -> Entry] /\ maybe' \in [Keys -> SUBSET Entry]
               /\ \A x \in Keys : Versioned(x)
    BY <1>6, SweepRecords
  <1>7. ASSUME NEW c \in Calls, Choose(c)
        PROVE  /\ entry' \in [Keys -> Entry] /\ maybe' \in [Keys -> SUBSET Entry]
               /\ \A x \in Keys : Versioned(x)
    <2>1. UNCHANGED <<entry, maybe>>
      BY <1>7 DEF Choose, ledgers
    <2>2. QED
      BY <2>1, UntouchedRecords
  <1>8. ASSUME NEW c \in Calls, Publish(c)
        PROVE  /\ entry' \in [Keys -> Entry] /\ maybe' \in [Keys -> SUBSET Entry]
               /\ \A x \in Keys : Versioned(x)
    <2>1. CASE Has(Working(c))
      <3>1. UNCHANGED <<entry, maybe>>
        BY <1>8, <2>1 DEF Publish
      <3>2. QED
        BY <3>1, UntouchedRecords
    <2>2. CASE ~Has(Working(c))
      BY <1>8, <2>2, PublishRecords
    <2>3. QED
      BY <2>1, <2>2
  <1>9. ASSUME NEW c \in Calls, Sync(c)
        PROVE  /\ entry' \in [Keys -> Entry] /\ maybe' \in [Keys -> SUBSET Entry]
               /\ \A x \in Keys : Versioned(x)
    BY <1>9, SyncRecords
  <1>10. ASSUME NEW c \in Calls, SyncFails(c)
        PROVE  /\ entry' \in [Keys -> Entry] /\ maybe' \in [Keys -> SUBSET Entry]
               /\ \A x \in Keys : Versioned(x)
    <2>1. UNCHANGED <<entry, maybe>>
      BY <1>10 DEF SyncFails, ledgers
    <2>2. QED
      BY <2>1, UntouchedRecords
  <1>11. ASSUME NEW c \in Calls, NEW v \in BOOLEAN, Forward(c, v)
        PROVE  /\ entry' \in [Keys -> Entry] /\ maybe' \in [Keys -> SUBSET Entry]
               /\ \A x \in Keys : Versioned(x)
    <2>1. UNCHANGED <<entry, maybe>>
      BY <1>11 DEF Forward, ledgers
    <2>2. QED
      BY <2>1, UntouchedRecords
  <1>12. ASSUME NEW c \in Calls, Confirmed(c)
        PROVE  /\ entry' \in [Keys -> Entry] /\ maybe' \in [Keys -> SUBSET Entry]
               /\ \A x \in Keys : Versioned(x)
    <2>1. UNCHANGED <<entry, maybe>>
      BY <1>12 DEF Confirmed, ledgers
    <2>2. QED
      BY <2>1, UntouchedRecords
  <1>13. ASSUME NEW c \in Calls, Retire(c)
        PROVE  /\ entry' \in [Keys -> Entry] /\ maybe' \in [Keys -> SUBSET Entry]
               /\ \A x \in Keys : Versioned(x)
    BY <1>13, RetireRecords
  <1>14. ASSUME NEW c \in Calls, Unmark(c)
        PROVE  /\ entry' \in [Keys -> Entry] /\ maybe' \in [Keys -> SUBSET Entry]
               /\ \A x \in Keys : Versioned(x)
    BY <1>14, RetireRecords
  <1>15. ASSUME NEW c \in Calls, ProbeEnds(c)
        PROVE  /\ entry' \in [Keys -> Entry] /\ maybe' \in [Keys -> SUBSET Entry]
               /\ \A x \in Keys : Versioned(x)
    <2>1. UNCHANGED <<entry, maybe>>
      BY <1>15 DEF ProbeEnds, ledgers
    <2>2. QED
      BY <2>1, UntouchedRecords
  <1>16. ASSUME NEW r \in Routers, Crash(r)
        PROVE  /\ entry' \in [Keys -> Entry] /\ maybe' \in [Keys -> SUBSET Entry]
               /\ \A x \in Keys : Versioned(x)
    <2>1. UNCHANGED <<entry, maybe>>
      BY <1>16 DEF Crash, ledgers
    <2>2. QED
      BY <2>1, UntouchedRecords
  <1>17. ASSUME NEW q \in traffic, Expire(q)
        PROVE  /\ entry' \in [Keys -> Entry] /\ maybe' \in [Keys -> SUBSET Entry]
               /\ \A x \in Keys : Versioned(x)
    <2>1. UNCHANGED <<entry, maybe>>
      BY <1>17 DEF Expire, ledgers
    <2>2. QED
      BY <2>1, UntouchedRecords
  <1>18. ASSUME NEW k \in Keys, Age(k)
        PROVE  /\ entry' \in [Keys -> Entry] /\ maybe' \in [Keys -> SUBSET Entry]
               /\ \A x \in Keys : Versioned(x)
    <2>1. UNCHANGED <<entry, maybe>>
      BY <1>18 DEF Age, ledgers
    <2>2. QED
      BY <2>1, UntouchedRecords
  <1>19. CASE PowerLoss
    BY <1>19, LossRecords
  <1>20. CASE UNCHANGED vars
    <2>1. UNCHANGED <<entry, maybe>>
      BY <1>20 DEF vars, ledgers
    <2>2. QED
      BY <2>1, UntouchedRecords
  <1>21. QED
    BY RouterCases, <1>1, <1>2, <1>3, <1>4, <1>5, <1>6, <1>7, <1>8, <1>9, <1>10,
       <1>11, <1>12, <1>13, <1>14, <1>15, <1>16, <1>17, <1>18, <1>19, <1>20

(* What is past the quarantine can no longer be prepared. *)
LEMMA AgedStep ==
    ASSUME RouterInv, [Next]_vars
    PROVE  /\ aged' \in SUBSET Keys
           /\ \A k \in aged' : \A o \in traffic : o.route = "prepare" /\ Key(o) = k => o.id \in expired'
  <1>t. /\ aged \in SUBSET Keys
        /\ \A k \in aged : \A q \in traffic : q.route = "prepare" /\ Key(q) = k => q.id \in expired
    BY DEF RouterInv, TypeOK, Recorded
  <1>1. ASSUME NEW c \in Calls, NEW q \in traffic, Bind(c, q) /\ q.route \in Binding
        PROVE  /\ aged' \in SUBSET Keys
               /\ \A k \in aged' : \A o \in traffic : o.route = "prepare" /\ Key(o) = k => o.id \in expired'
    <2>1. UNCHANGED <<aged, expired>>
      BY <1>1 DEF Bind, ledgers
    <2>2. QED
      BY <1>t, <2>1
  <1>2. ASSUME NEW c \in Calls, NEW q \in traffic, Find(c, q) /\ q.route \in Looking
        PROVE  /\ aged' \in SUBSET Keys
               /\ \A k \in aged' : \A o \in traffic : o.route = "prepare" /\ Key(o) = k => o.id \in expired'
    <2>1. UNCHANGED <<aged, expired>>
      BY <1>2 DEF Find, ledgers
    <2>2. QED
      BY <1>t, <2>1
  <1>3. ASSUME NEW c \in Calls, NEW q \in traffic, Prewarm(c, q)
        PROVE  /\ aged' \in SUBSET Keys
               /\ \A k \in aged' : \A o \in traffic : o.route = "prepare" /\ Key(o) = k => o.id \in expired'
    <2>1. UNCHANGED <<aged, expired>>
      BY <1>3 DEF Prewarm, ledgers
    <2>2. QED
      BY <1>t, <2>1
  <1>4. ASSUME NEW c \in Calls, NEW q \in traffic, ProbeBegins(c, q)
        PROVE  /\ aged' \in SUBSET Keys
               /\ \A k \in aged' : \A o \in traffic : o.route = "prepare" /\ Key(o) = k => o.id \in expired'
    <2>1. UNCHANGED <<aged, expired>>
      BY <1>4 DEF ProbeBegins, ledgers
    <2>2. QED
      BY <1>t, <2>1
  <1>5. ASSUME NEW c \in Calls, Claim(c)
        PROVE  /\ aged' \in SUBSET Keys
               /\ \A k \in aged' : \A o \in traffic : o.route = "prepare" /\ Key(o) = k => o.id \in expired'
    <2>1. UNCHANGED <<aged, expired>>
      BY <1>5 DEF Claim, ledgers
    <2>2. QED
      BY <1>t, <2>1
  <1>6. ASSUME NEW c \in Calls, Sweep(c)
        PROVE  /\ aged' \in SUBSET Keys
               /\ \A k \in aged' : \A o \in traffic : o.route = "prepare" /\ Key(o) = k => o.id \in expired'
    <2>1. UNCHANGED <<aged, expired>>
      BY <1>6 DEF Sweep, ledgers
    <2>2. QED
      BY <1>t, <2>1
  <1>7. ASSUME NEW c \in Calls, Choose(c)
        PROVE  /\ aged' \in SUBSET Keys
               /\ \A k \in aged' : \A o \in traffic : o.route = "prepare" /\ Key(o) = k => o.id \in expired'
    <2>1. UNCHANGED <<aged, expired>>
      BY <1>7 DEF Choose, ledgers
    <2>2. QED
      BY <1>t, <2>1
  <1>8. ASSUME NEW c \in Calls, Publish(c)
        PROVE  /\ aged' \in SUBSET Keys
               /\ \A k \in aged' : \A o \in traffic : o.route = "prepare" /\ Key(o) = k => o.id \in expired'
    <2>1. aged' \subseteq aged /\ UNCHANGED expired
      BY <1>8 DEF Publish
    <2>2. QED
      BY <1>t, <2>1
  <1>9. ASSUME NEW c \in Calls, Sync(c)
        PROVE  /\ aged' \in SUBSET Keys
               /\ \A k \in aged' : \A o \in traffic : o.route = "prepare" /\ Key(o) = k => o.id \in expired'
    <2>1. UNCHANGED <<aged, expired>>
      BY <1>9 DEF Sync, ledgers
    <2>2. QED
      BY <1>t, <2>1
  <1>10. ASSUME NEW c \in Calls, SyncFails(c)
        PROVE  /\ aged' \in SUBSET Keys
               /\ \A k \in aged' : \A o \in traffic : o.route = "prepare" /\ Key(o) = k => o.id \in expired'
    <2>1. UNCHANGED <<aged, expired>>
      BY <1>10 DEF SyncFails, ledgers
    <2>2. QED
      BY <1>t, <2>1
  <1>11. ASSUME NEW c \in Calls, NEW v \in BOOLEAN, Forward(c, v)
        PROVE  /\ aged' \in SUBSET Keys
               /\ \A k \in aged' : \A o \in traffic : o.route = "prepare" /\ Key(o) = k => o.id \in expired'
    <2>1. UNCHANGED <<aged, expired>>
      BY <1>11 DEF Forward, ledgers
    <2>2. QED
      BY <1>t, <2>1
  <1>12. ASSUME NEW c \in Calls, Confirmed(c)
        PROVE  /\ aged' \in SUBSET Keys
               /\ \A k \in aged' : \A o \in traffic : o.route = "prepare" /\ Key(o) = k => o.id \in expired'
    <2>1. UNCHANGED <<aged, expired>>
      BY <1>12 DEF Confirmed, ledgers
    <2>2. QED
      BY <1>t, <2>1
  <1>13. ASSUME NEW c \in Calls, Retire(c)
        PROVE  /\ aged' \in SUBSET Keys
               /\ \A k \in aged' : \A o \in traffic : o.route = "prepare" /\ Key(o) = k => o.id \in expired'
    <2>1. UNCHANGED <<aged, expired>>
      BY <1>13 DEF Retire, ledgers
    <2>2. QED
      BY <1>t, <2>1
  <1>14. ASSUME NEW c \in Calls, Unmark(c)
        PROVE  /\ aged' \in SUBSET Keys
               /\ \A k \in aged' : \A o \in traffic : o.route = "prepare" /\ Key(o) = k => o.id \in expired'
    <2>1. UNCHANGED <<aged, expired>>
      BY <1>14 DEF Unmark, ledgers
    <2>2. QED
      BY <1>t, <2>1
  <1>15. ASSUME NEW c \in Calls, ProbeEnds(c)
        PROVE  /\ aged' \in SUBSET Keys
               /\ \A k \in aged' : \A o \in traffic : o.route = "prepare" /\ Key(o) = k => o.id \in expired'
    <2>1. UNCHANGED <<aged, expired>>
      BY <1>15 DEF ProbeEnds, ledgers
    <2>2. QED
      BY <1>t, <2>1
  <1>16. ASSUME NEW r \in Routers, Crash(r)
        PROVE  /\ aged' \in SUBSET Keys
               /\ \A k \in aged' : \A o \in traffic : o.route = "prepare" /\ Key(o) = k => o.id \in expired'
    <2>1. UNCHANGED <<aged, expired>>
      BY <1>16 DEF Crash, ledgers
    <2>2. QED
      BY <1>t, <2>1
  <1>17. ASSUME NEW q \in traffic, Expire(q)
        PROVE  /\ aged' \in SUBSET Keys
               /\ \A k \in aged' : \A o \in traffic : o.route = "prepare" /\ Key(o) = k => o.id \in expired'
    BY <1>17, <1>t DEF Expire, ledgers
  <1>18. ASSUME NEW x \in Keys, Age(x)
        PROVE  /\ aged' \in SUBSET Keys
               /\ \A k \in aged' : \A o \in traffic : o.route = "prepare" /\ Key(o) = k => o.id \in expired'
    BY <1>18, <1>t DEF Age
  <1>19. CASE PowerLoss
    <2>1. UNCHANGED <<aged, expired>>
      BY <1>19 DEF PowerLoss, ledgers
    <2>2. QED
      BY <1>t, <2>1
  <1>20. CASE UNCHANGED vars
    <2>1. UNCHANGED <<aged, expired>>
      BY <1>20 DEF vars, ledgers
    <2>2. QED
      BY <1>t, <2>1
  <1>21. QED
    BY RouterCases, <1>1, <1>2, <1>3, <1>4, <1>5, <1>6, <1>7, <1>8, <1>9, <1>10,
       <1>11, <1>12, <1>13, <1>14, <1>15, <1>16, <1>17, <1>18, <1>19, <1>20

(* Every step keeps the nodes reached, the POSTs and the probes typed.       *)
LEMMA RestStep ==
    ASSUME RouterInv, [Next]_vars
    PROVE  /\ reached' \in [Keys -> SUBSET Backends] /\ posts' \in [Keys -> 0 .. 2]
           /\ probing' \in SUBSET (Routers \X Reports)
  <1>t. /\ reached \in [Keys -> SUBSET Backends] /\ posts \in [Keys -> 0 .. 2]
        /\ probing \in SUBSET (Routers \X Reports) /\ home \in [Calls -> Routers]
    BY DEF RouterInv, TypeOK
  <1>1. ASSUME NEW c \in Calls, NEW q \in traffic, Bind(c, q) /\ q.route \in Binding
        PROVE  /\ reached' \in [Keys -> SUBSET Backends] /\ posts' \in [Keys -> 0 .. 2]
               /\ probing' \in SUBSET (Routers \X Reports)
    BY <1>1, <1>t DEF Bind, history
  <1>2. ASSUME NEW c \in Calls, NEW q \in traffic, Find(c, q) /\ q.route \in Looking
        PROVE  /\ reached' \in [Keys -> SUBSET Backends] /\ posts' \in [Keys -> 0 .. 2]
               /\ probing' \in SUBSET (Routers \X Reports)
    BY <1>2, <1>t DEF Find
  <1>3. ASSUME NEW c \in Calls, NEW q \in traffic, Prewarm(c, q)
        PROVE  /\ reached' \in [Keys -> SUBSET Backends] /\ posts' \in [Keys -> 0 .. 2]
               /\ probing' \in SUBSET (Routers \X Reports)
    BY <1>3, <1>t DEF Prewarm, history
  <1>4. ASSUME NEW c \in Calls, NEW q \in traffic, ProbeBegins(c, q)
        PROVE  /\ reached' \in [Keys -> SUBSET Backends] /\ posts' \in [Keys -> 0 .. 2]
               /\ probing' \in SUBSET (Routers \X Reports)
    BY <1>4, <1>t DEF ProbeBegins, history
  <1>5. ASSUME NEW c \in Calls, Claim(c)
        PROVE  /\ reached' \in [Keys -> SUBSET Backends] /\ posts' \in [Keys -> 0 .. 2]
               /\ probing' \in SUBSET (Routers \X Reports)
    BY <1>5, <1>t DEF Claim
  <1>6. ASSUME NEW c \in Calls, Sweep(c)
        PROVE  /\ reached' \in [Keys -> SUBSET Backends] /\ posts' \in [Keys -> 0 .. 2]
               /\ probing' \in SUBSET (Routers \X Reports)
    BY <1>6, <1>t DEF Sweep, history
  <1>7. ASSUME NEW c \in Calls, Choose(c)
        PROVE  /\ reached' \in [Keys -> SUBSET Backends] /\ posts' \in [Keys -> 0 .. 2]
               /\ probing' \in SUBSET (Routers \X Reports)
    BY <1>7, <1>t DEF Choose
  <1>8. ASSUME NEW c \in Calls, Publish(c)
        PROVE  /\ reached' \in [Keys -> SUBSET Backends] /\ posts' \in [Keys -> 0 .. 2]
               /\ probing' \in SUBSET (Routers \X Reports)
    BY <1>8, <1>t DEF Publish, history
  <1>9. ASSUME NEW c \in Calls, Sync(c)
        PROVE  /\ reached' \in [Keys -> SUBSET Backends] /\ posts' \in [Keys -> 0 .. 2]
               /\ probing' \in SUBSET (Routers \X Reports)
    BY <1>9, <1>t DEF Sync, history
  <1>10. ASSUME NEW c \in Calls, SyncFails(c)
        PROVE  /\ reached' \in [Keys -> SUBSET Backends] /\ posts' \in [Keys -> 0 .. 2]
               /\ probing' \in SUBSET (Routers \X Reports)
    BY <1>10, <1>t DEF SyncFails, history
  <1>11. ASSUME NEW c \in Calls, NEW v \in BOOLEAN, Forward(c, v)
        PROVE  /\ reached' \in [Keys -> SUBSET Backends] /\ posts' \in [Keys -> 0 .. 2]
               /\ probing' \in SUBSET (Routers \X Reports)
    <2>1. UNCHANGED probing
      BY <1>11 DEF Forward
    <2>2. CASE UNCHANGED <<reached, posts>>
      BY <1>t, <2>1, <2>2
    <2>3. CASE Delivered(c) /\ Effectful(call[c].q)
      <3> DEFINE x == Key(call[c].q)
      <3>1. call[c] \in CallType /\ call[c].pc = "send" /\ call[c].q \in traffic
            /\ (call[c].q.route \in Binding => call[c].b # None)
        BY <1>11, <1>t DEF Forward, At, RouterInv, TypeOK, Handling, Handled
      <3>2. call[c].q.route \in Binding
        BY <2>3 DEF Effectful, Binding
      <3>3. x \in Keys /\ call[c].b \in Backends
        BY <1>t, <3>1, <3>2, BindingKeys, AtWork DEF RouterInv
      <3>4. reached' = [reached EXCEPT ![x] = reached[x] \cup {call[c].b}]
        BY <2>3 DEF Delivered
      <3>5. reached' \in [Keys -> SUBSET Backends]
        BY <1>t, <3>3, <3>4
      <3>6. posts' = posts \/ posts' = [posts EXCEPT ![x] = Min({posts[x] + 1, 2})]
        BY <2>3 DEF Delivered
      <3>7. posts[x] \in {0, 1, 2}
        BY <1>t, <3>3
      <3>8. Min({posts[x] + 1, 2}) \in 0 .. 2
        BY <3>7, Smallest
      <3>9. QED
        BY <1>t, <2>1, <3>3, <3>5, <3>6, <3>8
    <2>4. CASE Delivered(c) /\ ~Effectful(call[c].q)
      BY <1>t, <2>1, <2>4 DEF Delivered
    <2>5. QED
      BY <1>11, <2>2, <2>3, <2>4 DEF Forward
  <1>12. ASSUME NEW c \in Calls, Confirmed(c)
        PROVE  /\ reached' \in [Keys -> SUBSET Backends] /\ posts' \in [Keys -> 0 .. 2]
               /\ probing' \in SUBSET (Routers \X Reports)
    BY <1>12, <1>t DEF Confirmed
  <1>13. ASSUME NEW c \in Calls, Retire(c)
        PROVE  /\ reached' \in [Keys -> SUBSET Backends] /\ posts' \in [Keys -> 0 .. 2]
               /\ probing' \in SUBSET (Routers \X Reports)
    BY <1>13, <1>t DEF Retire, history
  <1>14. ASSUME NEW c \in Calls, Unmark(c)
        PROVE  /\ reached' \in [Keys -> SUBSET Backends] /\ posts' \in [Keys -> 0 .. 2]
               /\ probing' \in SUBSET (Routers \X Reports)
    BY <1>14, <1>t DEF Unmark, history
  <1>15. ASSUME NEW c \in Calls, ProbeEnds(c)
        PROVE  /\ reached' \in [Keys -> SUBSET Backends] /\ posts' \in [Keys -> 0 .. 2]
               /\ probing' \in SUBSET (Routers \X Reports)
    BY <1>15, <1>t DEF ProbeEnds, history
  <1>16. ASSUME NEW r \in Routers, Crash(r)
        PROVE  /\ reached' \in [Keys -> SUBSET Backends] /\ posts' \in [Keys -> 0 .. 2]
               /\ probing' \in SUBSET (Routers \X Reports)
    BY <1>16, <1>t DEF Crash, history
  <1>17. ASSUME NEW q \in traffic, Expire(q)
        PROVE  /\ reached' \in [Keys -> SUBSET Backends] /\ posts' \in [Keys -> 0 .. 2]
               /\ probing' \in SUBSET (Routers \X Reports)
    BY <1>17, <1>t DEF Expire, history
  <1>18. ASSUME NEW k \in Keys, Age(k)
        PROVE  /\ reached' \in [Keys -> SUBSET Backends] /\ posts' \in [Keys -> 0 .. 2]
               /\ probing' \in SUBSET (Routers \X Reports)
    BY <1>18, <1>t DEF Age, history
  <1>19. CASE PowerLoss
    BY <1>19, <1>t DEF PowerLoss, history
  <1>20. CASE UNCHANGED vars
    BY <1>20, <1>t DEF vars, history
  <1>21. QED
    BY RouterCases, <1>1, <1>2, <1>3, <1>4, <1>5, <1>6, <1>7, <1>8, <1>9, <1>10,
       <1>11, <1>12, <1>13, <1>14, <1>15, <1>16, <1>17, <1>18, <1>19, <1>20

(* Every step keeps the first three parts of the invariant. *)
LEMMA TypeAndRecordsStep ==
    ASSUME RouterInv, [Next]_vars
    PROVE  TypeOK' /\ Handling' /\ Recorded'
  <1>1. traffic' \in Traffics /\ home' \in [Calls -> Routers]
    BY Grows DEF RouterInv, TypeOK
  <1>2. TypeOK'
    BY <1>1, CallStep, LockStep, RecordStep, AgedStep, RestStep DEF TypeOK
  <1>3. \A k \in Keys : entry'[k] \in maybe'[k]
    BY RecordStep DEF Versioned
  <1>4. \A k \in aged' : \A q \in traffic' : q.route = "prepare" /\ Key(q) = k => q.id \in expired'
    BY AgedStep, Grows
  <1>5. ASSUME NEW k \in Keys, k[1] = "scoped_parents", k \notin confirmed', NEW v \in maybe'[k]
        PROVE  ~v.mark
    <2>1. k \notin confirmed /\ Versioned(k)
      BY <1>5, Grows, RecordStep
    <2>2. \A u \in maybe[k] : ~u.mark
      BY <1>5, <2>1 DEF RouterInv, Recorded
    <2>3. entry[k] \in maybe[k]
      BY DEF RouterInv, Recorded
    <2>4. QED
      BY <1>5, <2>1, <2>2, <2>3 DEF Versioned
  <1>6. Recorded'
    BY <1>3, <1>4, <1>5 DEF Recorded
  <1>7. QED
    BY <1>2, <1>6, CallStep

-----------------------------------------------------------------------------
(* Steps that name no node.                                                 *)

(* A silent handler is at none of the steps that name a node. *)
LEMMA SilentOff ==
    ASSUME NEW w, Silent(w)
    PROVE  /\ \A k : ~On(w, k, {"publish", "visible", "send"}) /\ ~On(w, k, {"visible", "send"})
                     /\ ~On(w, k, {"visible"}) /\ ~On(w, k, {"send"})
           /\ \A l : ~Linked(w, l)
  BY DEF Silent, On, Linked

(* The owners that the versions of a record name, after a step. *)
LEMMA OwnersMove ==
    ASSUME NEW k \in Keys, Versioned(k)
    PROVE  /\ entry'[k].owner \in Owners(k)'
           /\ Owners(k)' \subseteq Owners(k) \cup {entry'[k].owner}
  BY DEF Versioned, Owners

(* The owner seen is one of the owners; of a durable record, the only.       *)
LEMMA OwnerSeen ==
    ASSUME RouterInv, NEW k \in Keys
    PROVE  entry[k].owner \in Owners(k) /\ (Durable(k) => Owners(k) = {entry[k].owner})
  <1>1. entry[k] \in maybe[k]
    BY DEF RouterInv, Recorded
  <1>2. QED
    BY <1>1 DEF Owners, Durable

(* No new owner, unless an absence that the removal leaves. *)
LEMMA OwnersKept ==
    ASSUME RouterInv, NEW k \in Keys, Versioned(k), OwnerKept(k)
    PROVE  /\ \/ Owners(k)' \subseteq Owners(k)
              \/ Removable(k) /\ Owners(k)' \subseteq Owners(k) \cup {None}
           /\ \/ entry'[k].owner = entry[k].owner \/ Removable(k)
              \/ \A d \in Calls : call'[d] = Idle
  <1>1. Owners(k)' \subseteq Owners(k) \cup {entry'[k].owner}
    BY OwnersMove
  <1>2. entry[k].owner \in Owners(k)
    BY OwnerSeen
  <1>3. entry'[k] \in maybe[k] => entry'[k].owner \in Owners(k)
    BY DEF Owners
  <1>4. QED
    BY <1>1, <1>2, <1>3 DEF OwnerKept

(* No request that can still make a node act, and none that leads another,  *)
(* has a binding that may be removed.                                       *)
LEMMA NotRemovable ==
    ASSUME RouterInv, NEW q \in traffic
    PROVE  /\ q.route \in Binding /\ Effectful(q) => ~Removable(Key(q))
           /\ Led(q) => ~Removable(Leader(q))
  <1>1. TypeOK
    BY DEF RouterInv
  <1>2. ASSUME q.route \in Binding, Effectful(q)
        PROVE  ~Removable(Key(q))
    BY <1>2, KeyShape DEF Removable, Effectful, Binding
  <1>3. ASSUME Led(q)
        PROVE  ~Removable(Leader(q))
    BY <1>1, <1>3, LeaderKey DEF Removable
  <1>4. QED
    BY <1>2, <1>3

(* What can act or is led after a step could and was before it. *)
LEMMA StillEffectful ==
    ASSUME RouterInv, [Next]_vars, NEW q \in traffic
    PROVE  /\ Effectful(q)' => Effectful(q)
           /\ Led(q)' => Led(q)
           /\ Key(q) \notin exposed' => Key(q) \notin exposed
           /\ Led(q)' => /\ Leader(q) \notin exposed' /\ (q.route = "create" => q.id \notin early')
                         /\ q.route \in {"create", "prepare"}
                         /\ q.route = "prepare" => q.lifecycle \in {"enduring-initial", "enduring-turn"}
  BY Grows DEF Effectful, Led

(* A step of silent handlers that keeps the owners and posts nothing. *)
Quiet ==
    /\ \A d \in Calls : call'[d] = call[d] \/ Silent(call'[d])
    /\ \A k \in Keys : OwnerKept(k)
    /\ reached' = reached /\ posts' = posts

(* A quiet step keeps what the records and the handlers name. *)
LEMMA QuietKeeps ==
    ASSUME RouterInv, [Next]_vars, Quiet
    PROVE  Bound' /\ Following' /\ Once'
  <1>1. TypeOK /\ traffic' = traffic
    BY Grows DEF RouterInv
  <1>2. \A k \in Keys :
            /\ \/ Owners(k)' \subseteq Owners(k)
               \/ Removable(k) /\ Owners(k)' \subseteq Owners(k) \cup {None}
            /\ \/ entry'[k].owner = entry[k].owner \/ Removable(k)
               \/ \A d \in Calls : Silent(call'[d])
    BY OwnersKept, RecordStep, SilentIdle DEF Quiet
  <1>3. \A d \in Calls : call'[d] = call[d] \/ Silent(call'[d])
    BY DEF Quiet
  <1>4. UNCHANGED <<reached, posts>>
    BY DEF Quiet
  <1>5. Bound'
    <2> SUFFICES ASSUME NEW q \in traffic, q.route \in Binding, Key(q) \notin exposed'
                 PROVE  /\ \A x, y \in reached'[Key(q)] : x = y
                        /\ Effectful(q)' =>
                              /\ \A x \in reached'[Key(q)] : Owners(Key(q))' \subseteq {x}
                              /\ \A c \in Calls : On(call'[c], Key(q), {"send"}) => Owners(Key(q))' \subseteq {call'[c].b}
                              /\ \A c \in Calls : On(call'[c], Key(q), {"visible"}) => entry'[Key(q)].owner = call'[c].b
      BY <1>1 DEF Bound
    <2>1. Key(q) \in Keys /\ Key(q) \notin exposed
      BY <1>1, BindingKeys, StillEffectful
    <2>2. \A x, y \in reached'[Key(q)] : x = y
      BY <1>4, <2>1 DEF RouterInv, Bound
    <2>3. ASSUME Effectful(q)'
          PROVE  /\ \A x \in reached'[Key(q)] : Owners(Key(q))' \subseteq {x}
                 /\ \A c \in Calls : On(call'[c], Key(q), {"send"}) => Owners(Key(q))' \subseteq {call'[c].b}
                 /\ \A c \in Calls : On(call'[c], Key(q), {"visible"}) => entry'[Key(q)].owner = call'[c].b
      <3>1. Effectful(q) /\ ~Removable(Key(q))
        BY <2>3, StillEffectful, NotRemovable
      <3>2. Owners(Key(q))' \subseteq Owners(Key(q))
        BY <1>2, <2>1, <3>1
      <3>3. entry'[Key(q)].owner = entry[Key(q)].owner \/ \A d \in Calls : Silent(call'[d])
        BY <1>2, <2>1, <3>1
      <3>4. /\ \A x \in reached[Key(q)] : Owners(Key(q)) \subseteq {x}
            /\ \A c \in Calls : On(call[c], Key(q), {"send"}) => Owners(Key(q)) \subseteq {call[c].b}
            /\ \A c \in Calls : On(call[c], Key(q), {"visible"}) => entry[Key(q)].owner = call[c].b
        BY <2>1, <3>1 DEF RouterInv, Bound
      <3>5. QED
        BY <1>3, <1>4, <3>2, <3>3, <3>4, SilentOff
    <2>4. QED
      BY <2>2, <2>3
  <1>6. Following'
    <2> SUFFICES ASSUME NEW q \in traffic, Led(q)'
                 PROVE  /\ \A x \in Owners(Key(q))' : x # None => Owners(Leader(q))' \subseteq {x}
                        /\ \A x \in reached'[Key(q)] : Owners(Leader(q))' \subseteq {x}
                        /\ \A c \in Calls : On(call'[c], Key(q), {"publish", "visible", "send"}) =>
                              Owners(Leader(q))' \subseteq {call'[c].b}
                        /\ \A c \in Calls : Linked(call'[c], Leader(q)) => entry'[Leader(q)].owner = call'[c].b
      BY <1>1 DEF Following
    <2>1. Led(q)
      BY StillEffectful
    <2>2. Key(q) \in Keys /\ Leader(q) \in Keys /\ ~Removable(Leader(q))
      BY <1>1, <2>1, LeaderKey, NotRemovable
    <2>3. Owners(Leader(q))' \subseteq Owners(Leader(q)) /\ Owners(Key(q))' \subseteq Owners(Key(q)) \cup {None}
      BY <1>2, <2>2
    <2>4. entry'[Leader(q)].owner = entry[Leader(q)].owner \/ \A d \in Calls : Silent(call'[d])
      BY <1>2, <2>2
    <2>5. /\ \A x \in Owners(Key(q)) : x # None => Owners(Leader(q)) \subseteq {x}
          /\ \A x \in reached[Key(q)] : Owners(Leader(q)) \subseteq {x}
          /\ \A c \in Calls : On(call[c], Key(q), {"publish", "visible", "send"}) =>
                Owners(Leader(q)) \subseteq {call[c].b}
          /\ \A c \in Calls : Linked(call[c], Leader(q)) => entry[Leader(q)].owner = call[c].b
      BY <2>1 DEF RouterInv, Following
    <2>6. QED
      BY <1>3, <1>4, <2>3, <2>4, <2>5, SilentOff
  <1>7. Once'
    <2> SUFFICES ASSUME NEW k \in Keys, k[1] \in {"executions", "parents"}
                 PROVE  /\ posts'[k] \in {0, 1}
                        /\ \A c, d \in Calls :
                              On(call'[c], k, {"visible", "send"}) /\ On(call'[d], k, {"visible", "send"}) => c = d
                        /\ \A c \in Calls : On(call'[c], k, {"visible", "send"}) => posts'[k] = 0
                        /\ \A c \in Calls : On(call'[c], k, {"visible"}) => entry'[k].owner # None
                        /\ \A c \in Calls : On(call'[c], k, {"send"}) => None \notin Owners(k)'
                        /\ posts'[k] # 0 => None \notin Owners(k)'
      BY DEF Once
    <2>1. ~Removable(k)
      BY DEF Removable
    <2>2. Owners(k)' \subseteq Owners(k)
      BY <1>2, <2>1
    <2>3. entry'[k].owner = entry[k].owner \/ \A d \in Calls : Silent(call'[d])
      BY <1>2, <2>1
    <2>4. /\ posts[k] \in {0, 1}
          /\ \A c, d \in Calls :
                On(call[c], k, {"visible", "send"}) /\ On(call[d], k, {"visible", "send"}) => c = d
          /\ \A c \in Calls : On(call[c], k, {"visible", "send"}) => posts[k] = 0
          /\ \A c \in Calls : On(call[c], k, {"visible"}) => entry[k].owner # None
          /\ \A c \in Calls : On(call[c], k, {"send"}) => None \notin Owners(k)
          /\ posts[k] # 0 => None \notin Owners(k)
      BY DEF RouterInv, Once
    <2>5. QED
      BY <1>3, <1>4, <2>2, <2>3, <2>4, SilentOff
  <1>8. QED
    BY <1>5, <1>6, <1>7

(* Of the other steps, what a handler does for an id it leaves alone. *)
LEMMA OnWhich ==
    ASSUME NEW w, NEW k, NEW P, On(w, k, P)
    PROVE  w.pc \in P /\ ~w.inner /\ w.q.route \in Binding /\ Key(w.q) = k
  BY DEF On

-----------------------------------------------------------------------------
(* Steps that name a node.                                                  *)

(* A claim that finds the id bound. *)
LEMMA ClaimKeeps ==
    ASSUME RouterInv, [Next]_vars, NEW c \in Calls, Claim(c)
    PROVE  Bound' /\ Following' /\ Once'
  <1>1. TypeOK /\ traffic' = traffic
    BY Grows DEF RouterInv
  <1>2. UNCHANGED <<entry, maybe, reached, posts>>
    BY DEF Claim
  <1>3. PICK w \in CallType :
            /\ call' = [call EXCEPT ![c] = w]
            /\ \/ Silent(w)
               \/ /\ w.q = call[c].q /\ w.inner = FALSE /\ w.b = entry[Working(c)].owner /\ w.b # None
                  /\ Durable(Working(c)) \/ Working(c) \in exposed'
                  /\ call[c].inner => w.pc = "publish"
                  /\ ~call[c].inner => w.pc = "send" /\ w.q.route \in {"provision", "prepare"}
    BY ClaimMoves
  <1>4. call'[c] = w /\ \A d \in Calls : d # c => call'[d] = call[d]
    BY <1>1, <1>3, Moved
  <1>5. CASE Silent(w)
    <2>1. Quiet
      BY <1>2, <1>4, <1>5 DEF Quiet, OwnerKept
    <2>2. QED
      BY <2>1, QuietKeeps
  <1>6. CASE ~Silent(w)
    <2>a. /\ w.q = call[c].q /\ w.inner = FALSE /\ w.b = entry[Working(c)].owner /\ w.b # None
          /\ Durable(Working(c)) \/ Working(c) \in exposed'
          /\ call[c].inner => w.pc = "publish"
          /\ ~call[c].inner => w.pc = "send" /\ w.q.route \in {"provision", "prepare"}
      BY <1>3, <1>6
    <2>b. Working(c) \in Keys /\ call[c].q \in traffic /\ call[c].inner \in BOOLEAN
          /\ (call[c].inner => Working(c) = ParentKey(call[c].q) /\ call[c].q.route = "prepare")
          /\ (~call[c].inner => Working(c) = Key(call[c].q))
      <3>1. call[c].pc = "claim"
        BY DEF Claim, At
      <3>2. QED
        BY <3>1, WorkingKey, AtWork DEF Handled
    <2>c. Owners(Working(c)) \subseteq {w.b} \/ Working(c) \in exposed'
      BY <2>a, <2>b, OwnerSeen
    <2>d. w.b \in Owners(Working(c))
      BY <2>a, <2>b, OwnerSeen
    <2>e. \A k : Owners(k)' = Owners(k)
      BY <1>2 DEF Owners
    <2>5. Bound'
      <3> SUFFICES ASSUME NEW q \in traffic, q.route \in Binding, Key(q) \notin exposed'
                   PROVE  /\ \A x, y \in reached'[Key(q)] : x = y
                          /\ Effectful(q)' =>
                                /\ \A x \in reached'[Key(q)] : Owners(Key(q))' \subseteq {x}
                                /\ \A d \in Calls : On(call'[d], Key(q), {"send"}) => Owners(Key(q))' \subseteq {call'[d].b}
                                /\ \A d \in Calls : On(call'[d], Key(q), {"visible"}) => entry'[Key(q)].owner = call'[d].b
        BY <1>1 DEF Bound
      <3>1. Key(q) \in Keys /\ Key(q) \notin exposed /\ Key(q)[1] # "scoped_parents"
        BY <1>1, BindingKeys, StillEffectful, KeyShape
      <3>2. \A x, y \in reached[Key(q)] : x = y
        BY <3>1 DEF RouterInv, Bound
      <3>3. Effectful(q)' => Effectful(q)
        BY StillEffectful
      <3>4. Effectful(q) =>
                /\ \A x \in reached[Key(q)] : Owners(Key(q)) \subseteq {x}
                /\ \A d \in Calls : On(call[d], Key(q), {"send"}) => Owners(Key(q)) \subseteq {call[d].b}
                /\ \A d \in Calls : On(call[d], Key(q), {"visible"}) => entry[Key(q)].owner = call[d].b
        BY <3>1 DEF RouterInv, Bound
      <3>5. ASSUME On(w, Key(q), {"send"})
            PROVE  Owners(Key(q)) \subseteq {w.b}
        <4>1. ~call[c].inner /\ Working(c) = Key(q)
          BY <2>a, <2>b, <3>5 DEF On
        <4>2. QED
          BY <2>c, <4>1
      <3>6. ~On(w, Key(q), {"visible"})
        BY <2>a, <2>b DEF On
      <3>7. QED
        BY <1>2, <1>4, <2>e, <3>2, <3>3, <3>4, <3>5, <3>6
    <2>6. Following'
      <3> SUFFICES ASSUME NEW q \in traffic, Led(q)'
                   PROVE  /\ \A x \in Owners(Key(q))' : x # None => Owners(Leader(q))' \subseteq {x}
                          /\ \A x \in reached'[Key(q)] : Owners(Leader(q))' \subseteq {x}
                          /\ \A d \in Calls : On(call'[d], Key(q), {"publish", "visible", "send"}) =>
                                Owners(Leader(q))' \subseteq {call'[d].b}
                          /\ \A d \in Calls : Linked(call'[d], Leader(q)) => entry'[Leader(q)].owner = call'[d].b
        BY <1>1 DEF Following
      <3>1. Led(q)
        BY StillEffectful
      <3>2. Key(q) \in Keys /\ Leader(q) \in Keys /\ Key(q) # Leader(q) /\ q.route \in Binding
        BY <1>1, <3>1, LeaderKey
      <3>3. /\ \A x \in Owners(Key(q)) : x # None => Owners(Leader(q)) \subseteq {x}
            /\ \A x \in reached[Key(q)] : Owners(Leader(q)) \subseteq {x}
            /\ \A d \in Calls : On(call[d], Key(q), {"publish", "visible", "send"}) =>
                  Owners(Leader(q)) \subseteq {call[d].b}
            /\ \A d \in Calls : Linked(call[d], Leader(q)) => entry[Leader(q)].owner = call[d].b
        BY <3>1 DEF RouterInv, Following
      <3>4. ASSUME On(w, Key(q), {"publish", "visible", "send"})
            PROVE  Owners(Leader(q)) \subseteq {w.b}
        <4>1. Key(call[c].q) = Key(q) /\ call[c].q.route \in Binding
          BY <2>a, <3>4 DEF On
        <4>2. CASE call[c].inner
          <5>1. q.route = "prepare" /\ ParentKey(q) = ParentKey(call[c].q)
            BY <1>1, <2>b, <3>2, <4>1, <4>2, SameKey
          <5>2. Leader(q) = Working(c)
            BY <2>b, <4>2, <5>1 DEF Leader
          <5>3. Leader(q) \notin exposed'
            BY StillEffectful
          <5>4. QED
            BY <2>c, <5>2, <5>3
        <4>3. CASE ~call[c].inner
          BY <2>a, <2>b, <2>d, <3>3, <4>1, <4>3
        <4>4. QED
          BY <4>2, <4>3
      <3>5. ~Linked(w, Leader(q))
        BY <2>a DEF Linked
      <3>6. QED
        BY <1>2, <1>4, <2>e, <3>3, <3>4, <3>5
    <2>7. Once'
      <3> SUFFICES ASSUME NEW k \in Keys, k[1] \in {"executions", "parents"}
                   PROVE  /\ posts'[k] \in {0, 1}
                          /\ \A d, e \in Calls :
                                On(call'[d], k, {"visible", "send"}) /\ On(call'[e], k, {"visible", "send"}) => d = e
                          /\ \A d \in Calls : On(call'[d], k, {"visible", "send"}) => posts'[k] = 0
                          /\ \A d \in Calls : On(call'[d], k, {"visible"}) => entry'[k].owner # None
                          /\ \A d \in Calls : On(call'[d], k, {"send"}) => None \notin Owners(k)'
                          /\ posts'[k] # 0 => None \notin Owners(k)'
        BY DEF Once
      <3>1. /\ posts[k] \in {0, 1}
            /\ \A d, e \in Calls :
                  On(call[d], k, {"visible", "send"}) /\ On(call[e], k, {"visible", "send"}) => d = e
            /\ \A d \in Calls : On(call[d], k, {"visible", "send"}) => posts[k] = 0
            /\ \A d \in Calls : On(call[d], k, {"visible"}) => entry[k].owner # None
            /\ \A d \in Calls : On(call[d], k, {"send"}) => None \notin Owners(k)
            /\ posts[k] # 0 => None \notin Owners(k)
        BY DEF RouterInv, Once
      <3>2. ~On(w, k, {"visible", "send"}) /\ ~On(w, k, {"visible"}) /\ ~On(w, k, {"send"})
        BY <2>a, <2>b, KeyShape DEF On
      <3>3. QED
        BY <1>2, <1>4, <2>e, <3>1, <3>2
    <2>8. QED
      BY <2>5, <2>6, <2>7
  <1>7. QED
    BY <1>5, <1>6

(* The choice of a node. *)
LEMMA ChooseKeeps ==
    ASSUME RouterInv, [Next]_vars, NEW c \in Calls, Choose(c)
    PROVE  Bound' /\ Following' /\ Once'
  <1>1. TypeOK /\ traffic' = traffic
    BY Grows DEF RouterInv
  <1>2. UNCHANGED <<entry, maybe, reached, posts>>
    BY DEF Choose
  <1>3. PICK w \in CallType :
            /\ call' = [call EXCEPT ![c] = w]
            /\ \/ Silent(w)
               \/ /\ w.pc = "publish" /\ w.q = call[c].q /\ w.inner = call[c].inner
                  /\ w.q.lifecycle = "enduring-initial" => w.inner
                  /\ w.q.route = "create" =>
                        \/ w.q.id \in early'
                        \/ /\ w.b = entry[<<"provisions", w.q.id>>].owner
                           /\ Durable(<<"provisions", w.q.id>>) \/ <<"provisions", w.q.id>> \in exposed'
                  /\ w.q.route = "prepare" /\ w.q.lifecycle = "enduring-turn" =>
                        /\ w.b = entry[ParentKey(w.q)].owner
                        /\ Durable(ParentKey(w.q)) \/ ParentKey(w.q) \in exposed'
    BY ChooseMoves
  <1>4. call'[c] = w /\ \A d \in Calls : d # c => call'[d] = call[d]
    BY <1>1, <1>3, Moved
  <1>s. CASE Silent(w)
    <2>1. Quiet
      BY <1>2, <1>4, <1>s DEF Quiet, OwnerKept
    <2>2. QED
      BY <2>1, QuietKeeps
  <1>a. ~Silent(w) =>
            /\ w.pc = "publish" /\ w.q = call[c].q /\ w.inner = call[c].inner
            /\ w.q.lifecycle = "enduring-initial" => w.inner
            /\ w.q.route = "create" =>
                  \/ w.q.id \in early'
                  \/ /\ w.b = entry[<<"provisions", w.q.id>>].owner
                     /\ Durable(<<"provisions", w.q.id>>) \/ <<"provisions", w.q.id>> \in exposed'
            /\ w.q.route = "prepare" /\ w.q.lifecycle = "enduring-turn" =>
                  /\ w.b = entry[ParentKey(w.q)].owner
                  /\ Durable(ParentKey(w.q)) \/ ParentKey(w.q) \in exposed'
    BY <1>3
  <1>b. call[c].q \in traffic
    BY WorkingKey DEF Choose, At
  <1>e. \A k : Owners(k)' = Owners(k)
    BY <1>2 DEF Owners
  <1>o. ~Silent(w) => \A k : /\ ~On(w, k, {"visible", "send"}) /\ ~On(w, k, {"visible"})
                             /\ ~On(w, k, {"send"}) /\ ~Linked(w, k)
    BY <1>a DEF On, Linked
  <1>5. ASSUME ~Silent(w) PROVE Bound'
    <2> SUFFICES ASSUME NEW q \in traffic, q.route \in Binding, Key(q) \notin exposed'
                 PROVE  /\ \A x, y \in reached'[Key(q)] : x = y
                        /\ Effectful(q)' =>
                              /\ \A x \in reached'[Key(q)] : Owners(Key(q))' \subseteq {x}
                              /\ \A d \in Calls : On(call'[d], Key(q), {"send"}) => Owners(Key(q))' \subseteq {call'[d].b}
                              /\ \A d \in Calls : On(call'[d], Key(q), {"visible"}) => entry'[Key(q)].owner = call'[d].b
      BY <1>1 DEF Bound
    <2>1. Key(q) \in Keys /\ Key(q) \notin exposed /\ Key(q)[1] # "scoped_parents"
      BY <1>1, BindingKeys, StillEffectful, KeyShape
    <2>2. \A x, y \in reached[Key(q)] : x = y
      BY <2>1 DEF RouterInv, Bound
    <2>3. Effectful(q)' => Effectful(q)
      BY StillEffectful
    <2>4. Effectful(q) =>
              /\ \A x \in reached[Key(q)] : Owners(Key(q)) \subseteq {x}
              /\ \A d \in Calls : On(call[d], Key(q), {"send"}) => Owners(Key(q)) \subseteq {call[d].b}
              /\ \A d \in Calls : On(call[d], Key(q), {"visible"}) => entry[Key(q)].owner = call[d].b
      BY <2>1 DEF RouterInv, Bound
    <2>5. QED
      BY <1>2, <1>4, <1>5, <1>e, <1>o, <2>2, <2>3, <2>4
  <1>6. ASSUME ~Silent(w) PROVE Following'
    <2> SUFFICES ASSUME NEW q \in traffic, Led(q)'
                 PROVE  /\ \A x \in Owners(Key(q))' : x # None => Owners(Leader(q))' \subseteq {x}
                        /\ \A x \in reached'[Key(q)] : Owners(Leader(q))' \subseteq {x}
                        /\ \A d \in Calls : On(call'[d], Key(q), {"publish", "visible", "send"}) =>
                              Owners(Leader(q))' \subseteq {call'[d].b}
                        /\ \A d \in Calls : Linked(call'[d], Leader(q)) => entry'[Leader(q)].owner = call'[d].b
      BY <1>1 DEF Following
    <2>1. Led(q)
      BY StillEffectful
    <2>2. Key(q) \in Keys /\ Leader(q) \in Keys /\ Key(q) # Leader(q) /\ q.route \in Binding
      BY <1>1, <2>1, LeaderKey
    <2>3. /\ \A x \in Owners(Key(q)) : x # None => Owners(Leader(q)) \subseteq {x}
          /\ \A x \in reached[Key(q)] : Owners(Leader(q)) \subseteq {x}
          /\ \A d \in Calls : On(call[d], Key(q), {"publish", "visible", "send"}) =>
                Owners(Leader(q)) \subseteq {call[d].b}
          /\ \A d \in Calls : Linked(call[d], Leader(q)) => entry[Leader(q)].owner = call[d].b
      BY <2>1 DEF RouterInv, Following
    <2>4. ASSUME On(w, Key(q), {"publish", "visible", "send"})
          PROVE  Owners(Leader(q)) \subseteq {w.b}
      <3>1. Key(call[c].q) = Key(q) /\ call[c].q.route \in Binding /\ ~w.inner /\ w.q = call[c].q
        BY <1>6, <1>a, <2>4 DEF On
      <3>2. call[c].q.route = q.route /\ call[c].q.id = q.id /\ (q.route = "prepare" =>
                /\ ParentKey(q) = ParentKey(call[c].q)
                /\ q.lifecycle = "one-shot" <=> call[c].q.lifecycle = "one-shot")
        BY <1>1, <1>b, <2>2, <3>1, SameKey
      <3>3. Leader(q) \notin exposed' /\ (q.route = "create" => q.id \notin early')
            /\ q.route \in {"create", "prepare"}
            /\ (q.route = "prepare" => q.lifecycle \in {"enduring-initial", "enduring-turn"})
        BY StillEffectful
      <3>4. CASE q.route = "create"
        <4>1. Leader(q) = <<"provisions", q.id>> /\ w.q.id = q.id
          BY <3>1, <3>2, <3>4 DEF Leader
        <4>2. w.b = entry[Leader(q)].owner /\ Durable(Leader(q))
          BY <1>6, <1>a, <3>1, <3>2, <3>3, <3>4, <4>1
        <4>3. QED
          BY <2>2, <4>2, OwnerSeen
      <3>5. CASE q.route = "prepare"
        <4>1. call[c].q.lifecycle = "enduring-turn"
          <5>1. call[c].q.lifecycle \in {"one-shot", "enduring-initial", "enduring-turn"}
            BY <1>1, <1>b, <3>2, <3>5, BindingKeys
          <5>2. call[c].q.lifecycle # "one-shot"
            BY <3>2, <3>3, <3>5
          <5>3. call[c].q.lifecycle # "enduring-initial"
            BY <1>6, <1>a, <3>1
          <5>4. QED
            BY <5>1, <5>2, <5>3
        <4>2. Leader(q) = ParentKey(call[c].q)
          BY <3>2, <3>5 DEF Leader
        <4>3. w.b = entry[Leader(q)].owner /\ Durable(Leader(q))
          BY <1>6, <1>a, <3>1, <3>2, <3>3, <3>5, <4>1, <4>2
        <4>4. QED
          BY <2>2, <4>3, OwnerSeen
      <3>6. QED
        BY <3>3, <3>4, <3>5
    <2>5. QED
      BY <1>2, <1>4, <1>6, <1>e, <1>o, <2>3, <2>4
  <1>7. ASSUME ~Silent(w) PROVE Once'
    <2> SUFFICES ASSUME NEW k \in Keys, k[1] \in {"executions", "parents"}
                 PROVE  /\ posts'[k] \in {0, 1}
                        /\ \A d, e \in Calls :
                              On(call'[d], k, {"visible", "send"}) /\ On(call'[e], k, {"visible", "send"}) => d = e
                        /\ \A d \in Calls : On(call'[d], k, {"visible", "send"}) => posts'[k] = 0
                        /\ \A d \in Calls : On(call'[d], k, {"visible"}) => entry'[k].owner # None
                        /\ \A d \in Calls : On(call'[d], k, {"send"}) => None \notin Owners(k)'
                        /\ posts'[k] # 0 => None \notin Owners(k)'
      BY DEF Once
    <2>1. /\ posts[k] \in {0, 1}
          /\ \A d, e \in Calls :
                On(call[d], k, {"visible", "send"}) /\ On(call[e], k, {"visible", "send"}) => d = e
          /\ \A d \in Calls : On(call[d], k, {"visible", "send"}) => posts[k] = 0
          /\ \A d \in Calls : On(call[d], k, {"visible"}) => entry[k].owner # None
          /\ \A d \in Calls : On(call[d], k, {"send"}) => None \notin Owners(k)
          /\ posts[k] # 0 => None \notin Owners(k)
      BY DEF RouterInv, Once
    <2>2. QED
      BY <1>2, <1>4, <1>7, <1>e, <1>o, <2>1
  <1>8. QED
    BY <1>s, <1>5, <1>6, <1>7

(* The publication of a record: nothing named another node for its id, as a *)
(* version of it is absent.                                                 *)
LEMMA PublishKeeps ==
    ASSUME RouterInv, [Next]_vars, NEW c \in Calls, Publish(c)
    PROVE  Bound' /\ Following' /\ Once'
  <1>1. TypeOK /\ traffic' = traffic
    BY Grows DEF RouterInv
  <1>2. UNCHANGED <<reached, posts>> /\ call[c].pc = "publish"
    BY DEF Publish, history, At
  <1>3. PICK w \in CallType :
            /\ call' = [call EXCEPT ![c] = w]
            /\ \/ Silent(w) /\ UNCHANGED <<entry, maybe, aged>>
               \/ /\ w.pc = "visible" /\ w.q = call[c].q /\ w.inner = call[c].inner /\ w.b = call[c].b
                  /\ ~Has(Working(c))
    BY PublishMoves
  <1>4. call'[c] = w /\ \A d \in Calls : d # c => call'[d] = call[d]
    BY <1>1, <1>3, Moved
  <1>s. CASE Silent(w) /\ UNCHANGED <<entry, maybe, aged>>
    <2>1. Quiet
      BY <1>2, <1>4, <1>s DEF Quiet, OwnerKept
    <2>2. QED
      BY <2>1, QuietKeeps
  <1>v. CASE /\ w.pc = "visible" /\ w.q = call[c].q /\ w.inner = call[c].inner /\ w.b = call[c].b
             /\ ~Has(Working(c))
    <2>z. PICK m \in Keys : m = Working(c)
      BY <1>2, WorkingKey
    <2>a. /\ m \in Keys /\ call[c].q \in traffic /\ Handled(call[c], traffic, confirmed)
          /\ call[c].inner => m = ParentKey(call[c].q)
          /\ ~call[c].inner => m = Key(call[c].q)
      BY <1>2, <2>z, WorkingKey
    <2>b. call[c].b # None /\ call[c].q.route \in Binding
      BY <1>2, <2>a DEF Handled
    <2>c. /\ entry'[m].owner = call[c].b
          /\ \A k \in Keys : Versioned(k)
          /\ \A k \in Keys : k # m => entry'[k] = entry[k] /\ maybe'[k] = maybe[k]
      BY <1>v, <2>z, PublishRecords
    <2>d. entry[m].owner = None /\ None \in Owners(m)
      BY <1>v, <2>z, OwnerSeen DEF Has
    <2>e. Owners(m)' \subseteq Owners(m) \cup {call[c].b} /\ \A k \in Keys : k # m => Owners(k)' = Owners(k)
      <3>1. Owners(m)' \subseteq Owners(m) \cup {entry'[m].owner}
        BY <2>c, OwnersMove
      <3>2. \A k \in Keys : k # m => Owners(k)' = Owners(k)
        BY <2>c DEF Owners
      <3>3. QED
        BY <2>c, <3>1, <3>2
    <2>n. /\ \A k \in Keys : None \notin reached[k]
          /\ \A d \in Calls, k \in Keys : On(call[d], k, {"publish", "visible", "send"}) => call[d].b # None
          /\ \A d \in Calls, k \in Keys : On(call[d], k, {"visible"}) \/ On(call[d], k, {"send"})
                \/ On(call[d], k, {"visible", "send"}) => On(call[d], k, {"publish", "visible", "send"})
          /\ \A d \in Calls : \A k : Linked(call[d], k) => call[d].b # None
      <3>1. \A k \in Keys : None \notin reached[k]
        BY <1>1, RouterAssumption DEF TypeOK
      <3>2. \A d \in Calls : Handled(call[d], traffic, confirmed)
        BY DEF RouterInv, Handling
      <3>3. QED
        BY <3>1, <3>2 DEF On, Linked, Handled
    <2>w. /\ \A k \in Keys : On(w, k, {"visible"}) \/ On(w, k, {"publish", "visible", "send"})
                \/ On(w, k, {"visible", "send"}) => k = m /\ On(call[c], k, {"publish", "visible", "send"})
          /\ \A k \in Keys : ~On(w, k, {"send"})
          /\ \A k : Linked(w, k) => k = m
      BY <1>2, <1>v, <2>a DEF On, Linked
    <2>5. Bound'
      <3> SUFFICES ASSUME NEW q \in traffic, q.route \in Binding, Key(q) \notin exposed'
                   PROVE  /\ \A x, y \in reached'[Key(q)] : x = y
                          /\ Effectful(q)' =>
                                /\ \A x \in reached'[Key(q)] : Owners(Key(q))' \subseteq {x}
                                /\ \A d \in Calls : On(call'[d], Key(q), {"send"}) => Owners(Key(q))' \subseteq {call'[d].b}
                                /\ \A d \in Calls : On(call'[d], Key(q), {"visible"}) => entry'[Key(q)].owner = call'[d].b
        BY <1>1 DEF Bound
      <3>1. Key(q) \in Keys /\ Key(q) \notin exposed /\ Key(q)[1] # "scoped_parents"
        BY <1>1, BindingKeys, StillEffectful, KeyShape
      <3>2. \A x, y \in reached[Key(q)] : x = y
        BY <3>1 DEF RouterInv, Bound
      <3>3. Effectful(q)' => Effectful(q)
        BY StillEffectful
      <3>4. Effectful(q) =>
                /\ \A x \in reached[Key(q)] : Owners(Key(q)) \subseteq {x}
                /\ \A d \in Calls : On(call[d], Key(q), {"send"}) => Owners(Key(q)) \subseteq {call[d].b}
                /\ \A d \in Calls : On(call[d], Key(q), {"visible"}) => entry[Key(q)].owner = call[d].b
        BY <3>1 DEF RouterInv, Bound
      <3>5. CASE Key(q) = m
        <4>1. Effectful(q) => /\ reached[Key(q)] = {}
                              /\ \A d \in Calls : ~On(call[d], Key(q), {"send"}) /\ ~On(call[d], Key(q), {"visible"})
          BY <2>a, <2>d, <2>n, <3>4, <3>5
        <4>2. QED
          BY <1>2, <1>4, <1>v, <2>c, <2>w, <3>2, <3>3, <3>5, <4>1
      <3>6. CASE Key(q) # m
        BY <1>2, <1>4, <2>c, <2>e, <2>w, <3>1, <3>2, <3>3, <3>4, <3>6
      <3>7. QED
        BY <3>5, <3>6
    <2>6. Following'
      <3> SUFFICES ASSUME NEW q \in traffic, Led(q)'
                   PROVE  /\ \A x \in Owners(Key(q))' : x # None => Owners(Leader(q))' \subseteq {x}
                          /\ \A x \in reached'[Key(q)] : Owners(Leader(q))' \subseteq {x}
                          /\ \A d \in Calls : On(call'[d], Key(q), {"publish", "visible", "send"}) =>
                                Owners(Leader(q))' \subseteq {call'[d].b}
                          /\ \A d \in Calls : Linked(call'[d], Leader(q)) => entry'[Leader(q)].owner = call'[d].b
        BY <1>1 DEF Following
      <3>1. Led(q)
        BY StillEffectful
      <3>2. Key(q) \in Keys /\ Leader(q) \in Keys /\ Key(q) # Leader(q) /\ q.route \in Binding
        BY <1>1, <3>1, LeaderKey
      <3>3. /\ \A x \in Owners(Key(q)) : x # None => Owners(Leader(q)) \subseteq {x}
            /\ \A x \in reached[Key(q)] : Owners(Leader(q)) \subseteq {x}
            /\ \A d \in Calls : On(call[d], Key(q), {"publish", "visible", "send"}) =>
                  Owners(Leader(q)) \subseteq {call[d].b}
            /\ \A d \in Calls : Linked(call[d], Leader(q)) => entry[Leader(q)].owner = call[d].b
        BY <3>1 DEF RouterInv, Following
      <3>4. CASE Key(q) = m
        <4>1. ~call[c].inner /\ On(call[c], Key(q), {"publish", "visible", "send"})
          <5>1. ~call[c].inner
            <6>1. Key(q)[1] # "scoped_parents" /\ ParentKey(call[c].q)[1] = "scoped_parents"
              BY KeyShape
            <6>2. QED
              BY <2>a, <3>4, <6>1
          <5>2. QED
            BY <1>2, <2>a, <2>b, <3>4, <5>1 DEF On
        <4>2. Owners(Leader(q))' = Owners(Leader(q)) /\ Owners(Leader(q)) \subseteq {call[c].b}
          BY <2>e, <3>2, <3>3, <3>4, <4>1
        <4>3. entry'[Leader(q)] = entry[Leader(q)]
          BY <2>c, <3>2, <3>4
        <4>4. ~Linked(w, Leader(q))
          BY <2>w, <3>2, <3>4
        <4>5. \A x \in Owners(Key(q))' : x # None => Owners(Leader(q))' \subseteq {x}
          BY <2>e, <3>3, <3>4, <4>2
        <4>6. QED
          BY <1>2, <1>4, <1>v, <2>w, <3>3, <4>2, <4>3, <4>4, <4>5
      <3>5. CASE Leader(q) = m
        <4>1. /\ \A x \in Owners(Key(q)) : x = None
              /\ reached[Key(q)] = {}
              /\ \A d \in Calls : ~On(call[d], Key(q), {"publish", "visible", "send"}) /\ ~Linked(call[d], Leader(q))
          BY <2>d, <2>n, <3>2, <3>3, <3>5
        <4>2. Owners(Key(q))' = Owners(Key(q))
          BY <2>e, <3>2, <3>5
        <4>3. ~On(w, Key(q), {"publish", "visible", "send"})
          BY <2>w, <3>2, <3>5
        <4>4. entry'[Leader(q)].owner = w.b
          BY <1>v, <2>c, <3>5
        <4>5. QED
          BY <1>2, <1>4, <4>1, <4>2, <4>3, <4>4
      <3>6. CASE Key(q) # m /\ Leader(q) # m
        <4>1. ~On(w, Key(q), {"publish", "visible", "send"}) /\ ~Linked(w, Leader(q))
          BY <2>w, <3>2, <3>6
        <4>2. QED
          BY <1>2, <1>4, <2>c, <2>e, <3>2, <3>3, <3>6, <4>1
      <3>7. QED
        BY <3>4, <3>5, <3>6
    <2>7. Once'
      <3> SUFFICES ASSUME NEW k \in Keys, k[1] \in {"executions", "parents"}
                   PROVE  /\ posts'[k] \in {0, 1}
                          /\ \A d, e \in Calls :
                                On(call'[d], k, {"visible", "send"}) /\ On(call'[e], k, {"visible", "send"}) => d = e
                          /\ \A d \in Calls : On(call'[d], k, {"visible", "send"}) => posts'[k] = 0
                          /\ \A d \in Calls : On(call'[d], k, {"visible"}) => entry'[k].owner # None
                          /\ \A d \in Calls : On(call'[d], k, {"send"}) => None \notin Owners(k)'
                          /\ posts'[k] # 0 => None \notin Owners(k)'
        BY DEF Once
      <3>1. /\ posts[k] \in {0, 1}
            /\ \A d, e \in Calls :
                  On(call[d], k, {"visible", "send"}) /\ On(call[e], k, {"visible", "send"}) => d = e
            /\ \A d \in Calls : On(call[d], k, {"visible", "send"}) => posts[k] = 0
            /\ \A d \in Calls : On(call[d], k, {"visible"}) => entry[k].owner # None
            /\ \A d \in Calls : On(call[d], k, {"send"}) => None \notin Owners(k)
            /\ posts[k] # 0 => None \notin Owners(k)
        BY DEF RouterInv, Once
      <3>2. CASE k = m
        <4>1. posts[k] = 0
          BY <2>d, <3>1, <3>2
        <4>2. \A d \in Calls : ~On(call[d], k, {"visible"}) /\ ~On(call[d], k, {"send"})
          BY <2>d, <3>1, <3>2
        <4>3. \A d \in Calls : ~On(call[d], k, {"visible", "send"})
          BY <4>2 DEF On
        <4>4. entry'[k].owner # None
          BY <2>b, <2>c, <3>2
        <4>5. QED
          BY <1>2, <1>4, <2>w, <4>1, <4>2, <4>3, <4>4
      <3>3. CASE k # m
        BY <1>2, <1>4, <2>c, <2>e, <2>w, <3>1, <3>3
      <3>4. QED
        BY <3>2, <3>3
    <2>8. QED
      BY <2>5, <2>6, <2>7
  <1>8. QED
    BY <1>3, <1>s, <1>v

(* The directory sync: what was linked is the only version left. *)
LEMMA SyncKeeps ==
    ASSUME RouterInv, [Next]_vars, NEW c \in Calls, Sync(c)
    PROVE  Bound' /\ Following' /\ Once'
  <1>1. TypeOK /\ traffic' = traffic
    BY Grows DEF RouterInv
  <1>2. UNCHANGED <<reached, posts, entry>> /\ call[c].pc = "visible"
    BY DEF Sync, history, At
  <1>3. PICK w \in CallType :
            /\ call' = [call EXCEPT ![c] = w]
            /\ w.q = call[c].q /\ w.inner = FALSE /\ w.b = call[c].b
            /\ w.pc = IF call[c].inner THEN "publish" ELSE "send"
    BY SyncMoves
  <1>4. call'[c] = w /\ \A d \in Calls : d # c => call'[d] = call[d]
    BY <1>1, <1>3, Moved
  <1>z. PICK m \in Keys : m = Working(c)
    BY <1>2, WorkingKey
  <1>a. /\ m \in Keys /\ call[c].q \in traffic /\ Handled(call[c], traffic, confirmed)
        /\ call[c].inner => m = ParentKey(call[c].q)
        /\ ~call[c].inner => m = Key(call[c].q)
    BY <1>2, <1>z, WorkingKey
  <1>b. call[c].q.route \in Binding /\ call[c].b # None /\ (call[c].inner => call[c].q.route = "prepare")
    BY <1>2, <1>a DEF Handled
  <1>c. /\ \A k \in Keys : Owners(k)' \subseteq Owners(k)
        /\ Owners(m)' = {entry[m].owner}
    <2>1. \A k \in Keys : Versioned(k)
      BY SyncRecords
    <2>2. maybe'[m] = {entry[m]}
      BY <1>z, SyncRecords
    <2>3. \A k \in Keys : Owners(k)' \subseteq Owners(k) \cup {entry[k].owner} /\ entry[k].owner \in Owners(k)
      BY <1>2, <2>1, OwnersMove, OwnerSeen
    <2>4. QED
      BY <2>2, <2>3 DEF Owners
  <1>o. /\ \A k : ~On(w, k, {"visible"}) /\ ~Linked(w, k)
        /\ \A k : On(w, k, {"send"}) \/ On(w, k, {"visible", "send"}) => ~call[c].inner /\ k = m
              /\ On(call[c], k, {"visible"}) /\ On(call[c], k, {"visible", "send"})
        /\ \A k : On(w, k, {"publish", "visible", "send"}) /\ ~call[c].inner =>
              On(call[c], k, {"publish", "visible", "send"})
    BY <1>2, <1>3, <1>a, <1>b DEF On, Linked
  <1>5. Bound'
    <2> SUFFICES ASSUME NEW q \in traffic, q.route \in Binding, Key(q) \notin exposed'
                 PROVE  /\ \A x, y \in reached'[Key(q)] : x = y
                        /\ Effectful(q)' =>
                              /\ \A x \in reached'[Key(q)] : Owners(Key(q))' \subseteq {x}
                              /\ \A d \in Calls : On(call'[d], Key(q), {"send"}) => Owners(Key(q))' \subseteq {call'[d].b}
                              /\ \A d \in Calls : On(call'[d], Key(q), {"visible"}) => entry'[Key(q)].owner = call'[d].b
      BY <1>1 DEF Bound
    <2>1. Key(q) \in Keys /\ Key(q) \notin exposed /\ Key(q)[1] # "scoped_parents"
      BY <1>1, BindingKeys, StillEffectful, KeyShape
    <2>2. \A x, y \in reached[Key(q)] : x = y
      BY <2>1 DEF RouterInv, Bound
    <2>3. Effectful(q)' => Effectful(q)
      BY StillEffectful
    <2>4. Effectful(q) =>
              /\ \A x \in reached[Key(q)] : Owners(Key(q)) \subseteq {x}
              /\ \A d \in Calls : On(call[d], Key(q), {"send"}) => Owners(Key(q)) \subseteq {call[d].b}
              /\ \A d \in Calls : On(call[d], Key(q), {"visible"}) => entry[Key(q)].owner = call[d].b
      BY <2>1 DEF RouterInv, Bound
    <2>5. QED
      BY <1>2, <1>3, <1>4, <1>c, <1>o, <2>1, <2>2, <2>3, <2>4
  <1>6. Following'
    <2> SUFFICES ASSUME NEW q \in traffic, Led(q)'
                 PROVE  /\ \A x \in Owners(Key(q))' : x # None => Owners(Leader(q))' \subseteq {x}
                        /\ \A x \in reached'[Key(q)] : Owners(Leader(q))' \subseteq {x}
                        /\ \A d \in Calls : On(call'[d], Key(q), {"publish", "visible", "send"}) =>
                              Owners(Leader(q))' \subseteq {call'[d].b}
                        /\ \A d \in Calls : Linked(call'[d], Leader(q)) => entry'[Leader(q)].owner = call'[d].b
      BY <1>1 DEF Following
    <2>1. Led(q)
      BY StillEffectful
    <2>2. Key(q) \in Keys /\ Leader(q) \in Keys /\ Key(q) # Leader(q) /\ q.route \in Binding
      BY <1>1, <2>1, LeaderKey
    <2>3. /\ \A x \in Owners(Key(q)) : x # None => Owners(Leader(q)) \subseteq {x}
          /\ \A x \in reached[Key(q)] : Owners(Leader(q)) \subseteq {x}
          /\ \A d \in Calls : On(call[d], Key(q), {"publish", "visible", "send"}) =>
                Owners(Leader(q)) \subseteq {call[d].b}
          /\ \A d \in Calls : Linked(call[d], Leader(q)) => entry[Leader(q)].owner = call[d].b
      BY <2>1 DEF RouterInv, Following
    <2>4. ASSUME On(w, Key(q), {"publish", "visible", "send"})
          PROVE  Owners(Leader(q))' \subseteq {w.b}
      <3>1. CASE call[c].inner
        <4>1. Key(call[c].q) = Key(q)
          BY <1>3, <2>4 DEF On
        <4>2. q.route = "prepare" /\ ParentKey(q) = ParentKey(call[c].q)
          BY <1>1, <1>a, <1>b, <2>2, <3>1, <4>1, SameKey
        <4>3. Leader(q) = m /\ Linked(call[c], Leader(q))
          BY <1>2, <1>a, <3>1, <4>2 DEF Leader, Linked
        <4>4. entry[m].owner = call[c].b
          BY <2>3, <4>3
        <4>5. QED
          BY <1>3, <1>c, <4>3, <4>4
      <3>2. CASE ~call[c].inner
        BY <1>3, <1>c, <1>o, <2>2, <2>3, <2>4, <3>2
      <3>3. QED
        BY <3>1, <3>2
    <2>5. QED
      BY <1>2, <1>4, <1>c, <1>o, <2>2, <2>3, <2>4
  <1>7. Once'
    <2> SUFFICES ASSUME NEW k \in Keys, k[1] \in {"executions", "parents"}
                 PROVE  /\ posts'[k] \in {0, 1}
                        /\ \A d, e \in Calls :
                              On(call'[d], k, {"visible", "send"}) /\ On(call'[e], k, {"visible", "send"}) => d = e
                        /\ \A d \in Calls : On(call'[d], k, {"visible", "send"}) => posts'[k] = 0
                        /\ \A d \in Calls : On(call'[d], k, {"visible"}) => entry'[k].owner # None
                        /\ \A d \in Calls : On(call'[d], k, {"send"}) => None \notin Owners(k)'
                        /\ posts'[k] # 0 => None \notin Owners(k)'
      BY DEF Once
    <2>1. /\ posts[k] \in {0, 1}
          /\ \A d, e \in Calls :
                On(call[d], k, {"visible", "send"}) /\ On(call[e], k, {"visible", "send"}) => d = e
          /\ \A d \in Calls : On(call[d], k, {"visible", "send"}) => posts[k] = 0
          /\ \A d \in Calls : On(call[d], k, {"visible"}) => entry[k].owner # None
          /\ \A d \in Calls : On(call[d], k, {"send"}) => None \notin Owners(k)
          /\ posts[k] # 0 => None \notin Owners(k)
      BY DEF RouterInv, Once
    <2>2. QED
      BY <1>2, <1>4, <1>c, <1>o, <2>1
  <1>8. QED
    BY <1>5, <1>6, <1>7

(* The POST to the owner. *)
LEMMA ForwardKeeps ==
    ASSUME RouterInv, [Next]_vars, NEW c \in Calls, NEW v \in BOOLEAN, Forward(c, v)
    PROVE  Bound' /\ Following' /\ Once'
  <1>1. TypeOK /\ traffic' = traffic
    BY Grows DEF RouterInv
  <1>2. UNCHANGED <<entry, maybe, expired>> /\ call[c].pc = "send" /\ call' = [call EXCEPT ![c] = Idle]
    BY DEF Forward, At, Answers
  <1>3. call'[c] = Idle /\ \A d \in Calls : d # c => call'[d] = call[d]
    BY <1>1, <1>2, Moved
  <1>s. CASE UNCHANGED <<reached, posts>>
    <2>1. Quiet
      BY <1>2, <1>3, <1>s, SilentIdle DEF Quiet, OwnerKept
    <2>2. QED
      BY <2>1, QuietKeeps
  <1>e. CASE Delivered(c) /\ Effectful(call[c].q)
    <2> DEFINE o == call[c].q
               m == Key(o)
               b == call[c].b
    <2>a. call[c] \in CallType /\ Handled(call[c], traffic, confirmed) /\ o.route \in Binding
      BY <1>1, <1>2, <1>e DEF RouterInv, TypeOK, Handling, Effectful, Binding
    <2>b. o \in traffic /\ ~call[c].inner /\ b # None
      BY <1>2, <2>a DEF Handled
    <2>c. m \in Keys
      BY <1>1, <2>a, <2>b, BindingKeys
    <2>d. On(call[c], m, {"send"}) /\ On(call[c], m, {"publish", "visible", "send"}) /\ On(call[c], m, {"visible", "send"})
      BY <1>2, <2>a, <2>b DEF On
    <2>e. reached'[m] = reached[m] \cup {b} /\ \A k \in Keys : k # m => reached'[k] = reached[k]
      BY <1>1, <1>e, <2>c DEF Delivered, TypeOK
    <2>f. /\ \A k \in Keys : k # m => posts'[k] = posts[k]
          /\ posts'[m] = posts[m] \/ posts'[m] = Min({posts[m] + 1, 2})
      BY <1>1, <1>e, <2>c DEF Delivered, TypeOK
    <2>g. \A k : Owners(k)' = Owners(k)
      BY <1>2 DEF Owners
    <2>h. entry[m].owner \in Owners(m)
      BY <2>c, OwnerSeen
    <2>i. \A k : /\ ~On(Idle, k, {"publish", "visible", "send"}) /\ ~On(Idle, k, {"visible", "send"})
                 /\ ~On(Idle, k, {"visible"}) /\ ~On(Idle, k, {"send"}) /\ ~Linked(Idle, k)
      BY SilentIdle, SilentOff
    <2>j. m \notin exposed => /\ Owners(m) \subseteq {b}
                              /\ \A x \in reached[m] : Owners(m) \subseteq {x}
      BY <1>e, <2>a, <2>b, <2>d DEF RouterInv, Bound
    <2> HIDE DEF m, b
    <2>5. Bound'
      <3> SUFFICES ASSUME NEW q \in traffic, q.route \in Binding, Key(q) \notin exposed'
                   PROVE  /\ \A x, y \in reached'[Key(q)] : x = y
                          /\ Effectful(q)' =>
                                /\ \A x \in reached'[Key(q)] : Owners(Key(q))' \subseteq {x}
                                /\ \A d \in Calls : On(call'[d], Key(q), {"send"}) => Owners(Key(q))' \subseteq {call'[d].b}
                                /\ \A d \in Calls : On(call'[d], Key(q), {"visible"}) => entry'[Key(q)].owner = call'[d].b
        BY <1>1 DEF Bound
      <3>1. Key(q) \in Keys /\ Key(q) \notin exposed /\ Key(q)[1] # "scoped_parents"
        BY <1>1, BindingKeys, StillEffectful, KeyShape
      <3>2. \A x, y \in reached[Key(q)] : x = y
        BY <3>1 DEF RouterInv, Bound
      <3>3. Effectful(q)' => Effectful(q)
        BY StillEffectful
      <3>4. Effectful(q) =>
                /\ \A x \in reached[Key(q)] : Owners(Key(q)) \subseteq {x}
                /\ \A d \in Calls : On(call[d], Key(q), {"send"}) => Owners(Key(q)) \subseteq {call[d].b}
                /\ \A d \in Calls : On(call[d], Key(q), {"visible"}) => entry[Key(q)].owner = call[d].b
        BY <3>1 DEF RouterInv, Bound
      <3>5. CASE Key(q) = m
        <4>1. \A x \in reached'[m] : x = b /\ Owners(m) \subseteq {x}
          BY <2>e, <2>h, <2>j, <3>1, <3>5
        <4>2. QED
          BY <1>2, <1>3, <2>g, <2>i, <3>3, <3>4, <3>5, <4>1
      <3>6. CASE Key(q) # m
        BY <1>2, <1>3, <2>e, <2>g, <2>i, <3>1, <3>2, <3>3, <3>4, <3>6
      <3>7. QED
        BY <3>5, <3>6
    <2>6. Following'
      <3> SUFFICES ASSUME NEW q \in traffic, Led(q)'
                   PROVE  /\ \A x \in Owners(Key(q))' : x # None => Owners(Leader(q))' \subseteq {x}
                          /\ \A x \in reached'[Key(q)] : Owners(Leader(q))' \subseteq {x}
                          /\ \A d \in Calls : On(call'[d], Key(q), {"publish", "visible", "send"}) =>
                                Owners(Leader(q))' \subseteq {call'[d].b}
                          /\ \A d \in Calls : Linked(call'[d], Leader(q)) => entry'[Leader(q)].owner = call'[d].b
        BY <1>1 DEF Following
      <3>1. Led(q)
        BY StillEffectful
      <3>2. Key(q) \in Keys /\ Leader(q) \in Keys /\ Key(q) # Leader(q) /\ q.route \in Binding
        BY <1>1, <3>1, LeaderKey
      <3>3. /\ \A x \in Owners(Key(q)) : x # None => Owners(Leader(q)) \subseteq {x}
            /\ \A x \in reached[Key(q)] : Owners(Leader(q)) \subseteq {x}
            /\ \A d \in Calls : On(call[d], Key(q), {"publish", "visible", "send"}) =>
                  Owners(Leader(q)) \subseteq {call[d].b}
            /\ \A d \in Calls : Linked(call[d], Leader(q)) => entry[Leader(q)].owner = call[d].b
        BY <3>1 DEF RouterInv, Following
      <3>4. \A x \in reached'[Key(q)] : Owners(Leader(q)) \subseteq {x}
        BY <2>d, <2>e, <3>2, <3>3 DEF b
      <3>5. QED
        BY <1>2, <1>3, <2>g, <2>i, <3>3, <3>4
    <2>7. Once'
      <3> SUFFICES ASSUME NEW k \in Keys, k[1] \in {"executions", "parents"}
                   PROVE  /\ posts'[k] \in {0, 1}
                          /\ \A d, e \in Calls :
                                On(call'[d], k, {"visible", "send"}) /\ On(call'[e], k, {"visible", "send"}) => d = e
                          /\ \A d \in Calls : On(call'[d], k, {"visible", "send"}) => posts'[k] = 0
                          /\ \A d \in Calls : On(call'[d], k, {"visible"}) => entry'[k].owner # None
                          /\ \A d \in Calls : On(call'[d], k, {"send"}) => None \notin Owners(k)'
                          /\ posts'[k] # 0 => None \notin Owners(k)'
        BY DEF Once
      <3>1. /\ posts[k] \in {0, 1}
            /\ \A d, e \in Calls :
                  On(call[d], k, {"visible", "send"}) /\ On(call[e], k, {"visible", "send"}) => d = e
            /\ \A d \in Calls : On(call[d], k, {"visible", "send"}) => posts[k] = 0
            /\ \A d \in Calls : On(call[d], k, {"visible"}) => entry[k].owner # None
            /\ \A d \in Calls : On(call[d], k, {"send"}) => None \notin Owners(k)
            /\ posts[k] # 0 => None \notin Owners(k)
        BY DEF RouterInv, Once
      <3>2. CASE k = m
        <4>1. posts[k] = 0 /\ None \notin Owners(k)
          BY <2>d, <3>1, <3>2
        <4>2. posts'[k] \in {0, 1}
          BY <2>f, <3>2, <4>1, Smallest
        <4>3. \A d \in Calls : ~On(call'[d], k, {"visible", "send"})
          BY <1>3, <2>d, <2>i, <3>1, <3>2
        <4>4. \A d \in Calls : ~On(call'[d], k, {"visible"}) /\ ~On(call'[d], k, {"send"})
          BY <4>3 DEF On
        <4>5. QED
          BY <2>g, <4>1, <4>2, <4>3, <4>4
      <3>3. CASE k # m
        BY <1>2, <1>3, <2>f, <2>g, <2>i, <3>1, <3>3
      <3>4. QED
        BY <3>2, <3>3
    <2>8. QED
      BY <2>5, <2>6, <2>7
  <1>n. CASE Delivered(c) /\ ~Effectful(call[c].q)
    BY <1>n, <1>s DEF Delivered
  <1>8. QED
    BY <1>s, <1>e, <1>n DEF Forward

-----------------------------------------------------------------------------
(* The invariant and what it gives.                                         *)

(* Every step keeps the last three parts of the invariant. *)
LEMMA NodesStep ==
    ASSUME RouterInv, [Next]_vars
    PROVE  Bound' /\ Following' /\ Once'
  <1>t. TypeOK
    BY DEF RouterInv
  <1>1. ASSUME NEW c \in Calls, NEW q \in traffic, Bind(c, q) /\ q.route \in Binding
        PROVE  Bound' /\ Following' /\ Once'
    <2>1. \E w \in CallType : call' = [call EXCEPT ![c] = w] /\ Silent(w)
      BY <1>1, BindMoves
    <2>2. \A d \in Calls : call'[d] = call[d] \/ Silent(call'[d])
      BY <1>t, <2>1, Moved
    <2>3. \A x \in Keys : OwnerKept(x)
      BY <1>1 DEF Bind, ledgers, OwnerKept
    <2>4. UNCHANGED <<reached, posts>>
      BY <1>1 DEF Bind, history
    <2>5. Quiet
      BY <2>2, <2>3, <2>4 DEF Quiet
    <2>6. QED
      BY <2>5, QuietKeeps
  <1>2. ASSUME NEW c \in Calls, NEW q \in traffic, Find(c, q) /\ q.route \in Looking
        PROVE  Bound' /\ Following' /\ Once'
    <2>1. \E w \in CallType : call' = [call EXCEPT ![c] = w] /\ Silent(w)
      BY <1>2, FindMoves
    <2>2. \A d \in Calls : call'[d] = call[d] \/ Silent(call'[d])
      BY <1>t, <2>1, Moved
    <2>3. \A x \in Keys : OwnerKept(x)
      BY <1>2 DEF Find, ledgers, OwnerKept
    <2>4. UNCHANGED <<reached, posts>>
      BY <1>2 DEF Find, history
    <2>5. Quiet
      BY <2>2, <2>3, <2>4 DEF Quiet
    <2>6. QED
      BY <2>5, QuietKeeps
  <1>3. ASSUME NEW c \in Calls, NEW q \in traffic, Prewarm(c, q)
        PROVE  Bound' /\ Following' /\ Once'
    <2>1. \E w \in CallType : call' = [call EXCEPT ![c] = w] /\ Silent(w)
      BY <1>3, PrewarmMoves
    <2>2. \A d \in Calls : call'[d] = call[d] \/ Silent(call'[d])
      BY <1>t, <2>1, Moved
    <2>3. \A x \in Keys : OwnerKept(x)
      BY <1>3 DEF Prewarm, ledgers, OwnerKept
    <2>4. UNCHANGED <<reached, posts>>
      BY <1>3 DEF Prewarm, history
    <2>5. Quiet
      BY <2>2, <2>3, <2>4 DEF Quiet
    <2>6. QED
      BY <2>5, QuietKeeps
  <1>4. ASSUME NEW c \in Calls, NEW q \in traffic, ProbeBegins(c, q)
        PROVE  Bound' /\ Following' /\ Once'
    <2>1. \E w \in CallType : call' = [call EXCEPT ![c] = w] /\ Silent(w)
      BY <1>4, ProbeMoves
    <2>2. \A d \in Calls : call'[d] = call[d] \/ Silent(call'[d])
      BY <1>t, <2>1, Moved
    <2>3. \A x \in Keys : OwnerKept(x)
      BY <1>4 DEF ProbeBegins, ledgers, OwnerKept
    <2>4. UNCHANGED <<reached, posts>>
      BY <1>4 DEF ProbeBegins, history
    <2>5. Quiet
      BY <2>2, <2>3, <2>4 DEF Quiet
    <2>6. QED
      BY <2>5, QuietKeeps
  <1>5. ASSUME NEW c \in Calls, Claim(c)
        PROVE  Bound' /\ Following' /\ Once'
    BY <1>5, ClaimKeeps
  <1>6. ASSUME NEW c \in Calls, Sweep(c)
        PROVE  Bound' /\ Following' /\ Once'
    <2>1. \E w \in CallType : call' = [call EXCEPT ![c] = w] /\ Silent(w)
      BY <1>6, SweepMoves
    <2>2. \A d \in Calls : call'[d] = call[d] \/ Silent(call'[d])
      BY <1>t, <2>1, Moved
    <2>3. \A x \in Keys : OwnerKept(x)
      BY <1>6, SweepRecords
    <2>4. UNCHANGED <<reached, posts>>
      BY <1>6 DEF Sweep, history
    <2>5. Quiet
      BY <2>2, <2>3, <2>4 DEF Quiet
    <2>6. QED
      BY <2>5, QuietKeeps
  <1>7. ASSUME NEW c \in Calls, Choose(c)
        PROVE  Bound' /\ Following' /\ Once'
    BY <1>7, ChooseKeeps
  <1>8. ASSUME NEW c \in Calls, Publish(c)
        PROVE  Bound' /\ Following' /\ Once'
    BY <1>8, PublishKeeps
  <1>9. ASSUME NEW c \in Calls, Sync(c)
        PROVE  Bound' /\ Following' /\ Once'
    BY <1>9, SyncKeeps
  <1>10. ASSUME NEW c \in Calls, SyncFails(c)
        PROVE  Bound' /\ Following' /\ Once'
    <2>1. \E w \in CallType : call' = [call EXCEPT ![c] = w] /\ Silent(w)
      BY <1>10, IdleFacts, SilentIdle DEF SyncFails, Answers
    <2>2. \A d \in Calls : call'[d] = call[d] \/ Silent(call'[d])
      BY <1>t, <2>1, Moved
    <2>3. \A x \in Keys : OwnerKept(x)
      BY <1>10 DEF SyncFails, ledgers, OwnerKept
    <2>4. UNCHANGED <<reached, posts>>
      BY <1>10 DEF SyncFails, history
    <2>5. Quiet
      BY <2>2, <2>3, <2>4 DEF Quiet
    <2>6. QED
      BY <2>5, QuietKeeps
  <1>11. ASSUME NEW c \in Calls, NEW v \in BOOLEAN, Forward(c, v)
        PROVE  Bound' /\ Following' /\ Once'
    BY <1>11, ForwardKeeps
  <1>12. ASSUME NEW c \in Calls, Confirmed(c)
        PROVE  Bound' /\ Following' /\ Once'
    <2>1. \E w \in CallType : call' = [call EXCEPT ![c] = w] /\ Silent(w)
      BY <1>12, ConfirmedMoves
    <2>2. \A d \in Calls : call'[d] = call[d] \/ Silent(call'[d])
      BY <1>t, <2>1, Moved
    <2>3. \A x \in Keys : OwnerKept(x)
      BY <1>12 DEF Confirmed, ledgers, OwnerKept
    <2>4. UNCHANGED <<reached, posts>>
      BY <1>12 DEF Confirmed, history
    <2>5. Quiet
      BY <2>2, <2>3, <2>4 DEF Quiet
    <2>6. QED
      BY <2>5, QuietKeeps
  <1>13. ASSUME NEW c \in Calls, Retire(c)
        PROVE  Bound' /\ Following' /\ Once'
    <2>1. \E w \in CallType : call' = [call EXCEPT ![c] = w] /\ Silent(w)
      BY <1>13, RetireMoves
    <2>2. \A d \in Calls : call'[d] = call[d] \/ Silent(call'[d])
      BY <1>t, <2>1, Moved
    <2>3. \A x \in Keys : OwnerKept(x)
      BY <1>13, RetireRecords
    <2>4. UNCHANGED <<reached, posts>>
      BY <1>13 DEF Retire, history
    <2>5. Quiet
      BY <2>2, <2>3, <2>4 DEF Quiet
    <2>6. QED
      BY <2>5, QuietKeeps
  <1>14. ASSUME NEW c \in Calls, Unmark(c)
        PROVE  Bound' /\ Following' /\ Once'
    <2>1. \E w \in CallType : call' = [call EXCEPT ![c] = w] /\ Silent(w)
      BY <1>14, UnmarkMoves
    <2>2. \A d \in Calls : call'[d] = call[d] \/ Silent(call'[d])
      BY <1>t, <2>1, Moved
    <2>3. \A x \in Keys : OwnerKept(x)
      BY <1>14, RetireRecords
    <2>4. UNCHANGED <<reached, posts>>
      BY <1>14 DEF Unmark, history
    <2>5. Quiet
      BY <2>2, <2>3, <2>4 DEF Quiet
    <2>6. QED
      BY <2>5, QuietKeeps
  <1>15. ASSUME NEW c \in Calls, ProbeEnds(c)
        PROVE  Bound' /\ Following' /\ Once'
    <2>1. \E w \in CallType : call' = [call EXCEPT ![c] = w] /\ Silent(w)
      BY <1>15, IdleFacts, SilentIdle DEF ProbeEnds, Answers
    <2>2. \A d \in Calls : call'[d] = call[d] \/ Silent(call'[d])
      BY <1>t, <2>1, Moved
    <2>3. \A x \in Keys : OwnerKept(x)
      BY <1>15 DEF ProbeEnds, ledgers, OwnerKept
    <2>4. UNCHANGED <<reached, posts>>
      BY <1>15 DEF ProbeEnds, history
    <2>5. Quiet
      BY <2>2, <2>3, <2>4 DEF Quiet
    <2>6. QED
      BY <2>5, QuietKeeps
  <1>16. ASSUME NEW r \in Routers, Crash(r)
        PROVE  Bound' /\ Following' /\ Once'
    <2>2. \A d \in Calls : call'[d] = call[d] \/ Silent(call'[d])
      BY <1>16, <1>t, SilentIdle DEF Crash
    <2>3. \A x \in Keys : OwnerKept(x)
      BY <1>16 DEF Crash, ledgers, OwnerKept
    <2>4. UNCHANGED <<reached, posts>>
      BY <1>16 DEF Crash, history
    <2>5. Quiet
      BY <2>2, <2>3, <2>4 DEF Quiet
    <2>6. QED
      BY <2>5, QuietKeeps
  <1>17. ASSUME NEW q \in traffic, Expire(q)
        PROVE  Bound' /\ Following' /\ Once'
    <2>2. \A d \in Calls : call'[d] = call[d] \/ Silent(call'[d])
      BY <1>17 DEF Expire
    <2>3. \A x \in Keys : OwnerKept(x)
      BY <1>17 DEF Expire, ledgers, OwnerKept
    <2>4. UNCHANGED <<reached, posts>>
      BY <1>17 DEF Expire, history
    <2>5. Quiet
      BY <2>2, <2>3, <2>4 DEF Quiet
    <2>6. QED
      BY <2>5, QuietKeeps
  <1>18. ASSUME NEW k \in Keys, Age(k)
        PROVE  Bound' /\ Following' /\ Once'
    <2>2. \A d \in Calls : call'[d] = call[d] \/ Silent(call'[d])
      BY <1>18 DEF Age
    <2>3. \A x \in Keys : OwnerKept(x)
      BY <1>18 DEF Age, ledgers, OwnerKept
    <2>4. UNCHANGED <<reached, posts>>
      BY <1>18 DEF Age, history
    <2>5. Quiet
      BY <2>2, <2>3, <2>4 DEF Quiet
    <2>6. QED
      BY <2>5, QuietKeeps
  <1>19. CASE PowerLoss
    <2>2. \A d \in Calls : call'[d] = call[d] \/ Silent(call'[d])
      BY <1>19, <1>t, SilentIdle DEF PowerLoss
    <2>3. \A x \in Keys : OwnerKept(x)
      BY <1>19, LossRecords
    <2>4. UNCHANGED <<reached, posts>>
      BY <1>19 DEF PowerLoss, history
    <2>5. Quiet
      BY <2>2, <2>3, <2>4 DEF Quiet
    <2>6. QED
      BY <2>5, QuietKeeps
  <1>20. CASE UNCHANGED vars
    <2>2. \A d \in Calls : call'[d] = call[d] \/ Silent(call'[d])
      BY <1>20 DEF vars
    <2>3. \A x \in Keys : OwnerKept(x)
      BY <1>20 DEF vars, ledgers, OwnerKept
    <2>4. UNCHANGED <<reached, posts>>
      BY <1>20 DEF vars, history
    <2>5. Quiet
      BY <2>2, <2>3, <2>4 DEF Quiet
    <2>6. QED
      BY <2>5, QuietKeeps
  <1>21. QED
    BY RouterCases, <1>1, <1>2, <1>3, <1>4, <1>5, <1>6, <1>7, <1>8, <1>9, <1>10,
       <1>11, <1>12, <1>13, <1>14, <1>15, <1>16, <1>17, <1>18, <1>19, <1>20

(* The invariant holds before any request. *)
LEMMA RouterInit ==
    ASSUME Init
    PROVE  RouterInv
  <1>1. NoRecord \in Entry /\ NoRecord.owner = None /\ ~NoRecord.mark
    BY DEF NoRecord, Entry
  <1>2. TypeOK
    BY <1>1, IdleFacts DEF Init, TypeOK
  <1>3. \A c \in Calls : Silent(call[c]) /\ Handled(call[c], traffic, confirmed)
    BY SilentIdle DEF Init
  <1>4. \A k \in Keys : entry[k] = NoRecord /\ maybe[k] = {NoRecord} /\ reached[k] = {} /\ posts[k] = 0
    BY DEF Init
  <1>5. \A k \in Keys : Owners(k) = {None}
    BY <1>1, <1>4 DEF Owners
  <1>6. Handling
    BY <1>3 DEF Handling
  <1>7. Recorded
    BY <1>1, <1>4 DEF Recorded, Init
  <1>8. Bound
    BY <1>2, <1>3, <1>4, BindingKeys, SilentOff DEF Bound
  <1>9. Following
    BY <1>2, <1>3, <1>4, <1>5, LeaderKey, SilentOff DEF Following
  <1>10. Once
    BY <1>3, <1>4, SilentOff DEF Once
  <1>11. QED
    BY <1>2, <1>6, <1>7, <1>8, <1>9, <1>10 DEF RouterInv

(* RouterInv holds in every state the replicas reach: it is inductive over  *)
(* every handler step of router.rs, its crashes and the power losses.       *)
THEOREM RouterInvariant == Spec => []RouterInv
  <1>1. Init => RouterInv
    BY RouterInit
  <1>2. RouterInv /\ [Next]_vars => RouterInv'
    BY TypeAndRecordsStep, NodesStep DEF RouterInv
  <1>3. QED
    BY <1>1, <1>2, PTL DEF Spec

(* The handlers, the ledgers and the history always have their types:       *)
(* router.rs and router_ownership.rs never hold a record without an owner,  *)
(* a handler without its request.                                           *)
THEOREM RouterTyped == Spec => []TypeOK
  <1>1. RouterInv => TypeOK
    BY DEF RouterInv
  <1>2. QED
    BY <1>1, RouterInvariant, PTL

(* A set whose members are all equal has one at most. *)
LEMMA AtMostOne ==
    ASSUME NEW S, \A x, y \in S : x = y
    PROVE  Cardinality(S) <= 1
  <1>1. CASE S = {}
    BY <1>1, FS_EmptySet
  <1>2. CASE S # {}
    <2>1. PICK x \in S : S = {x}
      BY <1>2
    <2>2. QED
      BY <2>1, FS_Singleton
  <1>3. QED
    BY <1>1, <1>2

(* Ledger::claim, router_parents::forward and router_scoped::place: for     *)
(* every fleet, every set of replicas and every traffic, an id whose        *)
(* binding was durable whenever it was used makes at most one node act, and *)
(* what follows it the same one.                                            *)
THEOREM RouterOneNode == Spec => []OneNode
  <1>1. ASSUME RouterInv, NEW q \in traffic, NEW o \in traffic, q.route \in Binding,
               q = o \/ Follows(q, o), (Placing(q) \cup Placing(o)) \cap exposed = {}
        PROVE  Cardinality(reached[Key(q)] \cup reached[Key(o)]) <= 1
    <2>1. TypeOK /\ Key(q) \notin exposed /\ Key(o) \notin exposed
      BY <1>1 DEF RouterInv, Placing
    <2>2. \A x, y \in reached[Key(q)] : x = y
      BY <1>1, <2>1 DEF RouterInv, Bound
    <2>3. CASE q = o
      BY <2>2, <2>3, AtMostOne
    <2>4. CASE q.route = "create" /\ o.route = "provision" /\ q.id = o.id /\ q.id \notin early
      <3>1. Leader(q) = Key(o)
        BY <2>4 DEF Leader, Key, Ledger
      <3>2. Led(q)
        BY <2>1, <2>4, <3>1 DEF Led
      <3>3. \A x \in reached[Key(q)] : Owners(Key(o)) \subseteq {x}
        BY <1>1, <3>1, <3>2 DEF RouterInv, Following
      <3>4. \A x \in reached[Key(o)] : Owners(Key(o)) \subseteq {x}
        BY <1>1, <2>1, <2>4 DEF RouterInv, Bound, Effectful, Binding
      <3>5. \A x, y \in reached[Key(o)] : x = y
        BY <1>1, <2>1, <2>4 DEF RouterInv, Bound, Binding
      <3>6. entry[Key(o)].owner \in Owners(Key(o))
        BY <1>1, <2>1, <2>4, BindingKeys, OwnerSeen DEF Binding
      <3>7. \A x, y \in reached[Key(q)] \cup reached[Key(o)] : x = y
        BY <2>2, <3>3, <3>4, <3>5, <3>6
      <3>8. QED
        BY <3>7, AtMostOne
    <2>5. CASE /\ q.route = "prepare" /\ q.lifecycle = "enduring-turn"
               /\ o.route = "prepare" /\ o.lifecycle = "enduring-initial"
               /\ q.parent = o.parent /\ ParentKey(o) \notin confirmed
      <3>1. Leader(q) = ParentKey(o) /\ Leader(o) = ParentKey(o)
        BY <2>5 DEF Leader, ParentKey
      <3>2. ParentKey(o) \notin exposed
        BY <1>1, <2>5 DEF Placing
      <3>3. Led(q) /\ Led(o)
        BY <2>5, <3>1, <3>2 DEF Led
      <3>4. /\ \A x \in reached[Key(q)] : Owners(ParentKey(o)) \subseteq {x}
            /\ \A x \in reached[Key(o)] : Owners(ParentKey(o)) \subseteq {x}
        BY <1>1, <3>1, <3>3 DEF RouterInv, Following
      <3>5. entry[ParentKey(o)].owner \in Owners(ParentKey(o))
        BY <1>1, <2>1, <2>5, BindingKeys, OwnerSeen
      <3>6. \A x, y \in reached[Key(q)] \cup reached[Key(o)] : x = y
        BY <3>4, <3>5
      <3>7. QED
        BY <3>6, AtMostOne
    <2>6. QED
      BY <1>1, <2>3, <2>4, <2>5 DEF Follows
  <1>2. RouterInv => OneNode
    BY <1>1 DEF OneNode, Binding
  <1>3. QED
    BY <1>2, RouterInvariant, PTL

(* "POST will not be replayed": for every fleet and every traffic, a        *)
(* submission and a creation are posted at most once (router.rs submit,     *)
(* router_parents.rs forward), whatever is lost, retried or crashes.        *)
THEOREM RouterPostedOnce == Spec => []PostedOnce
  <1>1. RouterInv => PostedOnce
    BY DEF RouterInv, Once, PostedOnce
  <1>2. QED
    BY <1>1, RouterInvariant, PTL

-------------------------------------------------------------------------------
(* The provision of a parent (ParentProvision).                             *)

(* What is issued for a run, once it was synced, stays what it is. *)
Pinned ==
    /\ \A r \in Runs : safe.issued[r] # Unissued => files.issued[r] = safe.issued[r]
    /\ \A h \in Handlers : route[h].at = "winner" => files.issued[route[h].plan.run] # Unissued
    /\ \A r \in Runs : files.issued[r] # Unissued => files.issued[r].intent.run = r

(* A profile of the plan and the permit that disk d says its run was issued. *)
Issued(d, p) ==
    /\ d.issued[p.plan.run] # Unissued
    /\ d.issued[p.plan.run].intent = p.plan /\ d.issued[p.plan.run].permit = p.permit

(* Every profile that is on the disk, on its way there, answered, created   *)
(* from or launched from is one, and who creates it is its principal.       *)
Profiles ==
    /\ \A h \in Handlers :
          /\ route[h].at \in {"permit", "permitted", "profile", "profiled", "synced", "create"} =>
                Issued(safe, route[h].profile)
          /\ route[h].at = "create" => route[h].who = route[h].profile.plan.caller
    /\ \A p \in files.profiles \cup safe.profiles \cup answered : Issued(safe, p)
    /\ \A r \in Runs : owners[r].at # "none" =>
          /\ Issued(safe, owners[r].profile) /\ owners[r].profile.plan.run = r
          /\ owners[r].who = owners[r].profile.plan.caller

(* A run that has or had an owner was claimed, and is launched by it once;  *)
(* its turns are those of its issued plan's principal.                      *)
LaunchedFrom ==
    /\ \A r \in Runs :
          /\ owners[r].at # "none" => r \in tombs
          /\ launched[r] # <<>> => r \in tombs /\ owners[r].at \notin {"claimed", "parent", "pair"}
          /\ launched[r] # <<>> => \E p \in ProfileType : launched[r] = <<p>> /\ Issued(safe, p) /\ p.plan.run = r
    /\ \A s \in served : /\ safe.issued[s.run] # Unissued
                         /\ s.who = safe.issued[s.run].intent.caller

ProvisionInv == ProvisionTypeOK /\ Pinned /\ Profiles /\ LaunchedFrom

(* The disjuncts of the next-state relation, one by one. *)
LEMMA ProvisionCases ==
    ASSUME [ProvisionNext]_provisionVars
    PROVE  \/ \E h \in Handlers, bearer \in Bearers, plan \in Plans : BeginProvision(h, bearer, plan)
           \/ \E h \in Handlers, bearer \in Bearers, profile \in files.profiles : BeginCreate(h, bearer, profile)
           \/ \E h \in Handlers, bearer \in Bearers, run \in Runs : SubmitTurn(h, bearer, run)
           \/ \E h \in Handlers, bearer \in Bearers, run \in Runs : StopOwner(h, bearer, run)
           \/ \E h \in Handlers : PersistIssuance(h)
           \/ \E h \in Handlers : ReadWinner(h)
           \/ \E h \in Handlers : PersistPermit(h)
           \/ \E h \in Handlers : SettlePermit(h)
           \/ \E h \in Handlers : PublishProfile(h)
           \/ \E h \in Handlers : SyncProfile(h)
           \/ \E h \in Handlers : AnswerProvision(h)
           \/ \E h \in Handlers : ProvisionFails(h)
           \/ \E h \in Handlers : ClaimAndSpawn(h)
           \/ \E run \in Runs : PrepareParent(run)
           \/ \E run \in Runs : PrepareWorker(run)
           \/ \E run \in Runs : LaunchParent(run)
           \/ \E run \in Runs : OwnerEnds(run)
           \/ ReplaceClients
           \/ WindowEnds
           \/ RevokePermit
           \/ DispatcherDies
           \/ HostLosesPower
           \/ UNCHANGED provisionVars
  BY DEF ProvisionNext

(* What a handler carries, by how far it is, and its going on. *)
LEMMA RouteShape ==
    ASSUME NEW x \in RouteType
    PROVE  /\ x.at \in {"issue", "winner"} => x.plan \in Plans /\ x.plan.run \in Runs
           /\ x.at \in {"permit", "permitted", "profile", "profiled", "synced", "create"} =>
                 x.profile \in ProfileType
           /\ x.at = "create" => x.who \in {p.caller : p \in Plans}
  BY DEF RouteType, Free, Runs

(* A handler with its plan goes on. *)
LEMMA PlanGoesOn ==
    ASSUME NEW x \in RouteType, x.at = "issue"
    PROVE  LET y == [x EXCEPT !.at = "winner"] IN
           y \in RouteType /\ y.at = "winner" /\ y.plan = x.plan
  <1>1. x \in [at : {"issue", "winner"}, plan : Plans]
    BY DEF RouteType, Free
  <1>2. QED
    BY <1>1 DEF RouteType

(* A handler with its profile goes on. *)
LEMMA ProfileGoesOn ==
    ASSUME NEW x \in RouteType, x.at \in {"permit", "permitted", "profile", "profiled", "synced"},
           NEW point \in {"permit", "permitted", "profile", "profiled", "synced"}
    PROVE  LET y == [x EXCEPT !.at = point] IN
           y \in RouteType /\ y.at = point /\ y.profile = x.profile
  <1>1. x \in [at : {"permit", "permitted", "profile", "profiled", "synced"}, profile : ProfileType]
    BY DEF RouteType, Free
  <1>2. QED
    BY <1>1 DEF RouteType

(* What an owner was made from, which its progress does not change. *)
LEMMA OwnerShape ==
    ASSUME NEW x \in OwnerType, x.at # "none"
    PROVE  x.profile \in ProfileType /\ x.who \in {p.caller : p \in Plans}
  BY DEF OwnerType, Unowned

(* An owner goes on with what it was made from. *)
LEMMA OwnerGoesOn ==
    ASSUME NEW x \in OwnerType, x.at # "none",
           NEW point \in {"claimed", "parent", "pair", "running", "ended"}
    PROVE  LET y == [x EXCEPT !.at = point] IN
           y \in OwnerType /\ y.at = point /\ y.profile = x.profile /\ y.who = x.who
  <1>1. x \in [at : {"claimed", "parent", "pair", "running", "ended"}, profile : ProfileType,
               who : {p.caller : p \in Plans}]
    BY DEF OwnerType, Unowned
  <1>2. QED
    BY <1>1 DEF OwnerType

(* What a profile holds. *)
LEMMA ProfileShape ==
    ASSUME NEW p \in ProfileType
    PROVE  p.plan \in Plans /\ p.permit \in PermitType /\ p.plan.run \in Runs
           /\ p.plan.caller \in {x.caller : x \in Plans}
  BY DEF ProfileType, Runs

(* What a disk holds. *)
LEMMA DiskShape ==
    ASSUME NEW d \in DiskType
    PROVE  /\ d.issued \in [Runs -> {Unissued} \cup [intent : Plans, permit : PermitType]]
           /\ d.permits \in SUBSET PermitType /\ d.profiles \in SUBSET ProfileType
  BY DEF DiskType

(* A disk with one of its directories replaced. *)
LEMMA DiskEdits ==
    ASSUME NEW d \in DiskType
    PROVE  /\ \A x \in [Runs -> {Unissued} \cup [intent : Plans, permit : PermitType]] :
                 LET e == [d EXCEPT !.issued = x] IN
                 e \in DiskType /\ e.issued = x /\ e.permits = d.permits /\ e.profiles = d.profiles
           /\ \A x \in SUBSET PermitType :
                 LET e == [d EXCEPT !.permits = x] IN
                 e \in DiskType /\ e.issued = d.issued /\ e.permits = x /\ e.profiles = d.profiles
           /\ \A x \in SUBSET ProfileType :
                 LET e == [d EXCEPT !.profiles = x] IN
                 e \in DiskType /\ e.issued = d.issued /\ e.permits = d.permits /\ e.profiles = x
  BY DEF DiskType

(* issue_for_run: the first candidate of a run is what is issued for it. *)
LEMMA IssueEffect ==
    ASSUME ProvisionTypeOK, NEW h \in Handlers, PersistIssuance(h)
    PROVE  /\ files' \in DiskType /\ files'.profiles = files.profiles
           /\ \A r \in Runs : files.issued[r] # Unissued => files'.issued[r] = files.issued[r]
           /\ files'.issued[route[h].plan.run] # Unissued
           /\ \A r \in Runs : files'.issued[r] = files.issued[r] \/ files'.issued[r].intent.run = r
  <1> DEFINE plan == route[h].plan
             old == files.issued[plan.run]
             new == IF old = Unissued THEN IssuanceOf(plan) ELSE old
             x == [files.issued EXCEPT ![plan.run] = new]
  <1>1. route[h] \in RouteType /\ route[h].at = "issue" /\ files \in DiskType /\ bootId \in 1..MaxBootId
    BY DEF ProvisionTypeOK, PersistIssuance
  <1>2. plan \in Plans /\ plan.run \in Runs
    BY <1>1, RouteShape
  <1>3. files.issued \in [Runs -> {Unissued} \cup [intent : Plans, permit : PermitType]]
    BY <1>1, DiskShape
  <1>4. IssuanceOf(plan) \in [intent : Plans, permit : PermitType]
    BY <1>1, <1>2 DEF IssuanceOf, PermitOf, PermitType
  <1>5. IssuanceOf(plan).intent = plan
    BY DEF IssuanceOf
  <1>6. IssuanceOf(plan) # Unissued
    <2>1. DOMAIN IssuanceOf(plan) = {"intent", "permit"}
      BY DEF IssuanceOf
    <2>2. DOMAIN Unissued = {"intent"}
      BY DEF Unissued
    <2>3. QED
      BY <2>1, <2>2
  <1>7. files' = [files EXCEPT !.issued = x]
    BY <1>1 DEF PersistIssuance, DiskType
  <1>8. x \in [Runs -> {Unissued} \cup [intent : Plans, permit : PermitType]]
    BY <1>2, <1>3, <1>4
  <1>9. files' \in DiskType /\ files'.issued = x /\ files'.profiles = files.profiles
    BY <1>1, <1>7, <1>8, DiskEdits
  <1>10. \A r \in Runs : x[r] = IF r = plan.run THEN new ELSE files.issued[r]
    BY <1>3
  <1>11. QED
    BY <1>2, <1>5, <1>6, <1>9, <1>10

(* The profile of a plan and the permit issued for it. *)
LEMMA WinnerEffect ==
    ASSUME ProvisionInv, NEW h \in Handlers, ReadWinner(h)
    PROVE  /\ route[h].at = "winner" /\ files.issued \in [Runs -> {Unissued} \cup [intent : Plans, permit : PermitType]]
           /\ safe' \in DiskType /\ safe'.profiles = safe.profiles
           /\ safe'.issued = safe.issued \/ safe'.issued = files.issued
           /\ \/ route' = [route EXCEPT ![h] = Free]
              \/ \E p \in ProfileType :
                    /\ route' = [route EXCEPT ![h] = [at |-> "permit", profile |-> p]]
                    /\ safe'.issued = files.issued /\ files.issued[p.plan.run] # Unissued
                    /\ files.issued[p.plan.run].intent = p.plan /\ files.issued[p.plan.run].permit = p.permit
  <1> DEFINE plan == route[h].plan
             saved == files.issued[plan.run]
  <1>1. route[h] \in RouteType /\ route[h].at = "winner" /\ files \in DiskType /\ safe \in DiskType
    BY DEF ProvisionInv, ProvisionTypeOK, ReadWinner
  <1>2. plan \in Plans /\ plan.run \in Runs
    BY <1>1, RouteShape
  <1>3. files.issued \in [Runs -> {Unissued} \cup [intent : Plans, permit : PermitType]]
    BY <1>1, DiskShape
  <1>4. saved # Unissued
    BY <1>1 DEF ProvisionInv, Pinned
  <1>5. saved \in [intent : Plans, permit : PermitType]
    BY <1>2, <1>3, <1>4
  <1>6. CASE ~SameIssuance(saved, plan)
    BY <1>1, <1>3, <1>6, DiskShape DEF ReadWinner, Responds
  <1>7. CASE SameIssuance(saved, plan)
    <2>1. safe' = [safe EXCEPT !.issued = files.issued]
      BY <1>7 DEF ReadWinner
    <2>2. safe' \in DiskType /\ safe'.profiles = safe.profiles /\ safe'.issued = files.issued
      BY <1>1, <1>3, <2>1, DiskEdits
    <2>3. ProfileOf(plan, saved.permit) \in ProfileType
          /\ ProfileOf(plan, saved.permit).plan = plan /\ ProfileOf(plan, saved.permit).permit = saved.permit
      BY <1>2, <1>5 DEF ProfileOf, ProfileType
    <2>4. saved.intent = plan
      BY <1>7 DEF SameIssuance
    <2>5. \/ route' = [route EXCEPT ![h] = [at |-> "permit", profile |-> ProfileOf(plan, saved.permit)]]
          \/ route' = [route EXCEPT ![h] = Free]
      BY <1>7 DEF ReadWinner, Responds
    <2>6. QED
      BY <1>1, <1>3, <1>4, <2>2, <2>3, <2>4, <2>5
  <1>8. QED
    BY <1>6, <1>7

(* What a power loss leaves. *)
LEMMA LossKeeps ==
    ASSUME ProvisionTypeOK, HostLosesPower
    PROVE  /\ files' \in DiskType /\ safe' = files'
           /\ files'.profiles \subseteq files.profiles \cup safe.profiles
           /\ \A r \in Runs : files'.issued[r] \in {files.issued[r], safe.issued[r]}
  <1>1. files \in DiskType /\ safe \in DiskType
    BY DEF ProvisionTypeOK
  <1>2. PICK some \in SUBSET Runs, permits \in SUBSET (files.permits \ safe.permits),
             profiles \in SUBSET (files.profiles \ safe.profiles) :
            files' = [issued |-> [r \in Runs |-> IF r \in some THEN files.issued[r] ELSE safe.issued[r]],
                      permits |-> safe.permits \cup permits,
                      profiles |-> safe.profiles \cup profiles]
    BY DEF HostLosesPower
  <1> DEFINE x == [r \in Runs |-> IF r \in some THEN files.issued[r] ELSE safe.issued[r]]
  <1>3. x \in [Runs -> {Unissued} \cup [intent : Plans, permit : PermitType]]
        /\ \A r \in Runs : x[r] \in {files.issued[r], safe.issued[r]}
    BY <1>1, DiskShape
  <1>4. safe.permits \cup permits \in SUBSET PermitType /\ safe.profiles \cup profiles \in SUBSET ProfileType
    BY <1>1, DiskShape
  <1> HIDE DEF x
  <1>5. files' = [issued |-> x, permits |-> safe.permits \cup permits, profiles |-> safe.profiles \cup profiles]
    BY <1>2 DEF x
  <1>6. files' \in DiskType /\ files'.issued = x /\ files'.profiles = safe.profiles \cup profiles
    BY <1>3, <1>4, <1>5 DEF DiskType
  <1>7. safe' = files'
    BY DEF HostLosesPower
  <1>8. QED
    BY <1>3, <1>6, <1>7

(* Types. *)
LEMMA ProvisionTypeStep ==
    ASSUME ProvisionInv, [ProvisionNext]_provisionVars
    PROVE  ProvisionTypeOK'
  <1>t. ProvisionTypeOK
    BY DEF ProvisionInv
  <1>f. Free \in RouteType /\ Unowned \in OwnerType
    BY DEF RouteType, OwnerType
  <1>r. \A h \in Handlers : route[h].at = "create" => route[h].profile.plan.run \in Runs
    BY <1>t, RouteShape, ProfileShape DEF ProvisionTypeOK
  <1>u. \A run \in Runs : owners[run] # Unowned => owners[run].at # "none"
    BY <1>t DEF ProvisionTypeOK, OwnerType, Unowned
  <1>1. ASSUME NEW h \in Handlers, NEW bearer \in Bearers, NEW plan \in Plans, BeginProvision(h, bearer, plan)
        PROVE  ProvisionTypeOK'
    <2>1. route' \in [Handlers -> RouteType]
      <3>1. [at |-> "issue", plan |-> plan] \in RouteType
        BY DEF RouteType
      <3>2. QED
        BY <1>1, <1>t, <3>1 DEF BeginProvision, ProvisionTypeOK
    <2>2. UNCHANGED <<clients, bootId, lapsed, files, safe, tombs, owners,
        answered, launched, served>>
      BY <1>1 DEF BeginProvision, disks, provisionGhosts
    <2>3. QED
      BY <1>t, <2>1, <2>2 DEF ProvisionTypeOK
  <1>2. ASSUME NEW h \in Handlers, NEW bearer \in Bearers, NEW profile \in files.profiles, BeginCreate(h, bearer, profile)
        PROVE  ProvisionTypeOK'
    <2>1. route' \in [Handlers -> RouteType]
      <3>1. profile \in ProfileType
        BY <1>t, DiskShape DEF ProvisionTypeOK
      <3>2. Authenticated(bearer) = profile.plan.caller
        BY <1>2 DEF BeginCreate, ProfileAdmitted, PermitAllows
      <3>3. Authenticated(bearer) \in {p.caller : p \in Plans}
        BY <3>1, <3>2, ProfileShape
      <3>4. [at |-> "create", profile |-> profile, who |-> Authenticated(bearer)] \in RouteType
        BY <3>1, <3>3 DEF RouteType
      <3>5. QED
        BY <1>2, <1>t, <3>4 DEF BeginCreate, ProvisionTypeOK
    <2>2. UNCHANGED <<clients, bootId, lapsed, files, safe, tombs, owners,
        answered, launched, served>>
      BY <1>2 DEF BeginCreate, disks, provisionGhosts
    <2>3. QED
      BY <1>t, <2>1, <2>2 DEF ProvisionTypeOK
  <1>3. ASSUME NEW h \in Handlers, NEW bearer \in Bearers, NEW run \in Runs, SubmitTurn(h, bearer, run)
        PROVE  ProvisionTypeOK'
    <2>1. served' \in SUBSET [run : Runs, who : {p.caller : p \in Plans}]
      <3>1. owners[run].at # "none" /\ owners[run] \in OwnerType /\ owners[run].who = Authenticated(bearer)
        BY <1>3, <1>t DEF SubmitTurn, Sees, ProvisionTypeOK
      <3>2. Authenticated(bearer) \in {p.caller : p \in Plans}
        BY <3>1, OwnerShape
      <3>3. [run |-> run, who |-> Authenticated(bearer)] \in [run : Runs, who : {p.caller : p \in Plans}]
        BY <3>2
      <3>4. QED
        BY <1>3, <1>t, <3>3 DEF SubmitTurn, ProvisionTypeOK
    <2>2. UNCHANGED <<clients, bootId, lapsed, files, safe, route, tombs, owners,
        answered, launched>>
      BY <1>3 DEF SubmitTurn, disks, provisionGhosts
    <2>3. QED
      BY <1>t, <2>1, <2>2 DEF ProvisionTypeOK
  <1>4. ASSUME NEW h \in Handlers, NEW bearer \in Bearers, NEW run \in Runs, StopOwner(h, bearer, run)
        PROVE  ProvisionTypeOK'
    <2>1. owners' \in [Runs -> OwnerType]
      <3>1. owners[run].at # "none" /\ owners[run] \in OwnerType
        BY <1>4, <1>t, <1>u DEF StopOwner, ProvisionTypeOK, Sees
      <3>2. \A point \in {"ended"} : [owners[run] EXCEPT !.at = point] \in OwnerType
        BY <3>1, OwnerGoesOn
      <3>3. \E point \in {"ended"} : owners' = [owners EXCEPT ![run] = [owners[run] EXCEPT !.at = point]]
        BY <1>4 DEF StopOwner, OwnerGoes
      <3>4. QED
        BY <1>t, <3>2, <3>3 DEF ProvisionTypeOK
    <2>2. UNCHANGED <<clients, bootId, lapsed, files, safe, route, tombs,
        answered, launched, served>>
      BY <1>4 DEF StopOwner, disks, provisionGhosts
    <2>3. QED
      BY <1>t, <2>1, <2>2 DEF ProvisionTypeOK
  <1>5. ASSUME NEW h \in Handlers, PersistIssuance(h)
        PROVE  ProvisionTypeOK'
    <2>1. files' \in DiskType
      BY <1>5, <1>t, IssueEffect
    <2>2. route' \in [Handlers -> RouteType]
      <3>1. [route[h] EXCEPT !.at = "winner"] \in RouteType
        BY <1>5, <1>t, PlanGoesOn DEF PersistIssuance, ProvisionTypeOK
      <3>2. QED
        BY <1>5, <1>t, <3>1 DEF PersistIssuance, Continues, ProvisionTypeOK
    <2>3. UNCHANGED <<clients, bootId, lapsed, safe, tombs, owners, answered,
        launched, served>>
      BY <1>5 DEF PersistIssuance, disks, provisionGhosts
    <2>4. QED
      BY <1>t, <2>1, <2>2, <2>3 DEF ProvisionTypeOK
  <1>6. ASSUME NEW h \in Handlers, ReadWinner(h)
        PROVE  ProvisionTypeOK'
    <2>1. safe' \in DiskType
      BY <1>6, WinnerEffect
    <2>2. route' \in [Handlers -> RouteType]
      <3>1. \A p \in ProfileType : [at |-> "permit", profile |-> p] \in RouteType
        BY DEF RouteType
      <3>2. \/ route' = [route EXCEPT ![h] = Free]
            \/ \E p \in ProfileType : route' = [route EXCEPT ![h] = [at |-> "permit", profile |-> p]]
        BY <1>6, WinnerEffect
      <3>3. QED
        BY <1>t, <1>f, <3>1, <3>2 DEF ProvisionTypeOK
    <2>3. UNCHANGED <<clients, bootId, lapsed, files, tombs, owners, answered,
        launched, served>>
      BY <1>6 DEF ReadWinner, disks, provisionGhosts
    <2>4. QED
      BY <1>t, <2>1, <2>2, <2>3 DEF ProvisionTypeOK
  <1>7. ASSUME NEW h \in Handlers, PersistPermit(h)
        PROVE  ProvisionTypeOK'
    <2>1. files' \in DiskType
      <3>1. route[h].profile.permit \in PermitType /\ files.permits \in SUBSET PermitType
        BY <1>7, <1>t, RouteShape, ProfileShape, DiskShape DEF PersistPermit, ProvisionTypeOK
      <3> DEFINE x == files.permits \cup {route[h].profile.permit}
      <3>2. files' = files \/ files' = [files EXCEPT !.permits = x]
        BY <1>7 DEF PersistPermit
      <3>3. x \in SUBSET PermitType
        BY <3>1
      <3> HIDE DEF x
      <3>4. QED
        BY <1>t, <3>2, <3>3, DiskEdits DEF ProvisionTypeOK
    <2>2. route' \in [Handlers -> RouteType]
      <3>1. [route[h] EXCEPT !.at = "permitted"] \in RouteType
        BY <1>7, <1>t, ProfileGoesOn DEF PersistPermit, ProvisionTypeOK
      <3>2. \/ route' = [route EXCEPT ![h] = [route[h] EXCEPT !.at = "permitted"]]
            \/ route' = [route EXCEPT ![h] = Free]
        BY <1>7 DEF PersistPermit, Continues, Responds
      <3>3. QED
        BY <1>t, <1>f, <3>1, <3>2 DEF ProvisionTypeOK
    <2>3. UNCHANGED <<clients, bootId, lapsed, safe, tombs, owners, answered,
        launched, served>>
      BY <1>7 DEF PersistPermit, disks, provisionGhosts
    <2>4. QED
      BY <1>t, <2>1, <2>2, <2>3 DEF ProvisionTypeOK
  <1>8. ASSUME NEW h \in Handlers, SettlePermit(h)
        PROVE  ProvisionTypeOK'
    <2>1. safe' \in DiskType
      <3>1. files.permits \in SUBSET PermitType /\ files.profiles \in SUBSET ProfileType
        BY <1>t, DiskShape DEF ProvisionTypeOK
      <3>2. safe' = [safe EXCEPT !.permits = files.permits]
        BY <1>8 DEF SettlePermit
      <3>3. QED
        BY <1>t, <3>1, <3>2, DiskEdits DEF ProvisionTypeOK
    <2>2. route' \in [Handlers -> RouteType]
      <3>1. [route[h] EXCEPT !.at = "profile"] \in RouteType
        BY <1>8, <1>t, ProfileGoesOn DEF SettlePermit, ProvisionTypeOK
      <3>2. \/ route' = [route EXCEPT ![h] = [route[h] EXCEPT !.at = "profile"]]
            \/ route' = [route EXCEPT ![h] = Free]
        BY <1>8 DEF SettlePermit, Continues, Responds
      <3>3. QED
        BY <1>t, <1>f, <3>1, <3>2 DEF ProvisionTypeOK
    <2>3. UNCHANGED <<clients, bootId, lapsed, files, tombs, owners, answered,
        launched, served>>
      BY <1>8 DEF SettlePermit, disks, provisionGhosts
    <2>4. QED
      BY <1>t, <2>1, <2>2, <2>3 DEF ProvisionTypeOK
  <1>9. ASSUME NEW h \in Handlers, PublishProfile(h)
        PROVE  ProvisionTypeOK'
    <2>1. files' \in DiskType
      <3>1. route[h].profile \in ProfileType /\ files.profiles \in SUBSET ProfileType
        BY <1>9, <1>t, RouteShape, DiskShape DEF PublishProfile, ProvisionTypeOK
      <3> DEFINE x == files.profiles \cup {route[h].profile}
      <3>2. files' = files \/ files' = [files EXCEPT !.profiles = x]
        BY <1>9 DEF PublishProfile
      <3>3. x \in SUBSET ProfileType
        BY <3>1
      <3> HIDE DEF x
      <3>4. QED
        BY <1>t, <3>2, <3>3, DiskEdits DEF ProvisionTypeOK
    <2>2. route' \in [Handlers -> RouteType]
      <3>1. [route[h] EXCEPT !.at = "profiled"] \in RouteType
        BY <1>9, <1>t, ProfileGoesOn DEF PublishProfile, ProvisionTypeOK
      <3>2. \/ route' = [route EXCEPT ![h] = [route[h] EXCEPT !.at = "profiled"]]
            \/ route' = [route EXCEPT ![h] = Free]
        BY <1>9 DEF PublishProfile, Continues, Responds
      <3>3. QED
        BY <1>t, <1>f, <3>1, <3>2 DEF ProvisionTypeOK
    <2>3. UNCHANGED <<clients, bootId, lapsed, safe, tombs, owners, answered,
        launched, served>>
      BY <1>9 DEF PublishProfile, disks, provisionGhosts
    <2>4. QED
      BY <1>t, <2>1, <2>2, <2>3 DEF ProvisionTypeOK
  <1>10. ASSUME NEW h \in Handlers, SyncProfile(h)
        PROVE  ProvisionTypeOK'
    <2>1. safe' \in DiskType
      <3>1. files.permits \in SUBSET PermitType /\ files.profiles \in SUBSET ProfileType
        BY <1>t, DiskShape DEF ProvisionTypeOK
      <3>2. safe' = [safe EXCEPT !.profiles = files.profiles]
        BY <1>10 DEF SyncProfile
      <3>3. QED
        BY <1>t, <3>1, <3>2, DiskEdits DEF ProvisionTypeOK
    <2>2. route' \in [Handlers -> RouteType]
      <3>1. [route[h] EXCEPT !.at = "synced"] \in RouteType
        BY <1>10, <1>t, ProfileGoesOn DEF SyncProfile, ProvisionTypeOK
      <3>2. \/ route' = [route EXCEPT ![h] = [route[h] EXCEPT !.at = "synced"]]
            \/ route' = [route EXCEPT ![h] = Free]
        BY <1>10 DEF SyncProfile, Continues, Responds
      <3>3. QED
        BY <1>t, <1>f, <3>1, <3>2 DEF ProvisionTypeOK
    <2>3. UNCHANGED <<clients, bootId, lapsed, files, tombs, owners, answered,
        launched, served>>
      BY <1>10 DEF SyncProfile, disks, provisionGhosts
    <2>4. QED
      BY <1>t, <2>1, <2>2, <2>3 DEF ProvisionTypeOK
  <1>11. ASSUME NEW h \in Handlers, AnswerProvision(h)
        PROVE  ProvisionTypeOK'
    <2>1. route' \in [Handlers -> RouteType]
      BY <1>11, <1>t, <1>f DEF AnswerProvision, Responds, ProvisionTypeOK
    <2>2. answered' \in SUBSET ProfileType
      BY <1>11, <1>t, RouteShape DEF AnswerProvision, ProvisionTypeOK
    <2>3. UNCHANGED <<clients, bootId, lapsed, files, safe, tombs, owners,
        launched, served>>
      BY <1>11 DEF AnswerProvision, disks, provisionGhosts
    <2>4. QED
      BY <1>t, <2>1, <2>2, <2>3 DEF ProvisionTypeOK
  <1>12. ASSUME NEW h \in Handlers, ProvisionFails(h)
        PROVE  ProvisionTypeOK'
    <2>1. route' \in [Handlers -> RouteType]
      BY <1>12, <1>t, <1>f DEF ProvisionFails, Responds, ProvisionTypeOK
    <2>2. UNCHANGED <<clients, bootId, lapsed, files, safe, tombs, owners,
        answered, launched, served>>
      BY <1>12 DEF ProvisionFails, disks, provisionGhosts
    <2>3. QED
      BY <1>t, <2>1, <2>2 DEF ProvisionTypeOK
  <1>13. ASSUME NEW h \in Handlers, ClaimAndSpawn(h)
        PROVE  ProvisionTypeOK'
    <2>1. route' \in [Handlers -> RouteType]
      BY <1>13, <1>t, <1>f DEF ClaimAndSpawn, Responds, ProvisionTypeOK
    <2>2. tombs' \in SUBSET Runs
      BY <1>13, <1>t, <1>r DEF ClaimAndSpawn, ProvisionTypeOK
    <2>3. owners' \in [Runs -> OwnerType]
      <3>1. route[h].profile \in ProfileType /\ route[h].who \in {p.caller : p \in Plans}
        BY <1>13, <1>t, RouteShape DEF ClaimAndSpawn, ProvisionTypeOK
      <3>2. [at |-> "claimed", profile |-> route[h].profile, who |-> route[h].who] \in OwnerType
        BY <3>1 DEF OwnerType
      <3>3. \/ owners' = owners
            \/ owners' = [owners EXCEPT ![route[h].profile.plan.run] =
                             [at |-> "claimed", profile |-> route[h].profile, who |-> route[h].who]]
        BY <1>13 DEF ClaimAndSpawn
      <3>4. QED
        BY <1>t, <3>2, <3>3 DEF ProvisionTypeOK
    <2>4. UNCHANGED <<clients, bootId, lapsed, files, safe, answered, launched,
        served>>
      BY <1>13 DEF ClaimAndSpawn, disks, provisionGhosts
    <2>5. QED
      BY <1>t, <2>1, <2>2, <2>3, <2>4 DEF ProvisionTypeOK
  <1>14. ASSUME NEW run \in Runs, PrepareParent(run)
        PROVE  ProvisionTypeOK'
    <2>1. owners' \in [Runs -> OwnerType]
      <3>1. owners[run].at # "none" /\ owners[run] \in OwnerType
        BY <1>14, <1>t, <1>u DEF PrepareParent, ProvisionTypeOK
      <3>2. \A point \in {"parent", "ended"} : [owners[run] EXCEPT !.at = point] \in OwnerType
        BY <3>1, OwnerGoesOn
      <3>3. \E point \in {"parent", "ended"} : owners' = [owners EXCEPT ![run] = [owners[run] EXCEPT !.at = point]]
        BY <1>14 DEF PrepareParent, OwnerGoes
      <3>4. QED
        BY <1>t, <3>2, <3>3 DEF ProvisionTypeOK
    <2>2. UNCHANGED <<clients, bootId, lapsed, files, safe, route, tombs,
        answered, launched, served>>
      BY <1>14 DEF PrepareParent, disks, provisionGhosts
    <2>3. QED
      BY <1>t, <2>1, <2>2 DEF ProvisionTypeOK
  <1>15. ASSUME NEW run \in Runs, PrepareWorker(run)
        PROVE  ProvisionTypeOK'
    <2>1. owners' \in [Runs -> OwnerType]
      <3>1. owners[run].at # "none" /\ owners[run] \in OwnerType
        BY <1>15, <1>t, <1>u DEF PrepareWorker, ProvisionTypeOK
      <3>2. \A point \in {"pair", "ended"} : [owners[run] EXCEPT !.at = point] \in OwnerType
        BY <3>1, OwnerGoesOn
      <3>3. \E point \in {"pair", "ended"} : owners' = [owners EXCEPT ![run] = [owners[run] EXCEPT !.at = point]]
        BY <1>15 DEF PrepareWorker, OwnerGoes
      <3>4. QED
        BY <1>t, <3>2, <3>3 DEF ProvisionTypeOK
    <2>2. UNCHANGED <<clients, bootId, lapsed, files, safe, route, tombs,
        answered, launched, served>>
      BY <1>15 DEF PrepareWorker, disks, provisionGhosts
    <2>3. QED
      BY <1>t, <2>1, <2>2 DEF ProvisionTypeOK
  <1>16. ASSUME NEW run \in Runs, LaunchParent(run)
        PROVE  ProvisionTypeOK'
    <2>1. owners' \in [Runs -> OwnerType]
      <3>1. owners[run].at # "none" /\ owners[run] \in OwnerType
        BY <1>16, <1>t, <1>u DEF LaunchParent, ProvisionTypeOK
      <3>2. \A point \in {"running", "ended"} : [owners[run] EXCEPT !.at = point] \in OwnerType
        BY <3>1, OwnerGoesOn
      <3>3. \E point \in {"running", "ended"} : owners' = [owners EXCEPT ![run] = [owners[run] EXCEPT !.at = point]]
        BY <1>16 DEF LaunchParent, OwnerGoes
      <3>4. QED
        BY <1>t, <3>2, <3>3 DEF ProvisionTypeOK
    <2>2. launched' \in [Runs -> Seq(ProfileType)]
      <3>1. owners[run].at # "none" /\ owners[run] \in OwnerType
        BY <1>16, <1>t DEF LaunchParent, ProvisionTypeOK
      <3>2. owners[run].profile \in ProfileType
        BY <3>1, OwnerShape
      <3>3. launched[run] \in Seq(ProfileType)
        BY <1>t DEF ProvisionTypeOK
      <3>4. Append(launched[run], owners[run].profile) \in Seq(ProfileType)
        BY <3>2, <3>3
      <3>5. launched' = launched \/ launched' = [launched EXCEPT ![run] = Append(launched[run], owners[run].profile)]
        BY <1>16 DEF LaunchParent
      <3>6. QED
        BY <1>t, <3>4, <3>5 DEF ProvisionTypeOK
    <2>3. UNCHANGED <<clients, bootId, lapsed, files, safe, route, tombs,
        answered, served>>
      BY <1>16 DEF LaunchParent, disks, provisionGhosts
    <2>4. QED
      BY <1>t, <2>1, <2>2, <2>3 DEF ProvisionTypeOK
  <1>17. ASSUME NEW run \in Runs, OwnerEnds(run)
        PROVE  ProvisionTypeOK'
    <2>1. owners' \in [Runs -> OwnerType]
      <3>1. owners[run].at # "none" /\ owners[run] \in OwnerType
        BY <1>17, <1>t, <1>u DEF OwnerEnds, ProvisionTypeOK
      <3>2. \A point \in {"ended"} : [owners[run] EXCEPT !.at = point] \in OwnerType
        BY <3>1, OwnerGoesOn
      <3>3. \E point \in {"ended"} : owners' = [owners EXCEPT ![run] = [owners[run] EXCEPT !.at = point]]
        BY <1>17 DEF OwnerEnds, OwnerGoes
      <3>4. QED
        BY <1>t, <3>2, <3>3 DEF ProvisionTypeOK
    <2>2. UNCHANGED <<clients, bootId, lapsed, files, safe, route, tombs,
        answered, launched, served>>
      BY <1>17 DEF OwnerEnds, disks, provisionGhosts
    <2>3. QED
      BY <1>t, <2>1, <2>2 DEF ProvisionTypeOK
  <1>18. CASE ReplaceClients
    <2>1. clients' \in ClientFiles
      BY <1>18, <1>t DEF ReplaceClients, disks, provisionGhosts, ProvisionTypeOK
    <2>2. UNCHANGED <<bootId, lapsed, files, safe, route, tombs, owners,
        answered, launched, served>>
      BY <1>18 DEF ReplaceClients, disks, provisionGhosts
    <2>3. QED
      BY <1>t, <2>1, <2>2 DEF ProvisionTypeOK
  <1>19. CASE WindowEnds
    <2>1. lapsed' \in SUBSET PermitType
      BY <1>19, <1>t, DiskShape DEF WindowEnds, ProvisionTypeOK
    <2>2. UNCHANGED <<clients, bootId, files, safe, route, tombs, owners,
        answered, launched, served>>
      BY <1>19 DEF WindowEnds, disks, provisionGhosts
    <2>3. QED
      BY <1>t, <2>1, <2>2 DEF ProvisionTypeOK
  <1>20. CASE RevokePermit
    <2>1. files' \in DiskType
      <3>1. PICK p \in files.permits : files' = [files EXCEPT !.permits = files.permits \ {p}]
        BY <1>20 DEF RevokePermit
      <3>2. files.permits \ {p} \in SUBSET PermitType
        BY <1>t, DiskShape DEF ProvisionTypeOK
      <3>3. QED
        BY <1>t, <3>1, <3>2, DiskEdits DEF ProvisionTypeOK
    <2>2. safe' \in DiskType
      <3>1. PICK p \in files.permits : safe' = [safe EXCEPT !.permits = safe.permits \ {p}]
        BY <1>20 DEF RevokePermit
      <3>2. safe.permits \ {p} \in SUBSET PermitType
        BY <1>t, DiskShape DEF ProvisionTypeOK
      <3>3. QED
        BY <1>t, <3>1, <3>2, DiskEdits DEF ProvisionTypeOK
    <2>3. UNCHANGED <<clients, bootId, lapsed, route, tombs, owners, answered,
        launched, served>>
      BY <1>20 DEF RevokePermit, disks, provisionGhosts
    <2>4. QED
      BY <1>t, <2>1, <2>2, <2>3 DEF ProvisionTypeOK
  <1>21. CASE DispatcherDies
    <2>1. route' \in [Handlers -> RouteType]
      BY <1>21, <1>f DEF DispatcherDies
    <2>2. owners' \in [Runs -> OwnerType]
      BY <1>21, <1>f DEF DispatcherDies
    <2>3. UNCHANGED <<clients, bootId, lapsed, files, safe, tombs, answered,
        launched, served>>
      BY <1>21 DEF DispatcherDies, disks, provisionGhosts
    <2>4. QED
      BY <1>t, <2>1, <2>2, <2>3 DEF ProvisionTypeOK
  <1>22. CASE HostLosesPower
    <2>1. bootId' \in 1..MaxBootId
      BY <1>22, <1>t, ProvisionAssumption DEF HostLosesPower, ProvisionTypeOK
    <2>2. files' \in DiskType
      BY <1>22, <1>t, LossKeeps
    <2>3. safe' \in DiskType
      BY <1>22, <1>t, LossKeeps
    <2>4. route' \in [Handlers -> RouteType]
      BY <1>22, <1>f DEF HostLosesPower
    <2>5. owners' \in [Runs -> OwnerType]
      BY <1>22, <1>f DEF HostLosesPower
    <2>6. UNCHANGED <<clients, lapsed, tombs, answered, launched, served>>
      BY <1>22 DEF HostLosesPower, disks, provisionGhosts
    <2>7. QED
      BY <1>t, <2>1, <2>2, <2>3, <2>4, <2>5, <2>6 DEF ProvisionTypeOK
  <1>23. CASE UNCHANGED provisionVars
    BY <1>t, <1>23 DEF provisionVars, disks, provisionGhosts, ProvisionTypeOK
  <1>24. QED
    BY ProvisionCases, <1>1, <1>2, <1>3, <1>4, <1>5, <1>6, <1>7, <1>8, <1>9,
       <1>10, <1>11, <1>12, <1>13, <1>14, <1>15, <1>16, <1>17, <1>18, <1>19,
       <1>20, <1>21, <1>22, <1>23

(* What was durably issued stays issued. *)
LEMMA SafeStays ==
    ASSUME ProvisionInv, [ProvisionNext]_provisionVars
    PROVE  \A r \in Runs : safe.issued[r] # Unissued => safe'.issued[r] = safe.issued[r]
  <1>t. ProvisionTypeOK
    BY DEF ProvisionInv
  <1>p. \A r \in Runs : safe.issued[r] # Unissued => files.issued[r] = safe.issued[r]
    BY DEF ProvisionInv, Pinned
  <1>1. ASSUME NEW h \in Handlers, NEW bearer \in Bearers, NEW plan \in Plans,
                BeginProvision(h, bearer, plan)
        PROVE  \A r \in Runs : safe.issued[r] # Unissued => safe'.issued[r] = safe.issued[r]
    BY <1>1 DEF BeginProvision, disks
  <1>2. ASSUME NEW h \in Handlers, NEW bearer \in Bearers, NEW profile \in
                files.profiles, BeginCreate(h, bearer, profile)
        PROVE  \A r \in Runs : safe.issued[r] # Unissued => safe'.issued[r] = safe.issued[r]
    BY <1>2 DEF BeginCreate, disks
  <1>3. ASSUME NEW h \in Handlers, NEW bearer \in Bearers, NEW run \in Runs,
                SubmitTurn(h, bearer, run)
        PROVE  \A r \in Runs : safe.issued[r] # Unissued => safe'.issued[r] = safe.issued[r]
    BY <1>3 DEF SubmitTurn, disks
  <1>4. ASSUME NEW h \in Handlers, NEW bearer \in Bearers, NEW run \in Runs,
                StopOwner(h, bearer, run)
        PROVE  \A r \in Runs : safe.issued[r] # Unissued => safe'.issued[r] = safe.issued[r]
    BY <1>4 DEF StopOwner, disks
  <1>5. ASSUME NEW h \in Handlers, PersistIssuance(h)
        PROVE  \A r \in Runs : safe.issued[r] # Unissued => safe'.issued[r] = safe.issued[r]
    BY <1>5 DEF PersistIssuance, disks
  <1>6. ASSUME NEW h \in Handlers, ReadWinner(h)
        PROVE  \A r \in Runs : safe.issued[r] # Unissued => safe'.issued[r] = safe.issued[r]
    BY <1>6, <1>p, WinnerEffect
  <1>7. ASSUME NEW h \in Handlers, PersistPermit(h)
        PROVE  \A r \in Runs : safe.issued[r] # Unissued => safe'.issued[r] = safe.issued[r]
    BY <1>7 DEF PersistPermit, disks
  <1>8. ASSUME NEW h \in Handlers, SettlePermit(h)
        PROVE  \A r \in Runs : safe.issued[r] # Unissued => safe'.issued[r] = safe.issued[r]
    <2>1. safe' = [safe EXCEPT !.permits = files.permits]
      BY <1>8 DEF SettlePermit
    <2>2. safe'.issued = safe.issued
      BY <1>t, <2>1, DiskShape, DiskEdits DEF ProvisionTypeOK
    <2>3. QED
      BY <2>2
  <1>9. ASSUME NEW h \in Handlers, PublishProfile(h)
        PROVE  \A r \in Runs : safe.issued[r] # Unissued => safe'.issued[r] = safe.issued[r]
    BY <1>9 DEF PublishProfile, disks
  <1>10. ASSUME NEW h \in Handlers, SyncProfile(h)
        PROVE  \A r \in Runs : safe.issued[r] # Unissued => safe'.issued[r] = safe.issued[r]
    <2>1. safe' = [safe EXCEPT !.profiles = files.profiles]
      BY <1>10 DEF SyncProfile
    <2>2. safe'.issued = safe.issued
      BY <1>t, <2>1, DiskShape, DiskEdits DEF ProvisionTypeOK
    <2>3. QED
      BY <2>2
  <1>11. ASSUME NEW h \in Handlers, AnswerProvision(h)
        PROVE  \A r \in Runs : safe.issued[r] # Unissued => safe'.issued[r] = safe.issued[r]
    BY <1>11 DEF AnswerProvision, disks
  <1>12. ASSUME NEW h \in Handlers, ProvisionFails(h)
        PROVE  \A r \in Runs : safe.issued[r] # Unissued => safe'.issued[r] = safe.issued[r]
    BY <1>12 DEF ProvisionFails, disks
  <1>13. ASSUME NEW h \in Handlers, ClaimAndSpawn(h)
        PROVE  \A r \in Runs : safe.issued[r] # Unissued => safe'.issued[r] = safe.issued[r]
    BY <1>13 DEF ClaimAndSpawn, disks
  <1>14. ASSUME NEW run \in Runs, PrepareParent(run)
        PROVE  \A r \in Runs : safe.issued[r] # Unissued => safe'.issued[r] = safe.issued[r]
    BY <1>14 DEF PrepareParent, disks
  <1>15. ASSUME NEW run \in Runs, PrepareWorker(run)
        PROVE  \A r \in Runs : safe.issued[r] # Unissued => safe'.issued[r] = safe.issued[r]
    BY <1>15 DEF PrepareWorker, disks
  <1>16. ASSUME NEW run \in Runs, LaunchParent(run)
        PROVE  \A r \in Runs : safe.issued[r] # Unissued => safe'.issued[r] = safe.issued[r]
    BY <1>16 DEF LaunchParent, disks
  <1>17. ASSUME NEW run \in Runs, OwnerEnds(run)
        PROVE  \A r \in Runs : safe.issued[r] # Unissued => safe'.issued[r] = safe.issued[r]
    BY <1>17 DEF OwnerEnds, disks
  <1>18. CASE ReplaceClients
    BY <1>18 DEF ReplaceClients, disks
  <1>19. CASE WindowEnds
    BY <1>19 DEF WindowEnds, disks
  <1>20. CASE RevokePermit
    <2>1. PICK p \in files.permits : safe' = [safe EXCEPT !.permits = safe.permits \ {p}]
      BY <1>20 DEF RevokePermit
    <2>2. safe.permits \ {p} \in SUBSET PermitType
      BY <1>t, DiskShape DEF ProvisionTypeOK
    <2>3. safe'.issued = safe.issued
      BY <1>t, <2>1, <2>2, DiskEdits DEF ProvisionTypeOK
    <2>4. QED
      BY <2>3
  <1>21. CASE DispatcherDies
    BY <1>21 DEF DispatcherDies, disks
  <1>22. CASE HostLosesPower
    BY <1>22, <1>t, <1>p, LossKeeps
  <1>23. CASE UNCHANGED provisionVars
    BY <1>23 DEF provisionVars, disks
  <1>24. QED
    BY ProvisionCases, <1>1, <1>2, <1>3, <1>4, <1>5, <1>6, <1>7, <1>8, <1>9,
       <1>10, <1>11, <1>12, <1>13, <1>14, <1>15, <1>16, <1>17, <1>18, <1>19,
       <1>20, <1>21, <1>22, <1>23

(* A profile that was durably issued stays so. *)
LEMMA IssuedStays ==
    ASSUME ProvisionInv, [ProvisionNext]_provisionVars, NEW p \in ProfileType, Issued(safe, p)
    PROVE  Issued(safe', p)
  BY SafeStays, ProfileShape DEF Issued

(* The issuances. *)
LEMMA PinnedStep ==
    ASSUME ProvisionInv, [ProvisionNext]_provisionVars
    PROVE  Pinned'
  <1>t. ProvisionTypeOK /\ files \in DiskType /\ safe \in DiskType /\ route \in [Handlers -> RouteType]
    BY DEF ProvisionInv, ProvisionTypeOK
  <1>f. Free.at = "free" /\ Unowned.at = "none"
    BY DEF Free, Unowned
  <1>d. \A x : /\ [files EXCEPT !.permits = x].issued = files.issued /\ [files EXCEPT !.profiles = x].issued = files.issued
             /\ [safe EXCEPT !.permits = x].issued = safe.issued /\ [safe EXCEPT !.profiles = x].issued = safe.issued
    BY <1>t DEF DiskType
  <1>p. Pinned
    BY DEF ProvisionInv
  <1>1. ASSUME NEW h \in Handlers, NEW bearer \in Bearers, NEW plan \in Plans,
                BeginProvision(h, bearer, plan)
        PROVE  Pinned'
    <2>1. \A x \in Handlers : route'[x].at = "winner" => route'[x] = route[x]
      BY <1>1, <1>t DEF BeginProvision
    <2>2. UNCHANGED disks
      BY <1>1 DEF BeginProvision, disks
    <2>3. QED
      BY <1>p, <2>1, <2>2 DEF Pinned, disks
  <1>2. ASSUME NEW h \in Handlers, NEW bearer \in Bearers, NEW profile \in
                files.profiles, BeginCreate(h, bearer, profile)
        PROVE  Pinned'
    <2>1. \A x \in Handlers : route'[x].at = "winner" => route'[x] = route[x]
      BY <1>2, <1>t DEF BeginCreate
    <2>2. UNCHANGED disks
      BY <1>2 DEF BeginCreate, disks
    <2>3. QED
      BY <1>p, <2>1, <2>2 DEF Pinned, disks
  <1>3. ASSUME NEW h \in Handlers, NEW bearer \in Bearers, NEW run \in Runs,
                SubmitTurn(h, bearer, run)
        PROVE  Pinned'
    BY <1>3, <1>p DEF SubmitTurn, disks, Pinned
  <1>4. ASSUME NEW h \in Handlers, NEW bearer \in Bearers, NEW run \in Runs,
                StopOwner(h, bearer, run)
        PROVE  Pinned'
    BY <1>4, <1>p DEF StopOwner, disks, Pinned
  <1>5. ASSUME NEW h \in Handlers, PersistIssuance(h)
        PROVE  Pinned'
    <2>1. UNCHANGED safe
      BY <1>5 DEF PersistIssuance
    <2>2. route[h].at = "issue" /\ route' = [route EXCEPT ![h] = [route[h] EXCEPT !.at = "winner"]]
      BY <1>5 DEF PersistIssuance, Continues
    <2>3. \A x \in Handlers : route'[x] = route[x] \/ (x = h /\ route'[x].plan = route[h].plan)
      BY <1>t, <2>2, PlanGoesOn
    <2>4. \A x \in Handlers : route'[x].at = "winner" => files'.issued[route'[x].plan.run] # Unissued
      BY <1>5, <1>t, <1>p, <2>3, IssueEffect, RouteShape DEF Pinned
    <2>5. \A r \in Runs : safe.issued[r] # Unissued => files'.issued[r] = safe.issued[r]
      BY <1>5, <1>t, <1>p, IssueEffect DEF Pinned
    <2>6. \A r \in Runs : files'.issued[r] # Unissued => files'.issued[r].intent.run = r
      BY <1>5, <1>t, <1>p, IssueEffect DEF Pinned
    <2>7. QED
      BY <2>1, <2>4, <2>5, <2>6 DEF Pinned
  <1>6. ASSUME NEW h \in Handlers, ReadWinner(h)
        PROVE  Pinned'
    <2>1. \A x \in Handlers : route'[x].at = "winner" => route'[x] = route[x]
      BY <1>6, <1>t, <1>f, WinnerEffect
    <2>2. UNCHANGED files
      BY <1>6 DEF ReadWinner
    <2>3. \A r \in Runs : safe'.issued[r] # Unissued => files.issued[r] = safe'.issued[r]
      BY <1>6, <1>p, WinnerEffect DEF Pinned
    <2>4. QED
      BY <1>p, <2>1, <2>2, <2>3 DEF Pinned
  <1>7. ASSUME NEW h \in Handlers, PersistPermit(h)
        PROVE  Pinned'
    <2>1. \A x \in Handlers : route'[x].at = "winner" => route'[x] = route[x]
      <3>1. [route[h] EXCEPT !.at = "permitted"].at = "permitted"
        BY <1>7, <1>t, ProfileGoesOn DEF PersistPermit
      <3>2. \/ route' = [route EXCEPT ![h] = [route[h] EXCEPT !.at = "permitted"]]
            \/ route' = [route EXCEPT ![h] = Free]
        BY <1>7 DEF PersistPermit, Continues, Responds
      <3>3. QED
        BY <1>t, <1>f, <3>1, <3>2
    <2>2. files'.issued = files.issued
      BY <1>7, <1>d DEF PersistPermit
    <2>3. UNCHANGED safe
      BY <1>7 DEF PersistPermit
    <2>4. QED
      BY <1>p, <2>1, <2>2, <2>3 DEF Pinned
  <1>8. ASSUME NEW h \in Handlers, SettlePermit(h)
        PROVE  Pinned'
    <2>1. \A x \in Handlers : route'[x].at = "winner" => route'[x] = route[x]
      <3>1. [route[h] EXCEPT !.at = "profile"].at = "profile"
        BY <1>8, <1>t, ProfileGoesOn DEF SettlePermit
      <3>2. \/ route' = [route EXCEPT ![h] = [route[h] EXCEPT !.at = "profile"]]
            \/ route' = [route EXCEPT ![h] = Free]
        BY <1>8 DEF SettlePermit, Continues, Responds
      <3>3. QED
        BY <1>t, <1>f, <3>1, <3>2
    <2>2. safe'.issued = safe.issued
      BY <1>8, <1>d DEF SettlePermit
    <2>3. UNCHANGED files
      BY <1>8 DEF SettlePermit
    <2>4. QED
      BY <1>p, <2>1, <2>2, <2>3 DEF Pinned
  <1>9. ASSUME NEW h \in Handlers, PublishProfile(h)
        PROVE  Pinned'
    <2>1. \A x \in Handlers : route'[x].at = "winner" => route'[x] = route[x]
      <3>1. [route[h] EXCEPT !.at = "profiled"].at = "profiled"
        BY <1>9, <1>t, ProfileGoesOn DEF PublishProfile
      <3>2. \/ route' = [route EXCEPT ![h] = [route[h] EXCEPT !.at = "profiled"]]
            \/ route' = [route EXCEPT ![h] = Free]
        BY <1>9 DEF PublishProfile, Continues, Responds
      <3>3. QED
        BY <1>t, <1>f, <3>1, <3>2
    <2>2. files'.issued = files.issued
      BY <1>9, <1>d DEF PublishProfile
    <2>3. UNCHANGED safe
      BY <1>9 DEF PublishProfile
    <2>4. QED
      BY <1>p, <2>1, <2>2, <2>3 DEF Pinned
  <1>10. ASSUME NEW h \in Handlers, SyncProfile(h)
        PROVE  Pinned'
    <2>1. \A x \in Handlers : route'[x].at = "winner" => route'[x] = route[x]
      <3>1. [route[h] EXCEPT !.at = "synced"].at = "synced"
        BY <1>10, <1>t, ProfileGoesOn DEF SyncProfile
      <3>2. \/ route' = [route EXCEPT ![h] = [route[h] EXCEPT !.at = "synced"]]
            \/ route' = [route EXCEPT ![h] = Free]
        BY <1>10 DEF SyncProfile, Continues, Responds
      <3>3. QED
        BY <1>t, <1>f, <3>1, <3>2
    <2>2. safe'.issued = safe.issued
      BY <1>10, <1>d DEF SyncProfile
    <2>3. UNCHANGED files
      BY <1>10 DEF SyncProfile
    <2>4. QED
      BY <1>p, <2>1, <2>2, <2>3 DEF Pinned
  <1>11. ASSUME NEW h \in Handlers, AnswerProvision(h)
        PROVE  Pinned'
    BY <1>11, <1>t, <1>f, <1>p DEF AnswerProvision, Responds, disks, Pinned
  <1>12. ASSUME NEW h \in Handlers, ProvisionFails(h)
        PROVE  Pinned'
    BY <1>12, <1>t, <1>f, <1>p DEF ProvisionFails, Responds, disks, Pinned
  <1>13. ASSUME NEW h \in Handlers, ClaimAndSpawn(h)
        PROVE  Pinned'
    BY <1>13, <1>t, <1>f, <1>p DEF ClaimAndSpawn, Responds, disks, Pinned
  <1>14. ASSUME NEW run \in Runs, PrepareParent(run)
        PROVE  Pinned'
    BY <1>14, <1>p DEF PrepareParent, disks, Pinned
  <1>15. ASSUME NEW run \in Runs, PrepareWorker(run)
        PROVE  Pinned'
    BY <1>15, <1>p DEF PrepareWorker, disks, Pinned
  <1>16. ASSUME NEW run \in Runs, LaunchParent(run)
        PROVE  Pinned'
    BY <1>16, <1>p DEF LaunchParent, disks, Pinned
  <1>17. ASSUME NEW run \in Runs, OwnerEnds(run)
        PROVE  Pinned'
    BY <1>17, <1>p DEF OwnerEnds, disks, Pinned
  <1>18. CASE ReplaceClients
    BY <1>18, <1>p DEF ReplaceClients, disks, Pinned
  <1>19. CASE WindowEnds
    BY <1>19, <1>p DEF WindowEnds, disks, Pinned
  <1>20. CASE RevokePermit
    <2>1. files'.issued = files.issued /\ safe'.issued = safe.issued /\ UNCHANGED route
      BY <1>20, <1>d DEF RevokePermit
    <2>2. QED
      BY <1>p, <2>1 DEF Pinned
  <1>21. CASE DispatcherDies
    BY <1>21, <1>t, <1>f, <1>p DEF DispatcherDies, Responds, disks, Pinned
  <1>22. CASE HostLosesPower
    <2>1. \A x \in Handlers : route'[x].at # "winner"
      BY <1>22, <1>f DEF HostLosesPower
    <2>2. \A r \in Runs : files'.issued[r] # Unissued => files'.issued[r].intent.run = r
      BY <1>22, <1>t, <1>p, LossKeeps DEF Pinned
    <2>3. safe' = files'
      BY <1>22, <1>t, LossKeeps
    <2>4. QED
      BY <2>1, <2>2, <2>3 DEF Pinned
  <1>23. CASE UNCHANGED provisionVars
    BY <1>23, <1>p DEF provisionVars, disks, Pinned
  <1>24. QED
    BY ProvisionCases, <1>1, <1>2, <1>3, <1>4, <1>5, <1>6, <1>7, <1>8, <1>9,
       <1>10, <1>11, <1>12, <1>13, <1>14, <1>15, <1>16, <1>17, <1>18, <1>19,
       <1>20, <1>21, <1>22, <1>23

(* The profiles on their way. *)
LEMMA RoutedStep ==
    ASSUME ProvisionInv, [ProvisionNext]_provisionVars
    PROVE  \A x \in Handlers :
               /\ route'[x].at \in {"permit", "permitted", "profile", "profiled", "synced", "create"} =>
                     route'[x].profile \in ProfileType /\ Issued(safe', route'[x].profile)
               /\ route'[x].at = "create" => route'[x].who = route'[x].profile.plan.caller
  <1>t. ProvisionTypeOK /\ files \in DiskType /\ safe \in DiskType /\ route \in [Handlers -> RouteType]
    BY DEF ProvisionInv, ProvisionTypeOK
  <1>f. Free.at = "free" /\ Unowned.at = "none"
    BY DEF Free, Unowned
  <1>p. \A x \in Handlers :
            /\ route[x].at \in {"permit", "permitted", "profile", "profiled", "synced", "create"} =>
                  route[x].profile \in ProfileType /\ Issued(safe, route[x].profile)
            /\ route[x].at = "create" => route[x].who = route[x].profile.plan.caller
    BY <1>t, RouteShape DEF ProvisionInv, Profiles
  <1>i. \A p \in ProfileType : Issued(safe, p) => Issued(safe', p)
    BY IssuedStays
  <1>1. ASSUME NEW h \in Handlers, NEW bearer \in Bearers, NEW plan \in Plans,
                BeginProvision(h, bearer, plan)
        PROVE  \A x \in Handlers :
               /\ route'[x].at \in {"permit", "permitted", "profile", "profiled", "synced", "create"} =>
                     route'[x].profile \in ProfileType /\ Issued(safe', route'[x].profile)
               /\ route'[x].at = "create" => route'[x].who = route'[x].profile.plan.caller
    <2>1. \A x \in Handlers : route'[x] = route[x] \/ route'[x].at = "issue"
      BY <1>1, <1>t DEF BeginProvision
    <2>2. QED
      BY <1>p, <1>i, <2>1
  <1>2. ASSUME NEW h \in Handlers, NEW bearer \in Bearers, NEW profile \in
                files.profiles, BeginCreate(h, bearer, profile)
        PROVE  \A x \in Handlers :
               /\ route'[x].at \in {"permit", "permitted", "profile", "profiled", "synced", "create"} =>
                     route'[x].profile \in ProfileType /\ Issued(safe', route'[x].profile)
               /\ route'[x].at = "create" => route'[x].who = route'[x].profile.plan.caller
    <2>1. profile \in ProfileType /\ Issued(safe, profile)
      BY <1>t, DiskShape DEF ProvisionInv, Profiles
    <2>2. Authenticated(bearer) = profile.plan.caller
      BY <1>2 DEF BeginCreate, ProfileAdmitted, PermitAllows
    <2>3. \A x \in Handlers :
              \/ route'[x] = route[x]
              \/ /\ route'[x].at = "create" /\ route'[x].profile = profile
                 /\ route'[x].who = Authenticated(bearer)
      BY <1>2, <1>t DEF BeginCreate
    <2>4. QED
      BY <1>p, <1>i, <2>1, <2>2, <2>3
  <1>3. ASSUME NEW h \in Handlers, NEW bearer \in Bearers, NEW run \in Runs,
                SubmitTurn(h, bearer, run)
        PROVE  \A x \in Handlers :
               /\ route'[x].at \in {"permit", "permitted", "profile", "profiled", "synced", "create"} =>
                     route'[x].profile \in ProfileType /\ Issued(safe', route'[x].profile)
               /\ route'[x].at = "create" => route'[x].who = route'[x].profile.plan.caller
    <2>1. UNCHANGED route
      BY <1>3 DEF SubmitTurn
    <2>2. QED
      BY <1>p, <1>i, <2>1
  <1>4. ASSUME NEW h \in Handlers, NEW bearer \in Bearers, NEW run \in Runs,
                StopOwner(h, bearer, run)
        PROVE  \A x \in Handlers :
               /\ route'[x].at \in {"permit", "permitted", "profile", "profiled", "synced", "create"} =>
                     route'[x].profile \in ProfileType /\ Issued(safe', route'[x].profile)
               /\ route'[x].at = "create" => route'[x].who = route'[x].profile.plan.caller
    <2>1. UNCHANGED route
      BY <1>4 DEF StopOwner
    <2>2. QED
      BY <1>p, <1>i, <2>1
  <1>5. ASSUME NEW h \in Handlers, PersistIssuance(h)
        PROVE  \A x \in Handlers :
               /\ route'[x].at \in {"permit", "permitted", "profile", "profiled", "synced", "create"} =>
                     route'[x].profile \in ProfileType /\ Issued(safe', route'[x].profile)
               /\ route'[x].at = "create" => route'[x].who = route'[x].profile.plan.caller
    <2>1. [route[h] EXCEPT !.at = "winner"].at = "winner"
      BY <1>5, <1>t, PlanGoesOn DEF PersistIssuance
    <2>2. route' = [route EXCEPT ![h] = [route[h] EXCEPT !.at = "winner"]]
      BY <1>5 DEF PersistIssuance, Continues
    <2>3. \A x \in Handlers : route'[x] = route[x] \/ route'[x].at = "winner"
      BY <1>t, <2>1, <2>2
    <2>4. QED
      BY <1>p, <1>i, <2>3
  <1>6. ASSUME NEW h \in Handlers, ReadWinner(h)
        PROVE  \A x \in Handlers :
               /\ route'[x].at \in {"permit", "permitted", "profile", "profiled", "synced", "create"} =>
                     route'[x].profile \in ProfileType /\ Issued(safe', route'[x].profile)
               /\ route'[x].at = "create" => route'[x].who = route'[x].profile.plan.caller
    <2>1. CASE route' = [route EXCEPT ![h] = Free]
      BY <1>t, <1>f, <1>p, <1>i, <2>1
    <2>2. CASE route' # [route EXCEPT ![h] = Free]
      <3>1. PICK p \in ProfileType :
                /\ route' = [route EXCEPT ![h] = [at |-> "permit", profile |-> p]]
                /\ safe'.issued = files.issued /\ files.issued[p.plan.run] # Unissued
                /\ files.issued[p.plan.run].intent = p.plan /\ files.issued[p.plan.run].permit = p.permit
        BY <1>6, <2>2, WinnerEffect
      <3>2. Issued(safe', p)
        BY <3>1 DEF Issued
      <3>3. \A x \in Handlers :
                route'[x] = route[x] \/ (route'[x].at = "permit" /\ route'[x].profile = p)
        BY <1>t, <3>1
      <3>4. QED
        BY <1>p, <1>i, <3>2, <3>3
    <2>3. QED
      BY <2>1, <2>2
  <1>7. ASSUME NEW h \in Handlers, PersistPermit(h)
        PROVE  \A x \in Handlers :
               /\ route'[x].at \in {"permit", "permitted", "profile", "profiled", "synced", "create"} =>
                     route'[x].profile \in ProfileType /\ Issued(safe', route'[x].profile)
               /\ route'[x].at = "create" => route'[x].who = route'[x].profile.plan.caller
    <2>1. [route[h] EXCEPT !.at = "permitted"].at = "permitted" /\ [route[h] EXCEPT !.at = "permitted"].profile = route[h].profile
          /\ Issued(safe, route[h].profile) /\ route[h].profile \in ProfileType
      BY <1>7, <1>t, <1>p, ProfileGoesOn DEF PersistPermit
    <2>2. \/ route' = [route EXCEPT ![h] = [route[h] EXCEPT !.at = "permitted"]]
          \/ route' = [route EXCEPT ![h] = Free]
      BY <1>7 DEF PersistPermit, Continues, Responds
    <2>3. \A x \in Handlers :
              route'[x] = route[x] \/ route'[x].at = "free"
              \/ (route'[x].at = "permitted" /\ route'[x].profile = route[h].profile)
      BY <1>t, <1>f, <2>1, <2>2
    <2>4. QED
      BY <1>p, <1>i, <2>1, <2>3
  <1>8. ASSUME NEW h \in Handlers, SettlePermit(h)
        PROVE  \A x \in Handlers :
               /\ route'[x].at \in {"permit", "permitted", "profile", "profiled", "synced", "create"} =>
                     route'[x].profile \in ProfileType /\ Issued(safe', route'[x].profile)
               /\ route'[x].at = "create" => route'[x].who = route'[x].profile.plan.caller
    <2>1. [route[h] EXCEPT !.at = "profile"].at = "profile" /\ [route[h] EXCEPT !.at = "profile"].profile = route[h].profile
          /\ Issued(safe, route[h].profile) /\ route[h].profile \in ProfileType
      BY <1>8, <1>t, <1>p, ProfileGoesOn DEF SettlePermit
    <2>2. \/ route' = [route EXCEPT ![h] = [route[h] EXCEPT !.at = "profile"]]
          \/ route' = [route EXCEPT ![h] = Free]
      BY <1>8 DEF SettlePermit, Continues, Responds
    <2>3. \A x \in Handlers :
              route'[x] = route[x] \/ route'[x].at = "free"
              \/ (route'[x].at = "profile" /\ route'[x].profile = route[h].profile)
      BY <1>t, <1>f, <2>1, <2>2
    <2>4. QED
      BY <1>p, <1>i, <2>1, <2>3
  <1>9. ASSUME NEW h \in Handlers, PublishProfile(h)
        PROVE  \A x \in Handlers :
               /\ route'[x].at \in {"permit", "permitted", "profile", "profiled", "synced", "create"} =>
                     route'[x].profile \in ProfileType /\ Issued(safe', route'[x].profile)
               /\ route'[x].at = "create" => route'[x].who = route'[x].profile.plan.caller
    <2>1. [route[h] EXCEPT !.at = "profiled"].at = "profiled" /\ [route[h] EXCEPT !.at = "profiled"].profile = route[h].profile
          /\ Issued(safe, route[h].profile) /\ route[h].profile \in ProfileType
      BY <1>9, <1>t, <1>p, ProfileGoesOn DEF PublishProfile
    <2>2. \/ route' = [route EXCEPT ![h] = [route[h] EXCEPT !.at = "profiled"]]
          \/ route' = [route EXCEPT ![h] = Free]
      BY <1>9 DEF PublishProfile, Continues, Responds
    <2>3. \A x \in Handlers :
              route'[x] = route[x] \/ route'[x].at = "free"
              \/ (route'[x].at = "profiled" /\ route'[x].profile = route[h].profile)
      BY <1>t, <1>f, <2>1, <2>2
    <2>4. QED
      BY <1>p, <1>i, <2>1, <2>3
  <1>10. ASSUME NEW h \in Handlers, SyncProfile(h)
        PROVE  \A x \in Handlers :
               /\ route'[x].at \in {"permit", "permitted", "profile", "profiled", "synced", "create"} =>
                     route'[x].profile \in ProfileType /\ Issued(safe', route'[x].profile)
               /\ route'[x].at = "create" => route'[x].who = route'[x].profile.plan.caller
    <2>1. [route[h] EXCEPT !.at = "synced"].at = "synced" /\ [route[h] EXCEPT !.at = "synced"].profile = route[h].profile
          /\ Issued(safe, route[h].profile) /\ route[h].profile \in ProfileType
      BY <1>10, <1>t, <1>p, ProfileGoesOn DEF SyncProfile
    <2>2. \/ route' = [route EXCEPT ![h] = [route[h] EXCEPT !.at = "synced"]]
          \/ route' = [route EXCEPT ![h] = Free]
      BY <1>10 DEF SyncProfile, Continues, Responds
    <2>3. \A x \in Handlers :
              route'[x] = route[x] \/ route'[x].at = "free"
              \/ (route'[x].at = "synced" /\ route'[x].profile = route[h].profile)
      BY <1>t, <1>f, <2>1, <2>2
    <2>4. QED
      BY <1>p, <1>i, <2>1, <2>3
  <1>11. ASSUME NEW h \in Handlers, AnswerProvision(h)
        PROVE  \A x \in Handlers :
               /\ route'[x].at \in {"permit", "permitted", "profile", "profiled", "synced", "create"} =>
                     route'[x].profile \in ProfileType /\ Issued(safe', route'[x].profile)
               /\ route'[x].at = "create" => route'[x].who = route'[x].profile.plan.caller
    <2>1. \A x \in Handlers : route'[x] = route[x] \/ route'[x].at = "free"
      BY <1>11, <1>t, <1>f DEF AnswerProvision, Responds
    <2>2. QED
      BY <1>p, <1>i, <2>1
  <1>12. ASSUME NEW h \in Handlers, ProvisionFails(h)
        PROVE  \A x \in Handlers :
               /\ route'[x].at \in {"permit", "permitted", "profile", "profiled", "synced", "create"} =>
                     route'[x].profile \in ProfileType /\ Issued(safe', route'[x].profile)
               /\ route'[x].at = "create" => route'[x].who = route'[x].profile.plan.caller
    <2>1. \A x \in Handlers : route'[x] = route[x] \/ route'[x].at = "free"
      BY <1>12, <1>t, <1>f DEF ProvisionFails, Responds
    <2>2. QED
      BY <1>p, <1>i, <2>1
  <1>13. ASSUME NEW h \in Handlers, ClaimAndSpawn(h)
        PROVE  \A x \in Handlers :
               /\ route'[x].at \in {"permit", "permitted", "profile", "profiled", "synced", "create"} =>
                     route'[x].profile \in ProfileType /\ Issued(safe', route'[x].profile)
               /\ route'[x].at = "create" => route'[x].who = route'[x].profile.plan.caller
    <2>1. \A x \in Handlers : route'[x] = route[x] \/ route'[x].at = "free"
      BY <1>13, <1>t, <1>f DEF ClaimAndSpawn, Responds
    <2>2. QED
      BY <1>p, <1>i, <2>1
  <1>14. ASSUME NEW run \in Runs, PrepareParent(run)
        PROVE  \A x \in Handlers :
               /\ route'[x].at \in {"permit", "permitted", "profile", "profiled", "synced", "create"} =>
                     route'[x].profile \in ProfileType /\ Issued(safe', route'[x].profile)
               /\ route'[x].at = "create" => route'[x].who = route'[x].profile.plan.caller
    <2>1. UNCHANGED route
      BY <1>14 DEF PrepareParent
    <2>2. QED
      BY <1>p, <1>i, <2>1
  <1>15. ASSUME NEW run \in Runs, PrepareWorker(run)
        PROVE  \A x \in Handlers :
               /\ route'[x].at \in {"permit", "permitted", "profile", "profiled", "synced", "create"} =>
                     route'[x].profile \in ProfileType /\ Issued(safe', route'[x].profile)
               /\ route'[x].at = "create" => route'[x].who = route'[x].profile.plan.caller
    <2>1. UNCHANGED route
      BY <1>15 DEF PrepareWorker
    <2>2. QED
      BY <1>p, <1>i, <2>1
  <1>16. ASSUME NEW run \in Runs, LaunchParent(run)
        PROVE  \A x \in Handlers :
               /\ route'[x].at \in {"permit", "permitted", "profile", "profiled", "synced", "create"} =>
                     route'[x].profile \in ProfileType /\ Issued(safe', route'[x].profile)
               /\ route'[x].at = "create" => route'[x].who = route'[x].profile.plan.caller
    <2>1. UNCHANGED route
      BY <1>16 DEF LaunchParent
    <2>2. QED
      BY <1>p, <1>i, <2>1
  <1>17. ASSUME NEW run \in Runs, OwnerEnds(run)
        PROVE  \A x \in Handlers :
               /\ route'[x].at \in {"permit", "permitted", "profile", "profiled", "synced", "create"} =>
                     route'[x].profile \in ProfileType /\ Issued(safe', route'[x].profile)
               /\ route'[x].at = "create" => route'[x].who = route'[x].profile.plan.caller
    <2>1. UNCHANGED route
      BY <1>17 DEF OwnerEnds
    <2>2. QED
      BY <1>p, <1>i, <2>1
  <1>18. CASE ReplaceClients
    <2>1. UNCHANGED route
      BY <1>18 DEF ReplaceClients
    <2>2. QED
      BY <1>p, <1>i, <2>1
  <1>19. CASE WindowEnds
    <2>1. UNCHANGED route
      BY <1>19 DEF WindowEnds
    <2>2. QED
      BY <1>p, <1>i, <2>1
  <1>20. CASE RevokePermit
    <2>1. UNCHANGED route
      BY <1>20 DEF RevokePermit
    <2>2. QED
      BY <1>p, <1>i, <2>1
  <1>21. CASE DispatcherDies
    <2>1. \A x \in Handlers : route'[x] = route[x] \/ route'[x].at = "free"
      BY <1>21, <1>t, <1>f DEF DispatcherDies, Responds
    <2>2. QED
      BY <1>p, <1>i, <2>1
  <1>22. CASE HostLosesPower
    <2>1. \A x \in Handlers : route'[x] = route[x] \/ route'[x].at = "free"
      BY <1>22, <1>t, <1>f DEF HostLosesPower, Responds
    <2>2. QED
      BY <1>p, <1>i, <2>1
  <1>23. CASE UNCHANGED provisionVars
    <2>1. UNCHANGED route
      BY <1>23 DEF provisionVars
    <2>2. QED
      BY <1>p, <1>i, <2>1
  <1>24. QED
    BY ProvisionCases, <1>1, <1>2, <1>3, <1>4, <1>5, <1>6, <1>7, <1>8, <1>9,
       <1>10, <1>11, <1>12, <1>13, <1>14, <1>15, <1>16, <1>17, <1>18, <1>19,
       <1>20, <1>21, <1>22, <1>23

(* The profiles on the disk and answered. *)
LEMMA PublishedStep ==
    ASSUME ProvisionInv, [ProvisionNext]_provisionVars
    PROVE  \A p \in (files.profiles \cup safe.profiles \cup answered)' : Issued(safe', p)
  <1>t. ProvisionTypeOK /\ files \in DiskType /\ safe \in DiskType /\ route \in [Handlers -> RouteType]
    BY DEF ProvisionInv, ProvisionTypeOK
  <1>f. Free.at = "free" /\ Unowned.at = "none"
    BY DEF Free, Unowned
  <1>d. \A x : /\ [files EXCEPT !.permits = x].profiles = files.profiles /\ [files EXCEPT !.profiles = x].profiles = x
             /\ [safe EXCEPT !.permits = x].profiles = safe.profiles /\ [safe EXCEPT !.profiles = x].profiles = x
    BY <1>t DEF DiskType
  <1>p. \A p \in files.profiles \cup safe.profiles \cup answered : p \in ProfileType /\ Issued(safe, p)
    BY <1>t, DiskShape DEF ProvisionInv, ProvisionTypeOK, Profiles
  <1>i. \A p \in ProfileType : Issued(safe, p) => Issued(safe', p)
    BY IssuedStays
  <1>1. ASSUME NEW h \in Handlers, NEW bearer \in Bearers, NEW plan \in Plans,
                BeginProvision(h, bearer, plan)
        PROVE  \A p \in (files.profiles \cup safe.profiles \cup answered)' : Issued(safe', p)
    <2>1. UNCHANGED <<files, safe, answered>>
      BY <1>1 DEF BeginProvision, disks, provisionGhosts
    <2>2. QED
      BY <1>p, <1>i, <2>1
  <1>2. ASSUME NEW h \in Handlers, NEW bearer \in Bearers, NEW profile \in
                files.profiles, BeginCreate(h, bearer, profile)
        PROVE  \A p \in (files.profiles \cup safe.profiles \cup answered)' : Issued(safe', p)
    <2>1. UNCHANGED <<files, safe, answered>>
      BY <1>2 DEF BeginCreate, disks, provisionGhosts
    <2>2. QED
      BY <1>p, <1>i, <2>1
  <1>3. ASSUME NEW h \in Handlers, NEW bearer \in Bearers, NEW run \in Runs,
                SubmitTurn(h, bearer, run)
        PROVE  \A p \in (files.profiles \cup safe.profiles \cup answered)' : Issued(safe', p)
    <2>1. UNCHANGED <<files, safe, answered>>
      BY <1>3 DEF SubmitTurn, disks, provisionGhosts
    <2>2. QED
      BY <1>p, <1>i, <2>1
  <1>4. ASSUME NEW h \in Handlers, NEW bearer \in Bearers, NEW run \in Runs,
                StopOwner(h, bearer, run)
        PROVE  \A p \in (files.profiles \cup safe.profiles \cup answered)' : Issued(safe', p)
    <2>1. UNCHANGED <<files, safe, answered>>
      BY <1>4 DEF StopOwner, disks, provisionGhosts
    <2>2. QED
      BY <1>p, <1>i, <2>1
  <1>5. ASSUME NEW h \in Handlers, PersistIssuance(h)
        PROVE  \A p \in (files.profiles \cup safe.profiles \cup answered)' : Issued(safe', p)
    <2>1. files'.profiles = files.profiles
      BY <1>5, <1>t, IssueEffect
    <2>2. UNCHANGED <<safe, answered>>
      BY <1>5 DEF PersistIssuance, provisionGhosts
    <2>3. QED
      BY <1>p, <1>i, <2>1, <2>2
  <1>6. ASSUME NEW h \in Handlers, ReadWinner(h)
        PROVE  \A p \in (files.profiles \cup safe.profiles \cup answered)' : Issued(safe', p)
    <2>1. safe'.profiles = safe.profiles
      BY <1>6, WinnerEffect
    <2>2. UNCHANGED <<files, answered>>
      BY <1>6 DEF ReadWinner, provisionGhosts
    <2>3. QED
      BY <1>p, <1>i, <2>1, <2>2
  <1>7. ASSUME NEW h \in Handlers, PersistPermit(h)
        PROVE  \A p \in (files.profiles \cup safe.profiles \cup answered)' : Issued(safe', p)
    <2>1. files'.profiles = files.profiles /\ safe'.profiles \in {files.profiles, safe.profiles}
      BY <1>7, <1>d DEF PersistPermit
    <2>2. UNCHANGED answered
      BY <1>7 DEF PersistPermit, provisionGhosts
    <2>3. QED
      BY <1>p, <1>i, <2>1, <2>2
  <1>8. ASSUME NEW h \in Handlers, SettlePermit(h)
        PROVE  \A p \in (files.profiles \cup safe.profiles \cup answered)' : Issued(safe', p)
    <2>1. files'.profiles = files.profiles /\ safe'.profiles \in {files.profiles, safe.profiles}
      BY <1>8, <1>d DEF SettlePermit
    <2>2. UNCHANGED answered
      BY <1>8 DEF SettlePermit, provisionGhosts
    <2>3. QED
      BY <1>p, <1>i, <2>1, <2>2
  <1>9. ASSUME NEW h \in Handlers, PublishProfile(h)
        PROVE  \A p \in (files.profiles \cup safe.profiles \cup answered)' : Issued(safe', p)
    <2>1. route[h].profile \in ProfileType /\ Issued(safe, route[h].profile)
      BY <1>9, <1>t, RouteShape DEF PublishProfile, ProvisionInv, Profiles
    <2>2. files' = files \/ files' = [files EXCEPT !.profiles = files.profiles \cup {route[h].profile}]
      BY <1>9 DEF PublishProfile
    <2>3. files'.profiles \subseteq files.profiles \cup {route[h].profile}
      BY <1>t, <2>2 DEF DiskType
    <2>4. UNCHANGED <<safe, answered>>
      BY <1>9 DEF PublishProfile, provisionGhosts
    <2>5. QED
      BY <1>p, <1>i, <2>1, <2>3, <2>4
  <1>10. ASSUME NEW h \in Handlers, SyncProfile(h)
        PROVE  \A p \in (files.profiles \cup safe.profiles \cup answered)' : Issued(safe', p)
    <2>1. files'.profiles = files.profiles /\ safe'.profiles \in {files.profiles, safe.profiles}
      BY <1>10, <1>d DEF SyncProfile
    <2>2. UNCHANGED answered
      BY <1>10 DEF SyncProfile, provisionGhosts
    <2>3. QED
      BY <1>p, <1>i, <2>1, <2>2
  <1>11. ASSUME NEW h \in Handlers, AnswerProvision(h)
        PROVE  \A p \in (files.profiles \cup safe.profiles \cup answered)' : Issued(safe', p)
    <2>1. route[h].profile \in ProfileType /\ Issued(safe, route[h].profile)
      BY <1>11, <1>t, RouteShape DEF AnswerProvision, ProvisionInv, Profiles
    <2>2. UNCHANGED disks /\ answered' \subseteq answered \cup {route[h].profile}
      BY <1>11 DEF AnswerProvision, disks
    <2>3. QED
      BY <1>p, <1>i, <2>1, <2>2 DEF disks
  <1>12. ASSUME NEW h \in Handlers, ProvisionFails(h)
        PROVE  \A p \in (files.profiles \cup safe.profiles \cup answered)' : Issued(safe', p)
    <2>1. UNCHANGED <<files, safe, answered>>
      BY <1>12 DEF ProvisionFails, disks, provisionGhosts
    <2>2. QED
      BY <1>p, <1>i, <2>1
  <1>13. ASSUME NEW h \in Handlers, ClaimAndSpawn(h)
        PROVE  \A p \in (files.profiles \cup safe.profiles \cup answered)' : Issued(safe', p)
    <2>1. UNCHANGED <<files, safe, answered>>
      BY <1>13 DEF ClaimAndSpawn, disks, provisionGhosts
    <2>2. QED
      BY <1>p, <1>i, <2>1
  <1>14. ASSUME NEW run \in Runs, PrepareParent(run)
        PROVE  \A p \in (files.profiles \cup safe.profiles \cup answered)' : Issued(safe', p)
    <2>1. UNCHANGED <<files, safe, answered>>
      BY <1>14 DEF PrepareParent, disks, provisionGhosts
    <2>2. QED
      BY <1>p, <1>i, <2>1
  <1>15. ASSUME NEW run \in Runs, PrepareWorker(run)
        PROVE  \A p \in (files.profiles \cup safe.profiles \cup answered)' : Issued(safe', p)
    <2>1. UNCHANGED <<files, safe, answered>>
      BY <1>15 DEF PrepareWorker, disks, provisionGhosts
    <2>2. QED
      BY <1>p, <1>i, <2>1
  <1>16. ASSUME NEW run \in Runs, LaunchParent(run)
        PROVE  \A p \in (files.profiles \cup safe.profiles \cup answered)' : Issued(safe', p)
    <2>1. UNCHANGED <<files, safe, answered>>
      BY <1>16 DEF LaunchParent, disks, provisionGhosts
    <2>2. QED
      BY <1>p, <1>i, <2>1
  <1>17. ASSUME NEW run \in Runs, OwnerEnds(run)
        PROVE  \A p \in (files.profiles \cup safe.profiles \cup answered)' : Issued(safe', p)
    <2>1. UNCHANGED <<files, safe, answered>>
      BY <1>17 DEF OwnerEnds, disks, provisionGhosts
    <2>2. QED
      BY <1>p, <1>i, <2>1
  <1>18. CASE ReplaceClients
    <2>1. UNCHANGED <<files, safe, answered>>
      BY <1>18 DEF ReplaceClients, disks, provisionGhosts
    <2>2. QED
      BY <1>p, <1>i, <2>1
  <1>19. CASE WindowEnds
    <2>1. UNCHANGED <<files, safe, answered>>
      BY <1>19 DEF WindowEnds, disks, provisionGhosts
    <2>2. QED
      BY <1>p, <1>i, <2>1
  <1>20. CASE RevokePermit
    <2>1. files'.profiles = files.profiles /\ safe'.profiles \in {files.profiles, safe.profiles}
      BY <1>20, <1>d DEF RevokePermit
    <2>2. UNCHANGED answered
      BY <1>20 DEF RevokePermit, provisionGhosts
    <2>3. QED
      BY <1>p, <1>i, <2>1, <2>2
  <1>21. CASE DispatcherDies
    <2>1. UNCHANGED <<files, safe, answered>>
      BY <1>21 DEF DispatcherDies, disks, provisionGhosts
    <2>2. QED
      BY <1>p, <1>i, <2>1
  <1>22. CASE HostLosesPower
    <2>1. files'.profiles \subseteq files.profiles \cup safe.profiles /\ safe' = files'
      BY <1>22, <1>t, LossKeeps
    <2>2. UNCHANGED answered
      BY <1>22 DEF HostLosesPower, provisionGhosts
    <2>3. QED
      BY <1>p, <1>i, <2>1, <2>2
  <1>23. CASE UNCHANGED provisionVars
    <2>1. UNCHANGED <<files, safe, answered>>
      BY <1>23 DEF provisionVars, disks, provisionGhosts
    <2>2. QED
      BY <1>p, <1>i, <2>1
  <1>24. QED
    BY ProvisionCases, <1>1, <1>2, <1>3, <1>4, <1>5, <1>6, <1>7, <1>8, <1>9,
       <1>10, <1>11, <1>12, <1>13, <1>14, <1>15, <1>16, <1>17, <1>18, <1>19,
       <1>20, <1>21, <1>22, <1>23

(* The profiles of the owners. *)
LEMMA OwnedProfileStep ==
    ASSUME ProvisionInv, [ProvisionNext]_provisionVars
    PROVE  \A r \in Runs : owners'[r].at # "none" =>
                   /\ owners'[r].profile \in ProfileType /\ Issued(safe', owners'[r].profile)
                   /\ owners'[r].profile.plan.run = r /\ owners'[r].who = owners'[r].profile.plan.caller
  <1>t. ProvisionTypeOK /\ files \in DiskType /\ safe \in DiskType /\ route \in [Handlers -> RouteType]
    BY DEF ProvisionInv, ProvisionTypeOK
  <1>f. Free.at = "free" /\ Unowned.at = "none"
    BY DEF Free, Unowned
  <1>o. owners \in [Runs -> OwnerType]
    BY DEF ProvisionInv, ProvisionTypeOK
  <1>p. \A r \in Runs : owners[r].at # "none" =>
            /\ owners[r].profile \in ProfileType /\ Issued(safe, owners[r].profile)
            /\ owners[r].profile.plan.run = r /\ owners[r].who = owners[r].profile.plan.caller
    BY <1>o, OwnerShape DEF ProvisionInv, Profiles
  <1>i. \A p \in ProfileType : Issued(safe, p) => Issued(safe', p)
    BY IssuedStays
  <1>1. ASSUME NEW h \in Handlers, NEW bearer \in Bearers, NEW plan \in Plans,
                BeginProvision(h, bearer, plan)
        PROVE  \A r \in Runs : owners'[r].at # "none" =>
                   /\ owners'[r].profile \in ProfileType /\ Issued(safe', owners'[r].profile)
                   /\ owners'[r].profile.plan.run = r /\ owners'[r].who = owners'[r].profile.plan.caller
    <2>1. UNCHANGED owners
      BY <1>1 DEF BeginProvision
    <2>2. QED
      BY <1>p, <1>i, <2>1
  <1>2. ASSUME NEW h \in Handlers, NEW bearer \in Bearers, NEW profile \in
                files.profiles, BeginCreate(h, bearer, profile)
        PROVE  \A r \in Runs : owners'[r].at # "none" =>
                   /\ owners'[r].profile \in ProfileType /\ Issued(safe', owners'[r].profile)
                   /\ owners'[r].profile.plan.run = r /\ owners'[r].who = owners'[r].profile.plan.caller
    <2>1. UNCHANGED owners
      BY <1>2 DEF BeginCreate
    <2>2. QED
      BY <1>p, <1>i, <2>1
  <1>3. ASSUME NEW h \in Handlers, NEW bearer \in Bearers, NEW run \in Runs,
                SubmitTurn(h, bearer, run)
        PROVE  \A r \in Runs : owners'[r].at # "none" =>
                   /\ owners'[r].profile \in ProfileType /\ Issued(safe', owners'[r].profile)
                   /\ owners'[r].profile.plan.run = r /\ owners'[r].who = owners'[r].profile.plan.caller
    <2>1. UNCHANGED owners
      BY <1>3 DEF SubmitTurn
    <2>2. QED
      BY <1>p, <1>i, <2>1
  <1>4. ASSUME NEW h \in Handlers, NEW bearer \in Bearers, NEW run \in Runs,
                StopOwner(h, bearer, run)
        PROVE  \A r \in Runs : owners'[r].at # "none" =>
                   /\ owners'[r].profile \in ProfileType /\ Issued(safe', owners'[r].profile)
                   /\ owners'[r].profile.plan.run = r /\ owners'[r].who = owners'[r].profile.plan.caller
    <2>1. owners[run].at # "none" /\ owners[run] \in OwnerType
      BY <1>4, <1>o DEF StopOwner, Sees, OwnerType, Unowned
    <2>2. \A point \in {"ended"} : /\ [owners[run] EXCEPT !.at = point].profile = owners[run].profile
                                /\ [owners[run] EXCEPT !.at = point].who = owners[run].who
      BY <2>1, OwnerGoesOn
    <2>3. \E point \in {"ended"} : owners' = [owners EXCEPT ![run] = [owners[run] EXCEPT !.at = point]]
      BY <1>4 DEF StopOwner, OwnerGoes
    <2>4. \A r \in Runs : \/ owners'[r] = owners[r]
                         \/ /\ r = run /\ owners'[r].profile = owners[r].profile
                            /\ owners'[r].who = owners[r].who
      BY <1>o, <2>2, <2>3
    <2>5. QED
      BY <1>p, <1>i, <2>1, <2>4
  <1>5. ASSUME NEW h \in Handlers, PersistIssuance(h)
        PROVE  \A r \in Runs : owners'[r].at # "none" =>
                   /\ owners'[r].profile \in ProfileType /\ Issued(safe', owners'[r].profile)
                   /\ owners'[r].profile.plan.run = r /\ owners'[r].who = owners'[r].profile.plan.caller
    <2>1. UNCHANGED owners
      BY <1>5 DEF PersistIssuance
    <2>2. QED
      BY <1>p, <1>i, <2>1
  <1>6. ASSUME NEW h \in Handlers, ReadWinner(h)
        PROVE  \A r \in Runs : owners'[r].at # "none" =>
                   /\ owners'[r].profile \in ProfileType /\ Issued(safe', owners'[r].profile)
                   /\ owners'[r].profile.plan.run = r /\ owners'[r].who = owners'[r].profile.plan.caller
    <2>1. UNCHANGED owners
      BY <1>6 DEF ReadWinner
    <2>2. QED
      BY <1>p, <1>i, <2>1
  <1>7. ASSUME NEW h \in Handlers, PersistPermit(h)
        PROVE  \A r \in Runs : owners'[r].at # "none" =>
                   /\ owners'[r].profile \in ProfileType /\ Issued(safe', owners'[r].profile)
                   /\ owners'[r].profile.plan.run = r /\ owners'[r].who = owners'[r].profile.plan.caller
    <2>1. UNCHANGED owners
      BY <1>7 DEF PersistPermit
    <2>2. QED
      BY <1>p, <1>i, <2>1
  <1>8. ASSUME NEW h \in Handlers, SettlePermit(h)
        PROVE  \A r \in Runs : owners'[r].at # "none" =>
                   /\ owners'[r].profile \in ProfileType /\ Issued(safe', owners'[r].profile)
                   /\ owners'[r].profile.plan.run = r /\ owners'[r].who = owners'[r].profile.plan.caller
    <2>1. UNCHANGED owners
      BY <1>8 DEF SettlePermit
    <2>2. QED
      BY <1>p, <1>i, <2>1
  <1>9. ASSUME NEW h \in Handlers, PublishProfile(h)
        PROVE  \A r \in Runs : owners'[r].at # "none" =>
                   /\ owners'[r].profile \in ProfileType /\ Issued(safe', owners'[r].profile)
                   /\ owners'[r].profile.plan.run = r /\ owners'[r].who = owners'[r].profile.plan.caller
    <2>1. UNCHANGED owners
      BY <1>9 DEF PublishProfile
    <2>2. QED
      BY <1>p, <1>i, <2>1
  <1>10. ASSUME NEW h \in Handlers, SyncProfile(h)
        PROVE  \A r \in Runs : owners'[r].at # "none" =>
                   /\ owners'[r].profile \in ProfileType /\ Issued(safe', owners'[r].profile)
                   /\ owners'[r].profile.plan.run = r /\ owners'[r].who = owners'[r].profile.plan.caller
    <2>1. UNCHANGED owners
      BY <1>10 DEF SyncProfile
    <2>2. QED
      BY <1>p, <1>i, <2>1
  <1>11. ASSUME NEW h \in Handlers, AnswerProvision(h)
        PROVE  \A r \in Runs : owners'[r].at # "none" =>
                   /\ owners'[r].profile \in ProfileType /\ Issued(safe', owners'[r].profile)
                   /\ owners'[r].profile.plan.run = r /\ owners'[r].who = owners'[r].profile.plan.caller
    <2>1. UNCHANGED owners
      BY <1>11 DEF AnswerProvision
    <2>2. QED
      BY <1>p, <1>i, <2>1
  <1>12. ASSUME NEW h \in Handlers, ProvisionFails(h)
        PROVE  \A r \in Runs : owners'[r].at # "none" =>
                   /\ owners'[r].profile \in ProfileType /\ Issued(safe', owners'[r].profile)
                   /\ owners'[r].profile.plan.run = r /\ owners'[r].who = owners'[r].profile.plan.caller
    <2>1. UNCHANGED owners
      BY <1>12 DEF ProvisionFails
    <2>2. QED
      BY <1>p, <1>i, <2>1
  <1>13. ASSUME NEW h \in Handlers, ClaimAndSpawn(h)
        PROVE  \A r \in Runs : owners'[r].at # "none" =>
                   /\ owners'[r].profile \in ProfileType /\ Issued(safe', owners'[r].profile)
                   /\ owners'[r].profile.plan.run = r /\ owners'[r].who = owners'[r].profile.plan.caller
    <2>1. route[h].profile \in ProfileType /\ Issued(safe, route[h].profile)
          /\ route[h].who = route[h].profile.plan.caller
      BY <1>13, <1>t, RouteShape DEF ClaimAndSpawn, ProvisionInv, Profiles
    <2>2. \/ owners' = owners
          \/ owners' = [owners EXCEPT ![route[h].profile.plan.run] =
                           [at |-> "claimed", profile |-> route[h].profile, who |-> route[h].who]]
      BY <1>13 DEF ClaimAndSpawn
    <2>3. \A r \in Runs : \/ owners'[r] = owners[r]
                         \/ /\ r = route[h].profile.plan.run /\ owners'[r].profile = route[h].profile
                            /\ owners'[r].who = route[h].who
      BY <1>o, <2>2
    <2>4. QED
      BY <1>p, <1>i, <2>1, <2>3
  <1>14. ASSUME NEW run \in Runs, PrepareParent(run)
        PROVE  \A r \in Runs : owners'[r].at # "none" =>
                   /\ owners'[r].profile \in ProfileType /\ Issued(safe', owners'[r].profile)
                   /\ owners'[r].profile.plan.run = r /\ owners'[r].who = owners'[r].profile.plan.caller
    <2>1. owners[run].at # "none" /\ owners[run] \in OwnerType
      BY <1>14, <1>o DEF PrepareParent, Sees, OwnerType, Unowned
    <2>2. \A point \in {"parent", "ended"} : /\ [owners[run] EXCEPT !.at = point].profile = owners[run].profile
                                /\ [owners[run] EXCEPT !.at = point].who = owners[run].who
      BY <2>1, OwnerGoesOn
    <2>3. \E point \in {"parent", "ended"} : owners' = [owners EXCEPT ![run] = [owners[run] EXCEPT !.at = point]]
      BY <1>14 DEF PrepareParent, OwnerGoes
    <2>4. \A r \in Runs : \/ owners'[r] = owners[r]
                         \/ /\ r = run /\ owners'[r].profile = owners[r].profile
                            /\ owners'[r].who = owners[r].who
      BY <1>o, <2>2, <2>3
    <2>5. QED
      BY <1>p, <1>i, <2>1, <2>4
  <1>15. ASSUME NEW run \in Runs, PrepareWorker(run)
        PROVE  \A r \in Runs : owners'[r].at # "none" =>
                   /\ owners'[r].profile \in ProfileType /\ Issued(safe', owners'[r].profile)
                   /\ owners'[r].profile.plan.run = r /\ owners'[r].who = owners'[r].profile.plan.caller
    <2>1. owners[run].at # "none" /\ owners[run] \in OwnerType
      BY <1>15, <1>o DEF PrepareWorker, Sees, OwnerType, Unowned
    <2>2. \A point \in {"pair", "ended"} : /\ [owners[run] EXCEPT !.at = point].profile = owners[run].profile
                                /\ [owners[run] EXCEPT !.at = point].who = owners[run].who
      BY <2>1, OwnerGoesOn
    <2>3. \E point \in {"pair", "ended"} : owners' = [owners EXCEPT ![run] = [owners[run] EXCEPT !.at = point]]
      BY <1>15 DEF PrepareWorker, OwnerGoes
    <2>4. \A r \in Runs : \/ owners'[r] = owners[r]
                         \/ /\ r = run /\ owners'[r].profile = owners[r].profile
                            /\ owners'[r].who = owners[r].who
      BY <1>o, <2>2, <2>3
    <2>5. QED
      BY <1>p, <1>i, <2>1, <2>4
  <1>16. ASSUME NEW run \in Runs, LaunchParent(run)
        PROVE  \A r \in Runs : owners'[r].at # "none" =>
                   /\ owners'[r].profile \in ProfileType /\ Issued(safe', owners'[r].profile)
                   /\ owners'[r].profile.plan.run = r /\ owners'[r].who = owners'[r].profile.plan.caller
    <2>1. owners[run].at # "none" /\ owners[run] \in OwnerType
      BY <1>16, <1>o DEF LaunchParent, Sees, OwnerType, Unowned
    <2>2. \A point \in {"running", "ended"} : /\ [owners[run] EXCEPT !.at = point].profile = owners[run].profile
                                /\ [owners[run] EXCEPT !.at = point].who = owners[run].who
      BY <2>1, OwnerGoesOn
    <2>3. \E point \in {"running", "ended"} : owners' = [owners EXCEPT ![run] = [owners[run] EXCEPT !.at = point]]
      BY <1>16 DEF LaunchParent, OwnerGoes
    <2>4. \A r \in Runs : \/ owners'[r] = owners[r]
                         \/ /\ r = run /\ owners'[r].profile = owners[r].profile
                            /\ owners'[r].who = owners[r].who
      BY <1>o, <2>2, <2>3
    <2>5. QED
      BY <1>p, <1>i, <2>1, <2>4
  <1>17. ASSUME NEW run \in Runs, OwnerEnds(run)
        PROVE  \A r \in Runs : owners'[r].at # "none" =>
                   /\ owners'[r].profile \in ProfileType /\ Issued(safe', owners'[r].profile)
                   /\ owners'[r].profile.plan.run = r /\ owners'[r].who = owners'[r].profile.plan.caller
    <2>1. owners[run].at # "none" /\ owners[run] \in OwnerType
      BY <1>17, <1>o DEF OwnerEnds, Sees, OwnerType, Unowned
    <2>2. \A point \in {"ended"} : /\ [owners[run] EXCEPT !.at = point].profile = owners[run].profile
                                /\ [owners[run] EXCEPT !.at = point].who = owners[run].who
      BY <2>1, OwnerGoesOn
    <2>3. \E point \in {"ended"} : owners' = [owners EXCEPT ![run] = [owners[run] EXCEPT !.at = point]]
      BY <1>17 DEF OwnerEnds, OwnerGoes
    <2>4. \A r \in Runs : \/ owners'[r] = owners[r]
                         \/ /\ r = run /\ owners'[r].profile = owners[r].profile
                            /\ owners'[r].who = owners[r].who
      BY <1>o, <2>2, <2>3
    <2>5. QED
      BY <1>p, <1>i, <2>1, <2>4
  <1>18. CASE ReplaceClients
    <2>1. UNCHANGED owners
      BY <1>18 DEF ReplaceClients
    <2>2. QED
      BY <1>p, <1>i, <2>1
  <1>19. CASE WindowEnds
    <2>1. UNCHANGED owners
      BY <1>19 DEF WindowEnds
    <2>2. QED
      BY <1>p, <1>i, <2>1
  <1>20. CASE RevokePermit
    <2>1. UNCHANGED owners
      BY <1>20 DEF RevokePermit
    <2>2. QED
      BY <1>p, <1>i, <2>1
  <1>21. CASE DispatcherDies
    BY <1>21, <1>f DEF DispatcherDies
  <1>22. CASE HostLosesPower
    BY <1>22, <1>f DEF HostLosesPower
  <1>23. CASE UNCHANGED provisionVars
    <2>1. UNCHANGED owners
      BY <1>23 DEF provisionVars
    <2>2. QED
      BY <1>p, <1>i, <2>1
  <1>24. QED
    BY ProvisionCases, <1>1, <1>2, <1>3, <1>4, <1>5, <1>6, <1>7, <1>8, <1>9,
       <1>10, <1>11, <1>12, <1>13, <1>14, <1>15, <1>16, <1>17, <1>18, <1>19,
       <1>20, <1>21, <1>22, <1>23

(* Every step keeps the profiles. *)
LEMMA ProfilesStep ==
    ASSUME ProvisionInv, [ProvisionNext]_provisionVars
    PROVE  Profiles'
  BY RoutedStep, PublishedStep, OwnedProfileStep DEF Profiles

(* The launches and the turns. *)
LEMMA LaunchedFromStep ==
    ASSUME ProvisionInv, [ProvisionNext]_provisionVars
    PROVE  LaunchedFrom'
  <1>t. ProvisionTypeOK /\ files \in DiskType /\ safe \in DiskType /\ route \in [Handlers -> RouteType]
    BY DEF ProvisionInv, ProvisionTypeOK
  <1>f. Free.at = "free" /\ Unowned.at = "none"
    BY DEF Free, Unowned
  <1>o. owners \in [Runs -> OwnerType]
    BY DEF ProvisionInv, ProvisionTypeOK
  <1>p. \A r \in Runs : owners[r].at # "none" =>
            /\ owners[r].profile \in ProfileType /\ Issued(safe, owners[r].profile)
            /\ owners[r].profile.plan.run = r /\ owners[r].who = owners[r].profile.plan.caller
    BY <1>o, OwnerShape DEF ProvisionInv, Profiles
  <1>i. \A p \in ProfileType : Issued(safe, p) => Issued(safe', p)
    BY IssuedStays
  <1>l. /\ launched \in [Runs -> Seq(ProfileType)] /\ served \in SUBSET [run : Runs, who : {p.caller : p \in Plans}]
        /\ LaunchedFrom /\ tombs \subseteq Runs
    BY DEF ProvisionInv, ProvisionTypeOK
  <1>s. \A r \in Runs : safe.issued[r] # Unissued => safe'.issued[r] = safe.issued[r]
    BY SafeStays
  <1>1. ASSUME NEW h \in Handlers, NEW bearer \in Bearers, NEW plan \in Plans,
                BeginProvision(h, bearer, plan)
        PROVE  LaunchedFrom'
    <2>1. UNCHANGED <<tombs, owners, launched, served>>
      BY <1>1 DEF BeginProvision, provisionGhosts
    <2>8. \A r \in Runs : launched[r] # <<>> =>
              \E p \in ProfileType : launched[r] = <<p>> /\ Issued(safe', p) /\ p.plan.run = r
      BY <1>i, <1>l DEF LaunchedFrom
    <2>9. \A s \in served : /\ safe'.issued[s.run] # Unissued
                           /\ s.who = safe'.issued[s.run].intent.caller
      BY <1>l, <1>s DEF LaunchedFrom
    <2>10. QED
      BY <1>l, <2>1, <2>8, <2>9 DEF LaunchedFrom
  <1>2. ASSUME NEW h \in Handlers, NEW bearer \in Bearers, NEW profile \in
                files.profiles, BeginCreate(h, bearer, profile)
        PROVE  LaunchedFrom'
    <2>1. UNCHANGED <<tombs, owners, launched, served>>
      BY <1>2 DEF BeginCreate, provisionGhosts
    <2>8. \A r \in Runs : launched[r] # <<>> =>
              \E p \in ProfileType : launched[r] = <<p>> /\ Issued(safe', p) /\ p.plan.run = r
      BY <1>i, <1>l DEF LaunchedFrom
    <2>9. \A s \in served : /\ safe'.issued[s.run] # Unissued
                           /\ s.who = safe'.issued[s.run].intent.caller
      BY <1>l, <1>s DEF LaunchedFrom
    <2>10. QED
      BY <1>l, <2>1, <2>8, <2>9 DEF LaunchedFrom
  <1>3. ASSUME NEW h \in Handlers, NEW bearer \in Bearers, NEW run \in Runs,
                SubmitTurn(h, bearer, run)
        PROVE  LaunchedFrom'
    <2>1. UNCHANGED <<tombs, owners, launched>> /\ served' = served \cup {[run |-> run, who |-> Authenticated(bearer)]}
      BY <1>3 DEF SubmitTurn
    <2>2. owners[run].at = "running" /\ owners[run].who = Authenticated(bearer)
      BY <1>3 DEF SubmitTurn, Sees
    <2>3. safe'.issued[run] # Unissued /\ Authenticated(bearer) = safe'.issued[run].intent.caller
      BY <1>p, <1>i, <2>2 DEF Issued
    <2>4. \A s \in served' : s \in served \/ (s.run = run /\ s.who = Authenticated(bearer))
      BY <2>1
    <2>8. \A r \in Runs : launched[r] # <<>> =>
              \E p \in ProfileType : launched[r] = <<p>> /\ Issued(safe', p) /\ p.plan.run = r
      BY <1>i, <1>l DEF LaunchedFrom
    <2>9. \A s \in served : /\ safe'.issued[s.run] # Unissued
                           /\ s.who = safe'.issued[s.run].intent.caller
      BY <1>l, <1>s DEF LaunchedFrom
    <2>10. QED
      BY <1>l, <2>1, <2>3, <2>4, <2>8, <2>9 DEF LaunchedFrom
  <1>4. ASSUME NEW h \in Handlers, NEW bearer \in Bearers, NEW run \in Runs,
                StopOwner(h, bearer, run)
        PROVE  LaunchedFrom'
    <2>1. owners[run].at # "none" /\ owners[run] \in OwnerType
      BY <1>4, <1>o DEF StopOwner, Sees, OwnerType, Unowned
    <2>2. \A point \in {"ended"} : [owners[run] EXCEPT !.at = point].at = point
      BY <2>1, OwnerGoesOn
    <2>3. \E point \in {"ended"} : owners' = [owners EXCEPT ![run] = [owners[run] EXCEPT !.at = point]]
      BY <1>4 DEF StopOwner, OwnerGoes
    <2>4. \A r \in Runs : owners'[r] = owners[r] \/ (r = run /\ owners'[r].at \in {"ended"})
      BY <1>o, <2>2, <2>3
    <2>5. UNCHANGED <<tombs, launched, served>>
          /\ (owners[run].at \in {"claimed", "parent"} \/ {"ended"} = {"ended"})
      BY <1>4 DEF StopOwner, provisionGhosts
    <2>8. \A r \in Runs : launched[r] # <<>> =>
              \E p \in ProfileType : launched[r] = <<p>> /\ Issued(safe', p) /\ p.plan.run = r
      BY <1>i, <1>l DEF LaunchedFrom
    <2>9. \A s \in served : /\ safe'.issued[s.run] # Unissued
                           /\ s.who = safe'.issued[s.run].intent.caller
      BY <1>l, <1>s DEF LaunchedFrom
    <2>10. QED
      BY <1>l, <2>1, <2>4, <2>5, <2>8, <2>9 DEF LaunchedFrom
  <1>5. ASSUME NEW h \in Handlers, PersistIssuance(h)
        PROVE  LaunchedFrom'
    <2>1. UNCHANGED <<tombs, owners, launched, served>>
      BY <1>5 DEF PersistIssuance, provisionGhosts
    <2>8. \A r \in Runs : launched[r] # <<>> =>
              \E p \in ProfileType : launched[r] = <<p>> /\ Issued(safe', p) /\ p.plan.run = r
      BY <1>i, <1>l DEF LaunchedFrom
    <2>9. \A s \in served : /\ safe'.issued[s.run] # Unissued
                           /\ s.who = safe'.issued[s.run].intent.caller
      BY <1>l, <1>s DEF LaunchedFrom
    <2>10. QED
      BY <1>l, <2>1, <2>8, <2>9 DEF LaunchedFrom
  <1>6. ASSUME NEW h \in Handlers, ReadWinner(h)
        PROVE  LaunchedFrom'
    <2>1. UNCHANGED <<tombs, owners, launched, served>>
      BY <1>6 DEF ReadWinner, provisionGhosts
    <2>8. \A r \in Runs : launched[r] # <<>> =>
              \E p \in ProfileType : launched[r] = <<p>> /\ Issued(safe', p) /\ p.plan.run = r
      BY <1>i, <1>l DEF LaunchedFrom
    <2>9. \A s \in served : /\ safe'.issued[s.run] # Unissued
                           /\ s.who = safe'.issued[s.run].intent.caller
      BY <1>l, <1>s DEF LaunchedFrom
    <2>10. QED
      BY <1>l, <2>1, <2>8, <2>9 DEF LaunchedFrom
  <1>7. ASSUME NEW h \in Handlers, PersistPermit(h)
        PROVE  LaunchedFrom'
    <2>1. UNCHANGED <<tombs, owners, launched, served>>
      BY <1>7 DEF PersistPermit, provisionGhosts
    <2>8. \A r \in Runs : launched[r] # <<>> =>
              \E p \in ProfileType : launched[r] = <<p>> /\ Issued(safe', p) /\ p.plan.run = r
      BY <1>i, <1>l DEF LaunchedFrom
    <2>9. \A s \in served : /\ safe'.issued[s.run] # Unissued
                           /\ s.who = safe'.issued[s.run].intent.caller
      BY <1>l, <1>s DEF LaunchedFrom
    <2>10. QED
      BY <1>l, <2>1, <2>8, <2>9 DEF LaunchedFrom
  <1>8. ASSUME NEW h \in Handlers, SettlePermit(h)
        PROVE  LaunchedFrom'
    <2>1. UNCHANGED <<tombs, owners, launched, served>>
      BY <1>8 DEF SettlePermit, provisionGhosts
    <2>8. \A r \in Runs : launched[r] # <<>> =>
              \E p \in ProfileType : launched[r] = <<p>> /\ Issued(safe', p) /\ p.plan.run = r
      BY <1>i, <1>l DEF LaunchedFrom
    <2>9. \A s \in served : /\ safe'.issued[s.run] # Unissued
                           /\ s.who = safe'.issued[s.run].intent.caller
      BY <1>l, <1>s DEF LaunchedFrom
    <2>10. QED
      BY <1>l, <2>1, <2>8, <2>9 DEF LaunchedFrom
  <1>9. ASSUME NEW h \in Handlers, PublishProfile(h)
        PROVE  LaunchedFrom'
    <2>1. UNCHANGED <<tombs, owners, launched, served>>
      BY <1>9 DEF PublishProfile, provisionGhosts
    <2>8. \A r \in Runs : launched[r] # <<>> =>
              \E p \in ProfileType : launched[r] = <<p>> /\ Issued(safe', p) /\ p.plan.run = r
      BY <1>i, <1>l DEF LaunchedFrom
    <2>9. \A s \in served : /\ safe'.issued[s.run] # Unissued
                           /\ s.who = safe'.issued[s.run].intent.caller
      BY <1>l, <1>s DEF LaunchedFrom
    <2>10. QED
      BY <1>l, <2>1, <2>8, <2>9 DEF LaunchedFrom
  <1>10. ASSUME NEW h \in Handlers, SyncProfile(h)
        PROVE  LaunchedFrom'
    <2>1. UNCHANGED <<tombs, owners, launched, served>>
      BY <1>10 DEF SyncProfile, provisionGhosts
    <2>8. \A r \in Runs : launched[r] # <<>> =>
              \E p \in ProfileType : launched[r] = <<p>> /\ Issued(safe', p) /\ p.plan.run = r
      BY <1>i, <1>l DEF LaunchedFrom
    <2>9. \A s \in served : /\ safe'.issued[s.run] # Unissued
                           /\ s.who = safe'.issued[s.run].intent.caller
      BY <1>l, <1>s DEF LaunchedFrom
    <2>10. QED
      BY <1>l, <2>1, <2>8, <2>9 DEF LaunchedFrom
  <1>11. ASSUME NEW h \in Handlers, AnswerProvision(h)
        PROVE  LaunchedFrom'
    <2>1. UNCHANGED <<tombs, owners, launched, served>>
      BY <1>11 DEF AnswerProvision, provisionGhosts
    <2>8. \A r \in Runs : launched[r] # <<>> =>
              \E p \in ProfileType : launched[r] = <<p>> /\ Issued(safe', p) /\ p.plan.run = r
      BY <1>i, <1>l DEF LaunchedFrom
    <2>9. \A s \in served : /\ safe'.issued[s.run] # Unissued
                           /\ s.who = safe'.issued[s.run].intent.caller
      BY <1>l, <1>s DEF LaunchedFrom
    <2>10. QED
      BY <1>l, <2>1, <2>8, <2>9 DEF LaunchedFrom
  <1>12. ASSUME NEW h \in Handlers, ProvisionFails(h)
        PROVE  LaunchedFrom'
    <2>1. UNCHANGED <<tombs, owners, launched, served>>
      BY <1>12 DEF ProvisionFails, provisionGhosts
    <2>8. \A r \in Runs : launched[r] # <<>> =>
              \E p \in ProfileType : launched[r] = <<p>> /\ Issued(safe', p) /\ p.plan.run = r
      BY <1>i, <1>l DEF LaunchedFrom
    <2>9. \A s \in served : /\ safe'.issued[s.run] # Unissued
                           /\ s.who = safe'.issued[s.run].intent.caller
      BY <1>l, <1>s DEF LaunchedFrom
    <2>10. QED
      BY <1>l, <2>1, <2>8, <2>9 DEF LaunchedFrom
  <1>13. ASSUME NEW h \in Handlers, ClaimAndSpawn(h)
        PROVE  LaunchedFrom'
    <2>1. /\ tombs \subseteq tombs' /\ UNCHANGED <<launched, served>>
          /\ \/ owners' = owners
             \/ /\ route[h].profile.plan.run \in tombs' \ tombs
                /\ owners' = [owners EXCEPT ![route[h].profile.plan.run] =
                                [at |-> "claimed", profile |-> route[h].profile, who |-> route[h].who]]
      BY <1>13 DEF ClaimAndSpawn, provisionGhosts
    <2>2. \A r \in Runs : owners'[r] = owners[r] \/ r \in tombs' \ tombs
      BY <1>o, <2>1
    <2>8. \A r \in Runs : launched[r] # <<>> =>
              \E p \in ProfileType : launched[r] = <<p>> /\ Issued(safe', p) /\ p.plan.run = r
      BY <1>i, <1>l DEF LaunchedFrom
    <2>9. \A s \in served : /\ safe'.issued[s.run] # Unissued
                           /\ s.who = safe'.issued[s.run].intent.caller
      BY <1>l, <1>s DEF LaunchedFrom
    <2>10. QED
      BY <1>l, <2>1, <2>2, <2>8, <2>9 DEF LaunchedFrom
  <1>14. ASSUME NEW run \in Runs, PrepareParent(run)
        PROVE  LaunchedFrom'
    <2>1. owners[run].at # "none" /\ owners[run] \in OwnerType
      BY <1>14, <1>o DEF PrepareParent, Sees, OwnerType, Unowned
    <2>2. \A point \in {"parent", "ended"} : [owners[run] EXCEPT !.at = point].at = point
      BY <2>1, OwnerGoesOn
    <2>3. \E point \in {"parent", "ended"} : owners' = [owners EXCEPT ![run] = [owners[run] EXCEPT !.at = point]]
      BY <1>14 DEF PrepareParent, OwnerGoes
    <2>4. \A r \in Runs : owners'[r] = owners[r] \/ (r = run /\ owners'[r].at \in {"parent", "ended"})
      BY <1>o, <2>2, <2>3
    <2>5. UNCHANGED <<tombs, launched, served>>
          /\ (owners[run].at \in {"claimed", "parent"} \/ {"parent", "ended"} = {"ended"})
      BY <1>14 DEF PrepareParent, provisionGhosts
    <2>8. \A r \in Runs : launched[r] # <<>> =>
              \E p \in ProfileType : launched[r] = <<p>> /\ Issued(safe', p) /\ p.plan.run = r
      BY <1>i, <1>l DEF LaunchedFrom
    <2>9. \A s \in served : /\ safe'.issued[s.run] # Unissued
                           /\ s.who = safe'.issued[s.run].intent.caller
      BY <1>l, <1>s DEF LaunchedFrom
    <2>10. QED
      BY <1>l, <2>1, <2>4, <2>5, <2>8, <2>9 DEF LaunchedFrom
  <1>15. ASSUME NEW run \in Runs, PrepareWorker(run)
        PROVE  LaunchedFrom'
    <2>1. owners[run].at # "none" /\ owners[run] \in OwnerType
      BY <1>15, <1>o DEF PrepareWorker, Sees, OwnerType, Unowned
    <2>2. \A point \in {"pair", "ended"} : [owners[run] EXCEPT !.at = point].at = point
      BY <2>1, OwnerGoesOn
    <2>3. \E point \in {"pair", "ended"} : owners' = [owners EXCEPT ![run] = [owners[run] EXCEPT !.at = point]]
      BY <1>15 DEF PrepareWorker, OwnerGoes
    <2>4. \A r \in Runs : owners'[r] = owners[r] \/ (r = run /\ owners'[r].at \in {"pair", "ended"})
      BY <1>o, <2>2, <2>3
    <2>5. UNCHANGED <<tombs, launched, served>>
          /\ (owners[run].at \in {"claimed", "parent"} \/ {"pair", "ended"} = {"ended"})
      BY <1>15 DEF PrepareWorker, provisionGhosts
    <2>8. \A r \in Runs : launched[r] # <<>> =>
              \E p \in ProfileType : launched[r] = <<p>> /\ Issued(safe', p) /\ p.plan.run = r
      BY <1>i, <1>l DEF LaunchedFrom
    <2>9. \A s \in served : /\ safe'.issued[s.run] # Unissued
                           /\ s.who = safe'.issued[s.run].intent.caller
      BY <1>l, <1>s DEF LaunchedFrom
    <2>10. QED
      BY <1>l, <2>1, <2>4, <2>5, <2>8, <2>9 DEF LaunchedFrom
  <1>16. ASSUME NEW run \in Runs, LaunchParent(run)
        PROVE  LaunchedFrom'
    <2>1. owners[run].at = "pair" /\ owners[run] \in OwnerType
      BY <1>16, <1>o DEF LaunchParent
    <2>2. \A point \in {"running", "ended"} : [owners[run] EXCEPT !.at = point].at = point
      BY <2>1, OwnerGoesOn
    <2>3. \E point \in {"running", "ended"} : owners' = [owners EXCEPT ![run] = [owners[run] EXCEPT !.at = point]]
      BY <1>16 DEF LaunchParent, OwnerGoes
    <2>4. \A r \in Runs : owners'[r] = owners[r] \/ (r = run /\ owners'[r].at \in {"running", "ended"})
      BY <1>o, <2>2, <2>3
    <2>5. UNCHANGED <<tombs, served>> /\ run \in tombs /\ launched[run] = <<>>
      BY <1>16, <1>l, <2>1 DEF LaunchParent, LaunchedFrom
    <2>6. launched' = launched \/ launched' = [launched EXCEPT ![run] = <<owners[run].profile>>]
      BY <1>16, <2>5 DEF LaunchParent
    <2>7. \A r \in Runs : launched'[r] = launched[r] \/ (r = run /\ launched'[r] = <<owners[run].profile>>)
      BY <1>l, <2>6
    <2>8. \A r \in Runs : launched[r] # <<>> =>
              \E p \in ProfileType : launched[r] = <<p>> /\ Issued(safe', p) /\ p.plan.run = r
      BY <1>i, <1>l DEF LaunchedFrom
    <2>9. \A s \in served : /\ safe'.issued[s.run] # Unissued
                           /\ s.who = safe'.issued[s.run].intent.caller
      BY <1>l, <1>s DEF LaunchedFrom
    <2>10. owners[run].profile \in ProfileType /\ Issued(safe', owners[run].profile) /\ owners[run].profile.plan.run = run
      BY <1>p, <1>i, <2>1
    <2>a. \A r \in Runs : (owners[r].at # "none" => r \in tombs) /\ (launched[r] # <<>> => r \in tombs)
      BY <1>l DEF LaunchedFrom
    <2>b. \A r \in Runs : launched[r] # <<>> => owners[r].at \notin {"claimed", "parent", "pair"}
      BY <1>l DEF LaunchedFrom
    <2>11. \A r \in Runs : (owners'[r].at # "none" => r \in tombs') /\ (launched'[r] # <<>> => r \in tombs')
      BY <2>4, <2>5, <2>7, <2>a
    <2>c. \A r \in Runs : launched'[r] # <<>> => owners'[r].at \notin {"claimed", "parent", "pair"}
      <3>1. owners'[run].at \in {"running", "ended"}
        BY <1>o, <2>2, <2>3
      <3>2. QED
        BY <2>4, <2>5, <2>7, <2>b, <3>1
    <2>12. \A r \in Runs : launched'[r] # <<>> =>
               \E p \in ProfileType : launched'[r] = <<p>> /\ Issued(safe', p) /\ p.plan.run = r
      BY <2>7, <2>8, <2>10
    <2>13. QED
      BY <2>5, <2>9, <2>11, <2>12, <2>c DEF LaunchedFrom
  <1>17. ASSUME NEW run \in Runs, OwnerEnds(run)
        PROVE  LaunchedFrom'
    <2>1. owners[run].at # "none" /\ owners[run] \in OwnerType
      BY <1>17, <1>o DEF OwnerEnds, Sees, OwnerType, Unowned
    <2>2. \A point \in {"ended"} : [owners[run] EXCEPT !.at = point].at = point
      BY <2>1, OwnerGoesOn
    <2>3. \E point \in {"ended"} : owners' = [owners EXCEPT ![run] = [owners[run] EXCEPT !.at = point]]
      BY <1>17 DEF OwnerEnds, OwnerGoes
    <2>4. \A r \in Runs : owners'[r] = owners[r] \/ (r = run /\ owners'[r].at \in {"ended"})
      BY <1>o, <2>2, <2>3
    <2>5. UNCHANGED <<tombs, launched, served>>
          /\ (owners[run].at \in {"claimed", "parent"} \/ {"ended"} = {"ended"})
      BY <1>17 DEF OwnerEnds, provisionGhosts
    <2>8. \A r \in Runs : launched[r] # <<>> =>
              \E p \in ProfileType : launched[r] = <<p>> /\ Issued(safe', p) /\ p.plan.run = r
      BY <1>i, <1>l DEF LaunchedFrom
    <2>9. \A s \in served : /\ safe'.issued[s.run] # Unissued
                           /\ s.who = safe'.issued[s.run].intent.caller
      BY <1>l, <1>s DEF LaunchedFrom
    <2>10. QED
      BY <1>l, <2>1, <2>4, <2>5, <2>8, <2>9 DEF LaunchedFrom
  <1>18. CASE ReplaceClients
    <2>1. UNCHANGED <<tombs, owners, launched, served>>
      BY <1>18 DEF ReplaceClients, provisionGhosts
    <2>8. \A r \in Runs : launched[r] # <<>> =>
              \E p \in ProfileType : launched[r] = <<p>> /\ Issued(safe', p) /\ p.plan.run = r
      BY <1>i, <1>l DEF LaunchedFrom
    <2>9. \A s \in served : /\ safe'.issued[s.run] # Unissued
                           /\ s.who = safe'.issued[s.run].intent.caller
      BY <1>l, <1>s DEF LaunchedFrom
    <2>10. QED
      BY <1>l, <2>1, <2>8, <2>9 DEF LaunchedFrom
  <1>19. CASE WindowEnds
    <2>1. UNCHANGED <<tombs, owners, launched, served>>
      BY <1>19 DEF WindowEnds, provisionGhosts
    <2>8. \A r \in Runs : launched[r] # <<>> =>
              \E p \in ProfileType : launched[r] = <<p>> /\ Issued(safe', p) /\ p.plan.run = r
      BY <1>i, <1>l DEF LaunchedFrom
    <2>9. \A s \in served : /\ safe'.issued[s.run] # Unissued
                           /\ s.who = safe'.issued[s.run].intent.caller
      BY <1>l, <1>s DEF LaunchedFrom
    <2>10. QED
      BY <1>l, <2>1, <2>8, <2>9 DEF LaunchedFrom
  <1>20. CASE RevokePermit
    <2>1. UNCHANGED <<tombs, owners, launched, served>>
      BY <1>20 DEF RevokePermit, provisionGhosts
    <2>8. \A r \in Runs : launched[r] # <<>> =>
              \E p \in ProfileType : launched[r] = <<p>> /\ Issued(safe', p) /\ p.plan.run = r
      BY <1>i, <1>l DEF LaunchedFrom
    <2>9. \A s \in served : /\ safe'.issued[s.run] # Unissued
                           /\ s.who = safe'.issued[s.run].intent.caller
      BY <1>l, <1>s DEF LaunchedFrom
    <2>10. QED
      BY <1>l, <2>1, <2>8, <2>9 DEF LaunchedFrom
  <1>21. CASE DispatcherDies
    <2>1. UNCHANGED <<tombs, launched, served>> /\ \A r \in Runs : owners'[r].at = "none"
      BY <1>21, <1>f DEF DispatcherDies, provisionGhosts
    <2>8. \A r \in Runs : launched[r] # <<>> =>
              \E p \in ProfileType : launched[r] = <<p>> /\ Issued(safe', p) /\ p.plan.run = r
      BY <1>i, <1>l DEF LaunchedFrom
    <2>9. \A s \in served : /\ safe'.issued[s.run] # Unissued
                           /\ s.who = safe'.issued[s.run].intent.caller
      BY <1>l, <1>s DEF LaunchedFrom
    <2>10. QED
      BY <1>l, <2>1, <2>8, <2>9 DEF LaunchedFrom
  <1>22. CASE HostLosesPower
    <2>1. UNCHANGED <<tombs, launched, served>> /\ \A r \in Runs : owners'[r].at = "none"
      BY <1>22, <1>f DEF HostLosesPower, provisionGhosts
    <2>8. \A r \in Runs : launched[r] # <<>> =>
              \E p \in ProfileType : launched[r] = <<p>> /\ Issued(safe', p) /\ p.plan.run = r
      BY <1>i, <1>l DEF LaunchedFrom
    <2>9. \A s \in served : /\ safe'.issued[s.run] # Unissued
                           /\ s.who = safe'.issued[s.run].intent.caller
      BY <1>l, <1>s DEF LaunchedFrom
    <2>10. QED
      BY <1>l, <2>1, <2>8, <2>9 DEF LaunchedFrom
  <1>23. CASE UNCHANGED provisionVars
    <2>1. UNCHANGED <<tombs, owners, launched, served>>
      BY <1>23 DEF provisionVars, provisionGhosts
    <2>8. \A r \in Runs : launched[r] # <<>> =>
              \E p \in ProfileType : launched[r] = <<p>> /\ Issued(safe', p) /\ p.plan.run = r
      BY <1>i, <1>l DEF LaunchedFrom
    <2>9. \A s \in served : /\ safe'.issued[s.run] # Unissued
                           /\ s.who = safe'.issued[s.run].intent.caller
      BY <1>l, <1>s DEF LaunchedFrom
    <2>10. QED
      BY <1>l, <2>1, <2>8, <2>9 DEF LaunchedFrom
  <1>24. QED
    BY ProvisionCases, <1>1, <1>2, <1>3, <1>4, <1>5, <1>6, <1>7, <1>8, <1>9,
       <1>10, <1>11, <1>12, <1>13, <1>14, <1>15, <1>16, <1>17, <1>18, <1>19,
       <1>20, <1>21, <1>22, <1>23

(* The invariant holds at the start. *)
LEMMA ProvisionStarts ==
    ASSUME ProvisionInit
    PROVE  ProvisionInv
  <1> DEFINE x == [r \in Runs |-> Unissued]
  <1>1. files \in DiskType /\ files.issued = x /\ files.profiles = {} /\ safe = files
    <2>1. x \in [Runs -> {Unissued} \cup [intent : Plans, permit : PermitType]]
      OBVIOUS
    <2>2. files = [issued |-> x, permits |-> {}, profiles |-> {}] /\ safe = files
      BY DEF ProvisionInit
    <2> HIDE DEF x
    <2>3. QED
      BY <2>1, <2>2 DEF DiskType
  <1>2. ProvisionTypeOK
    BY <1>1, ProvisionAssumption DEF ProvisionInit, ProvisionTypeOK, RouteType, OwnerType
  <1>3. Free.at = "free" /\ Unowned.at = "none"
    BY DEF Free, Unowned
  <1>4. Pinned
    BY <1>1, <1>3 DEF ProvisionInit, Pinned
  <1>5. Profiles
    BY <1>1, <1>3 DEF ProvisionInit, Profiles
  <1>6. LaunchedFrom
    BY <1>3 DEF ProvisionInit, LaunchedFrom
  <1>7. QED
    BY <1>2, <1>4, <1>5, <1>6 DEF ProvisionInv

(* The invariant is inductive over every step of the routes. *)
LEMMA ProvisionInvariant == ProvisionSpec => []ProvisionInv
  <1>1. ProvisionInit => ProvisionInv
    BY ProvisionStarts
  <1>2. ProvisionInv /\ [ProvisionNext]_provisionVars => ProvisionInv'
    BY ProvisionTypeStep, PinnedStep, ProfilesStep, LaunchedFromStep DEF ProvisionInv
  <1>3. QED
    BY <1>1, <1>2, PTL DEF ProvisionSpec

(* The files, handlers and owners of the parent routes have their types     *)
(* (dispatch_parents.rs, dispatch_parent_create.rs).                        *)
THEOREM ProvisionTyped == ProvisionSpec => []ProvisionTypeOK
  <1>1. ProvisionInv => ProvisionTypeOK
    BY DEF ProvisionInv
  <1>2. QED
    BY <1>1, ProvisionInvariant, PTL

(* One profile is ever returned for a run; a run is launched at most once,  *)
(* from the plan its durable issuance holds, and only that plan's principal *)
(* has its turns (issue_for_run, publish, create, Admission::claim,         *)
(* handle).                                                                 *)
THEOREM ProvisionCreated == ProvisionSpec => []CreatedAsProvisioned
  <1>1. ASSUME ProvisionInv
        PROVE  CreatedAsProvisioned
    <2>1. \A a, b \in answered : a.plan.run = b.plan.run => a = b
      <3>1. \A a \in answered : a \in ProfileType /\ Issued(safe, a)
        BY <1>1 DEF ProvisionInv, ProvisionTypeOK, Profiles
      <3>2. \A a, b \in ProfileType : a.plan = b.plan /\ a.permit = b.permit => a = b
        BY DEF ProfileType
      <3>3. QED
        BY <3>1, <3>2 DEF Issued
    <2>2. ASSUME NEW run \in Runs
          PROVE  /\ Len(launched[run]) <= 1
                 /\ \A i \in DOMAIN launched[run] : launched[run][i].plan = safe.issued[run].intent
      <3>1. CASE launched[run] = <<>>
        BY <3>1
      <3>2. CASE launched[run] # <<>>
        <4>1. PICK p \in ProfileType : launched[run] = <<p>> /\ Issued(safe, p) /\ p.plan.run = run
          BY <1>1, <3>2 DEF ProvisionInv, LaunchedFrom
        <4>2. p.plan = safe.issued[run].intent
          BY <4>1 DEF Issued
        <4>3. QED
          BY <4>1, <4>2
      <3>3. QED
        BY <3>1, <3>2
    <2>3. \A s \in served : s.who = safe.issued[s.run].intent.caller
      BY <1>1 DEF ProvisionInv, LaunchedFrom
    <2>4. QED
      BY <2>1, <2>2, <2>3 DEF CreatedAsProvisioned
  <1>2. QED
    BY <1>1, ProvisionInvariant, PTL
===============================================================================
