-------------------------------- MODULE Router --------------------------------
(***************************************************************************)
(* The router (celln-cli router.rs, router_ownership.rs, router_parents.rs *)
(* and router_scoped.rs): replicas that share five ownership ledgers, each *)
(* a directory of owner records, and forward every request to the one      *)
(* dispatcher its id is bound to.                                          *)
(*                                                                         *)
(* A handler is a thread of a replica.  A claim holds the ledger's file    *)
(* lock from its lookup to the directory sync, the choice of a backend     *)
(* (health probes over the network, or a nested claim) included; a lookup  *)
(* takes no lock.  What interleaves are handlers, crashes at every step of *)
(* them, failed syncs, lost requests and answers, discovery, the passing   *)
(* of permits and of the quarantine, and power losses.                     *)
(***************************************************************************)
EXTENDS Integers, FiniteSets, FiniteSetsExt

CONSTANTS Routers,    \* replicas
          Calls,      \* handler threads
          Backends,   \* dispatchers
          Static,     \* those given by --backends
          Requests,   \* what clients send
          Traffics,   \* the sets of requests a behaviour may consist of
          Keys,       \* <<ledger, id>>: what the records are about
          Capacity(_),  \* records a ledger holds, for the requests served
          None

ASSUME RouterAssumption ==
    /\ Static \subseteq Backends /\ None \notin Backends \cup Calls
    /\ \A t \in Traffics : t \subseteq Requests /\ Capacity(t) \in Nat

VARIABLES traffic,    \* the requests of this behaviour
          home,       \* call -> the replica whose thread it is
          call,       \* call -> how far the handler is
          lock,       \* ledger -> the call that holds its flock
          entry,      \* key -> the record and the retirement marker seen
          maybe,      \* key -> the entries a power loss may leave
          aged,       \* keys whose record is older than the quarantine
          expired,    \* scoped operations whose permits have run out
          probing,    \* <<replica, report>> whose probe flag is set
          reached,    \* history: key -> nodes that got an effectful POST
          posts,      \* history: key -> such unscoped POSTs, capped at 2
          exposed,    \* history: keys used while not durable
          confirmed,  \* history: keys whose cleanup a node confirmed
          early       \* history: parents created before any provision

ledgers == <<lock, entry, maybe, aged>>
history == <<reached, posts, exposed, confirmed, early>>
vars == <<traffic, home, call, ledgers, expired, probing, history>>

Reports == {"capabilities", "cells"}
Ledgers == {"executions", "parents", "provisions", "scoped_parents", "scoped_ops"}
Lifecycles == {"one-shot", "enduring-initial", "enduring-turn", "none"}

(* The ledger a route looks its id up in. *)
Ledger(q) ==
    CASE q.route \in {"submit", "poll", "cancel"} -> "executions"
      [] q.route = "provision" -> "provisions"
      [] q.route \in {"create", "parent"} -> "parents"
      [] OTHER -> "scoped_ops"

Scoped(q) == q.route \in {"prepare", "start", "read", "cleanup"}
Key(q) == <<Ledger(q), q.id>>
ParentKey(q) == <<"scoped_parents", q.parent>>

(* Every record a request is about has a key.  The id of a preparation is a *)
(* digest of its run, its parent and its turn, so it determines the parent, *)
(* and a preparation without one is a one-shot.                             *)
ASSUME RequestAssumption ==
    /\ \A k \in Keys : k[1] \in Ledgers
    /\ \A q \in Requests :
          /\ q.route \notin {"prewarm"} \cup Reports => Key(q) \in Keys
          /\ q.lifecycle \in {"enduring-initial", "enduring-turn"} => Scoped(q) /\ ParentKey(q) \in Keys
          /\ q.route = "create" => <<"provisions", q.id>> \in Keys
          /\ q.route = "prepare" => q.lifecycle \in Lifecycles \ {"none"}
    /\ \A t \in Traffics : \A q, o \in t :
          q.route = "prepare" /\ o.route = "prepare" /\ q.id = o.id =>
              q.parent = o.parent /\ (q.lifecycle = "one-shot" <=> o.lifecycle = "one-shot")

Entry == [owner : Backends \cup {None}, body : {q.body : q \in Requests}
                                               \cup {q.parent : q \in Requests} \cup {None},
          mark : BOOLEAN]
NoRecord == [owner |-> None, body |-> None, mark |-> FALSE]

(* A handler that is not at work. *)
Idle == [pc |-> "idle"]
Steps == {"claim", "choose", "publish", "visible", "sweep", "send", "retire", "unmark"}

(* A handler at work. *)
CallType ==
    {Idle} \cup [pc : Steps \cup {"probe"}, q : Requests, b : Backends \cup {None},
                 inner : BOOLEAN, again : BOOLEAN]

(* The handlers' states, ledgers and history have their types. *)
TypeOK ==
    /\ traffic \in Traffics
    /\ home \in [Calls -> Routers]
    /\ call \in [Calls -> CallType]
    /\ lock \in [Ledgers -> Calls \cup {None}]
    /\ entry \in [Keys -> Entry]
    /\ maybe \in [Keys -> SUBSET Entry]
    /\ aged \in SUBSET Keys
    /\ probing \in SUBSET (Routers \X Reports)
    /\ reached \in [Keys -> SUBSET Backends]
    /\ posts \in [Keys -> 0 .. 2]

Init ==
    /\ traffic \in Traffics
    /\ home \in [Calls -> Routers]
    /\ call = [c \in Calls |-> Idle]
    /\ lock = [l \in Ledgers |-> None]
    /\ entry = [k \in Keys |-> NoRecord]
    /\ maybe = [k \in Keys |-> {NoRecord}]
    /\ aged = {} /\ expired = {} /\ probing = {}
    /\ reached = [k \in Keys |-> {}]
    /\ posts = [k \in Keys |-> 0]
    /\ exposed = {} /\ confirmed = {} /\ early = {}

-----------------------------------------------------------------------------
(* Backends and the ledger directory.                                       *)

(* RouterState::backends: the static list and what discovery last resolved, *)
(* which may be any of the others each time it is asked for.                *)
Views == {Static \cup S : S \in SUBSET Backends}

Has(k) == entry[k].owner # None
In(l) == {k \in Keys : k[1] = l}
Full(l) == Cardinality({k \in In(l) : Has(k)}) >= Capacity(traffic)
Durable(k) == maybe[k] = {entry[k]}

(* Entries change without a sync: a power loss may leave either. *)
Unsynced == maybe' = [k \in Keys |-> maybe[k] \cup {entry'[k]}]
(* The directory of ledger l is synced, and all that is in it settles. *)
Synced(l) == maybe' = [k \in Keys |-> IF k[1] = l THEN {entry'[k]}
                                      ELSE maybe[k] \cup {entry'[k]}]

(* What a handler has in hand: the key it works on is its own or, inside    *)
(* the choice of a root's node and when a root retires, its parent's.       *)
Work(q, pc, b, inner, again) ==
    [pc |-> pc, q |-> q, b |-> b, inner |-> inner, again |-> again]
At(c, pc) == call[c].pc = pc
Working(c) == IF call[c].inner THEN ParentKey(call[c].q) ELSE Key(call[c].q)
Body(c) == IF call[c].inner THEN call[c].q.parent ELSE call[c].q.body

Becomes(c, pc) == call' = [call EXCEPT ![c].pc = pc]
(* The handler answers; the file locks it holds are closed with it. *)
Freed(S) == [l \in Ledgers |-> IF lock[l] \in S THEN None ELSE lock[l]]
Answers(c) == call' = [call EXCEPT ![c] = Idle] /\ lock' = Freed({c})

-----------------------------------------------------------------------------
(* Admission of a request.                                                  *)

(* The request line and the headers are bounded, each given once; the body  *)
(* is of the bounded length and shape its route takes.                      *)
WellFormed(q) == q.wellFormed

(* Five credentials, distinct by configuration.  Parent routes are opened   *)
(* by the client's and forwarded under the parents' own.                    *)
ScopedBearer(q) == Scoped(q) /\ q.bearer = "scoped"
ClientBearer(q) == ~Scoped(q) /\ q.bearer = "client"
DiscoveryBearer(q) == q.route \in Reports /\ q.bearer = "discovery"
Authorized(q) == ScopedBearer(q) \/ ClientBearer(q) \/ DiscoveryBearer(q)

(* A pin names a backend in view and applies to submissions and prewarms. *)
PinAllowed(q) ==
    /\ q.pin # None => q.route \in {"submit", "prewarm"} /\ \E V \in Views : q.pin \in V
    /\ q.route = "prewarm" => q.pin # None

Admitted(c, q) == At(c, "idle") /\ q \in traffic /\ WellFormed(q)
                  /\ Authorized(q) /\ PinAllowed(q)

(* The routes that first bind their id: a submission, a parent's provision  *)
(* and creation, and the preparation of a scoped operation.                 *)
Bind(c, q) ==
    /\ Admitted(c, q)
    /\ call' = [call EXCEPT ![c] = Work(q, "claim", None, FALSE, FALSE)]
    /\ UNCHANGED <<traffic, home, ledgers, expired, probing, history>>
Submit(c, q) == q.route = "submit" /\ Bind(c, q)
Provision(c, q) == q.route = "provision" /\ Bind(c, q)
Create(c, q) == q.route = "create" /\ Bind(c, q)
Prepare(c, q) == q.route = "prepare" /\ Bind(c, q)

(* A route that only looks its owner up: without a record it answers 404    *)
(* and changes nothing.                                                     *)
Find(c, q) ==
    /\ Admitted(c, q) /\ Has(Key(q))
    /\ call' = [call EXCEPT ![c] = Work(q, "send", entry[Key(q)].owner, FALSE, FALSE)]
    /\ exposed' = IF Durable(Key(q)) THEN exposed ELSE exposed \cup {Key(q)}
    /\ UNCHANGED <<traffic, home, ledgers, expired, probing, reached, posts, confirmed, early>>
FindExecution(c, q) == q.route \in {"poll", "cancel"} /\ Find(c, q)
FindParent(c, q) == q.route = "parent" /\ Find(c, q)
FindOperation(c, q) == q.route \in {"start", "read", "cleanup"} /\ Find(c, q)

(* A prewarm goes to its pin and binds nothing. *)
Prewarm(c, q) ==
    /\ Admitted(c, q) /\ q.route = "prewarm"
    /\ call' = [call EXCEPT ![c] = Work(q, "send", q.pin, FALSE, FALSE)]
    /\ UNCHANGED <<traffic, home, ledgers, expired, probing, history>>

-----------------------------------------------------------------------------
(* Ledger::claim.                                                           *)

(* An existing record is posted to again, whatever the route. *)
OwnedReplays(c, b) ==
    IF call[c].inner
    THEN /\ call' = [call EXCEPT ![c] = Work(call[c].q, "publish", b, FALSE, FALSE)]
         /\ lock' = [lock EXCEPT !["scoped_parents"] = None]
    ELSE call' = [call EXCEPT ![c] = Work(call[c].q, "send", b, FALSE, FALSE)]
         /\ lock' = Freed({c})

(* The owner is known: of the parent, and the root is bound to it too; or   *)
(* of the id, which was bound before: a submission only polls it (unless    *)
(* pinned elsewhere), a creation is refused, a provision or a preparation   *)
(* is forwarded again.                                                      *)
Owned(c, b) ==
    LET q == call[c].q IN
    IF call[c].inner
    THEN /\ call' = [call EXCEPT ![c] = Work(q, "publish", b, FALSE, FALSE)]
         /\ lock' = [lock EXCEPT !["scoped_parents"] = None]
    ELSE IF q.route \in {"provision", "prepare"}
    THEN call' = [call EXCEPT ![c] = Work(q, "send", b, FALSE, FALSE)]
         /\ lock' = Freed({c})
    ELSE Answers(c)

(* The lock is taken without waiting; the id is looked up under it.  A      *)
(* scoped claim on a full ledger sweeps once and claims again.              *)
Claim(c) ==
    LET k == Working(c)
        e == entry[k] IN
    /\ At(c, "claim")
    /\ IF lock[k[1]] # None THEN Answers(c) /\ UNCHANGED exposed
       ELSE IF Has(k)
       THEN IF e.body = Body(c)
            THEN /\ Owned(c, e.owner)
                 /\ exposed' = IF Durable(k) THEN exposed ELSE exposed \cup {k}
            ELSE Answers(c) /\ UNCHANGED exposed
       ELSE IF Full(k[1])
       THEN /\ UNCHANGED exposed
            /\ IF Scoped(call[c].q) /\ ~call[c].again
               THEN Becomes(c, "sweep") /\ UNCHANGED lock
               ELSE Answers(c)
       ELSE Becomes(c, "choose") /\ lock' = [lock EXCEPT ![k[1]] = c] /\ UNCHANGED exposed
    /\ UNCHANGED <<traffic, home, entry, maybe, aged, expired, probing,
                   reached, posts, confirmed, early>>

(* sweep_retired removes marked records past the quarantine, and markers    *)
(* without a record.                                                        *)
Sweepable(k) == entry[k].mark /\ (Has(k) => k \in aged)

(* sweep_retired takes the lock on its own.  It may fail or be cut short    *)
(* after any of the files, a record's before its marker's.                  *)
Sweep(c) ==
    LET k == Working(c) IN
    /\ At(c, "sweep")
    /\ \/ lock[k[1]] # None /\ Answers(c) /\ UNCHANGED <<entry, maybe>>
       \/ /\ lock[k[1]] = None
          /\ entry' = [x \in Keys |-> IF x \in In(k[1]) /\ Sweepable(x)
                                      THEN NoRecord ELSE entry[x]]
          /\ Synced(k[1])
          /\ call' = [call EXCEPT ![c].pc = "claim", ![c].again = TRUE]
          /\ UNCHANGED lock
       \/ /\ lock[k[1]] = None
          /\ \E S \in SUBSET {x \in In(k[1]) : Sweepable(x)}, x \in In(k[1]) :
                /\ Sweepable(x)
                /\ entry' = [y \in Keys |-> IF y \in S THEN NoRecord
                                            ELSE IF y = x THEN [NoRecord EXCEPT !.mark = TRUE]
                                            ELSE entry[y]]
          /\ Unsynced
          /\ Answers(c)
    /\ UNCHANGED <<traffic, home, aged, expired, probing, history>>

(* A healthy backend in view, or None: by hash of the id or at random ...   *)
PickBackend(q) == IF q.pin # None THEN {q.pin} ELSE (UNION Views) \cup {None}
(* ... or the one that reports most spare room, which may be any of them. *)
PickOwner == (UNION Views) \cup {None}
Pick(q) == IF q.route = "submit" THEN PickBackend(q) ELSE PickOwner

(* A creation that picks for itself. *)
ChoiceRepicks(c, pick) ==
    IF call[c].q.lifecycle = "enduring-turn"
    THEN entry[ParentKey(call[c].q)].owner ELSE pick

(* The choice made under the lock: a creation follows its provision, a turn *)
(* its parent, a root the claim of its parent; the others pick.  `pick` is  *)
(* what a pick returns, None when no backend is healthy.                    *)
Choice(c, pick) ==
    LET q == call[c].q
        provision == <<"provisions", q.id>> IN
    CASE q.route = "create" /\ Has(provision) -> entry[provision].owner
      [] q.route = "prepare" /\ q.lifecycle = "enduring-turn" -> entry[ParentKey(q)].owner
      [] OTHER -> pick

(* The record a choice was read from, which the ledger's claim does not     *)
(* make durable either.                                                     *)
ReadFrom(q) ==
    IF q.route = "create" /\ Has(<<"provisions", q.id>>) THEN {<<"provisions", q.id>>}
    ELSE IF q.lifecycle = "enduring-turn" THEN {ParentKey(q)} ELSE {}

Choose(c) ==
    LET q == call[c].q IN
    /\ At(c, "choose")
    /\ IF q.lifecycle = "enduring-initial" /\ ~call[c].inner
       THEN /\ call' = [call EXCEPT ![c] = Work(q, "claim", None, TRUE, FALSE)]
            /\ UNCHANGED <<lock, early, exposed>>
       ELSE \E pick \in Pick(q) :
            LET b == Choice(c, pick) IN
            IF b = None THEN Answers(c) /\ UNCHANGED <<early, exposed>>
            ELSE /\ call' = [call EXCEPT ![c].pc = "publish", ![c].b = b]
                 /\ early' = IF q.route = "create" /\ ~Has(<<"provisions", q.id>>)
                             THEN early \cup {q.id} ELSE early
                 /\ exposed' = exposed \cup {k \in ReadFrom(q) : ~Durable(k)}
                 /\ UNCHANGED lock
    /\ UNCHANGED <<traffic, home, entry, maybe, aged, expired, probing,
                   reached, posts, confirmed>>

(* The synced temporary file is linked under the id's name, if it is free. *)
Publish(c) ==
    LET k == Working(c) IN
    /\ At(c, "publish")
    /\ IF Has(k) THEN Answers(c) /\ UNCHANGED <<entry, maybe, aged>>
       ELSE /\ entry' = [entry EXCEPT ![k] = [owner |-> call[c].b, body |-> Body(c),
                                              mark |-> entry[k].mark]]
            /\ Unsynced
            /\ aged' = aged \ {k}
            /\ Becomes(c, "visible") /\ UNCHANGED lock
    /\ UNCHANGED <<traffic, home, expired, probing, history>>

(* The directory sync: only now is the claim New and the POST allowed. *)
Sync(c) ==
    LET k == Working(c)
        q == call[c].q IN
    /\ At(c, "visible") /\ UNCHANGED entry
    /\ Synced(k[1])
    /\ IF call[c].inner
       THEN /\ call' = [call EXCEPT ![c] = Work(q, "publish", call[c].b, FALSE, FALSE)]
            /\ lock' = [lock EXCEPT ![k[1]] = None]
       ELSE Becomes(c, "send") /\ lock' = Freed({c})
    /\ UNCHANGED <<traffic, home, aged, expired, probing, history>>

(* It fails: the claim is an error, though the record is there. *)
SyncFails(c) ==
    /\ At(c, "visible")
    /\ Answers(c)
    /\ UNCHANGED <<traffic, home, entry, maybe, aged, expired, probing, history>>

-----------------------------------------------------------------------------
(* Forwarding.                                                              *)

(* POSTs that make the node act.  A scoped one is admitted only while its   *)
(* permits are live, and a start only where the operation was prepared.     *)
Effectful(q) ==
    \/ q.route \in {"submit", "provision", "create"}
    \/ q.route = "prepare" /\ q.id \notin expired

(* The request reaches the owner. *)
Delivered(c) ==
    LET q == call[c].q
        k == Key(q) IN
    IF Effectful(q)
    THEN /\ reached' = [reached EXCEPT ![k] = @ \cup {call[c].b}]
         /\ posts' = IF Scoped(q) THEN posts ELSE [posts EXCEPT ![k] = Min({@ + 1, 2})]
    ELSE UNCHANGED <<reached, posts>>

(* The handler forwards to the owner it found, and to no other.  The owner  *)
(* has left the view, refuses the connection, or the request or its answer  *)
(* is lost; or it is delivered and answered.                                *)
Forward(c, inView) ==
    /\ At(c, "send") /\ Answers(c)
    /\ \/ UNCHANGED <<reached, posts>>
       \/ (inView => \E V \in Views : call[c].b \in V) /\ Delivered(c)
    /\ UNCHANGED <<traffic, home, entry, maybe, aged, expired, probing, exposed, confirmed, early>>

(* A new submission and a prewarm are posted without another look at the    *)
(* view; a poll or cancel, a parent's and a scoped request look.            *)
ForwardPost(c) == At(c, "send") /\ call[c].q.route \in {"submit", "prewarm"} /\ Forward(c, FALSE)
ForwardOwned(c) == At(c, "send") /\ call[c].q.route \in {"poll", "cancel"} /\ Forward(c, TRUE)
ForwardParent(c) == /\ At(c, "send") /\ call[c].q.route \in {"provision", "create", "parent"}
                    /\ Forward(c, TRUE)
ForwardScoped(c) == At(c, "send") /\ Scoped(call[c].q) /\ Forward(c, TRUE)

(* A cleanup the node confirms goes on to retire the bindings. *)
Confirmed(c) ==
    LET q == call[c].q IN
    /\ At(c, "send") /\ q.route = "cleanup"
    /\ Becomes(c, "retire")
    /\ confirmed' = confirmed \cup {Key(q)}
          \cup (IF q.lifecycle = "enduring-initial" THEN {ParentKey(q)} ELSE {})
    /\ UNCHANGED <<traffic, home, ledgers, expired, probing, reached, posts, exposed, early>>

-----------------------------------------------------------------------------
(* Retirement.                                                              *)

(* After the operation's binding a root's parent binding follows; whether a *)
(* retirement worked is not looked at.                                      *)
RetiresNext(c) ==
    IF call[c].q.lifecycle = "enduring-initial" /\ ~call[c].inner
    THEN /\ call' = [call EXCEPT ![c] = Work(call[c].q, "retire", None, TRUE, FALSE)]
         /\ lock' = Freed({c})
    ELSE Answers(c)

(* A confirmed binding is removed whatever its age. *)
RetireNow(c) ==
    LET k == Working(c) IN
    /\ At(c, "retire")
    /\ IF lock[k[1]] = None /\ Has(k)
       THEN entry' = [entry EXCEPT ![k] = NoRecord] /\ Synced(k[1])
       ELSE UNCHANGED <<entry, maybe>>
    /\ RetiresNext(c)
    /\ UNCHANGED <<traffic, home, aged, expired, probing, history>>

(* Ledger::retire: an aged record is removed, a younger one is marked. *)
Retire(c) ==
    LET k == Working(c) IN
    /\ At(c, "retire")
    /\ \/ (lock[k[1]] # None \/ ~Has(k)) /\ RetiresNext(c) /\ UNCHANGED <<entry, maybe>>
       \/ /\ lock[k[1]] = None /\ Has(k) /\ k \notin aged
          /\ entry' = [entry EXCEPT ![k].mark = TRUE]
          /\ Synced(k[1]) \/ Unsynced
          /\ RetiresNext(c)
       \/ /\ lock[k[1]] = None /\ Has(k) /\ k \in aged
          /\ entry' = [entry EXCEPT ![k] = [NoRecord EXCEPT !.mark = entry[k].mark]]
          /\ Unsynced
          /\ Becomes(c, "unmark") /\ lock' = [lock EXCEPT ![k[1]] = c]
    /\ UNCHANGED <<traffic, home, aged, expired, probing, history>>

(* remove_locked, after the record: the marker, and the sync if it works. *)
Unmark(c) ==
    LET k == Working(c) IN
    /\ At(c, "unmark")
    /\ \/ entry' = [entry EXCEPT ![k].mark = FALSE] /\ (Synced(k[1]) \/ Unsynced)
       \/ UNCHANGED <<entry, maybe>>
    /\ RetiresNext(c)
    /\ UNCHANGED <<traffic, home, aged, expired, probing, history>>

-----------------------------------------------------------------------------
(* Fleet-wide reports: one fan-out of each kind at a time in a replica.      *)

ProbeBegins(c, q) ==
    LET flag == <<home[c], q.route>> IN
    /\ Admitted(c, q) /\ q.route \in Reports
    /\ flag \notin probing
    /\ probing' = probing \cup {flag}
    /\ call' = [call EXCEPT ![c] = Work(q, "probe", None, FALSE, FALSE)]
    /\ UNCHANGED <<traffic, home, ledgers, expired, history>>

(* Every probe was answered, failed or panicked: the guard clears the flag. *)
ProbeEnds(c) ==
    /\ At(c, "probe")
    /\ probing' = probing \ {<<home[c], call[c].q.route>>}
    /\ call' = [call EXCEPT ![c] = Idle]
    /\ UNCHANGED <<traffic, home, ledgers, expired, history>>

-----------------------------------------------------------------------------
(* The environment.                                                         *)

(* The permits of a scoped operation run out. *)
Expire(q) ==
    /\ q \in traffic /\ q.route = "prepare"
    /\ expired' = expired \cup {q.id}
    /\ UNCHANGED <<traffic, home, call, ledgers, probing, history>>

(* A record completes the quarantine.  A permit is issued before the        *)
(* binding it is presented for is claimed and lives ten times shorter than  *)
(* the quarantine, so it has run out by then.  Only the age of a binding    *)
(* that may retire is ever looked at.                                       *)
Age(k) ==
    /\ Has(k) /\ \E q \in traffic : q.route = "cleanup" /\ k \in {Key(q), ParentKey(q)}
    /\ \A q \in traffic :
          /\ q.route = "prepare"
          /\ Key(q) = k \/ (q.lifecycle = "enduring-initial" /\ ParentKey(q) = k)
          => q.id \in expired
    /\ aged' = aged \cup {k}
    /\ UNCHANGED <<traffic, home, call, lock, entry, maybe, expired, probing, history>>

(* A replica is killed: its threads end and the kernel drops their locks. *)
Crash(r) ==
    LET dead == {c \in Calls : home[c] = r} IN
    /\ call' = [c \in Calls |-> IF c \in dead THEN Idle ELSE call[c]]
    /\ lock' = Freed(dead)
    /\ probing' = {f \in probing : f[1] # r}
    /\ UNCHANGED <<traffic, home, entry, maybe, aged, expired, history>>

(* The host of the ledgers loses power: what was not synced may be gone. *)
PowerLoss ==
    /\ LET lost == {k \in Keys : ~Durable(k)} IN
       /\ lost # {}
       /\ \E e \in [lost -> UNION {maybe[k] : k \in lost}] :
             /\ \A k \in lost : e[k] \in maybe[k]
             /\ entry' = [k \in Keys |-> IF k \in lost THEN e[k] ELSE entry[k]]
    /\ maybe' = [k \in Keys |-> {entry'[k]}]
    /\ call' = [c \in Calls |-> Idle]
    /\ lock' = [l \in Ledgers |-> None]
    /\ probing' = {}
    /\ UNCHANGED <<traffic, home, aged, expired, history>>

Next ==
    \/ \E c \in Calls, q \in traffic :
          \/ Submit(c, q) \/ Provision(c, q) \/ Create(c, q) \/ Prepare(c, q)
          \/ FindExecution(c, q) \/ FindParent(c, q) \/ FindOperation(c, q)
          \/ Prewarm(c, q) \/ ProbeBegins(c, q)
    \/ \E c \in Calls :
          \/ Claim(c) \/ Sweep(c) \/ Choose(c) \/ Publish(c) \/ Sync(c) \/ SyncFails(c)
          \/ ForwardPost(c) \/ ForwardOwned(c) \/ ForwardParent(c) \/ ForwardScoped(c)
          \/ Confirmed(c) \/ Retire(c) \/ Unmark(c) \/ ProbeEnds(c)
    \/ \E r \in Routers : Crash(r)
    \/ \E q \in traffic : Expire(q)
    \/ \E k \in Keys : Age(k)
    \/ PowerLoss

Spec == Init /\ [][Next]_vars

-----------------------------------------------------------------------------
(* What places an operation: its own binding and, for a scoped one of a     *)
(* parent, the binding of that parent.                                      *)
Placing(q) == {Key(q)} \cup (IF q.lifecycle \in {"enduring-initial", "enduring-turn"}
                             THEN {ParentKey(q)} ELSE {})

(* A creation follows the provision of its parent, unless it was bound      *)
(* first; a turn its root, unless the cleanup of the root was confirmed.    *)
Follows(q, o) ==
    \/ q.route = "create" /\ o.route = "provision" /\ q.id = o.id /\ q.id \notin early
    \/ /\ q.route = "prepare" /\ q.lifecycle = "enduring-turn"
       /\ o.route = "prepare" /\ o.lifecycle = "enduring-initial"
       /\ q.parent = o.parent /\ ParentKey(o) \notin confirmed

(* An id whose binding was durable whenever it was used makes at most one   *)
(* node act, and what follows it the same one, across replicas, crashes,    *)
(* power losses, changes of the fleet and the retirement of bindings        *)
(* (Ledger::claim, router_parents::forward, router_scoped::place).          *)
OneNode ==
    \A q, o \in traffic :
        /\ q.route \in {"submit", "provision", "create", "prepare"}
        /\ q = o \/ Follows(q, o)
        /\ (Placing(q) \cup Placing(o)) \cap exposed = {}
        => Cardinality(reached[Key(q)] \cup reached[Key(o)]) <= 1

(* router_scoped.rs:2: "every operation id is bound to exactly one node     *)
(* BEFORE its first forward and is never re-placed".                        *)
NeverReplaced == \A k \in Keys : Cardinality(reached[k]) <= 1

(* A submission and a creation are posted at most once, whatever is lost    *)
(* and however often they are retried ("POST will not be replayed").        *)
PostedOnce == \A k \in Keys : k[1] \in {"executions", "parents"} => posts[k] <= 1
=============================================================================
