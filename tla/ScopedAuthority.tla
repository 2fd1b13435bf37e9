---------------------------- MODULE ScopedAuthority ----------------------------
(***************************************************************************)
(* The authority of a scoped one-shot operation (dispatch_scoped.rs,       *)
(* tenancy_credentials.rs, tenancy_model_context.rs): signed decisions are *)
(* enrolled by prepare, permits for exactly those decisions are presented  *)
(* to start, and each is verified several times against a clock and a key  *)
(* set that move on meanwhile.                                             *)
(*                                                                         *)
(* Every request first reads the operator's key file and installs it in    *)
(* the shared verifier; prepare, start and cleanup then take the           *)
(* operation_lock.  The steps of start at which other requests, the clock  *)
(* or the operator can come in between are separate actions.  A permit and *)
(* a decision are records: their digest is equality, their signature a key.*)
(***************************************************************************)
EXTENDS Integers, FiniteSets, Sequences

CONSTANTS Requests,    \* request threads of the receiver
          Keys,        \* signing keys
          KeyFiles,    \* contents the operator gives the key file
          Decisions,   \* launch decisions that were signed for some operation
          Permits,     \* permits in circulation
          Skew,        \* tolerated clock difference (5 s)
          AccessLife,  \* longest read or cleanup permit (300 s)
          Timeout,     \* the runtime's own timeout, in half seconds
          MaxSeconds,     \* bound: seconds
          MaxOwners    \* bound: receiver processes

(* What a decision says of its web tools and of its artifact tools. *)
WebLimits == [hosts : SUBSET STRING, requests : Nat]
WebTools == [method : STRING, signed : WebLimits, declared : WebLimits]
ArtifactTools == [operation : STRING, signed : Nat, declared : Nat]

ASSUME AuthorityAssumption ==
    /\ {Skew, AccessLife, Timeout, MaxSeconds, MaxOwners} \subseteq Nat
    /\ MaxOwners > 0 /\ Requests # {} /\ KeyFiles \subseteq SUBSET Keys /\ Keys # {}
    /\ \A d \in Decisions :
          d.deadline \in Int /\ d.tools \in Seq(WebTools) /\ d.stores \in Seq(ArtifactTools)
    /\ \A p \in Permits : p.exp \in Int

VARIABLES
    clock,      \* the seconds that now() returns
    half,       \* the half seconds since the last full one, which it drops
    file,       \* the operator's key file; {} when it cannot be used
    keys,       \* the keys the verifier holds
    owner,      \* the epoch of the receiver process
    prepared,   \* the enrolled record of each operation
    admitted,   \* its admission record
    locked,     \* the request holding operation_lock, {} if none
    request,    \* what each request is doing
    work,       \* the launched work of each operation
    begun,   \* history: every launch
    enrolled,   \* history: the decisions prepare acknowledged
    sent        \* history: the last model request of each operation

authVars == <<clock, half, file, keys, owner, prepared, admitted, locked, request, work,
              begun, enrolled, sent>>

(* The monotonic clock runs in half seconds, the wall clock that signed     *)
(* times are compared with in whole ones.                                   *)
Second == 2
Moment == Second * clock + half

Ids == {d.id : d \in Decisions}
Never == -1
NoPermit == [key |-> "none"]
NoRecord == [at |-> "absent"]
RecordOf(d) == [at |-> "whole", decision |-> d, owner |-> owner]
NoWork == [at |-> "none"]
Waiting == [at |-> "idle"]

AuthInit ==
    /\ clock = 0 /\ half = 0 /\ file = Keys /\ keys = Keys /\ owner = 1
    /\ prepared = [i \in Ids |-> NoRecord] /\ admitted = [i \in Ids |-> "absent"]
    /\ locked = {} /\ request = [r \in Requests |-> Waiting]
    /\ work = [i \in Ids |-> NoWork]
    /\ begun = {} /\ enrolled = [i \in Ids |-> {}]
    /\ sent = [i \in Ids |-> [time |-> Never, owner |-> 0]]

(* The records a request goes through: what it has read, what it is, the    *)
(* operation it starts with the permits presented for it, and the bounds    *)
(* of the work it is about to launch.                                       *)
RequestType ==
    {Waiting}
    \cup [at : {"keys"}, file : (SUBSET Keys) \ {{}}, since : SUBSET Keys]
    \cup [at : {"prepare", "start", "cleanup", "read"}, since : SUBSET Keys]
    \cup [at : {"verified", "claimed"}, id : Ids, e : Permits, m : Permits \cup {NoPermit},
          now : 0..MaxSeconds, since : SUBSET Keys]
    \cup [at : {"timed"}, id : Ids, e : Permits, m : Permits \cup {NoPermit},
          now : 0..MaxSeconds, since : SUBSET Keys, left : Nat, read : Nat]
    \cup [at : {"bounded"}, id : Ids, e : Permits, m : Permits \cup {NoPermit},
          now : 0..MaxSeconds, since : SUBSET Keys, until : Int, held : Nat]
    \cup [at : {"built"}, id : Ids, e : Permits, m : Permits \cup {NoPermit},
          since : SUBSET Keys, until : Int, held : Nat, custody : Int]
PreparedType ==
    {NoRecord, [at |-> "torn"]} \cup [at : {"whole"}, decision : Decisions, owner : 1..MaxOwners]
WorkType ==
    {NoWork} \cup [at : {"running"}, bearer : Permits \cup {NoPermit}, until : Int,
                   custody : Int, cancelled : BOOLEAN]

AuthTypeOK ==
    /\ clock \in 0..MaxSeconds /\ half \in 0..(Second - 1)
    /\ file \in SUBSET Keys
    /\ keys \in (SUBSET Keys) \ {{}}
    /\ owner \in 1..MaxOwners
    /\ prepared \in [Ids -> PreparedType]
    /\ admitted \in [Ids -> {"absent", "open", "refused", "receipt", "fenced"}]
    /\ locked \in {{}} \cup {{r} : r \in Requests}
    /\ request \in [Requests -> RequestType]
    /\ work \in [Ids -> WorkType]
    /\ \A l \in begun : l.id \in Ids /\ l.decision \in Decisions /\ l.owner \in 1..MaxOwners
                        /\ l.held \in Nat
    /\ enrolled \in [Ids -> SUBSET Decisions]
    /\ sent \in [Ids -> [time : Int, owner : 0..MaxOwners]]

-----------------------------------------------------------------------------
(* The authority of the tools a decision signs.  Web tools (https::derive): *)
(* every signed limit is within the material's, and for each method the     *)
(* cell gets the intersection of all of them.  Artifact tools               *)
(* (artifacts::derive): each names one operation and a cap; the cell gets   *)
(* the operations named, under the smallest cap.  Neither goes with a       *)
(* model-free route.                                                        *)

AnyHost == {"*"}
ValidHosts(hosts) == hosts # {} /\ (hosts = AnyHost \/ "*" \notin hosts)
Within(signed, declared) == declared = AnyHost \/ (signed # AnyHost /\ signed \subseteq declared)

Methods == {"get", "post"}
Attenuated(tool) ==
    /\ tool.method \in Methods
    /\ ValidHosts(tool.signed.hosts) /\ ValidHosts(tool.declared.hosts)
    /\ Within(tool.signed.hosts, tool.declared.hosts)
    /\ tool.signed.requests \in 1..tool.declared.requests
Less(a, b) == IF a < b THEN a ELSE b

(* Mutant: allowances are added up. *)
SumOf(a, b) ==
    [hosts |-> a.hosts \cup b.hosts, requests |-> a.requests + b.requests]

Intersect(a, b) ==
    [hosts |-> IF b.hosts = AnyHost THEN a.hosts ELSE IF a.hosts = AnyHost THEN b.hosts
               ELSE a.hosts \cap b.hosts,
     requests |-> Less(a.requests, b.requests)]

(* A method's slot in the Policy: what its first tool signs, narrowed by    *)
(* each of its others.                                                      *)
NoSlot == [hosts |-> {}, requests |-> 0]
Narrowed(slot, tool, method) ==
    IF tool.method # method THEN slot
    ELSE IF slot = NoSlot THEN tool.signed ELSE Intersect(slot, tool.signed)
SlotOf(d, method) ==
    LET slot[n \in 0..Len(d.tools)] ==
            IF n = 0 THEN NoSlot ELSE Narrowed(slot[n - 1], d.tools[n], method)
    IN  slot[Len(d.tools)]
Granted(d) == [method \in Methods |-> SlotOf(d, method)]

Named(d) == {d.stores[i].operation : i \in DOMAIN d.stores}
Capped(d) ==
    LET cap[n \in 0..Len(d.stores)] ==
            IF n = 0 THEN d.stores[1].signed ELSE Less(cap[n - 1], d.stores[n].signed)
    IN  cap[Len(d.stores)]
Artifacts(d) == IF d.stores = <<>> THEN [operations |-> {}, cap |-> 0]
                ELSE [operations |-> Named(d), cap |-> Capped(d)]
Derivable(d) ==
    /\ \A i \in DOMAIN d.tools : Attenuated(d.tools[i]) /\ d.route # "none"
    /\ \A i \in DOMAIN d.tools : SlotOf(d, d.tools[i].method).hosts # {}
    /\ \A i \in DOMAIN d.stores :
          d.route # "none" /\ d.stores[i].signed \in 1..d.stores[i].declared

(* One model request at the prepared cap fits the signed turn and run. *)
Affordable(d) == d.route # "none" => d.cap <= Less(d.turnTokens, d.runTokens)

(* validate_prepared: a launch decision, for the material it was resolved   *)
(* from, that can be derived and afforded.                                  *)
Preparable(d) == d.op = "start" /\ Derivable(d) /\ Affordable(d)

-----------------------------------------------------------------------------
(* Verifier::verify. *)

ValidDecision(d) ==
    /\ d.admission >= d.issued /\ d.turnTokens <= d.runTokens
    /\ d.op = "start" => d.deadline > d.issued

(* A model permit is derived from a launch decision with a model route. *)
Covers(p, d) == \/ p.op = d.op
                \/ p.op = "model" /\ d.op = "start" /\ d.route # "none"

Windows(p, d, t) ==
    CASE p.op = "start" -> t <= d.admission + Skew /\ p.exp <= d.admission + Skew
                           /\ t <= d.deadline + Skew
      [] p.op = "model" -> p.exp <= d.deadline + Skew /\ t <= d.deadline + Skew
      [] OTHER -> p.exp - p.iat <= AccessLife

Verify(p, d, op, t) ==
    /\ p # NoPermit /\ p.key \in keys
    /\ ValidDecision(d) /\ p.decision = d
    /\ p.op = op /\ Covers(p, d)
    /\ p.iat <= t + Skew /\ p.exp > t - Skew /\ p.iat >= d.issued - Skew
    /\ Windows(p, d, t)

-----------------------------------------------------------------------------
(* authenticate: the key file is read, then installed. *)

(* A file that is unreadable or holds no key refuses the request. *)
ReadKeys(r) ==
    /\ request[r].at = "idle" /\ file # {}
    /\ request' = [request EXCEPT ![r] = [at |-> "keys", file |-> file, since |-> file]]
    /\ UNCHANGED <<clock, half, file, keys, owner, prepared, admitted, locked, work, begun, enrolled, sent>>

LoadKeys(r) ==
    /\ request[r].at = "keys"
    /\ keys' = request[r].file
    /\ \E kind \in {"prepare", "start", "cleanup", "read"} :
           request' = [request EXCEPT ![r] = [at |-> kind, since |-> request[r].since]]
    /\ UNCHANGED <<clock, half, file, owner, prepared, admitted, locked, work, begun, enrolled, sent>>

-----------------------------------------------------------------------------
(* prepare. *)

Enrolled(i) == prepared[i].at = "whole"

(* Mutant: the record is overwritten. *)
EnrollOverwrites(i, d) ==
    /\ prepared' = [prepared EXCEPT ![i] = RecordOf(d)]
    /\ enrolled' = [enrolled EXCEPT ![i] = @ \cup {d}]

(* enroll_prepared: created once, never replaced; the same material again   *)
(* is answered with the record's own owner, other material refused.  A      *)
(* write that failed leaves a file nobody can read.                         *)
Enroll(i, d) ==
    \/ /\ prepared[i] = NoRecord
       /\ \/ /\ prepared' = [prepared EXCEPT ![i] = RecordOf(d)]
             /\ \/ enrolled' = [enrolled EXCEPT ![i] = @ \cup {d}]
                \/ enrolled' = enrolled
          \/ prepared' = [prepared EXCEPT ![i] = [at |-> "torn"]]
             /\ enrolled' = enrolled
    \/ /\ prepared[i] # NoRecord /\ prepared' = prepared
       /\ enrolled' = IF Enrolled(i) /\ prepared[i].decision = d
                      THEN [enrolled EXCEPT ![i] = @ \cup {d}] ELSE enrolled

Prepare(r) ==
    /\ request[r].at = "prepare" /\ locked = {}
    /\ \E d \in Decisions : Preparable(d) /\ Enroll(d.id, d)
    /\ request' = [request EXCEPT ![r] = Waiting]
    /\ UNCHANGED <<clock, half, file, keys, owner, admitted, locked, work, begun, sent>>

-----------------------------------------------------------------------------
(* start. *)

Refuse(r) ==
    /\ request' = [request EXCEPT ![r] = Waiting]
    /\ locked' = locked \ {r}

(* Not authorised, unknown, of another epoch or already known. *)
DenyStart(r) ==
    /\ request[r].at = "start" /\ locked = {}
    /\ Refuse(r)
    /\ UNCHANGED <<clock, half, file, keys, owner, prepared, admitted, work, begun, enrolled, sent>>

(* The clock is read once, when the record was loaded; the epoch is the one *)
(* prepare returned; a status would have been the answer.                   *)
VerifyStart(r) ==
    /\ request[r].at = "start" /\ locked = {}
    /\ \E i \in Ids, e \in Permits, m \in Permits \cup {NoPermit} :
          LET d == prepared[i].decision
          IN  /\ Enrolled(i) /\ prepared[i].owner = owner
              /\ Verify(e, d, "start", clock)
              /\ IF d.route = "none" THEN m = NoPermit ELSE Verify(m, d, "model", clock)
              /\ request' = [request EXCEPT ![r] =
                     [at |-> "verified", id |-> i, e |-> e, m |-> m, now |-> clock,
                      since |-> request[r].since]]
    /\ locked' = {r}
    /\ UNCHANGED <<clock, half, file, keys, owner, prepared, admitted, work, begun, enrolled, sent>>

(* Journal::claim verifies again, before it looks for a record. *)
ClaimStart(r) ==
    /\ request[r].at = "verified"
    /\ LET i == request[r].id
           q == request[r]
       IN  IF Verify(q.e, prepared[i].decision, "start", q.now) /\ admitted[i] = "absent"
           THEN /\ admitted' = [admitted EXCEPT ![i] = "open"]
                /\ request' = [request EXCEPT ![r].at = "claimed"] /\ locked' = locked
           ELSE Refuse(r) /\ UNCHANGED admitted
    /\ UNCHANGED <<clock, half, file, keys, owner, prepared, work, begun, enrolled, sent>>

(* terminal_refusal, prepared_refusal. *)
Terminal(r) ==
    /\ admitted' = [admitted EXCEPT ![request[r].id] = "refused"]
    /\ Refuse(r)

(* operation_control: the clock is read again, in whole seconds. *)
BoundStart(r) ==
    /\ request[r].at = "claimed"
    /\ LET d == prepared[request[r].id].decision
       IN  IF d.deadline > clock
           THEN /\ request' = [request EXCEPT ![r] =
                       [at |-> "timed", id |-> @.id, e |-> @.e, m |-> @.m, now |-> @.now,
                        since |-> @.since, left |-> d.deadline - clock, read |-> Moment]]
                /\ UNCHANGED <<admitted, locked>>
           ELSE Terminal(r)
    /\ UNCHANGED <<clock, half, file, keys, owner, prepared, work, begun, enrolled, sent>>

(* Mutant: only the configured timeout bounds the work. *)
OperationControlUnbounded(left) == Moment + Timeout

(* Control::new: the whole seconds that were left then, from now on. *)
OperationControl(left) == Moment + Less(Timeout, Second * left)

(* held: how long the start was held up between the two clocks. *)
AnchorStart(r) ==
    /\ request[r].at = "timed"
    /\ request' = [request EXCEPT ![r] =
           [at |-> "bounded", id |-> @.id, e |-> @.e, m |-> @.m, now |-> @.now, since |-> @.since,
            until |-> OperationControl(@.left), held |-> Moment - @.read]]
    /\ UNCHANGED <<clock, half, file, keys, owner, prepared, admitted, locked, work, begun, enrolled, sent>>

(* ModelContext::admit verifies both again and takes what is left of the    *)
(* permit and the turn, by the time read at first, inside the operation's.  *)
Custody(q, d) ==
    LET left == Second * (Less(q.m.exp, d.deadline) - q.now)
    IN  IF /\ Verify(q.e, d, "start", q.now) /\ Verify(q.m, d, "model", q.now)
           /\ left > 0 /\ Moment < q.until
        THEN Less(Moment + left, q.until) ELSE Never

(* build_native *)
BuildNative(r) ==
    /\ request[r].at = "bounded"
    /\ LET q == request[r]
           d == prepared[q.id].decision
           custody == IF d.route = "none" THEN q.until ELSE Custody(q, d)
       IN  /\ Derivable(d) /\ Affordable(d) /\ custody # Never
           /\ request' = [request EXCEPT ![r] =
                  [at |-> "built", id |-> q.id, e |-> q.e, m |-> q.m, since |-> q.since,
                   until |-> q.until, held |-> q.held, custody |-> custody]]
    /\ UNCHANGED <<clock, half, file, keys, owner, prepared, admitted, locked, work, begun, enrolled, sent>>

(* Its `?`s and bails: what the decision names may have no runtime, tool,   *)
(* schema, model or artifact policy of this host that fits it.              *)
BuildRefused(r) ==
    /\ request[r].at = "bounded" /\ Terminal(r)
    /\ UNCHANGED <<clock, half, file, keys, owner, prepared, work, begun, enrolled, sent>>

(* Capacity, the registry entry, the Admitted status and the thread; any of *)
(* them may refuse.                                                         *)
LaunchNative(r) ==
    /\ request[r].at = "built"
    /\ LET q == request[r]
           d == prepared[q.id].decision
       IN  \/ /\ work' = [work EXCEPT ![q.id] =
                     [at |-> "running", bearer |-> q.m, until |-> q.until,
                      custody |-> q.custody, cancelled |-> FALSE]]
              /\ begun' = begun \cup {[id |-> q.id, decision |-> d, e |-> q.e, m |-> q.m,
                                             owner |-> owner, held |-> q.held, grant |-> Granted(d),
                                             store |-> Artifacts(d)]}
              /\ Refuse(r) /\ UNCHANGED admitted
           \/ Terminal(r) /\ UNCHANGED <<work, begun>>
    /\ UNCHANGED <<clock, half, file, keys, owner, prepared, enrolled, sent>>

-----------------------------------------------------------------------------
(* The work. *)

Running(i) == work[i].at = "running"
Expired(i) == work[i].cancelled \/ Moment >= work[i].until

(* with_bearer: refused, and forgotten, once its control has expired. *)
SendModel(i) ==
    /\ Running(i) /\ work[i].bearer # NoPermit
    /\ IF Expired(i) \/ Moment >= work[i].custody
       THEN work' = [work EXCEPT ![i].bearer = NoPermit] /\ sent' = sent
       ELSE sent' = [sent EXCEPT ![i] = [time |-> Moment, owner |-> owner]] /\ work' = work
    /\ UNCHANGED <<clock, half, file, keys, owner, prepared, admitted, locked, request, begun, enrolled>>

(* The cell ends and its ModelContext is dropped. *)
WorkEnds(i) ==
    /\ Running(i)
    /\ work' = [work EXCEPT ![i] = NoWork]
    /\ admitted' = [admitted EXCEPT ![i] = "receipt"]
    /\ UNCHANGED <<clock, half, file, keys, owner, prepared, locked, request, begun, enrolled, sent>>

-----------------------------------------------------------------------------
(* access: the decision may differ from the enrolled one in its operation   *)
(* and windows only.                                                        *)

AccessOf(d, a, op) == a = [d EXCEPT !.op = op, !.issued = a.issued, !.admission = a.admission]

Accesses(r, op, i) ==
    /\ request[r].at = op /\ Enrolled(i)
    /\ \E p \in Permits : AccessOf(prepared[i].decision, p.decision, op)
                          /\ Verify(p, p.decision, op, clock)

AccessRefused(r) ==
    /\ request[r].at \in {"cleanup", "read"} /\ Refuse(r)
    /\ UNCHANGED <<clock, half, file, keys, owner, prepared, admitted, work, begun, enrolled, sent>>

Read(r) ==
    /\ \E i \in Ids : Accesses(r, "read", i)
    /\ Refuse(r)
    /\ UNCHANGED <<clock, half, file, keys, owner, prepared, admitted, work, begun, enrolled, sent>>

(* What was never claimed is fenced for good; what runs is cancelled. *)
Cleanup(r) ==
    /\ locked = {}
    /\ \E i \in Ids :
          /\ Accesses(r, "cleanup", i)
          /\ admitted' = IF admitted[i] = "absent" THEN [admitted EXCEPT ![i] = "fenced"] ELSE admitted
          /\ work' = IF Running(i) THEN [work EXCEPT ![i].cancelled = TRUE] ELSE work
    /\ Refuse(r)
    /\ UNCHANGED <<clock, half, file, keys, owner, prepared, begun, enrolled, sent>>

-----------------------------------------------------------------------------
(* The surroundings. *)

TimePasses ==
    /\ \/ half = 0 /\ half' = 1 /\ clock' = clock
       \/ half = 1 /\ clock < MaxSeconds /\ half' = 0 /\ clock' = clock + 1
    /\ UNCHANGED <<file, keys, owner, prepared, admitted, locked, request, work, begun, enrolled, sent>>

(* The operator replaces the key file. *)
Rotate ==
    /\ file' \in KeyFiles \ {file}
    /\ request' = [r \in Requests |->
           IF request[r].at = "idle" THEN Waiting ELSE [request[r] EXCEPT !.since = @ \cup file']]
    /\ UNCHANGED <<clock, half, keys, owner, prepared, admitted, locked, work, begun, enrolled, sent>>

(* The receiver starts anew; configure needs a usable key file.  Cells die  *)
(* with it, records stay.                                                   *)
Restart ==
    /\ owner < MaxOwners /\ file # {}
    /\ owner' = owner + 1 /\ keys' = file /\ locked' = {}
    /\ request' = [r \in Requests |-> Waiting] /\ work' = [i \in Ids |-> NoWork]
    /\ UNCHANGED <<clock, half, file, prepared, admitted, begun, enrolled, sent>>

AuthNext ==
    \/ \E r \in Requests :
          \/ ReadKeys(r) \/ LoadKeys(r) \/ Prepare(r)
          \/ DenyStart(r) \/ VerifyStart(r) \/ ClaimStart(r) \/ BoundStart(r) \/ AnchorStart(r)
          \/ BuildNative(r) \/ BuildRefused(r) \/ LaunchNative(r)
          \/ AccessRefused(r) \/ Read(r) \/ Cleanup(r)
    \/ \E i \in Ids : SendModel(i) \/ WorkEnds(i)
    \/ TimePasses \/ Rotate \/ Restart

AuthSpec == AuthInit /\ [][AuthNext]_authVars

-----------------------------------------------------------------------------
(* An operation is launched at most once, over all requests, decisions for  *)
(* it and receiver processes; what is launched is the one decision prepare  *)
(* ever acknowledged for it, and the execution and the model permit were    *)
(* signed for exactly that decision.  No model request is made for it after *)
(* the signed turn deadline by as much as the second that now() truncates,  *)
(* and the time the start was held up between that clock and the control's, *)
(* come to, however long it was held up elsewhere, nor by a receiver other  *)
(* than the one that admitted it (start, enroll_prepared,                   *)
(* operation_control, with_bearer).  And its                                *)
(* tools together get no more than each of them was signed and declared     *)
(* for, a method nothing where no tool has it, and the store no operation   *)
(* that none of them names (https::derive, artifacts::derive).              *)
WorkAuthorised ==
    \A l \in begun :
        /\ \A k \in begun : k.id = l.id => k = l
        /\ enrolled[l.id] \subseteq {l.decision} /\ Enrolled(l.id) /\ prepared[l.id].decision = l.decision
        /\ l.e.decision = l.decision /\ (l.m # NoPermit => l.m.decision = l.decision)
        /\ sent[l.id].time # Never =>
              /\ sent[l.id].time < Second * l.decision.deadline + (Second - 1) + l.held
              /\ sent[l.id].owner = l.owner
        /\ \A i \in DOMAIN l.decision.tools :
              LET tool == l.decision.tools[i]
                  slot == l.grant[tool.method]
              IN  /\ Within(slot.hosts, tool.signed.hosts) /\ Within(slot.hosts, tool.declared.hosts)
                  /\ slot.requests <= Less(tool.signed.requests, tool.declared.requests)
        /\ \A method \in Methods :
              l.grant[method] = NoSlot \/ \E i \in DOMAIN l.decision.tools : l.decision.tools[i].method = method
        /\ l.store.operations = Named(l.decision)
        /\ \A i \in DOMAIN l.decision.stores :
              l.store.cap <= Less(l.decision.stores[i].signed, l.decision.stores[i].declared)

(* The composed Control is "never past `turnDeadlineUnix`": no model        *)
(* request is made at or after the signed turn deadline.                    *)
WithinTurnDeadline ==
    \A l \in begun : sent[l.id].time < Second * l.decision.deadline

(* "Emergency removal affects future verification": an operation is only    *)
(* admitted under a key that the file held at some time since its request   *)
(* arrived.                                                                 *)
RemovedKeyRefused ==
    \A r \in Requests : request[r].at = "claimed" => request[r].e.key \in request[r].since
================================================================================
