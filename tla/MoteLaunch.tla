------------------------------ MODULE MoteLaunch ------------------------------
(***************************************************************************)
(* Launching an admitted mote (celln-cli dispatch_substrate.rs), with the  *)
(* grant of a model for a Harness request (dispatch_harness.rs and its     *)
(* issuer and expiry).                                                     *)
(*                                                                         *)
(* A launch reads the operator's files twice: before a preparation that    *)
(* may boot a substrate for seconds, and again before the cell is forked.  *)
(* Each read after the preparation is a step of its own, between which the *)
(* operator, the clock and other launches move on.  The motes are admitted *)
(* already (MoteAdmission), and no administrator is at work.               *)
(*                                                                         *)
(* harness-attempts is taken to exist: its own entry in the state root is  *)
(* not synced when the first claim makes it.                               *)
(***************************************************************************)
EXTENDS MoteAdmission

CONSTANTS
    Tasks,        \* requests: attempt (caller and id), mote, task, harness
    Profiles,     \* what the operator writes in a model profile
    Launchers,    \* threads that launch
    MaxLifetime,  \* MAX_LIFETIME_MS
    MaxBoot,      \* bound: boots of the host
    MaxClock      \* bound: CLOCK_BOOTTIME

ASSUME DeclaredAssumption == {MaxLifetime, MaxBoot, MaxClock} \subseteq Nat

VARIABLES
    modelProfile, \* the operator's model profile
    hostBoot, hostClock,
    harnessGrants,       \* trusted-harness, by content
    harnessSynced, \* those a power loss keeps
    attempts,     \* harness-attempts
    launcher,     \* what each launching thread is doing
    issuer,       \* the process that issues a grant
    ran           \* history: how often an attempt's cell ran

hostTime == <<hostBoot, hostClock>>
launchVars == <<modelProfile, hostTime, harnessGrants, harnessSynced, attempts, launcher, issuer, ran>>
declaredVars == <<moteVars, launchVars>>

NoProfile == [binds |-> "none"]
NoGrant == [request |-> "none"]
Unoccupied == [at |-> "idle"]
Attempts == {q.attempt : q \in Tasks}

(* A grant names a request and the profile it was issued under, or was      *)
(* written by hand for a mote.                                              *)
Grants == [request : Tasks, policy : Profiles] \cup
          [request : [mote : {q.mote : q \in Tasks}], policy : {NoProfile}] \cup {NoGrant}
Permissions == {"mote", "closure", "grant"}
Launch ==
    [at : {"booting", "ready", "authorized", "verified", "forked", "claiming", "claimed", "running"},
     request : Tasks, grant : Grants, seen : SUBSET Permissions]
Issue == [at : {"candidate", "verified", "published"}, request : Tasks, grant : Grants]

LaunchTypeOK ==
    /\ modelProfile \in Profiles \cup {NoProfile}
    /\ hostBoot \in Nat
    /\ hostClock \in 0..MaxClock
    /\ harnessGrants \subseteq Grants
    /\ harnessSynced \subseteq Grants
    /\ attempts \in [Attempts -> {"none", "made", "synced"}]
    /\ launcher \in [Launchers -> Launch \cup {Unoccupied}]
    /\ issuer \in Issue \cup {Unoccupied}
    /\ ran \in [Attempts -> Nat]

(* trusted-harness and harness-attempts are empty. *)
LaunchInit ==
    /\ modelProfile = NoProfile /\ hostBoot = 1 /\ hostClock = 0
    /\ harnessGrants = {} /\ harnessSynced = {} /\ attempts = [a \in Attempts |-> "none"]
    /\ launcher = [l \in Launchers |-> Unoccupied] /\ issuer = Unoccupied
    /\ ran = [a \in Attempts |-> 0]

(* The motes of ms have been admitted. *)
AdmittedInit(ms) ==
    /\ closurePolicy \in ClosurePolicies /\ localRevoked = {}
    /\ built = ms /\ evidence = ms /\ sealedChecked = ms
    /\ trustedMotes = ms /\ trustSynced = ms /\ acked = ms
    /\ objects = [m \in Plans |-> IF m \in ms THEN "durable" ELSE "absent"]
    /\ admin = [a \in Admins |-> Away] /\ admissionLock = {}
    /\ LaunchInit

-----------------------------------------------------------------------------
(* Mutant: a boot identity is not compared. *)
UnexpiredAnyBoot(p) ==
    /\ p.expires - p.issued \in 1..MaxLifetime
    /\ p.issued <= hostClock /\ hostClock < p.expires

(* Expiry::validate. *)
Unexpired(p) ==
    /\ p.boot = hostBoot /\ p.expires > p.issued /\ p.expires - p.issued \in 1..MaxLifetime
    /\ p.issued <= hostClock /\ hostClock < p.expires

(* profile: a first version has no expiry. *)
ProfileUsable == modelProfile # NoProfile /\ (modelProfile.boot # 0 => Unexpired(modelProfile))

(* candidate: the profile approves exactly this request, but for the hash   *)
(* of the grant in it.                                                      *)
ProfileCandidate(q) == ProfileUsable /\ modelProfile.binds = q /\ q.harness
GrantFor(q) == [request |-> q, policy |-> modelProfile]

(* issuer::validate.  A grant the operator wrote by hand has no issuer. *)
Validated(q, g) ==
    g.policy # NoProfile => ProfileUsable /\ modelProfile = g.policy /\ g.policy.binds = q

(* resolve, resolve_bytes: the grant by its content, its issuer, and the    *)
(* caller, mote, runtime, closure, tools and model it names.                *)
Resolves(q, g) == g \in harnessGrants /\ Validated(q, g) /\ g.request.mote = q.mote

-----------------------------------------------------------------------------
(* What the operator's files allowed of a launch at one time; an account    *)
(* of its own for the properties.                                           *)
View == [policy |-> closurePolicy, motes |-> trustedMotes, harnessGrants |-> harnessGrants,
         profile |-> modelProfile, boot |-> hostBoot, clock |-> hostClock]

AllowedBy(q, g, v) ==
    {w \in Permissions :
        CASE w = "mote" -> q.mote \in v.motes
          [] w = "closure" ->
                /\ {Source[q.mote[i]].publisher : i \in DOMAIN q.mote} \subseteq v.policy.publishers
                /\ \A i \in DOMAIN q.mote :
                      {q.mote[i], Source[q.mote[i]].fs} \cap v.policy.revoked = {}
          [] OTHER -> q.harness =>
                /\ g \in v.harnessGrants
                /\ g.policy # NoProfile =>
                      /\ v.profile = g.policy /\ g.policy.binds = q
                      /\ g.policy.boot # 0 => g.policy.boot = v.boot /\ v.clock < g.policy.expires}

(* While a launch is past its preparation, everything held counts. *)
Noted(l, v) ==
    IF launcher[l].at \in {"ready", "authorized", "verified"}
    THEN [launcher[l] EXCEPT !.seen = @ \cup AllowedBy(launcher[l].request, launcher[l].grant, v)]
    ELSE launcher[l]
NoteAll == launcher' = [l \in Launchers |-> Noted(l, View')]

-----------------------------------------------------------------------------
(* issue. *)

Issues(point) == issuer' = [issuer EXCEPT !.at = point]

BeginIssue(q) ==
    /\ issuer = Unoccupied /\ ProfileCandidate(q)
    /\ issuer' = [at |-> "candidate", request |-> q, grant |-> GrantFor(q)]
    /\ UNCHANGED <<moteVars, modelProfile, hostTime, harnessGrants, harnessSynced, attempts, launcher, ran>>

(* check_members, resolve_bytes. *)
CheckIssue ==
    /\ issuer.at = "candidate"
    /\ issuer.request.mote \in trustedMotes /\ VerifyClosure(issuer.request.mote)
    /\ Hashes[issuer.request.mote] \cap localRevoked = {}
    /\ Validated(issuer.request, issuer.grant)
    /\ Issues("verified")
    /\ UNCHANGED <<moteVars, modelProfile, hostTime, harnessGrants, harnessSynced, attempts, launcher, ran>>

(* The policy is checked again, then the grant persisted without clobbering. *)
PublishGrant ==
    /\ issuer.at = "verified" /\ ProfileCandidate(issuer.request) /\ GrantFor(issuer.request) = issuer.grant
    /\ harnessGrants' = harnessGrants \cup {issuer.grant} /\ Issues("published")
    /\ UNCHANGED <<moteVars, modelProfile, hostTime, harnessSynced, attempts, ran>>
    /\ NoteAll

SyncGrant ==
    /\ issuer.at = "published" /\ harnessSynced' = harnessGrants /\ issuer' = Unoccupied
    /\ UNCHANGED <<moteVars, modelProfile, hostTime, harnessGrants, attempts, launcher, ran>>

IssueFails ==
    /\ issuer # Unoccupied /\ issuer' = Unoccupied
    /\ UNCHANGED <<moteVars, modelProfile, hostTime, harnessGrants, harnessSynced, attempts, launcher, ran>>

-----------------------------------------------------------------------------
(* launch_declared, launch_scoped_declared. *)

Launching(l, point) == launcher' = [launcher EXCEPT ![l].at = point]

(* prepare_declared_mode: everything is read once; the local manifest only  *)
(* here.                                                                    *)
PrepareDeclared(l) ==
    /\ launcher[l] = Unoccupied
    /\ \E q \in Tasks, g \in harnessGrants \cup {NoGrant} :
          /\ q.harness = (g # NoGrant) /\ (q.harness => Resolves(q, g))
          /\ q.mote \in trustedMotes /\ VerifyClosure(q.mote) /\ Hashes[q.mote] \cap localRevoked = {}
          /\ launcher' = [launcher EXCEPT ![l] =
                [at |-> "booting", request |-> q, grant |-> g, seen |-> {}]]
    /\ UNCHANGED <<moteVars, modelProfile, hostTime, harnessGrants, harnessSynced, attempts, issuer, ran>>

(* The substrate is pinned, booted first if it was not there. *)
SubstrateReady(l) ==
    /\ launcher[l].at = "booting"
    /\ launcher' = [launcher EXCEPT ![l].at = "ready",
                                    ![l].seen = AllowedBy(launcher[l].request, launcher[l].grant, View)]
    /\ UNCHANGED <<moteVars, modelProfile, hostTime, harnessGrants, harnessSynced, attempts, issuer, ran>>

Authorize(l) ==
    /\ launcher[l].at = "ready" /\ launcher[l].request.mote \in trustedMotes
    /\ Launching(l, "authorized")
    /\ UNCHANGED <<moteVars, modelProfile, hostTime, harnessGrants, harnessSynced, attempts, issuer, ran>>

(* Mutant: the closure resolved by the preparation is used. *)
ResolveClosureOnce(l) ==
    /\ launcher[l].at = "authorized" /\ Launching(l, "verified")
    /\ UNCHANGED <<moteVars, modelProfile, hostTime, harnessGrants, harnessSynced, attempts, issuer, ran>>

ResolveClosure(l) ==
    /\ launcher[l].at = "authorized" /\ VerifyClosure(launcher[l].request.mote)
    /\ Launching(l, "verified")
    /\ UNCHANGED <<moteVars, modelProfile, hostTime, harnessGrants, harnessSynced, attempts, issuer, ran>>

(* The grant is resolved again and the cell forked. *)
ResolveHarness(l) ==
    /\ launcher[l].at = "verified"
    /\ launcher[l].request.harness => Resolves(launcher[l].request, launcher[l].grant)
    /\ Launching(l, IF launcher[l].request.harness THEN "forked" ELSE "claimed")
    /\ UNCHANGED <<moteVars, modelProfile, hostTime, harnessGrants, harnessSynced, attempts, issuer, ran>>

(* claim: the tombstone of the attempt is created, or the launch refused;   *)
(* the record and then its directory are synced.                            *)
ClaimAttempt(l) ==
    /\ launcher[l].at = "forked" /\ attempts[launcher[l].request.attempt] = "none"
    /\ attempts' = [attempts EXCEPT ![launcher[l].request.attempt] = "made"]
    /\ Launching(l, "claiming")
    /\ UNCHANGED <<moteVars, modelProfile, hostTime, harnessGrants, harnessSynced, issuer, ran>>

(* Mutant: the tombstone is left to the page cache. *)
SyncAttemptSkipped(l) ==
    /\ launcher[l].at = "claiming" /\ Launching(l, "claimed")
    /\ UNCHANGED <<moteVars, modelProfile, hostTime, harnessGrants, harnessSynced, attempts, issuer, ran>>

SyncAttempt(l) ==
    /\ launcher[l].at = "claiming" /\ Launching(l, "claimed")
    /\ attempts' = [attempts EXCEPT ![launcher[l].request.attempt] = "synced"]
    /\ UNCHANGED <<moteVars, modelProfile, hostTime, harnessGrants, harnessSynced, issuer, ran>>

RunDeclared(l) ==
    /\ launcher[l].at = "claimed" /\ Launching(l, "running")
    /\ ran' = IF launcher[l].request.harness
              THEN [ran EXCEPT ![launcher[l].request.attempt] = @ + 1] ELSE ran
    /\ UNCHANGED <<moteVars, modelProfile, hostTime, harnessGrants, harnessSynced, attempts, issuer>>

(* The cell ended, a check refused, or the process was killed. *)
EndLaunch(l) ==
    /\ launcher[l] # Unoccupied /\ launcher' = [launcher EXCEPT ![l] = Unoccupied]
    /\ UNCHANGED <<moteVars, modelProfile, hostTime, harnessGrants, harnessSynced, attempts, issuer, ran>>

-----------------------------------------------------------------------------
(* The surroundings. *)

EditProfile ==
    /\ modelProfile' \in (Profiles \cup {NoProfile}) \ {modelProfile}
    /\ UNCHANGED <<moteVars, hostTime, harnessGrants, harnessSynced, attempts, issuer, ran>>
    /\ NoteAll

(* A grant written, or taken away, by hand. *)
EditGrants ==
    /\ \/ \E q \in Tasks : harnessGrants' = harnessGrants \cup {[request |-> [mote |-> q.mote], policy |-> NoProfile]}
       \/ \E g \in harnessGrants : harnessGrants' = harnessGrants \ {g}
    /\ harnessSynced' = harnessGrants'
    /\ UNCHANGED <<moteVars, modelProfile, hostTime, attempts, issuer, ran>>
    /\ NoteAll

EditHostPolicy ==
    /\ EditPolicy \/ RevokeLocally \/ WithdrawMote
    /\ UNCHANGED <<modelProfile, hostTime, harnessGrants, harnessSynced, attempts, issuer, ran>>
    /\ NoteAll

ClockAdvances ==
    /\ hostClock < MaxClock /\ hostClock' = hostClock + 1
    /\ UNCHANGED <<moteVars, modelProfile, hostBoot, harnessGrants, harnessSynced, attempts, issuer, ran>>
    /\ NoteAll

(* A power loss begins another boot. *)
HostRestarts ==
    /\ hostBoot < MaxBoot /\ hostBoot' = hostBoot + 1 /\ hostClock' = 0
    /\ LosePower
    /\ harnessGrants' \in {harnessGrants, harnessSynced} /\ harnessSynced' = harnessGrants'
    /\ attempts' \in {attempts, [a \in Attempts |-> IF attempts[a] = "made" THEN "none" ELSE attempts[a]]}
    /\ launcher' = [l \in Launchers |-> Unoccupied] /\ issuer' = Unoccupied
    /\ UNCHANGED <<modelProfile, ran>>

DeclaredNext ==
    \/ \E q \in Tasks : BeginIssue(q)
    \/ CheckIssue \/ PublishGrant \/ SyncGrant \/ IssueFails
    \/ \E l \in Launchers :
          \/ PrepareDeclared(l) \/ SubstrateReady(l) \/ Authorize(l) \/ ResolveClosure(l)
          \/ ResolveHarness(l) \/ ClaimAttempt(l) \/ SyncAttempt(l) \/ RunDeclared(l) \/ EndLaunch(l)
    \/ EditProfile \/ EditGrants \/ EditHostPolicy \/ ClockAdvances \/ HostRestarts

(* Any set of valid motes may have been admitted. *)
DeclaredInit == \E ms \in SUBSET ValidPlans : AdmittedInit(ms)
DeclaredSpec == DeclaredInit /\ [][DeclaredNext]_declaredVars

-----------------------------------------------------------------------------
(* However long a substrate took to boot, a cell of it only runs if each of *)
(* what allows it still did at some time after: the mote was on the list,   *)
(* no source of its closure was withdrawn or revoked, and the grant was in  *)
(* force, in this boot, for exactly this request.  And the cell of one      *)
(* attempt runs once, whoever launches it, over failures and power losses   *)
(* (launch_declared, harness::claim).                                       *)
LaunchAuthorised ==
    /\ \A l \in Launchers :
          launcher[l].at = "running" => launcher[l].seen = Permissions
    /\ \A a \in Attempts : ran[a] <= 1
===============================================================================
