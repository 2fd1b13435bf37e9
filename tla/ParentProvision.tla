---------------------------- MODULE ParentProvision ----------------------------
(***************************************************************************)
(* The routes that make a retained parent out of a plan (celln-cli         *)
(* dispatch_parents.rs, dispatch_parent_create.rs, and the preparation in  *)
(* dispatch_substrate.rs, dispatch_parent_worker.rs and                    *)
(* dispatch_parent_model.rs).                                              *)
(*                                                                         *)
(* A provision turns a plan into three files, each published without       *)
(* clobbering: the issuance that pins the plan to its run, the permit and  *)
(* the launch profile.  A creation names a profile by its hash; the permit *)
(* is read again at every step on its way, and the operator may withdraw   *)
(* it in between.  ParentClaim has the inside of a claim, ParentRegistry   *)
(* and ParentSession what the owner does then, and MoteLaunch the policies *)
(* a preparation reads: here they may refuse.                              *)
(***************************************************************************)
EXTENDS Integers, Sequences, FiniteSets

CONSTANTS
    Bearers,      \* bearer tokens
    ClientFiles,  \* what trusted-parent-clients.json may hold: Bearers -> principal
    Plans,        \* ProvisionPlan: [run, caller, settings, past]
    Handlers,     \* HTTP handlers
    MaxBootId     \* bound on the number of boots

ASSUME ProvisionAssumption == MaxBootId \in Nat \ {0}

VARIABLES
    clients,      \* trusted-parent-clients.json
    bootId,       \* /proc boot_id
    lapsed,       \* permits whose admission window is over
    files,        \* parent-issuance, trusted-parent-permits, trusted-parent-launches
    safe,         \* what a power loss keeps of them
    route,        \* what each handler is doing
    tombs,        \* runs whose incarnation was claimed
    owners,       \* the owner thread of each run
    answered,     \* history: profiles a provision returned
    launched,     \* history: the profiles each run was launched from
    served        \* history: who had a turn of which run

provisionVars == <<clients, bootId, lapsed, files, safe, route, tombs, owners,
                   answered, launched, served>>
disks == <<files, safe>>
provisionGhosts == <<answered, launched, served>>

Runs == {p.run : p \in Plans}

Unissued == [intent |-> "none"]
Free == [at |-> "free"]
Unowned == [at |-> "none"]

(* Binding: what the permit and the worker configuration hash, which is all *)
(* of a plan but the conversation it continues.                             *)
BindingOf(plan) == [run |-> plan.run, caller |-> plan.caller, settings |-> plan.settings]

(* Permit, RunIssuance, Profile; a hash stands for the bytes it is of. *)
PermitOf(plan) == [binding |-> BindingOf(plan), boot |-> bootId]
IssuanceOf(plan) == [intent |-> plan, permit |-> PermitOf(plan)]
ProfileOf(plan, p) == [plan |-> plan, permit |-> p]

PermitType == [binding : {BindingOf(p) : p \in Plans}, boot : 1..MaxBootId]
ProfileType == [plan : Plans, permit : PermitType]
DiskType == [issued : [Runs -> {Unissued} \cup [intent : Plans, permit : PermitType]],
             permits : SUBSET PermitType, profiles : SUBSET ProfileType]
RouteType ==
    {Free} \cup [at : {"issue", "winner"}, plan : Plans]
    \cup [at : {"permit", "permitted", "profile", "profiled", "synced"}, profile : ProfileType]
    \cup [at : {"create"}, profile : ProfileType, who : {p.caller : p \in Plans}]
OwnerType ==
    {Unowned} \cup [at : {"claimed", "parent", "pair", "running", "ended"}, profile : ProfileType,
                    who : {p.caller : p \in Plans}]

ProvisionTypeOK ==
    /\ clients \in ClientFiles
    /\ bootId \in 1..MaxBootId
    /\ lapsed \in SUBSET PermitType
    /\ files \in DiskType
    /\ safe \in DiskType
    /\ route \in [Handlers -> RouteType]
    /\ tombs \in SUBSET Runs
    /\ owners \in [Runs -> OwnerType]
    /\ answered \in SUBSET ProfileType
    /\ launched \in [Runs -> Seq(ProfileType)]
    /\ served \in SUBSET [run : Runs, who : {p.caller : p \in Plans}]

ProvisionInit ==
    /\ clients \in ClientFiles /\ bootId = 1 /\ lapsed = {}
    /\ files = [issued |-> [r \in Runs |-> Unissued], permits |-> {}, profiles |-> {}]
    /\ safe = files
    /\ route = [h \in Handlers |-> Free] /\ tombs = {}
    /\ owners = [r \in Runs |-> Unowned]
    /\ answered = {} /\ launched = [r \in Runs |-> <<>>] /\ served = {}

-----------------------------------------------------------------------------
(* authenticate: the file is read at every request. *)
Authenticated(bearer) == clients[bearer]

(* Permit::validate *)
InWindow(p) == p.boot = bootId /\ p \notin lapsed

(* authorize: the permit file, for exactly this binding and principal. *)
PermitAllows(profile, who) ==
    /\ profile.permit \in files.permits /\ InWindow(profile.permit)
    /\ profile.permit.binding = BindingOf(profile.plan)
    /\ profile.plan.caller = who

(* admit: the profile file, and authorize. *)
ProfileAdmitted(profile, who) == profile \in files.profiles /\ PermitAllows(profile, who)

(* Handler h answers or goes on. *)
Responds(h) == route' = [route EXCEPT ![h] = Free]
Continues(h, point) == route' = [route EXCEPT ![h].at = point]

-----------------------------------------------------------------------------
(* provision *)

(* Size, version, principal and policy, before anything is written. *)
BeginProvision(h, bearer, plan) ==
    /\ route[h] = Free
    /\ plan.caller = Authenticated(bearer)
    /\ route' = [route EXCEPT ![h] = [at |-> "issue", plan |-> plan]]
    /\ UNCHANGED <<clients, bootId, lapsed, disks, tombs, owners, provisionGhosts>>

(* issue_for_run_at: the candidate is persisted unless there is one ... *)
PersistIssuance(h) ==
    /\ route[h].at = "issue"
    /\ LET plan == route[h].plan IN
       files' = [files EXCEPT !.issued[plan.run] = IF @ = Unissued THEN IssuanceOf(plan) ELSE @]
    /\ Continues(h, "winner")
    /\ UNCHANGED <<clients, bootId, lapsed, safe, tombs, owners, provisionGhosts>>

(* Planted fault: the permit is compared, the intent is not. *)
SameBinding(saved, plan) == saved.permit.binding = BindingOf(plan)

SameIssuance(saved, plan) == saved.intent = plan /\ saved.permit.binding = BindingOf(plan)

(* ... and the winner is read, compared, synced and validated. *)
ReadWinner(h) ==
    /\ route[h].at = "winner"
    /\ LET plan == route[h].plan
           saved == files.issued[plan.run]
       IN  IF SameIssuance(saved, plan)
           THEN /\ safe' = [safe EXCEPT !.issued = files.issued]
                /\ IF InWindow(saved.permit)
                   THEN route' = [route EXCEPT ![h] =
                                     [at |-> "permit", profile |-> ProfileOf(plan, saved.permit)]]
                   ELSE Responds(h)
           ELSE Responds(h) /\ UNCHANGED safe
    /\ UNCHANGED <<clients, bootId, lapsed, files, tombs, owners, provisionGhosts>>

(* Permit::publish *)
PersistPermit(h) ==
    /\ route[h].at = "permit"
    /\ IF InWindow(route[h].profile.permit)
       THEN /\ files' = [files EXCEPT !.permits = @ \cup {route[h].profile.permit}]
            /\ Continues(h, "permitted")
       ELSE Responds(h) /\ UNCHANGED files
    /\ UNCHANGED <<clients, bootId, lapsed, safe, tombs, owners, provisionGhosts>>

SettlePermit(h) ==
    /\ route[h].at = "permitted"
    /\ safe' = [safe EXCEPT !.permits = files.permits]
    /\ IF InWindow(route[h].profile.permit) THEN Continues(h, "profile") ELSE Responds(h)
    /\ UNCHANGED <<clients, bootId, lapsed, files, tombs, owners, provisionGhosts>>

(* publish: the profile is validated, as the permit now stands, and         *)
(* persisted; an equal one is a retry ...                                   *)
PublishProfile(h) ==
    /\ route[h].at = "profile"
    /\ LET p == route[h].profile IN
       IF PermitAllows(p, p.plan.caller)
       THEN files' = [files EXCEPT !.profiles = @ \cup {p}] /\ Continues(h, "profiled")
       ELSE Responds(h) /\ UNCHANGED files
    /\ UNCHANGED <<clients, bootId, lapsed, safe, tombs, owners, provisionGhosts>>

SyncProfile(h) ==
    /\ route[h].at = "profiled"
    /\ safe' = [safe EXCEPT !.profiles = files.profiles]
    /\ Continues(h, "synced")
    /\ UNCHANGED <<clients, bootId, lapsed, files, tombs, owners, provisionGhosts>>

(* ... and admitted once more before it is an answer. *)
AnswerProvision(h) ==
    /\ route[h].at = "synced"
    /\ LET p == route[h].profile IN
       answered' = IF ProfileAdmitted(p, p.plan.caller) THEN answered \cup {p} ELSE answered
    /\ Responds(h)
    /\ UNCHANGED <<clients, bootId, lapsed, disks, tombs, owners, launched, served>>

(* validate_policy refuses what the model profile, the requests or the      *)
(* reservation now say, or a file operation fails; what was published stays.*)
ProvisionFails(h) ==
    /\ route[h].at \in {"issue", "winner", "permit", "permitted", "profile", "profiled", "synced"}
    /\ Responds(h)
    /\ UNCHANGED <<clients, bootId, lapsed, disks, tombs, owners, provisionGhosts>>

-----------------------------------------------------------------------------
(* create: admit, outside every lock ... *)
BeginCreate(h, bearer, profile) ==
    /\ route[h] = Free /\ ProfileAdmitted(profile, Authenticated(bearer))
    /\ route' = [route EXCEPT ![h] =
                    [at |-> "create", profile |-> profile, who |-> Authenticated(bearer)]]
    /\ UNCHANGED <<clients, bootId, lapsed, disks, tombs, owners, provisionGhosts>>

(* ... then, under the capacity lock, claim, and spawn the owner.  A node   *)
(* without room claims nothing; a registry without room burned the run.     *)
ClaimAndSpawn(h) ==
    /\ route[h].at = "create"
    /\ LET p == route[h].profile
           run == p.plan.run
       IN  \/ /\ PermitAllows(p, route[h].who) /\ run \notin tombs
              /\ tombs' = tombs \cup {run}
              /\ \/ owners' = [owners EXCEPT ![run] =
                                  [at |-> "claimed", profile |-> p, who |-> route[h].who]]
                 \/ UNCHANGED owners
           \/ UNCHANGED <<tombs, owners>>
    /\ Responds(h)
    /\ UNCHANGED <<clients, bootId, lapsed, disks, provisionGhosts>>

-----------------------------------------------------------------------------
(* The owner thread: Admission::claim's closure. *)

OwnerGoes(run, point) == owners' = [owners EXCEPT ![run].at = point]

(* validate_parent_request, authorize, prepare_declared. *)
PrepareParent(run) ==
    /\ owners[run].at = "claimed"
    /\ \/ PermitAllows(owners[run].profile, owners[run].profile.plan.caller) /\ OwnerGoes(run, "parent")
       \/ OwnerGoes(run, "ended")
    /\ UNCHANGED <<clients, bootId, lapsed, disks, route, tombs, provisionGhosts>>

(* prepare_worker: ChildBrokers::new, prepare_declared and check_tools may  *)
(* refuse; no permit is read.                                               *)
PrepareWorker(run) ==
    /\ owners[run].at = "parent"
    /\ OwnerGoes(run, "pair") \/ OwnerGoes(run, "ended")
    /\ UNCHANGED <<clients, bootId, lapsed, disks, route, tombs, provisionGhosts>>

(* into_claimed_session, launch_claimed: authorize once more, fork, seed. *)
LaunchParent(run) ==
    /\ owners[run].at = "pair"
    /\ \/ /\ PermitAllows(owners[run].profile, owners[run].profile.plan.caller)
          /\ OwnerGoes(run, "running")
          /\ launched' = [launched EXCEPT ![run] = Append(@, owners[run].profile)]
       \/ OwnerGoes(run, "ended") /\ UNCHANGED launched
    /\ UNCHANGED <<clients, bootId, lapsed, disks, route, tombs, answered, served>>

(* handle: an entry of the registry is seen by the principal that made it. *)
Sees(bearer, run) == owners[run] # Unowned /\ owners[run].who = Authenticated(bearer)

(* POST turns: the owner takes one; the handler waits for it or leaves, and *)
(* the turn goes on either way.                                             *)
SubmitTurn(h, bearer, run) ==
    /\ route[h] = Free /\ Sees(bearer, run) /\ owners[run].at = "running"
    /\ served' = served \cup {[run |-> run, who |-> Authenticated(bearer)]}
    /\ UNCHANGED <<clients, bootId, lapsed, disks, route, tombs, owners, answered, launched>>

(* POST cancel and stop. *)
StopOwner(h, bearer, run) ==
    /\ route[h] = Free /\ Sees(bearer, run) /\ owners[run].at # "ended"
    /\ OwnerGoes(run, "ended")
    /\ UNCHANGED <<clients, bootId, lapsed, disks, route, tombs, provisionGhosts>>

(* The lease ends, or a turn fails. *)
OwnerEnds(run) ==
    /\ owners[run].at = "running" /\ OwnerGoes(run, "ended")
    /\ UNCHANGED <<clients, bootId, lapsed, disks, route, tombs, provisionGhosts>>

-----------------------------------------------------------------------------
(* The surroundings. *)

ReplaceClients ==
    /\ clients' \in ClientFiles \ {clients}
    /\ UNCHANGED <<bootId, lapsed, disks, route, tombs, owners, provisionGhosts>>

WindowEnds ==
    /\ \E p \in files.permits \ lapsed : lapsed' = lapsed \cup {p}
    /\ UNCHANGED <<clients, bootId, disks, route, tombs, owners, provisionGhosts>>

(* The operator deletes a permit; a provision of the same plan, inside its  *)
(* window, would publish it again.                                          *)
RevokePermit ==
    /\ \E p \in files.permits :
          /\ files' = [files EXCEPT !.permits = @ \ {p}]
          /\ safe' = [safe EXCEPT !.permits = @ \ {p}]
    /\ UNCHANGED <<clients, bootId, lapsed, route, tombs, owners, provisionGhosts>>

(* The dispatcher is killed, and its parents with it. *)
DispatcherDies ==
    /\ route' = [h \in Handlers |-> Free] /\ owners' = [r \in Runs |-> Unowned]
    /\ UNCHANGED <<clients, bootId, lapsed, disks, tombs, provisionGhosts>>

(* What was not synced may be lost; permits of another boot are void. *)
HostLosesPower ==
    /\ bootId < MaxBootId /\ bootId' = bootId + 1
    /\ \E some \in SUBSET Runs, permits \in SUBSET (files.permits \ safe.permits),
          profiles \in SUBSET (files.profiles \ safe.profiles) :
          files' = [issued |-> [r \in Runs |-> IF r \in some THEN files.issued[r] ELSE safe.issued[r]],
                    permits |-> safe.permits \cup permits,
                    profiles |-> safe.profiles \cup profiles]
    /\ safe' = files'
    /\ route' = [h \in Handlers |-> Free] /\ owners' = [r \in Runs |-> Unowned]
    /\ UNCHANGED <<clients, lapsed, tombs, provisionGhosts>>

ProvisionNext ==
    \/ \E h \in Handlers :
          \/ \E bearer \in Bearers :
                \/ \E plan \in Plans : BeginProvision(h, bearer, plan)
                \/ \E profile \in files.profiles : BeginCreate(h, bearer, profile)
                \/ \E run \in Runs : SubmitTurn(h, bearer, run) \/ StopOwner(h, bearer, run)
          \/ PersistIssuance(h) \/ ReadWinner(h) \/ PersistPermit(h) \/ SettlePermit(h)
          \/ PublishProfile(h) \/ SyncProfile(h) \/ AnswerProvision(h) \/ ProvisionFails(h)
          \/ ClaimAndSpawn(h)
    \/ \E run \in Runs : PrepareParent(run) \/ PrepareWorker(run) \/ LaunchParent(run) \/ OwnerEnds(run)
    \/ ReplaceClients \/ WindowEnds \/ RevokePermit
    \/ DispatcherDies \/ HostLosesPower

ProvisionSpec == ProvisionInit /\ [][ProvisionNext]_provisionVars

-----------------------------------------------------------------------------
(* However many provisions of a run race, are retried, or are interrupted   *)
(* by a kill or a power loss, one profile is ever returned for it.  A run   *)
(* is launched at most once, from the one plan its durable issuance holds,  *)
(* the conversation included, and only the principal of that plan has its   *)
(* turns (issue_for_run, publish, create, Admission::claim, handle).        *)
CreatedAsProvisioned ==
    /\ \A a, b \in answered : a.plan.run = b.plan.run => a = b
    /\ \A run \in Runs :
          /\ Len(launched[run]) <= 1
          /\ \A i \in DOMAIN launched[run] : launched[run][i].plan = safe.issued[run].intent
    /\ \A s \in served : s.who = safe.issued[s.run].intent.caller
================================================================================
