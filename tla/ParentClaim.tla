----------------------------- MODULE ParentClaim -----------------------------
(***************************************************************************)
(* The durable life of one incarnation, before and after the process that  *)
(* runs it: the permit pinned to its run (celln-warden parent_permit.rs),  *)
(* the tombstone directory that claims or fences it and the evidence that  *)
(* its owner is gone (parent_journal.rs), and the routes that use them     *)
(* (celln-cli dispatch_parents.rs, dispatch_parent_create.rs,              *)
(* dispatch_scoped.rs).                                                    *)
(*                                                                         *)
(* Several processes share one state directory.  Any of them may be killed *)
(* at any step, process ids are reused, several pid namespaces exist, and  *)
(* a power loss starts a new boot and drops what was not synced.           *)
(***************************************************************************)
EXTENDS Integers, FiniteSets

CONSTANTS Slots,       \* the [ns, pid] a process may run under
          Subjects,  \* principals the requests authenticate as
          Owner,       \* the principal the permit binds
          Window,      \* admission_window
          MaxTime,     \* bound on the boot clock
          MaxBoots,    \* bound on the number of boots
          None

ASSUME ClaimAssumption ==
    /\ Owner \in Subjects
    /\ Window \in Nat \ {0}
    /\ MaxTime \in Nat /\ MaxBoots \in Nat \ {0}
    /\ None \notin Subjects

VARIABLES
    boot, now,    \* /proc boot_id and CLOCK_BOOTTIME
    proc,         \* start ticks of the process in each slot, 0 when there is none
    job,          \* what each process is doing with the incarnation
    runtime,      \* whether it runs the parent cell (KVM descriptors included)
    issuance,     \* parent-issuance/<incarnation>.json
    permits,      \* trusted-parent-permits/*.json
    disk,         \* the incarnation's directory and the records in it
    identity,     \* the contents of process.json
    fencedBy,     \* the principal inside never-created.json
    synced,       \* what of the above a power loss keeps
    closed,       \* the run's admission is durably refused and fenced
    handed,       \* history: the permits returned to callers
    launches,     \* history: how many parent cells were launched
    fenced,       \* history: fence_uncreated answered true
    confirmed,    \* history: a route confirmed the teardown
    cleanup       \* the last scoped cleanup: its answer, and the owner's real fate

store == <<issuance, permits, disk, identity, fencedBy, synced>>
ghosts == <<handed, launches, fenced, confirmed, cleanup>>
claimVars == <<boot, now, proc, job, runtime, store, closed, ghosts>>

Permit == [boot : 1 .. MaxBoots, issued : 0 .. MaxTime]
Files == {"directory", "parent", "owner", "process", "fence"}
Identity == [boot : 1 .. MaxBoots, slot : Slots, start : 1 .. MaxTime + 1]

Idle == [at |-> "idle", permit |-> None]
At(s, point) == proc[s] # 0 /\ job[s].at = point

JobType == [at : {"idle", "issuing", "issued", "publishing", "authorized", "made",
                  "parent", "parentSync", "owner", "ownerSync", "process",
                  "processSync", "claimed", "running", "fencing", "fenceSync",
                  "fenceRoot"},
            permit : Permit \cup Subjects \cup {None}]
SyncedType == [issuance : BOOLEAN, permits : SUBSET Permit, disk : SUBSET Files]
CleanupType == [answer : {"none", "confirmed", "uncertain"}, gone : BOOLEAN]

ClaimTypeOK ==
    /\ boot \in 1 .. MaxBoots /\ now \in 0 .. MaxTime
    /\ proc \in [Slots -> 0 .. MaxTime + 1]
    /\ job \in [Slots -> JobType]
    /\ runtime \in [Slots -> BOOLEAN]
    /\ issuance \in Permit \cup {None}
    /\ permits \subseteq Permit
    /\ disk \subseteq Files
    /\ identity \in Identity \cup {None}
    /\ fencedBy \in Subjects \cup {None}
    /\ synced \in SyncedType
    /\ closed \in BOOLEAN
    /\ handed \subseteq Permit
    /\ launches \in Nat
    /\ fenced \in BOOLEAN /\ confirmed \in BOOLEAN
    /\ cleanup \in CleanupType

ClaimInit ==
    /\ boot = 1 /\ now = 0
    /\ proc = [s \in Slots |-> 0]
    /\ job = [s \in Slots |-> Idle]
    /\ runtime = [s \in Slots |-> FALSE]
    /\ issuance = None /\ permits = {} /\ disk = {}
    /\ identity = None /\ fencedBy = None
    /\ synced = [issuance |-> FALSE, permits |-> {}, disk |-> {}]
    /\ closed = FALSE
    /\ handed = {} /\ launches = 0
    /\ fenced = FALSE /\ confirmed = FALSE
    /\ cleanup = [answer |-> "none", gone |-> FALSE]

(* Process s goes on to another point of its job. *)
Goto(s, point) == job' = [job EXCEPT ![s].at = point]

(* The operation failed: its caller gets an error and nothing is undone. *)
Abandon(s) == job' = [job EXCEPT ![s] = Idle]

-----------------------------------------------------------------------------
(* Permit::validate: this boot, and inside the admission window. *)
Valid(p) == p.boot = boot /\ p.issued =< now /\ now < p.issued + Window

(* issue_for_run: a candidate is persisted without clobbering ... *)
IssueForRun(s) ==
    /\ At(s, "idle") /\ ~closed
    /\ issuance' = IF issuance = None THEN [boot |-> boot, issued |-> now] ELSE issuance
    /\ Goto(s, "issuing")
    /\ UNCHANGED <<closed, boot, now, proc, runtime, permits, disk, identity, fencedBy, synced, ghosts>>

(* ... the winner is read back, synced and validated ... *)
ReadIssuance(s) ==
    /\ At(s, "issuing")
    /\ synced' = [synced EXCEPT !.issuance = TRUE]
    /\ job' = [job EXCEPT ![s] = IF Valid(issuance)
                                 THEN [at |-> "issued", permit |-> issuance] ELSE Idle]
    /\ UNCHANGED <<closed, boot, now, proc, runtime, issuance, permits, disk, identity, fencedBy, ghosts>>

(* ... and published under its hash, if it is still valid. *)
PublishPermit(s) ==
    /\ At(s, "issued")
    /\ IF Valid(job[s].permit)
       THEN permits' = permits \cup {job[s].permit} /\ Goto(s, "publishing")
       ELSE permits' = permits /\ Abandon(s)
    /\ UNCHANGED <<closed, boot, now, proc, runtime, issuance, disk, identity, fencedBy, synced, ghosts>>

(* The caller gets the permit only if publication did not outlast it. *)
SyncPermit(s) ==
    /\ At(s, "publishing")
    /\ synced' = [synced EXCEPT !.permits = permits]
    /\ handed' = IF Valid(job[s].permit) THEN handed \cup {job[s].permit} ELSE handed
    /\ Abandon(s)
    /\ UNCHANGED <<closed, boot, now, proc, runtime, issuance, permits, disk, identity, fencedBy,
                   launches, fenced, confirmed, cleanup>>

-----------------------------------------------------------------------------
(* claim: authorize, then the tombstone directory, then its records. *)

Authorize(s, p) ==
    /\ At(s, "idle")
    /\ p \in permits /\ Valid(p)
    /\ job' = [job EXCEPT ![s] = [at |-> "authorized", permit |-> p]]
    /\ UNCHANGED <<closed, boot, now, proc, runtime, store, ghosts>>

(* fs::create_dir *)
MakeDirectory(s) ==
    /\ At(s, "authorized")
    /\ disk' = disk \cup {"directory"}
    /\ IF "directory" \in disk THEN Abandon(s) ELSE Goto(s, "made")
    /\ UNCHANGED <<closed, boot, now, proc, runtime, issuance, permits, identity, fencedBy, synced, ghosts>>

(* Every ancestor of the new directory is synced. *)
SyncAncestors(s) ==
    /\ At(s, "made")
    /\ synced' = [synced EXCEPT !.disk = @ \cup {"directory"}]
    /\ Goto(s, "parent")
    /\ UNCHANGED <<closed, boot, now, proc, runtime, issuance, permits, disk, identity, fencedBy, ghosts>>

(* publish(): persist_noclobber, then the sync of the directory. *)
WriteRecord(s, point, record, next) ==
    /\ At(s, point)
    /\ disk' = disk \cup {record}
    /\ IF record \in disk THEN Abandon(s) ELSE Goto(s, next)
    /\ UNCHANGED <<closed, boot, now, proc, runtime, issuance, permits, fencedBy, synced, ghosts>>

SyncRecords(s, point, next) ==
    /\ At(s, point)
    /\ synced' = [synced EXCEPT !.disk = @ \cup (disk \ {"directory"})]
    /\ Goto(s, next)
    /\ UNCHANGED <<closed, boot, now, proc, runtime, issuance, permits, disk, identity, fencedBy, ghosts>>

(* ParentJournal::create, bind_owner and bind_process. *)
CreateJournal(s) ==
    \/ MakeDirectory(s) \/ SyncAncestors(s)
    \/ WriteRecord(s, "parent", "parent", "parentSync") /\ UNCHANGED identity
    \/ SyncRecords(s, "parentSync", "owner")

BindOwner(s) ==
    \/ WriteRecord(s, "owner", "owner", "ownerSync") /\ UNCHANGED identity
    \/ SyncRecords(s, "ownerSync", "process")

BindProcess(s) ==
    \/ /\ WriteRecord(s, "process", "process", "processSync")
       /\ identity' = [boot |-> boot, slot |-> s, start |-> proc[s]]
    \/ SyncRecords(s, "processSync", "claimed")

(* launch_claimed authorizes once more and forks the parent. *)
Launch(s) ==
    /\ At(s, "claimed")
    /\ IF Valid(job[s].permit)
       THEN /\ runtime' = [runtime EXCEPT ![s] = TRUE]
            /\ launches' = launches + 1
            /\ Goto(s, "running")
       ELSE /\ UNCHANGED <<runtime, launches>>
            /\ Abandon(s)
    /\ UNCHANGED <<closed, boot, now, proc, store, handed, fenced, confirmed, cleanup>>

(* Planted fault: a parent that failed to start gives its tombstone back. *)
RuntimeEndsMutant(s) ==
    /\ At(s, "running")
    /\ runtime' = [runtime EXCEPT ![s] = FALSE]
    /\ disk' = {} /\ synced' = [synced EXCEPT !.disk = {}]
    /\ Abandon(s)
    /\ UNCHANGED <<closed, boot, now, proc, issuance, permits, identity, fencedBy, ghosts>>

(* The parent's startup fails, or the parent is stopped later on: "Never    *)
(* remove the tombstone after a failed launch".                             *)
RuntimeEnds(s) ==
    /\ At(s, "running")
    /\ runtime' = [runtime EXCEPT ![s] = FALSE]
    /\ Abandon(s)
    /\ UNCHANGED <<closed, boot, now, proc, store, ghosts>>

-----------------------------------------------------------------------------
(* fence_uncreated *)

(* Its caller's precondition, from the admission journal: the run's start   *)
(* was refused and its operation fenced, so no permit is issued from now on. *)
CloseAdmission ==
    /\ ~closed
    /\ closed' = TRUE
    /\ UNCHANGED <<boot, now, proc, job, runtime, store, ghosts>>

(* Planted fault: a directory without an owner counts as never created. *)
FenceUncreatedMutant(s, q) ==
    /\ At(s, "idle") /\ closed
    /\ disk' = disk \cup {"directory"}
    /\ IF "directory" \notin disk
       THEN /\ job' = [job EXCEPT ![s] = [at |-> "fencing", permit |-> q]]
            /\ fenced' = fenced
       ELSE /\ job' = job
            /\ fenced' = (fenced \/ "owner" \notin disk \/ ("fence" \in disk /\ fencedBy = q))
    /\ UNCHANGED <<closed, boot, now, proc, runtime, issuance, permits, identity, fencedBy, synced,
                   handed, launches, confirmed, cleanup>>

(* create_dir wins the name, or finds what is there and answers from it. *)
FenceUncreated(s, q) ==
    /\ At(s, "idle") /\ closed
    /\ disk' = disk \cup {"directory"}
    /\ IF "directory" \notin disk
       THEN /\ job' = [job EXCEPT ![s] = [at |-> "fencing", permit |-> q]]
            /\ fenced' = fenced
       ELSE /\ job' = job
            /\ fenced' = (fenced \/ ("fence" \in disk /\ fencedBy = q))
    /\ UNCHANGED <<closed, boot, now, proc, runtime, issuance, permits, identity, fencedBy, synced,
                   handed, launches, confirmed, cleanup>>

WriteFence(s) ==
    /\ At(s, "fencing")
    /\ disk' = disk \cup {"fence"}
    /\ fencedBy' = job[s].permit
    /\ Goto(s, "fenceSync")
    /\ UNCHANGED <<closed, boot, now, proc, runtime, issuance, permits, identity, synced, ghosts>>

SyncFence(s) == SyncRecords(s, "fenceSync", "fenceRoot")

(* The root directory is synced last, then the answer is true. *)
FenceAnswers(s) ==
    /\ At(s, "fenceRoot")
    /\ synced' = [synced EXCEPT !.disk = @ \cup {"directory"}]
    /\ fenced' = TRUE
    /\ Abandon(s)
    /\ UNCHANGED <<closed, boot, now, proc, runtime, issuance, permits, disk, identity, fencedBy,
                   handed, launches, confirmed, cleanup>>

-----------------------------------------------------------------------------
(* historical_teardown *)

(* The records a caller finds under a root: every claim is made under       *)
(* <root>/parent-journal.                                                   *)
RecordsUnder(root) == IF root = "parent-journal" THEN disk ELSE {}

(* historical_owner *)
HistoricalOwner(root, q) == {"parent", "owner"} \subseteq RecordsUnder(root) /\ q = Owner

(* Planted fault: the pid namespace is not compared. *)
OwnerExitedMutant(s) ==
    /\ identity.boot = boot
    /\ \E t \in Slots : t.pid = identity.slot.pid /\ t.ns = s.ns
                           /\ proc[t] # identity.start

(* The recorded process, seen from process s: same boot and pid namespace,  *)
(* and its pid is free or belongs to a later process.                       *)
OwnerExited(s) ==
    /\ identity.boot = boot
    /\ identity.slot.ns = s.ns
    /\ proc[identity.slot] # identity.start

HistoricalTeardown(root, s, q) ==
    /\ HistoricalOwner(root, q)
    /\ "process" \in RecordsUnder(root)
    /\ OwnerExited(s)

(* The parent stop route of dispatch_parents.rs, in a process whose         *)
(* registry does not hold the incarnation.                                  *)
StopRoute(s, q) ==
    /\ At(s, "idle")
    /\ confirmed' = (confirmed \/ HistoricalTeardown("parent-journal", s, q))
    /\ UNCHANGED <<closed, boot, now, proc, job, runtime, store, handed, launches, fenced, cleanup>>

(* The scoped cleanup route of dispatch_scoped.rs, in a process that is not *)
(* the admission's owner.  It passes the dispatcher's own root.             *)
ScopedCleanup(s) ==
    /\ At(s, "idle")
    /\ identity # None => <<boot, s, proc[s]>> # <<identity.boot, identity.slot, identity.start>>
    /\ LET historical == HistoricalTeardown("root", s, Owner) IN
       /\ confirmed' = (confirmed \/ historical)
       /\ cleanup' = [answer |-> IF historical THEN "confirmed" ELSE "uncertain",
                      gone |-> HistoricalTeardown("parent-journal", s, Owner)]
    /\ UNCHANGED <<closed, boot, now, proc, job, runtime, store, handed, launches, fenced>>

-----------------------------------------------------------------------------
(* The host. *)

ProcessStarts(s) ==
    /\ proc[s] = 0
    /\ proc' = [proc EXCEPT ![s] = now + 1]
    /\ UNCHANGED <<closed, boot, now, job, runtime, store, ghosts>>

(* A process exits or is killed at any point; its cells die with it. *)
ProcessEnds(s) ==
    /\ proc[s] # 0
    /\ proc' = [proc EXCEPT ![s] = 0]
    /\ runtime' = [runtime EXCEPT ![s] = FALSE]
    /\ Abandon(s)
    /\ UNCHANGED <<closed, boot, now, store, ghosts>>

Tick ==
    /\ now < MaxTime
    /\ now' = now + 1
    /\ UNCHANGED <<closed, boot, proc, job, runtime, store, ghosts>>

(* A new boot keeps what was synced and any part of the rest; a directory   *)
(* whose name is lost takes its records along.                              *)
PowerLoss ==
    /\ boot < MaxBoots
    /\ boot' = boot + 1 /\ now' = 0
    /\ proc' = [s \in Slots |-> 0]
    /\ job' = [s \in Slots |-> Idle]
    /\ runtime' = [s \in Slots |-> FALSE]
    /\ issuance' \in {issuance} \cup (IF synced.issuance THEN {} ELSE {None})
    /\ \E more \in SUBSET (permits \ synced.permits) : permits' = synced.permits \cup more
    /\ \E more \in SUBSET (disk \ synced.disk) :
         LET kept == synced.disk \cup more IN
         disk' = IF "directory" \in kept THEN kept ELSE {}
    /\ synced' = [issuance |-> issuance' # None, permits |-> permits', disk |-> disk']
    /\ identity' = IF "process" \in disk' THEN identity ELSE None
    /\ fencedBy' = IF "fence" \in disk' THEN fencedBy ELSE None
    /\ UNCHANGED <<closed, ghosts>>

-----------------------------------------------------------------------------
PermitStep(s) == IssueForRun(s) \/ ReadIssuance(s) \/ PublishPermit(s) \/ SyncPermit(s)

ClaimStep(s) ==
    \/ \E p \in handed : Authorize(s, p)
    \/ CreateJournal(s) \/ BindOwner(s) \/ BindProcess(s)
    \/ Launch(s) \/ RuntimeEnds(s)

FenceStep(s) ==
    \/ \E q \in Subjects : FenceUncreated(s, q)
    \/ WriteFence(s) \/ SyncFence(s) \/ FenceAnswers(s)

RouteStep(s) == (\E q \in Subjects : StopRoute(s, q)) \/ ScopedCleanup(s)

ClaimNext ==
    \/ \E s \in Slots : PermitStep(s) \/ ClaimStep(s) \/ FenceStep(s) \/ RouteStep(s)
                        \/ ProcessStarts(s) \/ ProcessEnds(s)
    \/ CloseAdmission \/ Tick \/ PowerLoss

ClaimSpec == ClaimInit /\ [][ClaimNext]_claimVars

-----------------------------------------------------------------------------
(* Properties. *)

(* An incarnation's parent is launched at most once, whichever processes    *)
(* race for it, fail, restart or lose power: the tombstone is never given   *)
(* back (parent_permit.rs claim).  "This proves no parent launch"           *)
(* (fence_uncreated): once a fence has answered true it was not and will    *)
(* not be launched, even when the answer came from a record that a power    *)
(* loss then dropped, because no permit outlives its boot.                  *)
LaunchedOnce == launches =< IF fenced THEN 0 ELSE 1

(* A confirmed teardown is true: nobody runs the parent then or later,      *)
(* through pid reuse, other pid namespaces and reboots.                     *)
TeardownTruthful == confirmed => \A s \in Slots : ~runtime[s]

(* The answer the scoped cleanup of dispatch_scoped.rs is written to give:  *)
(* when the original process has exited in the same boot and namespace, its *)
(* teardown is confirmed.                                                   *)
CleanupConfirmsExit == cleanup.gone => cleanup.answer = "confirmed"
==============================================================================
