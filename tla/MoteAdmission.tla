---------------------------- MODULE MoteAdmission ----------------------------
(***************************************************************************)
(* How a declared substrate (a mote) comes to be trusted on a host: signed *)
(* closures are composed (celln-manifest composition.rs, celln-cli         *)
(* composition_cli.rs), the result is prepared, its members checked in a   *)
(* sealed cell, and an administrator admits exactly it (mote_prepare.rs,   *)
(* mote_check.rs, mote_admit.rs).  Every step is a process of its own over *)
(* files that the operator edits meanwhile: the closure policy, the local  *)
(* manifest and the list of trusted motes.                                 *)
(*                                                                         *)
(* A plan is a sequence of sources, and names both the closure composed    *)
(* from them and the mote prepared from that closure.                      *)
(***************************************************************************)
EXTENDS Naturals, FiniteSets, Sequences, SequencesExt, Functions

CONSTANTS
    Source,          \* the signed v1 closures: publisher, fs, entry, files
    Plans,           \* plans a composer is asked for
    Composer,        \* the publisher that signs compositions
    ClosurePolicies, \* what the operator writes in trusted-closures.json
    LocalManifests,  \* what is revoked by the local manifest
    Admins           \* administrators' processes

(* A closure has its entry among its files, each with a hash and needs. *)
ASSUME SourceAssumption ==
    /\ Plans \subseteq Seq(DOMAIN Source)
    /\ \A s \in DOMAIN Source :
          /\ Source[s].entry \in DOMAIN Source[s].files
          /\ \A p \in DOMAIN Source[s].files :
                Source[s].files[p] = [hash |-> Source[s].files[p].hash, needs |-> Source[s].files[p].needs]

VARIABLES
    closurePolicy,   \* trusted-closures.json: publishers, revoked hashes and closures
    localRevoked,    \* assay/manifest.json: revoked hashes
    trustedMotes,    \* trusted-motes.json
    trustSynced,     \* what of it a power loss keeps
    built,           \* candidates with their signed descriptor
    objects,         \* how far the objects of each mote are published
    evidence,        \* mote-admission-evidence
    admin,           \* what each administrator's process is doing
    admissionLock,   \* the process holding mote-admission.lock
    sealedChecked,   \* history: motes whose members a sealed cell verified
    acked            \* history: admissions reported and not withdrawn since

moteVars == <<closurePolicy, localRevoked, trustedMotes, trustSynced, built, objects, evidence,
              admin, admissionLock, sealedChecked, acked>>

-----------------------------------------------------------------------------
(* compose. *)

Sources(plan) == [i \in DOMAIN plan |-> Source[plan[i]]]
PathsOf(plan) == UNION {DOMAIN Sources(plan)[i].files : i \in DOMAIN plan}
EntryPath(plan) == Sources(plan)[1].entry

(* Mutant: the first source that has a file provides it. *)
AgreeAnyhow(plan) == TRUE

(* A file of several sources has the same bytes and dependencies in each. *)
Agree(plan) ==
    \A i, j \in DOMAIN plan :
        LET a == Sources(plan)[i].files
            b == Sources(plan)[j].files
        IN  \A p \in DOMAIN a \cap DOMAIN b : a[p] = b[p]

Composable(plan) ==
    /\ plan # <<>> /\ IsInjective(plan)
    /\ IsInjective([i \in DOMAIN plan |-> Sources(plan)[i].entry])
    /\ \A i, j \in DOMAIN plan : i # j => Sources(plan)[j].entry \notin DOMAIN Sources(plan)[i].files
    /\ Agree(plan)
    /\ \A p, q \in PathsOf(plan) : ~IsStrictPrefix(p, q)

(* The runtime depends on every selected tool. *)
Compose(plan) ==
    LET provider(p) == CHOOSE i \in DOMAIN plan : p \in DOMAIN Sources(plan)[i].files
        memberAt(p) == Sources(plan)[provider(p)].files[p]
        tools == {Sources(plan)[i].entry : i \in DOMAIN plan \ {1}}
    IN  [p \in PathsOf(plan) |->
            IF p = EntryPath(plan) THEN [memberAt(p) EXCEPT !.needs = @ \cup tools] ELSE memberAt(p)]

(* Closure::validate: every member is reached from the entrypoint. *)
Reached(members, entry) ==
    LET reach[n \in 0..Cardinality(DOMAIN members)] ==
            IF n = 0 THEN {entry}
            ELSE reach[n - 1] \cup UNION {members[p].needs : p \in reach[n - 1]}
    IN  reach[Cardinality(DOMAIN members)]
ValidPlans ==
    {plan \in Plans :
        /\ Composable(plan)
        /\ \A p \in PathsOf(plan) : Compose(plan)[p].needs \subseteq PathsOf(plan)
        /\ Reached(Compose(plan), EntryPath(plan)) = PathsOf(plan)}
Hashes == [plan \in ValidPlans |-> {Compose(plan)[p].hash : p \in PathsOf(plan)}]

(* Mutant: only the composer's own key and the composed files are looked at. *)
VerifyIgnoringSources(plan) ==
    /\ plan \in ValidPlans /\ Composer \in closurePolicy.publishers
    /\ plan \notin closurePolicy.closures
    /\ Hashes[plan] \cap closurePolicy.revoked = {}

(* closure_policy::verify: composer and sources are all published by        *)
(* trusted keys; neither the closure, its files, its sources nor their      *)
(* filesystems are revoked.                                                 *)
VerifyClosure(plan) ==
    /\ plan \in ValidPlans
    /\ Composer \in closurePolicy.publishers /\ plan \notin closurePolicy.closures
    /\ \A i \in DOMAIN plan :
          /\ Sources(plan)[i].publisher \in closurePolicy.publishers
          /\ {plan[i], Sources(plan)[i].fs} \cap closurePolicy.revoked = {}
    /\ Hashes[plan] \cap closurePolicy.revoked = {}

-----------------------------------------------------------------------------
Away == [at |-> "away"]
Step(a, point) == admin' = [admin EXCEPT ![a].at = point]

MotesInit ==
    /\ closurePolicy \in ClosurePolicies /\ localRevoked = {}
    /\ trustedMotes = {} /\ trustSynced = {}
    /\ built = {} /\ objects = [m \in Plans |-> "absent"] /\ evidence = {}
    /\ admin = [a \in Admins |-> Away] /\ admissionLock = {}
    /\ sealedChecked = {} /\ acked = {}

(* A build, an admission and a withdrawal, each at one of its steps. *)
Manifested == LocalManifests \cup {{}}
Build == [at : {"image"}, mote : Plans, policy : ClosurePolicies]
Admission ==
    [at : {"prepared", "staged", "checked", "published", "synced", "recorded", "committing", "renamed"},
     mote : Plans, policy : ClosurePolicies, manifest : Manifested,
     list : SUBSET Plans, next : SUBSET Plans]
Withdrawal == [at : {"withdrawing", "committing", "renamed"}, list : SUBSET Plans, next : SUBSET Plans]

MotesTypeOK ==
    /\ closurePolicy \in ClosurePolicies
    /\ localRevoked \in Manifested
    /\ trustedMotes \subseteq Plans
    /\ trustSynced \subseteq Plans
    /\ built \subseteq Plans
    /\ objects \in [Plans -> {"absent", "visible", "durable"}]
    /\ evidence \subseteq Plans
    /\ admin \in [Admins -> {Away} \cup Build \cup Admission \cup Withdrawal]
    /\ admissionLock \subseteq Admins
    /\ sealedChecked \subseteq Plans
    /\ acked \subseteq Plans

(* build: the sources are verified under one policy and composed, and the   *)
(* composer may sign; then the image is made, and the descriptor signed and *)
(* verified under the same policy before it is put beside the image.        *)
BeginBuild(a) ==
    /\ admin[a] = Away
    /\ \E plan \in Plans \ built :
          /\ VerifyClosure(plan)
          /\ admin' = [admin EXCEPT ![a] = [at |-> "image", mote |-> plan, policy |-> closurePolicy]]
    /\ UNCHANGED <<closurePolicy, localRevoked, trustedMotes, trustSynced, built, objects, evidence,
                   admissionLock, sealedChecked, acked>>

FinishBuild(a) ==
    /\ admin[a].at = "image" /\ VerifyClosure(admin[a].mote) /\ closurePolicy = admin[a].policy
    /\ built' = built \cup {admin[a].mote}
    /\ admin' = [admin EXCEPT ![a] = Away]
    /\ UNCHANGED <<closurePolicy, localRevoked, trustedMotes, trustSynced, objects, evidence,
                   admissionLock, sealedChecked, acked>>

(* admit: the lock, or busy; the list as it is; prepare, whose result must  *)
(* be the mote that was approved.                                           *)
BeginAdmit(a) ==
    /\ admin[a] = Away /\ admissionLock = {}
    /\ \E m \in built :
          /\ VerifyClosure(m)
          /\ admin' = [admin EXCEPT ![a] =
                [at |-> "prepared", mote |-> m, policy |-> closurePolicy, manifest |-> localRevoked,
                 list |-> trustedMotes, next |-> trustedMotes \cup {m}]]
    /\ admissionLock' = {a}
    /\ UNCHANGED <<closurePolicy, localRevoked, trustedMotes, trustSynced, built, objects, evidence,
                   sealedChecked, acked>>

(* check: prepared anew, the policy and the manifest copied into a stage,   *)
(* the members looked at there; a member that is revoked locally refuses.   *)
StageCheck(a) ==
    /\ admin[a].at = "prepared" /\ VerifyClosure(admin[a].mote) /\ closurePolicy = admin[a].policy
    /\ Hashes[admin[a].mote] \cap localRevoked = {}
    /\ admin' = [admin EXCEPT ![a].at = "staged", ![a].manifest = localRevoked]
    /\ UNCHANGED <<closurePolicy, localRevoked, trustedMotes, trustSynced, built, objects, evidence,
                   admissionLock, sealedChecked, acked>>

(* The sealed cell answered; policy and manifest must not have changed. *)
MembersChecked(a) ==
    /\ admin[a].at = "staged" /\ VerifyClosure(admin[a].mote)
    /\ closurePolicy = admin[a].policy /\ localRevoked = admin[a].manifest
    /\ sealedChecked' = sealedChecked \cup {admin[a].mote}
    /\ Step(a, "checked")
    /\ UNCHANGED <<closurePolicy, localRevoked, trustedMotes, trustSynced, built, objects, evidence,
                   admissionLock, acked>>

(* publish: the objects are persisted without clobbering, read back, and    *)
(* synced with every directory above them.                                  *)
PublishObjects(a) ==
    /\ admin[a].at = "checked" /\ Step(a, "published")
    /\ objects' = [objects EXCEPT ![admin[a].mote] = IF @ = "absent" THEN "visible" ELSE @]
    /\ UNCHANGED <<closurePolicy, localRevoked, trustedMotes, trustSynced, built, evidence,
                   admissionLock, sealedChecked, acked>>

(* Mutant: an object that is there is taken for a durable one. *)
SyncObjectsSkipped(a) ==
    /\ admin[a].at = "published" /\ VerifyClosure(admin[a].mote) /\ closurePolicy = admin[a].policy
    /\ Step(a, "synced") /\ UNCHANGED objects
    /\ UNCHANGED <<closurePolicy, localRevoked, trustedMotes, trustSynced, built, evidence,
                   admissionLock, sealedChecked, acked>>

(* ... and the closure is verified once more. *)
SyncObjects(a) ==
    /\ admin[a].at = "published" /\ VerifyClosure(admin[a].mote) /\ closurePolicy = admin[a].policy
    /\ Step(a, "synced") /\ objects' = [objects EXCEPT ![admin[a].mote] = "durable"]
    /\ UNCHANGED <<closurePolicy, localRevoked, trustedMotes, trustSynced, built, evidence,
                   admissionLock, sealedChecked, acked>>

(* The evidence precedes the authority. *)
RecordEvidence(a) ==
    /\ admin[a].at = "synced" /\ Step(a, "recorded")
    /\ evidence' = evidence \cup {admin[a].mote}
    /\ UNCHANGED <<closurePolicy, localRevoked, trustedMotes, trustSynced, built, objects,
                   admissionLock, sealedChecked, acked>>

(* withdraw: the same lock and the same commit, without the mote. *)
BeginWithdraw(a) ==
    /\ admin[a] = Away /\ admissionLock = {}
    /\ \E m \in trustedMotes :
          admin' = [admin EXCEPT ![a] =
              [at |-> "withdrawing", list |-> trustedMotes, next |-> trustedMotes \ {m}]]
    /\ admissionLock' = {a}
    /\ UNCHANGED <<closurePolicy, localRevoked, trustedMotes, trustSynced, built, objects, evidence,
                   sealedChecked, acked>>

(* The manifest is still the one that was checked, and commit_policy finds  *)
(* the list as it was read.                                                 *)
CommitCheck(a) ==
    /\ \/ admin[a].at = "recorded" /\ localRevoked = admin[a].manifest
       \/ admin[a].at = "withdrawing"
    /\ trustedMotes = admin[a].list
    /\ Step(a, "committing")
    /\ UNCHANGED <<closurePolicy, localRevoked, trustedMotes, trustSynced, built, objects, evidence,
                   admissionLock, sealedChecked, acked>>

(* atomic_file: a synced copy is renamed over the list ... *)
CommitRename(a) ==
    /\ admin[a].at = "committing" /\ Step(a, "renamed")
    /\ trustedMotes' = admin[a].next /\ acked' = acked \ (admin[a].list \ admin[a].next)
    /\ UNCHANGED <<closurePolicy, localRevoked, trustSynced, built, objects, evidence,
                   admissionLock, sealedChecked>>

(* ... and the directory synced. *)
CommitSync(a) ==
    /\ admin[a].at = "renamed"
    /\ trustSynced' = trustedMotes
    /\ acked' = acked \cup ((admin[a].next \ admin[a].list) \cap trustedMotes)
    /\ admin' = [admin EXCEPT ![a] = Away] /\ admissionLock' = {}
    /\ UNCHANGED <<closurePolicy, localRevoked, trustedMotes, built, objects, evidence, sealedChecked>>

(* A check failed, an operation failed, or the process was killed.  The     *)
(* lock goes with it and nothing is undone.                                 *)
AdminFails(a) ==
    /\ admin[a] # Away
    /\ admin' = [admin EXCEPT ![a] = Away] /\ admissionLock' = admissionLock \ {a}
    /\ UNCHANGED <<closurePolicy, localRevoked, trustedMotes, trustSynced, built, objects, evidence,
                   sealedChecked, acked>>

-----------------------------------------------------------------------------
(* The operator's own edits, which take no lock. *)

EditPolicy ==
    /\ closurePolicy' \in ClosurePolicies \ {closurePolicy}
    /\ UNCHANGED <<localRevoked, trustedMotes, trustSynced, built, objects, evidence, admin,
                   admissionLock, sealedChecked, acked>>

RevokeLocally ==
    /\ localRevoked' \in LocalManifests \ {localRevoked}
    /\ UNCHANGED <<closurePolicy, trustedMotes, trustSynced, built, objects, evidence, admin,
                   admissionLock, sealedChecked, acked>>

(* A mote is taken off the list by hand. *)
WithdrawMote ==
    /\ \E m \in trustedMotes :
          /\ trustedMotes' = trustedMotes \ {m} /\ acked' = acked \ {m}
          /\ trustSynced' = trustedMotes'
    /\ UNCHANGED <<closurePolicy, localRevoked, built, objects, evidence, admin, admissionLock,
                   sealedChecked>>

(* A power loss: what was not synced may be gone. *)
LosePower ==
    /\ trustedMotes' \in {trustedMotes, trustSynced} /\ trustSynced' = trustedMotes'
    /\ objects' \in {objects, [m \in Plans |-> IF objects[m] = "visible" THEN "absent" ELSE objects[m]]}
    /\ admin' = [a \in Admins |-> Away] /\ admissionLock' = {}
    /\ UNCHANGED <<closurePolicy, localRevoked, built, evidence, sealedChecked, acked>>

MotesNext ==
    \/ \E a \in Admins :
          \/ BeginBuild(a) \/ FinishBuild(a) \/ BeginAdmit(a) \/ BeginWithdraw(a) \/ StageCheck(a) \/ MembersChecked(a)
          \/ PublishObjects(a) \/ SyncObjects(a) \/ RecordEvidence(a)
          \/ CommitCheck(a) \/ CommitRename(a) \/ CommitSync(a) \/ AdminFails(a)
    \/ EditPolicy \/ RevokeLocally \/ WithdrawMote \/ LosePower

MotesSpec == MotesInit /\ [][MotesNext]_moteVars

-----------------------------------------------------------------------------
(* Closures that keep every file of every source as it was signed, and      *)
(* reach every program.                                                     *)
Faithful ==
    {m \in Plans : \A i \in DOMAIN m :
        /\ \A p \in DOMAIN Sources(m)[i].files :
              /\ Compose(m)[p].hash = Sources(m)[i].files[p].hash
              /\ Sources(m)[i].files[p].needs \subseteq Compose(m)[p].needs
        /\ Sources(m)[i].entry \in Reached(Compose(m), EntryPath(m))}

(* Every mote on the list of trusted ones has its objects on disk for good, *)
(* its evidence, and members that a sealed cell verified, and its closure   *)
(* keeps every file of every source as that source was signed, none of them *)
(* out of reach; an admission that was reported stays until the operator    *)
(* withdraws it, through other admissions, failures and power losses        *)
(* (mote_admit::admit, commit_policy, compose).                             *)
AuthorityBacked ==
    /\ acked \subseteq trustedMotes
    /\ \A m \in trustedMotes :
          /\ objects[m] = "durable" /\ m \in evidence /\ m \in sealedChecked
          /\ m \in Faithful
===============================================================================
