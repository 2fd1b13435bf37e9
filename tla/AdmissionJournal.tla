--------------------------- MODULE AdmissionJournal ---------------------------
(***************************************************************************)
(* The admission ownership journal of the scoped receiver                  *)
(* (celln-cli/src/tenancy_admission.rs) with the three handlers of         *)
(* dispatch_scoped.rs that reach it: prepare enrols an operation under the *)
(* identity of the journal instance that is open, start claims it, cleanup *)
(* fences it.  One run is modelled: its root scope and its turns.  An      *)
(* operation id and its scope are both digests of the run and the turn, so *)
(* a scope also names the enrolment and the status file of its operation.  *)
(* Decisions are not told apart: another decision for an enrolled id is a  *)
(* conflict, and a lost enrolment is only made again by another owner.     *)
(*                                                                         *)
(* A record is a file replaced by rename; the rename is visible at once    *)
(* and survives a power loss only once the directory has been synced.  So  *)
(* `records` is what load() sees, and `maybe` holds, for each scope, the   *)
(* versions a power loss may leave behind.  flock makes a journal call     *)
(* exclusive among processes: `call` is the call that holds the lock, and  *)
(* what can interleave with it are crashes, failed syncs and power loss.   *)
(***************************************************************************)
EXTENDS Naturals, FiniteSets

CONSTANTS Root,       \* the run's own scope
          Turns,      \* the scopes of its follow-up turns
          MaxTurns,   \* budget.maxTurns
          Capacity,   \* the journal's record capacity
          MaxOpens    \* bound: how often a process opens the journal

ASSUME AdmissionAssumption ==
    /\ Root \notin Turns
    /\ MaxTurns \in Nat \ {0}
    /\ Capacity \in Nat \ {0}
    /\ MaxOpens \in Nat

VARIABLES opened,    \* journal instances opened so far: 1..opened are owners
          live,      \* the owners whose process still runs
          enrolment, \* scope -> the owner it was enrolled under, 0 if none
          soft,      \* enrolments whose directory entry was never synced
          records,   \* scope -> the visible record
          maybe,     \* scope -> the versions a power loss may leave
          call,      \* the journal call holding the lock
          handles,   \* the Fresh handles not yet consumed by finish
          told,      \* scopes with a "never started" status in the status directory
          firm,      \* those whose status survives a power loss
          reported,  \* the "never started" answers given (history)
          grants,    \* scope -> Fresh handles ever returned (history)
          sealed     \* scopes whose record was fenced at a sync (history)

statusVars == <<told, firm, reported>>
admissionVars == <<opened, live, enrolment, soft, records, maybe, call, handles,
          statusVars, grants, sealed>>

Scopes   == Turns \cup {Root}
Owners   == 1 .. MaxOpens
Outcomes == {"none", "receipt", "refused", "neverStarted"}

\* Root as the active turn stands for None, owner 0 for a file that is absent.
Record == [owner : Owners, outcome : Outcomes, fenced : BOOLEAN,
           accepted : 0 .. MaxTurns, active : Scopes]
Absent == [owner |-> 0]

Kinds  == {"claimParent", "claimChild", "finish", "fence", "never"}
Call    == [owner : Owners, kind : Kinds, scope : Scopes]
NoCall  == [owner |-> 0]
Handle == [owner : Owners, scope : Scopes]
Report == [scope : Scopes, owner : Owners]

Exists(s) == records[s] # Absent
Unlocked  == call = NoCall

AdmissionInit ==
    /\ opened = 0
    /\ live = {}
    /\ enrolment = [s \in Scopes |-> 0]
    /\ soft = {}
    /\ records = [s \in Scopes |-> Absent]
    /\ maybe = [s \in Scopes |-> {Absent}]
    /\ call = NoCall
    /\ handles = {}
    /\ told = {}
    /\ firm = {}
    /\ reported = {}
    /\ grants = [s \in Scopes |-> 0]
    /\ sealed = {}

-----------------------------------------------------------------------------
(* publish(): the rename, and the directory sync that follows it.           *)

\* The rename of publish: visible at once, durable only after Synced.
Rename(s, rec) ==
    /\ records' = [records EXCEPT ![s] = rec]
    /\ maybe' = [maybe EXCEPT ![s] = @ \cup {rec}]

\* directory.sync_all() succeeded: what is visible is all there can be.
Synced ==
    /\ maybe' = [s \in Scopes |-> {records[s]}]
    /\ sealed' = sealed \cup {s \in Scopes : Exists(s) /\ records[s].fenced}

\* Journal::open syncs the directory and draws a fresh owner identity.
Open ==
    /\ opened < MaxOpens
    /\ opened' = opened + 1
    /\ live' = live \cup {opened + 1}
    /\ Synced
    /\ UNCHANGED <<enrolment, soft, records, call, handles, statusVars, grants>>

\* enroll_prepared: the first enrolment fixes the owner; write_new may make
\* the file visible and then fail to sync its directory, and a repeated
\* prepare finds the file and answers from it without another sync.
EnrollPrepared(p, s) ==
    /\ p \in live
    /\ enrolment[s] = 0
    /\ enrolment' = [enrolment EXCEPT ![s] = p]
    /\ soft' \in {soft, soft \cup {s}}
    /\ UNCHANGED <<opened, live, records, maybe, call, handles, statusVars, grants,
                   sealed>>

-----------------------------------------------------------------------------
(* claim().                                                                 *)

Candidate(p, s) ==
    [owner |-> p, outcome |-> "none", fenced |-> FALSE,
     accepted |-> IF s = Root THEN 1 ELSE 0, active |-> Root]

(* Planted fault: start does not look for a stored status. *)
MayClaimAnyway(p, s) ==
    /\ p \in live
    /\ enrolment[s] = p

\* start pins the enrolled owner and answers a persisted status as it is.
MayClaim(p, s) ==
    /\ p \in live
    /\ enrolment[s] = p
    /\ s \notin told

(* Planted fault: a turn of a run that was cleaned up is still accepted. *)
ParentAcceptsFenced(p) ==
    /\ Exists(Root)
    /\ records[Root].owner = p
    /\ records[Root].outcome # "refused"

\* The run's record still belongs to this instance and accepts turns.
ParentAccepts(p) ==
    /\ Exists(Root)
    /\ ~records[Root].fenced
    /\ records[Root].owner = p
    /\ records[Root].outcome # "refused"

\* The operation before this one, the start or the active turn, is finished.
PriorFinished(p) ==
    /\ records[Root].outcome # "none"
    /\ LET active == records[Root].active
       IN  active # Root => /\ Exists(active)
                            /\ records[active].owner = p
                            /\ records[active].outcome # "none"

\* The entries counted by read_dir leave room for one more.
HasRoom == Cardinality({s \in Scopes : Exists(s)}) < Capacity

ClaimRoot(p) ==
    /\ Unlocked
    /\ MayClaim(p, Root)
    /\ ~Exists(Root)
    /\ HasRoom
    /\ Rename(Root, Candidate(p, Root))
    /\ call' = [owner |-> p, kind |-> "claimChild", scope |-> Root]
    /\ UNCHANGED <<opened, live, enrolment, soft, handles, statusVars, grants, sealed>>

\* The parent names the turn, and pays for it, before the turn is published.
ClaimTurn(p, t) ==
    /\ Unlocked
    /\ MayClaim(p, t)
    /\ ParentAccepts(p)
    /\ ~Exists(t)
    /\ PriorFinished(p)
    /\ records[Root].accepted + 1 <= MaxTurns
    /\ HasRoom
    /\ Rename(Root, [records[Root] EXCEPT !.accepted = @ + 1,
                                          !.active = t])
    /\ call' = [owner |-> p, kind |-> "claimParent", scope |-> t]
    /\ UNCHANGED <<opened, live, enrolment, soft, handles, statusVars, grants, sealed>>

\* The parent reached the disk; the turn's record is renamed into place.
ParentSynced ==
    /\ call # NoCall
    /\ call.kind = "claimParent"
    /\ LET s     == call.scope
           child == Candidate(call.owner, s)
       IN  /\ records' = [records EXCEPT ![s] = child]
           /\ maybe' = [t \in Scopes |-> {records[t]} \cup
                                         IF t = s THEN {child} ELSE {}]
    /\ sealed' = sealed \cup {s \in Scopes : Exists(s) /\ records[s].fenced}
    /\ call' = [call EXCEPT !.kind = "claimChild"]
    /\ UNCHANGED <<opened, live, enrolment, soft, handles, statusVars, grants>>

\* The record reached the disk: claim returns the one Fresh handle.
ChildSynced ==
    /\ call # NoCall
    /\ call.kind = "claimChild"
    /\ Synced
    /\ grants' = [grants EXCEPT ![call.scope] = @ + 1]
    /\ handles' = handles \cup {[owner |-> call.owner, scope |-> call.scope]}
    /\ call' = NoCall
    /\ UNCHANGED <<opened, live, enrolment, soft, records, statusVars>>

-----------------------------------------------------------------------------
(* finish(): called at most once for a handle, its error ignored.  When the *)
(* worker panicked, its status could not be stored, teardown was not        *)
(* confirmed or the lock timed out, the handle is never consumed.           *)

Finish(h, outcome) ==
    /\ Unlocked
    /\ Exists(h.scope)
    /\ LET current == records[h.scope]
       IN  /\ current.owner = h.owner
           /\ current.outcome = "none"
           /\ Rename(h.scope, [current EXCEPT !.outcome = outcome])
    /\ handles' = handles \ {h}
    /\ call' = [owner |-> h.owner, kind |-> "finish", scope |-> h.scope]
    /\ UNCHANGED <<opened, live, enrolment, soft, statusVars, grants, sealed>>

-----------------------------------------------------------------------------
(* access() for execution.cleanup.  A read changes nothing.                 *)

NeverStarted(s) ==
    [owner |-> enrolment[s], outcome |-> "neverStarted", fenced |-> TRUE,
     accepted |-> 0, active |-> Root]

\* A parent that names a turn with no record: an interrupted publication.
Interrupted(t) ==
    /\ Exists(Root)
    /\ t # Root
    /\ records[Root].active = t
    /\ ~Exists(t)

\* No record, and none half published: the absence becomes a fenced record.
CleanupMissing(p, s) ==
    /\ Unlocked
    /\ p \in live
    /\ enrolment[s] # 0
    /\ ~Exists(s)
    /\ ~Interrupted(s)
    /\ Rename(s, NeverStarted(s))
    /\ call' = [owner |-> p, kind |-> "never", scope |-> s]
    /\ UNCHANGED <<opened, live, enrolment, soft, handles, statusVars, grants, sealed>>

\* The record is the one of this enrolment.
Matches(s) ==
    /\ Exists(s)
    /\ records[s].owner = enrolment[s]

CleanupFence(p, s) ==
    /\ Unlocked
    /\ p \in live
    /\ enrolment[s] # 0
    /\ Matches(s)
    /\ ~records[s].fenced
    /\ Rename(s, [records[s] EXCEPT !.fenced = TRUE])
    /\ call' = [owner |-> p, kind |-> "fence", scope |-> s]
    /\ UNCHANGED <<opened, live, enrolment, soft, handles, statusVars, grants, sealed>>

\* persist_status of a NeverStarted outcome: nothing is stored; or the status
\* is renamed into place and the directory sync fails, both answered with 503;
\* or the sync settles the whole directory, and AnswerStored follows.
PersistNever(s) ==
    \/ UNCHANGED <<told, firm>>
    \/ told' = told \cup {s} /\ firm' \in {firm, told'}

\* A record already fenced is answered as it is, without another sync; the
\* status of a NeverStarted one is persisted again.
CleanupAgain(p, s) ==
    /\ Unlocked
    /\ p \in live
    /\ enrolment[s] # 0
    /\ Matches(s)
    /\ records[s].outcome = "neverStarted"
    /\ PersistNever(s)
    /\ UNCHANGED <<opened, live, enrolment, soft, records, maybe, call, handles,
                   reported, grants, sealed>>

\* A stored status is answered as it is, synced or not: by a start of the
\* enrolled owner, and by a read or a cleanup that finds no record or the
\* record of this enrolment.
AnswerStored(p, s) ==
    /\ p \in live
    /\ enrolment[s] # 0
    /\ s \in told
    /\ enrolment[s] = p \/ (Unlocked /\ (~Exists(s) \/ Matches(s)))
    /\ reported' = reported \cup {[scope |-> s, owner |-> enrolment[s]]}
    /\ UNCHANGED <<opened, live, enrolment, soft, records, maybe, call, handles,
                   told, firm, grants, sealed>>

-----------------------------------------------------------------------------
\* finish, or a cleanup that published, ends with its directory synced; the
\* status of a NeverStarted answer is persisted after it.
CallSynced ==
    /\ call # NoCall
    /\ call.kind \in {"finish", "fence", "never"}
    /\ Synced
    /\ call' = NoCall
    /\ IF call.kind = "never" THEN PersistNever(call.scope) ELSE UNCHANGED <<told, firm>>
    /\ UNCHANGED <<opened, live, enrolment, soft, records, handles, reported, grants>>

\* A write or the sync failed: Unavailable, the lock released, the renames
\* already made left visible.
CallFails ==
    /\ call # NoCall
    /\ call' = NoCall
    /\ UNCHANGED <<opened, live, enrolment, soft, records, maybe, handles, statusVars,
                   grants, sealed>>

\* A process dies: its lock and its handles go with it, the files stay.
Crash(p) ==
    /\ p \in live
    /\ live' = live \ {p}
    /\ call' = IF call.owner = p THEN NoCall ELSE call
    /\ handles' = {h \in handles : h.owner # p}
    /\ UNCHANGED <<opened, enrolment, soft, records, maybe, statusVars, grants, sealed>>

\* The machine loses power: of every scope one possible version is left, and
\* of the enrolments and statuses never synced any or none.
JournalLost ==
    /\ live # {}
    /\ live' = {}
    /\ call' = NoCall
    /\ handles' = {}
    /\ records' \in {f \in [Scopes -> UNION {maybe[s] : s \in Scopes}] :
                        \A s \in Scopes : f[s] \in maybe[s]}
    /\ maybe' = [s \in Scopes |-> {records'[s]}]
    /\ \E gone \in SUBSET soft :
          enrolment' = [s \in Scopes |-> IF s \in gone THEN 0 ELSE enrolment[s]]
    /\ soft' = {}
    /\ told' \in {t \in SUBSET told : firm \subseteq t}
    /\ firm' = told'
    /\ UNCHANGED <<opened, reported, grants, sealed>>

AdmissionNext ==
    \/ Open
    \/ \E p \in Owners, s \in Scopes : EnrollPrepared(p, s)
    \/ \E p \in Owners : ClaimRoot(p)
    \/ \E p \in Owners, t \in Turns : ClaimTurn(p, t)
    \/ ParentSynced
    \/ ChildSynced
    \/ \E h \in handles, o \in {"receipt", "refused"} : Finish(h, o)
    \/ \E p \in Owners, s \in Scopes : CleanupMissing(p, s)
    \/ \E p \in Owners, s \in Scopes : CleanupFence(p, s)
    \/ \E p \in Owners, s \in Scopes : CleanupAgain(p, s)
    \/ \E p \in Owners, s \in Scopes : AnswerStored(p, s)
    \/ CallSynced
    \/ CallFails
    \/ \E p \in Owners : Crash(p)
    \/ JournalLost

AdmissionSpec == AdmissionInit /\ [][AdmissionNext]_admissionVars

-----------------------------------------------------------------------------
(* Properties.                                                              *)

\* Every variable has its type, and the visible record is always one of the
\* versions a power loss may leave.
AdmissionTypeOK ==
    /\ opened \in 0 .. MaxOpens
    /\ live \subseteq 1 .. opened
    /\ enrolment \in [Scopes -> 0 .. opened]
    /\ soft \subseteq Scopes
    /\ records \in [Scopes -> Record \cup {Absent}]
    /\ maybe \in [Scopes -> SUBSET (Record \cup {Absent})]
    /\ \A s \in Scopes : records[s] \in maybe[s]
    /\ call \in Call \cup {NoCall}
    /\ handles \subseteq Handle
    /\ told \subseteq Scopes
    /\ firm \subseteq told
    /\ reported \subseteq Report
    /\ grants \in [Scopes -> Nat]
    /\ sealed \subseteq Scopes

Contract == INSTANCE AdmissionContract

\* The journal implements its contract: whatever crashes, failed syncs and
\* power losses happen between the renames of claim, access and finish, a
\* scope is granted once, within the turn budget, and not after its fence
\* (or, for a turn, the run's fence) reached the disk.
ImplementsContract == Contract!Spec

\* "never started; permanently fenced": an operation reported so had not been
\* granted and is not granted later, as long as the status it was answered
\* from or the enrolment it was about is on the disk: neither when the report
\* was answered from a record that a power loss took away, nor when it was
\* answered from a status that was never synced.
PermanentlyFenced ==
    \A r \in reported : r.scope \in told \/ enrolment[r.scope] = r.owner => grants[r.scope] = 0

\* Outcome::NeverStarted "proves that claim never returned a Fresh handle",
\* and the answer says "permanently fenced": an operation reported so is never
\* granted, whatever a power loss takes away.
NeverStartedStands == \A r \in reported : grants[r.scope] = 0

=============================================================================
