-------------------------- MODULE ParentClaimProofs --------------------------
(***************************************************************************)
(* Proofs about ParentClaim, for any processes, principals, admission      *)
(* window, and any number of boots.                                        *)
(*                                                                         *)
(* The argument is about who holds the tombstone directory.  Within a boot *)
(* its name is won once; a power loss gives it back only before any claim  *)
(* got past its first sync, that is, before a process record could exist   *)
(* or a parent could run.  A fence whose record the power loss dropped is  *)
(* made good by the boot binding of permits: admission is closed, so no    *)
(* permit of the new boot will ever exist.                                 *)
(***************************************************************************)
EXTENDS ParentClaim, TLAPS

(* The points of a claim, from the won directory on, and of a fence. *)
ClaimPoints == {"made", "parent", "parentSync", "owner", "ownerSync", "process",
                "processSync", "claimed", "running"}
FencePoints == {"fencing", "fenceSync", "fenceRoot"}
HolderPoints == ClaimPoints \cup FencePoints
Unbound == {"made", "parent", "parentSync", "owner", "ownerSync", "process"}
PermitPoints == {"issuing", "issued", "publishing", "authorized"}

(* Jobs belong to live processes; a permit reaches a caller only in the     *)
(* boot it was issued in.                                                   *)
Jobs ==
    /\ \A s \in Slots : proc[s] = 0 => job[s].at = "idle"
    /\ \A s \in Slots : job[s].at = "issuing" => issuance \in Permit
    /\ \A s \in Slots : job[s].at \in {"issued", "publishing"} => job[s].permit \in Permit
    /\ \A s \in Slots : job[s].at = "fencing" => job[s].permit \in Subjects
    /\ \A p \in handed : p.boot =< boot

(* The directory is won by one process, and once a claim is past its first  *)
(* sync no power loss takes it back.                                        *)
Holding ==
    /\ synced.disk \subseteq disk
    /\ disk # {} => "directory" \in disk
    /\ \A s, t \in Slots : job[s].at \in HolderPoints /\ job[t].at \in HolderPoints => s = t
    /\ \A s \in Slots : job[s].at \in HolderPoints => "directory" \in disk
    /\ \A s \in Slots : job[s].at \in ClaimPoints \ {"made"} => "directory" \in synced.disk

(* The process record names the process that holds the claim. *)
Binding ==
    /\ "process" \in disk => "directory" \in synced.disk /\ identity \in Identity
    /\ \A s \in Slots : job[s].at \in Unbound => "process" \notin disk
    /\ \A s \in Slots : job[s].at \in ClaimPoints \ Unbound =>
         "process" \in disk /\ identity = [boot |-> boot, slot |-> s, start |-> proc[s]]
    /\ \A s \in Slots : runtime[s] => job[s].at = "running"

(* A parent was launched by a claim whose directory stays. *)
Launching ==
    /\ launches \in {0, 1}
    /\ launches = 1 => "directory" \in synced.disk
    /\ \A s \in Slots : job[s].at \in HolderPoints \ {"running"} => launches = 0

(* No claim can be made any more: the directory is somebody else's, or no   *)
(* permit of this boot or a later one exists.                               *)
Held == "directory" \in disk /\ \A s \in Slots : job[s].at \notin ClaimPoints
Dead ==
    /\ \A p \in handed : p.boot < boot
    /\ \A s \in Slots : job[s].at \notin ClaimPoints \cup PermitPoints

(* A fence is written by the process that won the directory, after          *)
(* admission was closed; its answer outlives its record.                    *)
Fencing ==
    /\ \A s \in Slots : job[s].at \in FencePoints => closed
    /\ "fence" \in disk => closed /\ launches = 0 /\ Held
    /\ fenced => closed /\ launches = 0 /\ (Held \/ Dead)

(* After a confirmed teardown the claim is gone and stays taken. *)
Confirming == confirmed => "directory" \in synced.disk /\ Held

ClaimInv ==
    /\ ClaimTypeOK /\ Jobs /\ Holding /\ Binding /\ Launching /\ Fencing /\ Confirming

(* bind_process writes the record of the process that runs it. *)
WriteProcess(s) ==
    /\ WriteRecord(s, "process", "process", "processSync")
    /\ identity' = [boot |-> boot, slot |-> s, start |-> proc[s]]

(* The disjuncts of the next-state relation. *)
LEMMA ClaimCases ==
    ASSUME [ClaimNext]_claimVars
    PROVE  \/ \E s \in Slots : IssueForRun(s)
           \/ \E s \in Slots : ReadIssuance(s)
           \/ \E s \in Slots : PublishPermit(s)
           \/ \E s \in Slots : SyncPermit(s)
           \/ \E s \in Slots, p \in handed : Authorize(s, p)
           \/ \E s \in Slots : MakeDirectory(s)
           \/ \E s \in Slots : SyncAncestors(s)
           \/ \E s \in Slots : WriteRecord(s, "parent", "parent", "parentSync") /\ UNCHANGED identity
           \/ \E s \in Slots : WriteRecord(s, "owner", "owner", "ownerSync") /\ UNCHANGED identity
           \/ \E s \in Slots : WriteProcess(s)
           \/ \E s \in Slots : SyncRecords(s, "parentSync", "owner")
           \/ \E s \in Slots : SyncRecords(s, "ownerSync", "process")
           \/ \E s \in Slots : SyncRecords(s, "processSync", "claimed")
           \/ \E s \in Slots : SyncRecords(s, "fenceSync", "fenceRoot")
           \/ \E s \in Slots : Launch(s)
           \/ \E s \in Slots : RuntimeEnds(s)
           \/ \E s \in Slots, q \in Subjects : FenceUncreated(s, q)
           \/ \E s \in Slots : WriteFence(s)
           \/ \E s \in Slots : FenceAnswers(s)
           \/ \E s \in Slots, q \in Subjects : StopRoute(s, q)
           \/ \E s \in Slots : ScopedCleanup(s)
           \/ \E s \in Slots : ProcessStarts(s)
           \/ \E s \in Slots : ProcessEnds(s)
           \/ CloseAdmission
           \/ Tick
           \/ PowerLoss
           \/ UNCHANGED claimVars
  BY DEF ClaimNext, PermitStep, ClaimStep, FenceStep, RouteStep, CreateJournal, BindOwner,
         BindProcess, SyncFence, WriteProcess


(* What moving on and giving up do to the jobs. *)
LEMMA JobMoves ==
    ASSUME ClaimTypeOK, NEW s \in Slots
    PROVE  /\ DOMAIN job = Slots
           /\ Abandon(s) => /\ job'[s] = Idle
                            /\ \A t \in Slots : t # s => job'[t] = job[t]
           /\ \A point : Goto(s, point) => /\ job'[s].at = point /\ job'[s].permit = job[s].permit
                                           /\ \A t \in Slots : t # s => job'[t] = job[t]
  BY DEF ClaimTypeOK, JobType, Abandon, Goto, Idle

(* Jobs stay with live processes, and handed permits belong to past or present boots. *)
LEMMA JobsStep ==
    ASSUME ClaimInv, [ClaimNext]_claimVars
    PROVE  Jobs'
  <1> USE JobMoves DEF ClaimInv, At, Idle, store, ghosts
  <1>t. ClaimTypeOK
    OBVIOUS
  <1>s. synced \in [issuance : BOOLEAN, permits : SUBSET Permit, disk : SUBSET Files]
    BY DEF ClaimTypeOK, SyncedType
  <1>b. boot \in Nat /\ \A p \in Permit : p.boot \in Nat
    BY DEF ClaimTypeOK, Permit
  <1>h. handed \subseteq Permit
    BY DEF ClaimTypeOK
  <1> USE DEF Jobs, Valid
  <1>1. ASSUME NEW s \in Slots, IssueForRun(s)
        PROVE  Jobs'
    <2>1. issuance' \in Permit
      BY <1>1 DEF IssueForRun, ClaimTypeOK, Permit
    <2>2. QED
      BY <1>1, <1>t, <2>1 DEF IssueForRun
  <1>2. ASSUME NEW s \in Slots, ReadIssuance(s)
        PROVE  Jobs'
    <2>1. CASE Valid(issuance)
      BY <1>2, <2>1, <1>t DEF ReadIssuance
    <2>2. CASE ~Valid(issuance)
      BY <1>2, <2>2, <1>t DEF ReadIssuance
    <2>3. QED
      BY <2>1, <2>2
  <1>3. ASSUME NEW s \in Slots, PublishPermit(s)
        PROVE  Jobs'
    <2>1. CASE Valid(job[s].permit)
      BY <1>3, <2>1, <1>t DEF PublishPermit
    <2>2. CASE ~Valid(job[s].permit)
      BY <1>3, <2>2, <1>t DEF PublishPermit
    <2>3. QED
      BY <2>1, <2>2
  <1>4. ASSUME NEW s \in Slots, SyncPermit(s)
        PROVE  Jobs'
    BY <1>4, <1>t, <1>b DEF SyncPermit
  <1>5. ASSUME NEW s \in Slots, NEW p \in handed, Authorize(s, p)
        PROVE  Jobs'
    BY <1>5, <1>t DEF Authorize
  <1>6. ASSUME NEW s \in Slots, MakeDirectory(s)
        PROVE  Jobs'
    <2>1. CASE "directory" \in disk
      BY <1>6, <2>1, <1>t DEF MakeDirectory
    <2>2. CASE "directory" \notin disk
      BY <1>6, <2>2, <1>t DEF MakeDirectory
    <2>3. QED
      BY <2>1, <2>2
  <1>7. ASSUME NEW s \in Slots, SyncAncestors(s)
        PROVE  Jobs'
    BY <1>7, <1>t DEF SyncAncestors
  <1>8. ASSUME NEW s \in Slots, WriteRecord(s, "parent", "parent", "parentSync") /\ UNCHANGED identity
        PROVE  Jobs'
    <2>1. CASE "parent" \in disk
      BY <1>8, <2>1, <1>t DEF WriteRecord
    <2>2. CASE "parent" \notin disk
      BY <1>8, <2>2, <1>t DEF WriteRecord
    <2>3. QED
      BY <2>1, <2>2
  <1>9. ASSUME NEW s \in Slots, WriteRecord(s, "owner", "owner", "ownerSync") /\ UNCHANGED identity
        PROVE  Jobs'
    <2>1. CASE "owner" \in disk
      BY <1>9, <2>1, <1>t DEF WriteRecord
    <2>2. CASE "owner" \notin disk
      BY <1>9, <2>2, <1>t DEF WriteRecord
    <2>3. QED
      BY <2>1, <2>2
  <1>10. ASSUME NEW s \in Slots, WriteProcess(s)
        PROVE  Jobs'
    <2>1. CASE "process" \in disk
      BY <1>10, <2>1, <1>t DEF WriteProcess, WriteRecord
    <2>2. CASE "process" \notin disk
      BY <1>10, <2>2, <1>t DEF WriteProcess, WriteRecord
    <2>3. QED
      BY <2>1, <2>2
  <1>11. ASSUME NEW s \in Slots, SyncRecords(s, "parentSync", "owner")
        PROVE  Jobs'
    BY <1>11, <1>t DEF SyncRecords
  <1>12. ASSUME NEW s \in Slots, SyncRecords(s, "ownerSync", "process")
        PROVE  Jobs'
    BY <1>12, <1>t DEF SyncRecords
  <1>13. ASSUME NEW s \in Slots, SyncRecords(s, "processSync", "claimed")
        PROVE  Jobs'
    BY <1>13, <1>t DEF SyncRecords
  <1>14. ASSUME NEW s \in Slots, SyncRecords(s, "fenceSync", "fenceRoot")
        PROVE  Jobs'
    BY <1>14, <1>t DEF SyncRecords
  <1>15. ASSUME NEW s \in Slots, Launch(s)
        PROVE  Jobs'
    <2>1. CASE Valid(job[s].permit)
      BY <1>15, <2>1, <1>t DEF Launch
    <2>2. CASE ~Valid(job[s].permit)
      BY <1>15, <2>2, <1>t DEF Launch
    <2>3. QED
      BY <2>1, <2>2
  <1>16. ASSUME NEW s \in Slots, RuntimeEnds(s)
        PROVE  Jobs'
    BY <1>16, <1>t DEF RuntimeEnds
  <1>17. ASSUME NEW s \in Slots, NEW q \in Subjects, FenceUncreated(s, q)
        PROVE  Jobs'
    <2>1. CASE "directory" \in disk
      BY <1>17, <2>1, <1>t DEF FenceUncreated
    <2>2. CASE "directory" \notin disk
      BY <1>17, <2>2, <1>t DEF FenceUncreated
    <2>3. QED
      BY <2>1, <2>2
  <1>18. ASSUME NEW s \in Slots, WriteFence(s)
        PROVE  Jobs'
    BY <1>18, <1>t DEF WriteFence
  <1>19. ASSUME NEW s \in Slots, FenceAnswers(s)
        PROVE  Jobs'
    BY <1>19, <1>t DEF FenceAnswers
  <1>20. ASSUME NEW s \in Slots, NEW q \in Subjects, StopRoute(s, q)
        PROVE  Jobs'
    BY <1>20, <1>t DEF StopRoute
  <1>21. ASSUME NEW s \in Slots, ScopedCleanup(s)
        PROVE  Jobs'
    BY <1>21, <1>t DEF ScopedCleanup
  <1>22. ASSUME NEW s \in Slots, ProcessStarts(s)
        PROVE  Jobs'
    BY <1>22, <1>t DEF ProcessStarts
  <1>23. ASSUME NEW s \in Slots, ProcessEnds(s)
        PROVE  Jobs'
    BY <1>23, <1>t DEF ProcessEnds
  <1>24. CASE CloseAdmission
    BY <1>24, <1>t DEF CloseAdmission
  <1>25. CASE Tick
    BY <1>25, <1>t DEF Tick
  <1>26. CASE PowerLoss
    BY <1>26, <1>h, <1>b DEF PowerLoss
  <1>27. CASE UNCHANGED claimVars
    BY <1>27, <1>t DEF claimVars
  <1>28. QED
    BY ClaimCases, <1>1, <1>2, <1>3, <1>4, <1>5, <1>6, <1>7, <1>8, <1>9, <1>10,
       <1>11, <1>12, <1>13, <1>14, <1>15, <1>16, <1>17, <1>18, <1>19, <1>20,
       <1>21, <1>22, <1>23, <1>24, <1>25, <1>26, <1>27

(* The directory has one holder. *)
LEMMA HoldingStep ==
    ASSUME ClaimInv, [ClaimNext]_claimVars
    PROVE  Holding'
  <1> USE JobMoves DEF ClaimInv, At, Idle, store, ghosts
  <1>t. ClaimTypeOK
    OBVIOUS
  <1>s. synced \in [issuance : BOOLEAN, permits : SUBSET Permit, disk : SUBSET Files]
    BY DEF ClaimTypeOK, SyncedType
  <1>b. boot \in Nat /\ \A p \in Permit : p.boot \in Nat
    BY DEF ClaimTypeOK, Permit
  <1> USE DEF Holding, Jobs, ClaimPoints, FencePoints, HolderPoints
  <1>1. ASSUME NEW s \in Slots, IssueForRun(s)
        PROVE  Holding'
    <2>1. CASE issuance = None
      BY <1>1, <2>1, <1>t, <1>s DEF IssueForRun
    <2>2. CASE issuance # None
      BY <1>1, <2>2, <1>t, <1>s DEF IssueForRun
    <2>3. QED
      BY <2>1, <2>2
  <1>2. ASSUME NEW s \in Slots, ReadIssuance(s)
        PROVE  Holding'
    <2>1. CASE Valid(issuance)
      BY <1>2, <2>1, <1>t, <1>s DEF ReadIssuance
    <2>2. CASE ~Valid(issuance)
      BY <1>2, <2>2, <1>t, <1>s DEF ReadIssuance
    <2>3. QED
      BY <2>1, <2>2
  <1>3. ASSUME NEW s \in Slots, PublishPermit(s)
        PROVE  Holding'
    <2>1. CASE Valid(job[s].permit)
      BY <1>3, <2>1, <1>t, <1>s DEF PublishPermit
    <2>2. CASE ~Valid(job[s].permit)
      BY <1>3, <2>2, <1>t, <1>s DEF PublishPermit
    <2>3. QED
      BY <2>1, <2>2
  <1>4. ASSUME NEW s \in Slots, SyncPermit(s)
        PROVE  Holding'
    <2>1. CASE Valid(job[s].permit)
      BY <1>4, <2>1, <1>t, <1>s DEF SyncPermit
    <2>2. CASE ~Valid(job[s].permit)
      BY <1>4, <2>2, <1>t, <1>s DEF SyncPermit
    <2>3. QED
      BY <2>1, <2>2
  <1>5. ASSUME NEW s \in Slots, NEW p \in handed, Authorize(s, p)
        PROVE  Holding'
    BY <1>5, <1>t, <1>s DEF Authorize
  <1>6. ASSUME NEW s \in Slots, MakeDirectory(s)
        PROVE  Holding'
    <2>1. CASE "directory" \in disk
      BY <1>6, <2>1, <1>t, <1>s DEF MakeDirectory
    <2>2. CASE "directory" \notin disk
      BY <1>6, <2>2, <1>t, <1>s DEF MakeDirectory
    <2>3. QED
      BY <2>1, <2>2
  <1>7. ASSUME NEW s \in Slots, SyncAncestors(s)
        PROVE  Holding'
    BY <1>7, <1>t, <1>s DEF SyncAncestors
  <1>8. ASSUME NEW s \in Slots, WriteRecord(s, "parent", "parent", "parentSync") /\ UNCHANGED identity
        PROVE  Holding'
    <2>1. CASE "parent" \in disk
      BY <1>8, <2>1, <1>t, <1>s DEF WriteRecord
    <2>2. CASE "parent" \notin disk
      BY <1>8, <2>2, <1>t, <1>s DEF WriteRecord
    <2>3. QED
      BY <2>1, <2>2
  <1>9. ASSUME NEW s \in Slots, WriteRecord(s, "owner", "owner", "ownerSync") /\ UNCHANGED identity
        PROVE  Holding'
    <2>1. CASE "owner" \in disk
      BY <1>9, <2>1, <1>t, <1>s DEF WriteRecord
    <2>2. CASE "owner" \notin disk
      BY <1>9, <2>2, <1>t, <1>s DEF WriteRecord
    <2>3. QED
      BY <2>1, <2>2
  <1>10. ASSUME NEW s \in Slots, WriteProcess(s)
        PROVE  Holding'
    <2>1. CASE "process" \in disk
      BY <1>10, <2>1, <1>t, <1>s DEF WriteProcess, WriteRecord
    <2>2. CASE "process" \notin disk
      BY <1>10, <2>2, <1>t, <1>s DEF WriteProcess, WriteRecord
    <2>3. QED
      BY <2>1, <2>2
  <1>11. ASSUME NEW s \in Slots, SyncRecords(s, "parentSync", "owner")
        PROVE  Holding'
    BY <1>11, <1>t, <1>s DEF SyncRecords
  <1>12. ASSUME NEW s \in Slots, SyncRecords(s, "ownerSync", "process")
        PROVE  Holding'
    BY <1>12, <1>t, <1>s DEF SyncRecords
  <1>13. ASSUME NEW s \in Slots, SyncRecords(s, "processSync", "claimed")
        PROVE  Holding'
    BY <1>13, <1>t, <1>s DEF SyncRecords
  <1>14. ASSUME NEW s \in Slots, SyncRecords(s, "fenceSync", "fenceRoot")
        PROVE  Holding'
    BY <1>14, <1>t, <1>s DEF SyncRecords
  <1>15. ASSUME NEW s \in Slots, Launch(s)
        PROVE  Holding'
    <2>1. CASE Valid(job[s].permit)
      BY <1>15, <2>1, <1>t, <1>s DEF Launch
    <2>2. CASE ~Valid(job[s].permit)
      BY <1>15, <2>2, <1>t, <1>s DEF Launch
    <2>3. QED
      BY <2>1, <2>2
  <1>16. ASSUME NEW s \in Slots, RuntimeEnds(s)
        PROVE  Holding'
    BY <1>16, <1>t, <1>s DEF RuntimeEnds
  <1>17. ASSUME NEW s \in Slots, NEW q \in Subjects, FenceUncreated(s, q)
        PROVE  Holding'
    <2>1. CASE "directory" \in disk
      BY <1>17, <2>1, <1>t, <1>s DEF FenceUncreated
    <2>2. CASE "directory" \notin disk
      BY <1>17, <2>2, <1>t, <1>s DEF FenceUncreated
    <2>3. QED
      BY <2>1, <2>2
  <1>18. ASSUME NEW s \in Slots, WriteFence(s)
        PROVE  Holding'
    BY <1>18, <1>t, <1>s DEF WriteFence
  <1>19. ASSUME NEW s \in Slots, FenceAnswers(s)
        PROVE  Holding'
    BY <1>19, <1>t, <1>s DEF FenceAnswers
  <1>20. ASSUME NEW s \in Slots, NEW q \in Subjects, StopRoute(s, q)
        PROVE  Holding'
    BY <1>20, <1>t, <1>s DEF StopRoute
  <1>21. ASSUME NEW s \in Slots, ScopedCleanup(s)
        PROVE  Holding'
    BY <1>21, <1>t, <1>s DEF ScopedCleanup
  <1>22. ASSUME NEW s \in Slots, ProcessStarts(s)
        PROVE  Holding'
    BY <1>22, <1>t, <1>s DEF ProcessStarts
  <1>23. ASSUME NEW s \in Slots, ProcessEnds(s)
        PROVE  Holding'
    BY <1>23, <1>t, <1>s DEF ProcessEnds
  <1>24. CASE CloseAdmission
    BY <1>24, <1>t, <1>s DEF CloseAdmission
  <1>25. CASE Tick
    BY <1>25, <1>t, <1>s DEF Tick
  <1>26. CASE PowerLoss
    BY <1>26, <1>t, <1>s DEF PowerLoss
  <1>27. CASE UNCHANGED claimVars
    BY <1>27, <1>t, <1>s DEF claimVars
  <1>28. QED
    BY ClaimCases, <1>1, <1>2, <1>3, <1>4, <1>5, <1>6, <1>7, <1>8, <1>9, <1>10,
       <1>11, <1>12, <1>13, <1>14, <1>15, <1>16, <1>17, <1>18, <1>19, <1>20,
       <1>21, <1>22, <1>23, <1>24, <1>25, <1>26, <1>27

(* The process record names the holder of the claim. *)
LEMMA BindingStep ==
    ASSUME ClaimInv, [ClaimNext]_claimVars
    PROVE  Binding'
  <1> USE JobMoves DEF ClaimInv, At, Idle, store, ghosts
  <1>t. ClaimTypeOK
    OBVIOUS
  <1>s. synced \in [issuance : BOOLEAN, permits : SUBSET Permit, disk : SUBSET Files]
    BY DEF ClaimTypeOK, SyncedType
  <1>b. boot \in Nat /\ \A p \in Permit : p.boot \in Nat
    BY DEF ClaimTypeOK, Permit
  <1>r. runtime \in [Slots -> BOOLEAN] /\ proc \in [Slots -> 0 .. MaxTime + 1]
    BY DEF ClaimTypeOK
  <1> USE DEF Binding, Holding, Jobs, ClaimPoints, FencePoints, HolderPoints, Unbound
  <1>1. ASSUME NEW s \in Slots, IssueForRun(s)
        PROVE  Binding'
    <2>1. CASE issuance = None
      BY <1>1, <2>1, <1>t, <1>s DEF IssueForRun
    <2>2. CASE issuance # None
      BY <1>1, <2>2, <1>t, <1>s DEF IssueForRun
    <2>3. QED
      BY <2>1, <2>2
  <1>2. ASSUME NEW s \in Slots, ReadIssuance(s)
        PROVE  Binding'
    <2>1. CASE Valid(issuance)
      BY <1>2, <2>1, <1>t, <1>s DEF ReadIssuance
    <2>2. CASE ~Valid(issuance)
      BY <1>2, <2>2, <1>t, <1>s DEF ReadIssuance
    <2>3. QED
      BY <2>1, <2>2
  <1>3. ASSUME NEW s \in Slots, PublishPermit(s)
        PROVE  Binding'
    <2>1. CASE Valid(job[s].permit)
      BY <1>3, <2>1, <1>t, <1>s DEF PublishPermit
    <2>2. CASE ~Valid(job[s].permit)
      BY <1>3, <2>2, <1>t, <1>s DEF PublishPermit
    <2>3. QED
      BY <2>1, <2>2
  <1>4. ASSUME NEW s \in Slots, SyncPermit(s)
        PROVE  Binding'
    <2>1. CASE Valid(job[s].permit)
      BY <1>4, <2>1, <1>t, <1>s DEF SyncPermit
    <2>2. CASE ~Valid(job[s].permit)
      BY <1>4, <2>2, <1>t, <1>s DEF SyncPermit
    <2>3. QED
      BY <2>1, <2>2
  <1>5. ASSUME NEW s \in Slots, NEW p \in handed, Authorize(s, p)
        PROVE  Binding'
    BY <1>5, <1>t, <1>s DEF Authorize
  <1>6. ASSUME NEW s \in Slots, MakeDirectory(s)
        PROVE  Binding'
    <2>1. CASE "directory" \in disk
      BY <1>6, <2>1, <1>t, <1>s DEF MakeDirectory
    <2>2. CASE "directory" \notin disk
      BY <1>6, <2>2, <1>t, <1>s DEF MakeDirectory
    <2>3. QED
      BY <2>1, <2>2
  <1>7. ASSUME NEW s \in Slots, SyncAncestors(s)
        PROVE  Binding'
    BY <1>7, <1>t, <1>s DEF SyncAncestors
  <1>8. ASSUME NEW s \in Slots, WriteRecord(s, "parent", "parent", "parentSync") /\ UNCHANGED identity
        PROVE  Binding'
    <2>1. CASE "parent" \in disk
      BY <1>8, <2>1, <1>t, <1>s DEF WriteRecord
    <2>2. CASE "parent" \notin disk
      BY <1>8, <2>2, <1>t, <1>s DEF WriteRecord
    <2>3. QED
      BY <2>1, <2>2
  <1>9. ASSUME NEW s \in Slots, WriteRecord(s, "owner", "owner", "ownerSync") /\ UNCHANGED identity
        PROVE  Binding'
    <2>1. CASE "owner" \in disk
      BY <1>9, <2>1, <1>t, <1>s DEF WriteRecord
    <2>2. CASE "owner" \notin disk
      BY <1>9, <2>2, <1>t, <1>s DEF WriteRecord
    <2>3. QED
      BY <2>1, <2>2
  <1>10. ASSUME NEW s \in Slots, WriteProcess(s)
        PROVE  Binding'
    <2>1. "process" \notin disk
      BY <1>10 DEF WriteProcess, WriteRecord
    <2>2. identity' \in Identity
      BY <1>10 DEF WriteProcess, WriteRecord, ClaimTypeOK, Identity
    <2>3. QED
      BY <1>10, <1>t, <1>s, <2>1, <2>2 DEF WriteProcess, WriteRecord
  <1>11. ASSUME NEW s \in Slots, SyncRecords(s, "parentSync", "owner")
        PROVE  Binding'
    BY <1>11, <1>t, <1>s DEF SyncRecords
  <1>12. ASSUME NEW s \in Slots, SyncRecords(s, "ownerSync", "process")
        PROVE  Binding'
    BY <1>12, <1>t, <1>s DEF SyncRecords
  <1>13. ASSUME NEW s \in Slots, SyncRecords(s, "processSync", "claimed")
        PROVE  Binding'
    BY <1>13, <1>t, <1>s DEF SyncRecords
  <1>14. ASSUME NEW s \in Slots, SyncRecords(s, "fenceSync", "fenceRoot")
        PROVE  Binding'
    BY <1>14, <1>t, <1>s DEF SyncRecords
  <1>15. ASSUME NEW s \in Slots, Launch(s)
        PROVE  Binding'
    <2>1. CASE Valid(job[s].permit)
      BY <1>15, <2>1, <1>t, <1>r DEF Launch
    <2>2. CASE ~Valid(job[s].permit)
      BY <1>15, <2>2, <1>t, <1>r DEF Launch
    <2>3. QED
      BY <2>1, <2>2
  <1>16. ASSUME NEW s \in Slots, RuntimeEnds(s)
        PROVE  Binding'
    BY <1>16, <1>t, <1>r DEF RuntimeEnds
  <1>17. ASSUME NEW s \in Slots, NEW q \in Subjects, FenceUncreated(s, q)
        PROVE  Binding'
    <2>1. CASE "directory" \in disk
      BY <1>17, <2>1, <1>t, <1>s DEF FenceUncreated
    <2>2. CASE "directory" \notin disk
      BY <1>17, <2>2, <1>t, <1>s DEF FenceUncreated
    <2>3. QED
      BY <2>1, <2>2
  <1>18. ASSUME NEW s \in Slots, WriteFence(s)
        PROVE  Binding'
    BY <1>18, <1>t, <1>s DEF WriteFence
  <1>19. ASSUME NEW s \in Slots, FenceAnswers(s)
        PROVE  Binding'
    BY <1>19, <1>t, <1>s DEF FenceAnswers
  <1>20. ASSUME NEW s \in Slots, NEW q \in Subjects, StopRoute(s, q)
        PROVE  Binding'
    BY <1>20, <1>t, <1>s DEF StopRoute
  <1>21. ASSUME NEW s \in Slots, ScopedCleanup(s)
        PROVE  Binding'
    BY <1>21, <1>t, <1>s DEF ScopedCleanup
  <1>22. ASSUME NEW s \in Slots, ProcessStarts(s)
        PROVE  Binding'
    BY <1>22, <1>t, <1>s DEF ProcessStarts
  <1>23. ASSUME NEW s \in Slots, ProcessEnds(s)
        PROVE  Binding'
    BY <1>23, <1>t, <1>r DEF ProcessEnds
  <1>24. CASE CloseAdmission
    BY <1>24, <1>t, <1>s DEF CloseAdmission
  <1>25. CASE Tick
    BY <1>25, <1>t, <1>s DEF Tick
  <1>26. CASE PowerLoss
    BY <1>26, <1>t, <1>s DEF PowerLoss
  <1>27. CASE UNCHANGED claimVars
    BY <1>27, <1>t, <1>s DEF claimVars
  <1>28. QED
    BY ClaimCases, <1>1, <1>2, <1>3, <1>4, <1>5, <1>6, <1>7, <1>8, <1>9, <1>10,
       <1>11, <1>12, <1>13, <1>14, <1>15, <1>16, <1>17, <1>18, <1>19, <1>20,
       <1>21, <1>22, <1>23, <1>24, <1>25, <1>26, <1>27

(* A launch needs the directory, which is then kept for good. *)
LEMMA LaunchingStep ==
    ASSUME ClaimInv, [ClaimNext]_claimVars
    PROVE  Launching'
  <1> USE JobMoves DEF ClaimInv, At, Idle, store, ghosts
  <1>t. ClaimTypeOK
    OBVIOUS
  <1>s. synced \in [issuance : BOOLEAN, permits : SUBSET Permit, disk : SUBSET Files]
    BY DEF ClaimTypeOK, SyncedType
  <1>b. boot \in Nat /\ \A p \in Permit : p.boot \in Nat
    BY DEF ClaimTypeOK, Permit
  <1> USE DEF Launching, Holding, ClaimPoints, FencePoints, HolderPoints
  <1>1. ASSUME NEW s \in Slots, IssueForRun(s)
        PROVE  Launching'
    <2>1. CASE issuance = None
      BY <1>1, <2>1, <1>t, <1>s DEF IssueForRun
    <2>2. CASE issuance # None
      BY <1>1, <2>2, <1>t, <1>s DEF IssueForRun
    <2>3. QED
      BY <2>1, <2>2
  <1>2. ASSUME NEW s \in Slots, ReadIssuance(s)
        PROVE  Launching'
    <2>1. CASE Valid(issuance)
      BY <1>2, <2>1, <1>t, <1>s DEF ReadIssuance
    <2>2. CASE ~Valid(issuance)
      BY <1>2, <2>2, <1>t, <1>s DEF ReadIssuance
    <2>3. QED
      BY <2>1, <2>2
  <1>3. ASSUME NEW s \in Slots, PublishPermit(s)
        PROVE  Launching'
    <2>1. CASE Valid(job[s].permit)
      BY <1>3, <2>1, <1>t, <1>s DEF PublishPermit
    <2>2. CASE ~Valid(job[s].permit)
      BY <1>3, <2>2, <1>t, <1>s DEF PublishPermit
    <2>3. QED
      BY <2>1, <2>2
  <1>4. ASSUME NEW s \in Slots, SyncPermit(s)
        PROVE  Launching'
    <2>1. CASE Valid(job[s].permit)
      BY <1>4, <2>1, <1>t, <1>s DEF SyncPermit
    <2>2. CASE ~Valid(job[s].permit)
      BY <1>4, <2>2, <1>t, <1>s DEF SyncPermit
    <2>3. QED
      BY <2>1, <2>2
  <1>5. ASSUME NEW s \in Slots, NEW p \in handed, Authorize(s, p)
        PROVE  Launching'
    BY <1>5, <1>t, <1>s DEF Authorize
  <1>6. ASSUME NEW s \in Slots, MakeDirectory(s)
        PROVE  Launching'
    <2>1. CASE "directory" \in disk
      BY <1>6, <2>1, <1>t, <1>s DEF MakeDirectory
    <2>2. CASE "directory" \notin disk
      BY <1>6, <2>2, <1>t, <1>s DEF MakeDirectory
    <2>3. QED
      BY <2>1, <2>2
  <1>7. ASSUME NEW s \in Slots, SyncAncestors(s)
        PROVE  Launching'
    BY <1>7, <1>t, <1>s DEF SyncAncestors
  <1>8. ASSUME NEW s \in Slots, WriteRecord(s, "parent", "parent", "parentSync") /\ UNCHANGED identity
        PROVE  Launching'
    <2>1. CASE "parent" \in disk
      BY <1>8, <2>1, <1>t, <1>s DEF WriteRecord
    <2>2. CASE "parent" \notin disk
      BY <1>8, <2>2, <1>t, <1>s DEF WriteRecord
    <2>3. QED
      BY <2>1, <2>2
  <1>9. ASSUME NEW s \in Slots, WriteRecord(s, "owner", "owner", "ownerSync") /\ UNCHANGED identity
        PROVE  Launching'
    <2>1. CASE "owner" \in disk
      BY <1>9, <2>1, <1>t, <1>s DEF WriteRecord
    <2>2. CASE "owner" \notin disk
      BY <1>9, <2>2, <1>t, <1>s DEF WriteRecord
    <2>3. QED
      BY <2>1, <2>2
  <1>10. ASSUME NEW s \in Slots, WriteProcess(s)
        PROVE  Launching'
    <2>1. CASE "process" \in disk
      BY <1>10, <2>1, <1>t, <1>s DEF WriteProcess, WriteRecord
    <2>2. CASE "process" \notin disk
      BY <1>10, <2>2, <1>t, <1>s DEF WriteProcess, WriteRecord
    <2>3. QED
      BY <2>1, <2>2
  <1>11. ASSUME NEW s \in Slots, SyncRecords(s, "parentSync", "owner")
        PROVE  Launching'
    BY <1>11, <1>t, <1>s DEF SyncRecords
  <1>12. ASSUME NEW s \in Slots, SyncRecords(s, "ownerSync", "process")
        PROVE  Launching'
    BY <1>12, <1>t, <1>s DEF SyncRecords
  <1>13. ASSUME NEW s \in Slots, SyncRecords(s, "processSync", "claimed")
        PROVE  Launching'
    BY <1>13, <1>t, <1>s DEF SyncRecords
  <1>14. ASSUME NEW s \in Slots, SyncRecords(s, "fenceSync", "fenceRoot")
        PROVE  Launching'
    BY <1>14, <1>t, <1>s DEF SyncRecords
  <1>15. ASSUME NEW s \in Slots, Launch(s)
        PROVE  Launching'
    <2>1. CASE Valid(job[s].permit)
      BY <1>15, <2>1, <1>t, <1>s DEF Launch
    <2>2. CASE ~Valid(job[s].permit)
      BY <1>15, <2>2, <1>t, <1>s DEF Launch
    <2>3. QED
      BY <2>1, <2>2
  <1>16. ASSUME NEW s \in Slots, RuntimeEnds(s)
        PROVE  Launching'
    BY <1>16, <1>t, <1>s DEF RuntimeEnds
  <1>17. ASSUME NEW s \in Slots, NEW q \in Subjects, FenceUncreated(s, q)
        PROVE  Launching'
    <2>1. CASE "directory" \in disk
      BY <1>17, <2>1, <1>t, <1>s DEF FenceUncreated
    <2>2. CASE "directory" \notin disk
      BY <1>17, <2>2, <1>t, <1>s DEF FenceUncreated
    <2>3. QED
      BY <2>1, <2>2
  <1>18. ASSUME NEW s \in Slots, WriteFence(s)
        PROVE  Launching'
    BY <1>18, <1>t, <1>s DEF WriteFence
  <1>19. ASSUME NEW s \in Slots, FenceAnswers(s)
        PROVE  Launching'
    BY <1>19, <1>t, <1>s DEF FenceAnswers
  <1>20. ASSUME NEW s \in Slots, NEW q \in Subjects, StopRoute(s, q)
        PROVE  Launching'
    BY <1>20, <1>t, <1>s DEF StopRoute
  <1>21. ASSUME NEW s \in Slots, ScopedCleanup(s)
        PROVE  Launching'
    BY <1>21, <1>t, <1>s DEF ScopedCleanup
  <1>22. ASSUME NEW s \in Slots, ProcessStarts(s)
        PROVE  Launching'
    BY <1>22, <1>t, <1>s DEF ProcessStarts
  <1>23. ASSUME NEW s \in Slots, ProcessEnds(s)
        PROVE  Launching'
    BY <1>23, <1>t, <1>s DEF ProcessEnds
  <1>24. CASE CloseAdmission
    BY <1>24, <1>t, <1>s DEF CloseAdmission
  <1>25. CASE Tick
    BY <1>25, <1>t, <1>s DEF Tick
  <1>26. CASE PowerLoss
    BY <1>26, <1>t, <1>s DEF PowerLoss
  <1>27. CASE UNCHANGED claimVars
    BY <1>27, <1>t, <1>s DEF claimVars
  <1>28. QED
    BY ClaimCases, <1>1, <1>2, <1>3, <1>4, <1>5, <1>6, <1>7, <1>8, <1>9, <1>10,
       <1>11, <1>12, <1>13, <1>14, <1>15, <1>16, <1>17, <1>18, <1>19, <1>20,
       <1>21, <1>22, <1>23, <1>24, <1>25, <1>26, <1>27

(* A fence keeps claims away, by its directory or by the boot of every permit. *)
LEMMA FencingStep ==
    ASSUME ClaimInv, [ClaimNext]_claimVars
    PROVE  Fencing'
  <1> USE JobMoves DEF ClaimInv, At, Idle, store, ghosts
  <1>t. ClaimTypeOK
    OBVIOUS
  <1>s. synced \in [issuance : BOOLEAN, permits : SUBSET Permit, disk : SUBSET Files]
    BY DEF ClaimTypeOK, SyncedType
  <1>b. boot \in Nat /\ \A p \in Permit : p.boot \in Nat
    BY DEF ClaimTypeOK, Permit
  <1>h. handed \subseteq Permit
    BY DEF ClaimTypeOK
  <1> USE DEF Fencing, Held, Dead, Launching, Holding, Valid, Jobs, ClaimPoints, FencePoints, HolderPoints, PermitPoints
  <1>1. ASSUME NEW s \in Slots, IssueForRun(s)
        PROVE  Fencing'
    <2>1. CASE issuance = None
      BY <1>1, <2>1, <1>t, <1>s DEF IssueForRun
    <2>2. CASE issuance # None
      BY <1>1, <2>2, <1>t, <1>s DEF IssueForRun
    <2>3. QED
      BY <2>1, <2>2
  <1>2. ASSUME NEW s \in Slots, ReadIssuance(s)
        PROVE  Fencing'
    <2>1. CASE Valid(issuance)
      BY <1>2, <2>1, <1>t, <1>s DEF ReadIssuance
    <2>2. CASE ~Valid(issuance)
      BY <1>2, <2>2, <1>t, <1>s DEF ReadIssuance
    <2>3. QED
      BY <2>1, <2>2
  <1>3. ASSUME NEW s \in Slots, PublishPermit(s)
        PROVE  Fencing'
    <2>1. CASE Valid(job[s].permit)
      BY <1>3, <2>1, <1>t, <1>s DEF PublishPermit
    <2>2. CASE ~Valid(job[s].permit)
      BY <1>3, <2>2, <1>t, <1>s DEF PublishPermit
    <2>3. QED
      BY <2>1, <2>2
  <1>4. ASSUME NEW s \in Slots, SyncPermit(s)
        PROVE  Fencing'
    <2>1. CASE Valid(job[s].permit)
      BY <1>4, <2>1, <1>t, <1>s DEF SyncPermit
    <2>2. CASE ~Valid(job[s].permit)
      BY <1>4, <2>2, <1>t, <1>s DEF SyncPermit
    <2>3. QED
      BY <2>1, <2>2
  <1>5. ASSUME NEW s \in Slots, NEW p \in handed, Authorize(s, p)
        PROVE  Fencing'
    BY <1>5, <1>t, <1>h, <1>b DEF Authorize
  <1>6. ASSUME NEW s \in Slots, MakeDirectory(s)
        PROVE  Fencing'
    <2>1. CASE "directory" \in disk
      BY <1>6, <2>1, <1>t, <1>s DEF MakeDirectory
    <2>2. CASE "directory" \notin disk
      BY <1>6, <2>2, <1>t, <1>s DEF MakeDirectory
    <2>3. QED
      BY <2>1, <2>2
  <1>7. ASSUME NEW s \in Slots, SyncAncestors(s)
        PROVE  Fencing'
    BY <1>7, <1>t, <1>s DEF SyncAncestors
  <1>8. ASSUME NEW s \in Slots, WriteRecord(s, "parent", "parent", "parentSync") /\ UNCHANGED identity
        PROVE  Fencing'
    <2>1. CASE "parent" \in disk
      BY <1>8, <2>1, <1>t, <1>s DEF WriteRecord
    <2>2. CASE "parent" \notin disk
      BY <1>8, <2>2, <1>t, <1>s DEF WriteRecord
    <2>3. QED
      BY <2>1, <2>2
  <1>9. ASSUME NEW s \in Slots, WriteRecord(s, "owner", "owner", "ownerSync") /\ UNCHANGED identity
        PROVE  Fencing'
    <2>1. CASE "owner" \in disk
      BY <1>9, <2>1, <1>t, <1>s DEF WriteRecord
    <2>2. CASE "owner" \notin disk
      BY <1>9, <2>2, <1>t, <1>s DEF WriteRecord
    <2>3. QED
      BY <2>1, <2>2
  <1>10. ASSUME NEW s \in Slots, WriteProcess(s)
        PROVE  Fencing'
    <2>1. CASE "process" \in disk
      BY <1>10, <2>1, <1>t, <1>s DEF WriteProcess, WriteRecord
    <2>2. CASE "process" \notin disk
      BY <1>10, <2>2, <1>t, <1>s DEF WriteProcess, WriteRecord
    <2>3. QED
      BY <2>1, <2>2
  <1>11. ASSUME NEW s \in Slots, SyncRecords(s, "parentSync", "owner")
        PROVE  Fencing'
    BY <1>11, <1>t, <1>s DEF SyncRecords
  <1>12. ASSUME NEW s \in Slots, SyncRecords(s, "ownerSync", "process")
        PROVE  Fencing'
    BY <1>12, <1>t, <1>s DEF SyncRecords
  <1>13. ASSUME NEW s \in Slots, SyncRecords(s, "processSync", "claimed")
        PROVE  Fencing'
    BY <1>13, <1>t, <1>s DEF SyncRecords
  <1>14. ASSUME NEW s \in Slots, SyncRecords(s, "fenceSync", "fenceRoot")
        PROVE  Fencing'
    BY <1>14, <1>t, <1>s DEF SyncRecords
  <1>15. ASSUME NEW s \in Slots, Launch(s)
        PROVE  Fencing'
    <2>1. CASE Valid(job[s].permit)
      BY <1>15, <2>1, <1>t, <1>s DEF Launch
    <2>2. CASE ~Valid(job[s].permit)
      BY <1>15, <2>2, <1>t, <1>s DEF Launch
    <2>3. QED
      BY <2>1, <2>2
  <1>16. ASSUME NEW s \in Slots, RuntimeEnds(s)
        PROVE  Fencing'
    BY <1>16, <1>t, <1>s DEF RuntimeEnds
  <1>17. ASSUME NEW s \in Slots, NEW q \in Subjects, FenceUncreated(s, q)
        PROVE  Fencing'
    <2>1. CASE "directory" \in disk
      BY <1>17, <2>1, <1>t, <1>s DEF FenceUncreated
    <2>2. CASE "directory" \notin disk
      BY <1>17, <2>2, <1>t, <1>s DEF FenceUncreated
    <2>3. QED
      BY <2>1, <2>2
  <1>18. ASSUME NEW s \in Slots, WriteFence(s)
        PROVE  Fencing'
    BY <1>18, <1>t, <1>s DEF WriteFence
  <1>19. ASSUME NEW s \in Slots, FenceAnswers(s)
        PROVE  Fencing'
    BY <1>19, <1>t, <1>s DEF FenceAnswers
  <1>20. ASSUME NEW s \in Slots, NEW q \in Subjects, StopRoute(s, q)
        PROVE  Fencing'
    BY <1>20, <1>t, <1>s DEF StopRoute
  <1>21. ASSUME NEW s \in Slots, ScopedCleanup(s)
        PROVE  Fencing'
    BY <1>21, <1>t, <1>s DEF ScopedCleanup
  <1>22. ASSUME NEW s \in Slots, ProcessStarts(s)
        PROVE  Fencing'
    BY <1>22, <1>t, <1>s DEF ProcessStarts
  <1>23. ASSUME NEW s \in Slots, ProcessEnds(s)
        PROVE  Fencing'
    BY <1>23, <1>t, <1>s DEF ProcessEnds
  <1>24. CASE CloseAdmission
    BY <1>24, <1>t, <1>s DEF CloseAdmission
  <1>25. CASE Tick
    BY <1>25, <1>t, <1>s DEF Tick
  <1>26. CASE PowerLoss
    <2>1. Dead'
      BY <1>26, <1>h, <1>b DEF PowerLoss
    <2>2. "fence" \in disk' => "fence" \in disk /\ Held'
      BY <1>26, <1>s DEF PowerLoss
    <2>3. QED
      BY <1>26, <2>1, <2>2 DEF PowerLoss
  <1>27. CASE UNCHANGED claimVars
    BY <1>27, <1>t, <1>s DEF claimVars
  <1>28. QED
    BY ClaimCases, <1>1, <1>2, <1>3, <1>4, <1>5, <1>6, <1>7, <1>8, <1>9, <1>10,
       <1>11, <1>12, <1>13, <1>14, <1>15, <1>16, <1>17, <1>18, <1>19, <1>20,
       <1>21, <1>22, <1>23, <1>24, <1>25, <1>26, <1>27

(* What confirms a teardown finds the claim given up and its directory synced. *)
LEMMA ConfirmingStep ==
    ASSUME ClaimInv, [ClaimNext]_claimVars
    PROVE  Confirming'
  <1> USE JobMoves DEF ClaimInv, At, Idle, store, ghosts
  <1>t. ClaimTypeOK
    OBVIOUS
  <1>s. synced \in [issuance : BOOLEAN, permits : SUBSET Permit, disk : SUBSET Files]
    BY DEF ClaimTypeOK, SyncedType
  <1>b. boot \in Nat /\ \A p \in Permit : p.boot \in Nat
    BY DEF ClaimTypeOK, Permit
  <1> USE DEF Confirming, Held, Holding, Binding, ClaimPoints, FencePoints, HolderPoints, Unbound
  <1>1. ASSUME NEW s \in Slots, IssueForRun(s)
        PROVE  Confirming'
    <2>1. CASE issuance = None
      BY <1>1, <2>1, <1>t, <1>s DEF IssueForRun
    <2>2. CASE issuance # None
      BY <1>1, <2>2, <1>t, <1>s DEF IssueForRun
    <2>3. QED
      BY <2>1, <2>2
  <1>2. ASSUME NEW s \in Slots, ReadIssuance(s)
        PROVE  Confirming'
    <2>1. CASE Valid(issuance)
      BY <1>2, <2>1, <1>t, <1>s DEF ReadIssuance
    <2>2. CASE ~Valid(issuance)
      BY <1>2, <2>2, <1>t, <1>s DEF ReadIssuance
    <2>3. QED
      BY <2>1, <2>2
  <1>3. ASSUME NEW s \in Slots, PublishPermit(s)
        PROVE  Confirming'
    <2>1. CASE Valid(job[s].permit)
      BY <1>3, <2>1, <1>t, <1>s DEF PublishPermit
    <2>2. CASE ~Valid(job[s].permit)
      BY <1>3, <2>2, <1>t, <1>s DEF PublishPermit
    <2>3. QED
      BY <2>1, <2>2
  <1>4. ASSUME NEW s \in Slots, SyncPermit(s)
        PROVE  Confirming'
    <2>1. CASE Valid(job[s].permit)
      BY <1>4, <2>1, <1>t, <1>s DEF SyncPermit
    <2>2. CASE ~Valid(job[s].permit)
      BY <1>4, <2>2, <1>t, <1>s DEF SyncPermit
    <2>3. QED
      BY <2>1, <2>2
  <1>5. ASSUME NEW s \in Slots, NEW p \in handed, Authorize(s, p)
        PROVE  Confirming'
    BY <1>5, <1>t, <1>s DEF Authorize
  <1>6. ASSUME NEW s \in Slots, MakeDirectory(s)
        PROVE  Confirming'
    <2>1. CASE "directory" \in disk
      BY <1>6, <2>1, <1>t, <1>s DEF MakeDirectory
    <2>2. CASE "directory" \notin disk
      BY <1>6, <2>2, <1>t, <1>s DEF MakeDirectory
    <2>3. QED
      BY <2>1, <2>2
  <1>7. ASSUME NEW s \in Slots, SyncAncestors(s)
        PROVE  Confirming'
    BY <1>7, <1>t, <1>s DEF SyncAncestors
  <1>8. ASSUME NEW s \in Slots, WriteRecord(s, "parent", "parent", "parentSync") /\ UNCHANGED identity
        PROVE  Confirming'
    <2>1. CASE "parent" \in disk
      BY <1>8, <2>1, <1>t, <1>s DEF WriteRecord
    <2>2. CASE "parent" \notin disk
      BY <1>8, <2>2, <1>t, <1>s DEF WriteRecord
    <2>3. QED
      BY <2>1, <2>2
  <1>9. ASSUME NEW s \in Slots, WriteRecord(s, "owner", "owner", "ownerSync") /\ UNCHANGED identity
        PROVE  Confirming'
    <2>1. CASE "owner" \in disk
      BY <1>9, <2>1, <1>t, <1>s DEF WriteRecord
    <2>2. CASE "owner" \notin disk
      BY <1>9, <2>2, <1>t, <1>s DEF WriteRecord
    <2>3. QED
      BY <2>1, <2>2
  <1>10. ASSUME NEW s \in Slots, WriteProcess(s)
        PROVE  Confirming'
    <2>1. CASE "process" \in disk
      BY <1>10, <2>1, <1>t, <1>s DEF WriteProcess, WriteRecord
    <2>2. CASE "process" \notin disk
      BY <1>10, <2>2, <1>t, <1>s DEF WriteProcess, WriteRecord
    <2>3. QED
      BY <2>1, <2>2
  <1>11. ASSUME NEW s \in Slots, SyncRecords(s, "parentSync", "owner")
        PROVE  Confirming'
    BY <1>11, <1>t, <1>s DEF SyncRecords
  <1>12. ASSUME NEW s \in Slots, SyncRecords(s, "ownerSync", "process")
        PROVE  Confirming'
    BY <1>12, <1>t, <1>s DEF SyncRecords
  <1>13. ASSUME NEW s \in Slots, SyncRecords(s, "processSync", "claimed")
        PROVE  Confirming'
    BY <1>13, <1>t, <1>s DEF SyncRecords
  <1>14. ASSUME NEW s \in Slots, SyncRecords(s, "fenceSync", "fenceRoot")
        PROVE  Confirming'
    BY <1>14, <1>t, <1>s DEF SyncRecords
  <1>15. ASSUME NEW s \in Slots, Launch(s)
        PROVE  Confirming'
    <2>1. CASE Valid(job[s].permit)
      BY <1>15, <2>1, <1>t, <1>s DEF Launch
    <2>2. CASE ~Valid(job[s].permit)
      BY <1>15, <2>2, <1>t, <1>s DEF Launch
    <2>3. QED
      BY <2>1, <2>2
  <1>16. ASSUME NEW s \in Slots, RuntimeEnds(s)
        PROVE  Confirming'
    BY <1>16, <1>t, <1>s DEF RuntimeEnds
  <1>17. ASSUME NEW s \in Slots, NEW q \in Subjects, FenceUncreated(s, q)
        PROVE  Confirming'
    <2>1. CASE "directory" \in disk
      BY <1>17, <2>1, <1>t, <1>s DEF FenceUncreated
    <2>2. CASE "directory" \notin disk
      BY <1>17, <2>2, <1>t, <1>s DEF FenceUncreated
    <2>3. QED
      BY <2>1, <2>2
  <1>18. ASSUME NEW s \in Slots, WriteFence(s)
        PROVE  Confirming'
    BY <1>18, <1>t, <1>s DEF WriteFence
  <1>19. ASSUME NEW s \in Slots, FenceAnswers(s)
        PROVE  Confirming'
    BY <1>19, <1>t, <1>s DEF FenceAnswers
  <1>20. ASSUME NEW s \in Slots, NEW q \in Subjects, StopRoute(s, q)
        PROVE  Confirming'
    <2>1. CASE HistoricalTeardown("parent-journal", s, q)
      <3>1. "process" \in disk /\ proc[identity.slot] # identity.start
        BY <2>1 DEF HistoricalTeardown, RecordsUnder, OwnerExited
      <3>2. \A t \in Slots : job[t].at \notin ClaimPoints
        BY <3>1
      <3>3. QED
        BY <1>20, <3>1, <3>2 DEF StopRoute
    <2>2. CASE ~HistoricalTeardown("parent-journal", s, q)
      BY <1>20, <2>2 DEF StopRoute
    <2>3. QED
      BY <2>1, <2>2
  <1>21. ASSUME NEW s \in Slots, ScopedCleanup(s)
        PROVE  Confirming'
    <2>1. ~HistoricalTeardown("root", s, Owner)
      BY DEF HistoricalTeardown, RecordsUnder
    <2>2. QED
      BY <1>21, <2>1 DEF ScopedCleanup
  <1>22. ASSUME NEW s \in Slots, ProcessStarts(s)
        PROVE  Confirming'
    BY <1>22, <1>t, <1>s DEF ProcessStarts
  <1>23. ASSUME NEW s \in Slots, ProcessEnds(s)
        PROVE  Confirming'
    BY <1>23, <1>t, <1>s DEF ProcessEnds
  <1>24. CASE CloseAdmission
    BY <1>24, <1>t, <1>s DEF CloseAdmission
  <1>25. CASE Tick
    BY <1>25, <1>t, <1>s DEF Tick
  <1>26. CASE PowerLoss
    BY <1>26, <1>t, <1>s DEF PowerLoss
  <1>27. CASE UNCHANGED claimVars
    BY <1>27, <1>t, <1>s DEF claimVars
  <1>28. QED
    BY ClaimCases, <1>1, <1>2, <1>3, <1>4, <1>5, <1>6, <1>7, <1>8, <1>9, <1>10,
       <1>11, <1>12, <1>13, <1>14, <1>15, <1>16, <1>17, <1>18, <1>19, <1>20,
       <1>21, <1>22, <1>23, <1>24, <1>25, <1>26, <1>27

(* The jobs stay jobs. *)
LEMMA JobTyped ==
    ASSUME job \in [Slots -> JobType], NEW s \in Slots
    PROVE  /\ Abandon(s) => job' \in [Slots -> JobType]
           /\ \A point \in {"issuing", "publishing", "running"} \cup HolderPoints :
                Goto(s, point) => job' \in [Slots -> JobType]
           /\ \A p \in Permit, point \in {"issued", "authorized"} :
                [job EXCEPT ![s] = [at |-> point, permit |-> p]] \in [Slots -> JobType]
           /\ \A q \in Subjects :
                [job EXCEPT ![s] = [at |-> "fencing", permit |-> q]] \in [Slots -> JobType]
  <1>1. Idle \in JobType
    BY DEF JobType, Idle
  <1>2. \A point \in {"issuing", "publishing", "running"} \cup HolderPoints :
          [job[s] EXCEPT !.at = point] \in JobType
    BY DEF JobType, HolderPoints, ClaimPoints, FencePoints
  <1>3. \A p \in Permit, point \in {"issued", "authorized"} : [at |-> point, permit |-> p] \in JobType
    BY DEF JobType
  <1>4. \A q \in Subjects : [at |-> "fencing", permit |-> q] \in JobType
    BY DEF JobType
  <1>5. QED
    BY <1>1, <1>2, <1>3, <1>4 DEF Abandon, Goto

(* Types are kept by every step. *)
LEMMA ClaimTypeStep ==
    ASSUME ClaimInv, [ClaimNext]_claimVars
    PROVE  ClaimTypeOK'
  <1> USE ClaimAssumption DEF ClaimInv, At, store, ghosts
  <1>j. job \in [Slots -> JobType]
    BY DEF ClaimTypeOK
  <1>y. synced \in SyncedType /\ disk \subseteq Files /\ permits \subseteq Permit
    BY DEF ClaimTypeOK
  <1>1. ASSUME NEW s \in Slots, IssueForRun(s)
        PROVE  ClaimTypeOK'
    <2>1. job' \in [Slots -> JobType]
      BY <1>1, JobTyped, <1>j DEF IssueForRun, HolderPoints, ClaimPoints, FencePoints
    <2>2. issuance' \in Permit \cup {None}
      BY <1>1 DEF IssueForRun, ClaimTypeOK, Permit
    <2>3. QED
      BY <1>1, <2>1, <2>2 DEF IssueForRun, ClaimTypeOK
  <1>2. ASSUME NEW s \in Slots, ReadIssuance(s)
        PROVE  ClaimTypeOK'
    <2>1. job' \in [Slots -> JobType]
      BY <1>2, JobTyped, <1>j DEF ReadIssuance, HolderPoints, ClaimPoints, FencePoints, Jobs, Idle, Abandon
    <2>2. synced' \in SyncedType
      BY <1>2, <1>y DEF ReadIssuance, SyncedType, Files
    <2>3. QED
      BY <1>2, <2>1, <2>2 DEF ReadIssuance, ClaimTypeOK
  <1>3. ASSUME NEW s \in Slots, PublishPermit(s)
        PROVE  ClaimTypeOK'
    <2>1. job' \in [Slots -> JobType]
      BY <1>3, JobTyped, <1>j DEF PublishPermit, HolderPoints, ClaimPoints, FencePoints, Jobs
    <2>2. QED
      BY <1>3, <2>1 DEF PublishPermit, ClaimTypeOK, Jobs
  <1>4. ASSUME NEW s \in Slots, SyncPermit(s)
        PROVE  ClaimTypeOK'
    <2>1. job' \in [Slots -> JobType]
      BY <1>4, JobTyped, <1>j DEF SyncPermit, HolderPoints, ClaimPoints, FencePoints
    <2>2. synced' \in SyncedType
      BY <1>4, <1>y DEF SyncPermit, SyncedType, Files
    <2>3. QED
      BY <1>4, <2>1, <2>2 DEF SyncPermit, ClaimTypeOK, Jobs
  <1>5. ASSUME NEW s \in Slots, NEW p \in handed, Authorize(s, p)
        PROVE  ClaimTypeOK'
    <2>1. job' \in [Slots -> JobType]
      BY <1>5, JobTyped, <1>j, <1>y DEF Authorize, HolderPoints, ClaimPoints, FencePoints
    <2>2. QED
      BY <1>5, <2>1 DEF Authorize, ClaimTypeOK
  <1>6. ASSUME NEW s \in Slots, MakeDirectory(s)
        PROVE  ClaimTypeOK'
    <2>1. job' \in [Slots -> JobType]
      BY <1>6, JobTyped, <1>j DEF MakeDirectory, HolderPoints, ClaimPoints, FencePoints
    <2>2. disk' \subseteq Files
      BY <1>6, <1>y DEF MakeDirectory, Files
    <2>3. QED
      BY <1>6, <2>1, <2>2 DEF MakeDirectory, ClaimTypeOK
  <1>7. ASSUME NEW s \in Slots, SyncAncestors(s)
        PROVE  ClaimTypeOK'
    <2>1. job' \in [Slots -> JobType]
      BY <1>7, JobTyped, <1>j DEF SyncAncestors, HolderPoints, ClaimPoints, FencePoints
    <2>2. synced' \in SyncedType
      BY <1>7, <1>y DEF SyncAncestors, SyncedType, Files
    <2>3. QED
      BY <1>7, <2>1, <2>2 DEF SyncAncestors, ClaimTypeOK
  <1>8. ASSUME NEW s \in Slots, WriteRecord(s, "parent", "parent", "parentSync") /\ UNCHANGED identity
        PROVE  ClaimTypeOK'
    <2>1. job' \in [Slots -> JobType]
      BY <1>8, JobTyped, <1>j DEF WriteRecord, HolderPoints, ClaimPoints, FencePoints
    <2>2. disk' \subseteq Files
      BY <1>8, <1>y DEF WriteRecord, Files
    <2>3. QED
      BY <1>8, <2>1, <2>2 DEF WriteRecord, ClaimTypeOK
  <1>9. ASSUME NEW s \in Slots, WriteRecord(s, "owner", "owner", "ownerSync") /\ UNCHANGED identity
        PROVE  ClaimTypeOK'
    <2>1. job' \in [Slots -> JobType]
      BY <1>9, JobTyped, <1>j DEF WriteRecord, HolderPoints, ClaimPoints, FencePoints
    <2>2. disk' \subseteq Files
      BY <1>9, <1>y DEF WriteRecord, Files
    <2>3. QED
      BY <1>9, <2>1, <2>2 DEF WriteRecord, ClaimTypeOK
  <1>10. ASSUME NEW s \in Slots, WriteProcess(s)
        PROVE  ClaimTypeOK'
    <2>1. job' \in [Slots -> JobType]
      BY <1>10, JobTyped, <1>j DEF WriteProcess, WriteRecord, HolderPoints, ClaimPoints, FencePoints
    <2>2. disk' \subseteq Files
      BY <1>10, <1>y DEF WriteProcess, WriteRecord, Files
    <2>3. identity' \in Identity
      BY <1>10 DEF WriteProcess, WriteRecord, ClaimTypeOK, Identity
    <2>4. QED
      BY <1>10, <2>1, <2>2, <2>3 DEF WriteProcess, WriteRecord, ClaimTypeOK
  <1>11. ASSUME NEW s \in Slots, SyncRecords(s, "parentSync", "owner")
        PROVE  ClaimTypeOK'
    <2>1. job' \in [Slots -> JobType]
      BY <1>11, JobTyped, <1>j DEF SyncRecords, HolderPoints, ClaimPoints, FencePoints
    <2>2. synced' \in SyncedType
      BY <1>11, <1>y DEF SyncRecords, SyncedType, Files
    <2>3. QED
      BY <1>11, <2>1, <2>2 DEF SyncRecords, ClaimTypeOK
  <1>12. ASSUME NEW s \in Slots, SyncRecords(s, "ownerSync", "process")
        PROVE  ClaimTypeOK'
    <2>1. job' \in [Slots -> JobType]
      BY <1>12, JobTyped, <1>j DEF SyncRecords, HolderPoints, ClaimPoints, FencePoints
    <2>2. synced' \in SyncedType
      BY <1>12, <1>y DEF SyncRecords, SyncedType, Files
    <2>3. QED
      BY <1>12, <2>1, <2>2 DEF SyncRecords, ClaimTypeOK
  <1>13. ASSUME NEW s \in Slots, SyncRecords(s, "processSync", "claimed")
        PROVE  ClaimTypeOK'
    <2>1. job' \in [Slots -> JobType]
      BY <1>13, JobTyped, <1>j DEF SyncRecords, HolderPoints, ClaimPoints, FencePoints
    <2>2. synced' \in SyncedType
      BY <1>13, <1>y DEF SyncRecords, SyncedType, Files
    <2>3. QED
      BY <1>13, <2>1, <2>2 DEF SyncRecords, ClaimTypeOK
  <1>14. ASSUME NEW s \in Slots, SyncRecords(s, "fenceSync", "fenceRoot")
        PROVE  ClaimTypeOK'
    <2>1. job' \in [Slots -> JobType]
      BY <1>14, JobTyped, <1>j DEF SyncRecords, HolderPoints, ClaimPoints, FencePoints
    <2>2. synced' \in SyncedType
      BY <1>14, <1>y DEF SyncRecords, SyncedType, Files
    <2>3. QED
      BY <1>14, <2>1, <2>2 DEF SyncRecords, ClaimTypeOK
  <1>15. ASSUME NEW s \in Slots, Launch(s)
        PROVE  ClaimTypeOK'
    <2>1. job' \in [Slots -> JobType]
      BY <1>15, JobTyped, <1>j DEF Launch, HolderPoints, ClaimPoints, FencePoints
    <2>2. runtime' \in [Slots -> BOOLEAN]
      BY <1>15 DEF Launch, ClaimTypeOK
    <2>3. launches' \in Nat
      BY <1>15 DEF Launch, ClaimTypeOK
    <2>4. QED
      BY <1>15, <2>1, <2>2, <2>3 DEF Launch, ClaimTypeOK
  <1>16. ASSUME NEW s \in Slots, RuntimeEnds(s)
        PROVE  ClaimTypeOK'
    <2>1. job' \in [Slots -> JobType]
      BY <1>16, JobTyped, <1>j DEF RuntimeEnds, HolderPoints, ClaimPoints, FencePoints
    <2>2. QED
      BY <1>16, <2>1 DEF RuntimeEnds, ClaimTypeOK
  <1>17. ASSUME NEW s \in Slots, NEW q \in Subjects, FenceUncreated(s, q)
        PROVE  ClaimTypeOK'
    <2>1. job' \in [Slots -> JobType]
      BY <1>17, JobTyped, <1>j DEF FenceUncreated, HolderPoints, ClaimPoints, FencePoints
    <2>2. disk' \subseteq Files
      BY <1>17, <1>y DEF FenceUncreated, Files
    <2>3. QED
      BY <1>17, <2>1, <2>2 DEF FenceUncreated, ClaimTypeOK
  <1>18. ASSUME NEW s \in Slots, WriteFence(s)
        PROVE  ClaimTypeOK'
    <2>1. job' \in [Slots -> JobType]
      BY <1>18, JobTyped, <1>j DEF WriteFence, HolderPoints, ClaimPoints, FencePoints
    <2>2. disk' \subseteq Files
      BY <1>18, <1>y DEF WriteFence, Files
    <2>3. QED
      BY <1>18, <2>1, <2>2 DEF WriteFence, ClaimTypeOK, Jobs
  <1>19. ASSUME NEW s \in Slots, FenceAnswers(s)
        PROVE  ClaimTypeOK'
    <2>1. job' \in [Slots -> JobType]
      BY <1>19, JobTyped, <1>j DEF FenceAnswers, HolderPoints, ClaimPoints, FencePoints
    <2>2. synced' \in SyncedType
      BY <1>19, <1>y DEF FenceAnswers, SyncedType, Files
    <2>3. QED
      BY <1>19, <2>1, <2>2 DEF FenceAnswers, ClaimTypeOK
  <1>20. ASSUME NEW s \in Slots, NEW q \in Subjects, StopRoute(s, q)
        PROVE  ClaimTypeOK'
    BY <1>20 DEF StopRoute, ClaimTypeOK
  <1>21. ASSUME NEW s \in Slots, ScopedCleanup(s)
        PROVE  ClaimTypeOK'
    <2>1. cleanup' \in CleanupType
      <3>1. HistoricalTeardown("parent-journal", s, Owner) \in BOOLEAN
        BY DEF HistoricalTeardown
      <3>2. QED
        BY <1>21, <3>1 DEF ScopedCleanup, CleanupType
    <2>2. confirmed' \in BOOLEAN
      BY <1>21 DEF ScopedCleanup, ClaimTypeOK, HistoricalTeardown, HistoricalOwner, OwnerExited
    <2>3. QED
      BY <1>21, <2>1, <2>2 DEF ScopedCleanup, ClaimTypeOK
  <1>22. ASSUME NEW s \in Slots, ProcessStarts(s)
        PROVE  ClaimTypeOK'
    BY <1>22 DEF ProcessStarts, ClaimTypeOK
  <1>23. ASSUME NEW s \in Slots, ProcessEnds(s)
        PROVE  ClaimTypeOK'
    <2>1. job' \in [Slots -> JobType]
      BY <1>23, JobTyped, <1>j DEF ProcessEnds, HolderPoints, ClaimPoints, FencePoints
    <2>2. proc' \in [Slots -> 0 .. MaxTime + 1] /\ runtime' \in [Slots -> BOOLEAN]
      BY <1>23 DEF ProcessEnds, ClaimTypeOK
    <2>3. QED
      BY <1>23, <2>1, <2>2 DEF ProcessEnds, ClaimTypeOK
  <1>24. CASE CloseAdmission
    BY <1>24 DEF CloseAdmission, ClaimTypeOK
  <1>25. CASE Tick
    BY <1>25 DEF Tick, ClaimTypeOK
  <1>26. CASE PowerLoss
    <2>1. job' \in [Slots -> JobType]
      BY <1>26 DEF PowerLoss, JobType, Idle
    <2>2. synced' \in SyncedType /\ disk' \subseteq Files /\ permits' \subseteq Permit
      BY <1>26, <1>y DEF PowerLoss, SyncedType
    <2>3. identity' \in Identity \cup {None} /\ fencedBy' \in Subjects \cup {None}
      BY <1>26 DEF PowerLoss, ClaimTypeOK
    <2>4. QED
      BY <1>26, <2>1, <2>2, <2>3 DEF PowerLoss, ClaimTypeOK
  <1>27. CASE UNCHANGED claimVars
    BY <1>27 DEF claimVars, ClaimTypeOK
  <1>28. QED
    BY ClaimCases, <1>1, <1>2, <1>3, <1>4, <1>5, <1>6, <1>7, <1>8, <1>9, <1>10,
       <1>11, <1>12, <1>13, <1>14, <1>15, <1>16, <1>17, <1>18, <1>19, <1>20,
       <1>21, <1>22, <1>23, <1>24, <1>25, <1>26, <1>27

(* The initial state. *)
LEMMA ClaimStarts == ClaimInit => ClaimInv
  <1> SUFFICES ASSUME ClaimInit PROVE ClaimInv
    OBVIOUS
  <1>1. Idle \in JobType
    BY DEF Idle, JobType
  <1>2. synced \in SyncedType /\ cleanup \in CleanupType
    BY DEF ClaimInit, SyncedType, CleanupType
  <1>3. ClaimTypeOK
    <2>1. proc \in [Slots -> 0 .. MaxTime + 1] /\ boot \in 1 .. MaxBoots /\ now \in 0 .. MaxTime
      BY ClaimAssumption DEF ClaimInit
    <2>2. QED
      BY <1>1, <1>2, <2>1 DEF ClaimInit, ClaimTypeOK
  <1>4. Jobs /\ Holding /\ Binding
    BY DEF ClaimInit, Idle, Jobs, Holding, Binding, HolderPoints, ClaimPoints, FencePoints, Unbound
  <1>5. Launching /\ Fencing /\ Confirming
    BY DEF ClaimInit, Idle, Launching, Fencing, Confirming, HolderPoints, ClaimPoints, FencePoints
  <1>6. QED
    BY <1>3, <1>4, <1>5 DEF ClaimInv

(* Every reachable state satisfies the invariant. *)
LEMMA ClaimInvariant == ClaimSpec => []ClaimInv
  <1>1. ClaimInv /\ [ClaimNext]_claimVars => ClaimInv'
    BY ClaimTypeStep, JobsStep, HoldingStep, BindingStep, LaunchingStep, FencingStep,
       ConfirmingStep DEF ClaimInv
  <1>2. QED
    BY <1>1, ClaimStarts, PTL DEF ClaimSpec

(* Types: jobs, records and their synced part stay what they are. *)
THEOREM ClaimTyped == ClaimSpec => []ClaimTypeOK
  <1>1. ClaimInv => ClaimTypeOK
    BY DEF ClaimInv
  <1>2. QED
    BY <1>1, ClaimInvariant, PTL

(* One incarnation, one launch; none after a fence has answered true. *)
THEOREM ClaimLaunchesOnce == ClaimSpec => []LaunchedOnce
  <1>1. ClaimInv => LaunchedOnce
    BY DEF ClaimInv, Launching, Fencing, LaunchedOnce
  <1>2. QED
    BY <1>1, ClaimInvariant, PTL

(* A confirmed teardown is true, and stays true. *)
THEOREM ClaimTeardownTruthful == ClaimSpec => []TeardownTruthful
  <1>1. ClaimInv => TeardownTruthful
    BY DEF ClaimInv, Binding, Confirming, Held, ClaimPoints, TeardownTruthful
  <1>2. QED
    BY <1>1, ClaimInvariant, PTL
==============================================================================
