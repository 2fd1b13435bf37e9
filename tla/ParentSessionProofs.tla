------------------------- MODULE ParentSessionProofs -------------------------
(***************************************************************************)
(* Proofs about ParentSession, for any set of turns, any number of readers *)
(* and any admitted budget.                                                *)
(*                                                                         *)
(* The properties are not inductive by themselves: which journal records   *)
(* exist depends on where the owner thread is.  The parts below say what   *)
(* each control point knows about the current turn, and what is left of    *)
(* that knowledge once the owner has failed or died.                       *)
(***************************************************************************)
EXTENDS ParentSession, FiniteSetTheorems, TLAPS

Has(t, s) == Rec(t, s) \in visible
Kept(t, s) == Rec(t, s) \in durable

(* The points at which the journal may hold an unresolved current turn. *)
InFlight == {"syncReserved", "register", "prepare", "running", "confirm",
             "recording", "syncDestroyed", "deliver", "committing",
             "syncCommitted"}

(* The owner thread, its turn and its child. *)
Thread ==
    /\ pc \in Working <=> turn # NoTurn
    /\ ~up => pc = "ended"
    /\ pc = "running" => child = turn
    /\ pc # "running" => child = NoTurn

(* What each control point knows of the current turn's records. *)
Progress ==
    /\ pc = "syncReserved" =>
         Has(turn, "reserved") /\ ~Kept(turn, "reserved") /\ ~Has(turn, "destroyed")
    /\ pc \in {"register", "prepare", "running", "confirm", "recording"} =>
         Kept(turn, "reserved") /\ ~Has(turn, "destroyed")
    /\ pc = "syncDestroyed" =>
         Has(turn, "destroyed") /\ ~Kept(turn, "destroyed") /\ ~Has(turn, "committed")
    /\ pc \in {"deliver", "committing"} =>
         Kept(turn, "destroyed") /\ ~Has(turn, "committed")
    /\ pc = "syncCommitted" => Has(turn, "committed") /\ ~Kept(turn, "committed")
    /\ pc = "retire" => Kept(turn, "committed")
    /\ pc = "answer" /\ result # "none" => Kept(turn, "committed")

(* Each stage is published on a synced predecessor; at most one record is   *)
(* visible and not synced, and a live owner is about to sync it.            *)
Chain ==
    /\ durable \subseteq visible
    /\ \A t \in Turns :
         /\ Has(t, "destroyed") => Kept(t, "reserved")
         /\ Has(t, "committed") => Kept(t, "destroyed")
    /\ \A x, y \in visible \ durable : x = y
    /\ visible # durable =>
         pc \in {"syncReserved", "syncDestroyed", "syncCommitted", "failed", "ended"}

(* A turn is reserved only when every earlier one is committed for good.    *)
Serial ==
    /\ \A t, u \in Turns :
         t # u /\ Has(t, "reserved") /\ Has(u, "reserved") =>
            Kept(t, "committed") \/ Kept(u, "committed")
    /\ pc \notin {"failed", "ended"} =>
         \A t \in Turns : Has(t, "reserved") =>
            Kept(t, "committed") \/ (t = turn /\ pc \in InFlight)

(* The launches of a turn. *)
Launches ==
    /\ \A t \in Turns : runs[t] > 0 => runs[t] = 1 /\ Kept(t, "reserved")
    /\ pc \in {"register", "prepare"} => runs[turn] = 0

(* The result travels unchanged from the worker to the record. *)
Outcome ==
    /\ pc \in {"confirm", "recording", "syncDestroyed", "deliver", "committing",
               "syncCommitted", "retire"} <=> (result # "none" /\ pc # "answer")
    /\ pc \in {"syncDestroyed", "deliver", "committing", "syncCommitted", "retire", "answer"}
         /\ result # "none" => recorded[turn] = result

(* The ledger and its ties to the journal. *)
Ledger ==
    /\ IsFiniteSet(lease.seen)
    /\ pc \in InFlight \cup {"reserving"} => turn \in lease.seen
    /\ \A t \in Turns : Has(t, "reserved") => t \in lease.seen

(* A reader that found a commit will find the destruction. *)
Reading ==
    \A r \in Readers :
        /\ reader[r].answer # "invalid"
        /\ reader[r].turn # NoTurn =>
             /\ reader[r].done = 0 => reader[r].found = {}
             /\ reader[r].done = 1 => reader[r].found = {"reserved"}
             /\ reader[r].done = 2 =>
                  \/ reader[r].found = {"reserved"}
                  \/ /\ reader[r].found = {"reserved", "committed"}
                     /\ Has(reader[r].turn, "destroyed")

(* A doomed turn is stuck before its delivery. *)
Doomed ==
    /\ doomed # {} => stopped
    /\ turn \in doomed => pc \in BeforeDelivery

(* The points at which an operation of the host may fail. *)
FailPoints == {"start", "asked", "granted", "reserving", "syncReserved",
               "register", "prepare", "recording", "syncDestroyed", "deliver",
               "committing", "syncCommitted", "answer"}

(* The disjuncts of the next-state relation, with the failing host operations *)
(* gathered into one.                                                         *)
LEMMA NextCases ==
    ASSUME [Next]_vars
    PROVE  \/ Reserve
           \/ JournalReservation
           \/ SyncReservation
           \/ Register
           \/ NoChild
           \/ LaunchChild
           \/ (\E r \in {"ok", "failed"} : ChildEnds(r))
           \/ ChildErrs
           \/ Confirm
           \/ JournalDestroyed
           \/ SyncDestroyed
           \/ Deliver
           \/ JournalCommit
           \/ SyncCommit
           \/ Retire
           \/ Answer
           \/ DropRuntime
           \/ (\E p \in FailPoints : Fails(p))
           \/ GuestSpawns
           \/ GuestRefuses
           \/ (\E s \in BOOLEAN : Start(s))
           \/ (\E t \in Turns, o \in BOOLEAN : Submit(t, o))
           \/ (\E t \in Turns : CancelChild(t))
           \/ StopParent
           \/ (\E r \in Readers, t \in Turns : Inspect(r, t))
           \/ (\E r \in Readers : ReadRecord(r))
           \/ DeadlinePasses
           \/ Crash
           \/ PowerLoss
           \/ UNCHANGED vars
  <1>1. ASSUME ReserveRefused \/ AnswerStopped \/ HostFails \/ GuestBreaks
        PROVE  \E p \in FailPoints : Fails(p)
    BY <1>1 DEF ReserveRefused, AnswerStopped, HostFails, GuestBreaks, FailPoints
  <1>2. QED
    BY <1>1 DEF Next, OwnerStep, GuestStep, ClientStep, ReaderStep, HostStep


(* A record is its turn and its stage. *)
LEMMA RecInjective ==
    ASSUME NEW t, NEW u, NEW s, NEW z
    PROVE  (Rec(t, s) = Rec(u, z)) <=> (t = u /\ s = z)
  BY DEF Rec

(* Such a pair is a journal record. *)
LEMMA RecType ==
    ASSUME NEW t \in Turns, NEW s \in Stages
    PROVE  Rec(t, s) \in Record
  BY DEF Rec, Record


(* The ledger's operators return ledgers. *)
LEMMA LeaseOps ==
    ASSUME NEW l \in Lease
    PROVE  /\ \A b \in BOOLEAN : Observed(l, b) \in Lease
           /\ \A t \in Turns : Reserved(l, t) \in Lease
           /\ ChildConfirmed(l) \in Lease
           /\ Stopped(l) \in Lease
  <1>1. \A b \in BOOLEAN : Observed(l, b) \in Lease
    BY DEF Lease, Observed
  <1>2. \A t \in Turns : Reserved(l, t) \in Lease
    <2>1. SUFFICES ASSUME NEW t \in Turns PROVE Reserved(l, t) \in Lease
      OBVIOUS
    <2>2. /\ l.turns - 1 \in Int /\ l.requests - TurnRequests \in Int
          /\ l.tokens - TurnTokens \in Int /\ l.seen \cup {t} \in SUBSET Turns
      BY LeaseAssumption DEF Lease
    <2>3. QED
      BY <2>2 DEF Lease, Reserved
  <1>3. ChildConfirmed(l) \in Lease /\ Stopped(l) \in Lease
    BY DEF Lease, ChildConfirmed, Stopped
  <1>4. QED
    BY <1>1, <1>2, <1>3

(* A remembered history is a history. *)
LEMMA RememberedType ==
    ASSUME NEW h \in Seq(Turns \cup {Seeded}), NEW t \in Turns
    PROVE  Remembered(h, t) \in Seq(Turns \cup {Seeded})
  <1> DEFINE all == Append(h, t)
             excess == IF Len(all) > HistoryLimit THEN Len(all) - HistoryLimit ELSE 0
  <1>1. all \in Seq(Turns \cup {Seeded}) /\ Len(all) \in Nat
    OBVIOUS
  <1>2. excess \in 0 .. Len(all)
    BY <1>1, SessionAssumption
  <1>3. SubSeq(all, excess + 1, Len(all)) \in Seq(Turns \cup {Seeded})
    <2>1. \A i \in (excess + 1) .. Len(all) : all[i] \in Turns \cup {Seeded}
      BY <1>1, <1>2
    <2> HIDE DEF all, excess
    <2>2. QED
      BY <1>1, <1>2, <2>1
  <1>4. QED
    BY <1>3 DEF Remembered

(* turn_status answers with one of its results. *)
LEMMA TurnStatusType ==
    ASSUME NEW f
    PROVE  TurnStatus(f) \in Answers
  BY DEF TurnStatus, Answers

(* Every step keeps the types. *)
LEMMA TypeStep ==
    ASSUME TypeOK, Thread, [Next]_vars
    PROVE  TypeOK'
  <1> USE LeaseAssumption, SessionAssumption, RecType DEF TypeOK, Thread, Working, Points, Stages, owner, journal, ghosts
  <1>1. CASE Reserve
    <2>1. lease' \in Lease
      BY <1>1, LeaseOps DEF Reserve, At
    <2>2. QED
      BY <1>1, <2>1 DEF Reserve, At
  <1>2. CASE JournalReservation
    BY <1>2 DEF JournalReservation, Publish, Persist, MayPublish, At
  <1>3. CASE SyncReservation
    BY <1>3 DEF SyncReservation, Sync, SyncJournal, At
  <1>4. CASE Register
    BY <1>4 DEF Register, At, SlotState
  <1>5. CASE NoChild
    BY <1>5 DEF NoChild, At
  <1>6. CASE LaunchChild
    BY <1>6 DEF LaunchChild, At
  <1>7. CASE \E r \in {"ok", "failed"} : ChildEnds(r)
    BY <1>7 DEF ChildEnds, At
  <1>8. CASE ChildErrs
    <2>1. lease' \in Lease
      BY <1>8, LeaseOps DEF ChildErrs, At, Fail
    <2>2. QED
      BY <1>8, <2>1 DEF ChildErrs, At, Fail
  <1>9. CASE Confirm
    <2>1. lease' \in Lease
      BY <1>9, LeaseOps DEF Confirm, At
    <2>2. QED
      BY <1>9, <2>1 DEF Confirm, At
  <1>10. CASE JournalDestroyed
    BY <1>10 DEF JournalDestroyed, Publish, Persist, MayPublish, At
  <1>11. CASE SyncDestroyed
    BY <1>11 DEF SyncDestroyed, Sync, SyncJournal, At
  <1>12. CASE Deliver
    <2>1. turn \in Turns
      BY <1>12 DEF Deliver, At
    <2>2. guest' \in GuestState
      <3>1. guest.history \in Seq(Turns \cup {Seeded})
        BY DEF GuestState
      <3>2. Remembered(guest.history, turn) \in Seq(Turns \cup {Seeded})
        BY <2>1, <3>1, RememberedType
      <3>3. QED
        BY <1>12, <3>1, <3>2 DEF Deliver, At, GuestState
    <2>3. QED
      BY <1>12, <2>2 DEF Deliver, At
  <1>13. CASE JournalCommit
    BY <1>13 DEF JournalCommit, Publish, Persist, MayPublish, At
  <1>14. CASE SyncCommit
    BY <1>14 DEF SyncCommit, Sync, SyncJournal, At
  <1>15. CASE Retire
    BY <1>15 DEF Retire, At, SlotState
  <1>16. CASE Answer
    BY <1>16 DEF Answer, At
  <1>17. CASE DropRuntime
    BY <1>17 DEF DropRuntime, GuestState
  <1>18. CASE \E p \in FailPoints : Fails(p)
    <2>1. PICK p \in FailPoints : Fails(p)
      BY <1>18
    <2>2. lease' \in Lease
      BY <2>1, LeaseOps DEF Fails, At, Fail
    <2>3. reply' \in [Turns -> {"none", "refused", "ok", "failed", "error"}]
      BY <2>1 DEF Fails, At, Fail
    <2>4. QED
      BY <2>1, <2>2, <2>3 DEF Fails, At, Fail
  <1>19. CASE GuestSpawns
    BY <1>19 DEF GuestSpawns, At, GuestState
  <1>20. CASE GuestRefuses
    BY <1>20 DEF GuestRefuses, At
  <1>21. CASE \E s \in BOOLEAN : Start(s)
    <2>1. PICK s \in BOOLEAN : Start(s)
      BY <1>21
    <2>2. <<Seeded>> \in Seq(Turns \cup {Seeded})
      OBVIOUS
    <2>3. guest' \in GuestState
      BY <2>1, <2>2 DEF Start, At, GuestState
    <2>4. QED
      BY <2>1, <2>3 DEF Start, At
  <1>22. CASE \E t \in Turns, o \in BOOLEAN : Submit(t, o)
    <2>1. PICK t \in Turns, o \in BOOLEAN : Submit(t, o)
      BY <1>22
    <2>a. Observed(lease, expired) \in Lease
      BY LeaseOps
    <2>b. Stopped(Observed(lease, expired)) \in Lease
      BY <2>a, LeaseOps
    <2>2. lease' \in Lease
      BY <2>1, <2>a, <2>b DEF Submit, At
    <2>3. reply' \in [Turns -> {"none", "refused", "ok", "failed", "error"}]
      BY <2>1 DEF Submit, At
    <2>4. pc' \in Points /\ turn' \in Turns \cup {NoTurn} /\ stopped' \in BOOLEAN
      BY <2>1 DEF Submit, At
    <2>5. QED
      BY <2>1, <2>2, <2>3, <2>4 DEF Submit, At
  <1>23. CASE \E t \in Turns : CancelChild(t)
    <2>1. PICK t \in Turns : CancelChild(t)
      BY <1>23
    <2>2. slot' \in SlotState
      BY <2>1 DEF CancelChild, SlotState
    <2>3. cancels' \subseteq Turns
      BY <2>1 DEF CancelChild
    <2>4. QED
      BY <2>1, <2>2, <2>3 DEF CancelChild
  <1>24. CASE StopParent
    <2>1. doomed' \subseteq Turns
      BY <1>24 DEF StopParent, BeforeDelivery
    <2>2. QED
      BY <1>24, <2>1 DEF StopParent
  <1>25. CASE \E r \in Readers, t \in Turns : Inspect(r, t)
    <2>1. PICK r \in Readers, t \in Turns : Inspect(r, t)
      BY <1>25
    <2>2. QED
      BY <2>1 DEF Inspect, ReaderState, Answers
  <1>26. CASE \E r \in Readers : ReadRecord(r)
    <2>1. PICK r \in Readers : ReadRecord(r)
      BY <1>26
    <2> DEFINE t == reader[r].turn
               n == reader[r].done + 1
               found == reader[r].found \cup {s \in {InspectOrder[n]} : Rec(t, s) \in visible}
    <2>2. n \in 1 .. 3 /\ t \in Turns /\ reader[r].found \subseteq Stages
      <3>1. reader[r] \in ReaderState /\ reader[r].turn # NoTurn
        BY <2>1 DEF ReadRecord
      <3>2. QED
        BY <3>1 DEF ReaderState
    <2>3. InspectOrder[n] \in Stages
      BY <2>2 DEF InspectOrder
    <2>4. found \in SUBSET Stages
      BY <2>2, <2>3
    <2>5. TurnStatus(found) \in Answers
      BY TurnStatusType
    <2>6. reader' = [reader EXCEPT ![r] =
             IF n = 3 \/ found = {}
             THEN [turn |-> NoTurn, done |-> 0, found |-> {}, answer |-> TurnStatus(found)]
             ELSE [turn |-> t, done |-> n, found |-> found, answer |-> "none"]]
      BY <2>1 DEF ReadRecord
    <2> HIDE DEF found, n, t
    <2>7. (IF n = 3 \/ found = {}
           THEN [turn |-> NoTurn, done |-> 0, found |-> {}, answer |-> TurnStatus(found)]
           ELSE [turn |-> t, done |-> n, found |-> found, answer |-> "none"]) \in ReaderState
      BY <2>2, <2>4, <2>5 DEF ReaderState, Answers
    <2>8. reader' \in [Readers -> ReaderState]
      BY <2>6, <2>7
    <2>9. QED
      BY <2>1, <2>8 DEF ReadRecord
  <1>27. CASE DeadlinePasses
    BY <1>27 DEF DeadlinePasses
  <1>28. CASE Crash
    BY <1>28 DEF Crash, ProcessGone, SlotState, GuestState
  <1>29. CASE PowerLoss
    <2>1. PICK kept \in SUBSET (visible \ durable) :
            visible' = durable \cup kept /\ durable' = durable \cup kept
      BY <1>29 DEF PowerLoss
    <2>2. visible' \subseteq Record /\ durable' \subseteq Record
      BY <2>1
    <2>3. reader' \in [Readers -> ReaderState]
      BY <1>29 DEF PowerLoss, ReaderState, IdleReader, Answers
    <2>4. slot' \in SlotState
      BY <1>29 DEF PowerLoss, ProcessGone, SlotState
    <2>5. guest' \in GuestState
      BY <1>29 DEF PowerLoss, ProcessGone, GuestState
    <2>6. QED
      BY <1>29, <2>2, <2>3, <2>4, <2>5 DEF PowerLoss, ProcessGone
  <1>30. CASE UNCHANGED vars
    BY <1>30 DEF vars
  <1>31. QED
    BY <1>1, <1>2, <1>3, <1>4, <1>5, <1>6, <1>7, <1>8, <1>9, <1>10, <1>11, <1>12, <1>13, <1>14, <1>15, <1>16, <1>17, <1>18, <1>19, <1>20, <1>21, <1>22, <1>23, <1>24, <1>25, <1>26, <1>27, <1>28, <1>29, <1>30, NextCases

(* The owner's control point, turn and child stay consistent. *)
LEMMA ThreadStep ==
    ASSUME TypeOK, Thread, [Next]_vars
    PROVE  Thread'
  <1> USE LeaseAssumption DEF TypeOK, Thread, Working, Points, owner, journal, ghosts
  <1>1. CASE Reserve
    BY <1>1 DEF Reserve, At, Observed, Reserved, MayReserve
  <1>2. CASE JournalReservation
    BY <1>2 DEF JournalReservation, Publish, Persist, MayPublish, At
  <1>3. CASE SyncReservation
    BY <1>3 DEF SyncReservation, Sync, SyncJournal, At
  <1>4. CASE Register
    BY <1>4 DEF Register, At, SlotState
  <1>5. CASE NoChild
    BY <1>5 DEF NoChild, At
  <1>6. CASE LaunchChild
    BY <1>6 DEF LaunchChild, At
  <1>7. CASE \E r \in {"ok", "failed"} : ChildEnds(r)
    BY <1>7 DEF ChildEnds, At
  <1>8. CASE ChildErrs
    BY <1>8 DEF ChildErrs, At, Fail, Stopped
  <1>9. CASE Confirm
    BY <1>9 DEF Confirm, At, ChildConfirmed
  <1>10. CASE JournalDestroyed
    BY <1>10 DEF JournalDestroyed, Publish, Persist, MayPublish, At
  <1>11. CASE SyncDestroyed
    BY <1>11 DEF SyncDestroyed, Sync, SyncJournal, At
  <1>12. CASE Deliver
    BY <1>12 DEF Deliver, At
  <1>13. CASE JournalCommit
    BY <1>13 DEF JournalCommit, Publish, Persist, MayPublish, At
  <1>14. CASE SyncCommit
    BY <1>14 DEF SyncCommit, Sync, SyncJournal, At
  <1>15. CASE Retire
    BY <1>15 DEF Retire, At, SlotState
  <1>16. CASE Answer
    BY <1>16 DEF Answer, At
  <1>17. CASE DropRuntime
    BY <1>17 DEF DropRuntime, GuestState
  <1>18. CASE \E p \in FailPoints : Fails(p)
    BY <1>18 DEF FailPoints, Fails, At, Fail, Stopped
  <1>19. CASE GuestSpawns
    BY <1>19 DEF GuestSpawns, At, GuestState
  <1>20. CASE GuestRefuses
    BY <1>20 DEF GuestRefuses, At
  <1>21. CASE \E s \in BOOLEAN : Start(s)
    BY <1>21 DEF Start, At
  <1>22. CASE \E t \in Turns, o \in BOOLEAN : Submit(t, o)
    BY <1>22 DEF Submit, At, Observed, Stopped
  <1>23. CASE \E t \in Turns : CancelChild(t)
    BY <1>23 DEF CancelChild
  <1>24. CASE StopParent
    BY <1>24 DEF StopParent
  <1>25. CASE \E r \in Readers, t \in Turns : Inspect(r, t)
    BY <1>25 DEF Inspect, ReaderState, Answers
  <1>26. CASE \E r \in Readers : ReadRecord(r)
    BY <1>26 DEF ReadRecord
  <1>27. CASE DeadlinePasses
    BY <1>27 DEF DeadlinePasses
  <1>28. CASE Crash
    BY <1>28 DEF Crash, ProcessGone, SlotState, GuestState
  <1>29. CASE PowerLoss
    BY <1>29 DEF PowerLoss, ProcessGone
  <1>30. CASE UNCHANGED vars
    BY <1>30 DEF vars
  <1>31. QED
    BY <1>1, <1>2, <1>3, <1>4, <1>5, <1>6, <1>7, <1>8, <1>9, <1>10, <1>11, <1>12, <1>13, <1>14, <1>15, <1>16, <1>17, <1>18, <1>19, <1>20, <1>21, <1>22, <1>23, <1>24, <1>25, <1>26, <1>27, <1>28, <1>29, <1>30, NextCases

(* Every step keeps the records chained. *)
LEMMA ChainStep ==
    ASSUME TypeOK, Thread, Progress, Chain, [Next]_vars
    PROVE  Chain'
  <1> USE LeaseAssumption, RecInjective DEF TypeOK, Thread, Working, Points, Progress, Chain, Has, Kept, Stages, owner, journal, ghosts
  <1>1. CASE Reserve
    BY <1>1 DEF Reserve, At, Observed, Reserved, MayReserve
  <1>2. CASE JournalReservation
    BY <1>2 DEF JournalReservation, Publish, Persist, MayPublish, At
  <1>3. CASE SyncReservation
    BY <1>3 DEF SyncReservation, Sync, SyncJournal, At
  <1>4. CASE Register
    BY <1>4 DEF Register, At, SlotState
  <1>5. CASE NoChild
    BY <1>5 DEF NoChild, At
  <1>6. CASE LaunchChild
    BY <1>6 DEF LaunchChild, At
  <1>7. CASE \E r \in {"ok", "failed"} : ChildEnds(r)
    BY <1>7 DEF ChildEnds, At
  <1>8. CASE ChildErrs
    BY <1>8 DEF ChildErrs, At, Fail, Stopped
  <1>9. CASE Confirm
    BY <1>9 DEF Confirm, At, ChildConfirmed
  <1>10. CASE JournalDestroyed
    BY <1>10 DEF JournalDestroyed, Publish, Persist, MayPublish, At
  <1>11. CASE SyncDestroyed
    BY <1>11 DEF SyncDestroyed, Sync, SyncJournal, At
  <1>12. CASE Deliver
    BY <1>12 DEF Deliver, At
  <1>13. CASE JournalCommit
    BY <1>13 DEF JournalCommit, Publish, Persist, MayPublish, At
  <1>14. CASE SyncCommit
    BY <1>14 DEF SyncCommit, Sync, SyncJournal, At
  <1>15. CASE Retire
    BY <1>15 DEF Retire, At, SlotState
  <1>16. CASE Answer
    BY <1>16 DEF Answer, At
  <1>17. CASE DropRuntime
    BY <1>17 DEF DropRuntime, GuestState
  <1>18. CASE \E p \in FailPoints : Fails(p)
    BY <1>18 DEF FailPoints, Fails, At, Fail, Stopped
  <1>19. CASE GuestSpawns
    BY <1>19 DEF GuestSpawns, At, GuestState
  <1>20. CASE GuestRefuses
    BY <1>20 DEF GuestRefuses, At
  <1>21. CASE \E s \in BOOLEAN : Start(s)
    BY <1>21 DEF Start, At
  <1>22. CASE \E t \in Turns, o \in BOOLEAN : Submit(t, o)
    BY <1>22 DEF Submit, At, Observed, Stopped
  <1>23. CASE \E t \in Turns : CancelChild(t)
    BY <1>23 DEF CancelChild
  <1>24. CASE StopParent
    BY <1>24 DEF StopParent
  <1>25. CASE \E r \in Readers, t \in Turns : Inspect(r, t)
    BY <1>25 DEF Inspect, ReaderState, Answers
  <1>26. CASE \E r \in Readers : ReadRecord(r)
    BY <1>26 DEF ReadRecord
  <1>27. CASE DeadlinePasses
    BY <1>27 DEF DeadlinePasses
  <1>28. CASE Crash
    BY <1>28 DEF Crash, ProcessGone, SlotState, GuestState
  <1>29. CASE PowerLoss
    BY <1>29 DEF PowerLoss, ProcessGone
  <1>30. CASE UNCHANGED vars
    BY <1>30 DEF vars
  <1>31. QED
    BY <1>1, <1>2, <1>3, <1>4, <1>5, <1>6, <1>7, <1>8, <1>9, <1>10, <1>11, <1>12, <1>13, <1>14, <1>15, <1>16, <1>17, <1>18, <1>19, <1>20, <1>21, <1>22, <1>23, <1>24, <1>25, <1>26, <1>27, <1>28, <1>29, <1>30, NextCases

(* Every step keeps what a control point knows. *)
LEMMA ProgressStep ==
    ASSUME TypeOK, Thread, Progress, Chain, Serial, Outcome, [Next]_vars
    PROVE  Progress'
  <1> USE LeaseAssumption, RecInjective DEF TypeOK, Thread, Working, Points, Progress, Chain, Serial, Outcome, InFlight, Has, Kept, Stages, owner, journal, ghosts
  <1>1. CASE Reserve
    BY <1>1 DEF Reserve, At, Observed, Reserved, MayReserve
  <1>2. CASE JournalReservation
    BY <1>2 DEF JournalReservation, Publish, Persist, MayPublish, At
  <1>3. CASE SyncReservation
    BY <1>3 DEF SyncReservation, Sync, SyncJournal, At
  <1>4. CASE Register
    BY <1>4 DEF Register, At, SlotState
  <1>5. CASE NoChild
    BY <1>5 DEF NoChild, At
  <1>6. CASE LaunchChild
    BY <1>6 DEF LaunchChild, At
  <1>7. CASE \E r \in {"ok", "failed"} : ChildEnds(r)
    BY <1>7 DEF ChildEnds, At
  <1>8. CASE ChildErrs
    BY <1>8 DEF ChildErrs, At, Fail, Stopped
  <1>9. CASE Confirm
    BY <1>9 DEF Confirm, At, ChildConfirmed
  <1>10. CASE JournalDestroyed
    BY <1>10 DEF JournalDestroyed, Publish, Persist, MayPublish, At
  <1>11. CASE SyncDestroyed
    BY <1>11 DEF SyncDestroyed, Sync, SyncJournal, At
  <1>12. CASE Deliver
    BY <1>12 DEF Deliver, At
  <1>13. CASE JournalCommit
    BY <1>13 DEF JournalCommit, Publish, Persist, MayPublish, At
  <1>14. CASE SyncCommit
    BY <1>14 DEF SyncCommit, Sync, SyncJournal, At
  <1>15. CASE Retire
    BY <1>15 DEF Retire, At, SlotState
  <1>16. CASE Answer
    BY <1>16 DEF Answer, At
  <1>17. CASE DropRuntime
    BY <1>17 DEF DropRuntime, GuestState
  <1>18. CASE \E p \in FailPoints : Fails(p)
    BY <1>18 DEF FailPoints, Fails, At, Fail, Stopped
  <1>19. CASE GuestSpawns
    BY <1>19 DEF GuestSpawns, At, GuestState
  <1>20. CASE GuestRefuses
    BY <1>20 DEF GuestRefuses, At
  <1>21. CASE \E s \in BOOLEAN : Start(s)
    BY <1>21 DEF Start, At
  <1>22. CASE \E t \in Turns, o \in BOOLEAN : Submit(t, o)
    BY <1>22 DEF Submit, At, Observed, Stopped
  <1>23. CASE \E t \in Turns : CancelChild(t)
    BY <1>23 DEF CancelChild
  <1>24. CASE StopParent
    BY <1>24 DEF StopParent
  <1>25. CASE \E r \in Readers, t \in Turns : Inspect(r, t)
    BY <1>25 DEF Inspect, ReaderState, Answers
  <1>26. CASE \E r \in Readers : ReadRecord(r)
    BY <1>26 DEF ReadRecord
  <1>27. CASE DeadlinePasses
    BY <1>27 DEF DeadlinePasses
  <1>28. CASE Crash
    BY <1>28 DEF Crash, ProcessGone, SlotState, GuestState
  <1>29. CASE PowerLoss
    BY <1>29 DEF PowerLoss, ProcessGone
  <1>30. CASE UNCHANGED vars
    BY <1>30 DEF vars
  <1>31. QED
    BY <1>1, <1>2, <1>3, <1>4, <1>5, <1>6, <1>7, <1>8, <1>9, <1>10, <1>11, <1>12, <1>13, <1>14, <1>15, <1>16, <1>17, <1>18, <1>19, <1>20, <1>21, <1>22, <1>23, <1>24, <1>25, <1>26, <1>27, <1>28, <1>29, <1>30, NextCases

(* Every step keeps the turns serial. *)
LEMMA SerialStep ==
    ASSUME TypeOK, Thread, Progress, Chain, Serial, Outcome, [Next]_vars
    PROVE  Serial'
  <1> USE LeaseAssumption, RecInjective DEF TypeOK, Thread, Working, Points, Progress, Chain, Serial, Outcome, InFlight, Has, Kept, Stages, owner, journal, ghosts
  <1>1. CASE Reserve
    BY <1>1 DEF Reserve, At, Observed, Reserved, MayReserve
  <1>2. CASE JournalReservation
    BY <1>2 DEF JournalReservation, Publish, Persist, MayPublish, At
  <1>3. CASE SyncReservation
    BY <1>3 DEF SyncReservation, Sync, SyncJournal, At
  <1>4. CASE Register
    BY <1>4 DEF Register, At, SlotState
  <1>5. CASE NoChild
    BY <1>5 DEF NoChild, At
  <1>6. CASE LaunchChild
    BY <1>6 DEF LaunchChild, At
  <1>7. CASE \E r \in {"ok", "failed"} : ChildEnds(r)
    BY <1>7 DEF ChildEnds, At
  <1>8. CASE ChildErrs
    BY <1>8 DEF ChildErrs, At, Fail, Stopped
  <1>9. CASE Confirm
    BY <1>9 DEF Confirm, At, ChildConfirmed
  <1>10. CASE JournalDestroyed
    BY <1>10 DEF JournalDestroyed, Publish, Persist, MayPublish, At
  <1>11. CASE SyncDestroyed
    BY <1>11 DEF SyncDestroyed, Sync, SyncJournal, At
  <1>12. CASE Deliver
    BY <1>12 DEF Deliver, At
  <1>13. CASE JournalCommit
    BY <1>13 DEF JournalCommit, Publish, Persist, MayPublish, At
  <1>14. CASE SyncCommit
    BY <1>14 DEF SyncCommit, Sync, SyncJournal, At
  <1>15. CASE Retire
    BY <1>15 DEF Retire, At, SlotState
  <1>16. CASE Answer
    BY <1>16 DEF Answer, At
  <1>17. CASE DropRuntime
    BY <1>17 DEF DropRuntime, GuestState
  <1>18. CASE \E p \in FailPoints : Fails(p)
    BY <1>18 DEF FailPoints, Fails, At, Fail, Stopped
  <1>19. CASE GuestSpawns
    BY <1>19 DEF GuestSpawns, At, GuestState
  <1>20. CASE GuestRefuses
    BY <1>20 DEF GuestRefuses, At
  <1>21. CASE \E s \in BOOLEAN : Start(s)
    BY <1>21 DEF Start, At
  <1>22. CASE \E t \in Turns, o \in BOOLEAN : Submit(t, o)
    BY <1>22 DEF Submit, At, Observed, Stopped
  <1>23. CASE \E t \in Turns : CancelChild(t)
    BY <1>23 DEF CancelChild
  <1>24. CASE StopParent
    BY <1>24 DEF StopParent
  <1>25. CASE \E r \in Readers, t \in Turns : Inspect(r, t)
    BY <1>25 DEF Inspect, ReaderState, Answers
  <1>26. CASE \E r \in Readers : ReadRecord(r)
    BY <1>26 DEF ReadRecord
  <1>27. CASE DeadlinePasses
    BY <1>27 DEF DeadlinePasses
  <1>28. CASE Crash
    BY <1>28 DEF Crash, ProcessGone, SlotState, GuestState
  <1>29. CASE PowerLoss
    BY <1>29 DEF PowerLoss, ProcessGone
  <1>30. CASE UNCHANGED vars
    BY <1>30 DEF vars
  <1>31. QED
    BY <1>1, <1>2, <1>3, <1>4, <1>5, <1>6, <1>7, <1>8, <1>9, <1>10, <1>11, <1>12, <1>13, <1>14, <1>15, <1>16, <1>17, <1>18, <1>19, <1>20, <1>21, <1>22, <1>23, <1>24, <1>25, <1>26, <1>27, <1>28, <1>29, <1>30, NextCases

(* Every step keeps launches single and reserved. *)
LEMMA LaunchesStep ==
    ASSUME TypeOK, Thread, Progress, Chain, Launches, [Next]_vars
    PROVE  Launches'
  <1> USE LeaseAssumption, RecInjective DEF TypeOK, Thread, Working, Points, Progress, Chain, Launches, Has, Kept, Stages, owner, journal, ghosts
  <1>1. CASE Reserve
    BY <1>1 DEF Reserve, At, Observed, Reserved, MayReserve
  <1>2. CASE JournalReservation
    BY <1>2 DEF JournalReservation, Publish, Persist, MayPublish, At
  <1>3. CASE SyncReservation
    BY <1>3 DEF SyncReservation, Sync, SyncJournal, At
  <1>4. CASE Register
    BY <1>4 DEF Register, At, SlotState
  <1>5. CASE NoChild
    BY <1>5 DEF NoChild, At
  <1>6. CASE LaunchChild
    BY <1>6 DEF LaunchChild, At
  <1>7. CASE \E r \in {"ok", "failed"} : ChildEnds(r)
    BY <1>7 DEF ChildEnds, At
  <1>8. CASE ChildErrs
    BY <1>8 DEF ChildErrs, At, Fail, Stopped
  <1>9. CASE Confirm
    BY <1>9 DEF Confirm, At, ChildConfirmed
  <1>10. CASE JournalDestroyed
    BY <1>10 DEF JournalDestroyed, Publish, Persist, MayPublish, At
  <1>11. CASE SyncDestroyed
    BY <1>11 DEF SyncDestroyed, Sync, SyncJournal, At
  <1>12. CASE Deliver
    BY <1>12 DEF Deliver, At
  <1>13. CASE JournalCommit
    BY <1>13 DEF JournalCommit, Publish, Persist, MayPublish, At
  <1>14. CASE SyncCommit
    BY <1>14 DEF SyncCommit, Sync, SyncJournal, At
  <1>15. CASE Retire
    BY <1>15 DEF Retire, At, SlotState
  <1>16. CASE Answer
    BY <1>16 DEF Answer, At
  <1>17. CASE DropRuntime
    BY <1>17 DEF DropRuntime, GuestState
  <1>18. CASE \E p \in FailPoints : Fails(p)
    BY <1>18 DEF FailPoints, Fails, At, Fail, Stopped
  <1>19. CASE GuestSpawns
    BY <1>19 DEF GuestSpawns, At, GuestState
  <1>20. CASE GuestRefuses
    BY <1>20 DEF GuestRefuses, At
  <1>21. CASE \E s \in BOOLEAN : Start(s)
    BY <1>21 DEF Start, At
  <1>22. CASE \E t \in Turns, o \in BOOLEAN : Submit(t, o)
    BY <1>22 DEF Submit, At, Observed, Stopped
  <1>23. CASE \E t \in Turns : CancelChild(t)
    BY <1>23 DEF CancelChild
  <1>24. CASE StopParent
    BY <1>24 DEF StopParent
  <1>25. CASE \E r \in Readers, t \in Turns : Inspect(r, t)
    BY <1>25 DEF Inspect, ReaderState, Answers
  <1>26. CASE \E r \in Readers : ReadRecord(r)
    BY <1>26 DEF ReadRecord
  <1>27. CASE DeadlinePasses
    BY <1>27 DEF DeadlinePasses
  <1>28. CASE Crash
    BY <1>28 DEF Crash, ProcessGone, SlotState, GuestState
  <1>29. CASE PowerLoss
    BY <1>29 DEF PowerLoss, ProcessGone
  <1>30. CASE UNCHANGED vars
    BY <1>30 DEF vars
  <1>31. QED
    BY <1>1, <1>2, <1>3, <1>4, <1>5, <1>6, <1>7, <1>8, <1>9, <1>10, <1>11, <1>12, <1>13, <1>14, <1>15, <1>16, <1>17, <1>18, <1>19, <1>20, <1>21, <1>22, <1>23, <1>24, <1>25, <1>26, <1>27, <1>28, <1>29, <1>30, NextCases

(* Every step keeps the outcome. *)
LEMMA OutcomeStep ==
    ASSUME TypeOK, Thread, Outcome, [Next]_vars
    PROVE  Outcome'
  <1> USE LeaseAssumption DEF TypeOK, Thread, Working, Points, Outcome, owner, journal, ghosts
  <1>1. CASE Reserve
    BY <1>1 DEF Reserve, At, Observed, Reserved, MayReserve
  <1>2. CASE JournalReservation
    BY <1>2 DEF JournalReservation, Publish, Persist, MayPublish, At
  <1>3. CASE SyncReservation
    BY <1>3 DEF SyncReservation, Sync, SyncJournal, At
  <1>4. CASE Register
    BY <1>4 DEF Register, At, SlotState
  <1>5. CASE NoChild
    BY <1>5 DEF NoChild, At
  <1>6. CASE LaunchChild
    BY <1>6 DEF LaunchChild, At
  <1>7. CASE \E r \in {"ok", "failed"} : ChildEnds(r)
    BY <1>7 DEF ChildEnds, At
  <1>8. CASE ChildErrs
    BY <1>8 DEF ChildErrs, At, Fail, Stopped
  <1>9. CASE Confirm
    BY <1>9 DEF Confirm, At, ChildConfirmed
  <1>10. CASE JournalDestroyed
    BY <1>10 DEF JournalDestroyed, Publish, Persist, MayPublish, At
  <1>11. CASE SyncDestroyed
    BY <1>11 DEF SyncDestroyed, Sync, SyncJournal, At
  <1>12. CASE Deliver
    BY <1>12 DEF Deliver, At
  <1>13. CASE JournalCommit
    BY <1>13 DEF JournalCommit, Publish, Persist, MayPublish, At
  <1>14. CASE SyncCommit
    BY <1>14 DEF SyncCommit, Sync, SyncJournal, At
  <1>15. CASE Retire
    BY <1>15 DEF Retire, At, SlotState
  <1>16. CASE Answer
    BY <1>16 DEF Answer, At
  <1>17. CASE DropRuntime
    BY <1>17 DEF DropRuntime, GuestState
  <1>18. CASE \E p \in FailPoints : Fails(p)
    BY <1>18 DEF FailPoints, Fails, At, Fail, Stopped
  <1>19. CASE GuestSpawns
    BY <1>19 DEF GuestSpawns, At, GuestState
  <1>20. CASE GuestRefuses
    BY <1>20 DEF GuestRefuses, At
  <1>21. CASE \E s \in BOOLEAN : Start(s)
    BY <1>21 DEF Start, At
  <1>22. CASE \E t \in Turns, o \in BOOLEAN : Submit(t, o)
    BY <1>22 DEF Submit, At, Observed, Stopped
  <1>23. CASE \E t \in Turns : CancelChild(t)
    BY <1>23 DEF CancelChild
  <1>24. CASE StopParent
    BY <1>24 DEF StopParent
  <1>25. CASE \E r \in Readers, t \in Turns : Inspect(r, t)
    BY <1>25 DEF Inspect, ReaderState, Answers
  <1>26. CASE \E r \in Readers : ReadRecord(r)
    BY <1>26 DEF ReadRecord
  <1>27. CASE DeadlinePasses
    BY <1>27 DEF DeadlinePasses
  <1>28. CASE Crash
    BY <1>28 DEF Crash, ProcessGone, SlotState, GuestState
  <1>29. CASE PowerLoss
    BY <1>29 DEF PowerLoss, ProcessGone
  <1>30. CASE UNCHANGED vars
    BY <1>30 DEF vars
  <1>31. QED
    BY <1>1, <1>2, <1>3, <1>4, <1>5, <1>6, <1>7, <1>8, <1>9, <1>10, <1>11, <1>12, <1>13, <1>14, <1>15, <1>16, <1>17, <1>18, <1>19, <1>20, <1>21, <1>22, <1>23, <1>24, <1>25, <1>26, <1>27, <1>28, <1>29, <1>30, NextCases

(* Every step keeps readers consistent. *)
LEMMA ReadingStep ==
    ASSUME TypeOK, Thread, Chain, Reading, [Next]_vars
    PROVE  Reading'
  <1> USE LeaseAssumption, RecInjective DEF TypeOK, Chain, Reading, Has, Kept, Stages, owner, journal, ghosts
  <1>1. CASE Reserve
    BY <1>1 DEF Reserve, At, Observed, Reserved, MayReserve
  <1>2. CASE JournalReservation
    BY <1>2 DEF JournalReservation, Publish, Persist, MayPublish, At
  <1>3. CASE SyncReservation
    BY <1>3 DEF SyncReservation, Sync, SyncJournal, At
  <1>4. CASE Register
    BY <1>4 DEF Register, At, SlotState
  <1>5. CASE NoChild
    BY <1>5 DEF NoChild, At
  <1>6. CASE LaunchChild
    BY <1>6 DEF LaunchChild, At
  <1>7. CASE \E r \in {"ok", "failed"} : ChildEnds(r)
    BY <1>7 DEF ChildEnds, At
  <1>8. CASE ChildErrs
    BY <1>8 DEF ChildErrs, At, Fail, Stopped
  <1>9. CASE Confirm
    BY <1>9 DEF Confirm, At, ChildConfirmed
  <1>10. CASE JournalDestroyed
    BY <1>10 DEF JournalDestroyed, Publish, Persist, MayPublish, At
  <1>11. CASE SyncDestroyed
    BY <1>11 DEF SyncDestroyed, Sync, SyncJournal, At
  <1>12. CASE Deliver
    BY <1>12 DEF Deliver, At
  <1>13. CASE JournalCommit
    BY <1>13 DEF JournalCommit, Publish, Persist, MayPublish, At
  <1>14. CASE SyncCommit
    BY <1>14 DEF SyncCommit, Sync, SyncJournal, At
  <1>15. CASE Retire
    BY <1>15 DEF Retire, At, SlotState
  <1>16. CASE Answer
    BY <1>16 DEF Answer, At
  <1>17. CASE DropRuntime
    BY <1>17 DEF DropRuntime, GuestState
  <1>18. CASE \E p \in FailPoints : Fails(p)
    BY <1>18 DEF FailPoints, Fails, At, Fail, Stopped
  <1>19. CASE GuestSpawns
    BY <1>19 DEF GuestSpawns, At, GuestState
  <1>20. CASE GuestRefuses
    BY <1>20 DEF GuestRefuses, At
  <1>21. CASE \E s \in BOOLEAN : Start(s)
    BY <1>21 DEF Start, At
  <1>22. CASE \E t \in Turns, o \in BOOLEAN : Submit(t, o)
    BY <1>22 DEF Submit, At, Observed, Stopped
  <1>23. CASE \E t \in Turns : CancelChild(t)
    BY <1>23 DEF CancelChild
  <1>24. CASE StopParent
    BY <1>24 DEF StopParent
  <1>25. CASE \E r \in Readers, t \in Turns : Inspect(r, t)
    BY <1>25 DEF Inspect, ReaderState, Answers
  <1>26. CASE \E r \in Readers : ReadRecord(r)
    <2>1. PICK r \in Readers : ReadRecord(r)
      BY <1>26
    <2> DEFINE t == reader[r].turn
               n == reader[r].done + 1
               found == reader[r].found \cup {s \in {InspectOrder[n]} : Rec(t, s) \in visible}
    <2>0. reader[r] \in ReaderState /\ reader[r].turn # NoTurn
      BY <2>1 DEF ReadRecord
    <2>a. n \in {1, 2, 3} /\ t \in Turns
      BY <2>0 DEF ReaderState
    <2>2. /\ n \in {1, 2, 3} /\ t \in Turns
          /\ reader' = [reader EXCEPT ![r] =
               IF n = 3 \/ found = {}
               THEN [turn |-> NoTurn, done |-> 0, found |-> {}, answer |-> TurnStatus(found)]
               ELSE [turn |-> t, done |-> n, found |-> found, answer |-> "none"]]
          /\ UNCHANGED visible
      BY <2>1, <2>a DEF ReadRecord
    <2>3. \A q \in Readers \ {r} : reader'[q] = reader[q]
      BY <2>2
    <2>4. ASSUME n = 1
          PROVE  found = {} \/ found = {"reserved"}
      <3>1. reader[r].found = {}
        BY <2>4, <2>0 DEF ReaderState
      <3>2. QED
        BY <2>4, <3>1 DEF InspectOrder
    <2>b. /\ reader[r].done = 1 => reader[r].found = {"reserved"}
          /\ reader[r].done = 2 =>
               \/ reader[r].found = {"reserved"}
               \/ /\ reader[r].found = {"reserved", "committed"}
                  /\ Rec(t, "destroyed") \in visible
      BY <2>0
    <2>c. reader[r].done \in Int
      BY <2>0 DEF ReaderState
    <2>5. ASSUME n = 2
          PROVE  \/ found = {"reserved"}
                 \/ found = {"reserved", "committed"} /\ Rec(t, "destroyed") \in visible
      <3>2. reader[r].found = {"reserved"}
        BY <2>5, <2>b, <2>c
      <3>3. found = {"reserved"} \/ (found = {"reserved", "committed"} /\ Rec(t, "committed") \in visible)
        BY <2>5, <3>2 DEF InspectOrder
      <3>4. QED
        BY <3>3, <2>2
    <2>6. n = 3 => TurnStatus(found) # "invalid"
      <3>1. CASE reader[r].found = {"reserved"} /\ n = 3
        <4>1. found = {"reserved"} \/ found = {"reserved", "destroyed"}
          BY <3>1, <2>2 DEF InspectOrder
        <4>2. QED
          BY <4>1 DEF TurnStatus
      <3>2. CASE reader[r].found = {"reserved", "committed"} /\ Rec(t, "destroyed") \in visible /\ n = 3
        <4>1. found = {"reserved", "destroyed", "committed"}
          BY <3>2, <2>2 DEF InspectOrder
        <4>2. QED
          BY <4>1 DEF TurnStatus
      <3>3. QED
        BY <3>1, <3>2, <2>b, <2>c
    <2>7. found = {} => TurnStatus(found) # "invalid"
      BY DEF TurnStatus
    <2> HIDE DEF found, n, t
    <2>8. reader'[r].answer # "invalid" /\ reader'[r].turn \in {NoTurn, t}
      BY <2>2, <2>6, <2>7
    <2>9. /\ reader'[r].turn # NoTurn
          => /\ reader'[r].done \in {1, 2} /\ reader'[r].turn = t
             /\ reader'[r].done = 1 => reader'[r].found = {"reserved"}
             /\ reader'[r].done = 2 =>
                  \/ reader'[r].found = {"reserved"}
                  \/ /\ reader'[r].found = {"reserved", "committed"}
                     /\ Rec(t, "destroyed") \in visible
      BY <2>2, <2>4, <2>5
    <2>10. QED
      BY <2>2, <2>3, <2>8, <2>9
  <1>27. CASE DeadlinePasses
    BY <1>27 DEF DeadlinePasses
  <1>28. CASE Crash
    BY <1>28 DEF Crash, ProcessGone, SlotState, GuestState
  <1>29. CASE PowerLoss
    <2>1. reader' = [r \in Readers |-> IdleReader]
      BY <1>29 DEF PowerLoss
    <2>2. QED
      BY <2>1 DEF IdleReader
  <1>30. CASE UNCHANGED vars
    BY <1>30 DEF vars
  <1>31. QED
    BY <1>1, <1>2, <1>3, <1>4, <1>5, <1>6, <1>7, <1>8, <1>9, <1>10, <1>11, <1>12, <1>13, <1>14, <1>15, <1>16, <1>17, <1>18, <1>19, <1>20, <1>21, <1>22, <1>23, <1>24, <1>25, <1>26, <1>27, <1>28, <1>29, <1>30, NextCases

(* A turn the parent was stopped under stays undelivered: its parent is still
   stopped, and it is not committed. *)
LEMMA DoomedStep ==
    ASSUME TypeOK, Thread, Doomed, [Next]_vars
    PROVE  Doomed'
  <1> USE LeaseAssumption DEF TypeOK, Thread, Working, BeforeDelivery, Points, Doomed, owner, journal, ghosts
  <1>1. CASE Reserve
    BY <1>1 DEF Reserve, At, Observed, Reserved, MayReserve
  <1>2. CASE JournalReservation
    BY <1>2 DEF JournalReservation, Publish, Persist, MayPublish, At
  <1>3. CASE SyncReservation
    BY <1>3 DEF SyncReservation, Sync, SyncJournal, At
  <1>4. CASE Register
    BY <1>4 DEF Register, At, SlotState
  <1>5. CASE NoChild
    BY <1>5 DEF NoChild, At
  <1>6. CASE LaunchChild
    BY <1>6 DEF LaunchChild, At
  <1>7. CASE \E r \in {"ok", "failed"} : ChildEnds(r)
    BY <1>7 DEF ChildEnds, At
  <1>8. CASE ChildErrs
    BY <1>8 DEF ChildErrs, At, Fail, Stopped
  <1>9. CASE Confirm
    BY <1>9 DEF Confirm, At, ChildConfirmed
  <1>10. CASE JournalDestroyed
    BY <1>10 DEF JournalDestroyed, Publish, Persist, MayPublish, At
  <1>11. CASE SyncDestroyed
    BY <1>11 DEF SyncDestroyed, Sync, SyncJournal, At
  <1>12. CASE Deliver
    BY <1>12 DEF Deliver, At
  <1>13. CASE JournalCommit
    BY <1>13 DEF JournalCommit, Publish, Persist, MayPublish, At
  <1>14. CASE SyncCommit
    BY <1>14 DEF SyncCommit, Sync, SyncJournal, At
  <1>15. CASE Retire
    BY <1>15 DEF Retire, At, SlotState
  <1>16. CASE Answer
    BY <1>16 DEF Answer, At
  <1>17. CASE DropRuntime
    BY <1>17 DEF DropRuntime, GuestState
  <1>18. CASE \E p \in FailPoints : Fails(p)
    BY <1>18 DEF FailPoints, Fails, At, Fail, Stopped
  <1>19. CASE GuestSpawns
    BY <1>19 DEF GuestSpawns, At, GuestState
  <1>20. CASE GuestRefuses
    BY <1>20 DEF GuestRefuses, At
  <1>21. CASE \E s \in BOOLEAN : Start(s)
    BY <1>21 DEF Start, At
  <1>22. CASE \E t \in Turns, o \in BOOLEAN : Submit(t, o)
    BY <1>22 DEF Submit, At, Observed, Stopped
  <1>23. CASE \E t \in Turns : CancelChild(t)
    BY <1>23 DEF CancelChild
  <1>24. CASE StopParent
    BY <1>24 DEF StopParent
  <1>25. CASE \E r \in Readers, t \in Turns : Inspect(r, t)
    BY <1>25 DEF Inspect, ReaderState, Answers
  <1>26. CASE \E r \in Readers : ReadRecord(r)
    BY <1>26 DEF ReadRecord
  <1>27. CASE DeadlinePasses
    BY <1>27 DEF DeadlinePasses
  <1>28. CASE Crash
    BY <1>28 DEF Crash, ProcessGone, SlotState, GuestState
  <1>29. CASE PowerLoss
    BY <1>29 DEF PowerLoss, ProcessGone
  <1>30. CASE UNCHANGED vars
    BY <1>30 DEF vars
  <1>31. QED
    BY <1>1, <1>2, <1>3, <1>4, <1>5, <1>6, <1>7, <1>8, <1>9, <1>10, <1>11, <1>12, <1>13, <1>14, <1>15, <1>16, <1>17, <1>18, <1>19, <1>20, <1>21, <1>22, <1>23, <1>24, <1>25, <1>26, <1>27, <1>28, <1>29, <1>30, NextCases

(* Every step keeps the journal inside the ledger. *)
LEMMA LedgerStep ==
    ASSUME TypeOK, Thread, Progress, Chain, Ledger, [Next]_vars
    PROVE  Ledger'
  <1> USE LeaseAssumption, RecInjective DEF TypeOK, Thread, Working, Points, Progress, Chain, Ledger, InFlight, Has, Kept, Stages, owner, journal, ghosts
  <1>1. CASE Reserve
    <2>1. IsFiniteSet(lease.seen \cup {turn})
      BY FS_AddElement
    <2>2. lease'.seen = lease.seen \cup {turn}
      BY <1>1 DEF Reserve, At, Observed, Reserved, Lease
    <2>3. QED
      BY <1>1, <2>1, <2>2 DEF Reserve, At
  <1>2. CASE JournalReservation
    BY <1>2 DEF JournalReservation, Publish, Persist, MayPublish, At
  <1>3. CASE SyncReservation
    BY <1>3 DEF SyncReservation, Sync, SyncJournal, At
  <1>4. CASE Register
    BY <1>4 DEF Register, At, SlotState
  <1>5. CASE NoChild
    BY <1>5 DEF NoChild, At
  <1>6. CASE LaunchChild
    BY <1>6 DEF LaunchChild, At
  <1>7. CASE \E r \in {"ok", "failed"} : ChildEnds(r)
    BY <1>7 DEF ChildEnds, At
  <1>8. CASE ChildErrs
    <2>1. lease'.seen = lease.seen
      BY <1>8 DEF ChildErrs, Fail, Stopped, Lease
    <2>2. QED
      BY <1>8, <2>1 DEF ChildErrs, At, Fail
  <1>9. CASE Confirm
    <2>1. lease'.seen = lease.seen
      BY <1>9 DEF Confirm, At, ChildConfirmed, Lease
    <2>2. QED
      BY <1>9, <2>1 DEF Confirm, At
  <1>10. CASE JournalDestroyed
    BY <1>10 DEF JournalDestroyed, Publish, Persist, MayPublish, At
  <1>11. CASE SyncDestroyed
    BY <1>11 DEF SyncDestroyed, Sync, SyncJournal, At
  <1>12. CASE Deliver
    BY <1>12 DEF Deliver, At
  <1>13. CASE JournalCommit
    BY <1>13 DEF JournalCommit, Publish, Persist, MayPublish, At
  <1>14. CASE SyncCommit
    BY <1>14 DEF SyncCommit, Sync, SyncJournal, At
  <1>15. CASE Retire
    BY <1>15 DEF Retire, At, SlotState
  <1>16. CASE Answer
    BY <1>16 DEF Answer, At
  <1>17. CASE DropRuntime
    BY <1>17 DEF DropRuntime, GuestState
  <1>18. CASE \E p \in FailPoints : Fails(p)
    <2>1. lease'.seen = lease.seen
      BY <1>18 DEF Fails, Fail, Stopped, Lease
    <2>2. QED
      BY <1>18, <2>1 DEF FailPoints, Fails, At, Fail
  <1>19. CASE GuestSpawns
    BY <1>19 DEF GuestSpawns, At, GuestState
  <1>20. CASE GuestRefuses
    BY <1>20 DEF GuestRefuses, At
  <1>21. CASE \E s \in BOOLEAN : Start(s)
    BY <1>21 DEF Start, At
  <1>22. CASE \E t \in Turns, o \in BOOLEAN : Submit(t, o)
    <2>1. lease'.seen = lease.seen
      BY <1>22 DEF Submit, Observed, Stopped, Lease
    <2>2. QED
      BY <1>22, <2>1 DEF Submit, At
  <1>23. CASE \E t \in Turns : CancelChild(t)
    BY <1>23 DEF CancelChild
  <1>24. CASE StopParent
    BY <1>24 DEF StopParent
  <1>25. CASE \E r \in Readers, t \in Turns : Inspect(r, t)
    BY <1>25 DEF Inspect, ReaderState, Answers
  <1>26. CASE \E r \in Readers : ReadRecord(r)
    BY <1>26 DEF ReadRecord
  <1>27. CASE DeadlinePasses
    BY <1>27 DEF DeadlinePasses
  <1>28. CASE Crash
    BY <1>28 DEF Crash, ProcessGone, SlotState, GuestState
  <1>29. CASE PowerLoss
    BY <1>29 DEF PowerLoss, ProcessGone
  <1>30. CASE UNCHANGED vars
    BY <1>30 DEF vars
  <1>31. QED
    BY <1>1, <1>2, <1>3, <1>4, <1>5, <1>6, <1>7, <1>8, <1>9, <1>10, <1>11, <1>12, <1>13, <1>14, <1>15, <1>16, <1>17, <1>18, <1>19, <1>20, <1>21, <1>22, <1>23, <1>24, <1>25, <1>26, <1>27, <1>28, <1>29, <1>30, NextCases


(* One more turn costs one more charge. *)
LEMMA OneMore ==
    ASSUME NEW c \in Nat, NEW k \in Nat
    PROVE  (c + 1) * k = c * k + k
  OBVIOUS

(* Every step keeps the budget. *)
LEMMA BudgetStep ==
    ASSUME TypeOK, Thread, Ledger, BudgetCharged, [Next]_vars
    PROVE  BudgetCharged'
  <1> USE LeaseAssumption DEF TypeOK, Thread, Working, Points, Ledger, InFlight, BudgetCharged, owner, journal, ghosts
  <1>1. CASE Reserve
    <2> DEFINE c == Cardinality(lease.seen)
    <2>1. c \in Nat /\ Cardinality(lease.seen \cup {turn}) = c + 1
      <3>1. turn \notin lease.seen
        BY <1>1 DEF Reserve, MayReserve, Observed, Lease
      <3>2. IsFiniteSet(lease.seen)
        OBVIOUS
      <3>3. Cardinality(lease.seen) \in Nat
        BY <3>2, FS_CardinalityType
      <3>4. Cardinality(lease.seen \cup {turn}) = Cardinality(lease.seen) + 1
        BY ONLY <3>1, <3>2, FS_AddElement
      <3>5. QED
        BY <3>3, <3>4
    <2>2. /\ lease'.seen = lease.seen \cup {turn} /\ lease'.turns = lease.turns - 1
          /\ lease'.requests = lease.requests - TurnRequests
          /\ lease'.tokens = lease.tokens - TurnTokens
      BY <1>1 DEF Reserve, At, Observed, Reserved, Lease
    <2>3. lease.turns > 0 /\ lease.requests >= TurnRequests /\ lease.tokens >= TurnTokens
      BY <1>1 DEF Reserve, MayReserve, Observed, Lease
    <2>4. /\ (c + 1) * TurnRequests = c * TurnRequests + TurnRequests
          /\ (c + 1) * TurnTokens = c * TurnTokens + TurnTokens
          /\ c * TurnRequests \in Nat /\ c * TurnTokens \in Nat
      BY <2>1, OneMore
    <2>5. lease.turns \in Int /\ lease.requests \in Int /\ lease.tokens \in Int
      BY DEF Lease
    <2>6. /\ lease.turns + c = MaxTurns /\ lease.requests + c * TurnRequests = TotalRequests
          /\ lease.tokens + c * TurnTokens = TotalTokens
      OBVIOUS
    <2>7. runs' = runs
      BY <1>1 DEF Reserve
    <2> HIDE DEF c
    <2>8. QED
      BY <2>1, <2>2, <2>3, <2>4, <2>5, <2>6, <2>7
  <1>2. CASE JournalReservation
    BY <1>2 DEF JournalReservation, Publish, Persist, MayPublish, At
  <1>3. CASE SyncReservation
    BY <1>3 DEF SyncReservation, Sync, SyncJournal, At
  <1>4. CASE Register
    BY <1>4 DEF Register, At, SlotState
  <1>5. CASE NoChild
    BY <1>5 DEF NoChild, At
  <1>6. CASE LaunchChild
    BY <1>6 DEF LaunchChild, At
  <1>7. CASE \E r \in {"ok", "failed"} : ChildEnds(r)
    BY <1>7 DEF ChildEnds, At
  <1>8. CASE ChildErrs
    <2>1. /\ lease'.seen = lease.seen /\ lease'.turns = lease.turns
          /\ lease'.requests = lease.requests /\ lease'.tokens = lease.tokens
      BY <1>8 DEF ChildErrs, Fail, Stopped, Lease
    <2>2. QED
      BY <1>8, <2>1 DEF ChildErrs
  <1>9. CASE Confirm
    <2>1. /\ lease'.seen = lease.seen /\ lease'.turns = lease.turns
          /\ lease'.requests = lease.requests /\ lease'.tokens = lease.tokens
      BY <1>9 DEF Confirm, At, ChildConfirmed, Lease
    <2>2. QED
      BY <1>9, <2>1 DEF Confirm
  <1>10. CASE JournalDestroyed
    BY <1>10 DEF JournalDestroyed, Publish, Persist, MayPublish, At
  <1>11. CASE SyncDestroyed
    BY <1>11 DEF SyncDestroyed, Sync, SyncJournal, At
  <1>12. CASE Deliver
    BY <1>12 DEF Deliver, At
  <1>13. CASE JournalCommit
    BY <1>13 DEF JournalCommit, Publish, Persist, MayPublish, At
  <1>14. CASE SyncCommit
    BY <1>14 DEF SyncCommit, Sync, SyncJournal, At
  <1>15. CASE Retire
    BY <1>15 DEF Retire, At, SlotState
  <1>16. CASE Answer
    BY <1>16 DEF Answer, At
  <1>17. CASE DropRuntime
    BY <1>17 DEF DropRuntime, GuestState
  <1>18. CASE \E p \in FailPoints : Fails(p)
    <2>1. /\ lease'.seen = lease.seen /\ lease'.turns = lease.turns
          /\ lease'.requests = lease.requests /\ lease'.tokens = lease.tokens
      BY <1>18 DEF Fails, Fail, Stopped, Lease
    <2>2. QED
      BY <1>18, <2>1 DEF Fails
  <1>19. CASE GuestSpawns
    BY <1>19 DEF GuestSpawns, At, GuestState
  <1>20. CASE GuestRefuses
    BY <1>20 DEF GuestRefuses, At
  <1>21. CASE \E s \in BOOLEAN : Start(s)
    BY <1>21 DEF Start, At
  <1>22. CASE \E t \in Turns, o \in BOOLEAN : Submit(t, o)
    <2>1. /\ lease'.seen = lease.seen /\ lease'.turns = lease.turns
          /\ lease'.requests = lease.requests /\ lease'.tokens = lease.tokens
      BY <1>22 DEF Submit, Observed, Stopped, Lease
    <2>2. QED
      BY <1>22, <2>1 DEF Submit
  <1>23. CASE \E t \in Turns : CancelChild(t)
    BY <1>23 DEF CancelChild
  <1>24. CASE StopParent
    BY <1>24 DEF StopParent
  <1>25. CASE \E r \in Readers, t \in Turns : Inspect(r, t)
    BY <1>25 DEF Inspect, ReaderState, Answers
  <1>26. CASE \E r \in Readers : ReadRecord(r)
    BY <1>26 DEF ReadRecord
  <1>27. CASE DeadlinePasses
    BY <1>27 DEF DeadlinePasses
  <1>28. CASE Crash
    BY <1>28 DEF Crash, ProcessGone, SlotState, GuestState
  <1>29. CASE PowerLoss
    BY <1>29 DEF PowerLoss, ProcessGone
  <1>30. CASE UNCHANGED vars
    BY <1>30 DEF vars
  <1>31. QED
    BY <1>1, <1>2, <1>3, <1>4, <1>5, <1>6, <1>7, <1>8, <1>9, <1>10, <1>11, <1>12, <1>13, <1>14, <1>15, <1>16, <1>17, <1>18, <1>19, <1>20, <1>21, <1>22, <1>23, <1>24, <1>25, <1>26, <1>27, <1>28, <1>29, <1>30, NextCases


(* A remembered history holds the new turn and old entries only. *)
LEMMA RememberedRange ==
    ASSUME NEW h \in Seq(Turns \cup {Seeded}), NEW t \in Turns,
           NEW i \in 1 .. Len(Remembered(h, t))
    PROVE  \/ Remembered(h, t)[i] = t
           \/ \E j \in 1 .. Len(h) : Remembered(h, t)[i] = h[j]
  <1> DEFINE all == Append(h, t)
             excess == IF Len(all) > HistoryLimit THEN Len(all) - HistoryLimit ELSE 0
  <1>1. all \in Seq(Turns \cup {Seeded}) /\ Len(all) = Len(h) + 1 /\ Len(h) \in Nat
    OBVIOUS
  <1>2. excess \in 0 .. Len(all)
    BY <1>1, SessionAssumption
  <1>3. \A k \in 1 .. Len(all) : all[k] = t \/ (k \in 1 .. Len(h) /\ all[k] = h[k])
    BY <1>1
  <1>4. Remembered(h, t) = SubSeq(all, excess + 1, Len(all))
    BY DEF Remembered
  <1> HIDE DEF all, excess
  <1>5. Len(Remembered(h, t)) = Len(all) - excess /\ Remembered(h, t)[i] = all[i + excess]
    BY <1>1, <1>2, <1>4
  <1>6. i + excess \in 1 .. Len(all)
    BY <1>1, <1>2, <1>5
  <1>7. QED
    BY <1>3, <1>5, <1>6

(* Every step keeps the guest's memory behind the journal. *)
LEMMA HistoryStep ==
    ASSUME TypeOK, Thread, Progress, Chain, Outcome, HistoryRecorded, [Next]_vars
    PROVE  HistoryRecorded'
  <1> USE LeaseAssumption, SessionAssumption, RecInjective DEF TypeOK, Thread, Working, Points, Progress, Chain, Outcome, Has, Kept, Stages, HistoryRecorded, owner, journal, ghosts
  <1>1. CASE Reserve
    BY <1>1 DEF Reserve, At, Observed, Reserved, MayReserve
  <1>2. CASE JournalReservation
    BY <1>2 DEF JournalReservation, Publish, Persist, MayPublish, At
  <1>3. CASE SyncReservation
    BY <1>3 DEF SyncReservation, Sync, SyncJournal, At
  <1>4. CASE Register
    BY <1>4 DEF Register, At, SlotState
  <1>5. CASE NoChild
    BY <1>5 DEF NoChild, At
  <1>6. CASE LaunchChild
    BY <1>6 DEF LaunchChild, At
  <1>7. CASE \E r \in {"ok", "failed"} : ChildEnds(r)
    BY <1>7 DEF ChildEnds, At
  <1>8. CASE ChildErrs
    BY <1>8 DEF ChildErrs, At, Fail, Stopped
  <1>9. CASE Confirm
    BY <1>9 DEF Confirm, At, ChildConfirmed
  <1>10. CASE JournalDestroyed
    <2>1. turn \in Turns /\ Rec(turn, "destroyed") \notin durable
      BY <1>10 DEF JournalDestroyed, Publish, Persist, At
    <2>2. guest' = guest /\ durable' = durable
      BY <1>10 DEF JournalDestroyed, Publish
    <2>3. \A t \in Turns \ {turn} : recorded'[t] = recorded[t]
      BY <1>10 DEF JournalDestroyed
    <2>4. guest.history \in Seq(Turns \cup {Seeded})
      BY DEF GuestState
    <2>5. QED
      BY <2>1, <2>2, <2>3, <2>4
  <1>11. CASE SyncDestroyed
    BY <1>11 DEF SyncDestroyed, Sync, SyncJournal, At
  <1>12. CASE Deliver
    <2>1. /\ turn \in Turns /\ Rec(turn, "destroyed") \in durable
          /\ result = "ok" => recorded[turn] = "ok"
      BY <1>12 DEF Deliver, At
    <2>2. durable' = durable /\ recorded' = recorded /\ guest'.honest = guest.honest
      BY <1>12 DEF Deliver, GuestState
    <2>3. guest.history \in Seq(Turns \cup {Seeded})
      BY DEF GuestState
    <2>4. guest.honest => guest'.history = IF result = "ok"
                                           THEN Remembered(guest.history, turn)
                                           ELSE guest.history
      BY <1>12 DEF Deliver, GuestState
    <2>5. CASE guest.honest /\ result = "ok"
      <3> DEFINE new == Remembered(guest.history, turn)
      <3>1. SUFFICES ASSUME NEW i \in 1 .. Len(new)
                     PROVE  \/ new[i] = Seeded
                            \/ recorded[new[i]] = "ok" /\ Rec(new[i], "destroyed") \in durable
        BY <2>2, <2>4, <2>5
      <3>2. \/ new[i] = turn
            \/ \E j \in 1 .. Len(guest.history) : new[i] = guest.history[j]
        BY ONLY <2>1, <2>3, <3>1, RememberedRange
      <3> HIDE DEF new
      <3>3. QED
        BY <2>1, <2>5, <3>2
    <2>6. QED
      BY <2>2, <2>4, <2>5
  <1>13. CASE JournalCommit
    BY <1>13 DEF JournalCommit, Publish, Persist, MayPublish, At
  <1>14. CASE SyncCommit
    BY <1>14 DEF SyncCommit, Sync, SyncJournal, At
  <1>15. CASE Retire
    BY <1>15 DEF Retire, At, SlotState
  <1>16. CASE Answer
    BY <1>16 DEF Answer, At
  <1>17. CASE DropRuntime
    <2>1. guest'.history = guest.history /\ guest'.honest = guest.honest
      BY <1>17 DEF DropRuntime, GuestState
    <2>2. QED
      BY <1>17, <2>1 DEF DropRuntime
  <1>18. CASE \E p \in FailPoints : Fails(p)
    BY <1>18 DEF FailPoints, Fails, At, Fail, Stopped
  <1>19. CASE GuestSpawns
    <2>1. guest'.history = guest.history /\ guest'.honest = guest.honest
      BY <1>19 DEF GuestSpawns, GuestState
    <2>2. QED
      BY <1>19, <2>1 DEF GuestSpawns
  <1>20. CASE GuestRefuses
    BY <1>20 DEF GuestRefuses, At
  <1>21. CASE \E s \in BOOLEAN : Start(s)
    <2>1. PICK s \in BOOLEAN : Start(s)
      BY <1>21
    <2>2. \/ guest' = guest
          \/ guest'.history = <<Seeded>>
      BY <2>1 DEF Start, GuestState
    <2>3. durable' = durable /\ recorded' = recorded
      BY <2>1 DEF Start
    <2>4. QED
      BY <2>2, <2>3
  <1>22. CASE \E t \in Turns, o \in BOOLEAN : Submit(t, o)
    BY <1>22 DEF Submit, At, Observed, Stopped
  <1>23. CASE \E t \in Turns : CancelChild(t)
    BY <1>23 DEF CancelChild
  <1>24. CASE StopParent
    BY <1>24 DEF StopParent
  <1>25. CASE \E r \in Readers, t \in Turns : Inspect(r, t)
    BY <1>25 DEF Inspect, ReaderState, Answers
  <1>26. CASE \E r \in Readers : ReadRecord(r)
    BY <1>26 DEF ReadRecord
  <1>27. CASE DeadlinePasses
    BY <1>27 DEF DeadlinePasses
  <1>28. CASE Crash
    <2>1. guest'.history = guest.history /\ guest'.honest = guest.honest
      BY <1>28 DEF Crash, ProcessGone, GuestState
    <2>2. QED
      BY <1>28, <2>1 DEF Crash
  <1>29. CASE PowerLoss
    <2>1. guest'.history = guest.history /\ guest'.honest = guest.honest
      BY <1>29 DEF PowerLoss, ProcessGone, GuestState
    <2>2. QED
      BY <1>29, <2>1 DEF PowerLoss
  <1>30. CASE UNCHANGED vars
    BY <1>30 DEF vars
  <1>31. QED
    BY <1>1, <1>2, <1>3, <1>4, <1>5, <1>6, <1>7, <1>8, <1>9, <1>10, <1>11, <1>12, <1>13, <1>14, <1>15, <1>16, <1>17, <1>18, <1>19, <1>20, <1>21, <1>22, <1>23, <1>24, <1>25, <1>26, <1>27, <1>28, <1>29, <1>30, NextCases

(* Every step keeps answered outcomes durable. *)
LEMMA AnswerStep ==
    ASSUME TypeOK, Thread, Progress, Chain, Outcome, AnswerDurable, [Next]_vars
    PROVE  AnswerDurable'
  <1> USE LeaseAssumption, RecInjective DEF TypeOK, Thread, Working, Points, Progress, Chain, Outcome, Has, Kept, Stages, AnswerDurable, owner, journal, ghosts
  <1>1. CASE Reserve
    BY <1>1 DEF Reserve, At, Observed, Reserved, MayReserve
  <1>2. CASE JournalReservation
    BY <1>2 DEF JournalReservation, Publish, Persist, MayPublish, At
  <1>3. CASE SyncReservation
    BY <1>3 DEF SyncReservation, Sync, SyncJournal, At
  <1>4. CASE Register
    BY <1>4 DEF Register, At, SlotState
  <1>5. CASE NoChild
    BY <1>5 DEF NoChild, At
  <1>6. CASE LaunchChild
    BY <1>6 DEF LaunchChild, At
  <1>7. CASE \E r \in {"ok", "failed"} : ChildEnds(r)
    BY <1>7 DEF ChildEnds, At
  <1>8. CASE ChildErrs
    BY <1>8 DEF ChildErrs, At, Fail, Stopped
  <1>9. CASE Confirm
    BY <1>9 DEF Confirm, At, ChildConfirmed
  <1>10. CASE JournalDestroyed
    BY <1>10 DEF JournalDestroyed, Publish, Persist, MayPublish, At
  <1>11. CASE SyncDestroyed
    BY <1>11 DEF SyncDestroyed, Sync, SyncJournal, At
  <1>12. CASE Deliver
    BY <1>12 DEF Deliver, At
  <1>13. CASE JournalCommit
    BY <1>13 DEF JournalCommit, Publish, Persist, MayPublish, At
  <1>14. CASE SyncCommit
    BY <1>14 DEF SyncCommit, Sync, SyncJournal, At
  <1>15. CASE Retire
    BY <1>15 DEF Retire, At, SlotState
  <1>16. CASE Answer
    BY <1>16 DEF Answer, At
  <1>17. CASE DropRuntime
    BY <1>17 DEF DropRuntime, GuestState
  <1>18. CASE \E p \in FailPoints : Fails(p)
    BY <1>18 DEF FailPoints, Fails, At, Fail, Stopped
  <1>19. CASE GuestSpawns
    BY <1>19 DEF GuestSpawns, At, GuestState
  <1>20. CASE GuestRefuses
    BY <1>20 DEF GuestRefuses, At
  <1>21. CASE \E s \in BOOLEAN : Start(s)
    BY <1>21 DEF Start, At
  <1>22. CASE \E t \in Turns, o \in BOOLEAN : Submit(t, o)
    BY <1>22 DEF Submit, At, Observed, Stopped
  <1>23. CASE \E t \in Turns : CancelChild(t)
    BY <1>23 DEF CancelChild
  <1>24. CASE StopParent
    BY <1>24 DEF StopParent
  <1>25. CASE \E r \in Readers, t \in Turns : Inspect(r, t)
    BY <1>25 DEF Inspect, ReaderState, Answers
  <1>26. CASE \E r \in Readers : ReadRecord(r)
    BY <1>26 DEF ReadRecord
  <1>27. CASE DeadlinePasses
    BY <1>27 DEF DeadlinePasses
  <1>28. CASE Crash
    BY <1>28 DEF Crash, ProcessGone, SlotState, GuestState
  <1>29. CASE PowerLoss
    BY <1>29 DEF PowerLoss, ProcessGone
  <1>30. CASE UNCHANGED vars
    BY <1>30 DEF vars
  <1>31. QED
    BY <1>1, <1>2, <1>3, <1>4, <1>5, <1>6, <1>7, <1>8, <1>9, <1>10, <1>11, <1>12, <1>13, <1>14, <1>15, <1>16, <1>17, <1>18, <1>19, <1>20, <1>21, <1>22, <1>23, <1>24, <1>25, <1>26, <1>27, <1>28, <1>29, <1>30, NextCases

(* Every step keeps stopped turns uncommitted. *)
LEMMA StopStep ==
    ASSUME TypeOK, Thread, Chain, Doomed, StopPreventsCommit, [Next]_vars
    PROVE  StopPreventsCommit'
  <1> USE LeaseAssumption, RecInjective DEF TypeOK, Thread, Chain, Working, Points, BeforeDelivery, Doomed, StopPreventsCommit, owner, journal, ghosts
  <1>1. CASE Reserve
    BY <1>1 DEF Reserve, At, Observed, Reserved, MayReserve
  <1>2. CASE JournalReservation
    BY <1>2 DEF JournalReservation, Publish, Persist, MayPublish, At
  <1>3. CASE SyncReservation
    BY <1>3 DEF SyncReservation, Sync, SyncJournal, At
  <1>4. CASE Register
    BY <1>4 DEF Register, At, SlotState
  <1>5. CASE NoChild
    BY <1>5 DEF NoChild, At
  <1>6. CASE LaunchChild
    BY <1>6 DEF LaunchChild, At
  <1>7. CASE \E r \in {"ok", "failed"} : ChildEnds(r)
    BY <1>7 DEF ChildEnds, At
  <1>8. CASE ChildErrs
    BY <1>8 DEF ChildErrs, At, Fail, Stopped
  <1>9. CASE Confirm
    BY <1>9 DEF Confirm, At, ChildConfirmed
  <1>10. CASE JournalDestroyed
    BY <1>10 DEF JournalDestroyed, Publish, Persist, MayPublish, At
  <1>11. CASE SyncDestroyed
    BY <1>11 DEF SyncDestroyed, Sync, SyncJournal, At
  <1>12. CASE Deliver
    BY <1>12 DEF Deliver, At
  <1>13. CASE JournalCommit
    BY <1>13 DEF JournalCommit, Publish, Persist, MayPublish, At
  <1>14. CASE SyncCommit
    BY <1>14 DEF SyncCommit, Sync, SyncJournal, At
  <1>15. CASE Retire
    BY <1>15 DEF Retire, At, SlotState
  <1>16. CASE Answer
    BY <1>16 DEF Answer, At
  <1>17. CASE DropRuntime
    BY <1>17 DEF DropRuntime, GuestState
  <1>18. CASE \E p \in FailPoints : Fails(p)
    BY <1>18 DEF FailPoints, Fails, At, Fail, Stopped
  <1>19. CASE GuestSpawns
    BY <1>19 DEF GuestSpawns, At, GuestState
  <1>20. CASE GuestRefuses
    BY <1>20 DEF GuestRefuses, At
  <1>21. CASE \E s \in BOOLEAN : Start(s)
    BY <1>21 DEF Start, At
  <1>22. CASE \E t \in Turns, o \in BOOLEAN : Submit(t, o)
    BY <1>22 DEF Submit, At, Observed, Stopped
  <1>23. CASE \E t \in Turns : CancelChild(t)
    BY <1>23 DEF CancelChild
  <1>24. CASE StopParent
    BY <1>24 DEF StopParent
  <1>25. CASE \E r \in Readers, t \in Turns : Inspect(r, t)
    BY <1>25 DEF Inspect, ReaderState, Answers
  <1>26. CASE \E r \in Readers : ReadRecord(r)
    BY <1>26 DEF ReadRecord
  <1>27. CASE DeadlinePasses
    BY <1>27 DEF DeadlinePasses
  <1>28. CASE Crash
    BY <1>28 DEF Crash, ProcessGone, SlotState, GuestState
  <1>29. CASE PowerLoss
    BY <1>29 DEF PowerLoss, ProcessGone
  <1>30. CASE UNCHANGED vars
    BY <1>30 DEF vars
  <1>31. QED
    BY <1>1, <1>2, <1>3, <1>4, <1>5, <1>6, <1>7, <1>8, <1>9, <1>10, <1>11, <1>12, <1>13, <1>14, <1>15, <1>16, <1>17, <1>18, <1>19, <1>20, <1>21, <1>22, <1>23, <1>24, <1>25, <1>26, <1>27, <1>28, <1>29, <1>30, NextCases

(* Every step keeps cancellations apart. *)
LEMMA CancelStep ==
    ASSUME TypeOK, Thread, CancelIsolated, [Next]_vars
    PROVE  CancelIsolated'
  <1> USE LeaseAssumption DEF TypeOK, Thread, Working, Points, SlotState, CancelIsolated, owner, journal, ghosts
  <1>1. CASE Reserve
    BY <1>1 DEF Reserve, At, Observed, Reserved, MayReserve
  <1>2. CASE JournalReservation
    BY <1>2 DEF JournalReservation, Publish, Persist, MayPublish, At
  <1>3. CASE SyncReservation
    BY <1>3 DEF SyncReservation, Sync, SyncJournal, At
  <1>4. CASE Register
    BY <1>4 DEF Register, At, SlotState
  <1>5. CASE NoChild
    BY <1>5 DEF NoChild, At
  <1>6. CASE LaunchChild
    BY <1>6 DEF LaunchChild, At
  <1>7. CASE \E r \in {"ok", "failed"} : ChildEnds(r)
    BY <1>7 DEF ChildEnds, At
  <1>8. CASE ChildErrs
    BY <1>8 DEF ChildErrs, At, Fail, Stopped
  <1>9. CASE Confirm
    BY <1>9 DEF Confirm, At, ChildConfirmed
  <1>10. CASE JournalDestroyed
    BY <1>10 DEF JournalDestroyed, Publish, Persist, MayPublish, At
  <1>11. CASE SyncDestroyed
    BY <1>11 DEF SyncDestroyed, Sync, SyncJournal, At
  <1>12. CASE Deliver
    BY <1>12 DEF Deliver, At
  <1>13. CASE JournalCommit
    BY <1>13 DEF JournalCommit, Publish, Persist, MayPublish, At
  <1>14. CASE SyncCommit
    BY <1>14 DEF SyncCommit, Sync, SyncJournal, At
  <1>15. CASE Retire
    BY <1>15 DEF Retire, At, SlotState
  <1>16. CASE Answer
    BY <1>16 DEF Answer, At
  <1>17. CASE DropRuntime
    BY <1>17 DEF DropRuntime, GuestState
  <1>18. CASE \E p \in FailPoints : Fails(p)
    BY <1>18 DEF FailPoints, Fails, At, Fail, Stopped
  <1>19. CASE GuestSpawns
    BY <1>19 DEF GuestSpawns, At, GuestState
  <1>20. CASE GuestRefuses
    BY <1>20 DEF GuestRefuses, At
  <1>21. CASE \E s \in BOOLEAN : Start(s)
    BY <1>21 DEF Start, At
  <1>22. CASE \E t \in Turns, o \in BOOLEAN : Submit(t, o)
    BY <1>22 DEF Submit, At, Observed, Stopped
  <1>23. CASE \E t \in Turns : CancelChild(t)
    BY <1>23 DEF CancelChild
  <1>24. CASE StopParent
    BY <1>24 DEF StopParent
  <1>25. CASE \E r \in Readers, t \in Turns : Inspect(r, t)
    BY <1>25 DEF Inspect, ReaderState, Answers
  <1>26. CASE \E r \in Readers : ReadRecord(r)
    BY <1>26 DEF ReadRecord
  <1>27. CASE DeadlinePasses
    BY <1>27 DEF DeadlinePasses
  <1>28. CASE Crash
    BY <1>28 DEF Crash, ProcessGone, SlotState, GuestState
  <1>29. CASE PowerLoss
    BY <1>29 DEF PowerLoss, ProcessGone
  <1>30. CASE UNCHANGED vars
    BY <1>30 DEF vars
  <1>31. QED
    BY <1>1, <1>2, <1>3, <1>4, <1>5, <1>6, <1>7, <1>8, <1>9, <1>10, <1>11, <1>12, <1>13, <1>14, <1>15, <1>16, <1>17, <1>18, <1>19, <1>20, <1>21, <1>22, <1>23, <1>24, <1>25, <1>26, <1>27, <1>28, <1>29, <1>30, NextCases
-----------------------------------------------------------------------------
(* The inductive invariant. *)
IInv ==
    /\ TypeOK /\ Thread /\ Progress /\ Chain /\ Serial /\ Launches /\ Outcome
    /\ Ledger /\ Reading /\ Doomed
    /\ BudgetCharged /\ HistoryRecorded /\ AnswerDurable /\ StopPreventsCommit
    /\ CancelIsolated

(* The inductive invariant holds of a session that has just been created. *)
LEMMA InitInv == Init => IInv
  <1> SUFFICES ASSUME Init PROVE IInv
    OBVIOUS
  <1> USE LeaseAssumption, SessionAssumption
  <1>1. TypeOK
    <2>1. lease \in Lease
      BY DEF Init, NewLease, Lease
    <2>2. slot \in SlotState /\ guest \in GuestState
      BY DEF Init, SlotState, GuestState
    <2>3. reader \in [Readers -> ReaderState]
      BY DEF Init, ReaderState, IdleReader, Answers
    <2>4. QED
      BY <2>1, <2>2, <2>3 DEF Init, TypeOK, Points
  <1>2. Thread /\ Progress /\ Chain /\ Serial /\ Outcome /\ Doomed
    BY DEF Init, Thread, Progress, Chain, Serial, Outcome, Doomed, Working, InFlight,
           Has, Kept
  <1>3. Launches /\ AnswerDurable /\ StopPreventsCommit /\ CancelIsolated
    BY DEF Init, Launches, AnswerDurable, StopPreventsCommit, CancelIsolated
  <1>4. Reading
    BY DEF Init, Reading, IdleReader
  <1>5. Ledger /\ BudgetCharged
    BY FS_EmptySet DEF Init, NewLease, Ledger, BudgetCharged, InFlight, Has
  <1>6. HistoryRecorded
    BY DEF Init, HistoryRecorded
  <1>7. QED
    BY <1>1, <1>2, <1>3, <1>4, <1>5, <1>6 DEF IInv

(* No step of the session, its clients or its host breaks it. *)
LEMMA StepInv == IInv /\ [Next]_vars => IInv'
  BY TypeStep, ThreadStep, ChainStep, ProgressStep, SerialStep, LaunchesStep,
     OutcomeStep, LedgerStep, ReadingStep, DoomedStep, BudgetStep, HistoryStep,
     AnswerStep, StopStep, CancelStep DEF IInv

(* The invariant holds in every reachable state. *)
THEOREM Invariant == Spec => []IInv
  BY InitInv, StepInv, PTL DEF Spec

(* Every variable keeps its type. *)
THEOREM TypeCorrect == Spec => []TypeOK
  BY Invariant, PTL DEF IInv

(* For any turns and any interleaving of resubmissions, failed publications, *)
(* crashes and power losses, a turn identity is executed at most once.       *)
THEOREM ExecutedOnce == Spec => []AtMostOneChild
  <1>1. IInv => AtMostOneChild
    BY DEF IInv, TypeOK, Launches, AtMostOneChild
  <1>2. QED
    BY <1>1, Invariant, PTL

(* For any admitted budget, nothing is refunded and nothing overspent. *)
THEOREM NeverOverspent == Spec => []BudgetCharged
  BY Invariant, PTL DEF IInv

(* The reference guest never remembers an outcome that a power loss can undo. *)
THEOREM MemoryBehindJournal == Spec => []HistoryRecorded
  BY Invariant, PTL DEF IInv

(* An outcome told to a client is durable. *)
THEOREM AnswersSurvive == Spec => []AnswerDurable
  BY Invariant, PTL DEF IInv

(* Any number of lock-free readers never see a torn turn. *)
THEOREM InspectionConsistent == Spec => []InspectNeverTorn
  <1>1. IInv => InspectNeverTorn
    BY DEF IInv, Reading, InspectNeverTorn
  <1>2. QED
    BY <1>1, Invariant, PTL

(* A parent stopped before delivery commits nothing. *)
THEOREM StoppedUncommitted == Spec => []StopPreventsCommit
  BY Invariant, PTL DEF IInv

(* A cancellation reaches the child it names only. *)
THEOREM CancellationIsolated == Spec => []CancelIsolated
  BY Invariant, PTL DEF IInv

-----------------------------------------------------------------------------
(* Implementation of the abstract contract. *)

(* A step that leaves the synced records and the launches alone is a stutter. *)
LEMMA ContractStutter ==
    ASSUME durable' = durable, runs' = runs
    PROVE  UNCHANGED Contract!contract
  BY DEF Contract!contract, DurableStage

(* Making one visible record durable is one step of the contract. *)
LEMMA ContractAdvance ==
    ASSUME IInv, NEW t \in Turns, NEW s \in Stages,
           Rec(t, s) \in visible \ durable,
           durable' = durable \cup {Rec(t, s)}, runs' = runs
    PROVE  Contract!CNext
  <1> DEFINE old == [u \in Turns |-> DurableStage(u)]
             new == [u \in Turns |-> DurableStage(u)']
             launched == {u \in Turns : runs[u] > 0}
  <1> USE RecInjective
  <1>1. \A u \in Turns \ {t} : DurableStage(u)' = DurableStage(u)
    BY DEF DurableStage
  <1>2. Chain /\ Serial
    BY DEF IInv
  <1>3. CASE s = "reserved"
    <2>1. DurableStage(t) = "none" /\ DurableStage(t)' = "reserved"
      BY <1>2, <1>3 DEF DurableStage, Chain, Has, Kept
    <2>2. \A u \in Turns \ {t} : DurableStage(u) \in {"none", "committed"}
      BY <1>2, <1>3 DEF DurableStage, Chain, Serial, Has, Kept
    <2>3. new = [old EXCEPT ![t] = "reserved"]
      BY <1>1, <2>1
    <2>4. Contract!CReserve(t)
      BY <2>1, <2>2, <2>3 DEF Contract!CReserve
    <2>5. QED
      BY <2>4 DEF Contract!CNext
  <1>4. CASE s = "destroyed"
    <2>1. DurableStage(t) = "reserved" /\ DurableStage(t)' = "destroyed"
      BY <1>2, <1>4 DEF DurableStage, Chain, Has, Kept
    <2>2. new = [old EXCEPT ![t] = "destroyed"]
      BY <1>1, <2>1
    <2>3. Contract!CDestroy(t)
      BY <2>1, <2>2 DEF Contract!CDestroy
    <2>4. QED
      BY <2>3 DEF Contract!CNext
  <1>5. CASE s = "committed"
    <2>1. DurableStage(t) = "destroyed" /\ DurableStage(t)' = "committed"
      BY <1>2, <1>5 DEF DurableStage, Chain, Has, Kept
    <2>2. new = [old EXCEPT ![t] = "committed"]
      BY <1>1, <2>1
    <2>3. Contract!CCommit(t)
      BY <2>1, <2>2 DEF Contract!CCommit
    <2>4. QED
      BY <2>3 DEF Contract!CNext
  <1>6. QED
    BY <1>3, <1>4, <1>5 DEF Stages

(* Syncing the record the owner has just published. *)
LEMMA ContractSync ==
    ASSUME IInv, NEW s \in Stages, turn \in Turns, Rec(turn, s) \in visible \ durable,
           SyncJournal, runs' = runs
    PROVE  Contract!CNext
  <1>1. durable' = durable \cup {Rec(turn, s)}
    BY DEF IInv, Chain, SyncJournal
  <1>2. QED
    BY <1>1, ContractAdvance

(* Every step of the session is a step of the contract or leaves it alone. *)
LEMMA ContractStep ==
    ASSUME IInv, [Next]_vars
    PROVE  [Contract!CNext]_(Contract!contract)
  <1>1. CASE LaunchChild
    <2>1. turn \in Turns /\ runs[turn] = 0 /\ runs \in [Turns -> Nat]
      BY <1>1 DEF IInv, TypeOK, Thread, Working, Launches, LaunchChild, At
    <2>2. DurableStage(turn) = "reserved"
      BY <1>1 DEF IInv, Progress, Chain, Has, Kept, LaunchChild, At, DurableStage, TypeOK,
                  Thread, Working
    <2>3. durable' = durable /\ runs' = [runs EXCEPT ![turn] = 1]
      BY <1>1, <2>1 DEF LaunchChild, journal
    <2>4. {t \in Turns : runs'[t] > 0} = {t \in Turns : runs[t] > 0} \cup {turn}
      BY <2>1, <2>3
    <2>5. [t \in Turns |-> DurableStage(t)'] = [t \in Turns |-> DurableStage(t)]
      BY <2>3 DEF DurableStage
    <2>6. PICK t \in Turns : t = turn
      BY <2>1
    <2>7. Contract!CRun(t)
      BY <2>1, <2>2, <2>4, <2>5, <2>6 DEF Contract!CRun
    <2>8. QED
      BY <2>7 DEF Contract!CNext
  <1>2. CASE SyncReservation
    <2>1. /\ turn \in Turns /\ Rec(turn, "reserved") \in visible \ durable
          /\ SyncJournal /\ runs' = runs
      BY <1>2 DEF IInv, TypeOK, Thread, Working, Progress, Has, Kept, SyncReservation,
                  Sync, At, ghosts
    <2>2. QED
      BY <2>1, ContractSync DEF Stages
  <1>3. CASE SyncDestroyed
    <2>1. /\ turn \in Turns /\ Rec(turn, "destroyed") \in visible \ durable
          /\ SyncJournal /\ runs' = runs
      BY <1>3 DEF IInv, TypeOK, Thread, Working, Progress, Has, Kept, SyncDestroyed,
                  Sync, At, ghosts
    <2>2. QED
      BY <2>1, ContractSync DEF Stages
  <1>4. CASE SyncCommit
    <2>1. /\ turn \in Turns /\ Rec(turn, "committed") \in visible \ durable
          /\ SyncJournal /\ runs' = runs
      BY <1>4 DEF IInv, TypeOK, Thread, Working, Progress, Has, Kept, SyncCommit,
                  Sync, At, ghosts
    <2>2. QED
      BY <2>1, ContractSync DEF Stages
  <1>5. CASE PowerLoss
    <2>1. PICK kept \in SUBSET (visible \ durable) : durable' = durable \cup kept
      BY <1>5 DEF PowerLoss
    <2>2. runs' = runs
      BY <1>5 DEF PowerLoss, ghosts
    <2>3. CASE kept = {}
      BY <2>1, <2>2, <2>3, ContractStutter
    <2>4. CASE kept # {}
      <3>1. PICK x \in visible \ durable : kept = {x}
        BY <2>1, <2>4 DEF IInv, Chain
      <3>2. PICK t \in Turns, s \in Stages : x = Rec(t, s)
        BY <3>1 DEF IInv, TypeOK, Record, Rec
      <3>3. QED
        BY <2>1, <2>2, <3>1, <3>2, ContractAdvance
    <2>5. QED
      BY <2>3, <2>4
  <1>6. CASE ~(LaunchChild \/ SyncReservation \/ SyncDestroyed \/ SyncCommit \/ PowerLoss)
    <2>1. durable' = durable /\ runs' = runs
      BY <1>6, NextCases
         DEF Reserve, JournalReservation, Publish, Register, NoChild, ChildEnds, ChildErrs,
             Confirm, JournalDestroyed, Deliver, JournalCommit, Retire, Answer,
             DropRuntime, Fails, GuestSpawns, GuestRefuses, Start, Submit, CancelChild,
             StopParent, Inspect, ReadRecord, DeadlinePasses, Crash, vars, journal, ghosts
    <2>2. QED
      BY <2>1, ContractStutter
  <1>7. QED
    BY <1>1, <1>2, <1>3, <1>4, <1>5, <1>6

(* The session implements the abstract contract: for any turns, through any  *)
(* failure, crash or power loss, the durable stage of a turn advances one    *)
(* step at a time, turns are serial and a child is launched only in between. *)
THEOREM Implementation == Spec => ContractKept
  <1>1. Init => Contract!CInit
    BY DEF Init, Contract!CInit, DurableStage
  <1>2. IInv /\ [Next]_vars => [Contract!CNext]_(Contract!contract)
    BY ContractStep
  <1>3. QED
    BY <1>1, <1>2, Invariant, PTL DEF Spec, ContractKept, Contract!CSpec
====
