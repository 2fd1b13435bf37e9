---------------------------- MODULE ParentSession ----------------------------
(***************************************************************************)
(* One parent incarnation, from the first turn to the loss of its context. *)
(*                                                                         *)
(* The owner thread runs ParentSession::turn (celln-pilot/parent_session): *)
(* it asks the guest parent for a worker, charges the lease, journals the  *)
(* reservation, runs one child cell, journals the child's destruction,     *)
(* delivers the result to the guest and journals the commit.  Around it    *)
(* run: the guest parent, clients that submit, resubmit and cancel turns,  *)
(* readers that inspect the journal without any lock, the wall clock, and  *)
(* the host, which may kill the process or lose power.                     *)
(*                                                                         *)
(* A journal record is written in two steps because publish() makes it     *)
(* visible (persist_noclobber) before the directory is synced.             *)
(***************************************************************************)
EXTENDS ParentLease, Sequences

CONSTANTS Readers,        \* threads or processes inside inspect_turn
          HistoryLimit,   \* MAX_TASK_EXCHANGES
          Seeded          \* stands for an exchange of a seeded history

ASSUME SessionAssumption ==
    /\ HistoryLimit \in Nat \ {0}
    /\ Seeded \notin Turns

VARIABLES
    up,        \* the host process lives
    expired,   \* the lease deadline has passed
    stopped,   \* the owner's Control has a stop reason
    pc,        \* where the owner thread is
    turn,      \* the turn it works on
    result,    \* the worker's DestroyedChild for it
    lease,     \* ParentLease
    visible,   \* journal records other processes can read
    durable,   \* journal records that survive a power loss
    recorded,  \* the outcome inside each destroyed record
    slot,      \* ChildControlSlot: active, seen, cancelled
    child,     \* the turn whose child cell is alive
    guest,     \* ParentContext inside the guest parent
    reader,    \* the inspect_turn calls in progress
    reply,     \* what clients were told about each turn
    runs,      \* history: how many children were launched for each turn
    cancels,   \* history: turns whose cancellation was accepted
    doomed     \* history: turns the parent was stopped under before delivery

owner == <<pc, turn, result>>
journal == <<visible, durable, recorded>>
ghosts == <<runs, cancels, doomed>>
vars == <<up, expired, stopped, owner, lease, journal, slot, child, guest,
          reader, reply, ghosts>>

Stages == {"reserved", "destroyed", "committed"}
Record == [turn : Turns, stage : Stages]
Rec(t, s) == [turn |-> t, stage |-> s]

IdleReader == [turn |-> NoTurn, done |-> 0, found |-> {}, answer |-> "none"]

(* Control points of the owner thread, in the order turn() passes them. *)
Working == {"asked", "granted", "reserving", "syncReserved", "register",
            "prepare", "running", "confirm", "recording", "syncDestroyed",
            "deliver", "committing", "syncCommitted", "retire", "answer"}
Points == Working \cup {"start", "idle", "failed", "ended"}

(* The points at which the result has not been handed to the guest yet. *)
BeforeDelivery == Working \ {"committing", "syncCommitted", "retire", "answer"}

SlotState == [active : Turns \cup {NoTurn}, seen : SUBSET Turns, cancelled : BOOLEAN]

GuestState == [alive : BOOLEAN, honest : BOOLEAN, history : Seq(Turns \cup {Seeded}),
               pending : Turns \cup {NoTurn}, seen : SUBSET Turns]

Answers == {"none", "not-found", "reserved", "child-destroyed",
            "parent-committed", "invalid"}

ReaderState == [turn : Turns \cup {NoTurn}, done : 0 .. 2, found : SUBSET Stages,
                answer : Answers]

TypeOK ==
    /\ up \in BOOLEAN /\ expired \in BOOLEAN /\ stopped \in BOOLEAN
    /\ pc \in Points
    /\ turn \in Turns \cup {NoTurn}
    /\ result \in {"none", "ok", "failed"}
    /\ lease \in Lease
    /\ visible \subseteq Record
    /\ durable \subseteq Record
    /\ recorded \in [Turns -> {"none", "ok", "failed"}]
    /\ slot \in SlotState
    /\ child \in Turns \cup {NoTurn}
    /\ guest \in GuestState
    /\ reader \in [Readers -> ReaderState]
    /\ reply \in [Turns -> {"none", "refused", "ok", "failed", "error"}]
    /\ runs \in [Turns -> Nat]
    /\ cancels \subseteq Turns
    /\ doomed \subseteq Turns

-----------------------------------------------------------------------------
(* The session exists: the incarnation is claimed and its guest parent has  *)
(* acknowledged execution.  The guest is the reference harness (honest) or  *)
(* any other program behind the mailbox.                                    *)
Init ==
    /\ up = TRUE /\ expired = FALSE /\ stopped = FALSE
    /\ pc = "start" /\ turn = NoTurn /\ result = "none"
    /\ lease = NewLease
    /\ visible = {} /\ durable = {}
    /\ recorded = [t \in Turns |-> "none"]
    /\ slot = [active |-> NoTurn, seen |-> {}, cancelled |-> FALSE]
    /\ child = NoTurn
    /\ \E h \in BOOLEAN :
         guest = [alive |-> TRUE, honest |-> h, history |-> <<>>,
                  pending |-> NoTurn, seen |-> {}]
    /\ reader = [r \in Readers |-> IdleReader]
    /\ reply = [t \in Turns |-> "none"]
    /\ runs = [t \in Turns |-> 0]
    /\ cancels = {} /\ doomed = {}

(* An error out of turn(): submit() closes the session and the lease, the   *)
(* owner thread cancels its control and answers with the error.             *)
Fail ==
    /\ pc' = "failed"
    /\ lease' = Stopped(lease)
    /\ stopped' = TRUE
    /\ reply' = IF turn = NoTurn THEN reply ELSE [reply EXCEPT ![turn] = "error"]
    /\ turn' = NoTurn /\ result' = "none"

(* The owner thread is at control point p and the process lives. *)
At(p) == up /\ pc = p

(* Whether any of the host's own operations at this point (a write, a fork, *)
(* a spawn, an encoding) may fail without an effect.                        *)
Fails(p) ==
    /\ At(p)
    /\ Fail
    /\ UNCHANGED <<up, expired, journal, slot, child, guest, reader, ghosts>>

(* ParentSession::seed, once and before any turn; its failure is an         *)
(* initialization error of the owner.                                       *)
Start(seeded) ==
    /\ At("start")
    /\ guest' = IF seeded /\ guest.honest
                THEN [guest EXCEPT !.history = <<Seeded>>] ELSE guest
    /\ pc' = "idle"
    /\ UNCHANGED <<up, expired, stopped, turn, result, lease, journal, slot,
                   child, reader, reply, ghosts>>

(* A client's turn reaches the handler.  Of the refusals before the guest   *)
(* is asked, an expired lease ends the session; a message that is too long  *)
(* is answered with nothing reserved.                                       *)
Submit(t, oversized) ==
    /\ At("idle") /\ ~stopped
    /\ LET seen == Observed(lease, expired) IN
       IF seen.stopped
       THEN /\ pc' = "failed"
            /\ turn' = turn
            /\ lease' = Stopped(seen)
            /\ stopped' = TRUE
            /\ reply' = [reply EXCEPT ![t] = "error"]
       ELSE /\ pc' = IF oversized THEN "idle" ELSE "asked"
            /\ turn' = IF oversized THEN turn ELSE t
            /\ lease' = seen
            /\ reply' = [reply EXCEPT ![t] = IF oversized THEN "refused" ELSE "none"]
            /\ UNCHANGED stopped
    /\ UNCHANGED <<up, expired, result, journal, slot, child, guest, reader, ghosts>>

-----------------------------------------------------------------------------
(* The guest parent.  LinuxCell::run refuses to enter a guest whose control *)
(* is stopped, so every exchange below needs ~stopped when it begins.       *)

(* ParentContext::exchange accepts a turn: not pending, not seen before.    *)
ContextAccepts(t) ==
    /\ guest.pending = NoTurn
    /\ t \notin guest.seen
    /\ Cardinality(guest.seen) < IdentityLimit

(* The reply is Spawn for this very turn. *)
GuestSpawns ==
    /\ At("asked") /\ ~stopped /\ guest.alive
    /\ guest.honest => ContextAccepts(turn)
    /\ guest' = IF guest.honest
                THEN [guest EXCEPT !.pending = turn, !.seen = guest.seen \cup {turn}]
                ELSE guest
    /\ pc' = "granted"
    /\ UNCHANGED <<up, expired, stopped, turn, result, lease, journal, slot,
                   child, reader, reply, ghosts>>

(* The reply is a refusal of this very turn; the context is untouched. *)
GuestRefuses ==
    /\ At("asked") /\ ~stopped /\ guest.alive
    /\ guest.honest => ContextAccepts(turn)
    /\ pc' = "answer"
    /\ UNCHANGED <<up, expired, stopped, turn, result, lease, journal, slot, child,
                   guest, reader, reply, ghosts>>

(* Planted fault: a guest is left waiting when its control stops. *)
GuestBreaksMutant == ~stopped /\ Fails("asked")

(* Any other reply (another turn's identity, success without a child, a     *)
(* malformed frame), a guest that exited, or a stopped control.             *)
GuestBreaks == Fails("asked")

-----------------------------------------------------------------------------
(* lease.reserve: refused or charged, in memory only. *)
Reserve ==
    /\ At("granted")
    /\ MayReserve(Observed(lease, expired), turn)
    /\ lease' = Reserved(Observed(lease, expired), turn)
    /\ pc' = "reserving"
    /\ UNCHANGED <<up, expired, stopped, turn, result, journal, slot, child,
                   guest, reader, reply, ghosts>>

ReserveRefused ==
    /\ ~MayReserve(Observed(lease, expired), turn)
    /\ Fails("granted")

(* publish(): the temporary file is linked under its final name only when   *)
(* that name is free.                                                       *)
Persist(rec) ==
    /\ rec \notin visible
    /\ visible' = visible \cup {rec}

(* The directory sync that completes publish(). *)
SyncJournal == durable' = visible

(* ParentJournal::reserve, ::child_destroyed and ::parent_committed read    *)
(* back the records they build on before they publish.                      *)
MayPublish(t, stage) ==
    CASE stage = "reserved" -> Cardinality(lease.seen) - 1 < IdentityLimit
      [] stage = "destroyed" -> Rec(t, "reserved") \in visible
      [] stage = "committed" -> {Rec(t, "reserved"), Rec(t, "destroyed")} \subseteq visible

Publish(p, stage, next) ==
    /\ At(p)
    /\ MayPublish(turn, stage)
    /\ Persist(Rec(turn, stage))
    /\ pc' = next
    /\ UNCHANGED <<up, expired, stopped, turn, result, lease, durable, slot,
                   child, guest, reader, reply, ghosts>>

Sync(p, next) ==
    /\ At(p)
    /\ SyncJournal
    /\ pc' = next
    /\ UNCHANGED <<up, expired, stopped, turn, result, lease, visible, recorded,
                   slot, child, guest, reader, reply, ghosts>>

(* Planted fault: the child is started before the reservation is synced. *)
JournalReservationMutant ==
    /\ Publish("reserving", "reserved", "register")
    /\ UNCHANGED recorded

JournalReservation ==
    /\ Publish("reserving", "reserved", "syncReserved")
    /\ UNCHANGED recorded

SyncReservation == Sync("syncReserved", "register")

-----------------------------------------------------------------------------
(* The child. *)

(* ChildControlSlot::register: a fresh control for this turn alone. *)
Register ==
    /\ At("register")
    /\ ~stopped
    /\ slot.active = NoTurn
    /\ turn \notin slot.seen
    /\ Cardinality(slot.seen) < IdentityLimit
    /\ slot' = [active |-> turn, seen |-> slot.seen \cup {turn}, cancelled |-> FALSE]
    /\ pc' = "prepare"
    /\ UNCHANGED <<up, expired, stopped, turn, result, lease, journal, child,
                   guest, reader, reply, ghosts>>

(* The child's control stops with its own cancellation or with the parent's. *)
ChildStopped == slot.cancelled \/ stopped

(* PreparedWorker::execute up to the launch returns without a child: the    *)
(* template refuses the task, or the control stopped before the launch.     *)
NoChild ==
    /\ At("prepare")
    /\ result' = "failed"
    /\ pc' = "confirm"
    /\ UNCHANGED <<up, expired, stopped, turn, lease, journal, slot, child,
                   guest, reader, reply, ghosts>>

LaunchChild ==
    /\ At("prepare")
    /\ ~ChildStopped
    /\ child' = turn
    /\ runs' = [runs EXCEPT ![turn] = runs[turn] + 1]
    /\ pc' = "running"
    /\ UNCHANGED <<up, expired, stopped, turn, result, lease, journal, slot,
                   guest, reader, reply, cancels, doomed>>

(* run_cell_with_broker returns after its cell is dropped.  A child that    *)
(* was stopped may still have finished first.                               *)
ChildEnds(r) ==
    /\ At("running")
    /\ child' = NoTurn
    /\ result' = r
    /\ pc' = "confirm"
    /\ UNCHANGED <<up, expired, stopped, turn, lease, journal, slot, guest,
                   reader, reply, ghosts>>

(* Planted fault: a worker error is retried with a new child. *)
ChildErrsMutant ==
    /\ At("running")
    /\ child' = NoTurn
    /\ pc' = "prepare"
    /\ UNCHANGED <<up, expired, stopped, turn, result, lease, journal, slot,
                   guest, reader, reply, ghosts>>

(* The worker reports an error after the teardown (audit, results, launch). *)
ChildErrs ==
    /\ At("running")
    /\ child' = NoTurn
    /\ Fail
    /\ UNCHANGED <<up, expired, journal, slot, guest, reader, ghosts>>

(* lease.confirm_child_destroyed *)
Confirm ==
    /\ At("confirm")
    /\ lease.active = turn
    /\ lease' = ChildConfirmed(lease)
    /\ pc' = "recording"
    /\ UNCHANGED <<up, expired, stopped, turn, result, journal, slot, child,
                   guest, reader, reply, ghosts>>

JournalDestroyed ==
    /\ Publish("recording", "destroyed", "syncDestroyed")
    /\ recorded' = [recorded EXCEPT ![turn] = result]

SyncDestroyed == Sync("syncDestroyed", "deliver")

-----------------------------------------------------------------------------
(* The result. *)

(* history.push and drain(..excess): only a success is remembered, and only *)
(* the newest HistoryLimit exchanges.                                       *)
Remembered(history, t) ==
    LET all == Append(history, t)
        excess == IF Len(all) > HistoryLimit THEN Len(all) - HistoryLimit ELSE 0
    IN  SubSeq(all, excess + 1, Len(all))

(* Planted fault: a stopped parent still gets the result. *)
DeliverMutant ==
    /\ At("deliver")
    /\ ~Observed(lease, expired).stopped
    /\ guest.alive
    /\ guest.honest => guest.pending = turn
    /\ guest' = IF guest.honest
                THEN [guest EXCEPT !.pending = NoTurn,
                                   !.history = IF result = "ok"
                                               THEN Remembered(guest.history, turn)
                                               ELSE guest.history]
                ELSE guest
    /\ pc' = "committing"
    /\ UNCHANGED <<up, expired, stopped, turn, result, lease, journal, slot,
                   child, reader, reply, ghosts>>

(* The result exchange and the acknowledgement that must echo it. *)
Deliver ==
    /\ At("deliver")
    /\ ~Observed(lease, expired).stopped
    /\ ~stopped /\ guest.alive
    /\ guest.honest => guest.pending = turn
    /\ guest' = IF guest.honest
                THEN [guest EXCEPT !.pending = NoTurn,
                                   !.history = IF result = "ok"
                                               THEN Remembered(guest.history, turn)
                                               ELSE guest.history]
                ELSE guest
    /\ pc' = "committing"
    /\ UNCHANGED <<up, expired, stopped, turn, result, lease, journal, slot,
                   child, reader, reply, ghosts>>

(* Planted fault: the client is answered before the commit is synced. *)
JournalCommitMutant ==
    /\ Publish("committing", "committed", "retire")
    /\ UNCHANGED recorded

JournalCommit ==
    /\ Publish("committing", "committed", "syncCommitted")
    /\ UNCHANGED recorded

SyncCommit == Sync("syncCommitted", "retire")

(* ChildControlSlot::retire *)
Retire ==
    /\ At("retire")
    /\ slot.active = turn
    /\ slot' = [slot EXCEPT !.active = NoTurn, !.cancelled = FALSE]
    /\ pc' = "answer"
    /\ UNCHANGED <<up, expired, stopped, turn, result, lease, journal, child,
                   guest, reader, reply, ghosts>>

(* The owner answers the client only if its control is still not stopped.   *)
Answer ==
    /\ At("answer")
    /\ ~stopped
    /\ reply' = [reply EXCEPT ![turn] = IF result = "none" THEN "refused" ELSE result]
    /\ pc' = "idle" /\ turn' = NoTurn /\ result' = "none"
    /\ UNCHANGED <<up, expired, stopped, lease, journal, slot, child, guest,
                   reader, ghosts>>

AnswerStopped == stopped /\ Fails("answer")

(* Planted fault: an idle owner does not notice that it was stopped. *)
DropRuntimeMutant ==
    /\ up
    /\ pc = "failed"
    /\ guest' = [guest EXCEPT !.alive = FALSE]
    /\ pc' = "ended"
    /\ stopped' = TRUE
    /\ UNCHANGED <<up, expired, turn, result, lease, journal, slot, child,
                   reader, reply, ghosts>>

(* The owner thread drops the runtime: the guest parent is destroyed.  A    *)
(* stopped owner leaves its loop between two turns in the same way.         *)
DropRuntime ==
    /\ up
    /\ pc = "failed" \/ (pc \in {"start", "idle"} /\ stopped)
    /\ guest' = [guest EXCEPT !.alive = FALSE]
    /\ pc' = "ended"
    /\ stopped' = TRUE
    /\ UNCHANGED <<up, expired, turn, result, lease, journal, slot, child,
                   reader, reply, ghosts>>

-----------------------------------------------------------------------------
(* The environment of the owner thread. *)

(* Instant::now() reaches the lease's deadline. *)
DeadlinePasses ==
    /\ up /\ ~expired
    /\ expired' = TRUE
    /\ UNCHANGED <<up, stopped, owner, lease, journal, slot, child, guest,
                   reader, reply, ghosts>>

(* ParentOwner::cancel, the registry's stop and drain, the control's own    *)
(* deadline.                                                                *)
StopParent ==
    /\ up /\ ~stopped
    /\ stopped' = TRUE
    /\ doomed' = IF pc \in BeforeDelivery /\ Rec(turn, "committed") \notin visible
                 THEN doomed \cup {turn} ELSE doomed
    /\ UNCHANGED <<up, expired, owner, lease, journal, slot, child, guest,
                   reader, reply, runs, cancels>>

(* Planted fault: whichever child is active is signalled. *)
CancelChildMutant(t) ==
    /\ up
    /\ slot.active # NoTurn
    /\ slot' = [slot EXCEPT !.cancelled = TRUE]
    /\ cancels' = cancels \cup {t}
    /\ UNCHANGED <<up, expired, stopped, owner, lease, journal, child, guest,
                   reader, reply, runs, doomed>>

(* ChildControlSlot::cancel: only the registered identity is signalled. *)
CancelChild(t) ==
    /\ up
    /\ slot.active = t
    /\ slot' = [slot EXCEPT !.cancelled = TRUE]
    /\ cancels' = cancels \cup {t}
    /\ UNCHANGED <<up, expired, stopped, owner, lease, journal, child, guest,
                   reader, reply, runs, doomed>>

(* Planted fault: the destruction is read before the commit. *)
InspectOrderMutant == <<"reserved", "destroyed", "committed">>

(* turn_status reads the reservation, then the commit, then the destruction, *)
(* each a separate read of the directory, without a lock.                    *)
InspectOrder == <<"reserved", "committed", "destroyed">>

(* What turn_status makes of the records it found. *)
TurnStatus(found) ==
    CASE "reserved" \notin found -> "not-found"
      [] found = {"reserved"} -> "reserved"
      [] found = {"reserved", "destroyed"} -> "child-destroyed"
      [] found = {"reserved", "destroyed", "committed"} -> "parent-committed"
      [] OTHER -> "invalid"

Inspect(r, t) ==
    /\ reader[r].turn = NoTurn
    /\ reader' = [reader EXCEPT ![r] = [turn |-> t, done |-> 0, found |-> {}, answer |-> "none"]]
    /\ UNCHANGED <<up, expired, stopped, owner, lease, journal, slot, child,
                   guest, reply, ghosts>>

(* One read.  A missing reservation ends the call, as does the last read. *)
ReadRecord(r) ==
    /\ reader[r].turn # NoTurn
    /\ LET t == reader[r].turn
           n == reader[r].done + 1
           found == reader[r].found \cup
                    {s \in {InspectOrder[n]} : Rec(t, s) \in visible}
       IN  reader' = [reader EXCEPT ![r] =
             IF n = 3 \/ found = {}
             THEN [turn |-> NoTurn, done |-> 0, found |-> {}, answer |-> TurnStatus(found)]
             ELSE [turn |-> t, done |-> n, found |-> found, answer |-> "none"]]
    /\ UNCHANGED <<up, expired, stopped, owner, lease, journal, slot, child,
                   guest, reply, ghosts>>

(* Everything the process owns dies with it: KVM file descriptors included. *)
(* The lease is kept only as a record of what had been charged.             *)
ProcessGone ==
    /\ up' = FALSE
    /\ pc' = "ended" /\ turn' = NoTurn /\ result' = "none"
    /\ child' = NoTurn
    /\ slot' = [active |-> NoTurn, seen |-> {}, cancelled |-> FALSE]
    /\ guest' = [guest EXCEPT !.alive = FALSE]

Crash ==
    /\ up
    /\ ProcessGone
    /\ UNCHANGED <<expired, stopped, lease, journal, reader, reply, ghosts>>

(* A power loss keeps what was synced and any part of what was not. *)
PowerLoss ==
    /\ up
    /\ ProcessGone
    /\ \E kept \in SUBSET (visible \ durable) :
         /\ visible' = durable \cup kept
         /\ durable' = durable \cup kept
    /\ reader' = [r \in Readers |-> IdleReader]
    /\ UNCHANGED <<expired, stopped, lease, recorded, reply, ghosts>>

-----------------------------------------------------------------------------
(* Points where the host operation itself may fail without an effect. *)
HostFails ==
    \E p \in {"start", "reserving", "syncReserved", "register", "prepare",
              "recording", "syncDestroyed", "deliver", "committing",
              "syncCommitted"} : Fails(p)

OwnerStep ==
    \/ Reserve \/ ReserveRefused
    \/ JournalReservation \/ SyncReservation
    \/ Register \/ NoChild \/ LaunchChild
    \/ (\E r \in {"ok", "failed"} : ChildEnds(r)) \/ ChildErrs
    \/ Confirm \/ JournalDestroyed \/ SyncDestroyed
    \/ Deliver \/ JournalCommit \/ SyncCommit \/ Retire
    \/ Answer \/ AnswerStopped \/ DropRuntime \/ HostFails

GuestStep == GuestSpawns \/ GuestRefuses \/ GuestBreaks

ClientStep ==
    \/ \E s \in BOOLEAN : Start(s)
    \/ \E t \in Turns, o \in BOOLEAN : Submit(t, o)
    \/ \E t \in Turns : CancelChild(t)
    \/ StopParent

ReaderStep ==
    \E r \in Readers :
        \/ \E t \in Turns : Inspect(r, t)
        \/ ReadRecord(r)

HostStep == DeadlinePasses \/ Crash \/ PowerLoss

Next == OwnerStep \/ GuestStep \/ ClientStep \/ ReaderStep \/ HostStep

Spec == Init /\ [][Next]_vars

-----------------------------------------------------------------------------
(* Properties. *)

(* The stage of a turn that a power loss cannot take back. *)
DurableStage(t) ==
    IF Rec(t, "committed") \in durable THEN "committed"
    ELSE IF Rec(t, "destroyed") \in durable THEN "destroyed"
    ELSE IF Rec(t, "reserved") \in durable THEN "reserved" ELSE "none"

Contract == INSTANCE TurnContract
            WITH stage <- [t \in Turns |-> DurableStage(t)],
                 ran <- {t \in Turns : runs[t] > 0}

(* The session, its crashes and power losses included, keeps the contract   *)
(* of TurnContract: the journal of parent_journal.rs moves one stage at a   *)
(* time and a child is launched only under a synced reservation.            *)
ContractKept == Contract!CSpec

(* A turn identity is executed at most once in the life of an incarnation,  *)
(* through any resubmission, refusal, crash or failed publication.          *)
AtMostOneChild == \A t \in Turns : runs[t] =< 1

(* The lease never refunds and never overspends (parent_lease.rs): what is  *)
(* left plus what the seen turns were charged is what the parent was        *)
(* granted, and only charged turns ever had a child.                        *)
BudgetCharged ==
    LET charged == Cardinality(lease.seen) IN
    /\ lease.turns >= 0 /\ lease.requests >= 0 /\ lease.tokens >= 0
    /\ lease.turns + charged = MaxTurns
    /\ lease.requests + charged * TurnRequests = TotalRequests
    /\ lease.tokens + charged * TurnTokens = TotalTokens
    /\ {t \in Turns : runs[t] > 0} \subseteq lease.seen

(* What the reference guest remembers (parent_harness.rs) is a success      *)
(* whose record survives a power loss: the parent's context never runs      *)
(* ahead of the journal.                                                    *)
HistoryRecorded ==
    guest.honest =>
        \A i \in 1 .. Len(guest.history) :
            \/ guest.history[i] = Seeded
            \/ /\ recorded[guest.history[i]] = "ok"
               /\ Rec(guest.history[i], "destroyed") \in durable

(* A client that was given an outcome can still read that outcome after a   *)
(* power loss: the commit is synced before the owner answers.               *)
AnswerDurable ==
    \A t \in Turns : reply[t] \in {"ok", "failed"} =>
        /\ {Rec(t, s) : s \in Stages} \subseteq durable
        /\ recorded[t] = reply[t]

(* turn_status reads three files without a lock while the owner publishes   *)
(* them; no interleaving makes it see a commit without its destruction.     *)
InspectNeverTorn == \A r \in Readers : reader[r].answer # "invalid"

(* "Parent cancellation still prevents the later parent-scope context       *)
(* commit" (dispatch_parent_worker.rs): a turn under which the parent was   *)
(* stopped before its result was delivered is never committed.              *)
StopPreventsCommit == \A t \in doomed : Rec(t, "committed") \notin visible

(* A cancellation signals the child it names and no later one               *)
(* (parent_child_control.rs).                                               *)
CancelIsolated ==
    slot.active # NoTurn /\ slot.cancelled => slot.active \in cancels

(* Every turn ends: the owner answers, fails or dies with its process.      *)
TurnEnds == (pc \in Working) ~> (pc \in {"idle", "ended"})

(* A stopped owner destroys its guest parent. *)
StopDestroysParent == stopped ~> ~guest.alive

-----------------------------------------------------------------------------
(* The owner thread is scheduled, and its guests are bounded: the parent's  *)
(* run and the child's run both end with their control or their timeout.    *)
FairSpec == Spec /\ WF_vars(OwnerStep \/ GuestStep)
==============================================================================
