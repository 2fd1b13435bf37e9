------------------------------ MODULE ScopedTurn ------------------------------
(***************************************************************************)
(* The turns of one retained parent that a scoped receiver admitted        *)
(* (dispatch_scoped.rs start_enduring, submit_enduring_turn,               *)
(* finish_enduring_turn; dispatch_parent_worker.rs execute).               *)
(*                                                                         *)
(* The handler leaves a turn's broker, with its model bearer and the       *)
(* operation's control, in a map; the parent's thread takes it out when    *)
(* the turn is reserved, nests a control of its own under the child's, and *)
(* enters the operation's in a second map.  A cleanup looks through both   *)
(* maps and the child control slot, one lock at a time, to find what to    *)
(* cancel.  start and cleanup exclude each other; the parent's thread and  *)
(* the thread that awaits the answer exclude nobody.                       *)
(***************************************************************************)
EXTENDS Integers, Sequences

CONSTANTS ScopedTurns   \* turn identities
NoTurn == "no turn"
ASSUME TurnAssumption == NoTurn \notin ScopedTurns

VARIABLES
    retained,   \* the parent: "none", "running", "stopped" or "lost"
    control,    \* the operation's control of each turn
    pending,    \* turns whose broker waits in the pending map
    active,     \* turns in the active map
    results,    \* turns whose native result waits in the results map
    submitted,  \* commands in the owner's channel
    slot,       \* the child control slot
    supply,     \* where the parent's thread is, and with which turn
    nested,     \* the control the running turn is under: "none", "live", "over"
    cell,       \* the turn whose cell runs
    answers,    \* what each turn's waiting thread has been sent
    turnStatus, \* the stored status
    cleaner     \* the cleanup under way

turnVars == <<retained, control, pending, active, results, submitted, slot, supply,
              nested, cell, answers, turnStatus, cleaner>>

NoCleanup == [at |-> "idle", turn |-> NoTurn, found |-> FALSE]
Resting == [at |-> "idle", turn |-> NoTurn]
FreeSlot == [turn |-> NoTurn, cancelled |-> FALSE]

TurnTypeOK ==
    /\ retained \in {"none", "running", "stopped", "lost"}
    /\ control \in [ScopedTurns -> {"none", "live", "cancelled", "expired"}]
    /\ pending \subseteq ScopedTurns /\ active \subseteq ScopedTurns /\ results \subseteq ScopedTurns
    /\ submitted \in Seq(ScopedTurns)
    /\ slot \in [turn : ScopedTurns \cup {NoTurn}, cancelled : BOOLEAN]
    /\ supply \in [at : {"idle", "reserved", "taken", "nested", "supplied", "running",
                          "answered", "failed"}, turn : ScopedTurns \cup {NoTurn}]
    /\ nested \in {"none", "live", "over"}
    /\ cell \in ScopedTurns \cup {NoTurn}
    /\ answers \in [ScopedTurns -> {"none", "refused", "error", "completed"}]
    /\ turnStatus \in [ScopedTurns -> {"absent", "Admitted", "Refused", "Uncertain", "Cancelling",
                                       "Succeeded", "Cancelled", "Failed"}]
    /\ cleaner \in [at : {"idle", "found", "pending", "active", "cancelled", "drained", "stopping"},
                    turn : ScopedTurns \cup {NoTurn}, found : BOOLEAN]

TurnsInit ==
    /\ retained = "none" /\ control = [t \in ScopedTurns |-> "none"]
    /\ pending = {} /\ active = {} /\ results = {} /\ submitted = <<>>
    /\ slot = FreeSlot /\ supply = Resting /\ nested = "none" /\ cell = NoTurn
    /\ answers = [t \in ScopedTurns |-> "none"]
    /\ turnStatus = [t \in ScopedTurns |-> "absent"] /\ cleaner = NoCleanup

Over(t) == control[t] \in {"cancelled", "expired"}

-----------------------------------------------------------------------------
(* start_enduring, for the first operation: bindings, deadlines, capacity,  *)
(* permit and claim come first, and any of them refuses; the context is     *)
(* registered before the parent is spawned and removed if that fails.       *)
SpawnParent ==
    /\ cleaner = NoCleanup /\ retained = "none"
    /\ retained' = "running"
    /\ UNCHANGED <<control, pending, active, results, submitted, slot, supply, nested, cell,
                   answers, turnStatus, cleaner>>

(* A turn needs the retained context, made with the same worker and tools;  *)
(* otherwise it is refused, or uncertain if the context is lost.            *)
RefuseTurn(t) ==
    /\ cleaner = NoCleanup /\ turnStatus[t] = "absent"
    /\ turnStatus' = [turnStatus EXCEPT ![t] = IF retained = "none" THEN "Uncertain" ELSE "Refused"]
    /\ UNCHANGED <<retained, control, pending, active, results, submitted, slot, supply, nested,
                   cell, answers, cleaner>>

(* submit_enduring_turn: pending, then the Admitted status, then the        *)
(* owner's channel; a failure takes the broker out again.                   *)
SubmitTurn(t) ==
    /\ cleaner = NoCleanup /\ turnStatus[t] = "absent" /\ retained # "none"
    /\ \/ /\ retained = "running" /\ submitted = <<>>
          /\ control' = [control EXCEPT ![t] = "live"]
          /\ pending' = pending \cup {t} /\ submitted' = Append(submitted, t)
          /\ turnStatus' = [turnStatus EXCEPT ![t] = "Admitted"]
       \/ /\ turnStatus' \in {[turnStatus EXCEPT ![t] = s] : s \in {"Refused", "Uncertain"}}
          /\ UNCHANGED <<control, pending, submitted>>
    /\ UNCHANGED <<retained, active, results, slot, supply, nested, cell, answers, cleaner>>

-----------------------------------------------------------------------------
(* The parent's thread. *)

GoesTo(place, t) == supply' = [at |-> place, turn |-> t]

(* The turn is refused by the parent, or reserved and its child registered. *)
Reserve ==
    /\ retained = "running" /\ supply = Resting /\ submitted # <<>>
    /\ LET t == Head(submitted)
       IN  \/ GoesTo("reserved", t) /\ slot' = [turn |-> t, cancelled |-> FALSE] /\ UNCHANGED answers
           \/ answers' = [answers EXCEPT ![t] = "refused"] /\ UNCHANGED <<supply, slot>>
    /\ submitted' = Tail(submitted)
    /\ UNCHANGED <<retained, control, pending, active, results, nested, cell, turnStatus, cleaner>>

(* The supply closure.  A broker that is gone fails the parent. *)
TakeBroker ==
    /\ supply.at = "reserved"
    /\ IF supply.turn \in pending THEN GoesTo("taken", supply.turn) ELSE GoesTo("failed", supply.turn)
    /\ pending' = pending \ {supply.turn}
    /\ UNCHANGED <<retained, control, active, results, submitted, slot, nested, cell, answers,
                   turnStatus, cleaner>>

(* The child's control, bounded by what the operation's has left. *)
NestControl ==
    /\ supply.at = "taken" /\ GoesTo("nested", supply.turn)
    /\ nested' = IF Over(supply.turn) \/ slot.cancelled THEN "over" ELSE "live"
    /\ UNCHANGED <<retained, control, pending, active, results, submitted, slot, cell, answers,
                   turnStatus, cleaner>>

EnterActive ==
    /\ supply.at = "nested" /\ GoesTo("supplied", supply.turn)
    /\ active' = active \cup {supply.turn}
    /\ UNCHANGED <<retained, control, pending, results, submitted, slot, nested, cell, answers,
                   turnStatus, cleaner>>

(* The control is looked at once more before the cell is launched; a fork   *)
(* may also fail.                                                           *)
LaunchTurn ==
    /\ supply.at = "supplied"
    /\ \/ nested = "live" /\ GoesTo("running", supply.turn) /\ cell' = supply.turn
       \/ nested = "over" /\ GoesTo("answered", supply.turn) /\ UNCHANGED cell
       \/ GoesTo("failed", supply.turn) /\ UNCHANGED cell
    /\ UNCHANGED <<retained, control, pending, active, results, submitted, slot, nested, answers,
                   turnStatus, cleaner>>

(* The cell is gone before the result callback. *)
CellGone ==
    /\ supply.at = "running" /\ cell' = NoTurn
    /\ \/ GoesTo("answered", supply.turn) /\ results' = results \cup {supply.turn}
          /\ active' = active \ {supply.turn}
       \/ nested = "over" /\ GoesTo("answered", supply.turn) /\ UNCHANGED <<results, active>>
       \/ GoesTo("failed", supply.turn) /\ UNCHANGED <<results, active>>
    /\ UNCHANGED <<retained, control, pending, submitted, slot, nested, answers, turnStatus, cleaner>>

(* The slot is retired and the answer sent; a failure ends the parent. *)
AnswerTurn ==
    /\ supply.at \in {"answered", "failed"}
    /\ answers' = [answers EXCEPT ![supply.turn] =
                      IF supply.at = "failed" THEN "error" ELSE "completed"]
    /\ retained' = IF supply.at = "failed" /\ retained = "running" THEN "lost" ELSE retained
    /\ supply' = Resting /\ slot' = FreeSlot /\ nested' = "none"
    /\ UNCHANGED <<control, pending, active, results, submitted, cell, turnStatus, cleaner>>

(* finish_enduring_turn: a success or a child that failed; a refusal of the *)
(* parent is not a result.  What waits in the channel of a parent that    *)
(* ended is lost with it.                                                   *)
FinishTurn(t) ==
    /\ turnStatus[t] \in {"Admitted", "Cancelling"}
    /\ answers[t] # "none" \/ (retained # "running" /\ supply.turn # t)
    /\ active' = active \ {t} /\ results' = results \ {t}
    /\ \E s \in CASE answers[t] = "completed" -> {"Succeeded", "Cancelled"}
                 [] answers[t] = "error" /\ t \in results -> {"Failed"}
                 [] OTHER -> {"Uncertain"} :
          turnStatus' = [turnStatus EXCEPT ![t] = s]
    /\ UNCHANGED <<retained, control, pending, submitted, slot, supply, nested, cell, answers, cleaner>>

-----------------------------------------------------------------------------
(* Cleanup of one turn: pending, active, and the child slot only if nothing *)
(* was pending.                                                             *)

CancelOf(t) == [control EXCEPT ![t] = IF @ = "live" THEN "cancelled" ELSE @]

CleanTurn(t) ==
    /\ cleaner = NoCleanup /\ turnStatus[t] \notin {"absent", "Refused"}
    /\ cleaner' = [at |-> "found", turn |-> t, found |-> t \in pending]
    /\ UNCHANGED <<retained, control, pending, active, results, submitted, slot, supply, nested,
                   cell, answers, turnStatus>>

CancelPending ==
    /\ cleaner.at = "found" /\ cleaner' = [cleaner EXCEPT !.at = "pending"]
    /\ control' = IF cleaner.found THEN CancelOf(cleaner.turn) ELSE control
    /\ UNCHANGED <<retained, pending, active, results, submitted, slot, supply, nested, cell,
                   answers, turnStatus>>

CancelActive ==
    /\ cleaner.at = "pending" /\ cleaner' = [cleaner EXCEPT !.at = "active"]
    /\ control' = IF cleaner.turn \in active THEN CancelOf(cleaner.turn) ELSE control
    /\ UNCHANGED <<retained, pending, active, results, submitted, slot, supply, nested, cell,
                   answers, turnStatus>>

(* Mutant: the maps are thought to be enough. *)
CancelSlotSkipped ==
    /\ cleaner.at = "active" /\ cleaner' = [cleaner EXCEPT !.at = "cancelled"]
    /\ UNCHANGED <<retained, control, pending, active, results, submitted, slot, supply, nested,
                   cell, answers, turnStatus>>

CancelSlot ==
    /\ cleaner.at = "active" /\ cleaner' = [cleaner EXCEPT !.at = "cancelled"]
    /\ IF ~cleaner.found /\ slot.turn = cleaner.turn
       THEN slot' = [slot EXCEPT !.cancelled = TRUE]
            /\ nested' = IF nested = "live" THEN "over" ELSE nested
       ELSE UNCHANGED <<slot, nested>>
    /\ UNCHANGED <<retained, control, pending, active, results, submitted, supply, cell, answers,
                   turnStatus>>

AnswerCleanup ==
    /\ cleaner.at = "cancelled" /\ cleaner' = NoCleanup
    /\ turnStatus' = [turnStatus EXCEPT ![cleaner.turn] = IF @ = "Admitted" THEN "Cancelling" ELSE @]
    /\ UNCHANGED <<retained, control, pending, active, results, submitted, slot, supply, nested,
                   cell, answers>>

(* Cleanup of the first operation: every turn, then the parent, which is    *)
(* joined.  The maps are cancelled one after the other.                     *)
CleanParent ==
    /\ cleaner = NoCleanup /\ retained # "none"
    /\ cleaner' = [at |-> "drained", turn |-> NoTurn, found |-> FALSE]
    /\ control' = [t \in ScopedTurns |-> IF t \in pending THEN CancelOf(t)[t] ELSE control[t]]
    /\ pending' = {}
    /\ UNCHANGED <<retained, active, results, submitted, slot, supply, nested, cell, answers, turnStatus>>

StopParent ==
    /\ cleaner.at = "drained" /\ cleaner' = [cleaner EXCEPT !.at = "stopping"]
    /\ control' = [t \in ScopedTurns |-> IF t \in active THEN CancelOf(t)[t] ELSE control[t]]
    /\ retained' = IF retained = "running" THEN "stopped" ELSE retained
    /\ slot' = [slot EXCEPT !.cancelled = slot.turn # NoTurn]
    /\ nested' = IF nested = "live" THEN "over" ELSE nested
    /\ UNCHANGED <<pending, active, results, submitted, supply, cell, answers, turnStatus>>

(* The owner's thread has ended. *)
ParentJoined ==
    /\ cleaner.at = "stopping" /\ supply = Resting
    /\ cleaner' = NoCleanup
    /\ UNCHANGED <<retained, control, pending, active, results, submitted, slot, supply, nested,
                   cell, answers, turnStatus>>

-----------------------------------------------------------------------------
(* The turn deadline passes: the operation's control, and what is nested in *)
(* its remaining time.                                                      *)
TurnExpires(t) ==
    /\ control[t] = "live"
    /\ control' = [control EXCEPT ![t] = "expired"]
    /\ nested' = IF supply.turn = t /\ nested = "live" THEN "over" ELSE nested
    /\ UNCHANGED <<retained, pending, active, results, submitted, slot, supply, cell, answers,
                   turnStatus, cleaner>>

TurnsNext ==
    \/ SpawnParent \/ Reserve \/ TakeBroker \/ NestControl \/ EnterActive \/ LaunchTurn
    \/ CellGone \/ AnswerTurn
    \/ CancelPending \/ CancelActive \/ CancelSlot \/ AnswerCleanup
    \/ CleanParent \/ StopParent \/ ParentJoined
    \/ \E t \in ScopedTurns : RefuseTurn(t) \/ SubmitTurn(t) \/ FinishTurn(t) \/ CleanTurn(t)
                              \/ TurnExpires(t)

TurnsSpec == TurnsInit /\ [][TurnsNext]_turnVars

-----------------------------------------------------------------------------
(* The relay's context is nested in the operation's control alone. *)
MayInvoke(t) == cell = t /\ control[t] = "live"

(* A turn whose cleanup was answered can make no model request, or the      *)
(* control its cell runs under is over and stops the cell, wherever its     *)
(* broker was when the cleanup looked for it: waiting, on its way between   *)
(* the maps, or in a cell.  Once the stop of the parent was answered no     *)
(* cell of it runs (access, the supply closure, execute).                   *)
CancelReaches ==
    /\ \A t \in ScopedTurns : turnStatus[t] = "Cancelling" =>
          ~MayInvoke(t) \/ nested = "over"
    /\ retained = "stopped" /\ cleaner = NoCleanup => cell = NoTurn
===============================================================================
