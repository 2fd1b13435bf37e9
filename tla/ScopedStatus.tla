----------------------------- MODULE ScopedStatus -----------------------------
(***************************************************************************)
(* The status file of one scoped operation (dispatch_scoped.rs) and the    *)
(* threads that write it: the start handler, the worker thread it leaves   *)
(* behind, cleanup requests and, for a retained parent, read requests.     *)
(*                                                                         *)
(* start and cleanup hold the receiver's operation_lock; the worker and    *)
(* reads do not.  A one-shot's cleanup and its worker meet at the mutex of *)
(* the dispatcher's execution registry instead.  Every handler that        *)
(* changes a stored status loads the file, edits its copy and replaces the *)
(* file by rename: the load and the rename are separate steps here.        *)
(*                                                                         *)
(* One receiver process; what another process or a restart sees is the     *)
(* subject of AdmissionJournal and ParentClaim.                            *)
(***************************************************************************)
EXTENDS Naturals

CONSTANTS Lifecycles, \* the lifecycles of the operations considered
          Cleaners,   \* cleanup requests that may be under way at once
          Readers     \* read requests that may be under way at once

Callers == Cleaners \cup Readers

ASSUME CallerAssumption ==
    /\ Lifecycles \subseteq {"one-shot", "enduring-initial", "enduring-turn"}
    /\ Cleaners \cap Readers = {}
    /\ Callers \cap {"start", "nobody"} = {}

VARIABLES lifecycle,  \* of the operation's decision
          status,     \* the stored status, phase "absent" when there is none
          saved,      \* the admission record: absent, open or its outcome
          lock,       \* the holder of operation_lock
          execs,      \* the cleaner holding the execution registry's mutex
          entry,      \* the one-shot's registry entry: absent, active, terminal
          start,      \* how far the start handler got
          thread,     \* how far the worker thread got
          result,     \* the status the thread is about to store, its receipt
          native,     \* the cell or child of this operation
          parent,     \* the retained parent
          pc,         \* how far each caller got
          copy        \* the status each caller loaded

scopedVars == <<lifecycle, status, saved, lock, execs, entry, start, thread, result,
          native, parent, pc, copy>>

ScopedPhases == {"absent", "Admitted", "Running", "Succeeded", "Failed", "Cancelled",
           "Refused", "Uncertain", "Cancelling"}
Status == [phase : ScopedPhases, confirmed : BOOLEAN]
St(phase, confirmed) == [phase |-> phase, confirmed |-> confirmed]
Stored == status.phase # "absent"

Initial == lifecycle = "enduring-initial"
OneShot == lifecycle = "one-shot"

ScopedInit ==
    /\ lifecycle \in Lifecycles
    /\ status = St("absent", FALSE)
    /\ saved = "absent"
    /\ lock = "nobody"
    /\ execs = "nobody"
    /\ entry = "absent"
    /\ start = "idle"
    /\ thread = "none"
    /\ result = [status |-> St("absent", FALSE), receipt |-> FALSE]
    /\ native = "none"
    /\ parent = IF lifecycle = "enduring-turn" THEN "running" ELSE "none"
    /\ pc = [c \in Callers |-> "idle"]
    /\ copy = [c \in Callers |-> St("absent", FALSE)]

\* persist_status with its result ignored: stored, or not, or stored and the
\* directory sync reported as failed.
TryPersist(s) == status' \in {status, s}

-----------------------------------------------------------------------------
(* The start handler.                                                       *)

\* claim returned a Fresh handle; no status exists yet.
StartClaims ==
    /\ start = "idle"
    /\ lock = "nobody"
    /\ saved = "absent"
    /\ start' = "claimed"
    /\ lock' = "start"
    /\ saved' = "open"
    /\ UNCHANGED <<lifecycle, status, execs, entry, thread, result, native,
                   parent, pc, copy>>

StartEnds == start' = "done" /\ lock' = "nobody"

\* Anything wrong before a cell or parent exists: terminal_refusal or
\* prepared_refusal; for a parent claim that failed, uncertain_parent_refusal.
StartRefused ==
    /\ start = "claimed"
    /\ \/ TryPersist(St("Refused", TRUE))
       \/ Initial /\ TryPersist(St("Uncertain", FALSE))
    /\ saved' = "refused"
    /\ StartEnds
    /\ UNCHANGED <<lifecycle, execs, entry, thread, result, native, parent, pc,
                   copy>>

\* A one-shot enters the registry; the first operation spawns its parent.
StartRegisters ==
    /\ start = "claimed"
    /\ execs = "nobody"
    /\ start' = "registered"
    /\ entry' = IF OneShot THEN "active" ELSE entry
    /\ parent' = IF Initial THEN "running" ELSE parent
    /\ UNCHANGED <<lifecycle, status, saved, lock, execs, thread, result, native,
                   pc, copy>>

\* The turn deadline passed: an initial operation stops its parent first.
StartExpired ==
    /\ start = "registered"
    /\ ~OneShot
    /\ \/ /\ Initial => parent # "uncertain"
          /\ parent' = IF Initial THEN "stopped" ELSE parent
          /\ TryPersist(St("Refused", TRUE))
          /\ saved' = "refused"
       \/ /\ Initial
          /\ parent' = "uncertain"
          /\ TryPersist(St("Uncertain", FALSE))
          /\ saved' = saved
    /\ StartEnds
    /\ UNCHANGED <<lifecycle, execs, entry, thread, result, native, pc, copy>>

StartAdmits ==
    /\ start = "registered"
    /\ start' = "admitted"
    /\ status' = St("Admitted", FALSE)
    /\ UNCHANGED <<lifecycle, saved, lock, execs, entry, thread, result, native,
                   parent, pc, copy>>

\* "durable result journal unavailable": the entry goes, the parent stays.  A
\* refusal that could be stored leaves it stranded, its cleanup confirmed.
StartAdmitFails ==
    /\ start = "registered"
    /\ execs = "nobody"
    /\ entry' = "absent"
    /\ status' \in {status, St("Admitted", FALSE), St("Refused", TRUE)}
    /\ saved' = "refused"
    /\ start' = IF Initial /\ status'.confirmed THEN "stranded" ELSE "done"
    /\ lock' = "nobody"
    /\ UNCHANGED <<lifecycle, execs, thread, result, native, parent, pc, copy>>

StartLaunches ==
    /\ start = "admitted"
    /\ OneShot \/ parent = "running"
    /\ thread' = "running"
    /\ native' = "running"
    /\ StartEnds
    /\ UNCHANGED <<lifecycle, status, saved, execs, entry, result, parent, pc,
                   copy>>

\* No worker thread: a one-shot has failed for certain, an accepted parent
\* command may still run; a refused submission has not run.
StartLaunchFails ==
    /\ start = "admitted"
    /\ execs = "nobody"
    /\ IF OneShot
       THEN /\ TryPersist(St("Failed", TRUE))
            /\ entry' = "terminal"
            /\ saved' = "refused"
            /\ native' = native
       ELSE /\ TryPersist(St("Uncertain", FALSE))
            /\ native' \in {"none"} \cup (IF parent = "running" THEN {"running"} ELSE {})
            /\ UNCHANGED <<entry, saved>>
    /\ StartEnds
    /\ UNCHANGED <<lifecycle, execs, thread, result, parent, pc, copy>>

-----------------------------------------------------------------------------
(* The cell, the parent and the worker thread.                              *)

NativeEnds ==
    /\ native = "running"
    /\ native' = "gone"
    /\ UNCHANGED <<lifecycle, status, saved, lock, execs, entry, start, thread,
                   result, parent, pc, copy>>

\* The owner thread ended on its own (ContextLost), or panicked.
ParentEnds ==
    /\ ~OneShot
    /\ parent = "running"
    /\ \/ parent' = "lost" /\ native' = IF native = "running" THEN "gone" ELSE native
       \/ parent' = "uncertain" /\ native' = native
    /\ UNCHANGED <<lifecycle, status, saved, lock, execs, entry, start, thread,
                   result, pc, copy>>

Returns(s, receipt) == result' = [status |-> s, receipt |-> receipt]

\* launch_scoped_declared returned: its cell is gone; or it panicked.
ShotReturns ==
    /\ OneShot
    /\ thread = "running"
    /\ \/ /\ native = "gone"
          /\ \E phase \in {"Succeeded", "Failed", "Cancelled"}, r \in BOOLEAN :
                Returns(St(phase, TRUE), r)
       \/ Returns(St("Uncertain", FALSE), FALSE)
    /\ thread' = "returned"
    /\ UNCHANGED <<lifecycle, status, saved, lock, execs, entry, start, native,
                   parent, pc, copy>>

\* update_execution: the registry learns the outcome before the file does.
\* An Uncertain execution still counts as active.
ShotUpdates ==
    /\ OneShot
    /\ thread = "returned"
    /\ execs = "nobody"
    /\ entry' = IF result.status.phase = "Uncertain" THEN entry ELSE "terminal"
    /\ thread' = "updated"
    /\ UNCHANGED <<lifecycle, status, saved, lock, execs, start, result, native,
                   parent, pc, copy>>

\* The parent's response: a committed turn, an error with the child's
\* provenance, or nothing that proves the child is gone.
TurnReturns ==
    /\ ~OneShot
    /\ thread = "running"
    /\ \/ /\ native = "gone"
          /\ \E ok, r \in BOOLEAN :
                Returns(IF Initial THEN St(IF ok THEN "Running" ELSE "Failed", FALSE)
                                   ELSE St(IF ok THEN "Succeeded" ELSE "Cancelled", TRUE), r)
       \/ native = "gone" /\ Returns(St("Failed", ~Initial), TRUE)
       \/ /\ native = "gone" \/ parent = "uncertain"
          /\ \E r \in BOOLEAN : Returns(St("Uncertain", FALSE), r)
    /\ thread' = "updated"
    /\ UNCHANGED <<lifecycle, status, saved, lock, execs, entry, start, native,
                   parent, pc, copy>>

\* The thread replaces the status without the operation lock; when that
\* fails the admission record is left open.
WorkerPersists ==
    /\ thread = "updated"
    /\ \/ status' = result.status /\ thread' = "persisted"
       \/ TryPersist(result.status) /\ thread' = "done"
    /\ UNCHANGED <<lifecycle, saved, lock, execs, entry, start, result, native,
                   parent, pc, copy>>

Outcome ==
    CASE result.receipt /\ (OneShot => result.status.confirmed) -> "receipt"
      [] ~result.receipt /\ OneShot /\ result.status.confirmed  -> "refused"
      [] OTHER -> saved

\* finish, its error ignored.
WorkerFinishes ==
    /\ thread = "persisted"
    /\ thread' = "done"
    /\ saved' \in {saved, Outcome}
    /\ UNCHANGED <<lifecycle, status, lock, execs, entry, start, result, native,
                   parent, pc, copy>>

-----------------------------------------------------------------------------
(* access: cleanup requests.                                                *)

Goes(c, to) == pc' = [pc EXCEPT ![c] = to]
Loads(c)    == copy' = [copy EXCEPT ![c] = status]

\* The admission record is fenced; without one the operation never started.
CleanBegins(c) ==
    /\ pc[c] = "idle"
    /\ lock = "nobody"
    /\ lock' = c
    /\ IF saved \in {"absent", "never"}
       THEN /\ saved' = "never"
            /\ TryPersist(St("Cancelled", TRUE))
            /\ Goes(c, "reply")
       ELSE /\ UNCHANGED <<saved, status>>
            /\ Goes(c, "fenced")
    /\ UNCHANGED <<lifecycle, execs, entry, start, thread, result, native,
                   parent, copy>>

\* A confirmed status is answered as it is; a refused first operation whose
\* parent was never created may be confirmed by fence_uncreated.
CleanLooks(c) ==
    /\ pc[c] = "fenced"
    /\ \/ status.confirmed /\ UNCHANGED status /\ Goes(c, "reply")
       \/ /\ ~status.confirmed /\ Initial /\ saved = "refused" /\ parent = "none"
          /\ TryPersist(St("Refused", TRUE))
          /\ Goes(c, "reply")
       \/ ~status.confirmed /\ UNCHANGED status /\ Goes(c, "act")
    /\ UNCHANGED <<lifecycle, saved, lock, execs, entry, start, thread, result,
                   native, parent, copy>>

(* Planted fault: the registry's guard is dropped before the file is edited. *)
CleanCancelsShotUnguarded(c) ==
    /\ OneShot
    /\ pc[c] = "act"
    /\ execs = "nobody"
    /\ Loads(c)
    /\ Goes(c, IF entry = "active" THEN "write" ELSE "reply")
    /\ UNCHANGED <<lifecycle, status, saved, lock, execs, entry, start, thread,
                   result, native, parent>>

\* One-shot: an active entry is cancelled and the file edited, all under the
\* registry's mutex.
CleanCancelsShot(c) ==
    /\ OneShot
    /\ pc[c] = "act"
    /\ execs = "nobody"
    /\ IF entry = "active"
       THEN execs' = c /\ Loads(c) /\ Goes(c, "write")
       ELSE UNCHANGED <<execs, copy>> /\ Goes(c, "reply")
    /\ UNCHANGED <<lifecycle, status, saved, lock, entry, start, thread, result,
                   native, parent>>

\* Turn: the child is cancelled, then the file is loaded.
CleanCancelsTurn(c) ==
    /\ lifecycle = "enduring-turn"
    /\ pc[c] = "act"
    /\ Loads(c)
    /\ Goes(c, IF Stored /\ ~status.confirmed THEN "write" ELSE "reply")
    /\ UNCHANGED <<lifecycle, status, saved, lock, execs, entry, start, thread,
                   result, native, parent>>

\* The edited copy replaces whatever is stored by now.
CleanWrites(c) ==
    /\ pc[c] = "write"
    /\ IF copy[c].phase = "absent" THEN UNCHANGED status
                                   ELSE TryPersist(St("Cancelling", FALSE))
    /\ execs' = "nobody"
    /\ Goes(c, "reply")
    /\ UNCHANGED <<lifecycle, saved, lock, entry, start, thread, result, native,
                   parent, copy>>

\* Initial: the registry stops the parent and joins its thread.
CleanStops(c) ==
    /\ Initial
    /\ pc[c] = "act"
    /\ parent' = IF parent \in {"running", "lost"} THEN "stopping" ELSE parent
    /\ Goes(c, IF parent \in {"running", "lost"} THEN "joining" ELSE "stopped")
    /\ UNCHANGED <<lifecycle, status, saved, lock, execs, entry, start, thread,
                   result, native, copy>>

CleanJoins(c) ==
    /\ pc[c] = "joining"
    /\ parent' \in {"stopped", "uncertain"}
    /\ native' = IF parent' = "stopped" /\ native = "running" THEN "gone" ELSE native
    /\ Goes(c, "stopped")
    /\ UNCHANGED <<lifecycle, status, saved, lock, execs, entry, start, thread,
                   result, copy>>

(* Planted fault: the result of the stop is not looked at. *)
CleanRecordsBlindly(c) ==
    /\ pc[c] = "stopped"
    /\ IF Stored THEN TryPersist(St("Cancelled", TRUE)) ELSE UNCHANGED status
    /\ Goes(c, "observe")
    /\ UNCHANGED <<lifecycle, saved, lock, execs, entry, start, thread, result,
                   native, parent, copy>>

CleanRecords(c) ==
    /\ pc[c] = "stopped"
    /\ IF Stored THEN TryPersist(IF parent = "stopped" THEN St("Cancelled", TRUE)
                                                       ELSE St("Uncertain", FALSE))
                 ELSE UNCHANGED status
    /\ Goes(c, "observe")
    /\ UNCHANGED <<lifecycle, saved, lock, execs, entry, start, thread, result,
                   native, parent, copy>>

-----------------------------------------------------------------------------
(* access: read requests, and the end both share.                           *)

ReadBegins(c) ==
    /\ pc[c] = "idle"
    /\ saved # "absent"
    /\ Goes(c, IF Initial THEN "observe" ELSE "reply")
    /\ UNCHANGED <<lifecycle, status, saved, lock, execs, entry, start, thread,
                   result, native, parent, copy>>

\* A retained parent that is lost, uncertain or stopping is written down,
\* also by a read.
Observes(c) ==
    /\ pc[c] = "observe"
    /\ Loads(c)
    /\ Goes(c, IF ~Stored \/ status.confirmed THEN "reply"
               ELSE IF parent \in {"lost", "uncertain"} THEN "writeLost"
               ELSE IF parent = "stopping" THEN "writeStopping" ELSE "reply")
    /\ UNCHANGED <<lifecycle, status, saved, lock, execs, entry, start, thread,
                   result, native, parent>>

ObserverWrites(c) ==
    /\ pc[c] \in {"writeLost", "writeStopping"}
    /\ TryPersist(St(IF pc[c] = "writeLost" THEN "Uncertain" ELSE "Cancelling",
                     copy[c].confirmed))
    /\ Goes(c, "reply")
    /\ UNCHANGED <<lifecycle, saved, lock, execs, entry, start, thread, result,
                   native, parent, copy>>

Replies(c) ==
    /\ pc[c] = "reply"
    /\ Goes(c, "idle")
    /\ lock' = IF lock = c THEN "nobody" ELSE lock
    /\ copy' = [copy EXCEPT ![c] = St("absent", FALSE)]
    /\ UNCHANGED <<lifecycle, status, saved, execs, entry, start, thread, result,
                   native, parent>>

ScopedNext ==
    \/ StartClaims \/ StartRefused \/ StartRegisters \/ StartExpired
    \/ StartAdmits \/ StartAdmitFails \/ StartLaunches \/ StartLaunchFails
    \/ NativeEnds \/ ParentEnds
    \/ ShotReturns \/ ShotUpdates \/ TurnReturns
    \/ WorkerPersists \/ WorkerFinishes
    \/ \E c \in Cleaners : \/ CleanBegins(c) \/ CleanLooks(c)
                           \/ CleanCancelsShot(c) \/ CleanCancelsTurn(c)
                           \/ CleanWrites(c)
                           \/ CleanStops(c) \/ CleanJoins(c) \/ CleanRecords(c)
    \/ \E c \in Readers : ReadBegins(c)
    \/ \E c \in Callers : Observes(c) \/ ObserverWrites(c) \/ Replies(c)

ScopedSpec == ScopedInit /\ [][ScopedNext]_scopedVars

-----------------------------------------------------------------------------
(* Properties.                                                              *)

\* Every variable has its type.
ScopedTypeOK ==
    /\ lifecycle \in Lifecycles
    /\ status \in Status
    /\ saved \in {"absent", "open", "receipt", "refused", "never"}
    /\ lock \in Cleaners \cup {"start", "nobody"}
    /\ execs \in Cleaners \cup {"nobody"}
    /\ entry \in {"absent", "active", "terminal"}
    /\ start \in {"idle", "claimed", "registered", "admitted", "done", "stranded"}
    /\ thread \in {"none", "running", "returned", "updated", "persisted", "done"}
    /\ result \in [status : Status, receipt : BOOLEAN]
    /\ native \in {"none", "running", "gone"}
    /\ parent \in {"none", "running", "stopping", "stopped", "lost", "uncertain"}
    /\ pc \in [Callers -> {"idle", "fenced", "act", "write", "joining", "stopped",
                           "observe", "writeLost", "writeStopping", "reply"}]
    /\ copy \in [Callers -> Status]

\* Native work of the operation that may still be running.
Alive ==
    \/ native = "running"
    \/ Initial /\ parent \in {"running", "stopping", "uncertain"}

\* cleanup_confirmed is never stored while the operation's cell, child or
\* parent may be running, whether the refusal, the deadline's stop, the
\* fence, the worker or a cleanup stored it.  StartAdmitFails is the one step
\* after which it is: start remembers it as "stranded" (ConfirmedTornDown).
ConfirmedMeansGone == status.confirmed /\ start # "stranded" => ~Alive

\* "Cleanup confirmation still requires real native teardown": a confirmed
\* status is never stored while the cell, the child or the parent may be
\* running, whatever stored it.
ConfirmedTornDown == status.confirmed => ~Alive

\* A one-shot's confirmed status is never replaced: its cleanup edits the file
\* under the registry's mutex, and only while the thread that will store the
\* outcome has not yet announced it there.
OneShotFinal == [][OneShot /\ status.confirmed => status' = status]_scopedVars

\* "An authenticated, already-confirmed terminal result is immutable cleanup
\* evidence": no confirmed status of any lifecycle is ever replaced.
ConfirmedFinal == [][status.confirmed => status' = status]_scopedVars
=============================================================================
