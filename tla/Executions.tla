------------------------------ MODULE Executions ------------------------------
(***************************************************************************)
(* The executions of one dispatcher (celln-cli dispatch_http.rs): the      *)
(* in-memory registry, the worker thread of each execution, the durable    *)
(* tombstones of dispatch_journal.rs, and the node capacity that           *)
(* executions share with a prewarm (dispatch_prewarm.rs) and with retained *)
(* parents (dispatch_parents.rs).                                          *)
(*                                                                         *)
(* Every handler holds the registry's mutex from its first look to its     *)
(* answer, the journal's file operations included, so a handler is one     *)
(* step; what interleaves are handlers, workers, deadlines, restarts and   *)
(* power losses.  The one thing a handler waits for with the mutex in hand *)
(* is its client: a terminal record carries the output, which may exceed   *)
(* what the socket buffers, and the socket has no write timeout.  Every    *)
(* other reply is short and its connection carries nothing else, so its    *)
(* write does not wait.                                                    *)
(*                                                                         *)
(* A rename is visible at once and durable after a sync of the journal's   *)
(* one directory; `maybe` holds what a power loss may leave.  A process    *)
(* killed inside a handler leaves what ClaimFails or Ends leave when their *)
(* sync fails.                                                             *)
(***************************************************************************)
EXTENDS Integers, FiniteSets, FiniteSetsExt

CONSTANTS Ids,          \* execution ids
          Requests,     \* request bodies, each with what it reserves
          Memory(_),    \* capabilities.memory_bytes of a request
          Egress(_),    \* 1 when it asks for egress
          Owners,       \* retained parents
          ParentMemory, ParentEgress,   \* what each of them reserves
          MaxCells, NodeMemory, NodeEgress,   \* the node's probe
          JournalCapacity,   \* CAPACITY
          None

ASSUME ExecutionAssumption ==
    /\ None \notin Requests
    /\ \A q \in Requests : Memory(q) \in Nat \ {0} /\ Egress(q) \in {0, 1}
    /\ ParentMemory \in Nat \ {0} /\ ParentEgress \in Nat
    /\ MaxCells \in Nat /\ NodeMemory \in Nat /\ NodeEgress \in Nat
    /\ JournalCapacity \in Nat

VARIABLES registry,   \* id -> Entry, NoEntry when there is none
          worker,     \* id -> how far its worker thread got
          outcome,    \* id -> what collect_result made of the ended cell
          disk,       \* id -> the visible Snapshot, Absent when there is none
          maybe,      \* id -> the snapshots a power loss may leave
          prewarm,    \* the request a prewarm reserves for, or None
          parents,    \* the retained parents that hold a reservation
          writing,    \* a handler that holds the mutex waits for its client to read
          acked,      \* history: id -> the request a 202 acknowledged
          told,       \* history: id -> the terminal phases a 200 reported
          cancels,    \* history: ids whose control a cancellation stopped
          ran         \* history: id -> cells launched for it

journal == <<disk, maybe>>
history == <<acked, told, cancels, ran>>
vars == <<registry, worker, outcome, journal, prewarm, parents, writing, history>>

Terminal == {"Succeeded", "Failed", "Refused", "Cancelled"}
Phases == {"Admitting", "Working", "Cancelling"} \cup Terminal
Stops == {"none", "cancelled", "deadline"}

Entry == [request : Requests, phase : Phases, stop : Stops, old : BOOLEAN]
NoEntry == [request |-> None]
Snapshot == [request : Requests, phase : Phases]
Absent == [request |-> None]

Present(i) == registry[i] # NoEntry
(* execution_is_active *)
Active(i) == Present(i) /\ registry[i].phase \notin Terminal
Finished(i) == Present(i) /\ registry[i].phase \in Terminal
Archived(i) == disk[i] # Absent /\ disk[i].phase \in Terminal

Init ==
    /\ registry = [i \in Ids |-> NoEntry]
    /\ worker = [i \in Ids |-> "none"]
    /\ outcome = [i \in Ids |-> "none"]
    /\ disk = [i \in Ids |-> Absent]
    /\ maybe = [i \in Ids |-> {Absent}]
    /\ prewarm = None
    /\ parents = {}
    /\ writing = FALSE
    /\ acked = [i \in Ids |-> None]
    /\ told = [i \in Ids |-> {}]
    /\ cancels = {}
    /\ ran = [i \in Ids |-> 0]

-----------------------------------------------------------------------------
(* The registry's mutex.                                                    *)

(* A step that takes the mutex and gives it back. *)
Locks == ~writing /\ UNCHANGED writing

(* reply of a terminal record, under the mutex: written at once, or not      *)
(* before its client reads.                                                 *)
WritesReply == ~writing /\ writing' \in BOOLEAN

(* The client reads the rest, or closes its end. *)
ReplyTaken ==
    /\ writing
    /\ writing' = FALSE
    /\ UNCHANGED <<registry, worker, outcome, journal, prewarm, parents, history>>

-----------------------------------------------------------------------------
(* The journal.                                                             *)

(* A forgotten sync. *)
NeverSynced == maybe' = [i \in Ids |-> maybe[i] \cup {disk'[i]}]

(* One directory holds all records: a sync settles every one of them. *)
Synced == maybe' = [i \in Ids |-> {disk'[i]}]

(* publish whose last sync failed: prepare() or read() had synced the         *)
(* directory before it, so only the renamed record is in doubt.              *)
Unsynced == maybe' = [i \in Ids |-> {disk[i], disk'[i]}]

(* complete, taking equality for durability. *)
CompleteOnEquality(i, e, ok) ==
    LET snapshot == [request |-> disk[i].request, phase |-> e.phase] IN
    IF disk[i].phase \in Terminal
    THEN UNCHANGED journal /\ ok = (disk[i] = snapshot)
    ELSE disk' = [disk EXCEPT ![i] = snapshot] /\ IF ok THEN Synced ELSE Unsynced

(* journal::complete, called by persist_terminal for the entry e: the        *)
(* record is replaced while it is active and never afterwards.  Any file     *)
(* operation may fail; `ok` says whether success was returned.               *)
Complete(i, e, ok) ==
    LET snapshot == [request |-> disk[i].request, phase |-> e.phase] IN
    IF disk[i].phase \in Terminal
    THEN /\ UNCHANGED disk
         /\ IF ok THEN disk[i] = snapshot /\ Synced ELSE Synced \/ UNCHANGED maybe
    ELSE IF ok
    THEN disk' = [disk EXCEPT ![i] = snapshot] /\ Synced
    ELSE \/ UNCHANGED disk /\ (Synced \/ UNCHANGED maybe)
         \/ disk' = [disk EXCEPT ![i] = snapshot] /\ Unsynced

-----------------------------------------------------------------------------
(* Node capacity.                                                           *)

Held == {i \in Ids : Active(i)}

(* The total of a quantity over the executions of s. *)
SumOf(weight(_), s) == MapThenSumSet(weight, s)

(* saturating_sub *)
Minus(a, b) == IF b > a THEN 0 ELSE a - b

(* apply_reservations, then the prewarm's and the parents' share. *)
LiveCells == Cardinality(Held) + (IF prewarm = None THEN 0 ELSE 1) + 2 * Cardinality(parents)
FreeMemory ==
    Minus(NodeMemory, SumOf(LAMBDA i : Memory(registry[i].request), Held)
                      + (IF prewarm = None THEN 0 ELSE Memory(prewarm))
                      + Cardinality(parents) * ParentMemory)
FreeEgress ==
    Minus(NodeEgress, SumOf(LAMBDA i : Egress(registry[i].request), Held)
                      + Cardinality(parents) * ParentEgress)

(* node::admit; a host without KVM or stores admits nothing. *)
Admits(q) ==
    /\ LiveCells < MaxCells
    /\ Memory(q) <= FreeMemory
    /\ Egress(q) = 1 => FreeEgress > 0

-----------------------------------------------------------------------------
(* POST /v1/executions for an id without a record.                          *)

(* evict_expired: terminal entries past their age, once a synced read has    *)
(* found their record terminal; a read that fails keeps the entry.           *)
Evictable == {i \in Ids : Finished(i) /\ registry[i].old /\ Archived(i)}
Evicted(gone) == [i \in Ids |-> IF i \in gone THEN NoEntry ELSE registry[i]]

NewEntry(q) == [request |-> q, phase |-> "Admitting", stop |-> "none", old |-> FALSE]
Claim(q) == [request |-> q, phase |-> "Admitting"]
Records == Cardinality({i \in Ids : disk[i] # Absent})

(* Answered 202 once the worker's thread is spawned. *)
Admit(i, q) ==
    /\ Locks
    /\ disk[i] = Absent /\ ~Present(i)
    /\ Admits(q)
    /\ Records < JournalCapacity
    /\ \E gone \in SUBSET Evictable :
         registry' = [Evicted(gone) EXCEPT ![i] = NewEntry(q)]
    /\ worker' = [worker EXCEPT ![i] = "starting"]
    /\ disk' = [disk EXCEPT ![i] = Claim(q)]
    /\ Synced
    /\ acked' = [acked EXCEPT ![i] = IF @ = None THEN q ELSE @]
    /\ UNCHANGED <<outcome, prewarm, parents, told, cancels, ran>>

(* "durable admission unavailable; retry same id": the claim failed, perhaps *)
(* after its record became visible.                                          *)
ClaimFails(i, q) ==
    /\ Locks
    /\ disk[i] = Absent /\ ~Present(i)
    /\ Admits(q)
    /\ \E gone \in SUBSET Evictable :
         /\ registry' = Evicted(gone)
         /\ \/ UNCHANGED disk /\ (Synced \/ (gone = {} /\ UNCHANGED maybe))
            \/ /\ Records < JournalCapacity
               /\ disk' = [disk EXCEPT ![i] = Claim(q)]
               /\ Unsynced
    /\ UNCHANGED <<worker, outcome, prewarm, parents, history>>

(* A submission the node refuses: all that remains of it is the eviction. *)
Refuse(i, q) ==
    /\ Locks
    /\ disk[i] = Absent /\ ~Present(i)
    /\ ~Admits(q)
    /\ \E gone \in (SUBSET Evictable) \ {{}} : registry' = Evicted(gone)
    /\ UNCHANGED disk /\ Synced
    /\ UNCHANGED <<worker, outcome, prewarm, parents, history>>

-----------------------------------------------------------------------------
(* Queries, repeated submissions, and cancellations of what has ended.      *)

(* reply_entry of a terminal entry: reported only once it is on the disk. *)
AnswerEntry(i) ==
    /\ Finished(i)
    /\ \/ /\ WritesReply
          /\ Complete(i, registry[i], TRUE)
          /\ told' = [told EXCEPT ![i] = @ \cup {registry[i].phase}]
       \/ /\ Locks
          /\ Complete(i, registry[i], FALSE)
          /\ UNCHANGED told
    /\ UNCHANGED <<registry, worker, outcome, prewarm, parents, acked, cancels, ran>>

(* reply_archived and reply_snapshot: no entry, so the record answers; an    *)
(* active one is an interrupted execution and nothing is reported of it.     *)
AnswerArchived(i) ==
    /\ ~Present(i) /\ disk[i] # Absent
    /\ IF Archived(i) THEN WritesReply ELSE Locks
    /\ UNCHANGED disk /\ Synced
    /\ told' = IF Archived(i) THEN [told EXCEPT ![i] = @ \cup {disk[i].phase}] ELSE told
    /\ UNCHANGED <<registry, worker, outcome, prewarm, parents, acked, cancels, ran>>

(* A submission for an id that is being worked on: 202 or, with other bytes,  *)
(* 409; the read before either syncs the directory.                          *)
Repeat(i) ==
    /\ Locks
    /\ Active(i)
    /\ UNCHANGED disk /\ Synced
    /\ UNCHANGED <<registry, worker, outcome, prewarm, parents, history>>

(* POST .../cancel of an active execution. *)
Cancel(i) ==
    /\ Locks
    /\ Active(i)
    /\ LET first == registry[i].stop = "none" IN
       /\ registry' = [registry EXCEPT ![i].phase = "Cancelling",
                                       ![i].stop = IF first THEN "cancelled" ELSE @]
       /\ cancels' = IF first THEN cancels \cup {i} ELSE cancels
    /\ UNCHANGED <<worker, outcome, journal, prewarm, parents, acked, told, ran>>

-----------------------------------------------------------------------------
(* The worker thread.                                                       *)

(* update_execution to an active phase. *)
Progresses(i) ==
    /\ Locks
    /\ registry' = [registry EXCEPT ![i].phase =
                       IF registry[i].stop = "cancelled" THEN "Cancelling" ELSE "Working"]

(* A finished success wins over a late stop. *)
SettledUnlessDone(i, phase) ==
    IF phase # "Succeeded" /\ registry[i].stop = "cancelled" THEN "Cancelled" ELSE phase

(* The phase update_execution settles on: what stopped the control wins. *)
Settled(i, phase) ==
    CASE registry[i].stop = "cancelled" -> "Cancelled"
      [] registry[i].stop = "deadline" -> "Failed"
      [] OTHER -> phase

(* update_execution to a terminal phase; its journal write may fail. *)
Ends(i, phase) ==
    LET e == [registry[i] EXCEPT !.phase = Settled(i, phase), !.old = FALSE] IN
    /\ Locks
    /\ registry' = [registry EXCEPT ![i] = e]
    /\ worker' = [worker EXCEPT ![i] = "none"]
    /\ outcome' = [outcome EXCEPT ![i] = "none"]
    /\ \E ok \in BOOLEAN : Complete(i, e, ok)
    /\ UNCHANGED <<prewarm, parents, history>>

(* The control check, the authority check and the inputs, then "Forging" or *)
(* "Resolving".                                                             *)
Begins(i) ==
    /\ worker[i] = "starting"
    /\ registry[i].stop = "none"
    /\ Progresses(i)
    /\ worker' = [worker EXCEPT ![i] = "preparing"]
    /\ UNCHANGED <<outcome, journal, prewarm, parents, history>>

(* A worker that leaves without recording why. *)
NeverBeginsSilently(i) ==
    /\ worker[i] = "starting"
    /\ worker' = [worker EXCEPT ![i] = "none"]
    /\ UNCHANGED <<registry, outcome, journal, prewarm, parents, writing, history>>

(* The thread could not be spawned, or its control had stopped. *)
NeverBegins(i) == worker[i] = "starting" /\ Ends(i, "Failed")
RefusesInputs(i) == worker[i] = "starting" /\ registry[i].stop = "none" /\ Ends(i, "Refused")

(* Forged: "Preparing". *)
Prepares(i) ==
    /\ worker[i] = "preparing"
    /\ Progresses(i)
    /\ UNCHANGED <<worker, outcome, journal, prewarm, parents, history>>

(* A cell that failed is tried again. *)
LaunchRetries(i) ==
    /\ worker[i] = "preparing" \/ (worker[i] = "returned" /\ outcome[i] = "Failed")
    /\ registry[i].stop = "none"
    /\ worker' = [worker EXCEPT ![i] = "cell"]
    /\ ran' = [ran EXCEPT ![i] = @ + 1]
    /\ UNCHANGED <<registry, outcome, journal, prewarm, parents, writing, acked, told, cancels>>

(* PinnedMote::fork checks the control and the cell runs. *)
Launch(i) ==
    /\ worker[i] = "preparing"
    /\ registry[i].stop = "none"
    /\ worker' = [worker EXCEPT ![i] = "cell"]
    /\ ran' = [ran EXCEPT ![i] = @ + 1]
    /\ UNCHANGED <<registry, outcome, journal, prewarm, parents, writing, acked, told, cancels>>

(* run_cell returns: the cell is gone.  A control that had stopped by then   *)
(* denies success; collect_result may fail to store the output.              *)
CellEnds(i, result) ==
    /\ worker[i] = "cell"
    /\ result = "Succeeded" => registry[i].stop = "none"
    /\ worker' = [worker EXCEPT ![i] = "returned"]
    /\ outcome' = [outcome EXCEPT ![i] = result]
    /\ UNCHANGED <<registry, journal, prewarm, parents, writing, history>>

(* An error of the forge, the preparation, the launch or the run, or a panic. *)
Breaks(i) == worker[i] \in {"preparing", "cell", "returned"} /\ Ends(i, "Failed")

Reports(i) == worker[i] = "returned" /\ Ends(i, outcome[i])

-----------------------------------------------------------------------------
(* The other tenants of the node's capacity.                                *)

PrewarmBegins(q) ==
    /\ Locks
    /\ prewarm = None
    /\ Egress(q) = 0
    /\ Admits(q)
    /\ prewarm' = q
    /\ UNCHANGED <<registry, worker, outcome, journal, parents, history>>

PrewarmEnds ==
    /\ prewarm # None
    /\ prewarm' = None
    /\ UNCHANGED <<registry, worker, outcome, journal, parents, writing, history>>

(* spawn_after_check and start_enduring: under the registry's mutex. *)
ParentAdmitted(o) ==
    /\ Locks
    /\ o \notin parents
    /\ MaxCells - LiveCells >= 2
    /\ ParentMemory <= FreeMemory
    /\ ParentEgress <= FreeEgress
    /\ parents' = parents \cup {o}
    /\ UNCHANGED <<registry, worker, outcome, journal, prewarm, history>>

(* ParentRegistry returns the charge at a confirmed join. *)
ParentJoined(o) ==
    /\ o \in parents
    /\ parents' = parents \ {o}
    /\ UNCHANGED <<registry, worker, outcome, journal, prewarm, writing, history>>

-----------------------------------------------------------------------------
(* Time, restarts and power losses.                                         *)

DeadlinePasses(i) ==
    /\ Active(i) /\ registry[i].stop = "none"
    /\ registry' = [registry EXCEPT ![i].stop = "deadline"]
    /\ UNCHANGED <<worker, outcome, journal, prewarm, parents, writing, history>>

(* RECORD_TTL. *)
Ages(i) ==
    /\ Finished(i) /\ ~registry[i].old
    /\ registry' = [registry EXCEPT ![i].old = TRUE]
    /\ UNCHANGED <<worker, outcome, journal, prewarm, parents, writing, history>>

(* A new process knows nothing but the journal, and serve() syncs the        *)
(* directory (journal::prepare) before it listens.                           *)
NewProcess ==
    /\ registry' = [i \in Ids |-> NoEntry]
    /\ worker' = [i \in Ids |-> "none"]
    /\ outcome' = [i \in Ids |-> "none"]
    /\ prewarm' = None
    /\ parents' = {}
    /\ writing' = FALSE
    /\ Synced
    /\ UNCHANGED history

Restart == UNCHANGED disk /\ NewProcess

PowerLoss ==
    /\ disk' \in {d \in [Ids -> UNION {maybe[i] : i \in Ids}] :
                     \A i \in Ids : d[i] \in maybe[i]}
    /\ NewProcess

-----------------------------------------------------------------------------
WorkerStep(i) ==
    \/ Begins(i) \/ NeverBegins(i) \/ RefusesInputs(i) \/ Launch(i)
    \/ (\E r \in {"Succeeded", "Failed"} : CellEnds(i, r))
    \/ Breaks(i) \/ Reports(i)

ClientStep(i) ==
    \/ \E q \in Requests : Admit(i, q) \/ ClaimFails(i, q) \/ Refuse(i, q)
    \/ AnswerEntry(i) \/ AnswerArchived(i) \/ Repeat(i) \/ Cancel(i)

Next ==
    \/ \E i \in Ids : WorkerStep(i) \/ Prepares(i) \/ ClientStep(i)
                      \/ DeadlinePasses(i) \/ Ages(i)
    \/ (\E q \in Requests : PrewarmBegins(q)) \/ PrewarmEnds
    \/ (\E o \in Owners : ParentAdmitted(o) \/ ParentJoined(o))
    \/ ReplyTaken \/ Restart \/ PowerLoss

Spec == Init /\ [][Next]_vars

-----------------------------------------------------------------------------
(* Properties.                                                              *)

(* Every variable has its type. *)
TypeOK ==
    /\ registry \in [Ids -> Entry \cup {NoEntry}]
    /\ worker \in [Ids -> {"none", "starting", "preparing", "cell", "returned"}]
    /\ outcome \in [Ids -> {"none", "Succeeded", "Failed"}]
    /\ disk \in [Ids -> Snapshot \cup {Absent}]
    /\ maybe \in [Ids -> SUBSET (Snapshot \cup {Absent})]
    /\ prewarm \in Requests \cup {None}
    /\ parents \subseteq Owners
    /\ writing \in BOOLEAN
    /\ acked \in [Ids -> Requests \cup {None}]
    /\ told \in [Ids -> SUBSET Terminal]
    /\ cancels \subseteq Ids
    /\ ran \in [Ids -> Nat]

(* "never authorizes automatic execution replay" (dispatch_journal.rs): an   *)
(* id has one cell at most, through repeated submissions, evictions, failed  *)
(* claims, restarts and power losses.                                        *)
RunsOnce == \A i \in Ids : ran[i] <= 1

(* What a client was told stays true through eviction, restarts and power    *)
(* losses: a 202 binds the id to its request bytes, so that no later answer  *)
(* calls the id unknown or accepts other bytes, and a terminal phase that    *)
(* was reported is the only one ever reported ("Never acknowledge terminal   *)
(* durability on equality alone").                                           *)
ReportFinal ==
    \A i \in Ids : \A v \in maybe[i] :
        /\ acked[i] # None => v.request = acked[i]
        /\ \A p \in told[i] : v # Absent /\ v.phase = p

(* A cancellation that stopped the control is never followed by another      *)
(* verdict than Cancelled, whatever the worker was about to report           *)
(* (update_execution).                                                       *)
CancelHonoured ==
    \A i \in cancels :
        /\ Finished(i) => registry[i].phase = "Cancelled"
        /\ \A v \in maybe[i] : v # Absent /\ v.phase \in {"Admitting", "Cancelled"}

(* "accepted work cannot overcommit the node while waiting to launch"        *)
(* (dispatch_http.rs): executions, a prewarm and retained parents, each      *)
(* admitted on its own path, never hold more cells together than the node    *)
(* has.                                                                      *)
NodeNotOvercommitted == LiveCells <= MaxCells

(* An admitted execution does not hold its reservation for ever: it ends, or *)
(* its process does.  That is, unless a client that never reads its reply    *)
(* keeps the mutex of the registry, which every worker needs to report       *)
(* (reply under the guard of dispatch_http.rs): nothing bounds that wait.    *)
ExecutionEnds == ([]<>~writing) => \A i \in Ids : Active(i) ~> ~Active(i)

(* Worker threads are scheduled, what they wait for is bounded by the        *)
(* execution's control and by the cell's own timeout, and a mutex that is    *)
(* free again and again is taken in the end by a thread that waits for it.   *)
(* Nothing is assumed of clients.                                            *)
FairSpec == Spec /\ \A i \in Ids : SF_vars(WorkerStep(i))
=============================================================================
