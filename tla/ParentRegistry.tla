---------------------------- MODULE ParentRegistry ----------------------------
(***************************************************************************)
(* The live owners of one serving process: ParentRegistry and the          *)
(* ParentOwner threads it holds (celln-warden parent_registry.rs and       *)
(* parent_owner.rs).                                                       *)
(*                                                                         *)
(* A caller (an HTTP handler) spawns, submits to, cancels, stops, reaps or *)
(* drains.  The registry's mutex is held for one step of a call, except by *)
(* submit, which keeps it while it talks to the owner's thread through the *)
(* busy flag and a channel of capacity one.  stop, reap_finished and drain *)
(* take an owner out of its entry, join its thread without the mutex and   *)
(* come back to release the charge.  What an owner's handler does inside a *)
(* turn is the subject of ParentSession.                                   *)
(***************************************************************************)
EXTENDS Integers, FiniteSets, FiniteSetsExt

CONSTANTS Parents,      \* incarnations
          Principals,   \* authenticated callers' principals
          Callers,      \* threads that call the registry
          Nobody,       \* no caller, no command, no principal
          Charges,      \* the [bytes, egress] an admission may reserve
          MaxEntries,   \* max_entries
          MemoryBytes   \* memory_bytes

(* What ParentRegistry::new and insert_admitted refuse. *)
ASSUME RegistryAssumption ==
    /\ Nobody \notin Callers \cup Principals
    /\ MaxEntries \in 1 .. 1024
    /\ MemoryBytes \in Nat \ {0}
    /\ Charges \subseteq [bytes : Nat \ {0}, egress : Nat]

VARIABLES
    entry,        \* the registry's map: Entry of each incarnation
    total,        \* State.reserved_bytes, State.reserved_egress
    draining,     \* State.draining
    lock,         \* the submit call that holds the mutex, or Nobody
    pc,           \* where each owner's thread is
    stopped,      \* the owner's Control has a stop reason
    busy,         \* ParentOwner.busy
    initialized,  \* ParentOwner.initialized
    initError,    \* ParentOwner.initialization_error is set
    queue,        \* the channel: the caller whose command waits in it
    serving,      \* the caller whose command the handler works on
    call          \* what each caller is doing and was told

owner == <<pc, stopped, busy, initialized, initError, queue, serving>>
registry == <<entry, total, draining>>
vars == <<registry, lock, owner, call>>

NoEntry == [principal |-> Nobody, owner |-> FALSE, status |-> "None",
            bytes |-> 0, egress |-> 0]

IdleCall == [op |-> "idle", asked |-> {}, todo |-> {}, taken |-> {},
             failed |-> FALSE, outcome |-> "none"]

Statuses == {"None", "Initializing", "ContextLost", "Stopping", "Stopped",
             "TeardownUncertain"}

(* The owner thread: live points, then the ways a thread is over. *)
Live == {"starting", "initializing", "initFailed", "polling", "handling",
         "releasing", "replying", "failing", "failingReply", "dropping",
         "exiting", "unwinding"}
Over == {"finished", "panicked", "joined"}

(* The points at which the thread owns a runtime: the parent cell and any   *)
(* child of it.                                                             *)
HasRuntime == {"polling", "handling", "releasing", "replying", "failing",
               "failingReply", "dropping"}

EntryType == [principal : Principals \cup {Nobody}, owner : BOOLEAN,
              status : Statuses, bytes : Nat, egress : Nat]

CallType == [op : {"idle", "submit", "stop", "reap", "drain"},
             asked : SUBSET Parents, todo : SUBSET Parents, taken : SUBSET Parents,
             failed : BOOLEAN,
             outcome : {"none", "cas", "send", "waiting", "ok", "error", "busy"}]

TypeOK ==
    /\ entry \in [Parents -> EntryType]
    /\ total \in [bytes : Int, egress : Int]
    /\ draining \in BOOLEAN
    /\ lock \in Callers \cup {Nobody}
    /\ pc \in [Parents -> {"none"} \cup Live \cup Over]
    /\ stopped \in [Parents -> BOOLEAN]
    /\ busy \in [Parents -> BOOLEAN]
    /\ initialized \in [Parents -> BOOLEAN]
    /\ initError \in [Parents -> BOOLEAN]
    /\ queue \in [Parents -> Callers \cup {Nobody}]
    /\ serving \in [Parents -> Callers \cup {Nobody}]
    /\ call \in [Callers -> CallType]

Init ==
    /\ entry = [i \in Parents |-> NoEntry]
    /\ total = [bytes |-> 0, egress |-> 0]
    /\ draining = FALSE
    /\ lock = Nobody
    /\ pc = [i \in Parents |-> "none"]
    /\ stopped = [i \in Parents |-> FALSE]
    /\ busy = [i \in Parents |-> FALSE]
    /\ initialized = [i \in Parents |-> FALSE]
    /\ initError = [i \in Parents |-> FALSE]
    /\ queue = [i \in Parents |-> Nobody]
    /\ serving = [i \in Parents |-> Nobody]
    /\ call = [c \in Callers |-> IdleCall]

Claimed == {i \in Parents : entry[i].principal # Nobody}

(* scoped(): the entry exists and belongs to the caller's principal. *)
Scoped(p, i) == entry[i].principal = p

Unlocked == lock = Nobody

(* The receiver of a resolved command: answered, or its sender was dropped. *)
Resolved(c, outcome) ==
    IF c = Nobody THEN call
    ELSE [call EXCEPT ![c] = [IdleCall EXCEPT !.op = "submit", !.asked = call[c].asked,
                                              !.outcome = outcome]]

-----------------------------------------------------------------------------
(* insert_admitted: an incarnation is entered once, with its whole charge,  *)
(* and its thread is started under the mutex.                               *)
Spawn(p, i, charge) ==
    /\ Unlocked
    /\ ~draining
    /\ i \notin Claimed
    /\ Cardinality(Claimed) < MaxEntries
    /\ total.bytes + charge.bytes =< MemoryBytes
    /\ entry' = [entry EXCEPT ![i] = [principal |-> p, owner |-> TRUE,
                                      status |-> "Initializing",
                                      bytes |-> charge.bytes, egress |-> charge.egress]]
    /\ total' = [bytes |-> total.bytes + charge.bytes, egress |-> total.egress + charge.egress]
    /\ pc' = [pc EXCEPT ![i] = "starting"]
    /\ UNCHANGED <<draining, lock, stopped, busy, initialized, initError, queue,
                   serving, call>>

-----------------------------------------------------------------------------
(* submit: registry and owner checks, then the busy flag, then the channel. *)
(* The owner thread runs between the three.                                 *)

(* The entry is the caller's, its owner is present and has not stopped. *)
Submit(c, p, i) ==
    /\ Unlocked
    /\ call[c].op = "idle"
    /\ Scoped(p, i) /\ ~draining /\ entry[i].owner
    /\ ~initError[i] /\ ~stopped[i]
    /\ lock' = c
    /\ call' = [call EXCEPT ![c] = [IdleCall EXCEPT !.op = "submit", !.asked = {i},
                                                    !.outcome = "cas"]]
    /\ UNCHANGED <<registry, owner>>

(* compare_exchange(false, true) *)
SetBusy(c, i) ==
    /\ call[c].outcome = "cas" /\ i \in call[c].asked
    /\ busy' = [busy EXCEPT ![i] = TRUE]
    /\ call' = [call EXCEPT ![c].outcome = IF busy[i] THEN "busy" ELSE "send"]
    /\ lock' = IF busy[i] THEN Nobody ELSE lock
    /\ UNCHANGED <<registry, pc, stopped, initialized, initError, queue, serving>>

(* try_send: accepted while the receiver lives, else the flag is returned. *)
Send(c, i) ==
    /\ call[c].outcome = "send" /\ i \in call[c].asked
    /\ LET accepted == pc[i] \in Live /\ queue[i] = Nobody IN
       /\ queue' = IF accepted THEN [queue EXCEPT ![i] = c] ELSE queue
       /\ busy' = IF accepted THEN busy ELSE [busy EXCEPT ![i] = FALSE]
       /\ call' = [call EXCEPT ![c].outcome = IF accepted THEN "waiting" ELSE "error"]
    /\ lock' = Nobody
    /\ UNCHANGED <<registry, pc, stopped, initialized, initError, serving>>

-----------------------------------------------------------------------------
(* The owner thread of parent i. *)

Move(i, from, to) ==
    /\ pc[i] = from
    /\ pc' = [pc EXCEPT ![i] = to]

(* The control is checked before anything is built. *)
ThreadStarts(i) ==
    /\ Move(i, "starting", IF stopped[i] THEN "exiting" ELSE "initializing")
    /\ UNCHANGED <<registry, lock, stopped, busy, initialized, initError, queue,
                   serving, call>>

Initialize(i) ==
    /\ Move(i, "initializing", "polling")
    /\ initialized' = [initialized EXCEPT ![i] = TRUE]
    /\ UNCHANGED <<registry, lock, stopped, busy, initError, queue, serving, call>>

(* The diagnostic is published before the control is cancelled. *)
InitializeFails(i) ==
    /\ Move(i, "initializing", "initFailed")
    /\ initError' = [initError EXCEPT ![i] = TRUE]
    /\ stopped' = [stopped EXCEPT ![i] = TRUE]
    /\ UNCHANGED <<registry, lock, busy, initialized, queue, serving, call>>

(* try_recv: a command already queued is answered with the diagnostic. *)
AnswerInitError(i) ==
    /\ Move(i, "initFailed", "exiting")
    /\ call' = Resolved(queue[i], "error")
    /\ queue' = [queue EXCEPT ![i] = Nobody]
    /\ UNCHANGED <<registry, lock, stopped, busy, initialized, initError, serving>>

(* Planted fault: the loop waits for a command before it looks at the control. *)
PollStoppedMutant(i) ==
    /\ stopped[i] /\ queue[i] # Nobody
    /\ Move(i, "polling", "dropping")
    /\ UNCHANGED <<registry, lock, stopped, busy, initialized, initError, queue,
                   serving, call>>

(* The loop's control check. *)
PollStopped(i) ==
    /\ stopped[i]
    /\ Move(i, "polling", "dropping")
    /\ UNCHANGED <<registry, lock, stopped, busy, initialized, initError, queue,
                   serving, call>>

(* recv_timeout, entered after the check passed, returns a command. *)
Receive(i) ==
    /\ queue[i] # Nobody
    /\ Move(i, "polling", "handling")
    /\ serving' = [serving EXCEPT ![i] = queue[i]]
    /\ queue' = [queue EXCEPT ![i] = Nobody]
    /\ UNCHANGED <<registry, lock, stopped, busy, initialized, initError, call>>

(* The handler succeeds and the control has still not stopped. *)
Handle(i) ==
    /\ ~stopped[i]
    /\ Move(i, "handling", "releasing")
    /\ UNCHANGED <<registry, lock, stopped, busy, initialized, initError, queue,
                   serving, call>>

(* A stopped control, a handler error or an oversized response: the context *)
(* may be lost, the control is cancelled.                                   *)
HandleFails(i) ==
    /\ Move(i, "handling", "failing")
    /\ stopped' = [stopped EXCEPT ![i] = TRUE]
    /\ UNCHANGED <<registry, lock, busy, initialized, initError, queue, serving, call>>

(* "Publish readiness before acknowledgement": busy is cleared ... *)
ReleaseBusy(i, from, to) ==
    /\ Move(i, from, to)
    /\ busy' = [busy EXCEPT ![i] = FALSE]
    /\ UNCHANGED <<registry, lock, stopped, initialized, initError, queue,
                   serving, call>>

(* ... and then the reply is sent.  After a failure the loop is left. *)
Reply(i, from, to, outcome) ==
    /\ Move(i, from, to)
    /\ call' = Resolved(serving[i], outcome)
    /\ serving' = [serving EXCEPT ![i] = Nobody]
    /\ UNCHANGED <<registry, lock, stopped, busy, initialized, initError, queue>>

(* drop(runtime) *)
DropRuntime(i) ==
    /\ Move(i, "dropping", "exiting")
    /\ UNCHANGED <<registry, lock, stopped, busy, initialized, initError, queue,
                   serving, call>>

(* The last two statements of the thread ... *)
Exit(i) ==
    /\ Move(i, "exiting", "unwinding")
    /\ stopped' = [stopped EXCEPT ![i] = TRUE]
    /\ busy' = [busy EXCEPT ![i] = FALSE]
    /\ UNCHANGED <<registry, lock, initialized, initError, queue, serving, call>>

(* Planted fault: the receiver is leaked with what it holds. *)
FinishMutant(i) ==
    /\ Move(i, "unwinding", "finished")
    /\ UNCHANGED <<registry, lock, stopped, busy, initialized, initError, queue,
                   serving, call>>

(* ... and the drop of its receiver: a command that slipped in behind the   *)
(* last poll is disconnected.                                               *)
Finish(i) ==
    /\ Move(i, "unwinding", "finished")
    /\ call' = Resolved(queue[i], "error")
    /\ queue' = [queue EXCEPT ![i] = Nobody]
    /\ UNCHANGED <<registry, lock, stopped, busy, initialized, initError, serving>>

(* The runtime's constructor or its handler panics: neither the control nor *)
(* the flag is touched, the command and the receiver are dropped.           *)
Panic(i) ==
    /\ pc[i] \in {"initializing", "handling"}
    /\ pc' = [pc EXCEPT ![i] = "panicked"]
    /\ call' = [c \in Callers |->
                  IF c \in {queue[i], serving[i]} THEN Resolved(c, "error")[c] ELSE call[c]]
    /\ queue' = [queue EXCEPT ![i] = Nobody]
    /\ serving' = [serving EXCEPT ![i] = Nobody]
    /\ UNCHANGED <<registry, lock, stopped, busy, initialized, initError>>

-----------------------------------------------------------------------------
(* Cancellation without a join. *)

(* ParentRegistry::cancel *)
Cancel(p, i) ==
    /\ Unlocked
    /\ Scoped(p, i) /\ entry[i].owner
    /\ stopped' = [stopped EXCEPT ![i] = TRUE]
    /\ UNCHANGED <<registry, lock, pc, busy, initialized, initError, queue,
                   serving, call>>

(* The control's own deadline, whatever became of the thread. *)
DeadlinePasses(i) ==
    /\ pc[i] # "none" /\ ~stopped[i]
    /\ stopped' = [stopped EXCEPT ![i] = TRUE]
    /\ UNCHANGED <<registry, lock, pc, busy, initialized, initError, queue,
                   serving, call>>

-----------------------------------------------------------------------------
(* stop, drain and reap_finished. *)

BeginStop(c, p, i) ==
    /\ call[c].op = "idle"
    /\ Scoped(p, i)
    /\ call' = [call EXCEPT ![c] = [IdleCall EXCEPT !.op = "stop", !.asked = {i}, !.todo = {i}]]
    /\ UNCHANGED <<registry, lock, owner>>

(* Planted fault: admission stays open. *)
BeginDrainMutant(c) ==
    /\ Unlocked
    /\ call[c].op = "idle"
    /\ stopped' = [i \in Parents |-> stopped[i] \/ entry[i].owner]
    /\ call' = [call EXCEPT ![c] = [IdleCall EXCEPT !.op = "drain", !.asked = Claimed,
                                                    !.todo = Claimed]]
    /\ UNCHANGED <<registry, lock, pc, busy, initialized, initError, queue, serving>>

(* Admission is closed and every live tree is signalled in one step. *)
BeginDrain(c) ==
    /\ Unlocked
    /\ call[c].op = "idle"
    /\ draining' = TRUE
    /\ stopped' = [i \in Parents |-> stopped[i] \/ entry[i].owner]
    /\ call' = [call EXCEPT ![c] = [IdleCall EXCEPT !.op = "drain", !.asked = Claimed,
                                                    !.todo = Claimed]]
    /\ UNCHANGED <<entry, total, lock, pc, busy, initialized, initError, queue, serving>>

(* reap_finished takes every owner whose thread is over. *)
BeginReap(c) ==
    /\ Unlocked
    /\ call[c].op = "idle"
    /\ LET over == {i \in Parents : entry[i].owner /\ pc[i] \in Over} IN
       /\ entry' = [i \in Parents |->
                      IF i \in over
                      THEN [entry[i] EXCEPT !.owner = FALSE, !.status = "Stopping"]
                      ELSE entry[i]]
       /\ stopped' = [i \in Parents |-> stopped[i] \/ i \in over]
       /\ call' = [call EXCEPT ![c] = [IdleCall EXCEPT !.op = "reap", !.asked = over,
                                                       !.taken = over]]
    /\ UNCHANGED <<total, draining, lock, pc, busy, initialized, initError, queue, serving>>

(* The teardown of i was confirmed earlier. *)
Confirmed(i) ==
    \/ entry[i].status = "Stopped"
    \/ entry[i].status = "ContextLost" /\ entry[i].bytes = 0

(* The locked prologue of stop: already confirmed, in another caller's      *)
(* hands (or uncertain for good), or taken and cancelled.                   *)
StopConfirmed(c, i) ==
    /\ Unlocked
    /\ i \in call[c].todo /\ call[c].taken = {}
    /\ Confirmed(i)
    /\ call' = [call EXCEPT ![c].todo = call[c].todo \ {i}]
    /\ UNCHANGED <<registry, lock, owner>>

(* Planted fault: another caller's unfinished teardown counts as done. *)
StopPendingMutant(c, i) ==
    /\ Unlocked
    /\ i \in call[c].todo /\ call[c].taken = {}
    /\ ~Confirmed(i) /\ ~entry[i].owner
    /\ call' = [call EXCEPT ![c].todo = call[c].todo \ {i}]
    /\ UNCHANGED <<registry, lock, owner>>

StopPending(c, i) ==
    /\ Unlocked
    /\ i \in call[c].todo /\ call[c].taken = {}
    /\ ~Confirmed(i) /\ ~entry[i].owner
    /\ call' = [call EXCEPT ![c].todo = call[c].todo \ {i}, ![c].failed = TRUE]
    /\ UNCHANGED <<registry, lock, owner>>

StopTakes(c, i) ==
    /\ Unlocked
    /\ i \in call[c].todo /\ call[c].taken = {}
    /\ ~Confirmed(i) /\ entry[i].owner
    /\ entry' = [entry EXCEPT ![i].owner = FALSE, ![i].status = "Stopping"]
    /\ stopped' = [stopped EXCEPT ![i] = TRUE]
    /\ call' = [call EXCEPT ![c].todo = call[c].todo \ {i}, ![c].taken = {i}]
    /\ UNCHANGED <<total, draining, lock, pc, busy, initialized, initError, queue, serving>>

(* JoinHandle::join returns once the thread is over; a panic is its error. *)
Join(c, i) ==
    /\ i \in call[c].taken
    /\ Move(i, "finished", "joined")
    /\ UNCHANGED <<registry, lock, stopped, busy, initialized, initError, queue,
                   serving, call>>

(* The locked epilogue: a confirmed join returns the charge. *)
ReleaseJoined(c, i) ==
    /\ Unlocked
    /\ i \in call[c].taken
    /\ pc[i] = "joined"
    /\ entry' = [entry EXCEPT ![i].status = IF call[c].op = "reap" THEN "ContextLost" ELSE "Stopped",
                              ![i].bytes = 0, ![i].egress = 0]
    /\ total' = [bytes |-> total.bytes - entry[i].bytes, egress |-> total.egress - entry[i].egress]
    /\ call' = [call EXCEPT ![c].taken = call[c].taken \ {i}]
    /\ UNCHANGED <<draining, lock, owner>>

(* Planted fault: a panicked owner's charge is returned. *)
KeepUncertainMutant(c, i) ==
    /\ Unlocked
    /\ i \in call[c].taken
    /\ pc[i] = "panicked"
    /\ entry' = [entry EXCEPT ![i].status = "TeardownUncertain", ![i].bytes = 0, ![i].egress = 0]
    /\ total' = [bytes |-> total.bytes - entry[i].bytes, egress |-> total.egress - entry[i].egress]
    /\ call' = [call EXCEPT ![c].taken = call[c].taken \ {i}, ![c].failed = TRUE]
    /\ UNCHANGED <<draining, lock, owner>>

(* A panicked owner stays charged. *)
KeepUncertain(c, i) ==
    /\ Unlocked
    /\ i \in call[c].taken
    /\ pc[i] = "panicked"
    /\ entry' = [entry EXCEPT ![i].status = "TeardownUncertain"]
    /\ call' = [call EXCEPT ![c].taken = call[c].taken \ {i}, ![c].failed = TRUE]
    /\ UNCHANGED <<total, draining, lock, owner>>

(* The call returns. *)
Return(c) ==
    /\ call[c].op \in {"stop", "drain", "reap"} /\ call[c].outcome = "none"
    /\ call[c].todo = {} /\ call[c].taken = {}
    /\ call' = [call EXCEPT ![c].outcome =
                  IF call[c].failed /\ call[c].op # "reap" THEN "error" ELSE "ok"]
    /\ UNCHANGED <<registry, lock, owner>>

(* A caller that was answered makes another call. *)
Forget(c) ==
    /\ call[c].outcome \in {"ok", "error", "busy"}
    /\ call' = [call EXCEPT ![c] = IdleCall]
    /\ UNCHANGED <<registry, lock, owner>>

-----------------------------------------------------------------------------
ThreadStep(i) ==
    \/ ThreadStarts(i) \/ Initialize(i) \/ InitializeFails(i) \/ AnswerInitError(i)
    \/ PollStopped(i) \/ Receive(i) \/ Handle(i) \/ HandleFails(i)
    \/ ReleaseBusy(i, "releasing", "replying") \/ ReleaseBusy(i, "failing", "failingReply")
    \/ Reply(i, "replying", "polling", "ok") \/ Reply(i, "failingReply", "dropping", "error")
    \/ DropRuntime(i) \/ Exit(i) \/ Finish(i) \/ Panic(i)

(* A call in progress. *)
CallStep(c) ==
    \/ \E i \in Parents :
         \/ SetBusy(c, i) \/ Send(c, i)
         \/ StopConfirmed(c, i) \/ StopPending(c, i) \/ StopTakes(c, i)
         \/ Join(c, i) \/ ReleaseJoined(c, i) \/ KeepUncertain(c, i)
    \/ Return(c)

NewCall(c) ==
    \/ \E p \in Principals, i \in Parents : Submit(c, p, i) \/ BeginStop(c, p, i)
    \/ BeginDrain(c) \/ BeginReap(c) \/ Forget(c)

Next ==
    \/ \E i \in Parents : ThreadStep(i) \/ DeadlinePasses(i)
    \/ \E c \in Callers : CallStep(c) \/ NewCall(c)
    \/ \E p \in Principals, i \in Parents :
         Cancel(p, i) \/ \E charge \in Charges : Spawn(p, i, charge)

Spec == Init /\ [][Next]_vars

-----------------------------------------------------------------------------
(* Properties. *)

(* Memory and broker slots are returned only by a confirmed join            *)
(* (ReservedCapacity: "Includes stopping and teardown-uncertain owners until *)
(* a confirmed join"): an incarnation whose thread was started and not      *)
(* joined is still charged.                                                 *)
ChargedUntilJoined ==
    \A i \in Parents : pc[i] \in Live \cup {"finished", "panicked"} => entry[i].bytes > 0

(* "Concurrent stop observes Stopping, never false success": when stop or   *)
(* drain has returned Ok, the threads it was asked about are joined, however *)
(* many callers stop, reap or drain the same owner.  A drain that returned  *)
(* Ok leaves nothing running and nothing admitted later: it closes          *)
(* admission in the step that lists the owners.                             *)
NoFalseStop ==
    \A c \in Callers : call[c].op \in {"stop", "drain"} /\ call[c].outcome = "ok" =>
        /\ \A i \in call[c].asked : pc[i] = "joined"
        /\ call[c].op = "drain" =>
              \A i \in Parents : pc[i] \in {"none", "joined"} /\ entry[i].bytes = 0

(* An accepted command's receiver is always resolved: answered, or          *)
(* disconnected when it slipped into the channel of a thread on its way out. *)
CommandResolved ==
    \A c \in Callers : (call[c].outcome = "waiting") ~> (call[c].outcome # "waiting")

(* A stop, drain or reap that began returns: every join ends with the       *)
(* owner's own thread.                                                      *)
TeardownReturns ==
    \A c \in Callers : (call[c].op \in {"stop", "drain", "reap"}) ~> (call[c].outcome # "none")

(* Owner threads are scheduled and their handlers, which run under the      *)
(* control, return; a deadline arrives; a call in progress goes on.  No     *)
(* caller is obliged to make a call.                                        *)
FairSpec ==
    /\ Spec
    /\ \A i \in Parents : WF_vars(ThreadStep(i)) /\ WF_vars(DeadlinePasses(i))
    /\ \A c \in Callers : WF_vars(CallStep(c))
==============================================================================
