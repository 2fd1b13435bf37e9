# Celln in TLA+

This directory holds TLA+ models of Celln, the configurations with which TLC
checks them, and machine-checked TLAPS proofs about them. Celln runs untrusted
agent work in disposable virtual machines ("cells"). The models follow a piece of
work through the whole host: the router that places it on a node, the authority
and the permits that allow it, the journals that make it happen once, the mote
and the tools it is launched from, the machine it runs in, the brokers that spend
its budget, and what is said about it afterwards. These parts are concurrent,
persist state with rename and fsync, and must stay correct when the process is
killed or the machine loses power.

Paths below are relative to `src/crates/`. `PROJECT.json` maps every modelling
definition to the lines it stands for, lists the runs with their mutants, and
names the hazards of the code with the properties that cover them.

## 1. Inventory

| Component | State | Operations | Talks to |
|---|---|---|---|
| **Router** `celln-cli/router.rs`, `router_ownership.rs`, `router_parents.rs`, `router_scoped.rs` | five ledgers of owner records with retirement markers, a file lock each; discovered backends; probe flags | claim, forward, retire, sweep, lookup, capability and cell reports | replicas over the same files, nodes |
| **Turn ledger** `celln-warden/parent_lease.rs` | remaining turns, requests, tokens; ids seen; active turn; stopped | `new`, `reserve_at`, `confirm_child_destroyed`, `stop`, `expired` | called by the session |
| **Parent session** `celln-pilot/parent_session.rs`, `celln-cli/dispatch_parent_worker.rs`, `celln-warden/parent_child_control.rs` | position in a turn, the child's result, the child control slot | `seed`, `submit`, `turn`; `register`, `cancel`, `retire` of the slot | guest parent, worker cell, ledger, journal |
| **Guest parent** `celln-pilot/parent_harness.rs`, `harness_parent.rs`, `celln-warden/parent_mailbox.rs`, `parent_protocol.rs` | pending turn, ids seen, recent history; the mailbox | `exchange` of a turn, of a result; deliver, take, the guest's ports | the session |
| **Parent journal** `celln-warden/parent_journal.rs` | per incarnation: tombstone directory, owner and process records, fence, three records per turn | `create`, `bind_owner`, `reserve`, `child_destroyed`, `parent_committed`, `turn_status`, `fence_uncreated`, `historical_teardown` | files shared by all processes of a node |
| **Owner and registry** `celln-warden/parent_owner.rs`, `parent_registry.rs` | entries with their charge, running totals, draining; per owner a thread, a control, a busy flag, a channel of one | `insert_admitted`, `submit`, `cancel`, `stop`, `reap_finished`, `drain`, `observed` | HTTP handlers, the session (its handler) |
| **Permits and claims** `celln-warden/parent_permit.rs`, `celln-cli/dispatch_parent_create.rs`, `dispatch_parents.rs`, `dispatch_parent_scoped.rs` | the run's issuance record, permits, launch profiles, trusted clients | provision, create, `authorize`, `claim`, turn, stop | journal, registry, router |
| **Admission journal** `celln-cli/tenancy_admission.rs` | one record per run and per turn: owner, outcome, fence, turns accepted, active turn | `open`, `claim`, `access`, `finish` | scoped receiver |
| **Scoped receiver** `celln-cli/dispatch_scoped.rs`, `tenancy_*.rs` | enrolments, key set, status files, the `operation_lock`, the pending, active and results maps of a parent | `prepare`, `start`, `cleanup`, `read`, the workers' `finish`, the supply of a turn | admission journal, registry, executions, relay |
| **Controls** `celln-control` | stop reason and deadline of a control, linked to its parent | `cancel`, `child`, `check`, process groups | everything that runs a cell |
| **Executions** `celln-cli/dispatch_http.rs`, `dispatch.rs`, `dispatch_outcome.rs`, `dispatch_journal.rs`, `node.rs` | registry of executions, terminal journal, node capacity | submit, poll, cancel, evict, restart | node, router, scoped receiver |
| **Cell registry** `celln-cli/cells.rs`, `run.rs`, `agent.rs` | one record per cell | begin, finish, prune, report | every command on the host |
| **Motes** `celln-cli/mote_*.rs`, `composition_cli.rs`, `dispatch_substrate.rs`, `dispatch_harness*.rs`, `celln-manifest` | closures, candidates, objects, trusted list, evidence; grants and attempts | compose, build, admit, withdraw; issue, claim, launch | operators, store, executions |
| **Warm cells** `celln-cli/dispatch_warm.rs`, `celln-warden/vmm/*` | cache of parked motes and pins, shared tool pages, one machine per worker | pin, boot, park, fork, lend, run, collect | executions, guest |
| **Brokers** `celln-warden/egress*.rs`, `workspace_broker.rs`, `celln-store/workspace.rs`, `celln-cli/tenancy_model_relay.rs` | budgets of a turn, the request sequence, the workspace with its revision and quota | request, fetch, post, relay, write, append, delete | guest, model gateway |
| **Store, manifest, assay** | objects, one manifest file | put, admit, resolve, revoke, exec gate | every command that seals tools |
| **Pilot** `celln-pilot/guest.rs` | where the guest's first process is in a request, what it lent its child | verify, gate, fork, confine, execute, report | host, workload |
| **Forge, spec, ratchet; packaging and command line** | none between calls | compile, parse, compare, print | |

What is hard here, and which component is exposed:

* *Publication in two steps.* `persist_noclobber` or `rename` makes a record
  visible; only the directory sync makes it durable. Every journal and every
  ledger of the router must be right when the process dies, a sync fails, or
  power is lost between the two.
* *At most once.* A turn, a parent, an execution, a harness attempt and a scoped
  operation may each be launched once, through client retries, failed host
  operations, several processes over one directory, and restarts.
* *Locks given up in the middle.* `stop`, `drain` and `reap_finished` join a
  thread without the registry mutex; the scoped workers store their outcome
  without the `operation_lock`; a turn's broker moves between two maps; the assay
  commands and the cell records have no lock at all.
* *Checked early, used late.* A permit, a key set, a policy, a grant or a path is
  verified, and seconds later something runs because of it.
* *Cancellation against completion.* A stop, a child cancellation, a deadline
  and a normal end compete; what is reported must match what happened, and a
  guest that never leaves `KVM_RUN` must still end.
* *Identity reuse.* Process ids are reused, pid namespaces overlap and boots
  change, while evidence about an earlier owner must remain true.
* *Lost answers.* A response, a forwarded request or a workspace reply may be
  lost after its effect; what may be billed is not asked for again.
* *Limits.* Turn budgets, tokens, memory, quotas and record capacities are shared
  by concurrent operations and must be exact and never refunded early.

For each component, what makes it correct: the **router** never sends an id to
two nodes; the **ledger** never refunds or overspends; the **session** runs a turn
once and answers only what is durable; the **registry** returns capacity only
after a confirmed join and never reports a stop that did not happen; the **claim**
launches an incarnation once, from the plan that was provisioned, and never after
a fence; **admission** grants an operation once, within the budget; **authority**
covers exactly what is launched, and its cleanup reaches it; the **status**
confirms a teardown only when nothing runs any more, and then for good;
**executions** are never replayed after a restart and never overcommit the node's
cells;
**motes** are trusted only with their objects, evidence and signatures in place;
**cells** see their own task only and stop when told; the **brokers** stay within
the grant; the **store** is never behind the manifest; **pilot** executes only what
the gate permitted and the host believes only pilot.

## 2. Modules and their correspondence to the code

### Parents

**`ParentLease`** is the ledger as operators on a record (`NewLease`,
`MayReserve`, `Reserved`, `ChildConfirmed`, `Stopped`, `Observed`), because it
has no thread of its own. Durations are reduced to "the deadline has passed".

**`ParentSession`** (extends `ParentLease`) is one incarnation from the first
turn to the loss of its context. `pc` is the position of the owner thread in
`ParentSession::turn`, one action per side effect, with a failing host
operation possible at each (`Fails`). A journal record is `visible` first and
`durable` after its sync. `slot` is the `ChildControlSlot`, `child` the running
worker cell, `guest` the reference `ParentContext` when `honest` and an
arbitrary guest otherwise. Clients submit and resubmit any turn, cancel
children and stop the parent; readers execute `turn_status` one file read at a
time; `Crash` and `PowerLoss` end the process, the latter keeping any subset of
what was not synced. `runs`, `cancels` and `doomed` are history variables.

**`TurnContract`** is the abstract specification of an incarnation: the durable
stage of a turn moves forward one step at a time, a turn is reserved only when
no other is unresolved, and its child is launched once, while the stage is exactly
"reserved". `ParentSession!ContractKept` instantiates it with the stage read off
`durable` and the turns with a launch.

**`ParentRegistry`** is the registry with its owner threads. The mutex is one
step of a call, except in `submit`, which keeps it while it sets `busy` and sends
into the channel; `stop`, `reap_finished` and `drain` take an owner out of its
entry, join without the mutex and come back. A thread's steps are those of
`ParentOwner::spawn`: initialization, polling, handling, releasing `busy`
*before* the reply, dropping the runtime, panic. What a handler does is
`ParentSession`'s subject.

**`ParentClaim`** is the durable life of one incarnation across processes:
issuance of a permit pinned to its run, authorization, claim (tombstone
directory, owner and process records, each with its sync), launch, fence, and
the two routes that confirm a teardown from `process.json`. Slots are
`[ns, pid]`, so pids are reused and namespaces overlap; `boot` and `now` are the
boot id and the boot clock.

**`ParentProvision`** is the way there: the HTTP routes that turn a plan into
three published files (issuance, permit, launch profile), create a parent from a
profile named by its hash, prepare its two substrates and serve its turns. The
permit is read again at every step, and the operator may withdraw it, replace the
client file, or the window may end in between. `files` is what is visible, `safe`
what a power loss keeps.

### Dispatch

**`Router`** is a set of replicas over shared ledgers. A handler (`call`) is a
record of its request and position. A claim holds its ledger's file lock from the
lookup to the directory sync, the choice of a backend and a nested claim
included; a lookup takes no lock. The four kinds of route (executions, parents,
scoped operations, reports) share these steps as in the code. `entry` and `maybe`
are what is seen and what a power loss may leave, `reached` and `posts` the
history of forwarded effects.

**`Executions`** is the dispatcher's registry of executions. Handlers hold the
registry mutex from their first look to their answer, journal calls included,
so each is one action; workers are the positions of `run_execution` (`starting`,
`preparing`, `cell`, `returned`) and every change of phase goes through
`update_execution` (`Progresses`, `Settled`, `Ends`). `disk` is what
`journal::read` sees and `maybe` what a power loss may leave; `Complete` and
`ClaimFails` contain the failures of every file operation. `writing` is a handler
that keeps the mutex because its client does not read a terminal reply: sockets
have no write timeout, and the output in such a reply is as large as the request
allowed. Every step that needs the registry waits for it (`Locks`). Capacity is not
a variable: as in `current_node` it is recomputed from the active entries, the
prewarm and the retained parents. Memory and egress decide only between `Admit` and
`Refuse`; that the cells are never overcommitted is `NodeNotOvercommitted`.

**`CellRegistry`** is the directory of cell records and the commands that keep it
(`celln run`, dry runs, agents, dispatchers): begin, prune for everybody, finish,
report, the node's memory offer, kills and pid reuse.

### Scoped receiver

**`AdmissionJournal`** is `tenancy_admission.rs` with the three handlers that
reach it, for one run with its root scope and turns. `records` is what `load`
sees, `maybe` the versions of each file a power loss may leave; `call` is the
call that holds the file lock, with its renames and syncs as separate steps. The
status file of a never-started operation is renamed before it is synced too: `told`
is what is seen of it, `firm` what is durable, and `reported` what was answered
from either, also by a later request that meets a status whose sync had failed.
**`AdmissionContract`** is its abstract specification: one grant per scope, a turn
only after the start, never more grants than the budget, nothing after a durable
fence.

**`ScopedStatus`** is the status file of one operation of each lifecycle
(one-shot, first operation of a retained parent, turn) and the threads that
write it: start, worker, cleanup and read. Load and store are separate steps;
`operation_lock` and the execution registry's mutex are explicit. `start` is
"stranded" after the one refusal that leaves a spawned parent running.

**`ScopedAuthority`** is what those requests are allowed: the key file and the
verifier, signed decisions and permits with their windows and skew, enrolment,
the derivation of a grant from the signed and the declared tools, the operation's
control and the custody of the model bearer. A decision is a record, its digest
is equality, its signature is a key. Time runs in half seconds: `now()` reads whole
ones (`clock`), a control runs on the finer clock (`Moment`), and
`operation_control` reads the first (`BoundStart`) some time before it anchors the
second (`AnchorStart`).

**`ScopedTurn`** is the hand-over of a turn's broker: the pending map, the supply
closure on the parent's thread, the active map, the child control slot and the
nested controls, against a cleanup that looks through them one lock at a time.

### Motes

**`MoteAdmission`** has composition as an operator on small file graphs
(`Compose`, with reachability and the agreement of shared paths), `build`,
`prepare`, `check`, `admit` and `withdraw` as processes with their syncs, the
lock, the compare-and-rename of the trusted list, and an operator who edits
policies meanwhile. **`MoteLaunch`** (extends it) launches an admitted mote, with
the harness grant, its issuer and its expiry, and the attempt tombstone: the
files are read before a preparation that may take seconds and again after it, one
read a step.

### The cell and its host

**`MemoryMap`** is the arithmetic of the guest-physical layout: window, rounding,
extension of RAM, placement of kernel and initrd, and `seal_tool`, over small
numbers of a unit. An image has the length of its bytes, which the window and the
e820 table use, and `MappedLength`, whole pages and at least one, which the slot
and `next_tool_gpa` use; KVM may refuse a slot (`SealFails`). **`Cells`** is the cache of warm templates with pins, eviction
and `collect_unused_tools`, and the forks of a mote, with memory abstracted to the
tasks whose data it holds. **`CellRun`** is `LinuxCell::run`: the vCPU thread, the
watchdog with its flag and burst of signals, the guest that uses its ports as it
likes, and the mailbox of a parent. **`Broker`** is a turn's allowance (claim,
charge, sequence number, transport, redirects, loss of an answer) with either the
JSON harness, whose tools may post to the model's URL, or an arbitrary program in
the guest. The token grant (`total`) funds the whole loop where `read_profile` and
`json_config` ask for it, and one request for a scoped one-shot. **`Workspace`** is the run data
with revision, quota and per-turn grants, and a guest that repeats changes whose
reply was lost. **`Assay`** is the store and the manifest shared by commands that
may be killed: shared temporary files, truncating writes that may fail, a copy
read at open.
**`Pilot`** is the guest's first process from manifest to verdict, the steps by
which it narrows a child, the frames on the console and how the host reads them.

### Composition

Where two parts share state in the code they share a module (`ParentSession` has
ledger, journal, slot and guest; `MoteLaunch` extends `MoteAdmission`; `ScopedStatus`
has the workers and the execution mutex). The remaining parts meet through files
or calls that one module leaves to another. `MCParents`, `MCFleet`, `MCReceiver`,
`MCHost` and `MCDispatcher` check several of these in one run as a disjoint sum:
`part` is chosen in the initial state, only that part's next-state relation is
enabled, and the others keep their initial state. A property of one part is thus
checked over exactly the behaviours of its own specification; `PROJECT.json`
lists what a run says of each part. The other `MC*` modules add model values,
symmetry and the constraints described below.

## 3. Runs

| Run | Parts | States, time | What it shows |
|---|---|---|---|
| `session` | `ParentSession` | 785,584; 2.5 min | `AtMostOneChild`, `BudgetCharged`, `AnswerDurable`, `InspectNeverTorn`, `StopPreventsCommit`, `CancelIsolated`, the refinement `ContractKept`, and `TurnEnds`, `StopDestroysParent` |
| `parents` | `ParentRegistry`, `ParentClaim` | 1,954,503; 3 min | `ChargedUntilJoined`, `NoFalseStop`; `LaunchedOnce`, `TeardownTruthful` |
| `registry_liveness` | `ParentRegistry` | 122,193; 1 min | `CommandResolved`, `TeardownReturns` |
| `fleet` | `Router`, `ParentProvision` | 920,785; 2.5 min | `OneNode`, `PostedOnce`; `CreatedAsProvisioned` |
| `receiver` | `AdmissionJournal`, `ScopedAuthority`, `ScopedTurn`, `MoteAdmission`, `MoteLaunch` | 1,436,715; 3 min | `ImplementsContract`, `PermanentlyFenced`; `WorkAuthorised`; `CancelReaches`; `AuthorityBacked`; `LaunchAuthorised` |
| `host` | `MemoryMap`, `Cells`, `CellRun`, `Broker`, `Workspace`, `Assay`, `Pilot` | 1,048,057; 1.5 min | `RegionsApart`; `ForksSound`; `AnswersWhole`, `CellStops`; `BudgetsKept`; `WorkspaceSound`; `EntryStored`; `RunsAttested`, `VerdictTrue` |
| `dispatcher` | `Executions`, `ScopedStatus`, `CellRegistry` | 792,173; 2.5 min | `RunsOnce`, `ReportFinal`, `CancelHonoured`, `ExecutionEnds`; `ConfirmedMeansGone`, `OneShotFinal`; `CellsListed` |
| `scoped_cleanup` | `ParentClaim` | | **violated**: `CleanupConfirmsExit` (finding 1) |
| `scoped_status_final` | `ScopedStatus` | | **violated**: `ConfirmedFinal` (finding 2) |
| `router_power_loss` | `Router` | | **violated**: `NeverReplaced` (finding 3) |
| `revocation` | `Assay` | | **violated**: `RevokedNeverRuns` (finding 4) |
| `key_removal` | `ScopedAuthority` | | **violated**: `RemovedKeyRefused` (finding 5) |

Why the bounds are enough to make the interesting cases happen:

* `session`: two turns fit the ledger, so a second one can follow a failed, a
  cancelled or a successful first one, and each can be resubmitted; the history of
  length one must evict. An exhausted ledger is not reached with two identities:
  the theorems of section 5 lift the safety properties to every size.
* `parents`, registry: a charge of 1 and one of 2 fill the memory of 3 exactly, so
  a third admission, or one too many after a wrong release, is refused or visible.
  Two callers are the smallest number that race on one owner; two owners make
  `drain` handle one while the other changes. For `registry_liveness`, three
  callers let one hold the mutex, one stop and one wait for an answer.
* `parents`, claim: three slots are two processes that race in one pid namespace
  and one in another with the same pid; a permit window of one instant can expire;
  two boots allow one power loss and everything after it.
* `fleet`, router: two handlers, of one replica or of two, over two nodes of which
  one is static. Each behaviour serves one of seven small sets of requests
  (`MCTraffics`), one per kind of conflict: executions with two bodies, pins and a
  cancel; provision, creation and turns of a parent; a one-shot that is retired
  while it is started; two operations in a ledger of one record; a root and its
  cleanup; a root with a turn; reports. The `Explored` constraint leaves out,
  for the two largest sets, what follows the use of a binding that was not
  durable, and two handlers of one replica; the other sets are explored with both.
* `fleet`, provisioning: one run with three plans (a new conversation, a
  continued one, one of another tenant), two handlers, two boots, and a client
  file in which a token changes hands. Policies of a preparation only refuse.
* `receiver`, admission: three scopes over a budget of two; two journal instances
  are the process that claimed and one that comes after or beside it. With
  `Capacity` 3 no record is refused for space; lower capacities only refuse more.
  `OneReported` leaves out never-started statuses, and enrolments that were not
  synced, of two operations at once: they meet only in the sync of their directory,
  and the theorem has no such bound.
* `receiver`, authority: three decisions for one operation (one with three tools of
  two methods, one without a model, one whose tools share no host), two keys and their
  files, permits that expire at each of the instants a start may be held up at,
  and two receiver processes. Two requests are under way at once in the first
  process, one at a time in the second (`OneAfterRestart`): what the second adds is
  what it finds on the disk. The theorem has no such bound.
* `receiver`, turns: two are the fewest for which a cleanup can meet the wrong one.
* `receiver`, motes: five plans compose, conflict, repeat a source or nest a path
  under another's; two administrators and two launchers; two launches at once are
  followed while the operator edits nothing (`MCMotes!Explored`), one launch
  through every edit.
* `host`: images of a length that is empty, part of a page and more than one page,
  pages of two units, memory and initrd sizes that end below, at and above each
  boundary; three motes for two workers and a cache
  of one, so that a pinned mote is evicted; a burst of three signals (the code
  sends 20), of which the first may be lost; a harness of two requests with the
  exact budget it is granted; three operations per turn and a quota of three
  bytes; two processes that give two assay commands; a workload that may forge
  frames after any of pilot's.
* `dispatcher`, executions: each limit is the binding one somewhere. Two large
  requests meet the one broker; a large request, a small one and a prewarm of a
  small one fit the cells and not the memory; a parent, counted as two cells,
  leaves room for one small execution or one prewarm. The journal holds both ids,
  so neither is turned away for space. Restarts and power losses are not bounded;
  the state is finite because an id is claimed once.
* `dispatcher`, status: two cleanups cannot overlap under `operation_lock` but can
  follow each other with work in between; a read holds a stale copy. Cell records:
  `Keep` is 1 for the code's 500, so two cells already prune each other; the wall
  clock does not go backwards.

*Symmetry.* The sets declared symmetric are used only through quantifiers and
equality, and the runs with a liveness property declare none. Where the sets of
different parts have two members each they are swapped together, which is sound
because the parts that do not run stay in a symmetric initial state.

Deadlock is checked in `parents`, `registry_liveness`, `fleet` and `dispatcher`.
In `session` no reader keeps running once the process is gone; in `receiver` every
journal instance may be dead and the bounds on openings and clocks used up; in
`host` a refused boot, a machine that is off and a used-up number of commands are
ends.

**Fairness.** `ParentSession!FairSpec` asks weak fairness of the owner thread
and its guest together: the thread is an operating-system thread, and both the
parent's and the child's run are bounded by their control and their timeout
(`parent_owner.rs` polls the control; the cells run under a deadline). Clients,
readers and the clock owe nothing. `ParentRegistry!FairSpec` asks it of each
owner thread, of each call in progress, and of each owner's deadline, which
`parent_owner.rs` enforces on every poll. No caller is obliged to call, and the
mutex is not assumed to be fair: without the deadline a caller whose lock
attempts always lose against other submits could starve, with it the submits
run out. `Executions!FairSpec` asks strong fairness of each worker thread: a forge,
a preparation and a cell are bounded by the execution's control and the cell's own
timeout, and the registry's mutex, which the thread needs to report, is taken in
the end if it is free again and again, as a futex is. That it is free again and
again is not assumed but the condition of `ExecutionEnds`: a client that stops
reading its reply keeps it for as long as it likes. Without the condition TLC finds
the execution that never ends; no text of the repository promises otherwise, so it
is a hazard and not a finding. `CellRun!RunFairness` asks it of the vCPU thread outside the guest
and of the watchdog, not of the guest. It assumes, as the code does, that the
thread gets from its last look at the flag into `KVM_RUN` before the burst of
signals is over (20 signals over 100 ms): the last signal of the burst finds it
inside.

**Mutants.** Every property of a passing run has a mutant in `PROJECT.json`, and
those that are conjunctions have several: a plausible slip in one definition (a
record published before its predecessor is synced, a charge returned before the
join, a rounding left out of the window, a policy not read again after the
preparation, a path executed instead of the open file) that makes TLC report the
property violated.

## 4. Findings

1. **`celln-cli/src/dispatch_scoped.rs:1904`.** The scoped cleanup of an
   operation whose original receiver is gone looks for the incarnation's journal
   under the dispatcher's root; claims write it under `<root>/parent-journal`, as
   the fence a few lines above does. `historical_teardown` therefore always
   fails, and the branch that confirms the original process' exit is
   unreachable: the operation stays `Uncertain`. Run `scoped_cleanup`.
2. **`celln-cli/src/dispatch_scoped.rs:2019`.** The cleanup of a turn loads the
   status, marks its copy `Cancelling` and stores it; the worker stores the
   outcome without the `operation_lock`. When the worker stores in between, a
   confirmed terminal status is replaced by an unconfirmed one for good, against
   the comment at line 1841. For a first operation the opposite order has a
   similar effect, which a repeated cleanup repairs. Run `scoped_status_final`.
3. **`celln-cli/src/router_ownership.rs:114`.** A claim whose directory sync fails
   leaves a record that is visible and not durable; the retry takes it for an
   earlier claim and forwards without syncing. After a power loss the id can be
   placed on another node, against "is never re-placed" (`router_scoped.rs:2`).
   `OneNode` shows that this is the only way: it holds for every id whose binding
   was durable whenever it was used. Run `router_power_loss`.
4. **`celln-assay/src/lib.rs:51`.** `persist` writes back the whole manifest the
   process read when it opened. A command that opened before a revocation undoes
   it, and later cells run the revoked tool, against "Revoke a hash fleet-wide"
   (`lib.rs:203`) and the text shown to the operator (`main.rs:157`). Run
   `revocation`.
5. **`celln-cli/src/dispatch_scoped.rs:240`.** `authenticate` reads the key file
   and installs it in the shared verifier in two steps; a request that read it
   before a key was removed can install the old keys after a later request loaded
   the new ones, whose permit is then verified with the removed key, against
   "Emergency removal affects future verification" (`tenancy_credentials.rs:110`).
   Run `key_removal`.

Five more texts are contradicted by the code. Each is stated as an invariant next to
the weaker one that a passing run checks and that says exactly how far the text is
true; TLC refutes the strong form when it is added to the cfg named here.

* **`celln-cli/src/dispatch_scoped.rs:1370`** (`ScopedStatus!ConfirmedTornDown`,
  `MCDispatcher.cfg`). A first operation of a retained parent that cannot store its
  `Admitted` status is stored as refused with its cleanup confirmed, although its
  parent was spawned and runs until its lease ends, against "Cleanup confirmation
  still requires real native teardown" (`docs/tenancy-scoped-artifacts.md:129`).
  `ConfirmedMeansGone` shows that this refusal (`start` is "stranded") is the only way.
* **`celln-cli/src/dispatch_scoped.rs:2879`** (`AdmissionJournal!NeverStartedStands`,
  `MCReceiver.cfg`). `persist_status` renames before it syncs. A never-started status
  whose sync failed stays visible and is answered by later requests (`:565`, `:1818`)
  without a sync; a power loss may take it, the fence and the enrolment, and the
  operation, prepared again, is granted, against "never started; permanently fenced"
  (`:2754`) and `tenancy_admission.rs:96`. `PermanentlyFenced` says what is left: no
  grant while the status or the enrolment it was about lasts.
* **`celln-cli/src/dispatch_scoped.rs:773`** (`ScopedAuthority!WithinTurnDeadline`,
  `MCReceiver.cfg`). The signed deadline becomes a duration by subtracting whole
  seconds, and the duration is started on another clock later; a model request may be
  sent after the deadline, against "never past `turnDeadlineUnix`"
  (`docs/tenancy-runtime-verifier.md:92`). `WorkAuthorised` bounds by how much: less
  than the truncated second plus what the thread was held up between the two clocks.
* **`celln-store/src/lib.rs:86`** (`Assay!NeverHalfWritten`, `MCAssay.cfg`). Two
  processes that store the same bytes share one temporary file; one renames it after
  the other truncated it, and the object is partial until the other write ends, or for
  good if it does not, against "a reader never sees a half-written object" (`:85`).
  `EntryStored` shows that two writers at a time are the only way.
* **`celln-warden/src/egress_post.rs:435`** (`Broker!ToolsSpareModel`, `MCHost.cfg`).
  `post_json` takes the model path for any POST to the model's URL, a web tool's
  included, against "independent GET/POST budgets that never spend or buy model
  requests" (`docs/tenancy-scoped-artifacts.md:215`). `BudgetsKept` shows that the
  grant holds all the same.

Other observations are recorded with the hazards rather than as runs, because no
text of the repository promises otherwise or the effect is on the cautious side:

* A claim of an execution that fails at its last directory sync has published its
  tombstone; the client is told to "retry same id" (`dispatch_http.rs:831`) and
  the retry then needs operator reconciliation. `RunsOnce` shows that nothing runs
  because of it.
* Handlers write terminal replies to the client's socket while they hold the
  registry mutex (`dispatch_http.rs:905-915`, `:1192`), with no write timeout: a
  client that stops reading holds up every worker and handler of the dispatcher.
* An empty image takes no room in the tool window and a page when it is sealed
  (`kvm.rs:136`, `boot.rs:103`): KVM may then refuse the slot of the last image and
  the launch fails.
* A token grant of a scoped one-shot need only fund one request of its harness
  (`dispatch_scoped.rs:855-876`), so the loop may be refused its next one.
* A child of pilot that is killed during its setup closes the error pipe as a
  successful exec does (`guest.rs:990-996`), and `Started` would be published.
* A permit the operator withdrew is published again by a retry of its provision
  inside the window (`parent_permit.rs:300`).
* `commit_policy` compares and then renames (`mote_admit.rs:117`): an operator's
  edit in between is lost. `harness-attempts` is created without a sync of its
  parent directory (`dispatch_harness.rs:277`).
* A dry run, and a run whose tools do not resolve (`run.rs:345`, `:374`), leave a
  record that reads as died; a reused pid keeps a dead record running
  (`cells.rs:75`).
* A `drain` may return an error although everything stops: an owner that a
  concurrent `stop` has already taken is reported as pending.

## 5. Proofs

Every safety property of the passing runs, the action property `OneShotFinal` and
both refinements are theorems, for every value of the constants that the
assumptions allow. The runs show them on small instances; they were model-checked,
and so were several of the inductive invariants, before they were proved.

| Module | Theorem | Property of a run |
|---|---|---|
| `ParentSessionProofs` | `ExecutedOnce` | `AtMostOneChild` |
| | `NeverOverspent` | `BudgetCharged` |
| | `AnswersSurvive` | `AnswerDurable` |
| | `InspectionConsistent` | `InspectNeverTorn` |
| | `StoppedUncommitted` | `StopPreventsCommit` |
| | `CancellationIsolated` | `CancelIsolated` |
| | `Implementation` | `ContractKept`, the refinement of `TurnContract` |
| `ParentRegistryProofs` | `RegistryCharges` | `ChargedUntilJoined` |
| | `RegistryStops` | `NoFalseStop` |
| `ParentClaimProofs` | `ClaimLaunchesOnce` | `LaunchedOnce` |
| | `ClaimTeardownTruthful` | `TeardownTruthful` |
| `ExecutionsProofs` | `ExecutionRunsOnce` | `RunsOnce` |
| | `ExecutionReportFinal` | `ReportFinal` |
| | `ExecutionCancelHonoured` | `CancelHonoured` |
| | `ExecutionsFitNode` | none: `NodeNotOvercommitted`, of `Executions` |
| `ReceiverProofs` | `ScopedConfirmedMeansGone` | `ConfirmedMeansGone` |
| | `ScopedOneShotFinal` | `OneShotFinal`, an action property |
| | `AdmissionPermanentlyFenced` | `PermanentlyFenced` |
| | `AdmissionRefinesContract` | `ImplementsContract`, the refinement of `AdmissionContract` |
| | `TurnCancelReaches` | `CancelReaches` |
| | `AuthorityWorkAuthorised` | `WorkAuthorised` |
| `FleetProofs` | `RouterOneNode`, `RouterPostedOnce` | `OneNode`, `PostedOnce` |
| | `ProvisionCreated` | `CreatedAsProvisioned` |
| `MoteProofs` | `MotesBacked`, `LaunchesBacked` | `AuthorityBacked`, of the commands that admit and withdraw, and of launches from motes so admitted |
| | `LaunchesAuthorised` | `LaunchAuthorised` |
| | `AssayEntryStored` | `EntryStored` |
| | `PilotRunsAttested`, `PilotVerdictTrue` | `RunsAttested`, `VerdictTrue` |
| `HostProofs` | `MapRegionsApart` | `RegionsApart` |
| | `CellsForksSound` | `ForksSound` |
| | `RunAnswersWhole` | `AnswersWhole` |
| | `BrokerBudgets` | `BudgetsKept` |
| | `WorkSound` | `WorkspaceSound` |
| | `CellRegistryListed` | `CellsListed` |

Each specification also has a theorem of type correctness (`TypeCorrect`,
`RegistryTyped`, `ClaimTyped`, ...), and `MemoryBehindJournal` proves
`HistoryRecorded`: a guest remembers only what the journal has synced.

**Assumptions.** They are the named `ASSUME`s of the modules, and TLC evaluates
each on the instance of a run. Most give constants their types. Those that say more:
`LeaseAssumption` is what `ParentLease::new` refuses to construct (at least one
turn, no more than the identity limit, per-turn limits within the totals);
`SessionAssumption`, that the history keeps at least one exchange and a seeded
exchange is no turn; `RequestAssumption`, that the keys include those requests
refer to and that two preparations of one operation agree on lifecycle and parent,
as their digest binds them; `BrokerAssumption`, that the loop of the harness is no
longer than the requests of its grant, as the templates and `json_config` have it
(its tokens need not cover the loop: that is `Funded`, a condition of the property);
`LayoutAssumption`, that the page divides the alignment, which divides the start of
the window, and the kernel starts below it, as the constants of `vmm/boot.rs` do
(images may have any length); `CellsAssumption`, that there are as many motes as the cache and the workers
can hold at once; `AuthorityAssumption`, that what a decision says of its tools is
of the type the parser accepts. Nothing bounds the number of turns, processes,
tools, images or frames; where a model has a bound (of the clock, of commands)
the theorem holds for each value of it.

**Argument.** Hardly any of the properties is inductive as it stands: what makes a
step harmless is where some other thread is, or what the disk may lose. Each module
therefore conjoins named parts to an inductive invariant, proves for each part a
step lemma with one step per action, and gathers the disjuncts of the next-state
relation in one lemma of cases.

*The parent session* (`IInv`). `Thread` ties the owner thread's position to its
turn and to the living child. `Progress` says which records of the turn exist, and
which are synced, at each position. `Chain` says that a stage is published only on
a synced predecessor and at most one record is visible and not synced, which makes
a power loss harmless: whatever it keeps is a prefix of the stages. `Serial` says
that of two reserved turns one is committed for good; `Launches`, that a turn with
a launch has a synced reservation; `Outcome` follows the result to its record;
`Ledger` ties the journal to the charged identities; `Reading` says that a reader
which found a commit will find the destruction; `Doomed` keeps a turn under which
the parent was stopped from passing the delivery. `ContractStep` shows that every
step is one of the contract or a stutter; a power loss may *advance* the contract,
when an unsynced record happens to survive (`ContractAdvance`).

*Registry* (`RegistryInv`). Bytes are charged exactly while a thread is not joined
(`Charged`), a recorded confirmation was one (`Settled`), what a caller took out of
its entry still has a thread to join (`Taken`), and `Informed` says what a stop or a
drain under way may conclude later from what it has put aside.

*Claims* (`ClaimInv`) is about who holds the tombstone directory. Its name is won
once; a power loss gives it back only before any claim got past its first sync, that
is, before a parent could run (`Holding`, `Binding`, `Launching`). A fence whose
record a power loss dropped is made good by the boot binding of permits (`Fencing`).

*Executions* (`ExecutionInv`). `Stored` says what each version of the disk that a
power loss may leave can hold: no verdict while the execution is active, and an
admission of the acknowledged bytes once there was a 202; `Reported`, that what was
answered is in all of them.

*Scoped receiver.* In `ScopedInv`, `Announced` follows what a worker is about to
store and `Observed` what an observer is about to replace, so that the one window of
finding 2 is excluded for a one-shot and for nothing else. `AdmissionInv` quantifies
over all versions a power loss may leave of a record (`Versions`); `GrantedOnce`
counts the grants against every version of the run's budget. `TurnInv` says where a
cancellation waits for a turn that is in none of the maps (`Struck`). In `AuthInv`,
`Admitting` carries what `start` verified from the lock to the launch, `Bounded` the
deadline into the work, and `Derived` the authority of the tools.

*Fleet.* `Bound` says that while an id can still make a node act, every version of its
record, and every handler about to post, names one node; `Following` the same of an
id that follows another (a creation its provision, a turn its parent). Provisioning
rests on `Pinned`, that a synced issuance never changes, and on `Profiles`.

*Motes.* `TrustBacked` says that each mote a written or waiting policy trusts is
stored, checked and sealed; `Carrying` follows the copies administrators hold;
`Noticing` what a launch has read and must read again; `Tombstones` makes an attempt
spend its grant once. `Listed` relates manifests to objects through every process'
own copy of the manifest. For the verdict, `Console` says that what the host would
read from the console so far agrees with how far pilot is, whatever the workload
inserted: a forged frame either ends the report or makes it defective.

*Host.* `Stacked` and `Room` bound each sealed image by the sum of the extents
before and after it; `Stage` says what memory a worker's machine can hold at each
position; `BoxSound` ties a mailbox to its message; `Paid` and `Within` the broker's
counters to what was really asked; `FilesFit` has the counter of bytes equal to the
sum of the lengths; in `RegInv` the place of a record in the listing is a bijection
onto an interval, so that the newest `Keep` of them are known (`OneHolder`,
`HolderTrue`, `FilesTrue`).

**Induction over data.** The library's induction theorems cannot be instantiated by
the installed provers. Where a property depends on what a recursion computes (the
extents of images, the tokens of requests, the lengths of files, the frames of a
console, the limits of tools) the recursion is a recursive function, and the lemma
on it is proved by a least counterexample: a set of natural numbers that is not empty
has a least element (`LeastOf`, `LeastNat`, from `WFMin`). So are existence and
order-independence of the sums (`SumExists`, `SumRemove`).

**Scope of three theorems.** `ScopedOneShotFinal` and `ScopedConfirmedMeansGone` are
about one receiver process, whose specification has no restart. `LaunchesBacked` is
about `DeclaredSpec`, which starts from admitted motes and has no administrators: it
says that launches, operators' edits and power losses keep the backing that
`MotesBacked` proves of the commands that make it. `PilotVerdictTrue` assumes that a
child is not killed between its fork and its exec.

**What the proofs changed.** `ReadsFrame` had a `CASE` with overlapping arms, whose
value TLA+ leaves open although TLC takes the first; its arms are disjoint now.
Tools are granted per method, as `https::derive` has a slot for each; the earlier
model intersected the two methods. Host lists are validated as `valid_hosts` does,
without which an intersection of two lists could come out as the wildcard.

**Only model-checked.** The liveness properties (`TurnEnds`, `StopDestroysParent`,
`CommandResolved`, `TeardownReturns`, `CellStops`, `ExecutionEnds`) and deadlock
freedom: they need fairness or ENABLED, which the prover does not treat. The
properties that are violated (section 4) are counterexamples of TLC.

## 6. Abstractions, and what is not modelled

* Message contents, prompts, digests, credentials and signatures. A check of a
  digest or a credential that precedes every state change is left out; where its
  failure has an effect (a permit of another principal, a conflicting
  enrolment, a differing member) it is an alternative.
* Mutex poisoning after a panic inside a critical section: the code answers
  every later call with an error.
* The comparison of user ids and the hiding of `/proc` entries in
  `historical_teardown`: both only turn a confirmation into "uncertain".
* A file system that reports an fsync failure and later drops pages it had
  promised. A failed sync leaves the record visible and possibly lost.
* In `AdmissionJournal` decisions are not told apart: another decision for an
  enrolled id is refused before any state changes. A handle that is never
  consumed stands for a worker that was lost. The files of different scopes are
  kept or lost independently by a power loss. A torn enrolment file is
  treated as never enrolled.
* In `ScopedStatus` one process is modelled; what another process or a restart
  sees is the subject of `AdmissionJournal` and `ParentClaim`. The parts of the
  scoped receiver are modules of their own over named variables, not one
  next-state relation: their product is beyond TLC.
* In `Executions` the entries that scoped one-shots keep in the same registry are
  left out: they have no tombstone, they reserve in the same way, and their
  phases are in `ScopedStatus`. Cells of other processes and a host that is not
  eligible only refuse more.
* In `Router` a request is well formed or not; the bodies of reports, headers and
  limits are left out. Health is a choice of the environment at each probe.
* In `MemoryMap` lengths are small numbers of a unit, of which a page is several;
  `AddressLimit` bounds the addresses. In `Cells` memory is the set of tasks whose data it holds.
* In `Assay` the store survives: `put` has no sync, and what a power loss leaves of
  an object or of the manifest is not modelled.
* In `Broker` a provider's body parses or does not; a process under a control ends
  with its answer or without one. In `Workspace` bytes are lengths.
* In `Pilot` any operation of the guest kernel may fail; mounts, the compilation
  of tools in the guest and the framework adapters are left out.

Not modelled, and why:

* *Packaging and the command line*: argument parsing, printing, installation
  scripts, provider setup and file formats, without state between calls.
* *Forge, spec and ratchet*: a compiler run compared with itself, parsers and
  validators, one comparison of lanes. Where a launch depends on their outcome it
  is a choice in `Executions`, `Assay` or `CellRegistry`.
* *The machine below the run loop*: registers, page tables, ACPI tables, ELF and
  bzImage loading, the ioctls. Seen from the host they succeed or fail.
* *Encodings*: frames, canonical JSON, `pack_task` of the guest parent, audit
  files, HTTP listeners and headers.

## 7. Plan

What is modelled is proved as far as the prover reaches. Worth adding:

1. Abstract specifications of what the router and the dispatcher promise (one node
   per id; one run and one report per execution) and the refinements, which the
   inductive invariants `RouterInv` and `ExecutionInv` already prepare.
2. Action properties that the invariants imply: a parent's journal, a tombstone and
   an admission record only advance; a charge falls only at a join.
3. A contract of the workspace in terms of whole contents rather than lengths.

No module declares a RECURSIVE operator, so all can be proved about.
