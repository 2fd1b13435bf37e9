--------------------------------- MODULE Cells ---------------------------------
(***************************************************************************)
(* The virtual machines of one host process: the cache of warm motes       *)
(* (dispatch_warm.rs), the shared pages of sealed tools (vmm/kvm.rs) and   *)
(* the forks of a mote (vmm/boot.rs).                                      *)
(*                                                                         *)
(* Each worker thread pins a mote, taking it from the cache or booting a   *)
(* template under the cache lock and parking it, then forks one cell after *)
(* another from its pin, lends it a task and runs it.  A worker of the     *)
(* command line (run.rs, agent.rs) boots a cell of its own instead.        *)
(*                                                                         *)
(* Guest memory is abstracted to the tasks whose data it holds, and a      *)
(* mote's tools to the one image its key stands for.  What happens inside  *)
(* LinuxCell::run is the subject of CellRun; here a run reads its task and *)
(* returns.                                                                *)
(***************************************************************************)
EXTENDS Integers, Sequences, SequencesExt, FiniteSets

CONSTANTS Workers,        \* host threads; a worker's name is also its task
          Keys,           \* mote keys
          Tools, ToolOf,  \* sealed tools, and the payload of each key
          Motes,          \* identities for parked memory
          Nothing,
          WarmTemplates   \* size of the cache (4 in the code)

ASSUME CellsAssumption ==
    /\ ToolOf \in [Keys -> Tools]
    /\ WarmTemplates \in Nat \ {0}
    /\ IsFiniteSet(Workers) /\ IsFiniteSet(Motes) /\ Nothing \notin Motes \cup Tools
    /\ Cardinality(Motes) >= WarmTemplates + Cardinality(Workers)

VARIABLES
    lock,      \* holder of the cache mutex
    cache,     \* CACHE: motes, most recently used last
    mote,      \* parked memory: its key and the tasks its memfd holds
    registry,  \* tool_registry: the tools with a host copy
    at,        \* where each worker is
    key,       \* the key it was asked for
    pin,       \* the mote it holds an Arc of
    vm,        \* its LinuxCell, a template or a cell
    withdrawn  \* the worker's Control has a reason

warm == <<lock, cache, mote, registry>>
cellVars == <<warm, at, key, pin, vm, withdrawn>>

Places == {"idle", "locking", "prepare", "template", "parked", "publish", "checking",
           "pinned", "booting", "lending", "running"}

NoVm == [fork |-> Nothing, tool |-> Nothing, ram |-> {}, task |-> "none", lent |-> FALSE]

CellsTypeOK ==
    /\ lock \in Workers \cup {Nothing}
    /\ cache \in Seq(Motes) /\ Len(cache) =< WarmTemplates
    /\ mote \in [Motes -> [key : Keys \cup {Nothing}, ram : SUBSET Workers]]
    /\ registry \subseteq Tools
    /\ at \in [Workers -> Places]
    /\ key \in [Workers -> Keys \cup {Nothing}]
    /\ pin \in [Workers -> Motes \cup {Nothing}]
    /\ vm \in [Workers -> [fork : Motes \cup {Nothing}, tool : Tools \cup {Nothing},
                           ram : SUBSET Workers, task : {"none", "given", "read"},
                           lent : BOOLEAN]]
    /\ withdrawn \in [Workers -> BOOLEAN]

CellsInit ==
    /\ lock = Nothing /\ cache = <<>> /\ registry = {}
    /\ mote = [m \in Motes |-> [key |-> Nothing, ram |-> {}]]
    /\ at = [w \in Workers |-> "idle"]
    /\ key = [w \in Workers |-> Nothing]
    /\ pin = [w \in Workers |-> Nothing]
    /\ vm = [w \in Workers |-> NoVm]
    /\ withdrawn = [w \in Workers |-> FALSE]

-----------------------------------------------------------------------------
(* Ownership. *)

Cached == {cache[n] : n \in DOMAIN cache}

(* Motes some Arc still points to. *)
Alive == Cached \cup {pin[w] : w \in Workers}

(* Mutant: a parked mote names its tools without holding them. *)
HeldByVms(t, cached) == \E w \in Workers : vm[w].tool = t

(* The tools with a strong handle beside the registry's: machines and       *)
(* parked motes (Mote::tool_maps, LinuxCell::tool_maps).                    *)
Held(t, cached) ==
    \/ \E w \in Workers : vm[w].tool = t
    \/ \E m \in (Range(cached) \cup {pin[w] : w \in Workers}) \ {Nothing} : ToolOf[mote[m].key] = t

Move(w, place) == at' = [at EXCEPT ![w] = place]

(* A worker's call ends: everything it owned is dropped. *)
Drops(w) ==
    /\ Move(w, "idle")
    /\ key' = [key EXCEPT ![w] = Nothing]
    /\ pin' = [pin EXCEPT ![w] = Nothing]
    /\ vm' = [vm EXCEPT ![w] = NoVm]
    /\ lock' = IF lock = w THEN Nothing ELSE lock
    /\ withdrawn' = [withdrawn EXCEPT ![w] = FALSE]
    /\ UNCHANGED <<cache, mote, registry>>

-----------------------------------------------------------------------------
(* pin: the cache and the preparation of a template. *)

(* A dispatcher asks for a mote, or the command line for a cell of its own. *)
Ask(w, k) ==
    /\ at[w] = "idle"
    /\ key' = [key EXCEPT ![w] = k]
    /\ \E place \in {"locking", "booting"} : Move(w, place)
    /\ UNCHANGED <<warm, pin, vm, withdrawn>>

(* Every check of the control, and every operation that can fail, ends the  *)
(* call with an error; a run ends by itself or is stopped.                  *)
Refuse(w) ==
    /\ \/ at[w] \in {"locking", "checking", "pinned"} /\ withdrawn[w]
       \/ at[w] \in {"prepare", "booting", "template", "lending", "running"}
    /\ Drops(w)

HasKey(k) == \E m \in Cached : mote[m].key = k

(* try_lock succeeds and the key is cached: the entry moves to the end. *)
Hit(w) ==
    /\ at[w] = "locking" /\ ~withdrawn[w] /\ lock = Nothing /\ HasKey(key[w])
    /\ LET n == CHOOSE n \in DOMAIN cache : mote[cache[n]].key = key[w]
       IN  /\ cache' = Append(RemoveAt(cache, n), cache[n])
           /\ pin' = [pin EXCEPT ![w] = cache[n]]
    /\ Move(w, "checking")
    /\ UNCHANGED <<lock, mote, registry, key, vm, withdrawn>>

Miss(w) ==
    /\ at[w] = "locking" /\ ~withdrawn[w] /\ lock = Nothing /\ ~HasKey(key[w])
    /\ lock' = w
    /\ Move(w, "prepare")
    /\ UNCHANGED <<cache, mote, registry, key, pin, vm, withdrawn>>

(* LinuxCell::boot and seal_tool: shared_tool finds the host copy or makes  *)
(* the only one.  MemoryMap says where the tool goes.                       *)
Boot(w) ==
    /\ at[w] \in {"prepare", "booting"} /\ ~withdrawn[w]
    /\ vm' = [vm EXCEPT ![w] = [NoVm EXCEPT !.tool = ToolOf[key[w]]]]
    /\ registry' = registry \cup {ToolOf[key[w]]}
    /\ Move(w, IF at[w] = "prepare" THEN "template" ELSE "lending")
    /\ UNCHANGED <<lock, cache, mote, key, pin, withdrawn>>

(* The template's run stopped at its marker, and park: nothing of a task    *)
(* may be in the machine; the mote takes over the memfd and handles on the  *)
(* tools.                                                                   *)
Park(w) ==
    /\ at[w] = "template"
    /\ vm[w].task = "none" /\ ~vm[w].lent
    /\ LET m == CHOOSE m \in Motes : m \notin Alive
       IN  /\ mote' = [mote EXCEPT ![m] = [key |-> key[w], ram |-> vm[w].ram]]
           /\ pin' = [pin EXCEPT ![w] = m]
    /\ Move(w, "parked")
    /\ UNCHANGED <<lock, cache, registry, key, vm, withdrawn>>

(* The only shared writable mapping goes before the mote is published. *)
DropTemplate(w) ==
    /\ at[w] = "parked"
    /\ vm' = [vm EXCEPT ![w] = NoVm]
    /\ Move(w, "publish")
    /\ UNCHANGED <<warm, key, pin, withdrawn>>

(* The oldest mote leaves a full cache, and collect_unused_tools drops the  *)
(* host copies nobody but the registry holds.                               *)
Publish(w) ==
    /\ at[w] = "publish"
    /\ cache' = Append(IF Len(cache) >= WarmTemplates THEN Tail(cache) ELSE cache, pin[w])
    /\ registry' = {t \in registry : Held(t, cache')}
    /\ lock' = Nothing
    /\ Move(w, "checking")
    /\ UNCHANGED <<mote, key, pin, vm, withdrawn>>

Pinned(w) ==
    /\ at[w] = "checking" /\ ~withdrawn[w]
    /\ Move(w, "pinned")
    /\ UNCHANGED <<warm, key, pin, vm, withdrawn>>

-----------------------------------------------------------------------------
(* Forking a mote, and what a cell is lent. *)

(* Mutant: the memory of a fork is a shared mapping of the memfd. *)
ReadsTaskShared(w) ==
    /\ vm' = [vm EXCEPT ![w].task = "read", ![w].ram = @ \cup {w}]
    /\ mote' = IF vm[w].fork = Nothing THEN mote
               ELSE [mote EXCEPT ![vm[w].fork].ram = @ \cup {w}]

(* The guest keeps what it reads from port 0x510 in its RAM: a private copy *)
(* of the page it writes (Mem::cow_of).                                     *)
ReadsTask(w) ==
    /\ vm' = [vm EXCEPT ![w].task = "read", ![w].ram = @ \cup {w}]
    /\ UNCHANGED mote

(* What the guest of w can read: its own pages and the clean ones it shares. *)
Visible(w) ==
    vm[w].ram \cup (IF vm[w].fork = Nothing THEN {} ELSE mote[vm[w].fork].ram)

(* fork_from: a private view of the memory, and the tool's host copy again  *)
(* ("no longer held" if there is none).                                     *)
Fork(w) ==
    /\ at[w] = "pinned" /\ ~withdrawn[w]
    /\ LET tool == ToolOf[mote[pin[w]].key]
       IN  IF tool \in registry
           THEN /\ vm' = [vm EXCEPT ![w] = [NoVm EXCEPT !.fork = pin[w], !.tool = tool]]
                /\ Move(w, "lending")
                /\ UNCHANGED <<warm, key, pin, withdrawn>>
           ELSE Drops(w)

(* set_invocation, and perhaps a broker or a mailbox. *)
Lend(w) ==
    /\ at[w] = "lending"
    /\ \E l \in BOOLEAN : vm' = [vm EXCEPT ![w].task = "given", ![w].lent = l]
    /\ Move(w, "running")
    /\ UNCHANGED <<warm, key, pin, withdrawn>>

Reads(w) ==
    /\ at[w] = "running" /\ vm[w].task = "given"
    /\ ReadsTask(w)
    /\ UNCHANGED <<lock, cache, registry, at, key, pin, withdrawn>>

(* The run returned and the cell is dropped; the owner of a pin forks the   *)
(* next one.                                                                *)
Return(w) ==
    /\ at[w] = "running" /\ pin[w] # Nothing
    /\ Move(w, "pinned")
    /\ vm' = [vm EXCEPT ![w] = NoVm]
    /\ UNCHANGED <<warm, key, pin, withdrawn>>

(* A cancellation or the deadline of the work, at any time. *)
Cancel(w) ==
    /\ at[w] # "idle" /\ ~withdrawn[w]
    /\ withdrawn' = [withdrawn EXCEPT ![w] = TRUE]
    /\ UNCHANGED <<warm, at, key, pin, vm>>

CellsNext ==
    \E w \in Workers :
        \/ \E k \in Keys : Ask(w, k)
        \/ Refuse(w) \/ Hit(w) \/ Miss(w) \/ Boot(w) \/ Park(w) \/ DropTemplate(w)
        \/ Publish(w) \/ Pinned(w) \/ Fork(w) \/ Lend(w) \/ Reads(w) \/ Return(w)
        \/ Cancel(w)

CellsSpec == CellsInit /\ [][CellsNext]_cellVars

-----------------------------------------------------------------------------
(* No guest sees data of another task. *)
OwnTaskOnly == \A w \in Workers : Visible(w) \subseteq {w}

(* The host copy of a tool in use stays in the registry. *)
ToolsHeld ==
    /\ \A w \in Workers : vm[w].tool # Nothing => vm[w].tool \in registry
    /\ \A m \in Alive \ {Nothing} : ToolOf[mote[m].key] \in registry

(* "Every execution, including the first, forks the parked template" and    *)
(* the mote is "authority-free": no guest ever sees data of another task,   *)
(* whatever ran before it from the same mote.  "One host allocation per     *)
(* tool hash, shared by every cell" and "neither execution nor a future     *)
(* fork can lose its backing memory": the copy of a tool that a machine, a  *)
(* cached or a pinned mote uses stays in the registry, so no second copy is *)
(* made and no fork finds it gone (boot.rs, kvm.rs collect_unused_tools).   *)
ForksSound == OwnTaskOnly /\ ToolsHeld
================================================================================
