----------------------------- MODULE CellRegistry -----------------------------
(***************************************************************************)
(* The registry of cells behind `celln ps`, GET /v1/cells and the node     *)
(* probe (celln-cli cells.rs, node.rs), and the commands that keep it: a   *)
(* cell of a spec (run.rs), a program an agent wrote (agent.rs), and the   *)
(* cells of a dispatcher (dispatch.rs run_cell_with_broker).               *)
(*                                                                         *)
(* A cell is a descriptor of the process that made it, so it is only known *)
(* by one file per cell that the process writes before the cell exists and *)
(* rewrites when it is over.  The commands share the directory without a   *)
(* lock, may be killed at any point, and pids are used again.  The wall    *)
(* clock does not go backwards, and a name is taken once.                  *)
(***************************************************************************)
EXTENDS Integers, FiniteSets

CONSTANTS
    Pids,         \* process ids
    CellNames,    \* record ids: hashes, so in any order (a set of numbers)
    Keep,         \* KEEP
    MaxWall       \* bound on the wall clock

ASSUME RegistryAssumption ==
    CellNames \subseteq Nat \ {0} /\ Keep \in Nat \ {0} /\ MaxWall \in Nat

VARIABLES
    wall,         \* now_ms
    records,      \* cells/*.json
    command,      \* what the process under each pid is doing
    fate          \* history: how each cell really ended

registryVars == <<wall, records, command, fate>>

Kinds == {"run", "dry run", "agent", "serve"}
Gone == [at |-> "gone"]
Unrecorded == [id |-> 0]

(* Record; `backend`, names and timings are left out. *)
CellRecord == [id : CellNames, pid : Pids, started : 0 .. MaxWall,
               status : {"running", "dissolved", "refused", "failed"}]

Commands == [at : {"asking", "stopping", "idle", "begun", "recorded", "running", "dissolved",
                   "failed", "refused"},
             kind : Kinds, record : CellRecord \cup {Unrecorded}]

RegistryTypeOK ==
    /\ wall \in 0 .. MaxWall /\ records \subseteq CellRecord
    /\ command \in [Pids -> Commands \cup {Gone}]
    /\ fate \in [CellNames -> {"unused", "no cell", "running", "dissolved", "failed", "refused",
                               "killed"}]

RegistryInit ==
    /\ wall = 0 /\ records = {}
    /\ command = [p \in Pids |-> Gone]
    /\ fate = [n \in CellNames |-> "unused"]

-----------------------------------------------------------------------------
(* pid_alive, Record::live: a record of a process that is gone is "died". *)
Live(r) ==
    IF r.status # "running" THEN r.status
    ELSE IF command[r.pid] # Gone THEN "running" ELSE "died"

(* list: newest first, by the time of the start and then by name. *)
Newer(r, q) == r.started > q.started \/ (r.started = q.started /\ r.id > q.id)
Rank(r, rs) == Cardinality({q \in rs : Newer(q, r)})

(* ListQuery: `?all=true&limit=N`, and the cells a report then shows. *)
ListQuery == [all : BOOLEAN, limit : 1 .. Keep]
Reported(query) ==
    LET chosen == {r \in records : query.all \/ Live(r) = "running"} IN
    {r \in chosen : Rank(r, chosen) < query.limit}

(* live_count *)
LiveCount == Cardinality({r \in records : Live(r) = "running"})

(* NodeEligibility::from_probe: memory is only offered by a node without    *)
(* live cells.                                                              *)
MemoryOffered == LiveCount = 0

-----------------------------------------------------------------------------
Moves(p, point) == command' = [command EXCEPT ![p].at = point]
Exits(p) == command' = [command EXCEPT ![p] = Gone]

(* A command that served one cell ends; a dispatcher goes on. *)
Completes(p) == IF command[p].kind = "serve" THEN Moves(p, "idle") ELSE Exits(p)

(* What became of the cell of p, if it has a record. *)
Ended(p, how) ==
    fate' = IF command[p].record = Unrecorded THEN fate
            ELSE [fate EXCEPT ![command[p].record.id] = how]

(* save: the record written aside and renamed over the file, or an error    *)
(* its caller drops.                                                        *)
Saved(r) == records' = {q \in records : q.id # r.id} \cup {r}

(* A dispatcher is idle at first; an agent asks a provider for the program. *)
StartCommand(p, kind) ==
    /\ command[p] = Gone
    /\ command' = [command EXCEPT ![p] =
          [at |-> IF kind = "agent" THEN "asking" ELSE "idle", kind |-> kind, record |-> Unrecorded]]
    /\ UNCHANGED <<wall, records, fate>>

(* ask_model, output_deadline: the answer came, or its child was asked to   *)
(* stop and flushed it inside the grace period.  A program is built from it *)
(* and admitted.                                                            *)
Answered(p) ==
    /\ command[p] # Gone /\ command[p].at \in {"asking", "stopping"}
    /\ Moves(p, "idle")
    /\ UNCHANGED <<wall, records, fate>>

(* The deadline passed; only a provider that flushes on SIGTERM gets one. *)
AskedToStop(p) ==
    /\ command[p] # Gone /\ command[p].at = "asking" /\ Moves(p, "stopping")
    /\ UNCHANGED <<wall, records, fate>>

(* No plan in the answer, a program that does not build or is not admitted, *)
(* or a provider killed after its deadline: nothing was recorded.           *)
AgentGivesUp(p) ==
    /\ command[p] # Gone /\ command[p].at \in {"asking", "stopping"} /\ Exits(p)
    /\ UNCHANGED <<wall, records, fate>>

(* begin: the record is saved before the cell exists ... *)
Begin(p, name) ==
    /\ command[p] # Gone /\ command[p].at = "idle" /\ fate[name] = "unused"
    /\ LET r == [id |-> name, pid |-> p, started |-> wall, status |-> "running"] IN
       Saved(r) /\ command' = [command EXCEPT ![p].at = "begun", ![p].record = r]
    /\ fate' = [fate EXCEPT ![name] = "no cell"]
    /\ UNCHANGED wall

(* ... or could not be, and the command goes on without one ... *)
BeginUnsaved(p) ==
    /\ command[p] # Gone /\ command[p].at = "idle"
    /\ command' = [command EXCEPT ![p].at = "recorded", ![p].record = Unrecorded]
    /\ UNCHANGED <<wall, records, fate>>

(* Planted fault: the records are listed oldest first. *)
PruneNewest(p) ==
    /\ command[p] # Gone /\ command[p].at = "begun"
    /\ records' = {r \in records : Cardinality({q \in records : Newer(r, q)}) < Keep}
    /\ Moves(p, "recorded")
    /\ UNCHANGED <<wall, fate>>

(* ... then the oldest past KEEP are dropped, live or not. *)
Prune(p) ==
    /\ command[p] # Gone /\ command[p].at = "begun"
    /\ records' = {r \in records : Rank(r, records) < Keep}
    /\ Moves(p, "recorded")
    /\ UNCHANGED <<wall, fate>>

(* run_spec resolves the tools with `?` and stops a dry run there: nothing  *)
(* closes the record.  The other commands hold their cell already.          *)
LeaveUnsealed(p) ==
    /\ command[p] # Gone /\ command[p].at = "recorded" /\ command[p].kind \in {"run", "dry run"}
    /\ Exits(p)
    /\ UNCHANGED <<wall, records, fate>>

(* The cell is booted, sealed and run. *)
Seal(p) ==
    /\ command[p] # Gone /\ command[p].at = "recorded" /\ command[p].kind # "dry run"
    /\ Moves(p, "running") /\ Ended(p, "running")
    /\ UNCHANGED <<wall, records>>

(* The cell is over: it ended well, it failed, or, in an agent's cell, the  *)
(* pilot refused the program and there is no output.                        *)
CellOver(p) ==
    /\ command[p] # Gone /\ command[p].at = "running"
    /\ \E how \in {"dissolved", "failed"} \cup (IF command[p].kind = "agent" THEN {"refused"} ELSE {}) :
          Ended(p, how) /\ Moves(p, how)
    /\ UNCHANGED <<wall, records>>

(* Planted fault: a failure to produce output is not passed to finish. *)
CloseWithoutError(p) ==
    /\ command[p] # Gone /\ command[p].at \in {"dissolved", "failed", "refused"}
    /\ IF command[p].record = Unrecorded THEN UNCHANGED records
       ELSE Saved([command[p].record EXCEPT !.status = "dissolved"])
    /\ Completes(p)
    /\ UNCHANGED <<wall, fate>>

(* finish, refuse: the record is rewritten, in its file or, when that was   *)
(* pruned, in a new one; a failure to save is dropped.                      *)
Close(p) ==
    /\ command[p] # Gone /\ command[p].at \in {"dissolved", "failed", "refused"}
    /\ \/ command[p].record # Unrecorded /\ Saved([command[p].record EXCEPT !.status = command[p].at])
       \/ UNCHANGED records
    /\ Completes(p)
    /\ UNCHANGED <<wall, fate>>

(* A process is killed at any point; its cell dies with it. *)
Killed(p) ==
    /\ command[p] # Gone /\ Exits(p)
    /\ IF command[p].at \in {"begun", "recorded", "running", "dissolved", "failed", "refused"}
       THEN Ended(p, "killed") ELSE UNCHANGED fate
    /\ UNCHANGED <<wall, records>>

WallTicks ==
    /\ wall < MaxWall /\ wall' = wall + 1
    /\ UNCHANGED <<records, command, fate>>

RegistryNext ==
    \/ \E p \in Pids :
          \/ \E kind \in Kinds : StartCommand(p, kind)
          \/ \E name \in CellNames : Begin(p, name)
          \/ BeginUnsaved(p) \/ Close(p)
          \/ Answered(p) \/ AskedToStop(p) \/ AgentGivesUp(p) \/ Prune(p)
          \/ LeaveUnsealed(p) \/ Seal(p) \/ CellOver(p) \/ Killed(p)
    \/ WallTicks

RegistrySpec == RegistryInit /\ [][RegistryNext]_registryVars

-----------------------------------------------------------------------------
Running(p) == command[p] # Gone /\ command[p].at = "running" /\ command[p].record # Unrecorded

(* A cell that runs and could be recorded is in the report of the live      *)
(* cells, and keeps its node from offering memory, unless KEEP cells were   *)
(* started after it.  A record that says how its cell ended says the truth. *)
(* Over commands that are killed, prune for each other or fail to save      *)
(* (cells::begin, finish, prune, report, NodeEligibility::from_probe).      *)
CellsListed ==
    /\ \A p \in Pids : Running(p) =>
          \/ /\ ~MemoryOffered
             /\ command[p].record \in Reported([all |-> FALSE, limit |-> Keep])
          \/ Rank(command[p].record, records) >= Keep
    /\ \A r \in records : r.status # "running" => fate[r.id] = r.status
===============================================================================
