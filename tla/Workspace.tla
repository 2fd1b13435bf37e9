------------------------------- MODULE Workspace -------------------------------
(***************************************************************************)
(* The run data of one parent (celln-store workspace.rs) and the grants of *)
(* its turns (workspace_broker.rs).                                        *)
(*                                                                         *)
(* The store outlives the turns.  Each turn is lent a grant that ends with *)
(* its lease, with the owner, or with its control, and that pays for every *)
(* request, refused ones included.  A response may be lost with the tool   *)
(* process that asked; the tool may then repeat its request, naming the    *)
(* revision it knew.                                                       *)
(***************************************************************************)
EXTENDS Integers, FiniteSets

CONSTANTS
    Names,          \* artifact names
    Sizes,          \* lengths of written content
    MaxFiles, FileBytes, TotalBytes,  \* Limits
    MaxOperations,  \* Authority.remaining at the start of a turn
    WorkTurns       \* turns the owner may begin

ASSUME WorkspaceAssumption ==
    /\ Sizes \subseteq Nat
    /\ {MaxFiles, FileBytes, TotalBytes, MaxOperations} \subseteq Nat \ {0}

VARIABLES
    files,     \* Workspace.artifacts: the length of each artifact
    bytes,     \* Workspace.bytes
    revision,  \* Workspace.revision
    begun,     \* Owner.claimed
    grant,     \* the Authority of the current turn
    known,     \* the revision the guest believes in
    intent     \* the change it is making, and how often it took effect

workVars == <<files, bytes, revision, begun, grant, known, intent>>

NoIntent == [op |-> "none", name |-> "none", size |-> 0, from |-> 0, applied |-> 0]
Operations == {"write", "append", "delete"}

Intents == [op : Operations, name : Names, size : Nat, from : Nat, applied : Nat]

(* That bytes is never negative is a part of WorkspaceSound. *)
WorkTypeOK ==
    /\ DOMAIN files \subseteq Names /\ files \in [DOMAIN files -> Nat]
    /\ bytes \in Int /\ revision \in Nat /\ known \in Nat
    /\ begun \subseteq WorkTurns
    /\ grant \in [active : BOOLEAN, live : BOOLEAN, remaining : 0..MaxOperations]
    /\ intent \in Intents \cup {NoIntent}

WorkInit ==
    /\ files = [f \in {} |-> 0] /\ bytes = 0 /\ revision = 0
    /\ begun = {} /\ known = 0 /\ intent = NoIntent
    /\ grant = [active |-> FALSE, live |-> FALSE, remaining |-> 0]

-----------------------------------------------------------------------------
(* Workspace: an operation gives the new files, bytes and revision, or the  *)
(* unchanged ones when it is refused.                                       *)

Data == [files |-> files, bytes |-> bytes, revision |-> revision]

LengthOf(f) == IF f \in DOMAIN files THEN files[f] ELSE 0

(* Mutant: a replacement does not give back what it replaces. *)
NewBytesKept(f, size) == bytes + size

NewBytes(f, size) == bytes - LengthOf(f) + size

WriteFits(f, size) ==
    /\ size =< FileBytes /\ NewBytes(f, size) =< TotalBytes
    /\ f \in DOMAIN files \/ Cardinality(DOMAIN files) < MaxFiles

WriteData(f, size) ==
    IF ~WriteFits(f, size) THEN Data
    ELSE [files |-> [g \in DOMAIN files \cup {f} |-> IF g = f THEN size ELSE files[g]],
          bytes |-> NewBytes(f, size), revision |-> revision + 1]

DeleteData(f) ==
    IF f \notin DOMAIN files THEN Data
    ELSE [files |-> [g \in DOMAIN files \ {f} |-> files[g]],
          bytes |-> bytes - files[f], revision |-> revision + 1]

(* Mutant: the revision is not compared. *)
AppliesAny(i) ==
    CASE i.op = "write" -> WriteData(i.name, i.size)
      [] i.op = "append" -> WriteData(i.name, LengthOf(i.name) + i.size)
      [] i.op = "delete" -> DeleteData(i.name)

(* write, append and delete: only against the revision the caller names. *)
Applies(i) ==
    IF i.from # revision THEN Data
    ELSE CASE i.op = "write" -> WriteData(i.name, i.size)
           [] i.op = "append" -> WriteData(i.name, LengthOf(i.name) + i.size)
           [] i.op = "delete" -> DeleteData(i.name)

-----------------------------------------------------------------------------
(* Owner::begin: once per turn, and never beside another active grant. *)
BeginWork(t) ==
    /\ t \notin begun /\ ~grant.active
    /\ begun' = begun \cup {t}
    /\ grant' = [active |-> TRUE, live |-> TRUE, remaining |-> MaxOperations]
    /\ known' = 0 /\ intent' = NoIntent
    /\ UNCHANGED <<files, bytes, revision>>

(* The lease or the owner is dropped. *)
DropLease ==
    /\ grant.active
    /\ grant' = [grant EXCEPT !.active = FALSE]
    /\ UNCHANGED <<files, bytes, revision, begun, known, intent>>

(* The control of the turn, or of the operation, has a reason. *)
ControlEnds ==
    /\ grant.live
    /\ grant' = [grant EXCEPT !.live = FALSE]
    /\ UNCHANGED <<files, bytes, revision, begun, known, intent>>

(* Grant::request: control, lease and budget first, and then it is paid. *)
Granted ==
    /\ grant.live /\ grant.active /\ grant.remaining > 0
    /\ grant' = [grant EXCEPT !.remaining = @ - 1]

(* Malformed, an operation the grant does not name, or a bad name. *)
RequestDenied ==
    /\ Granted
    /\ UNCHANGED <<files, bytes, revision, begun, known, intent>>

(* read, list and search tell the guest the revision. *)
ReadData ==
    /\ Granted
    /\ known' = revision /\ intent' = NoIntent
    /\ UNCHANGED <<files, bytes, revision, begun>>

(* A change, new or repeated; the response arrives or is lost. *)
Change(i) ==
    LET data == Applies(i)
        changed == data.revision # revision
    IN  /\ Granted
        /\ files' = data.files /\ bytes' = data.bytes /\ revision' = data.revision
        /\ UNCHANGED begun
        /\ \/ /\ known' = IF changed THEN data.revision ELSE known
              /\ intent' = NoIntent
           \/ /\ intent' = [i EXCEPT !.applied = @ + (IF changed THEN 1 ELSE 0)]
              /\ UNCHANGED known

NewChange ==
    /\ intent = NoIntent
    /\ \E op \in Operations, f \in Names, size \in Sizes :
          Change([op |-> op, name |-> f, size |-> IF op = "delete" THEN 0 ELSE size,
                  from |-> known, applied |-> 0])

RepeatChange == intent # NoIntent /\ Change(intent)

WorkNext ==
    \/ \E t \in WorkTurns : BeginWork(t)
    \/ DropLease \/ ControlEnds \/ RequestDenied \/ ReadData \/ NewChange \/ RepeatChange

WorkSpec == WorkInit /\ [][WorkNext]_workVars

-----------------------------------------------------------------------------
(* The length of all artifacts together. *)
Stored(fs) ==
    LET sum[S \in SUBSET DOMAIN fs] ==
            IF S = {} THEN 0
            ELSE LET f == CHOOSE f \in S : TRUE IN fs[f] + sum[S \ {f}]
    IN  sum[DOMAIN fs]

(* The quota's counter is exact after every mix of writes, replacements,    *)
(* appends and deletions of several turns, no bytes are lost to the quota   *)
(* and none escape it, and the limits of the workspace are kept, of each    *)
(* artifact, of their number and of their bytes.  And "a lost reply cannot  *)
(* silently repeat a write against a changed workspace": a change takes     *)
(* effect at most once however often it is repeated, an append included,    *)
(* and one that took effect names a revision that is gone.                  *)
WorkspaceSound ==
    /\ bytes = Stored(files)
    /\ bytes =< TotalBytes /\ Cardinality(DOMAIN files) =< MaxFiles
    /\ \A f \in DOMAIN files : files[f] =< FileBytes
    /\ intent.applied =< 1 /\ (intent.applied = 1 => intent.from < revision)
================================================================================
