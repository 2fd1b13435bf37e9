--------------------------------- MODULE Assay ---------------------------------
(***************************************************************************)
(* The attested tools of one host: the content-addressed store             *)
(* (celln-store), the manifest (celln-manifest), the operations of the     *)
(* assayer (celln-assay, celln-forge) and the commands that use them: the  *)
(* assay command, `celln run` (run.rs) and the dispatcher's forge and      *)
(* launch (dispatch.rs).                                                   *)
(*                                                                         *)
(* Every command is a process that reads the whole manifest when it opens  *)
(* the assayer, edits its copy and writes the whole file back, with no     *)
(* lock and no rename.  A write truncates first, and a file that does not  *)
(* parse is read as an empty manifest.  An object is written to a          *)
(* temporary name that every writer of the same content shares.            *)
(***************************************************************************)
EXTENDS Integers, FiniteSets

CONSTANTS Processes,
          Contents,   \* contents, ordered like their hashes
          Aliases,
          MaxCommands \* bound: commands of one behaviour

ASSUME AssayAssumption == Contents \subseteq Nat /\ MaxCommands \in Nat

VARIABLES
    object,    \* the object of each content: "absent", "part" of it, "whole"
    temp,      \* its temporary file
    shared,    \* history: contents that two processes wrote at a time
    written,   \* manifest.json: a manifest, or Torn
    proc,      \* each process: its command and where it is in it
    mine,      \* its copy of the manifest
    fd,        \* the file it is writing an object through
    barred,    \* the contents of `revokes` when it began
    cell,      \* the content its cell was permitted to run, and the lane
    revokes,   \* contents whose revocation was written and has returned
    commands   \* commands begun

assayVars == <<object, temp, shared, written, proc, mine, fd, barred, cell, revokes, commands>>

Tiers == {"Forged", "Verified", "Unsealed"}
Entries == [alias : Aliases, tier : Tiers, interpreter : BOOLEAN, author : {"Host", "Agent"}]
Unlisted == [alias |-> "none"]
Manifests == [entries : [Contents -> Entries \cup {Unlisted}], revoked : SUBSET Contents]
NewManifest == [entries |-> [c \in Contents |-> Unlisted], revoked |-> {}]
Torn == [entries |-> <<>>]

(* What a command asks for; a cell's input may be written by the agent.     *)
Commands ==
    {k \in [op : {"admit", "unsealed", "forge", "resolve", "launch", "revoke"},
            content : Contents, alias : Aliases, interpreter : BOOLEAN,
            author : {"Host", "Agent"}, tainted : BOOLEAN] :
        /\ k.interpreter => k.op \in {"admit", "unsealed", "forge", "resolve"}
        /\ k.author = "Agent" => k.op \in {"admit", "forge"}
        /\ k.tainted => k.op \in {"resolve", "launch"}}
Idle == [at |-> "idle"]
Working == [at : {"open", "put", "write", "rename", "edit", "persist", "flush", "seal"},
            command : Commands]
At(p, place) == proc[p].at = place
Cmd(p) == proc[p].command
NoCell == [content |-> 0, lane |-> "none"]

AssayTypeOK ==
    /\ object \in [Contents -> {"absent", "part", "whole"}]
    /\ temp \in [Contents -> {"absent", "part", "whole"}]
    /\ shared \subseteq Contents
    /\ written \in Manifests \cup {Torn}
    /\ proc \in [Processes -> Working \cup {Idle}]
    /\ mine \in [Processes -> Manifests]
    /\ fd \in [Processes -> {"none", "temp", "object", "orphan"}]
    /\ barred \in [Processes -> SUBSET Contents] /\ revokes \subseteq Contents
    /\ cell \in [Processes -> [content : Contents, lane : {"tool", "agent"}] \cup {NoCell}]
    /\ commands \in 0..MaxCommands

AssayInit ==
    /\ object = [c \in Contents |-> "absent"] /\ temp = [c \in Contents |-> "absent"]
    /\ shared = {} /\ written = NewManifest
    /\ proc = [p \in Processes |-> Idle] /\ mine = [p \in Processes |-> NewManifest]
    /\ fd = [p \in Processes |-> "none"]
    /\ barred = [p \in Processes |-> {}] /\ cell = [p \in Processes |-> NoCell]
    /\ revokes = {} /\ commands = 0

-----------------------------------------------------------------------------
(* Manifest. *)

Lists(m, c) == m.entries[c] # Unlisted

AdmitEntry(m, c, entry) == [m EXCEPT !.entries[c] = entry]

RevokeEntry(m, c) == [m EXCEPT !.revoked = @ \cup {c}]

(* Of several entries with the alias, the one with the smallest hash. *)
ResolveAlias(m, alias) ==
    LET live == {c \in Contents : m.entries[c].alias = alias /\ c \notin m.revoked}
    IN  IF live = {} THEN {} ELSE {CHOOSE c \in live : \A d \in live : c =< d}

PermitExec(m, c) == c \notin m.revoked /\ Lists(m, c)

(* The laundering ban. *)
ResolveExecLane(entry, tainted) ==
    IF entry.author = "Agent" \/ (entry.interpreter /\ tainted) \/ entry.tier = "Unsealed"
    THEN "agent" ELSE "tool"

-----------------------------------------------------------------------------
(* A process moves on, ends, or dies. *)

Goto(p, place) == proc' = [proc EXCEPT ![p].at = place]

Ends(p) == proc' = [proc EXCEPT ![p] = Idle] /\ fd' = [fd EXCEPT ![p] = "none"]

Begin(p, command) ==
    /\ At(p, "idle") /\ commands < MaxCommands
    /\ commands' = commands + 1
    /\ proc' = [proc EXCEPT ![p] = [at |-> "open", command |-> command]]
    /\ barred' = [barred EXCEPT ![p] = revokes]
    /\ cell' = [cell EXCEPT ![p] = NoCell]
    /\ UNCHANGED <<object, temp, shared, written, mine, fd, revokes>>

(* Killed anywhere: the files stay as they are. *)
Killed(p) ==
    /\ ~At(p, "idle") /\ Ends(p)
    /\ UNCHANGED <<object, temp, shared, written, mine, barred, cell, revokes, commands>>

(* resolve: a warm hit is a hit on the content of the entry the alias finds, *)
(* and an interpreter stays one.                                             *)
WarmHit(m, command) ==
    \E c \in ResolveAlias(m, command.alias) :
        c = command.content /\ (command.interpreter => m.entries[c].interpreter)

(* Assayer::open, and the branches before anything is written. *)
Open(p) ==
    LET m == IF written = Torn THEN NewManifest ELSE written
    IN  /\ At(p, "open")
        /\ mine' = [mine EXCEPT ![p] = m]
        /\ Goto(p, CASE Cmd(p).op = "revoke" -> "edit"
                     [] Cmd(p).op = "resolve" /\ WarmHit(m, Cmd(p)) -> "seal"
                     [] Cmd(p).op = "launch" /\ Lists(m, Cmd(p).content) -> "seal"
                     [] OTHER -> "put")
        /\ UNCHANGED <<object, temp, shared, written, fd, barred, cell, revokes, commands>>

-----------------------------------------------------------------------------
(* Store::put. *)

(* Already present: nothing is written, whatever the object holds. *)
PutDedup(p) ==
    /\ At(p, "put") /\ object[Cmd(p).content] # "absent"
    /\ Goto(p, "edit")
    /\ UNCHANGED <<object, temp, shared, written, mine, fd, barred, cell, revokes, commands>>

(* Storing c: between the creation of the temporary file and its rename. *)
Storing(p, c) == (At(p, "write") \/ At(p, "rename")) /\ Cmd(p).content = c

(* fs::write opens and truncates the temporary file. *)
PutOpen(p) ==
    LET c == Cmd(p).content
    IN  /\ At(p, "put") /\ object[c] = "absent"
        /\ temp' = [temp EXCEPT ![c] = "part"]
        /\ shared' = IF \E q \in Processes : Storing(q, c) THEN shared \cup {c} ELSE shared
        /\ fd' = [fd EXCEPT ![p] = "temp"]
        /\ Goto(p, "write")
        /\ UNCHANGED <<object, written, mine, barred, cell, revokes, commands>>

(* The bytes go to the open file, wherever its name has gone. *)
PutWrite(p) ==
    /\ At(p, "write")
    /\ temp' = IF fd[p] = "temp" THEN [temp EXCEPT ![Cmd(p).content] = "whole"] ELSE temp
    /\ object' = IF fd[p] = "object" THEN [object EXCEPT ![Cmd(p).content] = "whole"] ELSE object
    /\ fd' = [fd EXCEPT ![p] = "none"]
    /\ Goto(p, "rename")
    /\ UNCHANGED <<shared, written, mine, barred, cell, revokes, commands>>

(* Open files of the same content follow the renamed one. *)
PutRename(p) ==
    LET c == Cmd(p).content
    IN  /\ At(p, "rename") /\ temp[c] # "absent"
        /\ object' = [object EXCEPT ![c] = temp[c]]
        /\ temp' = [temp EXCEPT ![c] = "absent"]
        /\ fd' = [q \in Processes |->
                    IF At(q, "write") /\ Cmd(q).content = c
                    THEN CASE fd[q] = "temp" -> "object" [] OTHER -> "orphan"
                    ELSE fd[q]]
        /\ Goto(p, "edit")
        /\ UNCHANGED <<shared, written, mine, barred, cell, revokes, commands>>

(* Mutant: an error of put does not end the command. *)
PutFailsQuietly(p) ==
    /\ At(p, "put") \/ At(p, "write") \/ (At(p, "rename") /\ temp[Cmd(p).content] = "absent")
    /\ Goto(p, "edit")
    /\ UNCHANGED <<object, temp, shared, written, mine, fd, barred, cell, revokes, commands>>

(* Another writer renamed the shared file away, or the disk is full. *)
PutFails(p) ==
    /\ At(p, "put") \/ At(p, "write") \/ (At(p, "rename") /\ temp[Cmd(p).content] = "absent")
    /\ Ends(p)
    /\ UNCHANGED <<object, temp, shared, written, mine, barred, cell, revokes, commands>>

-----------------------------------------------------------------------------
(* The assayer edits its copy of the manifest. *)

(* admit_forged_authored: Forged is earned by a reproduced build.  Only     *)
(* admit and forge name an author; every other command admits as the host.  *)
EntryOf(m, command, reproduced) ==
    [alias |-> command.alias,
     tier |-> CASE command.op = "unsealed" -> "Unsealed"
                [] command.op = "forge" /\ reproduced -> "Forged"
                [] OTHER -> "Verified",
     interpreter |-> CASE command.op = "resolve" ->
                             \/ command.interpreter
                             \/ command.content \in ResolveAlias(m, command.alias)
                                /\ m.entries[command.content].interpreter
                       [] OTHER -> command.interpreter,
     author |-> command.author]

Edit(p) ==
    /\ At(p, "edit")
    /\ \E reproduced \in BOOLEAN :
          mine' = [mine EXCEPT ![p] =
                     IF Cmd(p).op = "revoke" THEN RevokeEntry(@, Cmd(p).content)
                     ELSE AdmitEntry(@, Cmd(p).content, EntryOf(@, Cmd(p), reproduced))]
    /\ Goto(p, "persist")
    /\ UNCHANGED <<object, temp, shared, written, fd, barred, cell, revokes, commands>>

(* persist is over; its error is ignored. *)
Persisted(p) ==
    IF Cmd(p).op \in {"resolve", "launch"} THEN Goto(p, "seal") /\ UNCHANGED fd ELSE Ends(p)

(* fs::write cannot open the file, or opens and truncates it. *)
PersistFails(p) ==
    /\ At(p, "persist")
    /\ Persisted(p)
    /\ UNCHANGED <<object, temp, shared, written, mine, barred, cell, revokes, commands>>

PersistTruncates(p) ==
    /\ At(p, "persist")
    /\ written' = Torn
    /\ Goto(p, "flush")
    /\ UNCHANGED <<object, temp, shared, mine, fd, barred, cell, revokes, commands>>

(* The whole manifest, unless the disk is full or a longer one that another *)
(* process wrote since the file was opened sticks out behind it.            *)
PersistWrites(p) ==
    /\ At(p, "flush")
    /\ written' \in {mine[p], Torn}
    /\ revokes' = IF Cmd(p).op = "revoke" /\ written' # Torn THEN revokes \cup {Cmd(p).content} ELSE revokes
    /\ Persisted(p)
    /\ UNCHANGED <<object, temp, shared, mine, barred, cell, commands>>

-----------------------------------------------------------------------------
(* A cell: the initramfs takes manifest.json as it is now, and pilot        *)
(* applies the gate and the lane to the bytes it finds (run.rs, launch).    *)
Seal(p) ==
    LET c == Cmd(p).content
    IN  /\ At(p, "seal")
        /\ cell' = IF written # Torn /\ PermitExec(written, c)
                   THEN [cell EXCEPT ![p] = [content |-> c,
                            lane |-> ResolveExecLane(written.entries[c], Cmd(p).tainted)]]
                   ELSE cell
        /\ Ends(p)
        /\ UNCHANGED <<object, temp, shared, written, mine, barred, revokes, commands>>

AssayNext ==
    \E p \in Processes :
        \/ \E command \in Commands : Begin(p, command)
        \/ Killed(p) \/ Open(p) \/ PutDedup(p) \/ PutOpen(p) \/ PutWrite(p) \/ PutRename(p)
        \/ PutFails(p) \/ Edit(p) \/ PersistFails(p) \/ PersistTruncates(p) \/ PersistWrites(p) \/ Seal(p)

AssaySpec == AssayInit /\ [][AssayNext]_assayVars

-----------------------------------------------------------------------------
(* An entry is never ahead of its object: put comes before admit in every   *)
(* command, so whatever interleaving, lost update, failed write or crash    *)
(* produced the manifest file, each content it lists has its object in the  *)
(* store, and the whole of it unless two processes wrote it at a time.      *)
EntryStored ==
    written # Torn => \A c \in Contents :
        Lists(written, c) => object[c] = "whole" \/ (object[c] = "part" /\ c \in shared)

(* Store::put: "a reader never sees a half-written object".                 *)
NeverHalfWritten == \A c \in Contents : object[c] # "part"

(* "Revoke a hash fleet-wide" (Assayer::revoke), "the revoked tool will not *)
(* run in any cell" (pilot): a command that begins after a revocation was   *)
(* written and has returned never gets a cell for the revoked bytes.        *)
RevokedNeverRuns == \A p \in Processes : cell[p].content \notin barred[p]
================================================================================
