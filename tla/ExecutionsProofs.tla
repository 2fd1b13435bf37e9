--------------------------- MODULE ExecutionsProofs ---------------------------
(***************************************************************************)
(* Proofs about Executions, for any set of ids and requests, any sizes and *)
(* any capacities.                                                         *)
(*                                                                         *)
(* What a client may rely on is decided by the journal, and the journal by *)
(* what a power loss may leave of it: the parts of the invariant speak of  *)
(* every record the disk may come back with, not of the one it holds.      *)
(***************************************************************************)
EXTENDS Executions, FiniteSetTheorems, TLAPS

(* A worker's thread is the worker of an active entry, and an entry was     *)
(* acknowledged under its own bytes.                                        *)
Owned ==
    /\ \A i \in Ids : worker[i] # "none" => Active(i)
    /\ \A i \in Ids : Present(i) => acked[i] = registry[i].request
    /\ \A i \in Ids : worker[i] = "returned" => outcome[i] # "none"

(* What the disk may hold after a power loss: the visible record, an        *)
(* admission of the acknowledged bytes once there was a 202, and no verdict *)
(* while the execution is active or before it was ever acknowledged.        *)
Stored ==
    /\ \A i \in Ids : disk[i] \in maybe[i]
    /\ \A i \in Ids : acked[i] # None => \A v \in maybe[i] : v # Absent /\ v.request = acked[i]
    /\ \A i \in Ids : acked[i] = None => \A v \in maybe[i] : v = Absent \/ v.phase = "Admitting"
    /\ \A i \in Ids : Active(i) => \A v \in maybe[i] : v # Absent /\ v.phase = "Admitting"

(* The cells launched for an id. *)
Launched ==
    \A i \in Ids :
        /\ ran[i] \in {0, 1}
        /\ acked[i] = None => ran[i] = 0
        /\ worker[i] \in {"starting", "preparing"} => ran[i] = 0

(* What was reported is on the disk, whatever the disk may lose. *)
Reported ==
    \A i \in Ids : \A p \in told[i] : \A v \in maybe[i] : v # Absent /\ v.phase = p

(* A cancelled control decides the verdict. *)
Cancelled ==
    \A i \in cancels :
        /\ acked[i] # None
        /\ Present(i) => registry[i].stop = "cancelled"
        /\ Finished(i) => registry[i].phase = "Cancelled"
        /\ \A v \in maybe[i] : v # Absent /\ v.phase \in {"Admitting", "Cancelled"}

ExecutionInv == TypeOK /\ Owned /\ Stored /\ Launched /\ Reported /\ Cancelled

(* An entry has a phase, an absent record has none. *)
LEMMA EntryShape ==
    /\ NoEntry \notin Entry
    /\ Absent \notin Snapshot
    /\ \A q \in Requests : NewEntry(q) \in Entry /\ Claim(q) \in Snapshot
    /\ \A q \in Requests, p \in Phases : [request |-> q, phase |-> p] \in Snapshot
  <1>1. NoEntry \notin Entry /\ Absent \notin Snapshot
    BY ExecutionAssumption DEF NoEntry, Entry, Absent, Snapshot
  <1>2. \A q \in Requests : NewEntry(q) \in Entry /\ Claim(q) \in Snapshot
    BY DEF NewEntry, Claim, Entry, Snapshot, Phases, Stops
  <1>3. \A q \in Requests, p \in Phases : [request |-> q, phase |-> p] \in Snapshot
    BY DEF Snapshot
  <1>4. QED
    BY <1>1, <1>2, <1>3

(* What journal::complete leaves of the records. *)
LEMMA CompleteEffect ==
    ASSUME TypeOK, NEW i \in Ids, disk[i] \in Snapshot, \A j \in Ids : disk[j] \in maybe[j],
           NEW e \in Entry, NEW ok \in BOOLEAN, Complete(i, e, ok)
    PROVE  /\ disk' \in [Ids -> Snapshot \cup {Absent}]
           /\ maybe' \in [Ids -> SUBSET (Snapshot \cup {Absent})]
           /\ \A j \in Ids : disk'[j] \in maybe'[j]
           /\ \A j \in Ids : j # i => maybe'[j] \subseteq maybe[j]
           /\ \A v \in maybe'[i] :
                v \in maybe[i] \/ /\ disk[i].phase \notin Terminal
                                  /\ v = [request |-> disk[i].request, phase |-> e.phase]
           /\ ok => maybe'[i] = {[request |-> disk[i].request, phase |-> e.phase]}
  <1> DEFINE snapshot == [request |-> disk[i].request, phase |-> e.phase]
  <1>1. snapshot \in Snapshot
    BY DEF Snapshot, Entry
  <1>2. disk \in [Ids -> Snapshot \cup {Absent}] /\ maybe \in [Ids -> SUBSET (Snapshot \cup {Absent})]
    BY DEF TypeOK
  <1>3. \/ disk' = disk
        \/ disk' = [disk EXCEPT ![i] = snapshot] /\ disk[i].phase \notin Terminal
    BY DEF Complete, journal
  <1>4. \/ maybe' = [j \in Ids |-> {disk'[j]}]
        \/ maybe' = [j \in Ids |-> {disk[j], disk'[j]}]
        \/ maybe' = maybe /\ disk' = disk
    BY DEF Complete, Synced, Unsynced
  <1>5. ok => disk'[i] = snapshot /\ maybe' = [j \in Ids |-> {disk'[j]}]
    BY <1>2 DEF Complete, Synced
  <1> HIDE DEF snapshot
  <1>6. /\ disk' \in [Ids -> Snapshot \cup {Absent}]
        /\ \A j \in Ids : j # i => disk'[j] = disk[j]
        /\ \/ disk'[i] = disk[i]
           \/ disk'[i] = snapshot /\ disk[i].phase \notin Terminal
    BY <1>1, <1>2, <1>3
  <1>7. QED
    BY <1>2, <1>4, <1>5, <1>6 DEF snapshot

(* The disjuncts of the next-state relation, gathered: the steps that end a  *)
(* worker, those of the node's other tenants and of a client that reads, and *)
(* those of a new process.                                                   *)
EndsWorker(i) ==
    /\ worker[i] # "none"
    /\ \E phase \in {"Succeeded", "Failed", "Refused"} : Ends(i, phase)

TenantStep ==
    /\ UNCHANGED <<registry, worker, outcome, journal, history>>
    /\ prewarm' \in Requests \cup {None} /\ parents' \subseteq Owners

NewStart ==
    /\ \A i \in Ids : disk'[i] \in maybe[i]
    /\ disk' \in [Ids -> Snapshot \cup {Absent}]
    /\ NewProcess

(* A step of the dispatcher is one of these, grouped by what they change.   *)
LEMMA ExecutionCases ==
    ASSUME ExecutionInv, [Next]_vars
    PROVE  \/ \E i \in Ids : Begins(i)
           \/ \E i \in Ids : EndsWorker(i)
           \/ \E i \in Ids : Launch(i)
           \/ \E i \in Ids, r \in {"Succeeded", "Failed"} : CellEnds(i, r)
           \/ \E i \in Ids : Prepares(i)
           \/ \E i \in Ids, q \in Requests : Admit(i, q)
           \/ \E i \in Ids, q \in Requests : ClaimFails(i, q)
           \/ \E i \in Ids, q \in Requests : Refuse(i, q)
           \/ \E i \in Ids : AnswerEntry(i)
           \/ \E i \in Ids : AnswerArchived(i)
           \/ \E i \in Ids : Repeat(i)
           \/ \E i \in Ids : Cancel(i)
           \/ \E i \in Ids : DeadlinePasses(i)
           \/ \E i \in Ids : Ages(i)
           \/ TenantStep
           \/ NewStart
           \/ UNCHANGED vars
  <1>1. ASSUME NEW i \in Ids, NeverBegins(i) \/ RefusesInputs(i) \/ Breaks(i) \/ Reports(i)
        PROVE  EndsWorker(i)
    <2>1. CASE NeverBegins(i) \/ RefusesInputs(i) \/ Breaks(i)
      BY <2>1 DEF NeverBegins, RefusesInputs, Breaks, EndsWorker
    <2>2. CASE Reports(i)
      <3>1. worker[i] = "returned" /\ Ends(i, outcome[i])
        BY <2>2 DEF Reports
      <3>2. outcome[i] \in {"Succeeded", "Failed"}
        BY <3>1 DEF ExecutionInv, TypeOK, Owned
      <3>3. QED
        BY <3>1, <3>2 DEF EndsWorker
    <2>3. QED
      BY <1>1, <2>1, <2>2
  <1>2. ASSUME \/ (\E q \in Requests : PrewarmBegins(q)) \/ PrewarmEnds
               \/ (\E o \in Owners : ParentAdmitted(o) \/ ParentJoined(o)) \/ ReplyTaken
        PROVE  TenantStep
    BY <1>2 DEF PrewarmBegins, PrewarmEnds, ParentAdmitted, ParentJoined, ReplyTaken, TenantStep,
                ExecutionInv, TypeOK
  <1>3. ASSUME Restart \/ PowerLoss
        PROVE  NewStart
    <2>1. CASE Restart
      BY <2>1 DEF Restart, NewStart, ExecutionInv, TypeOK, Stored
    <2>2. CASE PowerLoss
      BY <2>2 DEF PowerLoss, NewStart, ExecutionInv, TypeOK
    <2>3. QED
      BY <1>3, <2>1, <2>2
  <1>4. QED
    BY <1>1, <1>2, <1>3 DEF Next, WorkerStep, ClientStep

(* What update_execution settles on, and what it leaves of the records. *)
LEMMA EndsEffect ==
    ASSUME ExecutionInv, NEW i \in Ids, EndsWorker(i)
    PROVE  /\ worker' = [worker EXCEPT ![i] = "none"]
           /\ outcome' = [outcome EXCEPT ![i] = "none"]
           /\ registry' \in [Ids -> Entry \cup {NoEntry}]
           /\ \A j \in Ids : j # i => registry'[j] = registry[j]
           /\ Active(i) /\ registry'[i] \in Entry
           /\ registry'[i].request = registry[i].request /\ registry'[i].stop = registry[i].stop
           /\ registry'[i].phase \in Terminal
           /\ registry[i].stop = "cancelled" => registry'[i].phase = "Cancelled"
           /\ disk' \in [Ids -> Snapshot \cup {Absent}]
           /\ maybe' \in [Ids -> SUBSET (Snapshot \cup {Absent})]
           /\ \A j \in Ids : disk'[j] \in maybe'[j]
           /\ \A j \in Ids : j # i => maybe'[j] \subseteq maybe[j]
           /\ \A v \in maybe'[i] :
                v \in maybe[i] \/ v = [request |-> disk[i].request, phase |-> registry'[i].phase]
           /\ UNCHANGED <<prewarm, parents, acked, told, cancels, ran>>
  <1>1. PICK phase \in {"Succeeded", "Failed", "Refused"} : Ends(i, phase)
    BY DEF EndsWorker
  <1>2. Active(i) /\ registry[i] \in Entry
    BY DEF EndsWorker, ExecutionInv, Owned, TypeOK, Active, Present
  <1>3. disk[i] \in Snapshot
    BY <1>2 DEF ExecutionInv, Stored, TypeOK
  <1> DEFINE e == [registry[i] EXCEPT !.phase = Settled(i, phase), !.old = FALSE]
  <1>4. /\ Settled(i, phase) \in Terminal
        /\ registry[i].stop = "cancelled" => Settled(i, phase) = "Cancelled"
    BY DEF Settled, Terminal
  <1>5. /\ e \in Entry /\ e.phase = Settled(i, phase)
        /\ e.request = registry[i].request /\ e.stop = registry[i].stop
    BY <1>2, <1>4 DEF Entry, Phases
  <1> HIDE DEF e
  <1>6. registry' = [registry EXCEPT ![i] = e] /\ \E ok \in BOOLEAN : Complete(i, e, ok)
    BY <1>1 DEF Ends, e
  <1>7. TypeOK /\ \A j \in Ids : disk[j] \in maybe[j]
    BY DEF ExecutionInv, Stored
  <1>8. PICK ok \in BOOLEAN : Complete(i, e, ok)
    BY <1>6
  <1>9. registry \in [Ids -> Entry \cup {NoEntry}]
    BY <1>7 DEF TypeOK
  <1>10. /\ registry' \in [Ids -> Entry \cup {NoEntry}] /\ registry'[i] = e
         /\ \A j \in Ids : j # i => registry'[j] = registry[j]
    BY <1>5, <1>6, <1>9
  <1>11. /\ disk' \in [Ids -> Snapshot \cup {Absent}]
         /\ maybe' \in [Ids -> SUBSET (Snapshot \cup {Absent})]
         /\ \A j \in Ids : disk'[j] \in maybe'[j]
         /\ \A j \in Ids : j # i => maybe'[j] \subseteq maybe[j]
         /\ \A v \in maybe'[i] :
              v \in maybe[i] \/ v = [request |-> disk[i].request, phase |-> e.phase]
    BY <1>3, <1>5, <1>7, <1>8, CompleteEffect
  <1>12. /\ worker' = [worker EXCEPT ![i] = "none"] /\ outcome' = [outcome EXCEPT ![i] = "none"]
         /\ UNCHANGED <<prewarm, parents, acked, told, cancels, ran>>
    BY <1>1 DEF Ends, history
  <1>13. QED
    BY <1>2, <1>4, <1>5, <1>10, <1>11, <1>12

(* The entry of i goes to a phase and a stop reason and keeps its request. *)
Updated(i, phase, stop) ==
    /\ registry' \in [Ids -> Entry \cup {NoEntry}]
    /\ \A j \in Ids : j # i => registry'[j] = registry[j]
    /\ registry[i] \in Entry /\ registry'[i] \in Entry
    /\ registry'[i].request = registry[i].request
    /\ registry'[i].phase = phase /\ registry'[i].stop = stop

(* The handlers and timers that touch one entry. *)
LEMMA UpdateEffect ==
    ASSUME ExecutionInv, NEW i \in Ids
    PROVE  /\ Begins(i) \/ Prepares(i) =>
                \E p \in {"Working", "Cancelling"} : Updated(i, p, registry[i].stop)
           /\ Cancel(i) /\ registry[i].stop = "none" => Updated(i, "Cancelling", "cancelled")
           /\ Cancel(i) /\ registry[i].stop # "none" => Updated(i, "Cancelling", registry[i].stop)
           /\ DeadlinePasses(i) => Updated(i, registry[i].phase, "deadline")
           /\ Ages(i) => Updated(i, registry[i].phase, registry[i].stop)
  <1>1. registry \in [Ids -> Entry \cup {NoEntry}]
    BY DEF ExecutionInv, TypeOK
  <1>2. ASSUME registry[i] \in Entry, NEW p \in Phases, NEW s \in Stops, NEW o \in BOOLEAN
        PROVE  LET e == [registry[i] EXCEPT !.phase = p, !.stop = s, !.old = o]
               IN  /\ e \in Entry /\ e.request = registry[i].request
                   /\ e.phase = p /\ e.stop = s /\ e.old = o
    BY <1>2 DEF Entry
  <1>3. ASSUME Present(i) PROVE registry[i] \in Entry
    BY <1>1, <1>3 DEF Present
  <1>4. ASSUME Begins(i) \/ Prepares(i)
        PROVE  \E p \in {"Working", "Cancelling"} : Updated(i, p, registry[i].stop)
    <2>1. registry[i] \in Entry /\ Progresses(i)
      BY <1>3, <1>4 DEF ExecutionInv, Owned, Active, Begins, Prepares
    <2> DEFINE p == IF registry[i].stop = "cancelled" THEN "Cancelling" ELSE "Working"
    <2>2. registry' = [registry EXCEPT ![i].phase = p]
      BY <2>1 DEF Progresses
    <2>3. p \in {"Working", "Cancelling"}
      OBVIOUS
    <2> HIDE DEF p
    <2>4. Updated(i, p, registry[i].stop)
      BY <1>1, <2>1, <2>2, <2>3 DEF Updated, Entry, Phases
    <2>5. QED
      BY <2>3, <2>4
  <1>5. ASSUME Cancel(i)
        PROVE  /\ registry[i].stop = "none" => Updated(i, "Cancelling", "cancelled")
               /\ registry[i].stop # "none" => Updated(i, "Cancelling", registry[i].stop)
    <2>1. registry[i] \in Entry
      BY <1>3, <1>5 DEF Cancel, Active
    <2>2. CASE registry[i].stop = "none"
      <3>1. registry' = [registry EXCEPT ![i].phase = "Cancelling", ![i].stop = "cancelled"]
        BY <1>1, <1>5, <2>2 DEF Cancel
      <3>2. QED
        BY <1>1, <2>1, <2>2, <3>1 DEF Updated, Entry, Phases, Stops
    <2>3. CASE registry[i].stop # "none"
      <3>1. registry' = [registry EXCEPT ![i].phase = "Cancelling", ![i].stop = registry[i].stop]
        BY <1>1, <1>5, <2>3, <2>1 DEF Cancel, Entry
      <3>2. QED
        BY <1>1, <2>1, <2>3, <3>1 DEF Updated, Entry, Phases, Stops
    <2>4. QED
      BY <2>2, <2>3
  <1>6. ASSUME DeadlinePasses(i) PROVE Updated(i, registry[i].phase, "deadline")
    <2>1. registry[i] \in Entry
      BY <1>3, <1>6 DEF DeadlinePasses, Active
    <2>2. registry' = [registry EXCEPT ![i].stop = "deadline"]
      BY <1>6 DEF DeadlinePasses
    <2>3. QED
      BY <1>1, <2>1, <2>2 DEF Updated, Entry, Stops
  <1>7. ASSUME Ages(i) PROVE Updated(i, registry[i].phase, registry[i].stop)
    <2>1. registry[i] \in Entry
      BY <1>3, <1>7 DEF Ages, Finished
    <2>2. registry' = [registry EXCEPT ![i].old = TRUE]
      BY <1>7 DEF Ages
    <2>3. QED
      BY <1>1, <2>1, <2>2 DEF Updated, Entry
  <1>8. QED
    BY <1>4, <1>5, <1>6, <1>7

(* Eviction forgets finished entries only. *)
Evicts == \A j \in Ids : registry'[j] = registry[j] \/ (Finished(j) /\ registry'[j] = NoEntry)

(* A submission drops finished entries only, and enters its own if accepted.*)
LEMMA EvictionEffect ==
    ASSUME ExecutionInv, NEW i \in Ids, NEW q \in Requests
    PROVE  /\ ClaimFails(i, q) \/ Refuse(i, q) =>
                registry' \in [Ids -> Entry \cup {NoEntry}] /\ Evicts
           /\ Admit(i, q) =>
                /\ registry' \in [Ids -> Entry \cup {NoEntry}]
                /\ registry'[i] = NewEntry(q)
                /\ \A j \in Ids : j # i =>
                     registry'[j] = registry[j] \/ (Finished(j) /\ registry'[j] = NoEntry)
  <1>1. registry \in [Ids -> Entry \cup {NoEntry}]
    BY DEF ExecutionInv, TypeOK
  <1>2. ASSUME NEW gone \in SUBSET Evictable
        PROVE  /\ Evicted(gone) \in [Ids -> Entry \cup {NoEntry}]
               /\ \A j \in Ids : \/ Evicted(gone)[j] = registry[j]
                                 \/ Finished(j) /\ Evicted(gone)[j] = NoEntry
    BY <1>1 DEF Evicted, Evictable
  <1>3. ASSUME ClaimFails(i, q) \/ Refuse(i, q)
        PROVE  registry' \in [Ids -> Entry \cup {NoEntry}] /\ Evicts
    BY <1>2, <1>3 DEF ClaimFails, Refuse, Evicts
  <1>4. ASSUME Admit(i, q)
        PROVE  /\ registry' \in [Ids -> Entry \cup {NoEntry}]
               /\ registry'[i] = NewEntry(q)
               /\ \A j \in Ids : j # i =>
                    registry'[j] = registry[j] \/ (Finished(j) /\ registry'[j] = NoEntry)
    <2>1. PICK gone \in SUBSET Evictable : registry' = [Evicted(gone) EXCEPT ![i] = NewEntry(q)]
      BY <1>4 DEF Admit
    <2>2. NewEntry(q) \in Entry
      BY EntryShape
    <2>3. QED
      BY <1>2, <2>1, <2>2
  <1>5. QED
    BY <1>3, <1>4

(* A journal operation other than a publication can only settle what the    *)
(* disk holds.                                                              *)
Settles ==
    /\ disk' = disk
    /\ maybe' \in [Ids -> SUBSET (Snapshot \cup {Absent})]
    /\ \A j \in Ids : disk[j] \in maybe'[j] /\ maybe'[j] \subseteq maybe[j]

(* An admission publishes a claim, synced or not. *)
Publishes(i, q) ==
    /\ disk[i] = Absent
    /\ disk' = [disk EXCEPT ![i] = Claim(q)]
    /\ maybe' \in [Ids -> SUBSET (Snapshot \cup {Absent})]
    /\ \A j \in Ids : disk'[j] \in maybe'[j]
    /\ \A j \in Ids : j # i => maybe'[j] \subseteq maybe[j]
    /\ maybe'[i] \subseteq {Absent, Claim(q)}

(* What a submission does to the journal: a sync, or the claim of its id.   *)
LEMMA JournalEffect ==
    ASSUME ExecutionInv, NEW i \in Ids
    PROVE  /\ AnswerArchived(i) \/ Repeat(i) => Settles
           /\ \A q \in Requests : Refuse(i, q) => Settles
           /\ \A q \in Requests : ClaimFails(i, q) => Settles \/ Publishes(i, q)
           /\ \A q \in Requests : Admit(i, q) => Publishes(i, q) /\ maybe'[i] = {Claim(q)}
  <1>1. /\ disk \in [Ids -> Snapshot \cup {Absent}]
        /\ maybe \in [Ids -> SUBSET (Snapshot \cup {Absent})]
        /\ \A j \in Ids : disk[j] \in maybe[j]
    BY DEF ExecutionInv, TypeOK, Stored
  <1>2. \A q \in Requests : Claim(q) \in Snapshot
    BY EntryShape
  <1>3. ASSUME disk' = disk, Synced \/ UNCHANGED maybe
        PROVE  Settles
    BY <1>1, <1>3 DEF Synced, Settles
  <1>4. ASSUME NEW q \in Requests, disk[i] = Absent, disk' = [disk EXCEPT ![i] = Claim(q)],
               Synced \/ Unsynced
        PROVE  Publishes(i, q)
    BY <1>1, <1>2, <1>4 DEF Synced, Unsynced, Publishes
  <1>5. ASSUME AnswerArchived(i) \/ Repeat(i) PROVE Settles
    BY <1>3, <1>5 DEF AnswerArchived, Repeat
  <1>6. ASSUME NEW q \in Requests, Refuse(i, q) PROVE Settles
    BY <1>3, <1>6 DEF Refuse
  <1>7. ASSUME NEW q \in Requests, ClaimFails(i, q) PROVE Settles \/ Publishes(i, q)
    BY <1>3, <1>4, <1>7 DEF ClaimFails
  <1>8. ASSUME NEW q \in Requests, Admit(i, q)
        PROVE  Publishes(i, q) /\ maybe'[i] = {Claim(q)}
    <2>1. disk[i] = Absent /\ disk' = [disk EXCEPT ![i] = Claim(q)] /\ Synced
      BY <1>8 DEF Admit
    <2>2. QED
      BY <1>1, <1>2, <1>4, <2>1 DEF Synced
  <1>9. QED
    BY <1>5, <1>6, <1>7, <1>8

(* A terminal entry is answered once its record is on the disk. *)
LEMMA AnswerEffect ==
    ASSUME ExecutionInv, NEW i \in Ids, AnswerEntry(i)
    PROVE  /\ Finished(i) /\ registry[i] \in Entry
           /\ disk' \in [Ids -> Snapshot \cup {Absent}]
           /\ maybe' \in [Ids -> SUBSET (Snapshot \cup {Absent})]
           /\ \A j \in Ids : disk'[j] \in maybe'[j]
           /\ \A j \in Ids : j # i => maybe'[j] \subseteq maybe[j]
           /\ disk[i] # Absent
           /\ \A v \in maybe'[i] :
                v \in maybe[i] \/ /\ disk[i].phase \notin Terminal
                                  /\ v = [request |-> disk[i].request, phase |-> registry[i].phase]
           /\ \/ told' = told
              \/ /\ told' = [told EXCEPT ![i] = @ \cup {registry[i].phase}]
                 /\ maybe'[i] = {[request |-> disk[i].request, phase |-> registry[i].phase]}
           /\ UNCHANGED <<registry, worker, outcome, prewarm, parents, acked, cancels, ran>>
  <1>1. Finished(i) /\ registry[i] \in Entry
    BY DEF AnswerEntry, Finished, Present, ExecutionInv, TypeOK
  <1>2. acked[i] # None
    BY <1>1, ExecutionAssumption DEF ExecutionInv, Owned, Finished, Entry
  <1>3. disk[i] \in Snapshot /\ disk[i] # Absent
    BY <1>2 DEF ExecutionInv, Stored, TypeOK
  <1>4. TypeOK /\ \A j \in Ids : disk[j] \in maybe[j]
    BY DEF ExecutionInv, Stored
  <1>5. PICK ok \in BOOLEAN : /\ Complete(i, registry[i], ok)
                              /\ ok \/ told' = told
                              /\ ok => told' = [told EXCEPT ![i] = @ \cup {registry[i].phase}]
    BY DEF AnswerEntry
  <1>6. UNCHANGED <<registry, worker, outcome, prewarm, parents, acked, cancels, ran>>
    BY DEF AnswerEntry
  <1>7. QED
    BY <1>1, <1>3, <1>4, <1>5, <1>6, CompleteEffect

(* Workers belong to active entries, entries to the bytes acknowledged. *)
LEMMA OwnedStep ==
    ASSUME ExecutionInv, [Next]_vars
    PROVE  Owned'
  <1> USE EntryShape DEF ExecutionInv, Active, Present, Finished, journal, history
  <1>r. /\ registry \in [Ids -> Entry \cup {NoEntry}]
        /\ worker \in [Ids -> {"none", "starting", "preparing", "cell", "returned"}]
    BY DEF TypeOK
  <1>d. /\ disk \in [Ids -> Snapshot \cup {Absent}]
        /\ maybe \in [Ids -> SUBSET (Snapshot \cup {Absent})]
        /\ told \in [Ids -> SUBSET Terminal] /\ acked \in [Ids -> Requests \cup {None}]
    BY DEF TypeOK
  <1> USE DEF Owned
  <1>1. ASSUME NEW i \in Ids, Begins(i)
        PROVE  Owned'
    <2>1. PICK p \in {"Working", "Cancelling"} : Updated(i, p, registry[i].stop)
      BY <1>1, UpdateEffect
    <2>2. worker[i] = "starting" /\ worker' = [worker EXCEPT ![i] = "preparing"] /\ Active(i) /\ p \notin Terminal
      BY <1>1 DEF Begins, Owned, Terminal
    <2>3. UNCHANGED <<outcome, disk, maybe, acked, told, cancels, ran>>
      BY <1>1 DEF Begins
    <2>4. QED
      BY <1>r, <1>d, <2>1, <2>2, <2>3 DEF Updated
  <1>2. ASSUME NEW i \in Ids, EndsWorker(i)
        PROVE  Owned'
    BY <1>2, <1>r, EndsEffect DEF TypeOK
  <1>3. ASSUME NEW i \in Ids, Launch(i)
        PROVE  Owned'
    BY <1>3, <1>r DEF Launch
  <1>4. ASSUME NEW i \in Ids, NEW r \in {"Succeeded", "Failed"}, CellEnds(i, r)
        PROVE  Owned'
    BY <1>4, <1>r DEF CellEnds, TypeOK
  <1>5. ASSUME NEW i \in Ids, Prepares(i)
        PROVE  Owned'
    <2>1. PICK p \in {"Working", "Cancelling"} : Updated(i, p, registry[i].stop)
      BY <1>5, UpdateEffect
    <2>2. worker[i] = "preparing" /\ worker' = worker /\ Active(i) /\ p \notin Terminal
      BY <1>5 DEF Prepares, Owned, Terminal
    <2>3. UNCHANGED <<outcome, disk, maybe, acked, told, cancels, ran>>
      BY <1>5 DEF Prepares
    <2>4. QED
      BY <1>r, <1>d, <2>1, <2>2, <2>3 DEF Updated
  <1>6. ASSUME NEW i \in Ids, NEW q \in Requests, Admit(i, q)
        PROVE  Owned'
    <2>1. acked[i] = None
      BY <1>6 DEF Admit, Stored
    <2>2. acked'[i] = q /\ \A j \in Ids : j # i => acked'[j] = acked[j]
      BY <1>6, <1>d, <2>1 DEF Admit
    <2>3. NewEntry(q).request = q /\ NewEntry(q).phase \notin Terminal
      BY DEF NewEntry, Terminal
    <2>4. worker' = [worker EXCEPT ![i] = "starting"] /\ outcome' = outcome
      BY <1>6 DEF Admit
    <2>5. QED
      BY <1>6, <1>r, <2>2, <2>3, <2>4, EvictionEffect
  <1>7. ASSUME NEW i \in Ids, NEW q \in Requests, ClaimFails(i, q)
        PROVE  Owned'
    BY <1>7, <1>r, EvictionEffect DEF ClaimFails, Evicts
  <1>8. ASSUME NEW i \in Ids, NEW q \in Requests, Refuse(i, q)
        PROVE  Owned'
    BY <1>8, <1>r, EvictionEffect DEF Refuse, Evicts
  <1>9. ASSUME NEW i \in Ids, AnswerEntry(i)
        PROVE  Owned'
    BY <1>9, AnswerEffect
  <1>10. ASSUME NEW i \in Ids, AnswerArchived(i)
        PROVE  Owned'
    BY <1>10, <1>r DEF AnswerArchived
  <1>11. ASSUME NEW i \in Ids, Repeat(i)
        PROVE  Owned'
    BY <1>11, <1>r DEF Repeat
  <1>12. ASSUME NEW i \in Ids, Cancel(i)
        PROVE  Owned'
    <2>1. \E s \in {"cancelled", registry[i].stop} : Updated(i, "Cancelling", s)
      BY <1>12, UpdateEffect
    <2>2. Active(i) /\ UNCHANGED <<worker, outcome, disk, maybe, acked, told, ran>>
      BY <1>12 DEF Cancel
    <2>3. QED
      BY <1>r, <1>d, <2>1, <2>2 DEF Updated, Terminal
  <1>13. ASSUME NEW i \in Ids, DeadlinePasses(i)
        PROVE  Owned'
    <2>1. Updated(i, registry[i].phase, "deadline")
      BY <1>13, UpdateEffect
    <2>2. Active(i) /\ registry[i].stop = "none" /\ worker' = worker
      BY <1>13 DEF DeadlinePasses
    <2>3. UNCHANGED <<outcome, disk, maybe, acked, told, cancels, ran>>
      BY <1>13 DEF DeadlinePasses
    <2>4. QED
      BY <1>r, <1>d, <2>1, <2>2, <2>3 DEF Updated, Terminal
  <1>14. ASSUME NEW i \in Ids, Ages(i)
        PROVE  Owned'
    <2>1. Updated(i, registry[i].phase, registry[i].stop)
      BY <1>14, UpdateEffect
    <2>2. Finished(i) /\ worker' = worker
      BY <1>14 DEF Ages
    <2>3. UNCHANGED <<outcome, disk, maybe, acked, told, cancels, ran>>
      BY <1>14 DEF Ages
    <2>4. QED
      BY <1>r, <1>d, <2>1, <2>2, <2>3 DEF Updated, Terminal
  <1>15. CASE TenantStep
    BY <1>15, <1>r DEF TenantStep
  <1>16. CASE NewStart
    BY <1>16 DEF NewStart, NewProcess
  <1>17. CASE UNCHANGED vars
    BY <1>17, <1>r DEF vars, journal, history
  <1>18. QED
    BY ExecutionCases, <1>1, <1>2, <1>3, <1>4, <1>5, <1>6, <1>7, <1>8, <1>9,
       <1>10, <1>11, <1>12, <1>13, <1>14, <1>15, <1>16, <1>17

(* Records hold what the client was answered. *)
LEMMA StoredStep ==
    ASSUME ExecutionInv, [Next]_vars
    PROVE  Stored'
  <1> USE EntryShape DEF ExecutionInv, Active, Present, Finished, journal, history
  <1>r. /\ registry \in [Ids -> Entry \cup {NoEntry}]
        /\ worker \in [Ids -> {"none", "starting", "preparing", "cell", "returned"}]
    BY DEF TypeOK
  <1>d. /\ disk \in [Ids -> Snapshot \cup {Absent}]
        /\ maybe \in [Ids -> SUBSET (Snapshot \cup {Absent})]
        /\ told \in [Ids -> SUBSET Terminal] /\ acked \in [Ids -> Requests \cup {None}]
    BY DEF TypeOK
  <1> USE DEF Stored
  <1>1. ASSUME NEW i \in Ids, Begins(i)
        PROVE  Stored'
    <2>1. PICK p \in {"Working", "Cancelling"} : Updated(i, p, registry[i].stop)
      BY <1>1, UpdateEffect
    <2>2. worker[i] = "starting" /\ worker' = [worker EXCEPT ![i] = "preparing"] /\ Active(i) /\ p \notin Terminal
      BY <1>1 DEF Begins, Owned, Terminal
    <2>3. UNCHANGED <<outcome, disk, maybe, acked, told, cancels, ran>>
      BY <1>1 DEF Begins
    <2>4. QED
      BY <1>r, <1>d, <2>1, <2>2, <2>3 DEF Updated
  <1>2. ASSUME NEW i \in Ids, EndsWorker(i)
        PROVE  Stored'
    <2>1. acked[i] # None
      BY <1>2, EndsEffect, ExecutionAssumption DEF Owned, Entry, TypeOK
    <2>2. disk[i] \in Snapshot /\ disk[i].request = acked[i]
      BY <1>d, <2>1
    <2>3. [request |-> disk[i].request, phase |-> registry'[i].phase] \in Snapshot
      BY <1>2, <2>2, EndsEffect DEF Snapshot, Entry
    <2>4. QED
      BY <1>2, <1>r, <2>1, <2>2, <2>3, EndsEffect
  <1>3. ASSUME NEW i \in Ids, Launch(i)
        PROVE  Stored'
    BY <1>3 DEF Launch
  <1>4. ASSUME NEW i \in Ids, NEW r \in {"Succeeded", "Failed"}, CellEnds(i, r)
        PROVE  Stored'
    BY <1>4 DEF CellEnds
  <1>5. ASSUME NEW i \in Ids, Prepares(i)
        PROVE  Stored'
    <2>1. PICK p \in {"Working", "Cancelling"} : Updated(i, p, registry[i].stop)
      BY <1>5, UpdateEffect
    <2>2. worker[i] = "preparing" /\ worker' = worker /\ Active(i) /\ p \notin Terminal
      BY <1>5 DEF Prepares, Owned, Terminal
    <2>3. UNCHANGED <<outcome, disk, maybe, acked, told, cancels, ran>>
      BY <1>5 DEF Prepares
    <2>4. QED
      BY <1>r, <1>d, <2>1, <2>2, <2>3 DEF Updated
  <1>6. ASSUME NEW i \in Ids, NEW q \in Requests, Admit(i, q)
        PROVE  Stored'
    <2>1. acked[i] = None
      BY <1>6 DEF Admit, Stored
    <2>2. acked'[i] = q /\ \A j \in Ids : j # i => acked'[j] = acked[j]
      BY <1>6, <1>d, <2>1 DEF Admit
    <2>3. UNCHANGED <<told, cancels, ran>>
      BY <1>6 DEF Admit
    <2>4. Publishes(i, q) /\ maybe'[i] = {Claim(q)}
      BY <1>6, JournalEffect
    <2>5. Claim(q).request = q /\ Claim(q).phase = "Admitting" /\ Claim(q) # Absent
      BY EntryShape DEF Claim
    <2>6. QED
      BY <1>6, <1>r, <1>d, <2>1, <2>2, <2>3, <2>4, <2>5, EvictionEffect DEF Publishes
  <1>7. ASSUME NEW i \in Ids, NEW q \in Requests, ClaimFails(i, q)
        PROVE  Stored'
    <2>1. acked[i] = None /\ ~Present(i)
      BY <1>7 DEF ClaimFails, Stored
    <2>2. UNCHANGED <<worker, acked, told, cancels, ran>>
      BY <1>7 DEF ClaimFails
    <2>3. Evicts
      BY <1>7, EvictionEffect
    <2>4. CASE Settles
      BY <1>r, <2>2, <2>3, <2>4 DEF Settles, Evicts
    <2>5. CASE Publishes(i, q)
      <3>1. Claim(q).phase = "Admitting"
        BY DEF Claim
      <3>2. QED
        BY <1>r, <2>1, <2>2, <2>3, <2>5, <3>1 DEF Publishes, Evicts
    <2>6. QED
      BY <1>7, <2>4, <2>5, JournalEffect
  <1>8. ASSUME NEW i \in Ids, NEW q \in Requests, Refuse(i, q)
        PROVE  Stored'
    <2>1. Evicts /\ Settles
      BY <1>8, EvictionEffect, JournalEffect
    <2>2. UNCHANGED <<worker, acked, told, cancels, ran>>
      BY <1>8 DEF Refuse
    <2>3. QED
      BY <1>r, <2>1, <2>2 DEF Evicts, Settles
  <1>9. ASSUME NEW i \in Ids, AnswerEntry(i)
        PROVE  Stored'
    <2>1. acked[i] # None
      BY <1>9, AnswerEffect, ExecutionAssumption DEF Owned, Entry
    <2>2. disk[i] \in Snapshot /\ disk[i].request = acked[i]
      BY <1>d, <2>1
    <2>3. [request |-> disk[i].request, phase |-> registry[i].phase] \in Snapshot
      BY <1>9, <2>2, AnswerEffect DEF Snapshot, Entry
    <2>4. QED
      BY <1>9, <1>r, <2>1, <2>2, <2>3, AnswerEffect
  <1>10. ASSUME NEW i \in Ids, AnswerArchived(i)
        PROVE  Stored'
    BY <1>10, <1>r, JournalEffect DEF AnswerArchived, Settles
  <1>11. ASSUME NEW i \in Ids, Repeat(i)
        PROVE  Stored'
    BY <1>11, <1>r, JournalEffect DEF Repeat, Settles
  <1>12. ASSUME NEW i \in Ids, Cancel(i)
        PROVE  Stored'
    <2>1. \E s \in {"cancelled", registry[i].stop} : Updated(i, "Cancelling", s)
      BY <1>12, UpdateEffect
    <2>2. Active(i) /\ UNCHANGED <<worker, outcome, disk, maybe, acked, told, ran>>
      BY <1>12 DEF Cancel
    <2>3. QED
      BY <1>r, <1>d, <2>1, <2>2 DEF Updated, Terminal
  <1>13. ASSUME NEW i \in Ids, DeadlinePasses(i)
        PROVE  Stored'
    <2>1. Updated(i, registry[i].phase, "deadline")
      BY <1>13, UpdateEffect
    <2>2. Active(i) /\ registry[i].stop = "none" /\ worker' = worker
      BY <1>13 DEF DeadlinePasses
    <2>3. UNCHANGED <<outcome, disk, maybe, acked, told, cancels, ran>>
      BY <1>13 DEF DeadlinePasses
    <2>4. QED
      BY <1>r, <1>d, <2>1, <2>2, <2>3 DEF Updated, Terminal
  <1>14. ASSUME NEW i \in Ids, Ages(i)
        PROVE  Stored'
    <2>1. Updated(i, registry[i].phase, registry[i].stop)
      BY <1>14, UpdateEffect
    <2>2. Finished(i) /\ worker' = worker
      BY <1>14 DEF Ages
    <2>3. UNCHANGED <<outcome, disk, maybe, acked, told, cancels, ran>>
      BY <1>14 DEF Ages
    <2>4. QED
      BY <1>r, <1>d, <2>1, <2>2, <2>3 DEF Updated, Terminal
  <1>15. CASE TenantStep
    BY <1>15, <1>r DEF TenantStep
  <1>16. CASE NewStart
    BY <1>16 DEF NewStart, NewProcess, Synced
  <1>17. CASE UNCHANGED vars
    BY <1>17, <1>r DEF vars, journal, history
  <1>18. QED
    BY ExecutionCases, <1>1, <1>2, <1>3, <1>4, <1>5, <1>6, <1>7, <1>8, <1>9,
       <1>10, <1>11, <1>12, <1>13, <1>14, <1>15, <1>16, <1>17

(* No id is launched twice. *)
LEMMA LaunchedStep ==
    ASSUME ExecutionInv, [Next]_vars
    PROVE  Launched'
  <1> USE EntryShape DEF ExecutionInv, Active, Present, Finished, journal, history
  <1>r. /\ registry \in [Ids -> Entry \cup {NoEntry}]
        /\ worker \in [Ids -> {"none", "starting", "preparing", "cell", "returned"}]
    BY DEF TypeOK
  <1>d. /\ disk \in [Ids -> Snapshot \cup {Absent}]
        /\ maybe \in [Ids -> SUBSET (Snapshot \cup {Absent})]
        /\ told \in [Ids -> SUBSET Terminal] /\ acked \in [Ids -> Requests \cup {None}]
    BY DEF TypeOK
  <1> USE DEF Launched
  <1>1. ASSUME NEW i \in Ids, Begins(i)
        PROVE  Launched'
    <2>1. PICK p \in {"Working", "Cancelling"} : Updated(i, p, registry[i].stop)
      BY <1>1, UpdateEffect
    <2>2. worker[i] = "starting" /\ worker' = [worker EXCEPT ![i] = "preparing"] /\ Active(i) /\ p \notin Terminal
      BY <1>1 DEF Begins, Owned, Terminal
    <2>3. UNCHANGED <<outcome, disk, maybe, acked, told, cancels, ran>>
      BY <1>1 DEF Begins
    <2>4. QED
      BY <1>r, <1>d, <2>1, <2>2, <2>3 DEF Updated
  <1>2. ASSUME NEW i \in Ids, EndsWorker(i)
        PROVE  Launched'
    BY <1>2, <1>r, EndsEffect
  <1>3. ASSUME NEW i \in Ids, Launch(i)
        PROVE  Launched'
    <2>1. ran[i] = 0 /\ acked[i] # None
      BY <1>3, ExecutionAssumption DEF Launch, Owned, Entry, TypeOK
    <2>2. /\ ran' = [ran EXCEPT ![i] = ran[i] + 1] /\ worker' = [worker EXCEPT ![i] = "cell"]
          /\ acked' = acked
      BY <1>3 DEF Launch
    <2>3. ran \in [Ids -> Nat]
      BY DEF TypeOK
    <2>4. QED
      BY <1>r, <2>1, <2>2, <2>3
  <1>4. ASSUME NEW i \in Ids, NEW r \in {"Succeeded", "Failed"}, CellEnds(i, r)
        PROVE  Launched'
    BY <1>4, <1>r DEF CellEnds
  <1>5. ASSUME NEW i \in Ids, Prepares(i)
        PROVE  Launched'
    <2>1. PICK p \in {"Working", "Cancelling"} : Updated(i, p, registry[i].stop)
      BY <1>5, UpdateEffect
    <2>2. worker[i] = "preparing" /\ worker' = worker /\ Active(i) /\ p \notin Terminal
      BY <1>5 DEF Prepares, Owned, Terminal
    <2>3. UNCHANGED <<outcome, disk, maybe, acked, told, cancels, ran>>
      BY <1>5 DEF Prepares
    <2>4. QED
      BY <1>r, <1>d, <2>1, <2>2, <2>3 DEF Updated
  <1>6. ASSUME NEW i \in Ids, NEW q \in Requests, Admit(i, q)
        PROVE  Launched'
    <2>1. acked[i] = None
      BY <1>6 DEF Admit, Stored
    <2>2. acked'[i] = q /\ \A j \in Ids : j # i => acked'[j] = acked[j]
      BY <1>6, <1>d, <2>1 DEF Admit
    <2>3. worker' = [worker EXCEPT ![i] = "starting"] /\ ran' = ran
      BY <1>6 DEF Admit
    <2>4. QED
      BY <1>r, <2>1, <2>2, <2>3
  <1>7. ASSUME NEW i \in Ids, NEW q \in Requests, ClaimFails(i, q)
        PROVE  Launched'
    BY <1>7 DEF ClaimFails
  <1>8. ASSUME NEW i \in Ids, NEW q \in Requests, Refuse(i, q)
        PROVE  Launched'
    BY <1>8 DEF Refuse
  <1>9. ASSUME NEW i \in Ids, AnswerEntry(i)
        PROVE  Launched'
    BY <1>9, AnswerEffect
  <1>10. ASSUME NEW i \in Ids, AnswerArchived(i)
        PROVE  Launched'
    BY <1>10 DEF AnswerArchived
  <1>11. ASSUME NEW i \in Ids, Repeat(i)
        PROVE  Launched'
    BY <1>11 DEF Repeat
  <1>12. ASSUME NEW i \in Ids, Cancel(i)
        PROVE  Launched'
    <2>1. \E s \in {"cancelled", registry[i].stop} : Updated(i, "Cancelling", s)
      BY <1>12, UpdateEffect
    <2>2. Active(i) /\ UNCHANGED <<worker, outcome, disk, maybe, acked, told, ran>>
      BY <1>12 DEF Cancel
    <2>3. QED
      BY <1>r, <1>d, <2>1, <2>2 DEF Updated, Terminal
  <1>13. ASSUME NEW i \in Ids, DeadlinePasses(i)
        PROVE  Launched'
    <2>1. Updated(i, registry[i].phase, "deadline")
      BY <1>13, UpdateEffect
    <2>2. Active(i) /\ registry[i].stop = "none" /\ worker' = worker
      BY <1>13 DEF DeadlinePasses
    <2>3. UNCHANGED <<outcome, disk, maybe, acked, told, cancels, ran>>
      BY <1>13 DEF DeadlinePasses
    <2>4. QED
      BY <1>r, <1>d, <2>1, <2>2, <2>3 DEF Updated, Terminal
  <1>14. ASSUME NEW i \in Ids, Ages(i)
        PROVE  Launched'
    <2>1. Updated(i, registry[i].phase, registry[i].stop)
      BY <1>14, UpdateEffect
    <2>2. Finished(i) /\ worker' = worker
      BY <1>14 DEF Ages
    <2>3. UNCHANGED <<outcome, disk, maybe, acked, told, cancels, ran>>
      BY <1>14 DEF Ages
    <2>4. QED
      BY <1>r, <1>d, <2>1, <2>2, <2>3 DEF Updated, Terminal
  <1>15. CASE TenantStep
    BY <1>15, <1>r DEF TenantStep
  <1>16. CASE NewStart
    BY <1>16 DEF NewStart, NewProcess, Synced
  <1>17. CASE UNCHANGED vars
    BY <1>17, <1>r DEF vars, journal, history
  <1>18. QED
    BY ExecutionCases, <1>1, <1>2, <1>3, <1>4, <1>5, <1>6, <1>7, <1>8, <1>9,
       <1>10, <1>11, <1>12, <1>13, <1>14, <1>15, <1>16, <1>17

(* A reported verdict is the only one the disk may hold. *)
LEMMA ReportedStep ==
    ASSUME ExecutionInv, [Next]_vars
    PROVE  Reported'
  <1> USE EntryShape DEF ExecutionInv, Active, Present, Finished, journal, history
  <1>r. /\ registry \in [Ids -> Entry \cup {NoEntry}]
        /\ worker \in [Ids -> {"none", "starting", "preparing", "cell", "returned"}]
    BY DEF TypeOK
  <1>d. /\ disk \in [Ids -> Snapshot \cup {Absent}]
        /\ maybe \in [Ids -> SUBSET (Snapshot \cup {Absent})]
        /\ told \in [Ids -> SUBSET Terminal] /\ acked \in [Ids -> Requests \cup {None}]
    BY DEF TypeOK
  <1> USE DEF Reported
  <1>1. ASSUME NEW i \in Ids, Begins(i)
        PROVE  Reported'
    <2>1. PICK p \in {"Working", "Cancelling"} : Updated(i, p, registry[i].stop)
      BY <1>1, UpdateEffect
    <2>2. worker[i] = "starting" /\ worker' = [worker EXCEPT ![i] = "preparing"] /\ Active(i) /\ p \notin Terminal
      BY <1>1 DEF Begins, Owned, Terminal
    <2>3. UNCHANGED <<outcome, disk, maybe, acked, told, cancels, ran>>
      BY <1>1 DEF Begins
    <2>4. QED
      BY <1>r, <1>d, <2>1, <2>2, <2>3 DEF Updated
  <1>2. ASSUME NEW i \in Ids, EndsWorker(i)
        PROVE  Reported'
    <2>1. told[i] = {}
      BY <1>2, <1>d, EndsEffect DEF Stored, Terminal
    <2>2. QED
      BY <1>2, <2>1, EndsEffect
  <1>3. ASSUME NEW i \in Ids, Launch(i)
        PROVE  Reported'
    BY <1>3 DEF Launch
  <1>4. ASSUME NEW i \in Ids, NEW r \in {"Succeeded", "Failed"}, CellEnds(i, r)
        PROVE  Reported'
    BY <1>4 DEF CellEnds
  <1>5. ASSUME NEW i \in Ids, Prepares(i)
        PROVE  Reported'
    <2>1. PICK p \in {"Working", "Cancelling"} : Updated(i, p, registry[i].stop)
      BY <1>5, UpdateEffect
    <2>2. worker[i] = "preparing" /\ worker' = worker /\ Active(i) /\ p \notin Terminal
      BY <1>5 DEF Prepares, Owned, Terminal
    <2>3. UNCHANGED <<outcome, disk, maybe, acked, told, cancels, ran>>
      BY <1>5 DEF Prepares
    <2>4. QED
      BY <1>r, <1>d, <2>1, <2>2, <2>3 DEF Updated
  <1>6. ASSUME NEW i \in Ids, NEW q \in Requests, Admit(i, q)
        PROVE  Reported'
    <2>1. acked[i] = None
      BY <1>6 DEF Admit, Stored
    <2>2. acked'[i] = q /\ \A j \in Ids : j # i => acked'[j] = acked[j]
      BY <1>6, <1>d, <2>1 DEF Admit
    <2>3. UNCHANGED <<told, cancels, ran>>
      BY <1>6 DEF Admit
    <2>4. Publishes(i, q) /\ maybe'[i] = {Claim(q)}
      BY <1>6, JournalEffect
    <2>5. Claim(q).request = q /\ Claim(q).phase = "Admitting" /\ Claim(q) # Absent
      BY EntryShape DEF Claim
    <2>6. QED
      BY <1>6, <1>r, <1>d, <2>1, <2>2, <2>3, <2>4, <2>5, EvictionEffect DEF Publishes, Stored
  <1>7. ASSUME NEW i \in Ids, NEW q \in Requests, ClaimFails(i, q)
        PROVE  Reported'
    <2>1. acked[i] = None /\ ~Present(i)
      BY <1>7 DEF ClaimFails, Stored
    <2>2. UNCHANGED <<worker, acked, told, cancels, ran>>
      BY <1>7 DEF ClaimFails
    <2>3. Evicts
      BY <1>7, EvictionEffect
    <2>4. CASE Settles
      BY <1>r, <2>2, <2>3, <2>4 DEF Settles, Evicts, Stored
    <2>5. CASE Publishes(i, q)
      <3>1. Claim(q).phase = "Admitting"
        BY DEF Claim
      <3>2. QED
        BY <1>r, <2>1, <2>2, <2>3, <2>5, <3>1 DEF Publishes, Evicts, Stored
    <2>6. QED
      BY <1>7, <2>4, <2>5, JournalEffect
  <1>8. ASSUME NEW i \in Ids, NEW q \in Requests, Refuse(i, q)
        PROVE  Reported'
    <2>1. Evicts /\ Settles
      BY <1>8, EvictionEffect, JournalEffect
    <2>2. UNCHANGED <<worker, acked, told, cancels, ran>>
      BY <1>8 DEF Refuse
    <2>3. QED
      BY <1>r, <2>1, <2>2 DEF Evicts, Settles
  <1>9. ASSUME NEW i \in Ids, AnswerEntry(i)
        PROVE  Reported'
    <2>1. CASE told[i] = {}
      <3>1. [request |-> disk[i].request, phase |-> registry[i].phase] # Absent
        BY <1>9, <1>d, AnswerEffect DEF Snapshot, Entry
      <3>2. QED
        BY <1>9, <1>d, <2>1, <3>1, AnswerEffect
    <2>2. CASE told[i] # {}
      <3>1. disk[i].phase \in Terminal
        BY <1>d, <2>2 DEF Stored
      <3>2. maybe'[i] \subseteq maybe[i]
        BY <1>9, <3>1, AnswerEffect
      <3>3. [request |-> disk[i].request, phase |-> registry[i].phase].phase = registry[i].phase
        OBVIOUS
      <3>4. CASE told' = told
        BY <1>9, <3>2, <3>4, AnswerEffect
      <3>5. CASE told' # told
        BY <1>9, <1>d, <2>2, <3>2, <3>3, <3>5, AnswerEffect
      <3>6. QED
        BY <3>4, <3>5
    <2>3. QED
      BY <2>1, <2>2
  <1>10. ASSUME NEW i \in Ids, AnswerArchived(i)
        PROVE  Reported'
    <2>1. Settles /\ maybe'[i] = {disk[i]}
      BY <1>10, JournalEffect DEF AnswerArchived, Synced
    <2>2. CASE told' = told
      BY <2>1, <2>2 DEF Settles
    <2>3. CASE told' # told
      <3>1. told' = [told EXCEPT ![i] = @ \cup {disk[i].phase}] /\ disk[i] # Absent
        BY <1>10, <2>3 DEF AnswerArchived, Archived
      <3>2. QED
        BY <1>d, <2>1, <3>1 DEF Settles, Stored
    <2>4. QED
      BY <2>2, <2>3
  <1>11. ASSUME NEW i \in Ids, Repeat(i)
        PROVE  Reported'
    BY <1>11, <1>r, JournalEffect DEF Repeat, Settles
  <1>12. ASSUME NEW i \in Ids, Cancel(i)
        PROVE  Reported'
    <2>1. \E s \in {"cancelled", registry[i].stop} : Updated(i, "Cancelling", s)
      BY <1>12, UpdateEffect
    <2>2. Active(i) /\ UNCHANGED <<worker, outcome, disk, maybe, acked, told, ran>>
      BY <1>12 DEF Cancel
    <2>3. QED
      BY <1>r, <1>d, <2>1, <2>2 DEF Updated, Terminal
  <1>13. ASSUME NEW i \in Ids, DeadlinePasses(i)
        PROVE  Reported'
    <2>1. Updated(i, registry[i].phase, "deadline")
      BY <1>13, UpdateEffect
    <2>2. Active(i) /\ registry[i].stop = "none" /\ worker' = worker
      BY <1>13 DEF DeadlinePasses
    <2>3. UNCHANGED <<outcome, disk, maybe, acked, told, cancels, ran>>
      BY <1>13 DEF DeadlinePasses
    <2>4. QED
      BY <1>r, <1>d, <2>1, <2>2, <2>3 DEF Updated, Terminal
  <1>14. ASSUME NEW i \in Ids, Ages(i)
        PROVE  Reported'
    <2>1. Updated(i, registry[i].phase, registry[i].stop)
      BY <1>14, UpdateEffect
    <2>2. Finished(i) /\ worker' = worker
      BY <1>14 DEF Ages
    <2>3. UNCHANGED <<outcome, disk, maybe, acked, told, cancels, ran>>
      BY <1>14 DEF Ages
    <2>4. QED
      BY <1>r, <1>d, <2>1, <2>2, <2>3 DEF Updated, Terminal
  <1>15. CASE TenantStep
    BY <1>15, <1>r DEF TenantStep
  <1>16. CASE NewStart
    BY <1>16 DEF NewStart, NewProcess, Synced
  <1>17. CASE UNCHANGED vars
    BY <1>17, <1>r DEF vars, journal, history
  <1>18. QED
    BY ExecutionCases, <1>1, <1>2, <1>3, <1>4, <1>5, <1>6, <1>7, <1>8, <1>9,
       <1>10, <1>11, <1>12, <1>13, <1>14, <1>15, <1>16, <1>17

(* A cancellation decides the verdict. *)
LEMMA CancelledStep ==
    ASSUME ExecutionInv, [Next]_vars
    PROVE  Cancelled'
  <1> USE EntryShape DEF ExecutionInv, Active, Present, Finished, journal, history
  <1>r. /\ registry \in [Ids -> Entry \cup {NoEntry}]
        /\ worker \in [Ids -> {"none", "starting", "preparing", "cell", "returned"}]
    BY DEF TypeOK
  <1>d. /\ disk \in [Ids -> Snapshot \cup {Absent}]
        /\ maybe \in [Ids -> SUBSET (Snapshot \cup {Absent})]
        /\ told \in [Ids -> SUBSET Terminal] /\ acked \in [Ids -> Requests \cup {None}]
    BY DEF TypeOK
  <1> USE DEF Cancelled
  <1>c. cancels \subseteq Ids
    BY DEF TypeOK
  <1>1. ASSUME NEW i \in Ids, Begins(i)
        PROVE  Cancelled'
    <2>1. PICK p \in {"Working", "Cancelling"} : Updated(i, p, registry[i].stop)
      BY <1>1, UpdateEffect
    <2>2. worker[i] = "starting" /\ worker' = [worker EXCEPT ![i] = "preparing"] /\ Active(i) /\ p \notin Terminal
      BY <1>1 DEF Begins, Owned, Terminal
    <2>3. UNCHANGED <<outcome, disk, maybe, acked, told, cancels, ran>>
      BY <1>1 DEF Begins
    <2>4. QED
      BY <1>r, <1>c, <1>d, <2>1, <2>2, <2>3 DEF Updated
  <1>2. ASSUME NEW i \in Ids, EndsWorker(i)
        PROVE  Cancelled'
    <2>2. CASE i \notin cancels
      BY <1>2, <1>r, <1>c, <2>2, EndsEffect DEF TypeOK
    <2>3. CASE i \in cancels
      <3>1. disk[i] \in Snapshot /\ registry'[i].phase = "Cancelled"
        BY <1>2, <1>d, <2>3, EndsEffect DEF Stored
      <3>2. /\ [request |-> disk[i].request, phase |-> registry'[i].phase] \in Snapshot
            /\ [request |-> disk[i].request, phase |-> registry'[i].phase].phase = "Cancelled"
        BY <3>1 DEF Snapshot, Phases, Terminal
      <3>3. QED
        BY <1>2, <1>r, <1>c, <2>3, <3>1, <3>2, EndsEffect DEF TypeOK
    <2>4. QED
      BY <2>2, <2>3
  <1>3. ASSUME NEW i \in Ids, Launch(i)
        PROVE  Cancelled'
    BY <1>3 DEF Launch
  <1>4. ASSUME NEW i \in Ids, NEW r \in {"Succeeded", "Failed"}, CellEnds(i, r)
        PROVE  Cancelled'
    BY <1>4 DEF CellEnds
  <1>5. ASSUME NEW i \in Ids, Prepares(i)
        PROVE  Cancelled'
    <2>1. PICK p \in {"Working", "Cancelling"} : Updated(i, p, registry[i].stop)
      BY <1>5, UpdateEffect
    <2>2. worker[i] = "preparing" /\ worker' = worker /\ Active(i) /\ p \notin Terminal
      BY <1>5 DEF Prepares, Owned, Terminal
    <2>3. UNCHANGED <<outcome, disk, maybe, acked, told, cancels, ran>>
      BY <1>5 DEF Prepares
    <2>4. QED
      BY <1>r, <1>c, <1>d, <2>1, <2>2, <2>3 DEF Updated
  <1>6. ASSUME NEW i \in Ids, NEW q \in Requests, Admit(i, q)
        PROVE  Cancelled'
    <2>1. acked[i] = None
      BY <1>6 DEF Admit, Stored
    <2>2. acked'[i] = q /\ \A j \in Ids : j # i => acked'[j] = acked[j]
      BY <1>6, <1>d, <2>1 DEF Admit
    <2>3. UNCHANGED <<told, cancels, ran>>
      BY <1>6 DEF Admit
    <2>4. Publishes(i, q) /\ maybe'[i] = {Claim(q)}
      BY <1>6, JournalEffect
    <2>5. Claim(q).request = q /\ Claim(q).phase = "Admitting" /\ Claim(q) # Absent
      BY EntryShape DEF Claim
    <2>6. QED
      BY <1>6, <1>r, <1>c, <1>d, <2>1, <2>2, <2>3, <2>4, <2>5, EvictionEffect DEF Publishes
  <1>7. ASSUME NEW i \in Ids, NEW q \in Requests, ClaimFails(i, q)
        PROVE  Cancelled'
    <2>1. acked[i] = None /\ ~Present(i)
      BY <1>7 DEF ClaimFails, Stored
    <2>2. UNCHANGED <<worker, acked, told, cancels, ran>>
      BY <1>7 DEF ClaimFails
    <2>3. Evicts
      BY <1>7, EvictionEffect
    <2>4. CASE Settles
      BY <1>r, <1>c, <2>2, <2>3, <2>4 DEF Settles, Evicts
    <2>5. CASE Publishes(i, q)
      <3>1. Claim(q).phase = "Admitting"
        BY DEF Claim
      <3>2. QED
        BY <1>r, <1>c, <2>1, <2>2, <2>3, <2>5, <3>1 DEF Publishes, Evicts
    <2>6. QED
      BY <1>7, <2>4, <2>5, JournalEffect
  <1>8. ASSUME NEW i \in Ids, NEW q \in Requests, Refuse(i, q)
        PROVE  Cancelled'
    <2>1. Evicts /\ Settles
      BY <1>8, EvictionEffect, JournalEffect
    <2>2. UNCHANGED <<worker, acked, told, cancels, ran>>
      BY <1>8 DEF Refuse
    <2>3. QED
      BY <1>r, <1>c, <2>1, <2>2 DEF Evicts, Settles
  <1>9. ASSUME NEW i \in Ids, AnswerEntry(i)
        PROVE  Cancelled'
    <2>1. CASE i \notin cancels
      BY <1>9, <2>1, AnswerEffect DEF TypeOK
    <2>2. CASE i \in cancels
      <3>1. disk[i] \in Snapshot /\ registry[i].phase = "Cancelled"
        BY <1>9, <1>d, <2>2, AnswerEffect DEF Stored
      <3>2. /\ [request |-> disk[i].request, phase |-> registry[i].phase] \in Snapshot
            /\ [request |-> disk[i].request, phase |-> registry[i].phase].phase = "Cancelled"
        BY <3>1 DEF Snapshot, Phases, Terminal
      <3>3. QED
        BY <1>9, <1>r, <1>c, <2>2, <3>1, <3>2, AnswerEffect DEF TypeOK
    <2>3. QED
      BY <2>1, <2>2
  <1>10. ASSUME NEW i \in Ids, AnswerArchived(i)
        PROVE  Cancelled'
    BY <1>10, <1>r, <1>c, JournalEffect DEF AnswerArchived, Settles
  <1>11. ASSUME NEW i \in Ids, Repeat(i)
        PROVE  Cancelled'
    BY <1>11, <1>r, <1>c, JournalEffect DEF Repeat, Settles
  <1>12. ASSUME NEW i \in Ids, Cancel(i)
        PROVE  Cancelled'
    <2>1. /\ registry[i].stop = "none" => Updated(i, "Cancelling", "cancelled")
          /\ registry[i].stop # "none" => Updated(i, "Cancelling", registry[i].stop)
      BY <1>12, UpdateEffect
    <2>2. Active(i) /\ UNCHANGED <<disk, maybe, acked>>
      BY <1>12 DEF Cancel
    <2>3. cancels' = IF registry[i].stop = "none" THEN cancels \cup {i} ELSE cancels
      BY <1>12 DEF Cancel
    <2>4. acked[i] # None /\ \A v \in maybe[i] : v # Absent /\ v.phase = "Admitting"
      BY <1>r, <1>c, <2>2, ExecutionAssumption DEF Owned, Entry, Stored
    <2>5. CASE registry[i].stop = "none"
      BY <1>r, <1>c, <2>1, <2>2, <2>3, <2>4, <2>5 DEF Updated, Terminal
    <2>6. CASE registry[i].stop # "none"
      BY <1>r, <1>c, <2>1, <2>2, <2>3, <2>6 DEF Updated, Terminal
    <2>7. QED
      BY <2>5, <2>6
  <1>13. ASSUME NEW i \in Ids, DeadlinePasses(i)
        PROVE  Cancelled'
    <2>1. Updated(i, registry[i].phase, "deadline")
      BY <1>13, UpdateEffect
    <2>2. Active(i) /\ registry[i].stop = "none" /\ worker' = worker
      BY <1>13 DEF DeadlinePasses
    <2>3. UNCHANGED <<outcome, disk, maybe, acked, told, cancels, ran>>
      BY <1>13 DEF DeadlinePasses
    <2>4. QED
      BY <1>r, <1>c, <1>d, <2>1, <2>2, <2>3 DEF Updated, Terminal
  <1>14. ASSUME NEW i \in Ids, Ages(i)
        PROVE  Cancelled'
    <2>1. Updated(i, registry[i].phase, registry[i].stop)
      BY <1>14, UpdateEffect
    <2>2. Finished(i) /\ worker' = worker
      BY <1>14 DEF Ages
    <2>3. UNCHANGED <<outcome, disk, maybe, acked, told, cancels, ran>>
      BY <1>14 DEF Ages
    <2>4. QED
      BY <1>r, <1>c, <1>d, <2>1, <2>2, <2>3 DEF Updated, Terminal
  <1>15. CASE TenantStep
    BY <1>15, <1>r, <1>c DEF TenantStep
  <1>16. CASE NewStart
    BY <1>16, <1>c DEF NewStart, NewProcess, Synced
  <1>17. CASE UNCHANGED vars
    BY <1>17, <1>r, <1>c DEF vars, journal, history
  <1>18. QED
    BY ExecutionCases, <1>1, <1>2, <1>3, <1>4, <1>5, <1>6, <1>7, <1>8, <1>9,
       <1>10, <1>11, <1>12, <1>13, <1>14, <1>15, <1>16, <1>17

(* The mutex is held or it is not. *)
LEMMA WritingTyped ==
    ASSUME ExecutionInv, [Next]_vars
    PROVE  writing' \in BOOLEAN
  <1> USE DEF Locks
  <1>1. writing \in BOOLEAN
    BY DEF ExecutionInv, TypeOK
  <1>2. ASSUME NEW i \in Ids, WorkerStep(i) \/ Prepares(i)
        PROVE  writing' = writing
    <2>1. ASSUME NEW p, Ends(i, p) PROVE writing' = writing
      BY <2>1 DEF Ends
    <2>2. QED
      BY <1>2, <2>1 DEF WorkerStep, Begins, NeverBegins, RefusesInputs, Launch, CellEnds, Breaks,
                        Reports, Prepares, Progresses
  <1>3. ASSUME NEW i \in Ids, ClientStep(i)
        PROVE  writing' \in BOOLEAN
    BY <1>1, <1>3 DEF ClientStep, Admit, ClaimFails, Refuse, AnswerEntry, AnswerArchived, Repeat,
                      Cancel, WritesReply
  <1>4. ASSUME NEW i \in Ids, DeadlinePasses(i) \/ Ages(i)
        PROVE  writing' = writing
    BY <1>4 DEF DeadlinePasses, Ages
  <1>5. ASSUME \/ (\E q \in Requests : PrewarmBegins(q)) \/ PrewarmEnds
               \/ (\E o \in Owners : ParentAdmitted(o) \/ ParentJoined(o))
        PROVE  writing' = writing
    BY <1>5 DEF PrewarmBegins, PrewarmEnds, ParentAdmitted, ParentJoined
  <1>6. ASSUME ReplyTaken \/ Restart \/ PowerLoss
        PROVE  writing' = FALSE
    BY <1>6 DEF ReplyTaken, Restart, PowerLoss, NewProcess
  <1>7. CASE UNCHANGED vars
    BY <1>1, <1>7 DEF vars
  <1>8. QED
    BY <1>1, <1>2, <1>3, <1>4, <1>5, <1>6, <1>7 DEF Next

(* Types are kept by every step. *)
LEMMA ExecutionTypeStep ==
    ASSUME ExecutionInv, [Next]_vars
    PROVE  TypeOK'
  <1> USE EntryShape DEF ExecutionInv, Active, Present, Finished, journal, history
  <1>r. /\ registry \in [Ids -> Entry \cup {NoEntry}]
        /\ worker \in [Ids -> {"none", "starting", "preparing", "cell", "returned"}]
    BY DEF TypeOK
  <1>d. /\ disk \in [Ids -> Snapshot \cup {Absent}]
        /\ maybe \in [Ids -> SUBSET (Snapshot \cup {Absent})]
        /\ told \in [Ids -> SUBSET Terminal] /\ acked \in [Ids -> Requests \cup {None}]
    BY DEF TypeOK
  <1>w. writing' \in BOOLEAN
    BY WritingTyped
  <1> USE <1>w
  <1>1. ASSUME NEW i \in Ids, Begins(i)
        PROVE  TypeOK'
    BY <1>1, UpdateEffect DEF Begins, Updated, TypeOK
  <1>2. ASSUME NEW i \in Ids, EndsWorker(i)
        PROVE  TypeOK'
    BY <1>2, EndsEffect DEF TypeOK
  <1>3. ASSUME NEW i \in Ids, Launch(i)
        PROVE  TypeOK'
    BY <1>3 DEF Launch, TypeOK
  <1>4. ASSUME NEW i \in Ids, NEW r \in {"Succeeded", "Failed"}, CellEnds(i, r)
        PROVE  TypeOK'
    BY <1>4 DEF CellEnds, TypeOK
  <1>5. ASSUME NEW i \in Ids, Prepares(i)
        PROVE  TypeOK'
    BY <1>5, UpdateEffect DEF Prepares, Updated, TypeOK
  <1>6. ASSUME NEW i \in Ids, NEW q \in Requests, Admit(i, q)
        PROVE  TypeOK'
    <2>1. disk' \in [Ids -> Snapshot \cup {Absent}]
      BY <1>6, <1>d DEF Admit
    <2>2. registry' \in [Ids -> Entry \cup {NoEntry}]
      BY <1>6, EvictionEffect
    <2>3. maybe' \in [Ids -> SUBSET (Snapshot \cup {Absent})]
      BY <1>6, JournalEffect DEF Publishes
    <2>4. worker' = [worker EXCEPT ![i] = "starting"] /\ acked' \in [Ids -> Requests \cup {None}]
      BY <1>6, <1>d DEF Admit
    <2>5. UNCHANGED <<outcome, prewarm, parents, told, cancels, ran>>
      BY <1>6 DEF Admit
    <2>6. QED
      BY <2>1, <2>2, <2>3, <2>4, <2>5 DEF TypeOK
  <1>7. ASSUME NEW i \in Ids, NEW q \in Requests, ClaimFails(i, q)
        PROVE  TypeOK'
    <2>1. disk' \in [Ids -> Snapshot \cup {Absent}]
      BY <1>7, <1>d DEF ClaimFails
    <2>2. registry' \in [Ids -> Entry \cup {NoEntry}]
      BY <1>7, EvictionEffect
    <2>3. maybe' \in [Ids -> SUBSET (Snapshot \cup {Absent})]
      BY <1>7, JournalEffect DEF Publishes, Settles
    <2>4. UNCHANGED <<worker, outcome, prewarm, parents, acked, told, cancels, ran>>
      BY <1>7 DEF ClaimFails
    <2>5. QED
      BY <2>1, <2>2, <2>3, <2>4 DEF TypeOK
  <1>8. ASSUME NEW i \in Ids, NEW q \in Requests, Refuse(i, q)
        PROVE  TypeOK'
    <2>1. registry' \in [Ids -> Entry \cup {NoEntry}] /\ Settles
      BY <1>8, EvictionEffect, JournalEffect
    <2>2. UNCHANGED <<worker, outcome, prewarm, parents, acked, told, cancels, ran>>
      BY <1>8 DEF Refuse
    <2>3. QED
      BY <2>1, <2>2 DEF TypeOK, Settles
  <1>9. ASSUME NEW i \in Ids, AnswerEntry(i)
        PROVE  TypeOK'
    <2>1. told' \in [Ids -> SUBSET Terminal]
      BY <1>9, <1>d, AnswerEffect
    <2>2. QED
      BY <1>9, <2>1, AnswerEffect DEF TypeOK
  <1>10. ASSUME NEW i \in Ids, AnswerArchived(i)
        PROVE  TypeOK'
    <2>1. told' \in [Ids -> SUBSET Terminal]
      BY <1>10, <1>d DEF AnswerArchived, Archived
    <2>2. Settles /\ UNCHANGED <<registry, worker, outcome, prewarm, parents, acked, cancels, ran>>
      BY <1>10, JournalEffect DEF AnswerArchived
    <2>3. QED
      BY <2>1, <2>2 DEF TypeOK, Settles
  <1>11. ASSUME NEW i \in Ids, Repeat(i)
        PROVE  TypeOK'
    <2>1. Settles /\ UNCHANGED <<registry, worker, outcome, prewarm, parents, acked, told, cancels, ran>>
      BY <1>11, JournalEffect DEF Repeat
    <2>2. QED
      BY <2>1 DEF TypeOK, Settles
  <1>12. ASSUME NEW i \in Ids, Cancel(i)
        PROVE  TypeOK'
    BY <1>12, UpdateEffect DEF Cancel, Updated, TypeOK
  <1>13. ASSUME NEW i \in Ids, DeadlinePasses(i)
        PROVE  TypeOK'
    BY <1>13, UpdateEffect DEF DeadlinePasses, Updated, TypeOK
  <1>14. ASSUME NEW i \in Ids, Ages(i)
        PROVE  TypeOK'
    BY <1>14, UpdateEffect DEF Ages, Updated, TypeOK
  <1>15. CASE TenantStep
    BY <1>15 DEF TenantStep, TypeOK
  <1>16. CASE NewStart
    BY <1>16 DEF NewStart, NewProcess, Synced, TypeOK
  <1>17. CASE UNCHANGED vars
    BY <1>17 DEF vars, journal, history, TypeOK
  <1>18. QED
    BY ExecutionCases, <1>1, <1>2, <1>3, <1>4, <1>5, <1>6, <1>7, <1>8, <1>9,
       <1>10, <1>11, <1>12, <1>13, <1>14, <1>15, <1>16, <1>17

(* The initial state. *)
LEMMA ExecutionStarts == Init => ExecutionInv
  <1> SUFFICES ASSUME Init PROVE ExecutionInv
    OBVIOUS
  <1>1. TypeOK
    BY DEF Init, TypeOK
  <1>2. Owned /\ Stored /\ Launched /\ Reported /\ Cancelled
    BY DEF Init, Owned, Stored, Launched, Reported, Cancelled, Active, Present
  <1>3. QED
    BY <1>1, <1>2 DEF ExecutionInv

(* Every reachable state satisfies the invariant. *)
LEMMA ExecutionInvariant == Spec => []ExecutionInv
  <1>1. ExecutionInv /\ [Next]_vars => ExecutionInv'
    BY ExecutionTypeStep, OwnedStep, StoredStep, LaunchedStep, ReportedStep, CancelledStep
       DEF ExecutionInv
  <1>2. QED
    BY <1>1, ExecutionStarts, PTL DEF Spec

(* Every variable of the dispatcher's executions keeps its type. *)
THEOREM ExecutionTyped == Spec => []TypeOK
  <1>1. ExecutionInv => TypeOK
    BY DEF ExecutionInv
  <1>2. QED
    BY <1>1, ExecutionInvariant, PTL

(* An id has one cell at most, through repeated submissions, evictions,     *)
(* failed claims, restarts and power losses (claim, start_with_id).         *)
THEOREM ExecutionRunsOnce == Spec => []RunsOnce
  <1>1. ExecutionInv => RunsOnce
    BY DEF ExecutionInv, Launched, RunsOnce
  <1>2. QED
    BY <1>1, ExecutionInvariant, PTL

(* What a client was told is on the disk, whatever the disk may lose: the   *)
(* bytes a 202 bound the id to, and the terminal phase that was reported    *)
(* (claim, complete).                                                       *)
THEOREM ExecutionReportFinal == Spec => []ReportFinal
  <1>1. ExecutionInv => ReportFinal
    BY DEF ExecutionInv, Stored, Reported, ReportFinal
  <1>2. QED
    BY <1>1, ExecutionInvariant, PTL

(* A cancellation that stopped the control decides the verdict, whatever    *)
(* the worker was about to report (update_execution).                       *)
THEOREM ExecutionCancelHonoured == Spec => []CancelHonoured
  <1>1. ExecutionInv => CancelHonoured
    BY DEF ExecutionInv, Cancelled, CancelHonoured
  <1>2. QED
    BY <1>1, ExecutionInvariant, PTL

-----------------------------------------------------------------------------
(* The node's cells.                                                        *)

(* An accepted submission adds its own execution to those that hold cells,   *)
(* and no other step adds one.                                               *)
LEMMA HeldStep ==
    ASSUME ExecutionInv, [Next]_vars
    PROVE  \/ Held' \subseteq Held
           \/ \E i \in Ids, q \in Requests : Admit(i, q) /\ Held' \subseteq Held \cup {i}
  <1> USE DEF Held, Active, Present, Finished
  <1>r. registry \in [Ids -> Entry \cup {NoEntry}]
    BY DEF ExecutionInv, TypeOK
  <1>1. ASSUME NEW i \in Ids, Begins(i) \/ Prepares(i)
        PROVE  Held' \subseteq Held
    <2>1. PICK p : Updated(i, p, registry[i].stop)
      BY <1>1, UpdateEffect
    <2>2. Active(i)
      BY <1>1 DEF Begins, Prepares, ExecutionInv, Owned
    <2>3. QED
      BY <2>1, <2>2 DEF Updated
  <1>2. ASSUME NEW i \in Ids, EndsWorker(i)
        PROVE  Held' \subseteq Held
    BY <1>2, EndsEffect
  <1>3. ASSUME NEW i \in Ids, Launch(i) \/ \E r \in {"Succeeded", "Failed"} : CellEnds(i, r)
        PROVE  Held' \subseteq Held
    BY <1>3 DEF Launch, CellEnds
  <1>4. ASSUME NEW i \in Ids, NEW q \in Requests, Admit(i, q)
        PROVE  Held' \subseteq Held \cup {i}
    BY <1>4, EvictionEffect
  <1>5. ASSUME NEW i \in Ids, NEW q \in Requests, ClaimFails(i, q) \/ Refuse(i, q)
        PROVE  Held' \subseteq Held
    BY <1>5, EvictionEffect DEF Evicts
  <1>6. ASSUME NEW i \in Ids, AnswerEntry(i) \/ AnswerArchived(i) \/ Repeat(i)
        PROVE  Held' \subseteq Held
    BY <1>6 DEF AnswerEntry, AnswerArchived, Repeat
  <1>7. ASSUME NEW i \in Ids, Cancel(i) \/ DeadlinePasses(i)
        PROVE  Held' \subseteq Held
    <2>1. PICK p, st : Updated(i, p, st)
      BY <1>7, UpdateEffect
    <2>2. Active(i)
      BY <1>7 DEF Cancel, DeadlinePasses
    <2>3. QED
      BY <2>1, <2>2 DEF Updated
  <1>8. ASSUME NEW i \in Ids, Ages(i)
        PROVE  Held' \subseteq Held
    <2>1. Updated(i, registry[i].phase, registry[i].stop) /\ Finished(i)
      BY <1>8, UpdateEffect DEF Ages
    <2>2. QED
      BY <2>1 DEF Updated
  <1>9. ASSUME TenantStep \/ NewStart \/ UNCHANGED vars
        PROVE  Held' \subseteq Held
    BY <1>9 DEF TenantStep, NewStart, NewProcess, vars
  <1>10. QED
    BY ExecutionCases, <1>1, <1>2, <1>3, <1>4, <1>5, <1>6, <1>7, <1>8, <1>9

(* Those that hold cells are finitely many, and their cells fit the node. *)
CellsInv ==
    /\ IsFiniteSet(Held) /\ IsFiniteSet(parents)
    /\ NodeNotOvercommitted

(* The prewarm's share of the cells. *)
Warming == IF prewarm = None THEN 0 ELSE 1

(* A step that admits no execution, no prewarm and no parent frees cells or  *)
(* leaves them as they are.                                                  *)
LEMMA FewerCells ==
    ASSUME CellsInv, Held' \subseteq Held, parents' \subseteq parents,
           prewarm' = prewarm \/ prewarm' = None
    PROVE  CellsInv'
  <1>1. IsFiniteSet(Held') /\ Cardinality(Held') <= Cardinality(Held)
    BY FS_Subset DEF CellsInv
  <1>2. IsFiniteSet(parents') /\ Cardinality(parents') <= Cardinality(parents)
    BY FS_Subset DEF CellsInv
  <1>3. Warming' <= Warming /\ Warming \in Nat /\ Warming' \in Nat
    BY DEF Warming
  <1>4. /\ Cardinality(Held) \in Nat /\ Cardinality(Held') \in Nat
        /\ Cardinality(parents) \in Nat /\ Cardinality(parents') \in Nat
    BY <1>1, <1>2, FS_CardinalityType DEF CellsInv
  <1>5. Cardinality(Held) + Warming + 2 * Cardinality(parents) <= MaxCells
    BY DEF CellsInv, NodeNotOvercommitted, LiveCells, Warming
  <1>6. Cardinality(Held') + Warming' + 2 * Cardinality(parents') <= MaxCells
    BY <1>1, <1>2, <1>3, <1>4, <1>5, ExecutionAssumption
  <1>7. QED
    BY <1>1, <1>2, <1>6 DEF CellsInv, NodeNotOvercommitted, LiveCells, Warming

(* Each of the three admissions finds room for what it adds. *)
LEMMA CellsStep ==
    ASSUME ExecutionInv, CellsInv, [Next]_vars
    PROVE  CellsInv'
  <1>a. /\ Cardinality(Held) \in Nat /\ Cardinality(parents) \in Nat /\ Warming \in Nat
        /\ MaxCells \in Nat /\ LiveCells = Cardinality(Held) + Warming + 2 * Cardinality(parents)
    BY FS_CardinalityType, ExecutionAssumption DEF CellsInv, LiveCells, Warming
  <1>1. ASSUME NEW i \in Ids, NEW q \in Requests, Admit(i, q), Held' \subseteq Held \cup {i}
        PROVE  CellsInv'
    <2>1. LiveCells < MaxCells /\ UNCHANGED <<prewarm, parents>>
      BY <1>1 DEF Admit, Admits
    <2>2. /\ IsFiniteSet(Held \cup {i})
          /\ Cardinality(Held \cup {i}) <= Cardinality(Held) + 1
      BY <1>a, FS_AddElement DEF CellsInv
    <2>3. /\ IsFiniteSet(Held') /\ Cardinality(Held') <= Cardinality(Held \cup {i})
          /\ Cardinality(Held') \in Nat /\ Cardinality(Held \cup {i}) \in Nat
      BY <1>1, <2>2, FS_Subset, FS_CardinalityType
    <2>4. Cardinality(Held') + Warming + 2 * Cardinality(parents) <= MaxCells
      BY <1>a, <2>1, <2>2, <2>3
    <2>5. QED
      BY <2>1, <2>3, <2>4 DEF CellsInv, NodeNotOvercommitted, LiveCells, Warming
  <1>2. ASSUME NEW q \in Requests, PrewarmBegins(q)
        PROVE  CellsInv'
    <2>1. LiveCells < MaxCells /\ prewarm = None /\ prewarm' = q /\ UNCHANGED <<registry, parents>>
      BY <1>2 DEF PrewarmBegins, Admits
    <2>2. Held' = Held
      BY <2>1 DEF Held, Active, Present
    <2>3. Warming = 0 /\ Warming' = 1
      BY <2>1, ExecutionAssumption DEF Warming
    <2>4. QED
      BY <1>a, <2>1, <2>2, <2>3 DEF CellsInv, NodeNotOvercommitted, LiveCells, Warming
  <1>3. ASSUME NEW o \in Owners, ParentAdmitted(o)
        PROVE  CellsInv'
    <2>1. /\ MaxCells - LiveCells >= 2 /\ o \notin parents /\ parents' = parents \cup {o}
          /\ UNCHANGED <<registry, prewarm>>
      BY <1>3 DEF ParentAdmitted
    <2>2. Held' = Held /\ Warming' = Warming
      BY <2>1 DEF Held, Active, Present, Warming
    <2>3. IsFiniteSet(parents') /\ Cardinality(parents') = Cardinality(parents) + 1
      BY <2>1, FS_AddElement DEF CellsInv
    <2>4. QED
      BY <1>a, <2>1, <2>2, <2>3 DEF CellsInv, NodeNotOvercommitted, LiveCells, Warming
  <1>4. ASSUME ~\E i \in Ids, q \in Requests : Admit(i, q),
               ~\E q \in Requests : PrewarmBegins(q), ~\E o \in Owners : ParentAdmitted(o)
        PROVE  CellsInv'
    <2>1. Held' \subseteq Held
      BY <1>4, HeldStep
    <2>2. /\ parents' \subseteq parents
          /\ prewarm' = prewarm \/ prewarm' = None
      <3>1. ASSUME NEW i \in Ids, WorkerStep(i) \/ Prepares(i) \/ ClientStep(i)
            PROVE  UNCHANGED <<prewarm, parents>>
        <4>1. ASSUME NEW p, Ends(i, p) PROVE UNCHANGED <<prewarm, parents>>
          BY <4>1 DEF Ends
        <4>2. QED
          BY <3>1, <4>1, <1>4
             DEF WorkerStep, ClientStep, Begins, NeverBegins, RefusesInputs, Launch, CellEnds,
                 Breaks, Reports, Prepares, ClaimFails, Refuse, AnswerEntry,
                 AnswerArchived, Repeat, Cancel
      <3>2. ASSUME NEW i \in Ids, DeadlinePasses(i) \/ Ages(i)
            PROVE  UNCHANGED <<prewarm, parents>>
        BY <3>2 DEF DeadlinePasses, Ages
      <3>3. ASSUME PrewarmEnds \/ (\E o \in Owners : ParentJoined(o)) \/ ReplyTaken
                   \/ Restart \/ PowerLoss \/ UNCHANGED vars
            PROVE  parents' \subseteq parents /\ (prewarm' = prewarm \/ prewarm' = None)
        BY <3>3 DEF PrewarmEnds, ParentJoined, ReplyTaken, Restart, PowerLoss, NewProcess, vars
      <3>4. QED
        BY <1>4, <3>1, <3>2, <3>3 DEF Next
    <2>3. QED
      BY <2>1, <2>2, FewerCells
  <1>5. QED
    BY <1>1, <1>2, <1>3, <1>4, HeldStep

(* Executions, a prewarm and retained parents never hold more cells together *)
(* than the node has: each admission counts what the others hold under the   *)
(* registry's mutex (current_node, admit).                                   *)
THEOREM ExecutionsFitNode == Spec => []NodeNotOvercommitted
  <1>1. Init => CellsInv
    <2> SUFFICES ASSUME Init PROVE CellsInv
      OBVIOUS
    <2>1. Held = {} /\ parents = {} /\ prewarm = None
      BY DEF Init, Held, Active, Present
    <2>2. QED
      BY <2>1, FS_EmptySet, ExecutionAssumption DEF CellsInv, NodeNotOvercommitted, LiveCells
  <1>2. ExecutionInv /\ CellsInv /\ [Next]_vars => CellsInv'
    BY CellsStep
  <1>3. CellsInv => NodeNotOvercommitted
    BY DEF CellsInv
  <1>4. QED
    BY <1>1, <1>2, <1>3, ExecutionInvariant, PTL DEF Spec
===============================================================================
