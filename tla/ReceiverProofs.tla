---------------------------- MODULE ReceiverProofs ----------------------------
(***************************************************************************)
(* Proofs about the receiver of scoped operations: the status it publishes *)
(* for one, the journal that admits it, the turns it asks of a retained    *)
(* parent, and the authority under which it runs.  Each section has the    *)
(* parts of an inductive invariant, a lemma per part saying that every     *)
(* step keeps it, and the theorems that follow.                            *)
(***************************************************************************)
EXTENDS ScopedStatus, AdmissionJournal, ScopedTurn, ScopedAuthority, FiniteSetTheorems,
        WellFoundedInduction, TLAPS

-------------------------------------------------------------------------------
(* The status of a scoped operation (ScopedStatus).                          *)

(* What holds while the start handler has not got past each of its points:  *)
(* a record the cleanup may call "never started" belongs to an operation    *)
(* whose handler never claimed it, and while the handler is under way it    *)
(* holds the operation lock and nothing is confirmed.                       *)
Starting ==
    /\ saved \in {"absent", "never"} <=> start = "idle"
    /\ start = "idle" => /\ entry = "absent" /\ thread = "none" /\ native = "none"
                         /\ Initial => parent = "none"
                         /\ status.confirmed => saved = "never" /\ status.phase = "Cancelled"
    /\ start = "claimed" => entry = "absent" /\ (Initial => parent = "none")
    /\ start \in {"claimed", "registered", "admitted"} =>
          lock = "start" /\ ~status.confirmed /\ thread = "none" /\ native = "none"

(* A cleanup under way holds the operation lock, and one that is about to   *)
(* edit a one-shot's file the registry's mutex, over an active entry.       *)
Locked ==
    /\ \A c \in Cleaners : pc[c] # "idle" => lock = c
    /\ \A c \in Cleaners : OneShot /\ pc[c] = "write" => execs = c /\ entry = "active"
    /\ \A c \in Cleaners : pc[c] = "joining" => parent = "stopping"

(* Only the status of a retained parent is observed, and what an observer   *)
(* is about to replace was not confirmed when it looked.                    *)
Observed ==
    \A c \in Callers :
        /\ pc[c] \in {"joining", "stopped", "observe", "writeLost", "writeStopping"} => Initial
        /\ pc[c] \in {"writeLost", "writeStopping"} => ~copy[c].confirmed

(* What the worker thread is about to store: a confirmed outcome is that of *)
(* a cell or child that is gone, and a one-shot's was announced first.      *)
Announced ==
    /\ OneShot /\ thread \in {"running", "returned", "updated"} => ~status.confirmed
    /\ thread \in {"returned", "updated"} /\ result.status.confirmed =>
          /\ ~Initial /\ native = "gone" /\ result.status.phase # "Uncertain"
          /\ OneShot /\ thread = "updated" => entry = "terminal"
    /\ OneShot /\ status.confirmed => entry # "active"

(* What a confirmed status says of the cell, the child and the parent. *)
Buried ==
    /\ Initial /\ parent \in {"none", "stopped"} => native # "running"
    /\ Initial /\ status.confirmed /\ start # "stranded" => parent \in {"none", "stopped"}
    /\ ~Initial /\ status.confirmed => native # "running"

ScopedInv == ScopedTypeOK /\ Starting /\ Locked /\ Observed /\ Announced /\ Buried

(* The disjuncts of the next-state relation, one by one. *)
LEMMA ScopedCases ==
    ASSUME [ScopedNext]_scopedVars
    PROVE  \/ StartClaims
           \/ StartRefused
           \/ StartRegisters
           \/ StartExpired
           \/ StartAdmits
           \/ StartAdmitFails
           \/ StartLaunches
           \/ StartLaunchFails
           \/ NativeEnds
           \/ ParentEnds
           \/ ShotReturns
           \/ ShotUpdates
           \/ TurnReturns
           \/ WorkerPersists
           \/ WorkerFinishes
           \/ \E c \in Cleaners : CleanBegins(c)
           \/ \E c \in Cleaners : CleanLooks(c)
           \/ \E c \in Cleaners : CleanCancelsShot(c)
           \/ \E c \in Cleaners : CleanCancelsTurn(c)
           \/ \E c \in Cleaners : CleanWrites(c)
           \/ \E c \in Cleaners : CleanStops(c)
           \/ \E c \in Cleaners : CleanJoins(c)
           \/ \E c \in Cleaners : CleanRecords(c)
           \/ \E c \in Readers : ReadBegins(c)
           \/ \E c \in Callers : Observes(c)
           \/ \E c \in Callers : ObserverWrites(c)
           \/ \E c \in Callers : Replies(c)
           \/ UNCHANGED scopedVars
  BY DEF ScopedNext

(* A status with a phase is a status. *)
LEMMA StShape ==
    /\ \A phase \in ScopedPhases, b \in BOOLEAN :
          /\ St(phase, b) \in Status
          /\ St(phase, b).phase = phase /\ St(phase, b).confirmed = b
    /\ \A s \in Status : s.phase \in ScopedPhases /\ s.confirmed \in BOOLEAN
  BY DEF St, Status

(* What a worker thread returns with: a confirmed result only of a cell or   *)
(* child that is gone, and never for the operation that began the parent.    *)
LEMMA ReturnedShape ==
    ASSUME ShotReturns \/ TurnReturns
    PROVE  \E phase \in ScopedPhases, b, r \in BOOLEAN :
              /\ result' = [status |-> St(phase, b), receipt |-> r]
              /\ b => native = "gone" /\ phase # "Uncertain" /\ ~Initial
  <1>1. CASE ShotReturns
    <2>0. ~Initial /\ {"Succeeded", "Failed", "Cancelled", "Uncertain"} \subseteq ScopedPhases
      BY <1>1 DEF ShotReturns, OneShot, Initial, ScopedPhases
    <2>1. CASE Returns(St("Uncertain", FALSE), FALSE)
      BY <2>0, <2>1 DEF Returns
    <2>2. ASSUME native = "gone", NEW phase \in {"Succeeded", "Failed", "Cancelled"}, NEW r \in BOOLEAN,
                 Returns(St(phase, TRUE), r)
          PROVE  \E p \in ScopedPhases, b, q \in BOOLEAN :
                    /\ result' = [status |-> St(p, b), receipt |-> q]
                    /\ b => native = "gone" /\ p # "Uncertain" /\ ~Initial
      <3>1. result' = [status |-> St(phase, TRUE), receipt |-> r] /\ phase # "Uncertain"
        BY <2>2 DEF Returns
      <3>2. QED
        BY <2>0, <2>2, <3>1
    <2>3. QED
      BY <1>1, <2>1, <2>2 DEF ShotReturns
  <1>2. CASE TurnReturns
    <2>0. {"Running", "Succeeded", "Failed", "Cancelled", "Uncertain"} \subseteq ScopedPhases
      BY DEF ScopedPhases
    <2>1. ASSUME native = "gone", NEW ok \in BOOLEAN, NEW r \in BOOLEAN,
                 Returns(IF Initial THEN St(IF ok THEN "Running" ELSE "Failed", FALSE)
                                    ELSE St(IF ok THEN "Succeeded" ELSE "Cancelled", TRUE), r)
          PROVE  \E p \in ScopedPhases, b, q \in BOOLEAN :
                    /\ result' = [status |-> St(p, b), receipt |-> q]
                    /\ b => native = "gone" /\ p # "Uncertain" /\ ~Initial
      <3>1. CASE Initial /\ ok
        BY <2>0, <2>1, <3>1 DEF Returns
      <3>2. CASE Initial /\ ~ok
        BY <2>0, <2>1, <3>2 DEF Returns
      <3>3. CASE ~Initial /\ ok
        BY <2>0, <2>1, <3>3 DEF Returns
      <3>4. CASE ~Initial /\ ~ok
        BY <2>0, <2>1, <3>4 DEF Returns
      <3>5. QED
        BY <3>1, <3>2, <3>3, <3>4
    <2>2. CASE native = "gone" /\ Returns(St("Failed", ~Initial), TRUE)
      BY <2>0, <2>2 DEF Returns
    <2>3. ASSUME NEW r \in BOOLEAN, Returns(St("Uncertain", FALSE), r)
          PROVE  \E p \in ScopedPhases, b, q \in BOOLEAN :
                    /\ result' = [status |-> St(p, b), receipt |-> q]
                    /\ b => native = "gone" /\ p # "Uncertain" /\ ~Initial
      BY <2>0, <2>3 DEF Returns
    <2>4. QED
      BY <1>2, <2>1, <2>2, <2>3 DEF TurnReturns
  <1>3. QED
    BY <1>1, <1>2

(* Types. *)
LEMMA ScopedTypeStep ==
    ASSUME ScopedInv, [ScopedNext]_scopedVars
    PROVE  ScopedTypeOK'
  <1>t. ScopedTypeOK
    BY DEF ScopedInv
  <1>s. status \in Status /\ copy \in [Callers -> Status]
    BY DEF ScopedInv, ScopedTypeOK
  <1>1. CASE StartClaims
    <2>1. saved' \in {"absent", "open", "receipt", "refused", "never"}
      BY <1>1, <1>t DEF StartClaims, ScopedTypeOK
    <2>2. lock' \in Cleaners \cup {"start", "nobody"}
      BY <1>1, <1>t DEF StartClaims, ScopedTypeOK
    <2>3. start' \in {"idle", "claimed", "registered", "admitted", "done", "stranded"}
      BY <1>1, <1>t DEF StartClaims, ScopedTypeOK
    <2>4. UNCHANGED <<lifecycle, status, execs, entry, thread, result, native,
        parent, pc, copy>>
      BY <1>1 DEF StartClaims
    <2>5. QED
      BY <1>t, <2>1, <2>2, <2>3, <2>4 DEF ScopedTypeOK
  <1>2. CASE StartRefused
    <2>1. status' \in Status
      BY <1>2, <1>s, StShape DEF StartRefused, TryPersist, ScopedPhases, Callers
    <2>2. saved' \in {"absent", "open", "receipt", "refused", "never"}
      BY <1>2, <1>t DEF StartRefused, StartEnds, TryPersist, ScopedTypeOK
    <2>3. lock' \in Cleaners \cup {"start", "nobody"}
      BY <1>2, <1>t DEF StartRefused, StartEnds, TryPersist, ScopedTypeOK
    <2>4. start' \in {"idle", "claimed", "registered", "admitted", "done", "stranded"}
      BY <1>2, <1>t DEF StartRefused, StartEnds, TryPersist, ScopedTypeOK
    <2>5. UNCHANGED <<lifecycle, execs, entry, thread, result, native, parent,
        pc, copy>>
      BY <1>2 DEF StartRefused
    <2>6. QED
      BY <1>t, <2>1, <2>2, <2>3, <2>4, <2>5 DEF ScopedTypeOK
  <1>3. CASE StartRegisters
    <2>1. entry' \in {"absent", "active", "terminal"}
      BY <1>3, <1>t DEF StartRegisters, ScopedTypeOK
    <2>2. start' \in {"idle", "claimed", "registered", "admitted", "done", "stranded"}
      BY <1>3, <1>t DEF StartRegisters, ScopedTypeOK
    <2>3. parent' \in {"none", "running", "stopping", "stopped", "lost",
        "uncertain"}
      BY <1>3, <1>t DEF StartRegisters, ScopedTypeOK
    <2>4. UNCHANGED <<lifecycle, status, saved, lock, execs, thread, result,
        native, pc, copy>>
      BY <1>3 DEF StartRegisters
    <2>5. QED
      BY <1>t, <2>1, <2>2, <2>3, <2>4 DEF ScopedTypeOK
  <1>4. CASE StartExpired
    <2>1. status' \in Status
      BY <1>4, <1>s, StShape DEF StartExpired, TryPersist, ScopedPhases, Callers
    <2>2. saved' \in {"absent", "open", "receipt", "refused", "never"}
      BY <1>4, <1>t DEF StartExpired, StartEnds, TryPersist, ScopedTypeOK
    <2>3. lock' \in Cleaners \cup {"start", "nobody"}
      BY <1>4, <1>t DEF StartExpired, StartEnds, TryPersist, ScopedTypeOK
    <2>4. start' \in {"idle", "claimed", "registered", "admitted", "done", "stranded"}
      BY <1>4, <1>t DEF StartExpired, StartEnds, TryPersist, ScopedTypeOK
    <2>5. parent' \in {"none", "running", "stopping", "stopped", "lost",
        "uncertain"}
      BY <1>4, <1>t DEF StartExpired, StartEnds, TryPersist, ScopedTypeOK
    <2>6. UNCHANGED <<lifecycle, execs, entry, thread, result, native, pc, copy>>
      BY <1>4 DEF StartExpired
    <2>7. QED
      BY <1>t, <2>1, <2>2, <2>3, <2>4, <2>5, <2>6 DEF ScopedTypeOK
  <1>5. CASE StartAdmits
    <2>1. status' \in Status
      BY <1>5, <1>s, StShape DEF StartAdmits, ScopedPhases, Callers
    <2>2. start' \in {"idle", "claimed", "registered", "admitted", "done", "stranded"}
      BY <1>5, <1>t DEF StartAdmits, ScopedTypeOK
    <2>3. UNCHANGED <<lifecycle, saved, lock, execs, entry, thread, result,
        native, parent, pc, copy>>
      BY <1>5 DEF StartAdmits
    <2>4. QED
      BY <1>t, <2>1, <2>2, <2>3 DEF ScopedTypeOK
  <1>6. CASE StartAdmitFails
    <2>1. status' \in Status
      BY <1>6, <1>s, StShape DEF StartAdmitFails, ScopedPhases, Callers
    <2>2. saved' \in {"absent", "open", "receipt", "refused", "never"}
      BY <1>6, <1>t DEF StartAdmitFails, StartEnds, ScopedTypeOK
    <2>3. lock' \in Cleaners \cup {"start", "nobody"}
      BY <1>6, <1>t DEF StartAdmitFails, StartEnds, ScopedTypeOK
    <2>4. entry' \in {"absent", "active", "terminal"}
      BY <1>6, <1>t DEF StartAdmitFails, StartEnds, ScopedTypeOK
    <2>5. start' \in {"idle", "claimed", "registered", "admitted", "done", "stranded"}
      BY <1>6, <1>t DEF StartAdmitFails, StartEnds, ScopedTypeOK
    <2>6. UNCHANGED <<lifecycle, execs, thread, result, native, parent, pc,
        copy>>
      BY <1>6 DEF StartAdmitFails
    <2>7. QED
      BY <1>t, <2>1, <2>2, <2>3, <2>4, <2>5, <2>6 DEF ScopedTypeOK
  <1>7. CASE StartLaunches
    <2>1. lock' \in Cleaners \cup {"start", "nobody"}
      BY <1>7, <1>t DEF StartLaunches, StartEnds, ScopedTypeOK
    <2>2. start' \in {"idle", "claimed", "registered", "admitted", "done", "stranded"}
      BY <1>7, <1>t DEF StartLaunches, StartEnds, ScopedTypeOK
    <2>3. thread' \in {"none", "running", "returned", "updated", "persisted",
        "done"}
      BY <1>7, <1>t DEF StartLaunches, StartEnds, ScopedTypeOK
    <2>4. native' \in {"none", "running", "gone"}
      BY <1>7, <1>t DEF StartLaunches, StartEnds, ScopedTypeOK
    <2>5. UNCHANGED <<lifecycle, status, saved, execs, entry, result, parent, pc,
        copy>>
      BY <1>7 DEF StartLaunches
    <2>6. QED
      BY <1>t, <2>1, <2>2, <2>3, <2>4, <2>5 DEF ScopedTypeOK
  <1>8. CASE StartLaunchFails
    <2>1. status' \in Status
      BY <1>8, <1>s, StShape DEF StartLaunchFails, TryPersist, ScopedPhases, Callers
    <2>2. saved' \in {"absent", "open", "receipt", "refused", "never"}
      BY <1>8, <1>t DEF StartLaunchFails, StartEnds, TryPersist, ScopedTypeOK
    <2>3. lock' \in Cleaners \cup {"start", "nobody"}
      BY <1>8, <1>t DEF StartLaunchFails, StartEnds, TryPersist, ScopedTypeOK
    <2>4. entry' \in {"absent", "active", "terminal"}
      BY <1>8, <1>t DEF StartLaunchFails, StartEnds, TryPersist, ScopedTypeOK
    <2>5. start' \in {"idle", "claimed", "registered", "admitted", "done", "stranded"}
      BY <1>8, <1>t DEF StartLaunchFails, StartEnds, TryPersist, ScopedTypeOK
    <2>6. native' \in {"none", "running", "gone"}
      BY <1>8, <1>t DEF StartLaunchFails, StartEnds, TryPersist, ScopedTypeOK
    <2>7. UNCHANGED <<lifecycle, execs, thread, result, parent, pc, copy>>
      BY <1>8 DEF StartLaunchFails
    <2>8. QED
      BY <1>t, <2>1, <2>2, <2>3, <2>4, <2>5, <2>6, <2>7 DEF ScopedTypeOK
  <1>9. CASE NativeEnds
    <2>1. native' \in {"none", "running", "gone"}
      BY <1>9, <1>t DEF NativeEnds, ScopedTypeOK
    <2>2. UNCHANGED <<lifecycle, status, saved, lock, execs, entry, start,
        thread, result, parent, pc, copy>>
      BY <1>9 DEF NativeEnds
    <2>3. QED
      BY <1>t, <2>1, <2>2 DEF ScopedTypeOK
  <1>10. CASE ParentEnds
    <2>1. native' \in {"none", "running", "gone"}
      BY <1>10, <1>t DEF ParentEnds, ScopedTypeOK
    <2>2. parent' \in {"none", "running", "stopping", "stopped", "lost",
        "uncertain"}
      BY <1>10, <1>t DEF ParentEnds, ScopedTypeOK
    <2>3. UNCHANGED <<lifecycle, status, saved, lock, execs, entry, start,
        thread, result, pc, copy>>
      BY <1>10 DEF ParentEnds
    <2>4. QED
      BY <1>t, <2>1, <2>2, <2>3 DEF ScopedTypeOK
  <1>11. CASE ShotReturns
    <2>1. thread' \in {"none", "running", "returned", "updated", "persisted",
        "done"}
      BY <1>11, <1>t DEF ShotReturns, Returns, ScopedTypeOK
    <2>2. result' \in [status : Status, receipt : BOOLEAN]
      BY <1>11, ReturnedShape, StShape
    <2>3. UNCHANGED <<lifecycle, status, saved, lock, execs, entry, start,
        native, parent, pc, copy>>
      BY <1>11 DEF ShotReturns
    <2>4. QED
      BY <1>t, <2>1, <2>2, <2>3 DEF ScopedTypeOK
  <1>12. CASE ShotUpdates
    <2>1. entry' \in {"absent", "active", "terminal"}
      BY <1>12, <1>t DEF ShotUpdates, ScopedTypeOK
    <2>2. thread' \in {"none", "running", "returned", "updated", "persisted",
        "done"}
      BY <1>12, <1>t DEF ShotUpdates, ScopedTypeOK
    <2>3. UNCHANGED <<lifecycle, status, saved, lock, execs, start, result,
        native, parent, pc, copy>>
      BY <1>12 DEF ShotUpdates
    <2>4. QED
      BY <1>t, <2>1, <2>2, <2>3 DEF ScopedTypeOK
  <1>13. CASE TurnReturns
    <2>1. thread' \in {"none", "running", "returned", "updated", "persisted",
        "done"}
      BY <1>13, <1>t DEF TurnReturns, Returns, ScopedTypeOK
    <2>2. result' \in [status : Status, receipt : BOOLEAN]
      BY <1>13, ReturnedShape, StShape
    <2>3. UNCHANGED <<lifecycle, status, saved, lock, execs, entry, start,
        native, parent, pc, copy>>
      BY <1>13 DEF TurnReturns
    <2>4. QED
      BY <1>t, <2>1, <2>2, <2>3 DEF ScopedTypeOK
  <1>14. CASE WorkerPersists
    <2>1. status' \in Status
      BY <1>14, <1>t DEF WorkerPersists, TryPersist, ScopedTypeOK
    <2>2. thread' \in {"none", "running", "returned", "updated", "persisted",
        "done"}
      BY <1>14, <1>t DEF WorkerPersists, TryPersist, ScopedTypeOK
    <2>3. UNCHANGED <<lifecycle, saved, lock, execs, entry, start, result,
        native, parent, pc, copy>>
      BY <1>14 DEF WorkerPersists
    <2>4. QED
      BY <1>t, <2>1, <2>2, <2>3 DEF ScopedTypeOK
  <1>15. CASE WorkerFinishes
    <2>1. saved' \in {"absent", "open", "receipt", "refused", "never"}
      BY <1>15, <1>t DEF WorkerFinishes, Outcome, ScopedTypeOK
    <2>2. thread' \in {"none", "running", "returned", "updated", "persisted",
        "done"}
      BY <1>15, <1>t DEF WorkerFinishes, Outcome, ScopedTypeOK
    <2>3. UNCHANGED <<lifecycle, status, lock, execs, entry, start, result,
        native, parent, pc, copy>>
      BY <1>15 DEF WorkerFinishes
    <2>4. QED
      BY <1>t, <2>1, <2>2, <2>3 DEF ScopedTypeOK
  <1>16. ASSUME NEW c \in Cleaners, CleanBegins(c)
        PROVE  ScopedTypeOK'
    <2>1. status' \in Status
      BY <1>16, <1>s, StShape DEF CleanBegins, TryPersist, ScopedPhases, Callers
    <2>2. saved' \in {"absent", "open", "receipt", "refused", "never"}
      BY <1>16, <1>t DEF CleanBegins, TryPersist, Goes, ScopedTypeOK
    <2>3. lock' \in Cleaners \cup {"start", "nobody"}
      BY <1>16, <1>t DEF CleanBegins, TryPersist, Goes, ScopedTypeOK
    <2>4. pc' \in [Callers -> {"idle", "fenced", "act", "write", "joining",
        "stopped", "observe", "writeLost", "writeStopping", "reply"}]
      BY <1>16, <1>t DEF CleanBegins, TryPersist, Goes, ScopedTypeOK
    <2>5. UNCHANGED <<lifecycle, execs, entry, start, thread, result, native,
        parent, copy>>
      BY <1>16 DEF CleanBegins
    <2>6. QED
      BY <1>t, <2>1, <2>2, <2>3, <2>4, <2>5 DEF ScopedTypeOK
  <1>17. ASSUME NEW c \in Cleaners, CleanLooks(c)
        PROVE  ScopedTypeOK'
    <2>1. status' \in Status
      BY <1>17, <1>s, StShape DEF CleanLooks, TryPersist, ScopedPhases, Callers
    <2>2. pc' \in [Callers -> {"idle", "fenced", "act", "write", "joining",
        "stopped", "observe", "writeLost", "writeStopping", "reply"}]
      BY <1>17, <1>t DEF CleanLooks, TryPersist, Goes, ScopedTypeOK
    <2>3. UNCHANGED <<lifecycle, saved, lock, execs, entry, start, thread,
        result, native, parent, copy>>
      BY <1>17 DEF CleanLooks
    <2>4. QED
      BY <1>t, <2>1, <2>2, <2>3 DEF ScopedTypeOK
  <1>18. ASSUME NEW c \in Cleaners, CleanCancelsShot(c)
        PROVE  ScopedTypeOK'
    <2>1. execs' \in Cleaners \cup {"nobody"}
      BY <1>18, <1>t DEF CleanCancelsShot, Loads, Goes, ScopedTypeOK
    <2>2. pc' \in [Callers -> {"idle", "fenced", "act", "write", "joining",
        "stopped", "observe", "writeLost", "writeStopping", "reply"}]
      BY <1>18, <1>t DEF CleanCancelsShot, Loads, Goes, ScopedTypeOK
    <2>3. copy' \in [Callers -> Status]
      <3>1. copy' = [copy EXCEPT ![c] = status] \/ copy' = copy
        BY <1>18 DEF CleanCancelsShot, Loads
      <3>2. QED
        BY <1>s, <3>1
    <2>4. UNCHANGED <<lifecycle, status, saved, lock, entry, start, thread,
        result, native, parent>>
      BY <1>18 DEF CleanCancelsShot
    <2>5. QED
      BY <1>t, <2>1, <2>2, <2>3, <2>4 DEF ScopedTypeOK
  <1>19. ASSUME NEW c \in Cleaners, CleanCancelsTurn(c)
        PROVE  ScopedTypeOK'
    <2>1. pc' \in [Callers -> {"idle", "fenced", "act", "write", "joining",
        "stopped", "observe", "writeLost", "writeStopping", "reply"}]
      BY <1>19, <1>t DEF CleanCancelsTurn, Loads, Goes, Stored, ScopedTypeOK
    <2>2. copy' \in [Callers -> Status]
      BY <1>19, <1>s, StShape DEF CleanCancelsTurn, Loads, Goes, Stored, ScopedPhases
    <2>3. UNCHANGED <<lifecycle, status, saved, lock, execs, entry, start,
        thread, result, native, parent>>
      BY <1>19 DEF CleanCancelsTurn
    <2>4. QED
      BY <1>t, <2>1, <2>2, <2>3 DEF ScopedTypeOK
  <1>20. ASSUME NEW c \in Cleaners, CleanWrites(c)
        PROVE  ScopedTypeOK'
    <2>1. status' \in Status
      BY <1>20, <1>s, StShape DEF CleanWrites, TryPersist, ScopedPhases, Callers
    <2>2. execs' \in Cleaners \cup {"nobody"}
      BY <1>20, <1>t DEF CleanWrites, TryPersist, Goes, ScopedTypeOK
    <2>3. pc' \in [Callers -> {"idle", "fenced", "act", "write", "joining",
        "stopped", "observe", "writeLost", "writeStopping", "reply"}]
      BY <1>20, <1>t DEF CleanWrites, TryPersist, Goes, ScopedTypeOK
    <2>4. UNCHANGED <<lifecycle, saved, lock, entry, start, thread, result,
        native, parent, copy>>
      BY <1>20 DEF CleanWrites
    <2>5. QED
      BY <1>t, <2>1, <2>2, <2>3, <2>4 DEF ScopedTypeOK
  <1>21. ASSUME NEW c \in Cleaners, CleanStops(c)
        PROVE  ScopedTypeOK'
    <2>1. parent' \in {"none", "running", "stopping", "stopped", "lost",
        "uncertain"}
      BY <1>21, <1>t DEF CleanStops, Goes, ScopedTypeOK
    <2>2. pc' \in [Callers -> {"idle", "fenced", "act", "write", "joining",
        "stopped", "observe", "writeLost", "writeStopping", "reply"}]
      BY <1>21, <1>t DEF CleanStops, Goes, ScopedTypeOK
    <2>3. UNCHANGED <<lifecycle, status, saved, lock, execs, entry, start,
        thread, result, native, copy>>
      BY <1>21 DEF CleanStops
    <2>4. QED
      BY <1>t, <2>1, <2>2, <2>3 DEF ScopedTypeOK
  <1>22. ASSUME NEW c \in Cleaners, CleanJoins(c)
        PROVE  ScopedTypeOK'
    <2>1. native' \in {"none", "running", "gone"}
      BY <1>22, <1>t DEF CleanJoins, Goes, ScopedTypeOK
    <2>2. parent' \in {"none", "running", "stopping", "stopped", "lost",
        "uncertain"}
      BY <1>22, <1>t DEF CleanJoins, Goes, ScopedTypeOK
    <2>3. pc' \in [Callers -> {"idle", "fenced", "act", "write", "joining",
        "stopped", "observe", "writeLost", "writeStopping", "reply"}]
      BY <1>22, <1>t DEF CleanJoins, Goes, ScopedTypeOK
    <2>4. UNCHANGED <<lifecycle, status, saved, lock, execs, entry, start,
        thread, result, copy>>
      BY <1>22 DEF CleanJoins
    <2>5. QED
      BY <1>t, <2>1, <2>2, <2>3, <2>4 DEF ScopedTypeOK
  <1>23. ASSUME NEW c \in Cleaners, CleanRecords(c)
        PROVE  ScopedTypeOK'
    <2>1. status' \in Status
      BY <1>23, <1>s, StShape DEF CleanRecords, TryPersist, Stored, ScopedPhases, Callers
    <2>2. pc' \in [Callers -> {"idle", "fenced", "act", "write", "joining",
        "stopped", "observe", "writeLost", "writeStopping", "reply"}]
      BY <1>23, <1>t DEF CleanRecords, TryPersist, Goes, Stored, ScopedTypeOK
    <2>3. UNCHANGED <<lifecycle, saved, lock, execs, entry, start, thread,
        result, native, parent, copy>>
      BY <1>23 DEF CleanRecords
    <2>4. QED
      BY <1>t, <2>1, <2>2, <2>3 DEF ScopedTypeOK
  <1>24. ASSUME NEW c \in Readers, ReadBegins(c)
        PROVE  ScopedTypeOK'
    <2>1. pc' \in [Callers -> {"idle", "fenced", "act", "write", "joining",
        "stopped", "observe", "writeLost", "writeStopping", "reply"}]
      BY <1>24, <1>t DEF ReadBegins, Goes, ScopedTypeOK
    <2>2. UNCHANGED <<lifecycle, status, saved, lock, execs, entry, start,
        thread, result, native, parent, copy>>
      BY <1>24 DEF ReadBegins
    <2>3. QED
      BY <1>t, <2>1, <2>2 DEF ScopedTypeOK
  <1>25. ASSUME NEW c \in Callers, Observes(c)
        PROVE  ScopedTypeOK'
    <2>1. pc' \in [Callers -> {"idle", "fenced", "act", "write", "joining",
        "stopped", "observe", "writeLost", "writeStopping", "reply"}]
      BY <1>25, <1>t DEF Observes, Loads, Goes, Stored, ScopedTypeOK
    <2>2. copy' \in [Callers -> Status]
      BY <1>25, <1>s, StShape DEF Observes, Loads, Goes, Stored, ScopedPhases
    <2>3. UNCHANGED <<lifecycle, status, saved, lock, execs, entry, start,
        thread, result, native, parent>>
      BY <1>25 DEF Observes
    <2>4. QED
      BY <1>t, <2>1, <2>2, <2>3 DEF ScopedTypeOK
  <1>26. ASSUME NEW c \in Callers, ObserverWrites(c)
        PROVE  ScopedTypeOK'
    <2>1. status' \in Status
      <3>1. copy[c].confirmed \in BOOLEAN
        BY <1>s, StShape
      <3>2. {"Uncertain", "Cancelling"} \subseteq ScopedPhases
        BY DEF ScopedPhases
      <3>3. QED
        BY <1>26, <1>s, <3>1, <3>2, StShape DEF ObserverWrites, TryPersist
    <2>2. pc' \in [Callers -> {"idle", "fenced", "act", "write", "joining",
        "stopped", "observe", "writeLost", "writeStopping", "reply"}]
      BY <1>26, <1>t DEF ObserverWrites, TryPersist, Goes, ScopedTypeOK
    <2>3. UNCHANGED <<lifecycle, saved, lock, execs, entry, start, thread,
        result, native, parent, copy>>
      BY <1>26 DEF ObserverWrites
    <2>4. QED
      BY <1>t, <2>1, <2>2, <2>3 DEF ScopedTypeOK
  <1>27. ASSUME NEW c \in Callers, Replies(c)
        PROVE  ScopedTypeOK'
    <2>1. lock' \in Cleaners \cup {"start", "nobody"}
      BY <1>27, <1>t DEF Replies, Goes, ScopedTypeOK
    <2>2. pc' \in [Callers -> {"idle", "fenced", "act", "write", "joining",
        "stopped", "observe", "writeLost", "writeStopping", "reply"}]
      BY <1>27, <1>t DEF Replies, Goes, ScopedTypeOK
    <2>3. copy' \in [Callers -> Status]
      BY <1>27, <1>s, StShape DEF Replies, Goes, ScopedPhases
    <2>4. UNCHANGED <<lifecycle, status, saved, execs, entry, start, thread,
        result, native, parent>>
      BY <1>27 DEF Replies
    <2>5. QED
      BY <1>t, <2>1, <2>2, <2>3, <2>4 DEF ScopedTypeOK
  <1>28. CASE UNCHANGED scopedVars
    BY <1>t, <1>28 DEF scopedVars, ScopedTypeOK
  <1>29. QED
    BY ScopedCases, <1>1, <1>2, <1>3, <1>4, <1>5, <1>6, <1>7, <1>8, <1>9, <1>10,
       <1>11, <1>12, <1>13, <1>14, <1>15, <1>16, <1>17, <1>18, <1>19, <1>20,
       <1>21, <1>22, <1>23, <1>24, <1>25, <1>26, <1>27, <1>28

(* The start handler. *)
LEMMA StartingStep ==
    ASSUME ScopedInv, [ScopedNext]_scopedVars
    PROVE  Starting'
  <1>i. Starting
    BY DEF ScopedInv
  <1>p. DOMAIN pc = Callers /\ Cleaners \subseteq Callers /\ Cleaners \cap Readers = {}
        /\ Callers \cap {"start", "nobody"} = {}
    BY CallerAssumption DEF ScopedInv, ScopedTypeOK, Callers
  <1>l. \A c \in Cleaners : pc[c] # "idle" => start \notin {"claimed", "registered", "admitted"}
    BY CallerAssumption DEF ScopedInv, Starting, Locked, Callers
  <1>o. \A c \in Callers : pc[c] \in {"writeLost", "writeStopping"} => Initial /\ ~copy[c].confirmed
    BY DEF ScopedInv, Observed
  <1>j. \A c \in Callers : pc[c] \in {"joining", "stopped"} => Initial
    BY DEF ScopedInv, Observed
  <1>k. \A c \in Cleaners : pc[c] = "joining" => parent = "stopping"
    BY DEF ScopedInv, Locked
  <1>1. CASE StartClaims
    BY <1>1, <1>i, <1>p, <1>l, <1>o, <1>j, <1>k DEF StartClaims, Starting, Initial, OneShot
  <1>2. CASE StartRefused
    BY <1>2, <1>i, <1>p, <1>l, <1>o, <1>j, <1>k DEF StartRefused, StartEnds, TryPersist, St, Starting, Initial, OneShot
  <1>3. CASE StartRegisters
    BY <1>3, <1>i, <1>p, <1>l, <1>o, <1>j, <1>k DEF StartRegisters, Starting, Initial, OneShot
  <1>4. CASE StartExpired
    BY <1>4, <1>i, <1>p, <1>l, <1>o, <1>j, <1>k DEF StartExpired, StartEnds, TryPersist, St, Starting, Initial, OneShot
  <1>5. CASE StartAdmits
    BY <1>5, <1>i, <1>p, <1>l, <1>o, <1>j, <1>k DEF StartAdmits, St, Starting, Initial, OneShot
  <1>6. CASE StartAdmitFails
    BY <1>6, <1>i, <1>p, <1>l, <1>o, <1>j, <1>k DEF StartAdmitFails, StartEnds, St, Starting, Initial, OneShot
  <1>7. CASE StartLaunches
    BY <1>7, <1>i, <1>p, <1>l, <1>o, <1>j, <1>k DEF StartLaunches, StartEnds, Starting, Initial, OneShot
  <1>8. CASE StartLaunchFails
    BY <1>8, <1>i, <1>p, <1>l, <1>o, <1>j, <1>k DEF StartLaunchFails, StartEnds, TryPersist, St, Starting, Initial, OneShot
  <1>9. CASE NativeEnds
    BY <1>9, <1>i, <1>p, <1>l, <1>o, <1>j, <1>k DEF NativeEnds, Starting, Initial, OneShot
  <1>10. CASE ParentEnds
    BY <1>10, <1>i, <1>p, <1>l, <1>o, <1>j, <1>k DEF ParentEnds, Starting, Initial, OneShot
  <1>11. CASE ShotReturns
    BY <1>11, <1>i, <1>p, <1>l, <1>o, <1>j, <1>k DEF ShotReturns, Returns, St, Starting, Initial, OneShot
  <1>12. CASE ShotUpdates
    BY <1>12, <1>i, <1>p, <1>l, <1>o, <1>j, <1>k DEF ShotUpdates, Starting, Initial, OneShot
  <1>13. CASE TurnReturns
    BY <1>13, <1>i, <1>p, <1>l, <1>o, <1>j, <1>k DEF TurnReturns, Returns, St, Starting, Initial, OneShot
  <1>14. CASE WorkerPersists
    BY <1>14, <1>i, <1>p, <1>l, <1>o, <1>j, <1>k DEF WorkerPersists, TryPersist, Starting, Initial, OneShot
  <1>15. CASE WorkerFinishes
    BY <1>15, <1>i, <1>p, <1>l, <1>o, <1>j, <1>k DEF WorkerFinishes, Outcome, Starting, Initial, OneShot
  <1>16. ASSUME NEW c \in Cleaners, CleanBegins(c)
        PROVE  Starting'
    BY <1>16, <1>i, <1>p, <1>l, <1>o, <1>j, <1>k DEF CleanBegins, TryPersist, St, Goes, Starting, Initial, OneShot
  <1>17. ASSUME NEW c \in Cleaners, CleanLooks(c)
        PROVE  Starting'
    BY <1>17, <1>i, <1>p, <1>l, <1>o, <1>j, <1>k DEF CleanLooks, TryPersist, St, Goes, Starting, Initial, OneShot
  <1>18. ASSUME NEW c \in Cleaners, CleanCancelsShot(c)
        PROVE  Starting'
    BY <1>18, <1>i, <1>p, <1>l, <1>o, <1>j, <1>k DEF CleanCancelsShot, Loads, Goes, Starting, Initial, OneShot
  <1>19. ASSUME NEW c \in Cleaners, CleanCancelsTurn(c)
        PROVE  Starting'
    BY <1>19, <1>i, <1>p, <1>l, <1>o, <1>j, <1>k DEF CleanCancelsTurn, Loads, Goes, Stored, Starting, Initial, OneShot
  <1>20. ASSUME NEW c \in Cleaners, CleanWrites(c)
        PROVE  Starting'
    BY <1>20, <1>i, <1>p, <1>l, <1>o, <1>j, <1>k DEF CleanWrites, TryPersist, St, Goes, Starting, Initial, OneShot
  <1>21. ASSUME NEW c \in Cleaners, CleanStops(c)
        PROVE  Starting'
    BY <1>21, <1>i, <1>p, <1>l, <1>o, <1>j, <1>k DEF CleanStops, Goes, Starting, Initial, OneShot
  <1>22. ASSUME NEW c \in Cleaners, CleanJoins(c)
        PROVE  Starting'
    BY <1>22, <1>i, <1>p, <1>l, <1>o, <1>j, <1>k DEF CleanJoins, Goes, Starting, Initial, OneShot
  <1>23. ASSUME NEW c \in Cleaners, CleanRecords(c)
        PROVE  Starting'
    BY <1>23, <1>i, <1>p, <1>l, <1>o, <1>j, <1>k DEF CleanRecords, TryPersist, St, Goes, Stored, Starting, Initial, OneShot
  <1>24. ASSUME NEW c \in Readers, ReadBegins(c)
        PROVE  Starting'
    BY <1>24, <1>i, <1>p, <1>l, <1>o, <1>j, <1>k DEF ReadBegins, Goes, Starting, Initial, OneShot
  <1>25. ASSUME NEW c \in Callers, Observes(c)
        PROVE  Starting'
    BY <1>25, <1>i, <1>p, <1>l, <1>o, <1>j, <1>k DEF Observes, Loads, Goes, Stored, Starting, Initial, OneShot
  <1>26. ASSUME NEW c \in Callers, ObserverWrites(c)
        PROVE  Starting'
    BY <1>26, <1>i, <1>p, <1>l, <1>o, <1>j, <1>k DEF ObserverWrites, TryPersist, St, Goes, Starting, Initial, OneShot
  <1>27. ASSUME NEW c \in Callers, Replies(c)
        PROVE  Starting'
    BY <1>27, <1>i, <1>p, <1>l, <1>o, <1>j, <1>k DEF Replies, Goes, St, Starting, Initial, OneShot
  <1>28. CASE UNCHANGED scopedVars
    BY <1>28, <1>i, <1>p, <1>l, <1>o, <1>j, <1>k DEF scopedVars, Starting, Initial, OneShot
  <1>29. QED
    BY ScopedCases, <1>1, <1>2, <1>3, <1>4, <1>5, <1>6, <1>7, <1>8, <1>9,
       <1>10, <1>11, <1>12, <1>13, <1>14, <1>15, <1>16, <1>17, <1>18, <1>19,
       <1>20, <1>21, <1>22, <1>23, <1>24, <1>25, <1>26, <1>27, <1>28

(* The locks. *)
LEMMA LockedStep ==
    ASSUME ScopedInv, [ScopedNext]_scopedVars
    PROVE  Locked'
  <1>i. Locked
    BY DEF ScopedInv
  <1>p. DOMAIN pc = Callers /\ Cleaners \subseteq Callers /\ Cleaners \cap Readers = {}
        /\ Callers \cap {"start", "nobody"} = {}
    BY CallerAssumption DEF ScopedInv, ScopedTypeOK, Callers
  <1>l. \A c \in Cleaners : pc[c] # "idle" => start \notin {"claimed", "registered", "admitted"}
    BY CallerAssumption DEF ScopedInv, Starting, Locked, Callers
  <1>1. CASE StartClaims
    BY <1>1, <1>i, <1>p, <1>l DEF StartClaims, Locked, Initial, OneShot
  <1>2. CASE StartRefused
    BY <1>2, <1>i, <1>p, <1>l DEF StartRefused, StartEnds, TryPersist, St, Locked, Initial, OneShot
  <1>3. CASE StartRegisters
    BY <1>3, <1>i, <1>p, <1>l DEF StartRegisters, Locked, Initial, OneShot
  <1>4. CASE StartExpired
    BY <1>4, <1>i, <1>p, <1>l DEF StartExpired, StartEnds, TryPersist, St, Locked, Initial, OneShot
  <1>5. CASE StartAdmits
    BY <1>5, <1>i, <1>p, <1>l DEF StartAdmits, St, Locked, Initial, OneShot
  <1>6. CASE StartAdmitFails
    BY <1>6, <1>i, <1>p, <1>l DEF StartAdmitFails, StartEnds, St, Locked, Initial, OneShot
  <1>7. CASE StartLaunches
    BY <1>7, <1>i, <1>p, <1>l DEF StartLaunches, StartEnds, Locked, Initial, OneShot
  <1>8. CASE StartLaunchFails
    BY <1>8, <1>i, <1>p, <1>l DEF StartLaunchFails, StartEnds, TryPersist, St, Locked, Initial, OneShot
  <1>9. CASE NativeEnds
    BY <1>9, <1>i, <1>p, <1>l DEF NativeEnds, Locked, Initial, OneShot
  <1>10. CASE ParentEnds
    BY <1>10, <1>i, <1>p, <1>l DEF ParentEnds, Locked, Initial, OneShot
  <1>11. CASE ShotReturns
    BY <1>11, <1>i, <1>p, <1>l DEF ShotReturns, Returns, St, Locked, Initial, OneShot
  <1>12. CASE ShotUpdates
    BY <1>12, <1>i, <1>p, <1>l DEF ShotUpdates, Locked, Initial, OneShot
  <1>13. CASE TurnReturns
    BY <1>13, <1>i, <1>p, <1>l DEF TurnReturns, Returns, St, Locked, Initial, OneShot
  <1>14. CASE WorkerPersists
    BY <1>14, <1>i, <1>p, <1>l DEF WorkerPersists, TryPersist, Locked, Initial, OneShot
  <1>15. CASE WorkerFinishes
    BY <1>15, <1>i, <1>p, <1>l DEF WorkerFinishes, Outcome, Locked, Initial, OneShot
  <1>16. ASSUME NEW c \in Cleaners, CleanBegins(c)
        PROVE  Locked'
    BY <1>16, <1>i, <1>p, <1>l DEF CleanBegins, TryPersist, St, Goes, Locked, Initial, OneShot
  <1>17. ASSUME NEW c \in Cleaners, CleanLooks(c)
        PROVE  Locked'
    BY <1>17, <1>i, <1>p, <1>l DEF CleanLooks, TryPersist, St, Goes, Locked, Initial, OneShot
  <1>18. ASSUME NEW c \in Cleaners, CleanCancelsShot(c)
        PROVE  Locked'
    BY <1>18, <1>i, <1>p, <1>l DEF CleanCancelsShot, Loads, Goes, Locked, Initial, OneShot
  <1>19. ASSUME NEW c \in Cleaners, CleanCancelsTurn(c)
        PROVE  Locked'
    BY <1>19, <1>i, <1>p, <1>l DEF CleanCancelsTurn, Loads, Goes, Stored, Locked, Initial, OneShot
  <1>20. ASSUME NEW c \in Cleaners, CleanWrites(c)
        PROVE  Locked'
    BY <1>20, <1>i, <1>p, <1>l DEF CleanWrites, TryPersist, St, Goes, Locked, Initial, OneShot
  <1>21. ASSUME NEW c \in Cleaners, CleanStops(c)
        PROVE  Locked'
    BY <1>21, <1>i, <1>p, <1>l DEF CleanStops, Goes, Locked, Initial, OneShot
  <1>22. ASSUME NEW c \in Cleaners, CleanJoins(c)
        PROVE  Locked'
    BY <1>22, <1>i, <1>p, <1>l DEF CleanJoins, Goes, Locked, Initial, OneShot
  <1>23. ASSUME NEW c \in Cleaners, CleanRecords(c)
        PROVE  Locked'
    BY <1>23, <1>i, <1>p, <1>l DEF CleanRecords, TryPersist, St, Goes, Stored, Locked, Initial, OneShot
  <1>24. ASSUME NEW c \in Readers, ReadBegins(c)
        PROVE  Locked'
    BY <1>24, <1>i, <1>p, <1>l DEF ReadBegins, Goes, Locked, Initial, OneShot
  <1>25. ASSUME NEW c \in Callers, Observes(c)
        PROVE  Locked'
    BY <1>25, <1>i, <1>p, <1>l DEF Observes, Loads, Goes, Stored, Locked, Initial, OneShot
  <1>26. ASSUME NEW c \in Callers, ObserverWrites(c)
        PROVE  Locked'
    BY <1>26, <1>i, <1>p, <1>l DEF ObserverWrites, TryPersist, St, Goes, Locked, Initial, OneShot
  <1>27. ASSUME NEW c \in Callers, Replies(c)
        PROVE  Locked'
    BY <1>27, <1>i, <1>p, <1>l DEF Replies, Goes, St, Locked, Initial, OneShot
  <1>28. CASE UNCHANGED scopedVars
    BY <1>28, <1>i, <1>p, <1>l DEF scopedVars, Locked, Initial, OneShot
  <1>29. QED
    BY ScopedCases, <1>1, <1>2, <1>3, <1>4, <1>5, <1>6, <1>7, <1>8, <1>9,
       <1>10, <1>11, <1>12, <1>13, <1>14, <1>15, <1>16, <1>17, <1>18, <1>19,
       <1>20, <1>21, <1>22, <1>23, <1>24, <1>25, <1>26, <1>27, <1>28

(* The observers. *)
LEMMA ObservedStep ==
    ASSUME ScopedInv, [ScopedNext]_scopedVars
    PROVE  Observed'
  <1>i. Observed
    BY DEF ScopedInv
  <1>p. DOMAIN pc = Callers /\ Cleaners \subseteq Callers /\ Cleaners \cap Readers = {}
        /\ Callers \cap {"start", "nobody"} = {}
    BY CallerAssumption DEF ScopedInv, ScopedTypeOK, Callers
  <1>c. DOMAIN copy = Callers
    BY DEF ScopedInv, ScopedTypeOK
  <1>1. CASE StartClaims
    BY <1>1, <1>i, <1>p, <1>c DEF StartClaims, Observed, Initial, OneShot
  <1>2. CASE StartRefused
    BY <1>2, <1>i, <1>p, <1>c DEF StartRefused, StartEnds, TryPersist, St, Observed, Initial, OneShot
  <1>3. CASE StartRegisters
    BY <1>3, <1>i, <1>p, <1>c DEF StartRegisters, Observed, Initial, OneShot
  <1>4. CASE StartExpired
    BY <1>4, <1>i, <1>p, <1>c DEF StartExpired, StartEnds, TryPersist, St, Observed, Initial, OneShot
  <1>5. CASE StartAdmits
    BY <1>5, <1>i, <1>p, <1>c DEF StartAdmits, St, Observed, Initial, OneShot
  <1>6. CASE StartAdmitFails
    BY <1>6, <1>i, <1>p, <1>c DEF StartAdmitFails, StartEnds, St, Observed, Initial, OneShot
  <1>7. CASE StartLaunches
    BY <1>7, <1>i, <1>p, <1>c DEF StartLaunches, StartEnds, Observed, Initial, OneShot
  <1>8. CASE StartLaunchFails
    BY <1>8, <1>i, <1>p, <1>c DEF StartLaunchFails, StartEnds, TryPersist, St, Observed, Initial, OneShot
  <1>9. CASE NativeEnds
    BY <1>9, <1>i, <1>p, <1>c DEF NativeEnds, Observed, Initial, OneShot
  <1>10. CASE ParentEnds
    BY <1>10, <1>i, <1>p, <1>c DEF ParentEnds, Observed, Initial, OneShot
  <1>11. CASE ShotReturns
    BY <1>11, <1>i, <1>p, <1>c DEF ShotReturns, Returns, St, Observed, Initial, OneShot
  <1>12. CASE ShotUpdates
    BY <1>12, <1>i, <1>p, <1>c DEF ShotUpdates, Observed, Initial, OneShot
  <1>13. CASE TurnReturns
    BY <1>13, <1>i, <1>p, <1>c DEF TurnReturns, Returns, St, Observed, Initial, OneShot
  <1>14. CASE WorkerPersists
    BY <1>14, <1>i, <1>p, <1>c DEF WorkerPersists, TryPersist, Observed, Initial, OneShot
  <1>15. CASE WorkerFinishes
    BY <1>15, <1>i, <1>p, <1>c DEF WorkerFinishes, Outcome, Observed, Initial, OneShot
  <1>16. ASSUME NEW c \in Cleaners, CleanBegins(c)
        PROVE  Observed'
    BY <1>16, <1>i, <1>p, <1>c DEF CleanBegins, TryPersist, St, Goes, Observed, Initial, OneShot
  <1>17. ASSUME NEW c \in Cleaners, CleanLooks(c)
        PROVE  Observed'
    BY <1>17, <1>i, <1>p, <1>c DEF CleanLooks, TryPersist, St, Goes, Observed, Initial, OneShot
  <1>18. ASSUME NEW c \in Cleaners, CleanCancelsShot(c)
        PROVE  Observed'
    BY <1>18, <1>i, <1>p, <1>c DEF CleanCancelsShot, Loads, Goes, Observed, Initial, OneShot
  <1>19. ASSUME NEW c \in Cleaners, CleanCancelsTurn(c)
        PROVE  Observed'
    BY <1>19, <1>i, <1>p, <1>c DEF CleanCancelsTurn, Loads, Goes, Stored, Observed, Initial, OneShot
  <1>20. ASSUME NEW c \in Cleaners, CleanWrites(c)
        PROVE  Observed'
    BY <1>20, <1>i, <1>p, <1>c DEF CleanWrites, TryPersist, St, Goes, Observed, Initial, OneShot
  <1>21. ASSUME NEW c \in Cleaners, CleanStops(c)
        PROVE  Observed'
    BY <1>21, <1>i, <1>p, <1>c DEF CleanStops, Goes, Observed, Initial, OneShot
  <1>22. ASSUME NEW c \in Cleaners, CleanJoins(c)
        PROVE  Observed'
    BY <1>22, <1>i, <1>p, <1>c DEF CleanJoins, Goes, Observed, Initial, OneShot
  <1>23. ASSUME NEW c \in Cleaners, CleanRecords(c)
        PROVE  Observed'
    BY <1>23, <1>i, <1>p, <1>c DEF CleanRecords, TryPersist, St, Goes, Stored, Observed, Initial, OneShot
  <1>24. ASSUME NEW c \in Readers, ReadBegins(c)
        PROVE  Observed'
    BY <1>24, <1>i, <1>p, <1>c DEF ReadBegins, Goes, Observed, Initial, OneShot
  <1>25. ASSUME NEW c \in Callers, Observes(c)
        PROVE  Observed'
    BY <1>25, <1>i, <1>p, <1>c DEF Observes, Loads, Goes, Stored, Observed, Initial, OneShot
  <1>26. ASSUME NEW c \in Callers, ObserverWrites(c)
        PROVE  Observed'
    BY <1>26, <1>i, <1>p, <1>c DEF ObserverWrites, TryPersist, St, Goes, Observed, Initial, OneShot
  <1>27. ASSUME NEW c \in Callers, Replies(c)
        PROVE  Observed'
    BY <1>27, <1>i, <1>p, <1>c DEF Replies, Goes, St, Observed, Initial, OneShot
  <1>28. CASE UNCHANGED scopedVars
    BY <1>28, <1>i, <1>p, <1>c DEF scopedVars, Observed, Initial, OneShot
  <1>29. QED
    BY ScopedCases, <1>1, <1>2, <1>3, <1>4, <1>5, <1>6, <1>7, <1>8, <1>9,
       <1>10, <1>11, <1>12, <1>13, <1>14, <1>15, <1>16, <1>17, <1>18, <1>19,
       <1>20, <1>21, <1>22, <1>23, <1>24, <1>25, <1>26, <1>27, <1>28

(* The worker thread. *)
LEMMA AnnouncedStep ==
    ASSUME ScopedInv, [ScopedNext]_scopedVars
    PROVE  Announced'
  <1>i. Starting /\ Announced
    BY DEF ScopedInv
  <1>p. DOMAIN pc = Callers /\ Cleaners \subseteq Callers /\ Cleaners \cap Readers = {}
        /\ Callers \cap {"start", "nobody"} = {}
    BY CallerAssumption DEF ScopedInv, ScopedTypeOK, Callers
  <1>l. \A c \in Cleaners : pc[c] # "idle" => start \notin {"claimed", "registered", "admitted"}
    BY CallerAssumption DEF ScopedInv, Starting, Locked, Callers
  <1>o. \A c \in Callers : pc[c] \in {"writeLost", "writeStopping"} => Initial /\ ~copy[c].confirmed
    BY DEF ScopedInv, Observed
  <1>j. \A c \in Callers : pc[c] \in {"joining", "stopped"} => Initial
    BY DEF ScopedInv, Observed
  <1>1. CASE StartClaims
    BY <1>1, <1>i, <1>p, <1>l, <1>o, <1>j DEF StartClaims, Announced, Starting, Initial, OneShot
  <1>2. CASE StartRefused
    BY <1>2, <1>i, <1>p, <1>l, <1>o, <1>j DEF StartRefused, StartEnds, TryPersist, St, Announced, Starting, Initial, OneShot
  <1>3. CASE StartRegisters
    BY <1>3, <1>i, <1>p, <1>l, <1>o, <1>j DEF StartRegisters, Announced, Starting, Initial, OneShot
  <1>4. CASE StartExpired
    BY <1>4, <1>i, <1>p, <1>l, <1>o, <1>j DEF StartExpired, StartEnds, TryPersist, St, Announced, Starting, Initial, OneShot
  <1>5. CASE StartAdmits
    BY <1>5, <1>i, <1>p, <1>l, <1>o, <1>j DEF StartAdmits, St, Announced, Starting, Initial, OneShot
  <1>6. CASE StartAdmitFails
    BY <1>6, <1>i, <1>p, <1>l, <1>o, <1>j DEF StartAdmitFails, StartEnds, St, Announced, Starting, Initial, OneShot
  <1>7. CASE StartLaunches
    BY <1>7, <1>i, <1>p, <1>l, <1>o, <1>j DEF StartLaunches, StartEnds, Announced, Starting, Initial, OneShot
  <1>8. CASE StartLaunchFails
    BY <1>8, <1>i, <1>p, <1>l, <1>o, <1>j DEF StartLaunchFails, StartEnds, TryPersist, St, Announced, Starting, Initial, OneShot
  <1>9. CASE NativeEnds
    BY <1>9, <1>i, <1>p, <1>l, <1>o, <1>j DEF NativeEnds, Announced, Starting, Initial, OneShot
  <1>10. CASE ParentEnds
    BY <1>10, <1>i, <1>p, <1>l, <1>o, <1>j DEF ParentEnds, Announced, Starting, Initial, OneShot
  <1>11. CASE ShotReturns
    BY <1>11, <1>i, <1>p, <1>l, <1>o, <1>j DEF ShotReturns, Returns, St, Announced, Starting, Initial, OneShot
  <1>12. CASE ShotUpdates
    BY <1>12, <1>i, <1>p, <1>l, <1>o, <1>j DEF ShotUpdates, Announced, Starting, Initial, OneShot
  <1>13. CASE TurnReturns
    <2>1. ~OneShot /\ UNCHANGED <<lifecycle, status, entry, native>>
      BY <1>13 DEF TurnReturns
    <2>2. result'.status.confirmed => /\ ~Initial /\ native = "gone"
                                     /\ result'.status.phase # "Uncertain"
      BY <1>13, ReturnedShape, StShape
    <2>3. QED
      BY <2>1, <2>2 DEF Announced, Initial, OneShot
  <1>14. CASE WorkerPersists
    BY <1>14, <1>i, <1>p, <1>l, <1>o, <1>j DEF WorkerPersists, TryPersist, Announced, Starting, Initial, OneShot
  <1>15. CASE WorkerFinishes
    BY <1>15, <1>i, <1>p, <1>l, <1>o, <1>j DEF WorkerFinishes, Outcome, Announced, Starting, Initial, OneShot
  <1>16. ASSUME NEW c \in Cleaners, CleanBegins(c)
        PROVE  Announced'
    BY <1>16, <1>i, <1>p, <1>l, <1>o, <1>j DEF CleanBegins, TryPersist, St, Goes, Announced, Starting, Initial, OneShot
  <1>17. ASSUME NEW c \in Cleaners, CleanLooks(c)
        PROVE  Announced'
    BY <1>17, <1>i, <1>p, <1>l, <1>o, <1>j DEF CleanLooks, TryPersist, St, Goes, Announced, Starting, Initial, OneShot
  <1>18. ASSUME NEW c \in Cleaners, CleanCancelsShot(c)
        PROVE  Announced'
    BY <1>18, <1>i, <1>p, <1>l, <1>o, <1>j DEF CleanCancelsShot, Loads, Goes, Announced, Starting, Initial, OneShot
  <1>19. ASSUME NEW c \in Cleaners, CleanCancelsTurn(c)
        PROVE  Announced'
    BY <1>19, <1>i, <1>p, <1>l, <1>o, <1>j DEF CleanCancelsTurn, Loads, Goes, Stored, Announced, Starting, Initial, OneShot
  <1>20. ASSUME NEW c \in Cleaners, CleanWrites(c)
        PROVE  Announced'
    BY <1>20, <1>i, <1>p, <1>l, <1>o, <1>j DEF CleanWrites, TryPersist, St, Goes, Announced, Starting, Initial, OneShot
  <1>21. ASSUME NEW c \in Cleaners, CleanStops(c)
        PROVE  Announced'
    BY <1>21, <1>i, <1>p, <1>l, <1>o, <1>j DEF CleanStops, Goes, Announced, Starting, Initial, OneShot
  <1>22. ASSUME NEW c \in Cleaners, CleanJoins(c)
        PROVE  Announced'
    BY <1>22, <1>i, <1>p, <1>l, <1>o, <1>j DEF CleanJoins, Goes, Announced, Starting, Initial, OneShot
  <1>23. ASSUME NEW c \in Cleaners, CleanRecords(c)
        PROVE  Announced'
    BY <1>23, <1>i, <1>p, <1>l, <1>o, <1>j DEF CleanRecords, TryPersist, St, Goes, Stored, Announced, Starting, Initial, OneShot
  <1>24. ASSUME NEW c \in Readers, ReadBegins(c)
        PROVE  Announced'
    BY <1>24, <1>i, <1>p, <1>l, <1>o, <1>j DEF ReadBegins, Goes, Announced, Starting, Initial, OneShot
  <1>25. ASSUME NEW c \in Callers, Observes(c)
        PROVE  Announced'
    BY <1>25, <1>i, <1>p, <1>l, <1>o, <1>j DEF Observes, Loads, Goes, Stored, Announced, Starting, Initial, OneShot
  <1>26. ASSUME NEW c \in Callers, ObserverWrites(c)
        PROVE  Announced'
    BY <1>26, <1>i, <1>p, <1>l, <1>o, <1>j DEF ObserverWrites, TryPersist, St, Goes, Announced, Starting, Initial, OneShot
  <1>27. ASSUME NEW c \in Callers, Replies(c)
        PROVE  Announced'
    BY <1>27, <1>i, <1>p, <1>l, <1>o, <1>j DEF Replies, Goes, St, Announced, Starting, Initial, OneShot
  <1>28. CASE UNCHANGED scopedVars
    BY <1>28, <1>i, <1>p, <1>l, <1>o, <1>j DEF scopedVars, Announced, Starting, Initial, OneShot
  <1>29. QED
    BY ScopedCases, <1>1, <1>2, <1>3, <1>4, <1>5, <1>6, <1>7, <1>8, <1>9,
       <1>10, <1>11, <1>12, <1>13, <1>14, <1>15, <1>16, <1>17, <1>18, <1>19,
       <1>20, <1>21, <1>22, <1>23, <1>24, <1>25, <1>26, <1>27, <1>28

(* What is confirmed. *)
LEMMA BuriedStep ==
    ASSUME ScopedInv, [ScopedNext]_scopedVars
    PROVE  Buried'
  <1>i. Starting /\ Announced /\ Buried
    BY DEF ScopedInv
  <1>p. DOMAIN pc = Callers /\ Cleaners \subseteq Callers /\ Cleaners \cap Readers = {}
        /\ Callers \cap {"start", "nobody"} = {}
    BY CallerAssumption DEF ScopedInv, ScopedTypeOK, Callers
  <1>l. \A c \in Cleaners : pc[c] # "idle" => start \notin {"claimed", "registered", "admitted"}
    BY CallerAssumption DEF ScopedInv, Starting, Locked, Callers
  <1>o. \A c \in Callers : pc[c] \in {"writeLost", "writeStopping"} => Initial /\ ~copy[c].confirmed
    BY DEF ScopedInv, Observed
  <1>j. \A c \in Callers : pc[c] \in {"joining", "stopped"} => Initial
    BY DEF ScopedInv, Observed
  <1>k. \A c \in Cleaners : pc[c] = "joining" => parent = "stopping"
    BY DEF ScopedInv, Locked
  <1>1. CASE StartClaims
    BY <1>1, <1>i, <1>p, <1>l, <1>o, <1>j, <1>k DEF StartClaims, Buried, Starting, Initial, OneShot
  <1>2. CASE StartRefused
    BY <1>2, <1>i, <1>p, <1>l, <1>o, <1>j, <1>k DEF StartRefused, StartEnds, TryPersist, St, Buried, Starting, Initial, OneShot
  <1>3. CASE StartRegisters
    BY <1>3, <1>i, <1>p, <1>l, <1>o, <1>j, <1>k DEF StartRegisters, Buried, Starting, Initial, OneShot
  <1>4. CASE StartExpired
    BY <1>4, <1>i, <1>p, <1>l, <1>o, <1>j, <1>k DEF StartExpired, StartEnds, TryPersist, St, Buried, Starting, Initial, OneShot
  <1>5. CASE StartAdmits
    BY <1>5, <1>i, <1>p, <1>l, <1>o, <1>j, <1>k DEF StartAdmits, St, Buried, Starting, Initial, OneShot
  <1>6. CASE StartAdmitFails
    BY <1>6, <1>i, <1>p, <1>l, <1>o, <1>j, <1>k DEF StartAdmitFails, StartEnds, St, Buried, Starting, Initial, OneShot
  <1>7. CASE StartLaunches
    BY <1>7, <1>i, <1>p, <1>l, <1>o, <1>j, <1>k DEF StartLaunches, StartEnds, Buried, Starting, Initial, OneShot
  <1>8. CASE StartLaunchFails
    BY <1>8, <1>i, <1>p, <1>l, <1>o, <1>j, <1>k DEF StartLaunchFails, StartEnds, TryPersist, St, Buried, Starting, Initial, OneShot
  <1>9. CASE NativeEnds
    BY <1>9, <1>i, <1>p, <1>l, <1>o, <1>j, <1>k DEF NativeEnds, Buried, Starting, Initial, OneShot
  <1>10. CASE ParentEnds
    BY <1>10, <1>i, <1>p, <1>l, <1>o, <1>j, <1>k DEF ParentEnds, Buried, Starting, Initial, OneShot
  <1>11. CASE ShotReturns
    BY <1>11, <1>i, <1>p, <1>l, <1>o, <1>j, <1>k DEF ShotReturns, Returns, St, Buried, Starting, Initial, OneShot
  <1>12. CASE ShotUpdates
    BY <1>12, <1>i, <1>p, <1>l, <1>o, <1>j, <1>k DEF ShotUpdates, Buried, Starting, Initial, OneShot
  <1>13. CASE TurnReturns
    BY <1>13, <1>i, <1>p, <1>l, <1>o, <1>j, <1>k DEF TurnReturns, Returns, St, Buried, Starting, Initial, OneShot
  <1>14. CASE WorkerPersists
    <2>1. \/ status' = status \/ (status' = result.status /\ result.status.confirmed)
          \/ ~status'.confirmed
      BY <1>14 DEF WorkerPersists, TryPersist
    <2>2. CASE status' = result.status /\ result.status.confirmed
      BY <1>14, <1>i, <2>2 DEF WorkerPersists, Announced, Buried, Initial
    <2>3. QED
      BY <1>14, <1>i, <2>1, <2>2 DEF WorkerPersists, Buried, Initial
  <1>15. CASE WorkerFinishes
    BY <1>15, <1>i, <1>p, <1>l, <1>o, <1>j, <1>k DEF WorkerFinishes, Outcome, Buried, Starting, Initial, OneShot
  <1>16. ASSUME NEW c \in Cleaners, CleanBegins(c)
        PROVE  Buried'
    BY <1>16, <1>i, <1>p, <1>l, <1>o, <1>j, <1>k DEF CleanBegins, TryPersist, St, Goes, Buried, Starting, Initial, OneShot
  <1>17. ASSUME NEW c \in Cleaners, CleanLooks(c)
        PROVE  Buried'
    BY <1>17, <1>i, <1>p, <1>l, <1>o, <1>j, <1>k DEF CleanLooks, TryPersist, St, Goes, Buried, Starting, Initial, OneShot
  <1>18. ASSUME NEW c \in Cleaners, CleanCancelsShot(c)
        PROVE  Buried'
    BY <1>18, <1>i, <1>p, <1>l, <1>o, <1>j, <1>k DEF CleanCancelsShot, Loads, Goes, Buried, Starting, Initial, OneShot
  <1>19. ASSUME NEW c \in Cleaners, CleanCancelsTurn(c)
        PROVE  Buried'
    BY <1>19, <1>i, <1>p, <1>l, <1>o, <1>j, <1>k DEF CleanCancelsTurn, Loads, Goes, Stored, Buried, Starting, Initial, OneShot
  <1>20. ASSUME NEW c \in Cleaners, CleanWrites(c)
        PROVE  Buried'
    BY <1>20, <1>i, <1>p, <1>l, <1>o, <1>j, <1>k DEF CleanWrites, TryPersist, St, Goes, Buried, Starting, Initial, OneShot
  <1>21. ASSUME NEW c \in Cleaners, CleanStops(c)
        PROVE  Buried'
    BY <1>21, <1>i, <1>p, <1>l, <1>o, <1>j, <1>k DEF CleanStops, Goes, Buried, Starting, Initial, OneShot
  <1>22. ASSUME NEW c \in Cleaners, CleanJoins(c)
        PROVE  Buried'
    BY <1>22, <1>i, <1>p, <1>l, <1>o, <1>j, <1>k DEF CleanJoins, Goes, Buried, Starting, Initial, OneShot
  <1>23. ASSUME NEW c \in Cleaners, CleanRecords(c)
        PROVE  Buried'
    BY <1>23, <1>i, <1>p, <1>l, <1>o, <1>j, <1>k DEF CleanRecords, TryPersist, St, Goes, Stored, Buried, Starting, Initial, OneShot
  <1>24. ASSUME NEW c \in Readers, ReadBegins(c)
        PROVE  Buried'
    BY <1>24, <1>i, <1>p, <1>l, <1>o, <1>j, <1>k DEF ReadBegins, Goes, Buried, Starting, Initial, OneShot
  <1>25. ASSUME NEW c \in Callers, Observes(c)
        PROVE  Buried'
    BY <1>25, <1>i, <1>p, <1>l, <1>o, <1>j, <1>k DEF Observes, Loads, Goes, Stored, Buried, Starting, Initial, OneShot
  <1>26. ASSUME NEW c \in Callers, ObserverWrites(c)
        PROVE  Buried'
    BY <1>26, <1>i, <1>p, <1>l, <1>o, <1>j, <1>k DEF ObserverWrites, TryPersist, St, Goes, Buried, Starting, Initial, OneShot
  <1>27. ASSUME NEW c \in Callers, Replies(c)
        PROVE  Buried'
    BY <1>27, <1>i, <1>p, <1>l, <1>o, <1>j, <1>k DEF Replies, Goes, St, Buried, Starting, Initial, OneShot
  <1>28. CASE UNCHANGED scopedVars
    BY <1>28, <1>i, <1>p, <1>l, <1>o, <1>j, <1>k DEF scopedVars, Buried, Starting, Initial, OneShot
  <1>29. QED
    BY ScopedCases, <1>1, <1>2, <1>3, <1>4, <1>5, <1>6, <1>7, <1>8, <1>9,
       <1>10, <1>11, <1>12, <1>13, <1>14, <1>15, <1>16, <1>17, <1>18, <1>19,
       <1>20, <1>21, <1>22, <1>23, <1>24, <1>25, <1>26, <1>27, <1>28

(* The initial state. *)
LEMMA ScopedStarts == ScopedInit => ScopedInv
  <1> SUFFICES ASSUME ScopedInit PROVE ScopedInv
    OBVIOUS
  <1>1. ScopedTypeOK
    BY CallerAssumption DEF ScopedInit, ScopedTypeOK, Status, ScopedPhases, St
  <1>2. Starting /\ Locked /\ Observed /\ Announced /\ Buried
    BY DEF ScopedInit, Starting, Locked, Observed, Announced, Buried, Initial, OneShot, St, Callers
  <1>3. QED
    BY <1>1, <1>2 DEF ScopedInv

(* Every reachable state satisfies the invariant. *)
LEMMA ScopedInvariant == ScopedSpec => []ScopedInv
  <1>1. ScopedInv /\ [ScopedNext]_scopedVars => ScopedInv'
    BY ScopedTypeStep, StartingStep, LockedStep, ObservedStep, AnnouncedStep, BuriedStep
       DEF ScopedInv
  <1>2. QED
    BY <1>1, ScopedStarts, PTL DEF ScopedSpec

(* Every variable of a scoped operation keeps its type. *)
THEOREM ScopedTyped == ScopedSpec => []ScopedTypeOK
  <1>1. ScopedInv => ScopedTypeOK
    BY DEF ScopedInv
  <1>2. QED
    BY <1>1, ScopedInvariant, PTL

(* cleanup_confirmed is never stored while the cell, child or parent of the *)
(* operation may be running, whichever of the handler, the worker thread,   *)
(* the cleanups and the reads stored it.                                    *)
THEOREM ScopedConfirmedMeansGone == ScopedSpec => []ConfirmedMeansGone
  <1>1. ScopedInv => ConfirmedMeansGone
    BY DEF ScopedInv, ScopedTypeOK, Buried, ConfirmedMeansGone, Alive
  <1>2. QED
    BY <1>1, ScopedInvariant, PTL

(* A one-shot's confirmed status is never replaced: cleanup and the worker  *)
(* thread meet at the mutex of the execution registry.                      *)
THEOREM ScopedOneShotFinal == ScopedSpec => OneShotFinal
  <1>1. ScopedInv /\ [ScopedNext]_scopedVars =>
            [OneShot /\ status.confirmed => status' = status]_scopedVars
    <2> SUFFICES ASSUME ScopedInv, ScopedNext, OneShot, status.confirmed
                 PROVE  status' = status
      BY DEF scopedVars
    <2>i. Starting /\ Locked /\ Observed /\ Announced /\ status \in Status
      BY DEF ScopedInv, ScopedTypeOK
    <2>s. start \notin {"claimed", "registered", "admitted"}
      BY <2>i DEF Starting
    <2>t. thread \notin {"running", "returned", "updated"}
      BY <2>i DEF Announced
    <2>e. entry # "active" /\ \A c \in Cleaners : pc[c] # "write"
      BY <2>i DEF Announced, Locked
    <2>o. \A c \in Callers : pc[c] \notin {"joining", "stopped", "observe", "writeLost", "writeStopping"}
      BY <2>i DEF Observed, OneShot, Initial
    <2>1. CASE \E c \in Cleaners : CleanBegins(c)
      <3>1. PICK c \in Cleaners : CleanBegins(c)
        BY <2>1
      <3>2. CASE saved \in {"absent", "never"}
        <4>1. status.phase = "Cancelled"
          BY <2>i, <3>2 DEF Starting
        <4>2. status = [phase |-> "Cancelled", confirmed |-> TRUE]
          BY <4>1, <2>i DEF Status
        <4>3. QED
          BY <3>1, <3>2, <4>2 DEF CleanBegins, TryPersist, St
      <3>3. QED
        BY <3>1, <3>2 DEF CleanBegins
    <2>2. CASE \E c \in Cleaners : CleanLooks(c) \/ CleanCancelsShot(c) \/ CleanCancelsTurn(c) \/ CleanStops(c) \/ CleanJoins(c)
      BY <2>2 DEF CleanLooks, CleanCancelsShot, CleanCancelsTurn, CleanStops, CleanJoins
    <2>3. CASE \E c \in Callers : Observes(c) \/ ObserverWrites(c) \/ Replies(c) \/ ReadBegins(c) \/ CleanRecords(c)
      BY <2>3, <2>o DEF Observes, ObserverWrites, Replies, ReadBegins, CleanRecords
    <2>4. CASE \E c \in Cleaners : CleanWrites(c)
      BY <2>4, <2>e DEF CleanWrites
    <2>5. CASE \/ StartClaims \/ StartRefused \/ StartRegisters \/ StartExpired
               \/ StartAdmits \/ StartAdmitFails \/ StartLaunches \/ StartLaunchFails
      BY <2>5, <2>s DEF StartClaims, StartRefused, StartRegisters, StartExpired,
               StartAdmits, StartAdmitFails, StartLaunches, StartLaunchFails
    <2>6. CASE NativeEnds \/ ParentEnds \/ ShotReturns \/ ShotUpdates \/ TurnReturns \/ WorkerPersists \/ WorkerFinishes
      BY <2>6, <2>t DEF NativeEnds, ParentEnds, ShotReturns, ShotUpdates, TurnReturns, WorkerPersists, WorkerFinishes
    <2>7. QED
      BY <2>1, <2>2, <2>3, <2>4, <2>5, <2>6 DEF ScopedNext, Callers
  <1>2. QED
    BY <1>1, ScopedInvariant, PTL DEF ScopedSpec, OneShotFinal

-------------------------------------------------------------------------------
(* The admission journal (AdmissionJournal) and its contract.                *)

(* The scopes that were granted a launch. *)
GrantedScopes == {s \in Scopes : grants[s] > 0}

(* What a version of a record says: a granted scope has a record that is no *)
(* "never started", an outcome is that of a grant, and what was fenced at a *)
(* sync stays fenced.                                                       *)
Fits(s, v) ==
    /\ grants[s] > 0 => v # Absent /\ v.outcome # "neverStarted"
    /\ v # Absent /\ v.outcome \in {"receipt", "refused"} => grants[s] = 1
    /\ v # Absent /\ v.outcome = "neverStarted" => v.fenced
    /\ s \in sealed => v # Absent /\ v.fenced

(* That holds of every version a power loss may leave. *)
Versions == \A s \in Scopes : \A v \in maybe[s] : Fits(s, v)

(* A scope is granted once, a turn after the start, and what was granted    *)
(* was paid for in every version of the run's record.                       *)
GrantedOnce ==
    /\ \A s \in Scopes : grants[s] \in {0, 1} /\ (grants[s] = 1 => grants[Root] = 1)
    /\ \A h \in handles : grants[h.scope] = 1
    /\ IsFiniteSet(GrantedScopes)
    /\ \A v \in maybe[Root] : v # Absent => Cardinality(GrantedScopes) <= v.accepted

(* The call that holds the lock: a claim is of a scope not yet granted nor  *)
(* reported as never started, under a run that is not fenced and has paid   *)
(* for the turn.                                                            *)
Claiming ==
    call # NoCall =>
        LET s == call.scope IN
        /\ call.kind \in {"claimParent", "claimChild"} =>
             /\ grants[s] = 0 /\ s \notin told
             /\ call.owner \in live /\ enrolment[s] = call.owner
             /\ Exists(Root) /\ ~records[Root].fenced
             /\ s # Root => /\ grants[Root] = 1
                            /\ Cardinality(GrantedScopes) < records[Root].accepted
        /\ call.kind = "claimParent" => s # Root /\ ~Exists(s)
        /\ call.kind = "claimChild" =>
             /\ Exists(s) /\ ~records[s].fenced /\ records[s].outcome = "none"
             /\ s = Root => records[s].accepted >= 1
        /\ call.kind = "never" => Exists(s) /\ records[s].outcome = "neverStarted"

(* A scope with a "never started" status was not granted.  The enrolment a  *)
(* report was about was not granted either: as long as its owner runs, the  *)
(* status is visible, and once a power loss took the status away no process *)
(* is left that could claim under that enrolment.                           *)
Standing ==
    /\ \A s \in told : grants[s] = 0
    /\ \A r \in reported :
          /\ r.owner \in 1 .. opened
          /\ r.owner \in live => r.scope \in told /\ enrolment[r.scope] = r.owner
          /\ enrolment[r.scope] = r.owner => grants[r.scope] = 0

AdmissionInv == AdmissionTypeOK /\ Versions /\ GrantedOnce /\ Claiming /\ Standing

(* The disjuncts of the next-state relation, one by one. *)
LEMMA AdmissionCases ==
    ASSUME [AdmissionNext]_admissionVars
    PROVE  \/ Open
           \/ \E p \in Owners, s \in Scopes : EnrollPrepared(p, s)
           \/ \E p \in Owners : ClaimRoot(p)
           \/ \E p \in Owners, t \in Turns : ClaimTurn(p, t)
           \/ ParentSynced
           \/ ChildSynced
           \/ \E h \in handles, o \in {"receipt", "refused"} : Finish(h, o)
           \/ \E p \in Owners, s \in Scopes : CleanupMissing(p, s)
           \/ \E p \in Owners, s \in Scopes : CleanupFence(p, s)
           \/ \E p \in Owners, s \in Scopes : CleanupAgain(p, s)
           \/ \E p \in Owners, s \in Scopes : AnswerStored(p, s)
           \/ CallSynced
           \/ CallFails
           \/ \E p \in Owners : Crash(p)
           \/ JournalLost
           \/ UNCHANGED admissionVars
  BY DEF AdmissionNext

(* The fields of a record, and of the records the journal makes from it. *)
LEMMA RecordShape ==
    ASSUME NEW r \in Record
    PROVE  /\ r # Absent /\ r.owner \in Owners /\ r.outcome \in Outcomes /\ r.fenced \in BOOLEAN
           /\ r.accepted \in 0 .. MaxTurns /\ r.active \in Scopes
  BY AdmissionAssumption DEF Record, Absent, Owners

(* The record a claim writes first: no outcome, not fenced, one admission.  *)
LEMMA CandidateShape ==
    ASSUME NEW p \in Owners, NEW s \in Scopes
    PROVE  /\ Candidate(p, s) \in Record
           /\ Candidate(p, s).outcome = "none" /\ ~Candidate(p, s).fenced
           /\ s = Root => Candidate(p, s).accepted = 1
  BY AdmissionAssumption DEF Candidate, Record, Outcomes, Scopes

(* A record with its outcome or its fence set is a record.                  *)
LEMMA EditedShape ==
    ASSUME NEW r \in Record
    PROVE  /\ \A o \in {"receipt", "refused"} :
                 /\ [r EXCEPT !.outcome = o] \in Record /\ [r EXCEPT !.outcome = o].outcome = o
                 /\ [r EXCEPT !.outcome = o].fenced = r.fenced
                 /\ [r EXCEPT !.outcome = o].accepted = r.accepted
           /\ /\ [r EXCEPT !.fenced = TRUE] \in Record /\ [r EXCEPT !.fenced = TRUE].fenced
              /\ [r EXCEPT !.fenced = TRUE].outcome = r.outcome
              /\ [r EXCEPT !.fenced = TRUE].accepted = r.accepted
           /\ \A t \in Scopes : r.accepted + 1 <= MaxTurns =>
                 /\ [r EXCEPT !.accepted = @ + 1, !.active = t] \in Record
                 /\ [r EXCEPT !.accepted = @ + 1, !.active = t].outcome = r.outcome
                 /\ [r EXCEPT !.accepted = @ + 1, !.active = t].fenced = r.fenced
                 /\ [r EXCEPT !.accepted = @ + 1, !.active = t].accepted = r.accepted + 1
  <1>1. r.accepted \in 0 .. MaxTurns
    BY DEF Record
  <1>2. \A o \in {"receipt", "refused"} : [r EXCEPT !.outcome = o] \in Record
    BY DEF Record, Outcomes
  <1>3. [r EXCEPT !.fenced = TRUE] \in Record
    BY DEF Record
  <1>4. ASSUME NEW t \in Scopes, r.accepted + 1 <= MaxTurns
        PROVE  [r EXCEPT !.accepted = @ + 1, !.active = t] \in Record
    <2>1. r.accepted + 1 \in 0 .. MaxTurns
      BY <1>1, <1>4, AdmissionAssumption
    <2>2. QED
      BY <2>1 DEF Record
  <1>5. QED
    BY <1>2, <1>3, <1>4 DEF Record

(* A publication: the scope and the record that is renamed over it. *)
Publishes(s, rec) == s \in Scopes /\ rec \in Record /\ Rename(s, rec)

(* A publication makes one record current and possible after a crash.       *)
LEMMA PublishEffect ==
    ASSUME AdmissionInv, NEW s, NEW rec, Publishes(s, rec)
    PROVE  /\ records' \in [Scopes -> Record \cup {Absent}]
           /\ maybe' \in [Scopes -> SUBSET (Record \cup {Absent})]
           /\ records'[s] = rec /\ maybe'[s] = maybe[s] \cup {rec}
           /\ \A t \in Scopes \ {s} : records'[t] = records[t] /\ maybe'[t] = maybe[t]
           /\ \A t \in Scopes : records'[t] \in maybe'[t]
  <1>1. /\ records \in [Scopes -> Record \cup {Absent}]
        /\ maybe \in [Scopes -> SUBSET (Record \cup {Absent})]
        /\ \A t \in Scopes : records[t] \in maybe[t]
    BY DEF AdmissionInv, AdmissionTypeOK
  <1>2. s \in Scopes /\ rec \in Record
    BY DEF Publishes
  <1>3. /\ records' = [records EXCEPT ![s] = rec]
        /\ maybe' = [maybe EXCEPT ![s] = maybe[s] \cup {rec}]
    BY DEF Publishes, Rename
  <1>4. maybe[s] \cup {rec} \in SUBSET (Record \cup {Absent})
    BY <1>1, <1>2
  <1>5. QED
    BY <1>1, <1>2, <1>3, <1>4

(* A published record that fits its scope keeps every version fitting.      *)
LEMMA PublishFits ==
    ASSUME AdmissionInv, NEW s, NEW rec, Publishes(s, rec), Fits(s, rec), UNCHANGED <<grants, sealed>>
    PROVE  Versions'
  <1>1. Versions /\ s \in Scopes
    BY DEF AdmissionInv, Publishes
  <1>2. QED
    BY <1>1, PublishEffect DEF Versions, Fits

(* A published record that counts the granted scopes keeps them counted.    *)
LEMMA PublishPaid ==
    ASSUME AdmissionInv, NEW s, NEW rec, Publishes(s, rec), UNCHANGED grants, handles' \subseteq handles,
           s = Root => Cardinality(GrantedScopes) <= rec.accepted
    PROVE  GrantedOnce'
  <1>1. GrantedOnce /\ s \in Scopes /\ Root \in Scopes /\ GrantedScopes' = GrantedScopes
    BY DEF AdmissionInv, Publishes, GrantedScopes, Scopes
  <1>2. ASSUME NEW v \in maybe'[Root], v # Absent
        PROVE  Cardinality(GrantedScopes) <= v.accepted
    BY <1>1, <1>2, PublishEffect DEF GrantedOnce
  <1>3. QED
    BY <1>1, <1>2 DEF GrantedOnce

(* What each of the five publishing calls publishes. *)
LEMMA Publications ==
    ASSUME AdmissionInv
    PROVE  /\ Root \in Scopes
           /\ \A p \in Owners : ClaimRoot(p) => Publishes(Root, Candidate(p, Root))
           /\ \A p \in Owners, t \in Turns : ClaimTurn(p, t) =>
                 /\ t \in Scopes \ {Root} /\ records[Root] \in Record
                 /\ Publishes(Root, [records[Root] EXCEPT !.accepted = @ + 1, !.active = t])
           /\ \A h \in handles, o \in {"receipt", "refused"} : Finish(h, o) =>
                 /\ records[h.scope] \in Record
                 /\ Publishes(h.scope, [records[h.scope] EXCEPT !.outcome = o])
           /\ \A p \in Owners, s \in Scopes : CleanupMissing(p, s) =>
                 Publishes(s, NeverStarted(s)) /\ NeverStarted(s).outcome = "neverStarted" /\ NeverStarted(s).fenced
           /\ \A p \in Owners, s \in Scopes : CleanupFence(p, s) =>
                 records[s] \in Record /\ Publishes(s, [records[s] EXCEPT !.fenced = TRUE])
  <1>1. Root \in Scopes /\ records \in [Scopes -> Record \cup {Absent}] /\ handles \subseteq Handle
        /\ enrolment \in [Scopes -> 0 .. opened] /\ opened \in 0 .. MaxOpens
    BY DEF AdmissionInv, AdmissionTypeOK, Scopes
  <1>2. ASSUME NEW p \in Owners, ClaimRoot(p)
        PROVE  Publishes(Root, Candidate(p, Root))
    BY <1>1, <1>2, CandidateShape DEF ClaimRoot, Publishes
  <1>3. ASSUME NEW p \in Owners, NEW t \in Turns, ClaimTurn(p, t)
        PROVE  /\ t \in Scopes \ {Root} /\ records[Root] \in Record
               /\ Publishes(Root, [records[Root] EXCEPT !.accepted = @ + 1, !.active = t])
    <2>1. t \in Scopes \ {Root} /\ records[Root] \in Record /\ records[Root].accepted + 1 <= MaxTurns
      BY <1>1, <1>3, AdmissionAssumption DEF ClaimTurn, ParentAccepts, Exists, Scopes
    <2>2. Rename(Root, [records[Root] EXCEPT !.accepted = @ + 1, !.active = t])
      BY <1>3 DEF ClaimTurn
    <2>3. QED
      BY <1>1, <2>1, <2>2, EditedShape DEF Publishes
  <1>4. ASSUME NEW h \in handles, NEW o \in {"receipt", "refused"}, Finish(h, o)
        PROVE  /\ records[h.scope] \in Record
               /\ Publishes(h.scope, [records[h.scope] EXCEPT !.outcome = o])
    <2>1. h.scope \in Scopes /\ records[h.scope] \in Record
      BY <1>1, <1>4 DEF Handle, Finish, Exists
    <2>2. Rename(h.scope, [records[h.scope] EXCEPT !.outcome = o])
      BY <1>4 DEF Finish
    <2>3. QED
      BY <2>1, <2>2, EditedShape DEF Publishes
  <1>5. ASSUME NEW p \in Owners, NEW s \in Scopes, CleanupMissing(p, s)
        PROVE  Publishes(s, NeverStarted(s)) /\ NeverStarted(s).outcome = "neverStarted" /\ NeverStarted(s).fenced
    <2>1. enrolment[s] \in Owners
      BY <1>1, <1>5, AdmissionAssumption DEF CleanupMissing, Owners
    <2>2. NeverStarted(s) \in Record
      BY <1>1, <2>1, AdmissionAssumption DEF NeverStarted, Record, Outcomes
    <2>3. QED
      BY <1>5, <2>2 DEF CleanupMissing, Publishes, NeverStarted
  <1>6. ASSUME NEW p \in Owners, NEW s \in Scopes, CleanupFence(p, s)
        PROVE  records[s] \in Record /\ Publishes(s, [records[s] EXCEPT !.fenced = TRUE])
    <2>1. records[s] \in Record
      BY <1>1, <1>6 DEF CleanupFence, Matches, Exists
    <2>2. QED
      BY <1>6, <2>1, EditedShape DEF CleanupFence, Publishes
  <1>7. QED
    BY <1>1, <1>2, <1>3, <1>4, <1>5, <1>6

(* A sync leaves the visible record of each scope, and seals the fenced.    *)
LEMMA SyncEffect ==
    ASSUME AdmissionInv, Synced
    PROVE  /\ maybe' \in [Scopes -> SUBSET (Record \cup {Absent})]
           /\ \A s \in Scopes : maybe'[s] = {records[s]}
           /\ sealed' \subseteq Scopes /\ sealed \subseteq sealed'
           /\ \A s \in sealed' : s \in sealed \/ (Exists(s) /\ records[s].fenced)
  BY DEF AdmissionInv, AdmissionTypeOK, Synced

(* The turn's record is renamed into place once the run's has reached the   *)
(* disk.                                                                    *)
LEMMA ParentSyncEffect ==
    ASSUME AdmissionInv, ParentSynced
    PROVE  /\ records' \in [Scopes -> Record \cup {Absent}]
           /\ maybe' \in [Scopes -> SUBSET (Record \cup {Absent})]
           /\ call.scope \in Scopes \ {Root} /\ call.owner \in Owners /\ ~Exists(call.scope)
           /\ records'[call.scope] = Candidate(call.owner, call.scope)
           /\ maybe'[call.scope] = {Absent, Candidate(call.owner, call.scope)}
           /\ \A t \in Scopes \ {call.scope} :
                 records'[t] = records[t] /\ maybe'[t] = {records[t]}
           /\ \A t \in Scopes : records'[t] \in maybe'[t]
           /\ sealed' \subseteq Scopes /\ sealed \subseteq sealed'
           /\ \A s \in sealed' : s \in sealed \/ (Exists(s) /\ records[s].fenced)
  <1>1. records \in [Scopes -> Record \cup {Absent}] /\ sealed \subseteq Scopes
    BY DEF AdmissionInv, AdmissionTypeOK
  <1>2. /\ call \in Call /\ call.kind = "claimParent"
        /\ call.scope \in Scopes \ {Root} /\ call.owner \in Owners /\ ~Exists(call.scope)
    BY DEF AdmissionInv, AdmissionTypeOK, Claiming, ParentSynced, Call
  <1>3. Candidate(call.owner, call.scope) \in Record
    BY <1>2, CandidateShape
  <1>4. /\ records' = [records EXCEPT ![call.scope] = Candidate(call.owner, call.scope)]
        /\ maybe' = [t \in Scopes |-> {records[t]} \cup
                        IF t = call.scope THEN {Candidate(call.owner, call.scope)} ELSE {}]
        /\ sealed' = sealed \cup {s \in Scopes : Exists(s) /\ records[s].fenced}
    BY DEF ParentSynced
  <1>5. /\ records' \in [Scopes -> Record \cup {Absent}]
        /\ records'[call.scope] = Candidate(call.owner, call.scope)
        /\ \A t \in Scopes \ {call.scope} : records'[t] = records[t]
    BY <1>1, <1>2, <1>3, <1>4
  <1>6. /\ \A t \in Scopes \ {call.scope} : maybe'[t] = {records[t]}
        /\ maybe'[call.scope] = {Absent, Candidate(call.owner, call.scope)}
    BY <1>2, <1>4 DEF Exists
  <1>7. maybe' \in [Scopes -> SUBSET (Record \cup {Absent})]
    <2>1. \A t \in Scopes : maybe'[t] \in SUBSET (Record \cup {Absent})
      BY <1>1, <1>2, <1>3, <1>6
    <2>2. QED
      BY <1>4, <2>1
  <1>8. QED
    BY <1>1, <1>2, <1>4, <1>5, <1>6, <1>7

(* A power loss leaves one of the versions of each record. *)
LEMMA LossEffect ==
    ASSUME AdmissionInv, JournalLost
    PROVE  /\ records' \in [Scopes -> Record \cup {Absent}]
           /\ maybe' \in [Scopes -> SUBSET (Record \cup {Absent})]
           /\ \A s \in Scopes : records'[s] \in maybe[s] /\ maybe'[s] = {records'[s]}
           /\ enrolment' \in [Scopes -> 0 .. opened]
  <1>1. /\ maybe \in [Scopes -> SUBSET (Record \cup {Absent})]
        /\ enrolment \in [Scopes -> 0 .. opened] /\ opened \in Nat
    BY AdmissionAssumption DEF AdmissionInv, AdmissionTypeOK
  <1>2. /\ \E D : records' \in [Scopes -> D]
        /\ \A s \in Scopes : records'[s] \in maybe[s]
        /\ maybe' = [s \in Scopes |-> {records'[s]}]
    BY DEF JournalLost
  <1>3. \A s \in Scopes : records'[s] \in Record \cup {Absent}
    BY <1>1, <1>2
  <1>4. records' \in [Scopes -> Record \cup {Absent}]
    BY <1>2, <1>3
  <1>5. PICK gone \in SUBSET soft :
            enrolment' = [s \in Scopes |-> IF s \in gone THEN 0 ELSE enrolment[s]]
    BY DEF JournalLost
  <1>6. \A s \in Scopes : enrolment'[s] \in 0 .. opened
    BY <1>1, <1>5
  <1>7. QED
    BY <1>2, <1>3, <1>4, <1>5, <1>6

(* Types. *)
LEMMA AdmissionTypeStep ==
    ASSUME AdmissionInv, [AdmissionNext]_admissionVars
    PROVE  AdmissionTypeOK'
  <1>t. AdmissionTypeOK
    BY DEF AdmissionInv
  <1>1. CASE Open
    <2>1. opened' \in 0 .. MaxOpens
      BY <1>1, <1>t, AdmissionAssumption DEF Open, AdmissionTypeOK
    <2>2. live' \subseteq 1 .. opened'
      BY <1>1, <1>t, AdmissionAssumption DEF Open, AdmissionTypeOK
    <2>3. enrolment' \in [Scopes -> 0 .. opened']
      BY <1>1, <1>t, AdmissionAssumption DEF Open, AdmissionTypeOK
    <2>4. maybe' \in [Scopes -> SUBSET (Record \cup {Absent})]
      BY <1>1, SyncEffect DEF Open
    <2>5. sealed' \subseteq Scopes
      BY <1>1, SyncEffect DEF Open
    <2>6. \A x \in Scopes : records'[x] \in maybe'[x]
      BY <1>1, <1>t, SyncEffect DEF Open
    <2>7. UNCHANGED <<enrolment, soft, records, call, handles, told, firm, reported, grants>>
      BY <1>1 DEF Open, statusVars
    <2>8. QED
      BY <1>t, <2>1, <2>2, <2>3, <2>4, <2>5, <2>6, <2>7 DEF AdmissionTypeOK
  <1>2. ASSUME NEW p \in Owners, NEW s \in Scopes, EnrollPrepared(p, s)
        PROVE  AdmissionTypeOK'
    <2>1. enrolment' \in [Scopes -> 0 .. opened']
      BY <1>2, <1>t, AdmissionAssumption DEF EnrollPrepared, AdmissionTypeOK
    <2>2. soft' \subseteq Scopes
      BY <1>2, <1>t DEF EnrollPrepared, AdmissionTypeOK
    <2>3. UNCHANGED <<opened, live, records, maybe, call, handles, told, firm, reported, grants,
        sealed>>
      BY <1>2 DEF EnrollPrepared, statusVars
    <2>4. QED
      BY <1>t, <2>1, <2>2, <2>3 DEF AdmissionTypeOK
  <1>3. ASSUME NEW p \in Owners, ClaimRoot(p)
        PROVE  AdmissionTypeOK'
    <2>1. records' \in [Scopes -> Record \cup {Absent}]
      BY <1>3, Publications, PublishEffect
    <2>2. maybe' \in [Scopes -> SUBSET (Record \cup {Absent})]
      BY <1>3, Publications, PublishEffect
    <2>3. call' \in Call \cup {NoCall}
      BY <1>3 DEF ClaimRoot, Call, Kinds, Scopes
    <2>4. \A x \in Scopes : records'[x] \in maybe'[x]
      BY <1>3, Publications, PublishEffect
    <2>5. UNCHANGED <<opened, live, enrolment, soft, handles, told, firm, reported, grants,
        sealed>>
      BY <1>3 DEF ClaimRoot, statusVars
    <2>6. QED
      BY <1>t, <2>1, <2>2, <2>3, <2>4, <2>5 DEF AdmissionTypeOK
  <1>4. ASSUME NEW p \in Owners, NEW t \in Turns, ClaimTurn(p, t)
        PROVE  AdmissionTypeOK'
    <2>1. records' \in [Scopes -> Record \cup {Absent}]
      BY <1>4, Publications, PublishEffect
    <2>2. maybe' \in [Scopes -> SUBSET (Record \cup {Absent})]
      BY <1>4, Publications, PublishEffect
    <2>3. call' \in Call \cup {NoCall}
      BY <1>4 DEF ClaimTurn, Call, Kinds, Scopes
    <2>4. \A x \in Scopes : records'[x] \in maybe'[x]
      BY <1>4, Publications, PublishEffect
    <2>5. UNCHANGED <<opened, live, enrolment, soft, handles, told, firm, reported, grants,
        sealed>>
      BY <1>4 DEF ClaimTurn, statusVars
    <2>6. QED
      BY <1>t, <2>1, <2>2, <2>3, <2>4, <2>5 DEF AdmissionTypeOK
  <1>5. CASE ParentSynced
    <2>1. records' \in [Scopes -> Record \cup {Absent}]
      BY <1>5, ParentSyncEffect
    <2>2. maybe' \in [Scopes -> SUBSET (Record \cup {Absent})]
      BY <1>5, ParentSyncEffect
    <2>3. call' \in Call \cup {NoCall}
      <3>1. call \in Call
        BY <1>5, <1>t DEF ParentSynced, AdmissionTypeOK
      <3>2. [call EXCEPT !.kind = "claimChild"] \in Call
        BY <3>1 DEF Call, Kinds
      <3>3. QED
        BY <1>5, <3>2 DEF ParentSynced
    <2>4. sealed' \subseteq Scopes
      BY <1>5, ParentSyncEffect
    <2>5. \A x \in Scopes : records'[x] \in maybe'[x]
      BY <1>5, ParentSyncEffect
    <2>6. UNCHANGED <<opened, live, enrolment, soft, handles, told, firm, reported, grants>>
      BY <1>5 DEF ParentSynced, statusVars
    <2>7. QED
      BY <1>t, <2>1, <2>2, <2>3, <2>4, <2>5, <2>6 DEF AdmissionTypeOK
  <1>6. CASE ChildSynced
    <2>1. maybe' \in [Scopes -> SUBSET (Record \cup {Absent})]
      BY <1>6, SyncEffect DEF ChildSynced
    <2>2. call' \in Call \cup {NoCall}
      BY <1>6, <1>t DEF ChildSynced, Synced, AdmissionTypeOK
    <2>3. handles' \subseteq Handle
      BY <1>6, <1>t DEF ChildSynced, AdmissionTypeOK, Call, Handle
    <2>4. grants' \in [Scopes -> Nat]
      BY <1>6, <1>t DEF ChildSynced, AdmissionTypeOK, Call
    <2>5. sealed' \subseteq Scopes
      BY <1>6, SyncEffect DEF ChildSynced
    <2>6. \A x \in Scopes : records'[x] \in maybe'[x]
      BY <1>6, <1>t, SyncEffect DEF ChildSynced
    <2>7. UNCHANGED <<opened, live, enrolment, soft, records, told, firm, reported>>
      BY <1>6 DEF ChildSynced, statusVars
    <2>8. QED
      BY <1>t, <2>1, <2>2, <2>3, <2>4, <2>5, <2>6, <2>7 DEF AdmissionTypeOK
  <1>7. ASSUME NEW h \in handles, NEW o \in {"receipt", "refused"}, Finish(h, o)
        PROVE  AdmissionTypeOK'
    <2>1. records' \in [Scopes -> Record \cup {Absent}]
      BY <1>7, Publications, PublishEffect
    <2>2. maybe' \in [Scopes -> SUBSET (Record \cup {Absent})]
      BY <1>7, Publications, PublishEffect
    <2>3. call' \in Call \cup {NoCall}
      BY <1>7, <1>t DEF Finish, Call, Kinds, Handle, AdmissionTypeOK
    <2>4. handles' \subseteq Handle
      BY <1>7, <1>t DEF Finish, AdmissionTypeOK
    <2>5. \A x \in Scopes : records'[x] \in maybe'[x]
      BY <1>7, Publications, PublishEffect
    <2>6. UNCHANGED <<opened, live, enrolment, soft, told, firm, reported, grants, sealed>>
      BY <1>7 DEF Finish, statusVars
    <2>7. QED
      BY <1>t, <2>1, <2>2, <2>3, <2>4, <2>5, <2>6 DEF AdmissionTypeOK
  <1>8. ASSUME NEW p \in Owners, NEW s \in Scopes, CleanupMissing(p, s)
        PROVE  AdmissionTypeOK'
    <2>1. records' \in [Scopes -> Record \cup {Absent}]
      BY <1>8, Publications, PublishEffect
    <2>2. maybe' \in [Scopes -> SUBSET (Record \cup {Absent})]
      BY <1>8, Publications, PublishEffect
    <2>3. call' \in Call \cup {NoCall}
      BY <1>8 DEF CleanupMissing, Call, Kinds, Scopes
    <2>4. \A x \in Scopes : records'[x] \in maybe'[x]
      BY <1>8, Publications, PublishEffect
    <2>5. UNCHANGED <<opened, live, enrolment, soft, handles, told, firm, reported, grants,
        sealed>>
      BY <1>8 DEF CleanupMissing, statusVars
    <2>6. QED
      BY <1>t, <2>1, <2>2, <2>3, <2>4, <2>5 DEF AdmissionTypeOK
  <1>9. ASSUME NEW p \in Owners, NEW s \in Scopes, CleanupFence(p, s)
        PROVE  AdmissionTypeOK'
    <2>1. records' \in [Scopes -> Record \cup {Absent}]
      BY <1>9, Publications, PublishEffect
    <2>2. maybe' \in [Scopes -> SUBSET (Record \cup {Absent})]
      BY <1>9, Publications, PublishEffect
    <2>3. call' \in Call \cup {NoCall}
      BY <1>9 DEF CleanupFence, Call, Kinds, Scopes
    <2>4. \A x \in Scopes : records'[x] \in maybe'[x]
      BY <1>9, Publications, PublishEffect
    <2>5. UNCHANGED <<opened, live, enrolment, soft, handles, told, firm, reported, grants,
        sealed>>
      BY <1>9 DEF CleanupFence, statusVars
    <2>6. QED
      BY <1>t, <2>1, <2>2, <2>3, <2>4, <2>5 DEF AdmissionTypeOK
  <1>10. ASSUME NEW p \in Owners, NEW s \in Scopes, CleanupAgain(p, s)
        PROVE  AdmissionTypeOK'
    <2>1. told' \subseteq Scopes /\ firm' \subseteq told'
      BY <1>10, <1>t DEF CleanupAgain, PersistNever, AdmissionTypeOK
    <2>2. UNCHANGED <<opened, live, enrolment, soft, records, maybe, call,
        handles, reported, grants, sealed>>
      BY <1>10 DEF CleanupAgain
    <2>3. QED
      BY <1>t, <2>1, <2>2 DEF AdmissionTypeOK
  <1>11. CASE CallSynced
    <2>1. maybe' \in [Scopes -> SUBSET (Record \cup {Absent})]
      BY <1>11, SyncEffect DEF CallSynced
    <2>2. call' \in Call \cup {NoCall}
      BY <1>11, <1>t DEF CallSynced, Synced, AdmissionTypeOK
    <2>3. told' \subseteq Scopes /\ firm' \subseteq told'
      BY <1>11, <1>t DEF CallSynced, PersistNever, AdmissionTypeOK, Call
    <2>4. sealed' \subseteq Scopes
      BY <1>11, SyncEffect DEF CallSynced
    <2>5. \A x \in Scopes : records'[x] \in maybe'[x]
      BY <1>11, <1>t, SyncEffect DEF CallSynced
    <2>6. UNCHANGED <<opened, live, enrolment, soft, records, handles, reported, grants>>
      BY <1>11 DEF CallSynced
    <2>7. QED
      BY <1>t, <2>1, <2>2, <2>3, <2>4, <2>5, <2>6 DEF AdmissionTypeOK
  <1>12. CASE CallFails
    <2>1. call' \in Call \cup {NoCall}
      BY <1>12, <1>t DEF CallFails, AdmissionTypeOK
    <2>2. UNCHANGED <<opened, live, enrolment, soft, records, maybe, handles,
        told, firm, reported, grants, sealed>>
      BY <1>12 DEF CallFails, statusVars
    <2>3. QED
      BY <1>t, <2>1, <2>2 DEF AdmissionTypeOK
  <1>13. ASSUME NEW p \in Owners, Crash(p)
        PROVE  AdmissionTypeOK'
    <2>1. live' \subseteq 1 .. opened'
      BY <1>13, <1>t DEF Crash, AdmissionTypeOK
    <2>2. call' \in Call \cup {NoCall}
      BY <1>13, <1>t DEF Crash, AdmissionTypeOK
    <2>3. handles' \subseteq Handle
      BY <1>13, <1>t DEF Crash, AdmissionTypeOK
    <2>4. UNCHANGED <<opened, enrolment, soft, records, maybe, told, firm, reported, grants,
        sealed>>
      BY <1>13 DEF Crash, statusVars
    <2>5. QED
      BY <1>t, <2>1, <2>2, <2>3, <2>4 DEF AdmissionTypeOK
  <1>14. CASE JournalLost
    <2>1. live' \subseteq 1 .. opened'
      BY <1>14, <1>t DEF JournalLost, AdmissionTypeOK
    <2>2. enrolment' \in [Scopes -> 0 .. opened']
      BY <1>14, LossEffect DEF JournalLost
    <2>3. soft' \subseteq Scopes
      BY <1>14, <1>t DEF JournalLost, AdmissionTypeOK
    <2>4. records' \in [Scopes -> Record \cup {Absent}]
      BY <1>14, LossEffect DEF JournalLost
    <2>5. maybe' \in [Scopes -> SUBSET (Record \cup {Absent})]
      BY <1>14, LossEffect DEF JournalLost
    <2>6. call' \in Call \cup {NoCall}
      BY <1>14, <1>t DEF JournalLost, AdmissionTypeOK
    <2>7. handles' \subseteq Handle
      BY <1>14, <1>t DEF JournalLost, AdmissionTypeOK
    <2>8. \A x \in Scopes : records'[x] \in maybe'[x]
      BY <1>14, LossEffect DEF JournalLost
    <2>9. UNCHANGED <<opened, reported, grants, sealed>>
      BY <1>14 DEF JournalLost
    <2>10. told' \subseteq told /\ firm' = told'
      BY <1>14 DEF JournalLost
    <2>11. QED
      BY <1>t, <2>1, <2>2, <2>3, <2>4, <2>5, <2>6, <2>7, <2>8, <2>9, <2>10 DEF
         AdmissionTypeOK
  <1>15. CASE UNCHANGED admissionVars
    BY <1>t, <1>15 DEF admissionVars, statusVars, AdmissionTypeOK
  <1>16. ASSUME NEW p \in Owners, NEW s \in Scopes, AnswerStored(p, s)
        PROVE  AdmissionTypeOK'
    <2>1. enrolment[s] \in Owners
      BY <1>16, <1>t, AdmissionAssumption DEF AnswerStored, AdmissionTypeOK, Owners
    <2>2. reported' \subseteq Report
      BY <1>16, <1>t, <2>1 DEF AnswerStored, AdmissionTypeOK, Report
    <2>3. UNCHANGED <<opened, live, enrolment, soft, records, maybe, call,
        handles, told, firm, grants, sealed>>
      BY <1>16 DEF AnswerStored
    <2>4. QED
      BY <1>t, <2>2, <2>3 DEF AdmissionTypeOK
  <1>17. QED
    BY AdmissionCases, <1>1, <1>2, <1>3, <1>4, <1>5, <1>6, <1>7, <1>8, <1>9,
       <1>10, <1>11, <1>12, <1>13, <1>14, <1>15, <1>16

(* What the disk may hold. *)
LEMMA VersionsStep ==
    ASSUME AdmissionInv, [AdmissionNext]_admissionVars
    PROVE  Versions'
  <1>i. Versions
    BY DEF AdmissionInv
  <1>g. \A h \in handles : grants[h.scope] = 1
    BY DEF AdmissionInv, GrantedOnce
  <1>t. /\ records \in [Scopes -> Record \cup {Absent}] /\ grants \in [Scopes -> Nat]
        /\ maybe \in [Scopes -> SUBSET (Record \cup {Absent})]
        /\ \A s \in Scopes : records[s] \in maybe[s]
    BY DEF AdmissionInv, AdmissionTypeOK
  <1>1. CASE Open
    BY <1>1, <1>i, <1>t, SyncEffect DEF Open, Versions, Fits, Exists
  <1>2. ASSUME NEW p \in Owners, NEW s \in Scopes, EnrollPrepared(p, s)
        PROVE  Versions'
    BY <1>2, <1>i DEF EnrollPrepared, Versions, Fits
  <1>3. ASSUME NEW p \in Owners, ClaimRoot(p)
        PROVE  Versions'
    <2>1. Publishes(Root, Candidate(p, Root)) /\ UNCHANGED <<grants, sealed>>
      BY <1>3, Publications DEF ClaimRoot
    <2>2. Fits(Root, Candidate(p, Root))
      BY <1>3, <1>i, <1>t, <2>1, Publications, CandidateShape, RecordShape DEF
         ClaimRoot, Versions, Fits, Exists
    <2>3. QED
      BY <2>1, <2>2, PublishFits
  <1>4. ASSUME NEW p \in Owners, NEW t \in Turns, ClaimTurn(p, t)
        PROVE  Versions'
    <2>1. Publishes(Root, [records[Root] EXCEPT !.accepted = @ + 1, !.active = t]) /\ UNCHANGED <<grants, sealed>>
      BY <1>4, Publications DEF ClaimTurn
    <2>a. /\ Fits(Root, records[Root]) /\ records[Root] \in Record /\ records[Root] # Absent
          /\ records[Root].accepted + 1 <= MaxTurns /\ t \in Scopes
      BY <1>4, <1>i, <1>t, Publications DEF ClaimTurn, ParentAccepts, Versions, Exists
    <2>b. LET new == [records[Root] EXCEPT !.accepted = @ + 1, !.active = t] IN
          /\ new # Absent
          /\ new.outcome = records[Root].outcome /\ new.fenced = records[Root].fenced
      <3>1. [records[Root] EXCEPT !.accepted = @ + 1, !.active = t] \in Record
        BY <2>1 DEF Publishes
      <3>2. QED
        BY <2>a, <3>1, RecordShape DEF Record
    <2>2. Fits(Root, [records[Root] EXCEPT !.accepted = @ + 1, !.active = t])
      BY <2>a, <2>b DEF Fits
    <2>3. QED
      BY <2>1, <2>2, PublishFits
  <1>5. CASE ParentSynced
    <2>1. /\ call.scope \in Scopes \ {Root} /\ grants[call.scope] = 0
          /\ maybe'[call.scope] = {Absent, Candidate(call.owner, call.scope)}
          /\ records[call.scope] = Absent /\ call.owner \in Owners
          /\ UNCHANGED grants
      BY <1>5, ParentSyncEffect DEF ParentSynced, AdmissionInv, Claiming, Exists
    <2>2. /\ Candidate(call.owner, call.scope).outcome = "none"
      BY <2>1, CandidateShape
    <2>3. call.scope \notin sealed'
      BY <1>5, <1>i, <1>t, <2>1, ParentSyncEffect DEF Versions, Fits, Exists
    <2>4. ASSUME NEW s \in Scopes, s = call.scope, NEW v \in maybe'[s]
          PROVE  Fits(s, v)'
      BY <2>1, <2>2, <2>3, <2>4, <1>t DEF Fits
    <2>5. ASSUME NEW s \in Scopes, s # call.scope, NEW v \in maybe'[s]
          PROVE  Fits(s, v)'
      BY <1>5, <1>i, <1>t, <2>1, <2>5, ParentSyncEffect DEF Versions, Fits, Exists
    <2>6. QED
      BY <2>4, <2>5 DEF Versions
  <1>6. CASE ChildSynced
    <2>1. /\ call \in Call /\ call.scope \in Scopes /\ grants[call.scope] = 0
          /\ Exists(call.scope) /\ ~records[call.scope].fenced /\ records[call.scope].outcome = "none"
      BY <1>6 DEF ChildSynced, AdmissionInv, AdmissionTypeOK, Claiming, Call
    <2>2. grants' = [grants EXCEPT ![call.scope] = 1]
      BY <1>6, <1>t, <2>1 DEF ChildSynced
    <2>3. UNCHANGED records /\ \A s \in Scopes : maybe'[s] = {records[s]}
      BY <1>6, SyncEffect DEF ChildSynced
    <2>4. ASSUME NEW s \in Scopes, s # call.scope, NEW v \in maybe'[s]
          PROVE  Fits(s, v)'
      BY <1>6, <1>i, <1>t, <2>1, <2>2, <2>3, <2>4, SyncEffect DEF ChildSynced, Versions, Fits, Exists
    <2>5. ASSUME NEW s \in Scopes, s = call.scope, NEW v \in maybe'[s]
          PROVE  Fits(s, v)'
      <3>1. s \notin sealed'
        BY <1>6, <1>i, <1>t, <2>1, <2>5, SyncEffect DEF ChildSynced, Versions, Fits
      <3>2. v = records[s]
        BY <2>3, <2>5
      <3>3. QED
        BY <2>1, <2>5, <3>1, <3>2 DEF Fits, Exists
    <2>6. QED
      BY <2>4, <2>5 DEF Versions
  <1>7. ASSUME NEW h \in handles, NEW o \in {"receipt", "refused"}, Finish(h, o)
        PROVE  Versions'
    <2>1. Publishes(h.scope, [records[h.scope] EXCEPT !.outcome = o]) /\ UNCHANGED <<grants, sealed>>
      BY <1>7, Publications DEF Finish
    <2>a. /\ Fits(h.scope, records[h.scope]) /\ records[h.scope] \in Record /\ records[h.scope] # Absent
          /\ grants[h.scope] = 1
      BY <1>7, <1>i, <1>t, <1>g, <2>1, Publications DEF Finish, Versions, Exists, Publishes
    <2>b. LET new == [records[h.scope] EXCEPT !.outcome = o] IN
          new # Absent /\ new.outcome = o /\ new.fenced = records[h.scope].fenced
      <3>1. [records[h.scope] EXCEPT !.outcome = o] \in Record
        BY <2>1 DEF Publishes
      <3>2. QED
        BY <2>a, <3>1, RecordShape DEF Record
    <2>2. Fits(h.scope, [records[h.scope] EXCEPT !.outcome = o])
      BY <2>a, <2>b DEF Fits
    <2>3. QED
      BY <2>1, <2>2, PublishFits
  <1>8. ASSUME NEW p \in Owners, NEW s \in Scopes, CleanupMissing(p, s)
        PROVE  Versions'
    <2>1. Publishes(s, NeverStarted(s)) /\ UNCHANGED <<grants, sealed>>
      BY <1>8, Publications DEF CleanupMissing
    <2>2. Fits(s, NeverStarted(s))
      BY <1>8, <1>i, <1>t, <2>1, Publications, RecordShape DEF CleanupMissing,
         Versions, Fits, Exists, Publishes
    <2>3. QED
      BY <2>1, <2>2, PublishFits
  <1>9. ASSUME NEW p \in Owners, NEW s \in Scopes, CleanupFence(p, s)
        PROVE  Versions'
    <2>1. Publishes(s, [records[s] EXCEPT !.fenced = TRUE]) /\ UNCHANGED <<grants, sealed>>
      BY <1>9, Publications DEF CleanupFence
    <2>2. Fits(s, [records[s] EXCEPT !.fenced = TRUE])
      BY <1>9, <1>i, <1>t, <2>1, Publications, EditedShape, RecordShape DEF
         CleanupFence, Matches, Versions, Fits, Exists, Publishes
    <2>3. QED
      BY <2>1, <2>2, PublishFits
  <1>10. ASSUME NEW p \in Owners, NEW s \in Scopes, CleanupAgain(p, s)
        PROVE  Versions'
    BY <1>10, <1>i DEF CleanupAgain, Versions, Fits
  <1>11. CASE CallSynced
    BY <1>11, <1>i, <1>t, SyncEffect DEF CallSynced, Versions, Fits, Exists
  <1>12. CASE CallFails
    BY <1>12, <1>i DEF CallFails, Versions, Fits
  <1>13. ASSUME NEW p \in Owners, Crash(p)
        PROVE  Versions'
    BY <1>13, <1>i DEF Crash, Versions, Fits
  <1>14. CASE JournalLost
    BY <1>14, <1>i, LossEffect DEF JournalLost, Versions, Fits
  <1>15. CASE UNCHANGED admissionVars
    BY <1>15, <1>i DEF admissionVars, Versions, Fits
  <1>16. ASSUME NEW p \in Owners, NEW s \in Scopes, AnswerStored(p, s)
        PROVE  Versions'
    BY <1>16, <1>i DEF AnswerStored, Versions, Fits
  <1>17. QED
    BY AdmissionCases, <1>1, <1>2, <1>3, <1>4, <1>5, <1>6, <1>7, <1>8, <1>9,
       <1>10, <1>11, <1>12, <1>13, <1>14, <1>15, <1>16

(* What was granted. *)
LEMMA GrantedOnceStep ==
    ASSUME AdmissionInv, [AdmissionNext]_admissionVars
    PROVE  GrantedOnce'
  <1>i. GrantedOnce
    BY DEF AdmissionInv
  <1>v. Versions
    BY DEF AdmissionInv
  <1>t. /\ records \in [Scopes -> Record \cup {Absent}] /\ grants \in [Scopes -> Nat] /\ Root \in Scopes
        /\ maybe \in [Scopes -> SUBSET (Record \cup {Absent})]
        /\ \A s \in Scopes : records[s] \in maybe[s]
    BY DEF AdmissionInv, AdmissionTypeOK, Scopes
  <1>1. CASE Open
    BY <1>1, <1>i, <1>t, SyncEffect DEF Open, GrantedOnce, GrantedScopes
  <1>2. ASSUME NEW p \in Owners, NEW s \in Scopes, EnrollPrepared(p, s)
        PROVE  GrantedOnce'
    BY <1>2, <1>i DEF EnrollPrepared, GrantedOnce, GrantedScopes
  <1>3. ASSUME NEW p \in Owners, ClaimRoot(p)
        PROVE  GrantedOnce'
    <2>1. /\ Publishes(Root, Candidate(p, Root))
          /\ UNCHANGED grants /\ handles' \subseteq handles
      BY <1>3, Publications DEF ClaimRoot
    <2>2. Root = Root => Cardinality(GrantedScopes) <= Candidate(p, Root).accepted
      <3>1. GrantedScopes = {}
        BY <1>3, <1>i, <1>v, <1>t DEF ClaimRoot, GrantedOnce, GrantedScopes, Versions, Fits, Exists
      <3>2. QED
        BY <3>1, <1>t, FS_EmptySet, CandidateShape, <1>3
    <2>3. QED
      BY <2>1, <2>2, PublishPaid
  <1>4. ASSUME NEW p \in Owners, NEW t \in Turns, ClaimTurn(p, t)
        PROVE  GrantedOnce'
    <2>1. /\ Publishes(Root, [records[Root] EXCEPT !.accepted = @ + 1, !.active = t])
          /\ UNCHANGED grants /\ handles' \subseteq handles
      BY <1>4, Publications DEF ClaimTurn
    <2>2. Root = Root => Cardinality(GrantedScopes) <= [records[Root] EXCEPT !.accepted = @ + 1, !.active = t].accepted
      <3>1. records[Root] \in Record /\ records[Root] \in maybe[Root]
        BY <1>4, <1>t, Publications
      <3>2. /\ Cardinality(GrantedScopes) <= records[Root].accepted /\ Cardinality(GrantedScopes) \in Nat
            /\ records[Root].accepted \in Nat
        BY <3>1, <1>i, RecordShape, FS_CardinalityType DEF GrantedOnce
      <3>3. [records[Root] EXCEPT !.accepted = @ + 1, !.active = t].accepted = records[Root].accepted + 1
        BY <3>1 DEF Record
      <3>4. QED
        BY <3>2, <3>3
    <2>3. QED
      BY <2>1, <2>2, PublishPaid
  <1>5. CASE ParentSynced
    BY <1>5, <1>i, <1>t, ParentSyncEffect DEF ParentSynced, GrantedOnce, GrantedScopes
  <1>6. CASE ChildSynced
    <2>1. /\ call \in Call /\ call.scope \in Scopes /\ grants[call.scope] = 0
          /\ Exists(Root) /\ Exists(call.scope)
          /\ call.scope # Root => /\ grants[Root] = 1
                                  /\ Cardinality(GrantedScopes) < records[Root].accepted
      BY <1>6 DEF ChildSynced, AdmissionInv, AdmissionTypeOK, Claiming, Call
    <2>2. grants' = [grants EXCEPT ![call.scope] = 1]
      BY <1>6, <1>t, <2>1 DEF ChildSynced
    <2>3. GrantedScopes' = GrantedScopes \cup {call.scope} /\ call.scope \notin GrantedScopes
      BY <1>t, <2>1, <2>2 DEF GrantedScopes
    <2>4. /\ IsFiniteSet(GrantedScopes') /\ Cardinality(GrantedScopes) \in Nat
          /\ Cardinality(GrantedScopes') = Cardinality(GrantedScopes) + 1
      BY <1>i, <2>3, FS_AddElement, FS_CardinalityType DEF GrantedOnce
    <2>5. maybe'[Root] = {records[Root]} /\ records[Root] \in Record
      BY <1>6, <1>t, <2>1, SyncEffect DEF ChildSynced, Exists
    <2>6. Cardinality(GrantedScopes') <= records[Root].accepted
      <3>1. records[Root].accepted \in Nat
        BY <2>5, RecordShape
      <3>2. CASE call.scope # Root
        BY <2>1, <2>4, <3>1, <3>2
      <3>3. CASE call.scope = Root
        <4>1. GrantedScopes = {}
          BY <1>i, <1>t, <2>1, <3>3 DEF GrantedOnce, GrantedScopes
        <4>2. Cardinality(GrantedScopes') = 1
          BY <2>4, <4>1, FS_EmptySet
        <4>3. records[Root].accepted >= 1
          BY <2>1, <3>3, <1>6 DEF ChildSynced, AdmissionInv, Claiming
        <4>4. QED
          BY <4>2, <4>3, <3>1
      <3>4. QED
        BY <3>2, <3>3
    <2>7. \A s \in Scopes : grants'[s] \in {0, 1} /\ (grants'[s] = 1 => grants'[Root] = 1)
      BY <1>i, <1>t, <2>1, <2>2 DEF GrantedOnce
    <2>8. \A h \in handles' : grants'[h.scope] = 1
      BY <1>6, <1>i, <1>t, <2>1, <2>2 DEF ChildSynced, GrantedOnce
    <2>9. QED
      BY <2>4, <2>5, <2>6, <2>7, <2>8 DEF GrantedOnce
  <1>7. ASSUME NEW h \in handles, NEW o \in {"receipt", "refused"}, Finish(h, o)
        PROVE  GrantedOnce'
    <2>1. /\ Publishes(h.scope, [records[h.scope] EXCEPT !.outcome = o])
          /\ UNCHANGED grants /\ handles' \subseteq handles
      BY <1>7, Publications DEF Finish
    <2>2. h.scope = Root => Cardinality(GrantedScopes) <= [records[h.scope] EXCEPT !.outcome = o].accepted
      <3>1. records[Root] \in maybe[Root] /\ records[h.scope] \in Record
        BY <1>7, <1>t, Publications
      <3>2. [records[h.scope] EXCEPT !.outcome = o].accepted = records[h.scope].accepted
        BY <3>1 DEF Record
      <3>3. QED
        BY <1>i, <3>1, <3>2, RecordShape DEF GrantedOnce
    <2>3. QED
      BY <2>1, <2>2, PublishPaid
  <1>8. ASSUME NEW p \in Owners, NEW s \in Scopes, CleanupMissing(p, s)
        PROVE  GrantedOnce'
    <2>1. /\ Publishes(s, NeverStarted(s))
          /\ UNCHANGED grants /\ handles' \subseteq handles
      BY <1>8, Publications DEF CleanupMissing
    <2>2. s = Root => Cardinality(GrantedScopes) <= NeverStarted(s).accepted
      <3>1. SUFFICES ASSUME s = Root PROVE Cardinality(GrantedScopes) <= 0
        BY DEF NeverStarted
      <3>2. GrantedScopes = {}
        BY <1>8, <1>i, <1>v, <1>t, <3>1 DEF CleanupMissing, GrantedOnce, GrantedScopes, Versions, Fits, Exists
      <3>3. QED
        BY <3>2, FS_EmptySet
    <2>3. QED
      BY <2>1, <2>2, PublishPaid
  <1>9. ASSUME NEW p \in Owners, NEW s \in Scopes, CleanupFence(p, s)
        PROVE  GrantedOnce'
    <2>1. /\ Publishes(s, [records[s] EXCEPT !.fenced = TRUE])
          /\ UNCHANGED grants /\ handles' \subseteq handles
      BY <1>9, Publications DEF CleanupFence
    <2>2. s = Root => Cardinality(GrantedScopes) <= [records[s] EXCEPT !.fenced = TRUE].accepted
      <3>1. records[Root] \in maybe[Root] /\ records[s] \in Record
        BY <1>9, <1>t, Publications
      <3>2. [records[s] EXCEPT !.fenced = TRUE].accepted = records[s].accepted
        BY <3>1 DEF Record
      <3>3. QED
        BY <1>i, <3>1, <3>2, RecordShape DEF GrantedOnce
    <2>3. QED
      BY <2>1, <2>2, PublishPaid
  <1>10. ASSUME NEW p \in Owners, NEW s \in Scopes, CleanupAgain(p, s)
        PROVE  GrantedOnce'
    BY <1>10, <1>i DEF CleanupAgain, GrantedOnce, GrantedScopes
  <1>11. CASE CallSynced
    BY <1>11, <1>i, <1>t, SyncEffect DEF CallSynced, GrantedOnce, GrantedScopes
  <1>12. CASE CallFails
    BY <1>12, <1>i DEF CallFails, GrantedOnce, GrantedScopes
  <1>13. ASSUME NEW p \in Owners, Crash(p)
        PROVE  GrantedOnce'
    BY <1>13, <1>i DEF Crash, GrantedOnce, GrantedScopes
  <1>14. CASE JournalLost
    BY <1>14, <1>i, <1>t, LossEffect DEF JournalLost, GrantedOnce, GrantedScopes
  <1>15. CASE UNCHANGED admissionVars
    BY <1>15, <1>i DEF admissionVars, GrantedOnce, GrantedScopes
  <1>16. ASSUME NEW p \in Owners, NEW s \in Scopes, AnswerStored(p, s)
        PROVE  GrantedOnce'
    BY <1>16, <1>i DEF AnswerStored, GrantedOnce, GrantedScopes
  <1>17. QED
    BY AdmissionCases, <1>1, <1>2, <1>3, <1>4, <1>5, <1>6, <1>7, <1>8, <1>9,
       <1>10, <1>11, <1>12, <1>13, <1>14, <1>15, <1>16

(* The call that holds the lock. *)
LEMMA ClaimingStep ==
    ASSUME AdmissionInv, [AdmissionNext]_admissionVars
    PROVE  Claiming'
  <1>i. Claiming
    BY DEF AdmissionInv
  <1>g. GrantedOnce
    BY DEF AdmissionInv
  <1>v. Versions
    BY DEF AdmissionInv
  <1>t. /\ records \in [Scopes -> Record \cup {Absent}] /\ grants \in [Scopes -> Nat]
        /\ maybe \in [Scopes -> SUBSET (Record \cup {Absent})]
        /\ \A s \in Scopes : records[s] \in maybe[s]
        /\ call \in Call \cup {NoCall} /\ enrolment \in [Scopes -> 0 .. opened]
    BY DEF AdmissionInv, AdmissionTypeOK
  <1>1. CASE Open
    BY <1>1, <1>i DEF Open, statusVars, Claiming, Exists, GrantedScopes
  <1>2. ASSUME NEW p \in Owners, NEW s \in Scopes, EnrollPrepared(p, s)
        PROVE  Claiming'
    <2>1. call # NoCall => call.owner # 0 /\ call.scope \in Scopes
      BY <1>t, AdmissionAssumption DEF Call, Owners
    <2>2. call # NoCall /\ enrolment[call.scope] # 0 => enrolment'[call.scope] = enrolment[call.scope]
      BY <1>2, <1>t, <2>1 DEF EnrollPrepared
    <2>3. UNCHANGED <<live, records, call, told, grants>>
      BY <1>2 DEF EnrollPrepared, statusVars
    <2>4. QED
      BY <1>i, <2>1, <2>2, <2>3 DEF Claiming, Exists, GrantedScopes
  <1>3. ASSUME NEW p \in Owners, ClaimRoot(p)
        PROVE  Claiming'
    <2>1. Publishes(Root, Candidate(p, Root)) /\ Root \in Scopes
      BY <1>3, Publications
    <2>2. records'[Root] = Candidate(p, Root) /\ UNCHANGED <<grants, told, live, enrolment>>
      BY <1>3, <2>1, PublishEffect DEF ClaimRoot, statusVars
    <2>3. grants[Root] = 0 /\ Root \notin told /\ p \in live /\ enrolment[Root] = p
      BY <1>3, <1>v, <1>t, <2>1 DEF ClaimRoot, MayClaim, Versions, Fits, Exists
    <2>4. /\ Candidate(p, Root) # Absent
          /\ ~Candidate(p, Root).fenced /\ Candidate(p, Root).accepted = 1
          /\ Candidate(p, Root).outcome = "none"
      BY <2>1, CandidateShape, RecordShape
    <2>5. call'.kind = "claimChild" /\ call'.scope = Root /\ call'.owner = p
      BY <1>3 DEF ClaimRoot
    <2>6. QED
      BY <2>2, <2>3, <2>4, <2>5 DEF Claiming, Exists
  <1>4. ASSUME NEW p \in Owners, NEW t \in Turns, ClaimTurn(p, t)
        PROVE  Claiming'
    <2>0. /\ t \in Scopes \ {Root} /\ records[Root] \in Record /\ Root \in Scopes
          /\ records[Root] \in maybe[Root] /\ records[t] \in maybe[t]
      BY <1>4, <1>t, Publications
    <2> DEFINE new == [records[Root] EXCEPT !.accepted = @ + 1, !.active = t]
    <2>1. Publishes(Root, new)
      BY <1>4, Publications
    <2>2. records'[Root] = new /\ records'[t] = records[t] /\ UNCHANGED <<grants, told, live, enrolment>>
      BY <1>4, <2>0, <2>1, PublishEffect DEF ClaimTurn, statusVars
    <2>3. grants[t] = 0 /\ t \notin told /\ records[t] = Absent /\ p \in live /\ enrolment[t] = p
      BY <1>4, <1>v, <1>t, <2>0 DEF ClaimTurn, MayClaim, Versions, Fits, Exists
    <2>4. new # Absent /\ new.fenced = records[Root].fenced /\ new.accepted = records[Root].accepted + 1
      <3>1. new \in Record
        BY <2>1 DEF Publishes
      <3>2. QED
        BY <2>0, <3>1, RecordShape DEF Record
    <2>5. /\ ~records[Root].fenced /\ records[Root] # Absent
          /\ records[Root].outcome \notin {"none", "refused"}
      BY <1>4 DEF ClaimTurn, ParentAccepts, PriorFinished, Exists
    <2>6. grants[Root] = 1
      <3>1. records[Root].outcome = "receipt"
        BY <1>v, <2>0, <2>5, RecordShape DEF Versions, Fits, Outcomes
      <3>2. QED
        BY <1>v, <2>0, <2>5, <3>1 DEF Versions, Fits
    <2>7. Cardinality(GrantedScopes) < new.accepted
      <3>1. /\ Cardinality(GrantedScopes) <= records[Root].accepted
            /\ Cardinality(GrantedScopes) \in Nat /\ records[Root].accepted \in Nat
        BY <1>g, <2>0, <2>5, RecordShape, FS_CardinalityType DEF GrantedOnce
      <3>2. QED
        BY <2>4, <3>1
    <2>8. call'.kind = "claimParent" /\ call'.scope = t /\ call'.owner = p /\ GrantedScopes' = GrantedScopes
      BY <1>4, <2>2 DEF ClaimTurn, GrantedScopes
    <2> HIDE DEF new
    <2>9. QED
      BY <2>0, <2>2, <2>3, <2>4, <2>5, <2>6, <2>7, <2>8 DEF Claiming, Exists
  <1>5. CASE ParentSynced
    <2>1. /\ call \in Call /\ call # NoCall /\ call.kind = "claimParent"
          /\ call.scope \in Scopes \ {Root} /\ call.owner \in Owners
          /\ Root \in Scopes
      BY <1>5, ParentSyncEffect DEF ParentSynced, AdmissionInv, AdmissionTypeOK, Scopes
    <2>2. call'.kind = "claimChild" /\ call'.scope = call.scope /\ call'.owner = call.owner
          /\ UNCHANGED <<grants, told, live, enrolment>>
      BY <1>5, <2>1 DEF ParentSynced, Call, statusVars
    <2>3. /\ records'[Root] = records[Root]
          /\ records'[call.scope] = Candidate(call.owner, call.scope)
          /\ GrantedScopes' = GrantedScopes
      BY <1>5, <2>1, <2>2, ParentSyncEffect DEF GrantedScopes
    <2>4. /\ Candidate(call.owner, call.scope) # Absent
          /\ ~Candidate(call.owner, call.scope).fenced
          /\ Candidate(call.owner, call.scope).outcome = "none"
      BY <2>1, CandidateShape, RecordShape
    <2>5. QED
      BY <1>i, <2>1, <2>2, <2>3, <2>4 DEF Claiming, Exists
  <1>6. CASE ChildSynced
    BY <1>6 DEF ChildSynced, Claiming
  <1>7. ASSUME NEW h \in handles, NEW o \in {"receipt", "refused"}, Finish(h, o)
        PROVE  Claiming'
    <2>1. call'.kind = "finish"
      BY <1>7 DEF Finish
    <2>2. QED
      BY <2>1 DEF Claiming
  <1>8. ASSUME NEW p \in Owners, NEW s \in Scopes, CleanupMissing(p, s)
        PROVE  Claiming'
    <2>1. Publishes(s, NeverStarted(s)) /\ NeverStarted(s).outcome = "neverStarted"
      BY <1>8, Publications
    <2>2. records'[s] = NeverStarted(s) /\ NeverStarted(s) # Absent
      BY <1>8, <2>1, PublishEffect, RecordShape DEF Publishes
    <2>3. call'.kind = "never" /\ call'.scope = s
      BY <1>8 DEF CleanupMissing
    <2>4. QED
      BY <2>1, <2>2, <2>3 DEF Claiming, Exists
  <1>9. ASSUME NEW p \in Owners, NEW s \in Scopes, CleanupFence(p, s)
        PROVE  Claiming'
    <2>1. call'.kind = "fence"
      BY <1>9 DEF CleanupFence
    <2>2. QED
      BY <2>1 DEF Claiming
  <1>10. ASSUME NEW p \in Owners, NEW s \in Scopes, CleanupAgain(p, s)
        PROVE  Claiming'
    BY <1>10 DEF CleanupAgain, Unlocked, Claiming
  <1>11. CASE CallSynced
    BY <1>11 DEF CallSynced, Claiming
  <1>12. CASE CallFails
    BY <1>12 DEF CallFails, Claiming
  <1>13. ASSUME NEW p \in Owners, Crash(p)
        PROVE  Claiming'
    <2>1. CASE call' = NoCall
      BY <2>1 DEF Claiming
    <2>2. CASE call' = call
      <3>1. call # NoCall => call.owner # p
        BY <1>13, <2>2 DEF Crash
      <3>2. QED
        BY <1>13, <1>i, <2>2, <3>1 DEF Crash, statusVars, Claiming, Exists, GrantedScopes
    <2>3. QED
      BY <1>13, <2>1, <2>2 DEF Crash
  <1>14. CASE JournalLost
    BY <1>14 DEF JournalLost, Claiming
  <1>15. CASE UNCHANGED admissionVars
    BY <1>15, <1>i DEF admissionVars, statusVars, Claiming, Exists, GrantedScopes
  <1>16. ASSUME NEW p \in Owners, NEW s \in Scopes, AnswerStored(p, s)
        PROVE  Claiming'
    BY <1>16, <1>i DEF AnswerStored, Claiming, Exists, GrantedScopes
  <1>17. QED
    BY AdmissionCases, <1>1, <1>2, <1>3, <1>4, <1>5, <1>6, <1>7, <1>8, <1>9,
       <1>10, <1>11, <1>12, <1>13, <1>14, <1>15, <1>16

(* What was reported as never started. *)
LEMMA StandingStep ==
    ASSUME AdmissionInv, [AdmissionNext]_admissionVars
    PROVE  Standing'
  <1>i. Standing /\ Versions /\ Claiming
    BY DEF AdmissionInv
  <1>t. /\ told \subseteq Scopes /\ grants \in [Scopes -> Nat] /\ opened \in Nat
        /\ enrolment \in [Scopes -> 0 .. opened] /\ live \subseteq 1 .. opened
        /\ \A s \in Scopes : records[s] \in maybe[s]
        /\ call \in Call \cup {NoCall}
        /\ \A r \in reported : r.scope \in Scopes
    BY AdmissionAssumption DEF AdmissionInv, AdmissionTypeOK, Report
  <1>n. ASSUME NEW s \in Scopes, Exists(s), records[s].outcome = "neverStarted"
        PROVE  grants[s] = 0
    BY <1>i, <1>t, <1>n DEF Versions, Fits, Exists
  <1>a. ASSUME NEW s \in Scopes, grants[s] = 0, told' \subseteq told \cup {s}, told \subseteq told',
               UNCHANGED <<opened, live, enrolment, reported, grants>>
        PROVE  Standing'
    BY <1>i, <1>a DEF Standing
  <1>1. ASSUME NEW p \in Owners, NEW s \in Scopes, CleanupAgain(p, s)
        PROVE  Standing'
    BY <1>a, <1>n, <1>1 DEF CleanupAgain, PersistNever, Matches
  <1>2. CASE CallSynced
    <2>1. call \in Call /\ call.scope \in Scopes
      BY <1>t, <1>2 DEF CallSynced, Call
    <2>2. CASE call.kind = "never"
      <3>1. grants[call.scope] = 0
        BY <1>i, <1>n, <1>2, <2>1, <2>2 DEF Claiming, CallSynced
      <3>2. QED
        BY <1>a, <1>2, <2>1, <2>2, <3>1 DEF CallSynced, PersistNever
    <2>3. CASE call.kind # "never"
      BY <1>i, <1>2, <2>3 DEF CallSynced, Standing
    <2>4. QED
      BY <2>2, <2>3
  <1>3. CASE ChildSynced
    <2>1. /\ call.scope \in Scopes /\ call.scope \notin told
          /\ call.owner \in live /\ enrolment[call.scope] = call.owner
      BY <1>i, <1>t, <1>3 DEF ChildSynced, Claiming, Call
    <2>2. /\ UNCHANGED <<opened, live, enrolment, told, reported>>
          /\ \A s \in Scopes \ {call.scope} : grants'[s] = grants[s]
      BY <1>t, <1>3, <2>1 DEF ChildSynced, statusVars
    <2>3. \A r \in reported : r.scope = call.scope => enrolment[r.scope] # r.owner
      BY <1>i, <2>1 DEF Standing
    <2>4. \A s \in told' : grants'[s] = 0
      BY <1>i, <1>t, <2>1, <2>2 DEF Standing
    <2>5. ASSUME NEW r \in reported'
          PROVE  /\ r.owner \in 1 .. opened'
                 /\ r.owner \in live' => r.scope \in told' /\ enrolment'[r.scope] = r.owner
                 /\ enrolment'[r.scope] = r.owner => grants'[r.scope] = 0
      BY <1>i, <1>t, <2>2, <2>3, <2>5 DEF Standing
    <2>6. QED
      BY <2>4, <2>5 DEF Standing
  <1>4. CASE UNCHANGED <<opened, live, enrolment, told, reported, grants>>
    BY <1>i, <1>4 DEF Standing
  <1>5. CASE ParentSynced \/ CallFails \/ UNCHANGED admissionVars
    BY <1>4, <1>5 DEF ParentSynced, CallFails, admissionVars, statusVars
  <1>6. ASSUME NEW p \in Owners, NEW s \in Scopes,
               ClaimRoot(p) \/ ClaimTurn(p, s) \/ CleanupMissing(p, s) \/ CleanupFence(p, s)
        PROVE  Standing'
    BY <1>4, <1>6 DEF ClaimRoot, ClaimTurn, CleanupMissing, CleanupFence, statusVars
  <1>7. ASSUME NEW h \in handles, NEW o \in {"receipt", "refused"}, Finish(h, o)
        PROVE  Standing'
    BY <1>4, <1>7 DEF Finish, statusVars
  <1>8. CASE Open
    <2>1. UNCHANGED <<enrolment, told, reported, grants>> /\ opened' = opened + 1
          /\ live' = live \cup {opened + 1}
      BY <1>8 DEF Open, statusVars
    <2>2. \A r \in reported : r.owner \in 1 .. opened' /\ r.owner # opened + 1
      BY <1>i, <1>t, <2>1 DEF Standing
    <2>3. QED
      BY <1>i, <2>1, <2>2 DEF Standing
  <1>9. ASSUME NEW p \in Owners, NEW s \in Scopes, EnrollPrepared(p, s)
        PROVE  Standing'
    <2>1. /\ p \in live /\ enrolment[s] = 0 /\ UNCHANGED <<opened, live, told, reported, grants>>
          /\ enrolment'[s] = p /\ \A x \in Scopes \ {s} : enrolment'[x] = enrolment[x]
      BY <1>9, <1>t DEF EnrollPrepared, statusVars
    <2>2. \A r \in reported : r.owner \in live => r.scope # s
      BY <1>i, <1>t, <2>1 DEF Standing
    <2>3. \A s2 \in told' : grants'[s2] = 0
      BY <1>i, <2>1 DEF Standing
    <2>4. ASSUME NEW r \in reported'
          PROVE  /\ r.owner \in 1 .. opened'
                 /\ r.owner \in live' => r.scope \in told' /\ enrolment'[r.scope] = r.owner
                 /\ enrolment'[r.scope] = r.owner => grants'[r.scope] = 0
      BY <1>i, <1>t, <2>1, <2>2, <2>4 DEF Standing
    <2>5. QED
      BY <2>3, <2>4 DEF Standing
  <1>10. ASSUME NEW p \in Owners, NEW s \in Scopes, AnswerStored(p, s)
        PROVE  Standing'
    <2>1. /\ UNCHANGED <<opened, live, enrolment, told, grants>> /\ s \in told
          /\ reported' = reported \cup {[scope |-> s, owner |-> enrolment[s]]}
          /\ enrolment[s] \in 1 .. opened
      BY <1>10, <1>t DEF AnswerStored
    <2>2. QED
      BY <1>i, <2>1 DEF Standing
  <1>11. ASSUME NEW p \in Owners, Crash(p)
        PROVE  Standing'
    BY <1>i, <1>11 DEF Crash, statusVars, Standing
  <1>12. CASE JournalLost
    <2>1. /\ UNCHANGED <<opened, reported, grants>> /\ live' = {} /\ told' \subseteq told
      BY <1>12 DEF JournalLost
    <2>2. \A s \in Scopes : enrolment'[s] \in {0, enrolment[s]}
      BY <1>12 DEF JournalLost
    <2>3. \A r \in reported : r.owner # 0
      BY <1>i, <1>t DEF Standing
    <2>4. QED
      BY <1>i, <1>t, <2>1, <2>2, <2>3 DEF Standing
  <1>13. Turns \subseteq Scopes /\ Root \in Scopes
    BY DEF Scopes
  <1>14. QED
    BY AdmissionCases, <1>1, <1>2, <1>3, <1>5, <1>6, <1>7, <1>8, <1>9, <1>10, <1>11,
       <1>12, <1>13

(* The initial state. *)
LEMMA AdmissionStarts == AdmissionInit => AdmissionInv
  <1> SUFFICES ASSUME AdmissionInit PROVE AdmissionInv
    OBVIOUS
  <1>1. AdmissionTypeOK
    BY AdmissionAssumption DEF AdmissionInit, AdmissionTypeOK
  <1>2. Versions /\ Claiming /\ Standing
    BY DEF AdmissionInit, Versions, Fits, Claiming, Standing
  <1>3. GrantedScopes = {}
    BY DEF AdmissionInit, GrantedScopes
  <1>4. GrantedOnce
    BY <1>3, FS_EmptySet DEF AdmissionInit, GrantedOnce, Scopes
  <1>5. QED
    BY <1>1, <1>2, <1>4 DEF AdmissionInv

(* Every reachable state satisfies the invariant. *)
LEMMA AdmissionInvariant == AdmissionSpec => []AdmissionInv
  <1>1. AdmissionInv /\ [AdmissionNext]_admissionVars => AdmissionInv'
    BY AdmissionTypeStep, VersionsStep, GrantedOnceStep, ClaimingStep, StandingStep DEF AdmissionInv
  <1>2. QED
    BY <1>1, AdmissionStarts, PTL DEF AdmissionSpec

(* Every variable of the admission journal keeps its type, and what is      *)
(* visible is one of the versions a power loss may leave.                   *)
THEOREM AdmissionTyped == AdmissionSpec => []AdmissionTypeOK
  <1>1. AdmissionInv => AdmissionTypeOK
    BY DEF AdmissionInv
  <1>2. QED
    BY <1>1, AdmissionInvariant, PTL

(* A scope reported as never started was not granted a launch and is not    *)
(* granted one while the status of the report or the enrolment it was about *)
(* is on the disk: a power loss may take the record away the report rests   *)
(* on, or the status, whose directory sync may have failed.                 *)
THEOREM AdmissionPermanentlyFenced == AdmissionSpec => []PermanentlyFenced
  <1>1. AdmissionInv => PermanentlyFenced
    BY DEF AdmissionInv, Standing, PermanentlyFenced
  <1>2. QED
    BY <1>1, AdmissionInvariant, PTL

(* The contract counts as the journal does. *)
LEMMA SameCardinality == \A S : Contract!Cardinality(S) = Cardinality(S)
  BY DEF Contract!Cardinality, Cardinality

(* The journal implements its contract: each of its steps grants nothing,   *)
(* or is the one grant of a scope that is not fenced on the disk, within    *)
(* the run's budget of turns.                                               *)
THEOREM AdmissionRefinesContract == AdmissionSpec => ImplementsContract
  <1>1. AdmissionInit => Contract!Init
    BY DEF AdmissionInit, Contract!Init, Scopes, Contract!Scopes
  <1>2. AdmissionInv /\ [AdmissionNext]_admissionVars => [Contract!Next]_(Contract!vars)
    <2> SUFFICES ASSUME AdmissionInv, [AdmissionNext]_admissionVars
                 PROVE  [Contract!Next]_(Contract!vars)
      OBVIOUS
    <2>t. /\ Scopes = Contract!Scopes /\ sealed \subseteq Scopes /\ grants \in [Scopes -> Nat]
          /\ \A s \in Scopes : records[s] \in maybe[s]
      BY DEF AdmissionInv, AdmissionTypeOK, Scopes, Contract!Scopes
    <2>1. CASE UNCHANGED <<grants, sealed>>
      BY <2>1 DEF Contract!vars
    <2>2. CASE Open \/ ParentSynced \/ CallSynced
      <3>1. UNCHANGED grants /\ sealed \subseteq sealed' /\ sealed' \subseteq Scopes
        BY <2>2, SyncEffect, ParentSyncEffect DEF Open, ParentSynced, CallSynced
      <3>2. QED
        BY <2>t, <3>1 DEF Contract!Next, Contract!Seal
    <2>3. CASE ChildSynced
      <3>1. /\ call \in Call /\ call.scope \in Scopes /\ Root \in Scopes
            /\ grants[call.scope] = 0
            /\ records[Root] # Absent /\ ~records[Root].fenced
            /\ records[call.scope] # Absent /\ ~records[call.scope].fenced
            /\ call.scope # Root => /\ grants[Root] = 1
                                    /\ Cardinality(GrantedScopes) < records[Root].accepted
        BY <2>3 DEF ChildSynced, AdmissionInv, AdmissionTypeOK, Claiming, Call, Exists, Scopes
      <3>2. call.scope \notin sealed /\ Root \notin sealed
        BY <2>t, <3>1 DEF AdmissionInv, Versions, Fits
      <3>3. Cardinality(GrantedScopes) < MaxTurns
        <4>1. CASE call.scope = Root
          <5>1. GrantedScopes = {}
            BY <2>t, <3>1, <4>1 DEF AdmissionInv, GrantedOnce, GrantedScopes
          <5>2. QED
            BY <5>1, FS_EmptySet, AdmissionAssumption
        <4>2. CASE call.scope # Root
          <5>1. records[Root] \in Record
            BY <3>1 DEF AdmissionInv, AdmissionTypeOK
          <5>2. records[Root].accepted \in 0 .. MaxTurns /\ Cardinality(GrantedScopes) \in Nat
            BY <5>1, RecordShape, FS_CardinalityType DEF AdmissionInv, GrantedOnce
          <5>3. QED
            BY <3>1, <4>2, <5>2, AdmissionAssumption
        <4>3. QED
          BY <4>1, <4>2
      <3>4. grants' = [grants EXCEPT ![call.scope] = 1]
        BY <2>3, <2>t, <3>1 DEF ChildSynced
      <3>5. Contract!Grant(call.scope)
        <4>1. GrantedScopes = {t \in Contract!Scopes : grants[t] > 0}
          BY <2>t DEF GrantedScopes
        <4>2. Contract!Cardinality({t \in Contract!Scopes : grants[t] > 0}) < MaxTurns
          BY <3>3, <4>1, SameCardinality
        <4>3. QED
          BY <3>1, <3>2, <3>4, <4>2 DEF Contract!Grant
      <3>6. Contract!Seal
        BY <2>3, <2>t, SyncEffect DEF ChildSynced, Contract!Seal
      <3>7. QED
        BY <2>t, <3>1, <3>5, <3>6 DEF Contract!Next
    <2>4. ASSUME NEW p \in Owners, NEW s \in Scopes,
                 \/ EnrollPrepared(p, s) \/ ClaimRoot(p) \/ ClaimTurn(p, s) \/ Crash(p)
                 \/ CleanupMissing(p, s) \/ CleanupFence(p, s) \/ CleanupAgain(p, s)
                 \/ AnswerStored(p, s)
          PROVE  UNCHANGED <<grants, sealed>>
      BY <2>4 DEF EnrollPrepared, ClaimRoot, ClaimTurn, Crash, CleanupMissing, CleanupFence,
                  CleanupAgain, AnswerStored
    <2>5. ASSUME \/ CallFails \/ JournalLost \/ UNCHANGED admissionVars
                 \/ \E h \in handles, o \in {"receipt", "refused"} : Finish(h, o)
          PROVE  UNCHANGED <<grants, sealed>>
      BY <2>5 DEF CallFails, JournalLost, admissionVars, Finish
    <2>6. Turns \subseteq Scopes /\ Root \in Scopes
      BY DEF Scopes
    <2>7. QED
      BY AdmissionCases, <2>1, <2>2, <2>3, <2>4, <2>5, <2>6
  <1>3. QED
    BY <1>1, <1>2, AdmissionInvariant, PTL DEF AdmissionSpec, ImplementsContract, Contract!Spec

-------------------------------------------------------------------------------
(* A turn of a retained parent (ScopedTurn).                                 *)

(* The parent's thread: the slot is its turn's, a cell is the one it runs,  *)
(* and a parent that was stopped and joined has none.                       *)
Supplying ==
    /\ slot.turn = supply.turn
    /\ supply.at = "idle" <=> supply.turn = NoTurn
    /\ supply.turn # NoTurn => turnStatus[supply.turn] # "absent"
    /\ cell # NoTurn => supply.at = "running" /\ supply.turn = cell
    /\ supply.at \in {"nested", "supplied", "running"} => nested # "none"
    /\ retained = "stopped" /\ cleaner.at # "stopping" => supply.at = "idle"

(* A command waits alone in the channel, and its broker waits for it unless *)
(* the turn was cancelled.                                                  *)
Queued ==
    submitted # <<>> =>
        \E t \in ScopedTurns :
            /\ submitted = <<t>> /\ supply.turn # t /\ turnStatus[t] # "absent"
            /\ t \in pending \/ control[t] # "live"

(* A cancellation has reached t: its own control is over, or it has no      *)
(* broker waiting and what it may still hold is over or will be.            *)
Struck(t) ==
    \/ control[t] # "live"
    \/ t \notin pending /\ (supply.turn = t => slot.cancelled /\ nested # "live")

(* How far the cleanup of a turn got. *)
Cleaning ==
    /\ cleaner.at = "idle" => cleaner = NoCleanup
    /\ cleaner.at \in {"found", "pending", "active", "cancelled"} =>
          /\ cleaner.turn \in ScopedTurns /\ turnStatus[cleaner.turn] # "absent"
          /\ cleaner.found /\ cleaner.at # "found" => control[cleaner.turn] # "live"
          /\ ~cleaner.found => cleaner.turn \notin pending
          /\ cleaner.at = "cancelled" => Struck(cleaner.turn)

(* A cleanup that was answered has reached its turn. *)
Answered == \A t \in ScopedTurns : turnStatus[t] = "Cancelling" => Struck(t)

TurnInv == TurnTypeOK /\ Supplying /\ Queued /\ Cleaning /\ Answered

(* The disjuncts of the next-state relation, one by one. *)
LEMMA TurnCases ==
    ASSUME [TurnsNext]_turnVars
    PROVE  \/ SpawnParent
           \/ Reserve
           \/ TakeBroker
           \/ NestControl
           \/ EnterActive
           \/ LaunchTurn
           \/ CellGone
           \/ AnswerTurn
           \/ CancelPending
           \/ CancelActive
           \/ CancelSlot
           \/ AnswerCleanup
           \/ CleanParent
           \/ StopParent
           \/ ParentJoined
           \/ \E t \in ScopedTurns : RefuseTurn(t)
           \/ \E t \in ScopedTurns : SubmitTurn(t)
           \/ \E t \in ScopedTurns : FinishTurn(t)
           \/ \E t \in ScopedTurns : CleanTurn(t)
           \/ \E t \in ScopedTurns : TurnExpires(t)
           \/ UNCHANGED turnVars
  BY DEF TurnsNext

(* What is cancelled is no longer live, and nothing else changes. *)
LEMMA CancelShape ==
    ASSUME TurnTypeOK, NEW t \in ScopedTurns
    PROVE  /\ CancelOf(t) \in [ScopedTurns -> {"none", "live", "cancelled", "expired"}]
           /\ CancelOf(t)[t] # "live"
           /\ \A u \in ScopedTurns : CancelOf(t)[u] = control[u] \/ CancelOf(t)[u] = "cancelled"
  BY DEF TurnTypeOK, CancelOf

(* The one command in the channel. *)
LEMMA QueueHead ==
    ASSUME TurnInv, submitted # <<>>
    PROVE  \E t \in ScopedTurns :
              /\ submitted = <<t>> /\ Head(submitted) = t /\ Tail(submitted) = <<>>
              /\ supply.turn # t /\ turnStatus[t] # "absent" /\ t # NoTurn
              /\ t \in pending \/ control[t] # "live"
  <1>1. PICK t \in ScopedTurns :
            /\ submitted = <<t>> /\ supply.turn # t /\ turnStatus[t] # "absent"
            /\ t \in pending \/ control[t] # "live"
    BY DEF TurnInv, Queued
  <1>2. Head(<<t>>) = t /\ Tail(<<t>>) = <<>>
    OBVIOUS
  <1>3. QED
    BY <1>1, <1>2, TurnAssumption

(* Types. *)
LEMMA TurnTypeStep ==
    ASSUME TurnInv, [TurnsNext]_turnVars
    PROVE  TurnTypeOK'
  <1>t. TurnTypeOK
    BY DEF TurnInv
  <1>c. cleaner.at \in {"found", "pending", "active", "cancelled"} => cleaner.turn \in ScopedTurns
    BY DEF TurnInv, Cleaning
  <1>q. submitted # <<>> => Head(submitted) \in ScopedTurns /\ Tail(submitted) = <<>>
    BY QueueHead
  <1>u. supply.at # "idle" => supply.turn \in ScopedTurns
    BY DEF TurnInv, Supplying, TurnTypeOK
  <1>1. CASE SpawnParent
    <2>1. retained' \in {"none", "running", "stopped", "lost"}
      BY <1>1, <1>t DEF SpawnParent, TurnTypeOK
    <2>2. UNCHANGED <<control, pending, active, results, submitted, slot, supply,
        nested, cell, answers, turnStatus, cleaner>>
      BY <1>1 DEF SpawnParent
    <2>3. QED
      BY <1>t, <2>1, <2>2 DEF TurnTypeOK
  <1>2. CASE Reserve
    <2>1. submitted' \in Seq(ScopedTurns)
      <3>1. submitted' = <<>>
        BY <1>2, <1>q DEF Reserve
      <3>2. QED
        BY <3>1
    <2>2. slot' \in [turn : ScopedTurns \cup {NoTurn}, cancelled : BOOLEAN]
      <3>1. slot' = slot \/ slot' = [turn |-> Head(submitted), cancelled |-> FALSE]
        BY <1>2 DEF Reserve
      <3>2. QED
        <4>1. Head(submitted) \in ScopedTurns /\ slot \in [turn : ScopedTurns \cup {NoTurn}, cancelled : BOOLEAN]
          BY <1>2, <1>q, <1>t DEF Reserve, TurnTypeOK
        <4>2. \A t \in ScopedTurns : [turn |-> t, cancelled |-> FALSE] \in [turn : ScopedTurns \cup {NoTurn}, cancelled : BOOLEAN]
          OBVIOUS
        <4>3. PICK t \in ScopedTurns : t = Head(submitted)
          BY <4>1
        <4>4. slot' = slot \/ slot' = [turn |-> t, cancelled |-> FALSE]
          BY <3>1, <4>3
        <4>5. QED
          BY <4>1, <4>2, <4>4
    <2>3. supply' \in [at : {"idle", "reserved", "taken", "nested", "supplied", "running", "answered", "failed"}, turn : ScopedTurns \cup {NoTurn}]
      BY <1>2, <1>q, <1>t DEF Reserve, GoesTo, TurnTypeOK
    <2>4. answers' \in [ScopedTurns -> {"none", "refused", "error", "completed"}]
      BY <1>2, <1>q, <1>t DEF Reserve, GoesTo, TurnTypeOK
    <2>5. UNCHANGED <<retained, control, pending, active, results, nested, cell,
        turnStatus, cleaner>>
      BY <1>2 DEF Reserve
    <2>6. QED
      BY <1>t, <2>1, <2>2, <2>3, <2>4, <2>5 DEF TurnTypeOK
  <1>3. CASE TakeBroker
    <2>1. pending' \subseteq ScopedTurns
      BY <1>3, <1>t DEF TakeBroker, GoesTo, TurnTypeOK
    <2>2. supply' \in [at : {"idle", "reserved", "taken", "nested", "supplied",
        "running", "answered", "failed"}, turn : ScopedTurns \cup {NoTurn}]
      BY <1>3, <1>t DEF TakeBroker, GoesTo, TurnTypeOK
    <2>3. UNCHANGED <<retained, control, active, results, submitted, slot,
        nested, cell, answers, turnStatus, cleaner>>
      BY <1>3 DEF TakeBroker
    <2>4. QED
      BY <1>t, <2>1, <2>2, <2>3 DEF TurnTypeOK
  <1>4. CASE NestControl
    <2>1. supply' \in [at : {"idle", "reserved", "taken", "nested", "supplied",
        "running", "answered", "failed"}, turn : ScopedTurns \cup {NoTurn}]
      BY <1>4, <1>t DEF NestControl, GoesTo, TurnTypeOK
    <2>2. nested' \in {"none", "live", "over"}
      BY <1>4, <1>t DEF NestControl, GoesTo, TurnTypeOK
    <2>3. UNCHANGED <<retained, control, pending, active, results, submitted,
        slot, cell, answers, turnStatus, cleaner>>
      BY <1>4 DEF NestControl
    <2>4. QED
      BY <1>t, <2>1, <2>2, <2>3 DEF TurnTypeOK
  <1>5. CASE EnterActive
    <2>1. active' \subseteq ScopedTurns
      BY <1>5, <1>t, <1>u DEF EnterActive, TurnTypeOK
    <2>2. supply' \in [at : {"idle", "reserved", "taken", "nested", "supplied",
        "running", "answered", "failed"}, turn : ScopedTurns \cup {NoTurn}]
      BY <1>5, <1>t DEF EnterActive, GoesTo, TurnTypeOK
    <2>3. UNCHANGED <<retained, control, pending, results, submitted, slot,
        nested, cell, answers, turnStatus, cleaner>>
      BY <1>5 DEF EnterActive
    <2>4. QED
      BY <1>t, <2>1, <2>2, <2>3 DEF TurnTypeOK
  <1>6. CASE LaunchTurn
    <2>1. supply' \in [at : {"idle", "reserved", "taken", "nested", "supplied",
        "running", "answered", "failed"}, turn : ScopedTurns \cup {NoTurn}]
      BY <1>6, <1>t DEF LaunchTurn, GoesTo, TurnTypeOK
    <2>2. cell' \in ScopedTurns \cup {NoTurn}
      BY <1>6, <1>t DEF LaunchTurn, GoesTo, TurnTypeOK
    <2>3. UNCHANGED <<retained, control, pending, active, results, submitted,
        slot, nested, answers, turnStatus, cleaner>>
      BY <1>6 DEF LaunchTurn
    <2>4. QED
      BY <1>t, <2>1, <2>2, <2>3 DEF TurnTypeOK
  <1>7. CASE CellGone
    <2>1. active' \subseteq ScopedTurns
      BY <1>7, <1>t DEF CellGone, GoesTo, TurnTypeOK
    <2>2. results' \subseteq ScopedTurns
      BY <1>7, <1>t, <1>u DEF CellGone, TurnTypeOK
    <2>3. supply' \in [at : {"idle", "reserved", "taken", "nested", "supplied",
        "running", "answered", "failed"}, turn : ScopedTurns \cup {NoTurn}]
      BY <1>7, <1>t DEF CellGone, GoesTo, TurnTypeOK
    <2>4. cell' \in ScopedTurns \cup {NoTurn}
      BY <1>7, <1>t DEF CellGone, GoesTo, TurnTypeOK
    <2>5. UNCHANGED <<retained, control, pending, submitted, slot, nested,
        answers, turnStatus, cleaner>>
      BY <1>7 DEF CellGone
    <2>6. QED
      BY <1>t, <2>1, <2>2, <2>3, <2>4, <2>5 DEF TurnTypeOK
  <1>8. CASE AnswerTurn
    <2>1. retained' \in {"none", "running", "stopped", "lost"}
      BY <1>8, <1>t DEF AnswerTurn, TurnTypeOK
    <2>2. slot' \in [turn : ScopedTurns \cup {NoTurn}, cancelled : BOOLEAN]
      BY <1>8, <1>t DEF AnswerTurn, NoCleanup, Resting, FreeSlot, TurnTypeOK
    <2>3. supply' \in [at : {"idle", "reserved", "taken", "nested", "supplied",
        "running", "answered", "failed"}, turn : ScopedTurns \cup {NoTurn}]
      BY <1>8, <1>t DEF AnswerTurn, NoCleanup, Resting, FreeSlot, TurnTypeOK
    <2>4. nested' \in {"none", "live", "over"}
      BY <1>8, <1>t DEF AnswerTurn, TurnTypeOK
    <2>5. answers' \in [ScopedTurns -> {"none", "refused", "error", "completed"}]
      BY <1>8, <1>t, <1>u DEF AnswerTurn, TurnTypeOK
    <2>6. UNCHANGED <<control, pending, active, results, submitted, cell,
        turnStatus, cleaner>>
      BY <1>8 DEF AnswerTurn
    <2>7. QED
      BY <1>t, <2>1, <2>2, <2>3, <2>4, <2>5, <2>6 DEF TurnTypeOK
  <1>9. CASE CancelPending
    <2>1. control' \in [ScopedTurns -> {"none", "live", "cancelled", "expired"}]
      BY <1>9, <1>t, <1>c, CancelShape DEF CancelPending, TurnTypeOK
    <2>2. cleaner' \in [at : {"idle", "found", "pending", "active", "cancelled",
        "drained", "stopping"}, turn : ScopedTurns \cup {NoTurn}, found :
        BOOLEAN]
      BY <1>9, <1>t DEF CancelPending, TurnTypeOK
    <2>3. UNCHANGED <<retained, pending, active, results, submitted, slot,
        supply, nested, cell, answers, turnStatus>>
      BY <1>9 DEF CancelPending
    <2>4. QED
      BY <1>t, <2>1, <2>2, <2>3 DEF TurnTypeOK
  <1>10. CASE CancelActive
    <2>1. control' \in [ScopedTurns -> {"none", "live", "cancelled", "expired"}]
      BY <1>10, <1>t, <1>c, CancelShape DEF CancelActive, TurnTypeOK
    <2>2. cleaner' \in [at : {"idle", "found", "pending", "active", "cancelled",
        "drained", "stopping"}, turn : ScopedTurns \cup {NoTurn}, found :
        BOOLEAN]
      BY <1>10, <1>t DEF CancelActive, TurnTypeOK
    <2>3. UNCHANGED <<retained, pending, active, results, submitted, slot,
        supply, nested, cell, answers, turnStatus>>
      BY <1>10 DEF CancelActive
    <2>4. QED
      BY <1>t, <2>1, <2>2, <2>3 DEF TurnTypeOK
  <1>11. CASE CancelSlot
    <2>1. slot' \in [turn : ScopedTurns \cup {NoTurn}, cancelled : BOOLEAN]
      BY <1>11, <1>t DEF CancelSlot, TurnTypeOK
    <2>2. nested' \in {"none", "live", "over"}
      BY <1>11, <1>t DEF CancelSlot, TurnTypeOK
    <2>3. cleaner' \in [at : {"idle", "found", "pending", "active", "cancelled",
        "drained", "stopping"}, turn : ScopedTurns \cup {NoTurn}, found :
        BOOLEAN]
      BY <1>11, <1>t DEF CancelSlot, TurnTypeOK
    <2>4. UNCHANGED <<retained, control, pending, active, results, submitted,
        supply, cell, answers, turnStatus>>
      BY <1>11 DEF CancelSlot
    <2>5. QED
      BY <1>t, <2>1, <2>2, <2>3, <2>4 DEF TurnTypeOK
  <1>12. CASE AnswerCleanup
    <2>1. turnStatus' \in [ScopedTurns -> {"absent", "Admitted", "Refused", "Uncertain", "Cancelling", "Succeeded", "Cancelled", "Failed"}]
      BY <1>12, <1>t, <1>c DEF AnswerCleanup, TurnTypeOK
    <2>2. cleaner' \in [at : {"idle", "found", "pending", "active", "cancelled",
        "drained", "stopping"}, turn : ScopedTurns \cup {NoTurn}, found :
        BOOLEAN]
      BY <1>12, <1>t DEF AnswerCleanup, NoCleanup, Resting, FreeSlot, TurnTypeOK
    <2>3. UNCHANGED <<retained, control, pending, active, results, submitted,
        slot, supply, nested, cell, answers>>
      BY <1>12 DEF AnswerCleanup
    <2>4. QED
      BY <1>t, <2>1, <2>2, <2>3 DEF TurnTypeOK
  <1>13. CASE CleanParent
    <2>1. control' \in [ScopedTurns -> {"none", "live", "cancelled", "expired"}]
      BY <1>13, <1>t, CancelShape DEF CleanParent, TurnTypeOK
    <2>2. pending' \subseteq ScopedTurns
      BY <1>13, <1>t DEF CleanParent, TurnTypeOK
    <2>3. cleaner' \in [at : {"idle", "found", "pending", "active", "cancelled",
        "drained", "stopping"}, turn : ScopedTurns \cup {NoTurn}, found :
        BOOLEAN]
      BY <1>13, <1>t DEF CleanParent, TurnTypeOK
    <2>4. UNCHANGED <<retained, active, results, submitted, slot, supply, nested,
        cell, answers, turnStatus>>
      BY <1>13 DEF CleanParent
    <2>5. QED
      BY <1>t, <2>1, <2>2, <2>3, <2>4 DEF TurnTypeOK
  <1>14. CASE StopParent
    <2>1. retained' \in {"none", "running", "stopped", "lost"}
      BY <1>14, <1>t DEF StopParent, TurnTypeOK
    <2>2. control' \in [ScopedTurns -> {"none", "live", "cancelled", "expired"}]
      BY <1>14, <1>t, CancelShape DEF StopParent, TurnTypeOK
    <2>3. slot' \in [turn : ScopedTurns \cup {NoTurn}, cancelled : BOOLEAN]
      BY <1>14, <1>t DEF StopParent, TurnTypeOK
    <2>4. nested' \in {"none", "live", "over"}
      BY <1>14, <1>t DEF StopParent, TurnTypeOK
    <2>5. cleaner' \in [at : {"idle", "found", "pending", "active", "cancelled",
        "drained", "stopping"}, turn : ScopedTurns \cup {NoTurn}, found :
        BOOLEAN]
      BY <1>14, <1>t DEF StopParent, TurnTypeOK
    <2>6. UNCHANGED <<pending, active, results, submitted, supply, cell, answers,
        turnStatus>>
      BY <1>14 DEF StopParent
    <2>7. QED
      BY <1>t, <2>1, <2>2, <2>3, <2>4, <2>5, <2>6 DEF TurnTypeOK
  <1>15. CASE ParentJoined
    <2>1. cleaner' \in [at : {"idle", "found", "pending", "active", "cancelled",
        "drained", "stopping"}, turn : ScopedTurns \cup {NoTurn}, found :
        BOOLEAN]
      BY <1>15, <1>t DEF ParentJoined, NoCleanup, Resting, FreeSlot, TurnTypeOK
    <2>2. UNCHANGED <<retained, control, pending, active, results, submitted,
        slot, supply, nested, cell, answers, turnStatus>>
      BY <1>15 DEF ParentJoined
    <2>3. QED
      BY <1>t, <2>1, <2>2 DEF TurnTypeOK
  <1>16. ASSUME NEW t \in ScopedTurns, RefuseTurn(t)
        PROVE  TurnTypeOK'
    <2>1. turnStatus' \in [ScopedTurns -> {"absent", "Admitted", "Refused",
        "Uncertain", "Cancelling", "Succeeded", "Cancelled", "Failed"}]
      BY <1>16, <1>t DEF RefuseTurn, TurnTypeOK
    <2>2. UNCHANGED <<retained, control, pending, active, results, submitted,
        slot, supply, nested, cell, answers, cleaner>>
      BY <1>16 DEF RefuseTurn
    <2>3. QED
      BY <1>t, <2>1, <2>2 DEF TurnTypeOK
  <1>17. ASSUME NEW t \in ScopedTurns, SubmitTurn(t)
        PROVE  TurnTypeOK'
    <2>1. control' \in [ScopedTurns -> {"none", "live", "cancelled", "expired"}]
      BY <1>17, <1>t DEF SubmitTurn, TurnTypeOK
    <2>2. pending' \subseteq ScopedTurns
      BY <1>17, <1>t DEF SubmitTurn, TurnTypeOK
    <2>3. submitted' \in Seq(ScopedTurns)
      BY <1>17, <1>t DEF SubmitTurn, TurnTypeOK
    <2>4. turnStatus' \in [ScopedTurns -> {"absent", "Admitted", "Refused",
        "Uncertain", "Cancelling", "Succeeded", "Cancelled", "Failed"}]
      BY <1>17, <1>t DEF SubmitTurn, TurnTypeOK
    <2>5. UNCHANGED <<retained, active, results, slot, supply, nested, cell,
        answers, cleaner>>
      BY <1>17 DEF SubmitTurn
    <2>6. QED
      BY <1>t, <2>1, <2>2, <2>3, <2>4, <2>5 DEF TurnTypeOK
  <1>18. ASSUME NEW t \in ScopedTurns, FinishTurn(t)
        PROVE  TurnTypeOK'
    <2>1. active' \subseteq ScopedTurns
      BY <1>18, <1>t DEF FinishTurn, TurnTypeOK
    <2>2. results' \subseteq ScopedTurns
      BY <1>18, <1>t DEF FinishTurn, TurnTypeOK
    <2>3. turnStatus' \in [ScopedTurns -> {"absent", "Admitted", "Refused",
        "Uncertain", "Cancelling", "Succeeded", "Cancelled", "Failed"}]
      BY <1>18, <1>t DEF FinishTurn, TurnTypeOK
    <2>4. UNCHANGED <<retained, control, pending, submitted, slot, supply,
        nested, cell, answers, cleaner>>
      BY <1>18 DEF FinishTurn
    <2>5. QED
      BY <1>t, <2>1, <2>2, <2>3, <2>4 DEF TurnTypeOK
  <1>19. ASSUME NEW t \in ScopedTurns, CleanTurn(t)
        PROVE  TurnTypeOK'
    <2>1. cleaner' \in [at : {"idle", "found", "pending", "active", "cancelled",
        "drained", "stopping"}, turn : ScopedTurns \cup {NoTurn}, found :
        BOOLEAN]
      BY <1>19, <1>t DEF CleanTurn, TurnTypeOK
    <2>2. UNCHANGED <<retained, control, pending, active, results, submitted,
        slot, supply, nested, cell, answers, turnStatus>>
      BY <1>19 DEF CleanTurn
    <2>3. QED
      BY <1>t, <2>1, <2>2 DEF TurnTypeOK
  <1>20. ASSUME NEW t \in ScopedTurns, TurnExpires(t)
        PROVE  TurnTypeOK'
    <2>1. control' \in [ScopedTurns -> {"none", "live", "cancelled", "expired"}]
      BY <1>20, <1>t DEF TurnExpires, TurnTypeOK
    <2>2. nested' \in {"none", "live", "over"}
      BY <1>20, <1>t DEF TurnExpires, TurnTypeOK
    <2>3. UNCHANGED <<retained, pending, active, results, submitted, slot,
        supply, cell, answers, turnStatus, cleaner>>
      BY <1>20 DEF TurnExpires
    <2>4. QED
      BY <1>t, <2>1, <2>2, <2>3 DEF TurnTypeOK
  <1>21. CASE UNCHANGED turnVars
    BY <1>t, <1>21 DEF turnVars, TurnTypeOK
  <1>22. QED
    BY TurnCases, <1>1, <1>2, <1>3, <1>4, <1>5, <1>6, <1>7, <1>8, <1>9, <1>10,
       <1>11, <1>12, <1>13, <1>14, <1>15, <1>16, <1>17, <1>18, <1>19, <1>20,
       <1>21

(* The parent's thread. *)
LEMMA SupplyingStep ==
    ASSUME TurnInv, [TurnsNext]_turnVars
    PROVE  Supplying'
  <1>i. Supplying
    BY DEF TurnInv
  <1>k. cleaner \in [at : {"idle", "found", "pending", "active", "cancelled", "drained", "stopping"},
                   turn : ScopedTurns \cup {NoTurn}, found : BOOLEAN]
        /\ cleaner.at = "idle" => cleaner = NoCleanup
    BY DEF TurnInv, TurnTypeOK, Cleaning
  <1>t. /\ supply \in [at : {"idle", "reserved", "taken", "nested", "supplied", "running",
                          "answered", "failed"}, turn : ScopedTurns \cup {NoTurn}]
        /\ slot \in [turn : ScopedTurns \cup {NoTurn}, cancelled : BOOLEAN]
        /\ turnStatus \in [ScopedTurns -> {"absent", "Admitted", "Refused", "Uncertain", "Cancelling",
                                       "Succeeded", "Cancelled", "Failed"}]
        /\ cell \in ScopedTurns \cup {NoTurn}
    BY DEF TurnInv, TurnTypeOK
  <1>q. submitted # <<>> =>
            \E v \in ScopedTurns :
                /\ submitted = <<v>> /\ Head(submitted) = v /\ Tail(submitted) = <<>>
                /\ supply.turn # v /\ turnStatus[v] # "absent" /\ v # NoTurn
                /\ v \in pending \/ control[v] # "live"
    BY QueueHead
  <1>1. CASE SpawnParent
    BY <1>1, <1>i, <1>t DEF SpawnParent, Supplying, NoCleanup, Resting, FreeSlot,
       Over
  <1>2. CASE Reserve
    BY <1>2, <1>i, <1>t, <1>q DEF Reserve, GoesTo, Supplying, NoCleanup, Resting,
       FreeSlot, Over
  <1>3. CASE TakeBroker
    BY <1>3, <1>i, <1>t DEF TakeBroker, GoesTo, Supplying, NoCleanup, Resting,
       FreeSlot, Over
  <1>4. CASE NestControl
    BY <1>4, <1>i, <1>t DEF NestControl, GoesTo, Supplying, NoCleanup, Resting,
       FreeSlot, Over
  <1>5. CASE EnterActive
    BY <1>5, <1>i, <1>t DEF EnterActive, GoesTo, Supplying, NoCleanup, Resting,
       FreeSlot, Over
  <1>6. CASE LaunchTurn
    BY <1>6, <1>i, <1>t DEF LaunchTurn, GoesTo, Supplying, NoCleanup, Resting,
       FreeSlot, Over
  <1>7. CASE CellGone
    BY <1>7, <1>i, <1>t DEF CellGone, GoesTo, Supplying, NoCleanup, Resting,
       FreeSlot, Over
  <1>8. CASE AnswerTurn
    BY <1>8, <1>i, <1>t DEF AnswerTurn, Supplying, NoCleanup, Resting, FreeSlot,
       Over
  <1>9. CASE CancelPending
    BY <1>9, <1>i, <1>t, <1>k DEF CancelPending, Supplying, NoCleanup, Resting,
       FreeSlot, Over
  <1>10. CASE CancelActive
    BY <1>10, <1>i, <1>t, <1>k DEF CancelActive, Supplying, NoCleanup, Resting,
       FreeSlot, Over
  <1>11. CASE CancelSlot
    BY <1>11, <1>i, <1>t, <1>k DEF CancelSlot, Supplying, NoCleanup, Resting,
       FreeSlot, Over
  <1>12. CASE AnswerCleanup
    BY <1>12, <1>i, <1>t, <1>k DEF AnswerCleanup, Supplying, NoCleanup, Resting,
       FreeSlot, Over
  <1>13. CASE CleanParent
    BY <1>13, <1>i, <1>t, <1>k DEF CleanParent, Supplying, NoCleanup, Resting,
       FreeSlot, Over
  <1>14. CASE StopParent
    BY <1>14, <1>i, <1>t, <1>k DEF StopParent, Supplying, NoCleanup, Resting,
       FreeSlot, Over
  <1>15. CASE ParentJoined
    BY <1>15, <1>i, <1>t, <1>k DEF ParentJoined, Supplying, NoCleanup, Resting,
       FreeSlot, Over
  <1>16. ASSUME NEW u \in ScopedTurns, RefuseTurn(u)
        PROVE  Supplying'
    BY <1>16, <1>i, <1>t DEF RefuseTurn, Supplying, NoCleanup, Resting, FreeSlot,
       Over
  <1>17. ASSUME NEW u \in ScopedTurns, SubmitTurn(u)
        PROVE  Supplying'
    BY <1>17, <1>i, <1>t DEF SubmitTurn, Supplying, NoCleanup, Resting, FreeSlot,
       Over
  <1>18. ASSUME NEW u \in ScopedTurns, FinishTurn(u)
        PROVE  Supplying'
    BY <1>18, <1>i, <1>t DEF FinishTurn, Supplying, NoCleanup, Resting, FreeSlot,
       Over
  <1>19. ASSUME NEW u \in ScopedTurns, CleanTurn(u)
        PROVE  Supplying'
    BY <1>19, <1>i, <1>t, <1>k DEF CleanTurn, Supplying, NoCleanup, Resting,
       FreeSlot, Over
  <1>20. ASSUME NEW u \in ScopedTurns, TurnExpires(u)
        PROVE  Supplying'
    BY <1>20, <1>i, <1>t DEF TurnExpires, Supplying, NoCleanup, Resting, FreeSlot,
       Over
  <1>21. CASE UNCHANGED turnVars
    BY <1>21, <1>i, <1>t DEF turnVars, Supplying, NoCleanup, Resting, FreeSlot, Over
  <1>22. QED
    BY TurnCases, <1>1, <1>2, <1>3, <1>4, <1>5, <1>6, <1>7, <1>8, <1>9, <1>10,
       <1>11, <1>12, <1>13, <1>14, <1>15, <1>16, <1>17, <1>18, <1>19, <1>20,
       <1>21

(* The channel. *)
LEMMA QueuedStep ==
    ASSUME TurnInv, [TurnsNext]_turnVars
    PROVE  Queued'
  <1>i. Supplying
    BY DEF TurnInv
  <1>j. Queued
    BY DEF TurnInv
  <1>k. cleaner.at \in {"found", "pending", "active", "cancelled"} => cleaner.turn \in ScopedTurns
    BY DEF TurnInv, Cleaning
  <1>s. \A t \in ScopedTurns : CancelOf(t)[t] # "live"
    BY CancelShape DEF TurnInv
  <1>t. /\ supply \in [at : {"idle", "reserved", "taken", "nested", "supplied", "running",
                          "answered", "failed"}, turn : ScopedTurns \cup {NoTurn}]
        /\ slot \in [turn : ScopedTurns \cup {NoTurn}, cancelled : BOOLEAN]
        /\ turnStatus \in [ScopedTurns -> {"absent", "Admitted", "Refused", "Uncertain", "Cancelling",
                                       "Succeeded", "Cancelled", "Failed"}]
        /\ cell \in ScopedTurns \cup {NoTurn}
    BY DEF TurnInv, TurnTypeOK
  <1>q. submitted # <<>> =>
            \E v \in ScopedTurns :
                /\ submitted = <<v>> /\ Head(submitted) = v /\ Tail(submitted) = <<>>
                /\ supply.turn # v /\ turnStatus[v] # "absent" /\ v # NoTurn
                /\ v \in pending \/ control[v] # "live"
    BY QueueHead
  <1>c. \A v, w \in ScopedTurns : CancelOf(v)[w] # "live" \/ CancelOf(v)[w] = control[w]
    BY CancelShape DEF TurnInv
  <1>1. CASE SpawnParent
    BY <1>1, <1>j, <1>t DEF SpawnParent, Queued
  <1>2. CASE Reserve
    BY <1>2, <1>q DEF Reserve, Queued
  <1>3. CASE TakeBroker
    BY <1>3, <1>j, <1>t DEF TakeBroker, GoesTo, Queued
  <1>4. CASE NestControl
    BY <1>4, <1>j, <1>t DEF NestControl, GoesTo, Queued
  <1>5. CASE EnterActive
    BY <1>5, <1>j, <1>t DEF EnterActive, GoesTo, Queued
  <1>6. CASE LaunchTurn
    BY <1>6, <1>j, <1>t DEF LaunchTurn, GoesTo, Queued
  <1>7. CASE CellGone
    BY <1>7, <1>j, <1>t DEF CellGone, GoesTo, Queued
  <1>8. CASE AnswerTurn
    BY <1>8, <1>j, TurnAssumption DEF AnswerTurn, Resting, Queued
  <1>9. CASE CancelPending
    BY <1>9, <1>j, <1>c, <1>k DEF CancelPending, Queued
  <1>10. CASE CancelActive
    BY <1>10, <1>j, <1>c, <1>k DEF CancelActive, Queued
  <1>11. CASE CancelSlot
    BY <1>11, <1>j, <1>t DEF CancelSlot, Queued
  <1>12. CASE AnswerCleanup
    BY <1>12, <1>j, <1>t, <1>k DEF AnswerCleanup, Queued
  <1>13. CASE CleanParent
    BY <1>13, <1>j, <1>c, <1>s DEF CleanParent, Queued
  <1>14. CASE StopParent
    BY <1>14, <1>j, <1>c, <1>s DEF StopParent, Queued
  <1>15. CASE ParentJoined
    BY <1>15, <1>j, <1>t DEF ParentJoined, Queued
  <1>16. ASSUME NEW u \in ScopedTurns, RefuseTurn(u)
        PROVE  Queued'
    BY <1>16, <1>j, <1>t DEF RefuseTurn, Queued
  <1>17. ASSUME NEW u \in ScopedTurns, SubmitTurn(u)
        PROVE  Queued'
    <2>1. supply.turn # u
      BY <1>17, <1>i, <1>t, TurnAssumption DEF SubmitTurn, Supplying
    <2>2. CASE /\ submitted = <<>> /\ pending' = pending \cup {u} /\ submitted' = Append(submitted, u)
               /\ turnStatus' = [turnStatus EXCEPT ![u] = "Admitted"]
      <3>1. submitted' = <<u>>
        BY <2>2
      <3>2. turnStatus'[u] # "absent" /\ u \in pending' /\ UNCHANGED supply
        BY <1>17, <1>t, <2>2 DEF SubmitTurn
      <3>3. QED
        BY <2>1, <3>1, <3>2 DEF Queued
    <2>3. CASE /\ turnStatus' \in {[turnStatus EXCEPT ![u] = s] : s \in {"Refused", "Uncertain"}}
               /\ UNCHANGED <<control, pending, submitted>>
      <3>1. \A t \in ScopedTurns : turnStatus[t] # "absent" => turnStatus'[t] # "absent"
        BY <1>t, <2>3
      <3>2. QED
        BY <1>17, <1>j, <2>3, <3>1 DEF SubmitTurn, Queued
    <2>4. QED
      BY <1>17, <2>2, <2>3 DEF SubmitTurn
  <1>18. ASSUME NEW u \in ScopedTurns, FinishTurn(u)
        PROVE  Queued'
    BY <1>18, <1>j, <1>t DEF FinishTurn, Queued
  <1>19. ASSUME NEW u \in ScopedTurns, CleanTurn(u)
        PROVE  Queued'
    BY <1>19, <1>j, <1>t DEF CleanTurn, Queued
  <1>20. ASSUME NEW u \in ScopedTurns, TurnExpires(u)
        PROVE  Queued'
    BY <1>20, <1>j, <1>t DEF TurnExpires, Queued
  <1>21. CASE UNCHANGED turnVars
    BY <1>21, <1>j DEF turnVars, Queued
  <1>22. QED
    BY TurnCases, <1>1, <1>2, <1>3, <1>4, <1>5, <1>6, <1>7, <1>8, <1>9, <1>10,
       <1>11, <1>12, <1>13, <1>14, <1>15, <1>16, <1>17, <1>18, <1>19, <1>20,
       <1>21

(* A cancellation that reached a turn stays with it. *)
LEMMA StruckStays ==
    ASSUME TurnInv, [TurnsNext]_turnVars, NEW t \in ScopedTurns, Struck(t), turnStatus[t] # "absent"
    PROVE  Struck(t)'
  <1>z. Struck(t) /\ turnStatus[t] # "absent"
    OBVIOUS
  <1>i. Supplying
    BY DEF TurnInv
  <1>f. control \in [ScopedTurns -> {"none", "live", "cancelled", "expired"}]
    BY DEF TurnInv, TurnTypeOK
  <1>k. cleaner.at \in {"found", "pending", "active", "cancelled"} => cleaner.turn \in ScopedTurns
    BY DEF TurnInv, Cleaning
  <1>s. \A u \in ScopedTurns : CancelOf(u)[u] # "live"
    BY CancelShape DEF TurnInv
  <1>t. /\ supply \in [at : {"idle", "reserved", "taken", "nested", "supplied", "running",
                          "answered", "failed"}, turn : ScopedTurns \cup {NoTurn}]
        /\ slot \in [turn : ScopedTurns \cup {NoTurn}, cancelled : BOOLEAN]
        /\ turnStatus \in [ScopedTurns -> {"absent", "Admitted", "Refused", "Uncertain", "Cancelling",
                                       "Succeeded", "Cancelled", "Failed"}]
        /\ cell \in ScopedTurns \cup {NoTurn}
    BY DEF TurnInv, TurnTypeOK
  <1>q. submitted # <<>> =>
            \E v \in ScopedTurns :
                /\ submitted = <<v>> /\ Head(submitted) = v /\ Tail(submitted) = <<>>
                /\ supply.turn # v /\ turnStatus[v] # "absent" /\ v # NoTurn
                /\ v \in pending \/ control[v] # "live"
    BY QueueHead
  <1>c. \A v, w \in ScopedTurns : CancelOf(v)[w] # "live" \/ CancelOf(v)[w] = control[w]
    BY CancelShape DEF TurnInv
  <1>1. CASE SpawnParent
    BY <1>1, <1>z DEF SpawnParent, Struck
  <1>2. CASE Reserve
    <2>1. CASE control[t] # "live"
      BY <1>2, <2>1 DEF Reserve, Struck
    <2>2. CASE control[t] = "live"
      <3>1. submitted # <<>> => Head(submitted) # t
        BY <1>q, <1>z, <2>2 DEF Struck
      <3>2. QED
        BY <1>2, <1>z, <1>t, <2>2, <3>1, TurnAssumption DEF Reserve, GoesTo, Resting, Struck
    <2>3. QED
      BY <2>1, <2>2
  <1>3. CASE TakeBroker
    BY <1>3, <1>z DEF TakeBroker, GoesTo, Struck
  <1>4. CASE NestControl
    BY <1>4, <1>z DEF NestControl, GoesTo, Struck
  <1>5. CASE EnterActive
    BY <1>5, <1>z DEF EnterActive, GoesTo, Struck
  <1>6. CASE LaunchTurn
    BY <1>6, <1>z DEF LaunchTurn, GoesTo, Struck
  <1>7. CASE CellGone
    BY <1>7, <1>z DEF CellGone, GoesTo, Struck
  <1>8. CASE AnswerTurn
    BY <1>8, <1>z, TurnAssumption DEF AnswerTurn, Resting, Struck
  <1>9. CASE CancelPending
    BY <1>9, <1>z, <1>c, <1>k DEF CancelPending, Struck
  <1>10. CASE CancelActive
    BY <1>10, <1>z, <1>c, <1>k DEF CancelActive, Struck
  <1>11. CASE CancelSlot
    BY <1>11, <1>z, <1>t DEF CancelSlot, Struck
  <1>12. CASE AnswerCleanup
    BY <1>12, <1>z DEF AnswerCleanup, Struck
  <1>13. CASE CleanParent
    BY <1>13, <1>z, <1>c, <1>s, <1>t, <1>i, TurnAssumption DEF CleanParent, Struck, Supplying
  <1>14. CASE StopParent
    BY <1>14, <1>z, <1>c, <1>s, <1>t, <1>i, TurnAssumption DEF StopParent, Struck, Supplying
  <1>15. CASE ParentJoined
    BY <1>15, <1>z DEF ParentJoined, Struck
  <1>16. ASSUME NEW u \in ScopedTurns, RefuseTurn(u)
        PROVE  Struck(t)'
    BY <1>16, <1>z DEF RefuseTurn, Struck
  <1>17. ASSUME NEW u \in ScopedTurns, SubmitTurn(u)
        PROVE  Struck(t)'
    BY <1>17, <1>z, <1>f DEF SubmitTurn, Struck
  <1>18. ASSUME NEW u \in ScopedTurns, FinishTurn(u)
        PROVE  Struck(t)'
    BY <1>18, <1>z DEF FinishTurn, Struck
  <1>19. ASSUME NEW u \in ScopedTurns, CleanTurn(u)
        PROVE  Struck(t)'
    BY <1>19, <1>z DEF CleanTurn, Struck
  <1>20. ASSUME NEW u \in ScopedTurns, TurnExpires(u)
        PROVE  Struck(t)'
    BY <1>20, <1>z, <1>f DEF TurnExpires, Struck
  <1>21. CASE UNCHANGED turnVars
    BY <1>21, <1>z DEF turnVars, Struck
  <1>22. QED
    BY TurnCases, <1>1, <1>2, <1>3, <1>4, <1>5, <1>6, <1>7, <1>8, <1>9, <1>10,
       <1>11, <1>12, <1>13, <1>14, <1>15, <1>16, <1>17, <1>18, <1>19, <1>20,
       <1>21

(* A turn stays known, and the broker of a known turn is never put back; an  *)
(* answered cleanup is that of a turn it has reached.                        *)
LEMMA KnownStays ==
    ASSUME TurnInv, [TurnsNext]_turnVars, NEW t \in ScopedTurns, turnStatus[t] # "absent"
    PROVE  /\ turnStatus'[t] # "absent"
           /\ t \notin pending => t \notin pending'
           /\ control[t] # "live" => control'[t] # "live"
           /\ turnStatus'[t] = "Cancelling" =>
                 turnStatus[t] = "Cancelling" \/ (cleaner.at = "cancelled" /\ cleaner.turn = t)
  <1>z. turnStatus[t] # "absent"
    OBVIOUS
  <1>f. control \in [ScopedTurns -> {"none", "live", "cancelled", "expired"}]
    BY DEF TurnInv, TurnTypeOK
  <1>k. cleaner.at \in {"found", "pending", "active", "cancelled"} => cleaner.turn \in ScopedTurns
    BY DEF TurnInv, Cleaning
  <1>t. /\ supply \in [at : {"idle", "reserved", "taken", "nested", "supplied", "running",
                          "answered", "failed"}, turn : ScopedTurns \cup {NoTurn}]
        /\ slot \in [turn : ScopedTurns \cup {NoTurn}, cancelled : BOOLEAN]
        /\ turnStatus \in [ScopedTurns -> {"absent", "Admitted", "Refused", "Uncertain", "Cancelling",
                                       "Succeeded", "Cancelled", "Failed"}]
        /\ cell \in ScopedTurns \cup {NoTurn}
    BY DEF TurnInv, TurnTypeOK
  <1>c. \A v, w \in ScopedTurns : CancelOf(v)[w] # "live" \/ CancelOf(v)[w] = control[w]
    BY CancelShape DEF TurnInv
  <1>1. CASE SpawnParent
    BY <1>1, <1>z DEF SpawnParent
  <1>2. CASE Reserve
    BY <1>2, <1>z DEF Reserve, GoesTo
  <1>3. CASE TakeBroker
    BY <1>3, <1>z DEF TakeBroker, GoesTo
  <1>4. CASE NestControl
    BY <1>4, <1>z DEF NestControl, GoesTo
  <1>5. CASE EnterActive
    BY <1>5, <1>z DEF EnterActive, GoesTo
  <1>6. CASE LaunchTurn
    BY <1>6, <1>z DEF LaunchTurn, GoesTo
  <1>7. CASE CellGone
    BY <1>7, <1>z DEF CellGone, GoesTo
  <1>8. CASE AnswerTurn
    BY <1>8, <1>z DEF AnswerTurn
  <1>9. CASE CancelPending
    BY <1>9, <1>z, <1>c, <1>k DEF CancelPending
  <1>10. CASE CancelActive
    BY <1>10, <1>z, <1>c, <1>k DEF CancelActive
  <1>11. CASE CancelSlot
    BY <1>11, <1>z DEF CancelSlot
  <1>12. CASE AnswerCleanup
    BY <1>12, <1>z, <1>k, <1>t DEF AnswerCleanup
  <1>13. CASE CleanParent
    BY <1>13, <1>z, <1>c DEF CleanParent
  <1>14. CASE StopParent
    BY <1>14, <1>z, <1>c DEF StopParent
  <1>15. CASE ParentJoined
    BY <1>15, <1>z DEF ParentJoined
  <1>16. ASSUME NEW u \in ScopedTurns, RefuseTurn(u)
        PROVE  /\ turnStatus'[t] # "absent"
               /\ t \notin pending => t \notin pending'
               /\ control[t] # "live" => control'[t] # "live"
               /\ turnStatus'[t] = "Cancelling" =>
                     turnStatus[t] = "Cancelling" \/ (cleaner.at = "cancelled" /\ cleaner.turn = t)
    BY <1>16, <1>z, <1>f, <1>t DEF RefuseTurn
  <1>17. ASSUME NEW u \in ScopedTurns, SubmitTurn(u)
        PROVE  /\ turnStatus'[t] # "absent"
               /\ t \notin pending => t \notin pending'
               /\ control[t] # "live" => control'[t] # "live"
               /\ turnStatus'[t] = "Cancelling" =>
                     turnStatus[t] = "Cancelling" \/ (cleaner.at = "cancelled" /\ cleaner.turn = t)
    BY <1>17, <1>z, <1>f, <1>t DEF SubmitTurn
  <1>18. ASSUME NEW u \in ScopedTurns, FinishTurn(u)
        PROVE  /\ turnStatus'[t] # "absent"
               /\ t \notin pending => t \notin pending'
               /\ control[t] # "live" => control'[t] # "live"
               /\ turnStatus'[t] = "Cancelling" =>
                     turnStatus[t] = "Cancelling" \/ (cleaner.at = "cancelled" /\ cleaner.turn = t)
    BY <1>18, <1>z, <1>f, <1>t DEF FinishTurn
  <1>19. ASSUME NEW u \in ScopedTurns, CleanTurn(u)
        PROVE  /\ turnStatus'[t] # "absent"
               /\ t \notin pending => t \notin pending'
               /\ control[t] # "live" => control'[t] # "live"
               /\ turnStatus'[t] = "Cancelling" =>
                     turnStatus[t] = "Cancelling" \/ (cleaner.at = "cancelled" /\ cleaner.turn = t)
    BY <1>19, <1>z DEF CleanTurn
  <1>20. ASSUME NEW u \in ScopedTurns, TurnExpires(u)
        PROVE  /\ turnStatus'[t] # "absent"
               /\ t \notin pending => t \notin pending'
               /\ control[t] # "live" => control'[t] # "live"
               /\ turnStatus'[t] = "Cancelling" =>
                     turnStatus[t] = "Cancelling" \/ (cleaner.at = "cancelled" /\ cleaner.turn = t)
    BY <1>20, <1>z, <1>f, <1>t DEF TurnExpires
  <1>21. CASE UNCHANGED turnVars
    BY <1>21, <1>z DEF turnVars
  <1>22. QED
    BY TurnCases, <1>1, <1>2, <1>3, <1>4, <1>5, <1>6, <1>7, <1>8, <1>9, <1>10,
       <1>11, <1>12, <1>13, <1>14, <1>15, <1>16, <1>17, <1>18, <1>19, <1>20,
       <1>21

(* The cleanup. *)
LEMMA CleaningStep ==
    ASSUME TurnInv, [TurnsNext]_turnVars
    PROVE  Cleaning'
  <1>i. Supplying /\ Cleaning
    BY DEF TurnInv
  <1>t. cleaner \in [at : {"idle", "found", "pending", "active", "cancelled", "drained", "stopping"},
                    turn : ScopedTurns \cup {NoTurn}, found : BOOLEAN]
    BY DEF TurnInv, TurnTypeOK
  <1>u. slot \in [turn : ScopedTurns \cup {NoTurn}, cancelled : BOOLEAN]
    BY DEF TurnInv, TurnTypeOK
  <1>s. \A u \in ScopedTurns : CancelOf(u)[u] # "live"
    BY CancelShape DEF TurnInv
  <1>k. cleaner.at \in {"found", "pending", "active", "cancelled"} =>
          /\ cleaner.turn \in ScopedTurns /\ turnStatus'[cleaner.turn] # "absent"
          /\ cleaner.found /\ cleaner.at # "found" => control'[cleaner.turn] # "live"
          /\ ~cleaner.found => cleaner.turn \notin pending'
    BY <1>i, KnownStays DEF Cleaning
  <1>z. \A t \in ScopedTurns : Struck(t) /\ turnStatus[t] # "absent" => Struck(t)'
    BY StruckStays
  <1>same. ASSUME UNCHANGED cleaner PROVE Cleaning'
    <2>1. ASSUME cleaner.at = "cancelled"
          PROVE  Struck(cleaner.turn)'
      <3>1. PICK t \in ScopedTurns : t = cleaner.turn
        BY <1>i, <2>1 DEF Cleaning
      <3>2. Struck(t)'
        BY <1>i, <1>z, <2>1, <3>1 DEF Cleaning
      <3>3. QED
        BY <1>same, <3>1, <3>2 DEF Struck
    <2>2. QED
      BY <1>i, <1>k, <1>same, <2>1 DEF Cleaning, NoCleanup
  <1>1. CASE SpawnParent
    <2>1. UNCHANGED cleaner
      BY <1>1 DEF SpawnParent
    <2>2. QED
      BY <2>1, <1>same
  <1>2. CASE Reserve
    <2>1. UNCHANGED cleaner
      BY <1>2 DEF Reserve
    <2>2. QED
      BY <2>1, <1>same
  <1>3. CASE TakeBroker
    <2>1. UNCHANGED cleaner
      BY <1>3 DEF TakeBroker
    <2>2. QED
      BY <2>1, <1>same
  <1>4. CASE NestControl
    <2>1. UNCHANGED cleaner
      BY <1>4 DEF NestControl
    <2>2. QED
      BY <2>1, <1>same
  <1>5. CASE EnterActive
    <2>1. UNCHANGED cleaner
      BY <1>5 DEF EnterActive
    <2>2. QED
      BY <2>1, <1>same
  <1>6. CASE LaunchTurn
    <2>1. UNCHANGED cleaner
      BY <1>6 DEF LaunchTurn
    <2>2. QED
      BY <2>1, <1>same
  <1>7. CASE CellGone
    <2>1. UNCHANGED cleaner
      BY <1>7 DEF CellGone
    <2>2. QED
      BY <2>1, <1>same
  <1>8. CASE AnswerTurn
    <2>1. UNCHANGED cleaner
      BY <1>8 DEF AnswerTurn
    <2>2. QED
      BY <2>1, <1>same
  <1>9. CASE CancelPending
    <2>1. /\ cleaner.at = "found" /\ cleaner'.at = "pending"
          /\ cleaner'.turn = cleaner.turn /\ cleaner'.found = cleaner.found
      BY <1>9, <1>t DEF CancelPending
    <2>2. /\ cleaner.turn \in ScopedTurns /\ turnStatus'[cleaner.turn] # "absent"
          /\ ~cleaner.found => cleaner.turn \notin pending'
      BY <1>k, <2>1 DEF Cleaning
    <2>3. cleaner.found => control'[cleaner.turn] # "live"
      BY <1>9, <1>s, <2>2 DEF CancelPending
    <2>4. QED
      BY <2>1, <2>2, <2>3 DEF Cleaning
  <1>10. CASE CancelActive
    <2>1. /\ cleaner.at = "pending" /\ cleaner'.at = "active"
          /\ cleaner'.turn = cleaner.turn /\ cleaner'.found = cleaner.found
      BY <1>10, <1>t DEF CancelActive
    <2>2. QED
      BY <1>k, <2>1 DEF Cleaning
  <1>11. CASE CancelSlot
    <2>1. /\ cleaner.at = "active" /\ cleaner'.at = "cancelled"
          /\ cleaner'.turn = cleaner.turn /\ cleaner'.found = cleaner.found
      BY <1>11, <1>t DEF CancelSlot
    <2>2. /\ cleaner.turn \in ScopedTurns /\ turnStatus'[cleaner.turn] # "absent"
          /\ cleaner.found => control'[cleaner.turn] # "live"
          /\ ~cleaner.found => cleaner.turn \notin pending'
      BY <1>k, <2>1 DEF Cleaning
    <2>3. ASSUME ~cleaner.found, supply'.turn = cleaner.turn
          PROVE  slot'.cancelled /\ nested' # "live"
      BY <1>11, <1>u, <1>i, <2>3 DEF CancelSlot, Supplying
    <2>4. Struck(cleaner.turn)'
      BY <2>1, <2>2, <2>3 DEF Struck
    <2>5. QED
      BY <2>1, <2>2, <2>4 DEF Cleaning
  <1>12. CASE AnswerCleanup
    BY <1>12 DEF AnswerCleanup, NoCleanup, Cleaning
  <1>13. CASE CleanParent
    BY <1>13 DEF CleanParent, Cleaning
  <1>14. CASE StopParent
    <2>1. cleaner'.at = "stopping"
      BY <1>14, <1>t DEF StopParent
    <2>2. QED
      BY <2>1 DEF Cleaning
  <1>15. CASE ParentJoined
    BY <1>15 DEF ParentJoined, NoCleanup, Cleaning
  <1>16. ASSUME NEW u \in ScopedTurns, RefuseTurn(u)
        PROVE  Cleaning'
    <2>1. UNCHANGED cleaner
      BY <1>16 DEF RefuseTurn
    <2>2. QED
      BY <2>1, <1>same
  <1>17. ASSUME NEW u \in ScopedTurns, SubmitTurn(u)
        PROVE  Cleaning'
    <2>1. UNCHANGED cleaner
      BY <1>17 DEF SubmitTurn
    <2>2. QED
      BY <2>1, <1>same
  <1>18. ASSUME NEW u \in ScopedTurns, FinishTurn(u)
        PROVE  Cleaning'
    <2>1. UNCHANGED cleaner
      BY <1>18 DEF FinishTurn
    <2>2. QED
      BY <2>1, <1>same
  <1>19. ASSUME NEW u \in ScopedTurns, CleanTurn(u)
        PROVE  Cleaning'
    <2>1. /\ cleaner'.at = "found" /\ cleaner'.turn = u /\ cleaner'.found = (u \in pending)
          /\ UNCHANGED <<pending, turnStatus>> /\ turnStatus[u] # "absent"
      BY <1>19 DEF CleanTurn
    <2>2. QED
      BY <2>1 DEF Cleaning
  <1>20. ASSUME NEW u \in ScopedTurns, TurnExpires(u)
        PROVE  Cleaning'
    <2>1. UNCHANGED cleaner
      BY <1>20 DEF TurnExpires
    <2>2. QED
      BY <2>1, <1>same
  <1>21. CASE UNCHANGED turnVars
    <2>1. UNCHANGED cleaner
      BY <1>21 DEF turnVars
    <2>2. QED
      BY <2>1, <1>same
  <1>22. QED
    BY TurnCases, <1>1, <1>2, <1>3, <1>4, <1>5, <1>6, <1>7, <1>8, <1>9, <1>10,
       <1>11, <1>12, <1>13, <1>14, <1>15, <1>16, <1>17, <1>18, <1>19, <1>20,
       <1>21

(* The answered cleanups. *)
LEMMA AnsweredStep ==
    ASSUME TurnInv, [TurnsNext]_turnVars
    PROVE  Answered'
  <1> SUFFICES ASSUME NEW t \in ScopedTurns, turnStatus'[t] = "Cancelling"
               PROVE  Struck(t)'
    BY DEF Answered
  <1>1. CASE turnStatus[t] # "absent"
    <2>1. turnStatus[t] = "Cancelling" \/ (cleaner.at = "cancelled" /\ cleaner.turn = t)
      BY <1>1, KnownStays
    <2>2. Struck(t)
      BY <2>1 DEF TurnInv, Answered, Cleaning
    <2>3. QED
      BY <1>1, <2>2, StruckStays
  <1>2. CASE turnStatus[t] = "absent"
    <2>1. /\ turnStatus \in [ScopedTurns -> {"absent", "Admitted", "Refused", "Uncertain", "Cancelling",
                                       "Succeeded", "Cancelled", "Failed"}]
      BY DEF TurnInv, TurnTypeOK
    <2>2. turnStatus' # turnStatus
      BY <1>2
    <2>3. CASE AnswerCleanup
      <3>1. cleaner.turn \in ScopedTurns
        BY <2>3 DEF TurnInv, Cleaning, AnswerCleanup
      <3>2. QED
        BY <1>2, <2>1, <2>3, <3>1 DEF AnswerCleanup
    <2>4. ASSUME NEW u \in ScopedTurns, RefuseTurn(u) \/ SubmitTurn(u) \/ FinishTurn(u)
          PROVE  FALSE
      BY <1>2, <2>1, <2>4 DEF RefuseTurn, SubmitTurn, FinishTurn
    <2>5. ASSUME \/ SpawnParent \/ Reserve \/ TakeBroker \/ NestControl \/ EnterActive \/ LaunchTurn
                 \/ CellGone \/ AnswerTurn \/ CancelPending \/ CancelActive \/ CancelSlot
                 \/ CleanParent \/ StopParent \/ ParentJoined
                 \/ \E u \in ScopedTurns : CleanTurn(u) \/ TurnExpires(u)
          PROVE  FALSE
      BY <2>2, <2>5 DEF SpawnParent, Reserve, TakeBroker, NestControl, EnterActive, LaunchTurn,
           CellGone, AnswerTurn, CancelPending, CancelActive, CancelSlot, CleanParent, StopParent,
           ParentJoined, CleanTurn, TurnExpires
    <2>6. QED
      BY <2>2, <2>3, <2>4, <2>5, TurnCases DEF turnVars
  <1>3. QED
    BY <1>1, <1>2

(* The initial state. *)
LEMMA TurnStarts == TurnsInit => TurnInv
  <1> SUFFICES ASSUME TurnsInit PROVE TurnInv
    OBVIOUS
  <1>1. TurnTypeOK
    BY DEF TurnsInit, TurnTypeOK, FreeSlot, Resting, NoCleanup
  <1>2. Supplying /\ Queued /\ Cleaning /\ Answered
    BY DEF TurnsInit, Supplying, Queued, Cleaning, Answered, FreeSlot, Resting, NoCleanup
  <1>3. QED
    BY <1>1, <1>2 DEF TurnInv

(* Every reachable state satisfies the invariant. *)
LEMMA TurnInvariant == TurnsSpec => []TurnInv
  <1>1. TurnInv /\ [TurnsNext]_turnVars => TurnInv'
    BY TurnTypeStep, SupplyingStep, QueuedStep, CleaningStep, AnsweredStep DEF TurnInv
  <1>2. QED
    BY <1>1, TurnStarts, PTL DEF TurnsSpec

(* Every variable of a retained parent's turns keeps its type. *)
THEOREM TurnTyped == TurnsSpec => []TurnTypeOK
  <1>1. TurnInv => TurnTypeOK
    BY DEF TurnInv
  <1>2. QED
    BY <1>1, TurnInvariant, PTL

(* A turn whose cleanup was answered makes no model request, or its cell's  *)
(* control is over, wherever its broker was when the cleanup looked; and a  *)
(* parent whose stop was answered runs no cell (access, the supply closure, *)
(* execute).                                                                *)
THEOREM TurnCancelReaches == TurnsSpec => []CancelReaches
  <1>1. TurnInv => CancelReaches
    <2> SUFFICES ASSUME TurnInv PROVE CancelReaches
      OBVIOUS
    <2>i. Supplying /\ Answered /\ nested \in {"none", "live", "over"}
      BY DEF TurnInv, TurnTypeOK
    <2>1. ASSUME NEW t \in ScopedTurns, turnStatus[t] = "Cancelling", MayInvoke(t)
          PROVE  nested = "over"
      <3>1. supply.at = "running" /\ supply.turn = t /\ control[t] = "live"
        BY <2>i, <2>1, TurnAssumption DEF Supplying, MayInvoke
      <3>2. QED
        BY <2>i, <2>1, <3>1 DEF Supplying, Answered, Struck
    <2>2. ASSUME retained = "stopped", cleaner = NoCleanup
          PROVE  cell = NoTurn
      BY <2>i, <2>2 DEF Supplying, NoCleanup
    <2>3. QED
      BY <2>1, <2>2 DEF CancelReaches
  <1>2. QED
    BY <1>1, TurnInvariant, PTL

-------------------------------------------------------------------------------
(* The authority of a scoped operation (ScopedAuthority).                    *)

(* The tools of a decision: what they may do together.                      *)

(* Every set of natural numbers that is not empty has a least element: the  *)
(* induction over the tools of a decision.                                  *)
LEMMA LeastNat ==
    ASSUME NEW T, T \subseteq Nat, T # {}
    PROVE  \E x \in T : \A y \in T : x =< y
  <1>1. \E x \in T : \A y \in T : ~(<<y, x>> \in OpToRel(<, Nat))
    BY NatLessThanWellFounded, WFMin, Zenon
  <1>2. PICK x \in T : \A y \in T : ~(<<y, x>> \in OpToRel(<, Nat))
    BY <1>1
  <1>3. \A y \in T : ~(y < x)
    BY <1>2 DEF OpToRel
  <1> QED
    BY <1>3

(* The tools of a decision, one by one.                                     *)
LEMMA ToolShape ==
    ASSUME NEW d \in Decisions
    PROVE  /\ Len(d.tools) \in Nat /\ DOMAIN d.tools = 1..Len(d.tools)
           /\ \A i \in 1..Len(d.tools) : d.tools[i].signed \in WebLimits /\ d.tools[i].declared \in WebLimits
           /\ Len(d.stores) \in Nat /\ DOMAIN d.stores = 1..Len(d.stores)
           /\ \A i \in 1..Len(d.stores) : d.stores[i].signed \in Nat /\ d.stores[i].declared \in Nat
  <1>1. ASSUME NEW R, NEW s \in Seq(R)
        PROVE  Len(s) \in Nat /\ DOMAIN s = 1..Len(s) /\ \A i \in 1..Len(s) : s[i] \in R
    OBVIOUS
  <1>2. d.tools \in Seq(WebTools) /\ d.stores \in Seq(ArtifactTools)
    BY AuthorityAssumption
  <1>3. /\ Len(d.tools) \in Nat /\ DOMAIN d.tools = 1..Len(d.tools)
        /\ \A i \in 1..Len(d.tools) : d.tools[i] \in WebTools
        /\ Len(d.stores) \in Nat /\ DOMAIN d.stores = 1..Len(d.stores)
        /\ \A i \in 1..Len(d.stores) : d.stores[i] \in ArtifactTools
    BY <1>1, <1>2, Zenon
  <1>4. \A t \in WebTools : t.signed \in WebLimits /\ t.declared \in WebLimits
    BY DEF WebTools
  <1>5. \A t \in ArtifactTools : t.signed \in Nat /\ t.declared \in Nat
    BY DEF ArtifactTools
  <1> QED
    BY <1>3, <1>4, <1>5, Zenon

(* What derive holds in a method's slot after each tool, and the cap of the *)
(* store after each.                                                        *)
IsSlot(d, m, R) ==
    R = [n \in 0..Len(d.tools) |-> IF n = 0 THEN NoSlot ELSE Narrowed(R[n - 1], d.tools[n], m)]
IsCap(d, R) ==
    R = [n \in 0..Len(d.stores) |-> IF n = 0 THEN d.stores[1].signed ELSE Less(R[n - 1], d.stores[n].signed)]

(* The slot is derived whatever the number of tools.                        *)
LEMMA SlotIs ==
    ASSUME NEW d \in Decisions, NEW m
    PROVE  \E R : IsSlot(d, m, R) /\ SlotOf(d, m) = R[Len(d.tools)]
  <1> DEFINE N == Len(d.tools)
             Upto(n, F) == F = [k \in 0..n |-> IF k = 0 THEN NoSlot ELSE Narrowed(F[k - 1], d.tools[k], m)]
             Bad == {n \in 0..N : ~\E F : Upto(n, F)}
  <1>0. N \in Nat
    BY ToolShape
  <1>1. Bad = {}
    <2> SUFFICES ASSUME Bad # {} PROVE FALSE
      OBVIOUS
    <2>1. Bad \subseteq Nat
      BY <1>0
    <2>2. PICK x \in Bad : \A y \in Bad : x =< y
      <3> HIDE DEF Bad
      <3> QED
        BY <2>1, LeastNat
    <2>3. x \in 0..N /\ ~\E F : Upto(x, F)
      OBVIOUS
    <2>4. x # 0
      <3>1. Upto(0, [k \in 0..0 |-> NoSlot])
        OBVIOUS
      <3> QED
        BY <2>3, <3>1
    <2>5. x - 1 \in 0..N /\ x - 1 \notin Bad
      <3> HIDE DEF Bad, Upto
      <3> QED
        BY <1>0, <2>2, <2>3, <2>4
    <2>6. PICK F : Upto(x - 1, F)
      BY <2>5
    <2> DEFINE G == [k \in 0..x |-> IF k = 0 THEN NoSlot ELSE Narrowed(F[k - 1], d.tools[k], m)]
    <2>7. \A k \in 0..(x - 1) : G[k] = F[k]
      BY <1>0, <2>3, <2>6
    <2>8. \A k \in 0..x : k # 0 => G[k - 1] = F[k - 1]
      <3> HIDE DEF G, Upto, Bad
      <3> QED
        BY <1>0, <2>3, <2>7
    <2>9. G = [k \in 0..x |-> IF k = 0 THEN NoSlot ELSE Narrowed(G[k - 1], d.tools[k], m)]
      BY <2>8
    <2> HIDE DEF G
    <2> QED
      BY <2>3, <2>9
  <1>2. PICK F : Upto(N, F)
    BY <1>0, <1>1
  <1> DEFINE Z == CHOOSE R : IsSlot(d, m, R)
  <1>3. IsSlot(d, m, Z)
    BY <1>2 DEF IsSlot
  <1>4. SlotOf(d, m) = Z[Len(d.tools)]
    BY DEF SlotOf, IsSlot
  <1> HIDE DEF Z
  <1> QED
    BY <1>3, <1>4

(* And so is the cap.                                                       *)
LEMMA CapIs ==
    ASSUME NEW d \in Decisions
    PROVE  \E R : IsCap(d, R) /\ Capped(d) = R[Len(d.stores)]
  <1> DEFINE N == Len(d.stores)
             Upto(n, F) == F = [k \in 0..n |-> IF k = 0 THEN d.stores[1].signed
                                               ELSE Less(F[k - 1], d.stores[k].signed)]
             Bad == {n \in 0..N : ~\E F : Upto(n, F)}
  <1>0. N \in Nat
    BY ToolShape
  <1>1. Bad = {}
    <2> SUFFICES ASSUME Bad # {} PROVE FALSE
      OBVIOUS
    <2>1. Bad \subseteq Nat
      BY <1>0
    <2>2. PICK x \in Bad : \A y \in Bad : x =< y
      <3> HIDE DEF Bad
      <3> QED
        BY <2>1, LeastNat
    <2>3. x \in 0..N /\ ~\E F : Upto(x, F)
      OBVIOUS
    <2>4. x # 0
      <3>1. Upto(0, [k \in 0..0 |-> d.stores[1].signed])
        OBVIOUS
      <3> QED
        BY <2>3, <3>1
    <2>5. x - 1 \in 0..N /\ x - 1 \notin Bad
      <3> HIDE DEF Bad, Upto
      <3> QED
        BY <1>0, <2>2, <2>3, <2>4
    <2>6. PICK F : Upto(x - 1, F)
      BY <2>5
    <2> DEFINE G == [k \in 0..x |-> IF k = 0 THEN d.stores[1].signed ELSE Less(F[k - 1], d.stores[k].signed)]
    <2>7. \A k \in 0..(x - 1) : G[k] = F[k]
      BY <1>0, <2>3, <2>6
    <2>8. \A k \in 0..x : k # 0 => G[k - 1] = F[k - 1]
      <3> HIDE DEF G, Upto, Bad
      <3> QED
        BY <1>0, <2>3, <2>7
    <2>9. G = [k \in 0..x |-> IF k = 0 THEN d.stores[1].signed ELSE Less(G[k - 1], d.stores[k].signed)]
      BY <2>8
    <2> HIDE DEF G
    <2> QED
      BY <2>3, <2>9
  <1>2. PICK F : Upto(N, F)
    BY <1>0, <1>1
  <1> DEFINE Z == CHOOSE R : IsCap(d, R)
  <1>3. IsCap(d, Z)
    BY <1>2 DEF IsCap
  <1>4. Capped(d) = Z[Len(d.stores)]
    BY DEF Capped, IsCap
  <1> HIDE DEF Z
  <1> QED
    BY <1>3, <1>4

(* A grant: some requests, to any host or to named ones.                    *)
IsGrant(g) == g \in WebLimits /\ g.requests > 0 /\ (g.hosts = AnyHost \/ "*" \notin g.hosts)

(* Within is an order.                                                      *)
LEMMA WithinOrder ==
    /\ \A a : Within(a, a)
    /\ \A a, b, c : Within(a, b) /\ Within(b, c) => Within(a, c)
  BY DEF Within

(* An intersection is within both.                                          *)
LEMMA IntersectWithin ==
    ASSUME NEW a, NEW b, IsGrant(a), IsGrant(b)
    PROVE  /\ IsGrant(Intersect(a, b))
           /\ Within(Intersect(a, b).hosts, a.hosts) /\ Within(Intersect(a, b).hosts, b.hosts)
           /\ Intersect(a, b).requests <= a.requests /\ Intersect(a, b).requests <= b.requests
  <1> DEFINE h == IF b.hosts = AnyHost THEN a.hosts ELSE IF a.hosts = AnyHost THEN b.hosts
                  ELSE a.hosts \cap b.hosts
             n == Less(a.requests, b.requests)
  <1>1. Intersect(a, b) = [hosts |-> h, requests |-> n]
    BY DEF Intersect
  <1>2. a.hosts \in SUBSET STRING /\ b.hosts \in SUBSET STRING /\ a.requests \in Nat /\ b.requests \in Nat
        /\ a.requests > 0 /\ b.requests > 0
    BY DEF IsGrant, WebLimits
  <1>3. n \in Nat /\ n > 0 /\ n <= a.requests /\ n <= b.requests
    BY <1>2 DEF Less
  <1>4. h \in SUBSET STRING /\ (h = AnyHost \/ "*" \notin h) /\ Within(h, a.hosts) /\ Within(h, b.hosts)
    <2>1. CASE b.hosts = AnyHost
      BY <1>2, <2>1 DEF IsGrant, Within
    <2>2. CASE b.hosts # AnyHost /\ a.hosts = AnyHost
      BY <1>2, <2>2 DEF IsGrant, Within
    <2>3. CASE b.hosts # AnyHost /\ a.hosts # AnyHost
      BY <1>2, <2>3 DEF IsGrant, Within, AnyHost
    <2> QED
      BY <2>1, <2>2, <2>3
  <1> HIDE DEF h, n
  <1> QED
    BY <1>1, <1>3, <1>4 DEF IsGrant, WebLimits

(* The slot after some tools: none where none has the method, and within    *)
(* the signed limits of each that has it.                                   *)
SlotSound(d, m, R, n) ==
    \/ R[n] = NoSlot /\ \A i \in 1..n : d.tools[i].method # m
    \/ /\ IsGrant(R[n]) /\ \E i \in 1..n : d.tools[i].method = m
       /\ \A i \in 1..n : d.tools[i].method = m =>
             Within(R[n].hosts, d.tools[i].signed.hosts) /\ R[n].requests <= d.tools[i].signed.requests

(* One more tool.                                                           *)
LEMMA SlotSoundStep ==
    ASSUME NEW d \in Decisions, NEW m, NEW R, NEW n \in 1..Len(d.tools), Attenuated(d.tools[n]),
           R[n] = Narrowed(R[n - 1], d.tools[n], m), SlotSound(d, m, R, n - 1)
    PROVE  SlotSound(d, m, R, n)
  <1>0. Len(d.tools) \in Nat /\ d.tools[n].signed \in WebLimits /\ d.tools[n].declared \in WebLimits
    BY ToolShape
  <1>1. IsGrant(d.tools[n].signed)
    BY <1>0 DEF Attenuated, ValidHosts, IsGrant, WebLimits
  <1>2. \A i : i \in 1..n <=> i \in 1..(n - 1) \/ i = n
    BY <1>0
  <1>3. n - 1 \in Nat /\ ~IsGrant(NoSlot)
    BY <1>0 DEF IsGrant, NoSlot
  <1>4. CASE d.tools[n].method # m
    <2>1. R[n] = R[n - 1]
      BY <1>4 DEF Narrowed
    <2> QED
      BY <1>2, <1>4, <2>1, Zenon DEF SlotSound
  <1>5. CASE d.tools[n].method = m /\ R[n - 1] = NoSlot
    <2>1. R[n] = d.tools[n].signed /\ \A i \in 1..(n - 1) : d.tools[i].method # m
      BY <1>3, <1>5 DEF Narrowed, SlotSound
    <2>2. d.tools[n].signed.requests <= d.tools[n].signed.requests /\ n \in 1..n
      BY <1>0 DEF WebLimits
    <2>3. \A i \in 1..n : d.tools[i].method = m => i = n
      BY <1>2, <2>1, Zenon
    <2>4. Within(R[n].hosts, d.tools[n].signed.hosts) /\ R[n].requests <= d.tools[n].signed.requests
      BY <2>1, <2>2, WithinOrder, Zenon
    <2>5. \A i \in 1..n : d.tools[i].method = m =>
             Within(R[n].hosts, d.tools[i].signed.hosts) /\ R[n].requests <= d.tools[i].signed.requests
      BY <2>3, <2>4, Zenon
    <2>6. IsGrant(R[n])
      BY <1>1, <2>1, Zenon
    <2> QED
      BY <1>5, <2>2, <2>5, <2>6, Zenon DEF SlotSound
  <1>6. CASE d.tools[n].method = m /\ R[n - 1] # NoSlot
    <2>1. R[n] = Intersect(R[n - 1], d.tools[n].signed)
      BY <1>6 DEF Narrowed
    <2>2. IsGrant(R[n - 1])
          /\ \A i \in 1..(n - 1) : d.tools[i].method = m =>
             Within(R[n - 1].hosts, d.tools[i].signed.hosts) /\ R[n - 1].requests <= d.tools[i].signed.requests
      BY <1>6, Zenon DEF SlotSound
    <2>3. /\ IsGrant(R[n])
          /\ Within(R[n].hosts, R[n - 1].hosts) /\ Within(R[n].hosts, d.tools[n].signed.hosts)
          /\ R[n].requests <= R[n - 1].requests /\ R[n].requests <= d.tools[n].signed.requests
      BY <1>1, <2>1, <2>2, IntersectWithin, Zenon
    <2>4. ASSUME NEW i \in 1..n, d.tools[i].method = m
          PROVE  Within(R[n].hosts, d.tools[i].signed.hosts) /\ R[n].requests <= d.tools[i].signed.requests
      <3>1. CASE i = n
        BY <2>3, <3>1
      <3>2. CASE i # n
        <4>1. Within(R[n - 1].hosts, d.tools[i].signed.hosts) /\ R[n - 1].requests <= d.tools[i].signed.requests
          BY <1>2, <2>2, <2>4, <3>2, Zenon
        <4>2. Within(R[n].hosts, d.tools[i].signed.hosts)
          BY <2>3, <4>1, WithinOrder, Zenon
        <4>3. d.tools[i].signed \in WebLimits
          BY <1>0, ToolShape
        <4>4. R[n].requests \in Nat /\ R[n - 1].requests \in Nat /\ d.tools[i].signed.requests \in Nat
          BY <2>2, <2>3, <4>3 DEF IsGrant, WebLimits
        <4> QED
          BY <2>3, <4>1, <4>2, <4>4
      <3> QED
        BY <3>1, <3>2
    <2>5. n \in 1..n
      BY <1>0
    <2> QED
      BY <1>6, <2>3, <2>4, <2>5, Zenon DEF SlotSound
  <1> QED
    BY <1>4, <1>5, <1>6

(* https::derive: the slot of a method is within every tool that has it.    *)
LEMMA SlotWithin ==
    ASSUME NEW d \in Decisions, Derivable(d), NEW m \in Methods
    PROVE  /\ SlotOf(d, m) = NoSlot \/ \E i \in DOMAIN d.tools : d.tools[i].method = m
           /\ \A i \in DOMAIN d.tools : d.tools[i].method = m =>
                /\ Within(SlotOf(d, m).hosts, d.tools[i].signed.hosts)
                /\ Within(SlotOf(d, m).hosts, d.tools[i].declared.hosts)
                /\ SlotOf(d, m).requests <= Less(d.tools[i].signed.requests, d.tools[i].declared.requests)
  <1>1. PICK R : IsSlot(d, m, R) /\ SlotOf(d, m) = R[Len(d.tools)]
    BY SlotIs
  <1> DEFINE N == Len(d.tools)
             Bad == {n \in 0..N : ~SlotSound(d, m, R, n)}
  <1>2. N \in Nat /\ DOMAIN d.tools = 1..N
    BY ToolShape
  <1>3. R[0] = NoSlot /\ \A n \in 1..N : R[n] = Narrowed(R[n - 1], d.tools[n], m)
    BY <1>1, <1>2 DEF IsSlot
  <1>4. \A i \in 1..N : Attenuated(d.tools[i])
    BY <1>2 DEF Derivable
  <1>5. Bad = {}
    <2> SUFFICES ASSUME Bad # {} PROVE FALSE
      OBVIOUS
    <2>1. Bad \subseteq Nat
      BY <1>2
    <2>2. PICK x \in Bad : \A y \in Bad : x =< y
      <3> HIDE DEF Bad
      <3> QED
        BY <2>1, LeastNat
    <2>3. x \in 0..N /\ ~SlotSound(d, m, R, x)
      OBVIOUS
    <2>4. SlotSound(d, m, R, 0)
      <3>1. \A i \in 1..0 : FALSE
        OBVIOUS
      <3> QED
        BY <1>3, <3>1, Zenon DEF SlotSound
    <2>5. x # 0
      BY <2>3, <2>4
    <2>6. x \in 1..N /\ x - 1 \in 0..N /\ x - 1 \notin Bad
      BY <1>2, <2>2, <2>3, <2>5
    <2>7. SlotSound(d, m, R, x - 1)
      BY <2>6
    <2> QED
      BY <1>3, <1>4, <2>3, <2>6, <2>7, SlotSoundStep
  <1>6. SlotSound(d, m, R, N)
    BY <1>2, <1>5
  <1>7. ASSUME NEW i \in 1..N, d.tools[i].method = m
        PROVE  /\ Within(R[N].hosts, d.tools[i].signed.hosts)
               /\ Within(R[N].hosts, d.tools[i].declared.hosts)
               /\ R[N].requests <= Less(d.tools[i].signed.requests, d.tools[i].declared.requests)
    <2>1. Within(R[N].hosts, d.tools[i].signed.hosts) /\ R[N].requests <= d.tools[i].signed.requests
      BY <1>6, <1>7, Zenon DEF SlotSound
    <2>2. Within(d.tools[i].signed.hosts, d.tools[i].declared.hosts)
          /\ d.tools[i].signed.requests \in 1..d.tools[i].declared.requests
      BY <1>4 DEF Attenuated
    <2>3. Within(R[N].hosts, d.tools[i].declared.hosts)
      BY <2>1, <2>2, WithinOrder, Zenon
    <2>4. d.tools[i].declared.requests \in Nat
      BY ToolShape DEF WebLimits
    <2>5. Less(d.tools[i].signed.requests, d.tools[i].declared.requests) = d.tools[i].signed.requests
      BY <2>2, <2>4 DEF Less
    <2> QED
      BY <2>1, <2>3, <2>5
  <1>8. R[N] = NoSlot \/ \E i \in 1..N : d.tools[i].method = m
    BY <1>6, Zenon DEF SlotSound
  <1> HIDE DEF N, Bad
  <1> QED
    BY <1>1, <1>2, <1>7, <1>8 DEF N

(* artifacts::derive: the cap of the store is within every tool's.          *)
LEMMA CapWithin ==
    ASSUME NEW d \in Decisions, Derivable(d)
    PROVE  \A i \in DOMAIN d.stores : Capped(d) <= Less(d.stores[i].signed, d.stores[i].declared)
  <1>1. PICK R : IsCap(d, R) /\ Capped(d) = R[Len(d.stores)]
    BY CapIs
  <1> DEFINE N == Len(d.stores)
             Sound(n) == R[n] \in Nat /\ \A i \in 1..n : R[n] <= d.stores[i].signed
             Bad == {n \in 0..N : ~Sound(n)}
  <1>2. N \in Nat /\ DOMAIN d.stores = 1..N
        /\ \A i \in 1..N : d.stores[i].signed \in Nat /\ d.stores[i].declared \in Nat
    BY ToolShape
  <1>3. R[0] = d.stores[1].signed /\ \A n \in 1..N : R[n] = Less(R[n - 1], d.stores[n].signed)
    BY <1>1, <1>2 DEF IsCap
  <1> SUFFICES ASSUME N # 0
               PROVE  \A i \in 1..N : R[N] <= Less(d.stores[i].signed, d.stores[i].declared)
    BY <1>1, <1>2
  <1>4. 1 \in 1..N /\ d.stores[1].signed \in Nat
    BY <1>2
  <1>5. Bad = {}
    <2> SUFFICES ASSUME Bad # {} PROVE FALSE
      OBVIOUS
    <2>1. Bad \subseteq Nat
      BY <1>2
    <2>2. PICK x \in Bad : \A y \in Bad : x =< y
      <3> HIDE DEF Bad
      <3> QED
        BY <2>1, LeastNat
    <2>3. x \in 0..N /\ ~Sound(x)
      OBVIOUS
    <2>4. x # 0
      BY <1>3, <1>4, <2>3
    <2>5. x \in 1..N /\ x - 1 \in 0..N /\ x - 1 \notin Bad
      <3> HIDE DEF Sound
      <3> QED
        BY <1>2, <2>2, <2>3, <2>4
    <2>6. Sound(x - 1)
      BY <2>5
    <2>7. R[x] = Less(R[x - 1], d.stores[x].signed) /\ d.stores[x].signed \in Nat /\ R[x - 1] \in Nat
      BY <1>2, <1>3, <2>5, <2>6
    <2>8. R[x] \in Nat /\ R[x] <= R[x - 1] /\ R[x] <= d.stores[x].signed
      BY <2>7 DEF Less
    <2>9. ASSUME NEW i \in 1..x PROVE R[x] <= d.stores[i].signed
      <3>1. CASE i = x
        BY <2>8, <3>1
      <3>2. CASE i # x
        <4>1. i \in 1..(x - 1) /\ i \in 1..N
          BY <1>2, <2>5, <3>2
        <4>2. R[x - 1] <= d.stores[i].signed /\ d.stores[i].signed \in Nat
          BY <1>2, <2>6, <4>1
        <4> QED
          BY <2>7, <2>8, <4>2
      <3> QED
        BY <3>1, <3>2
    <2> QED
      BY <2>3, <2>8, <2>9
  <1>6. Sound(N)
    <2> HIDE DEF Sound
    <2> QED
      BY <1>2, <1>5
  <1>7. ASSUME NEW i \in 1..N
        PROVE  R[N] <= Less(d.stores[i].signed, d.stores[i].declared)
    <2>1. R[N] <= d.stores[i].signed
      BY <1>6
    <2>2. d.stores[i].signed \in 1..d.stores[i].declared
      BY <1>2 DEF Derivable
    <2>3. Less(d.stores[i].signed, d.stores[i].declared) = d.stores[i].signed
      BY <1>2, <2>2 DEF Less
    <2> QED
      BY <2>1, <2>3
  <1> QED
    BY <1>7

(* By when work ends that was anchored this long after the clock was read:  *)
(* the signed deadline, the part of a second that the clock drops, and that *)
(* long.                                                                    *)
Late(d, held) == Second * d.deadline + (Second - 1) + held

(* A start that was verified holds the operation lock, for an operation     *)
(* enrolled in this epoch, with permits for exactly the enrolled decision;  *)
(* once it claimed the operation nothing was launched for it, and the work  *)
(* it goes on to bound ends by then.                                        *)
Admitting ==
    \A r \in Requests :
        LET q == request[r] IN
        /\ q.at \in {"verified", "claimed", "timed", "bounded", "built"} =>
              /\ locked = {r} /\ Enrolled(q.id) /\ prepared[q.id].owner = owner
              /\ q.e.decision = prepared[q.id].decision
              /\ q.m # NoPermit => q.m.decision = prepared[q.id].decision
        /\ q.at \in {"claimed", "timed", "bounded", "built"} =>
              admitted[q.id] # "absent" /\ \A l \in begun : l.id # q.id
        /\ q.at \in {"bounded", "built"} => q.until <= Late(prepared[q.id].decision, q.held)

(* The seconds left to a start, between the two clocks it reads.            *)
Timed ==
    \A r \in Requests :
        LET q == request[r] IN
        q.at = "timed" => /\ q.read <= Moment
                          /\ Second * q.left <= Second * prepared[q.id].decision.deadline - q.read + (Second - 1)

(* What was acknowledged is what the record says. *)
Acknowledged ==
    \A i \in Ids : \A d \in enrolled[i] : Enrolled(i) /\ prepared[i].decision = d

(* An operation that was launched was claimed, once, under the record's     *)
(* decision.                                                                *)
Launched ==
    \A l \in begun :
        /\ admitted[l.id] # "absent" /\ \A k \in begun : k.id = l.id => k = l
        /\ Enrolled(l.id) /\ prepared[l.id].decision = l.decision
        /\ l.e.decision = l.decision /\ (l.m # NoPermit => l.m.decision = l.decision)

(* Work belongs to a launch of this receiver and ends by its deadline, and  *)
(* so did every model request that was made.                                *)
Bounded ==
    \A i \in Ids :
        /\ Running(i) =>
              \E l \in begun : l.id = i /\ l.owner = owner /\ work[i].until <= Late(l.decision, l.held)
        /\ sent[i].time # Never =>
              \E l \in begun : l.id = i /\ sent[i].owner = l.owner /\ sent[i].time < Late(l.decision, l.held)

(* A record is of a decision whose authority could be derived, and a launch *)
(* has exactly that authority.                                              *)
Derived ==
    /\ \A i \in Ids : Enrolled(i) => Derivable(prepared[i].decision)
    /\ \A l \in begun : l.grant = Granted(l.decision) /\ l.store = Artifacts(l.decision)

AuthInv == AuthTypeOK /\ Admitting /\ Timed /\ Acknowledged /\ Launched /\ Bounded /\ Derived

(* The disjuncts of the next-state relation, one by one. *)
LEMMA AuthCases ==
    ASSUME [AuthNext]_authVars
    PROVE  \/ \E r \in Requests : ReadKeys(r)
           \/ \E r \in Requests : LoadKeys(r)
           \/ \E r \in Requests : Prepare(r)
           \/ \E r \in Requests : DenyStart(r)
           \/ \E r \in Requests : VerifyStart(r)
           \/ \E r \in Requests : ClaimStart(r)
           \/ \E r \in Requests : BoundStart(r)
           \/ \E r \in Requests : AnchorStart(r)
           \/ \E r \in Requests : BuildNative(r)
           \/ \E r \in Requests : BuildRefused(r)
           \/ \E r \in Requests : LaunchNative(r)
           \/ \E r \in Requests : AccessRefused(r)
           \/ \E r \in Requests : Read(r)
           \/ \E r \in Requests : Cleanup(r)
           \/ \E i \in Ids : SendModel(i)
           \/ \E i \in Ids : WorkEnds(i)
           \/ TimePasses
           \/ Rotate
           \/ Restart
           \/ UNCHANGED authVars
  BY DEF AuthNext

(* What a request carries, by how far it is, and the changes made in place. *)
LEMMA RequestShape ==
    ASSUME NEW q \in RequestType
    PROVE  /\ q.at \in {"verified", "claimed", "timed", "bounded", "built"} =>
                 q.id \in Ids /\ q.e \in Permits /\ q.m \in Permits \cup {NoPermit}
           /\ q.at \in {"verified", "claimed", "timed", "bounded"} => q.now \in 0..MaxSeconds
           /\ q.at = "timed" => q.left \in Nat /\ q.read \in Nat
           /\ q.at \in {"bounded", "built"} => q.until \in Int /\ q.held \in Nat
           /\ q.at = "built" => q.custody \in Int
           /\ q.at # "idle" => q.since \in SUBSET Keys
           /\ q.at = "keys" => q.file \in (SUBSET Keys) \ {{}}
  BY DEF RequestType, Waiting

(* A verified request that is claimed keeps its operation and permits.      *)
LEMMA ClaimedShape ==
    ASSUME NEW q \in RequestType, q.at = "verified"
    PROVE  LET c == [q EXCEPT !.at = "claimed"] IN
           /\ c \in RequestType /\ c.at = "claimed"
           /\ c.id = q.id /\ c.e = q.e /\ c.m = q.m
  <1>1. q \in [at : {"verified", "claimed"}, id : Ids, e : Permits, m : Permits \cup {NoPermit},
               now : 0..MaxSeconds, since : SUBSET Keys]
    BY DEF RequestType, Waiting
  <1>2. QED
    BY <1>1 DEF RequestType

(* Keys that are removed meanwhile change nothing else of a request.        *)
LEMMA SinceShape ==
    ASSUME NEW q \in RequestType, q.at # "idle", NEW S \in SUBSET Keys
    PROVE  LET c == [q EXCEPT !.since = @ \cup S] IN
           /\ c \in RequestType /\ c.at = q.at
           /\ q.at \in {"verified", "claimed", "timed", "bounded", "built"} =>
                 c.id = q.id /\ c.e = q.e /\ c.m = q.m
           /\ q.at = "timed" => c.left = q.left /\ c.read = q.read
           /\ q.at \in {"bounded", "built"} => c.until = q.until /\ c.held = q.held
  <1>1. CASE q \in [at : {"keys"}, file : (SUBSET Keys) \ {{}}, since : SUBSET Keys]
    BY <1>1 DEF RequestType
  <1>2. CASE q \in [at : {"prepare", "start", "cleanup", "read"}, since : SUBSET Keys]
    BY <1>2 DEF RequestType
  <1>3. CASE q \in [at : {"verified", "claimed"}, id : Ids, e : Permits, m : Permits \cup {NoPermit},
                    now : 0..MaxSeconds, since : SUBSET Keys]
    BY <1>3 DEF RequestType
  <1>4. CASE q \in [at : {"timed"}, id : Ids, e : Permits, m : Permits \cup {NoPermit},
                    now : 0..MaxSeconds, since : SUBSET Keys, left : Nat, read : Nat]
    BY <1>4 DEF RequestType
  <1>5. CASE q \in [at : {"bounded"}, id : Ids, e : Permits, m : Permits \cup {NoPermit},
                    now : 0..MaxSeconds, since : SUBSET Keys, until : Int, held : Nat]
    BY <1>5 DEF RequestType
  <1>6. CASE q \in [at : {"built"}, id : Ids, e : Permits, m : Permits \cup {NoPermit},
                    since : SUBSET Keys, until : Int, held : Nat, custody : Int]
    BY <1>6 DEF RequestType
  <1>7. QED
    BY <1>1, <1>2, <1>3, <1>4, <1>5, <1>6 DEF RequestType, Waiting

(* The work of an operation. *)
LEMMA WorkEndsAt ==
    ASSUME NEW w \in WorkType, w.at = "running"
    PROVE  w.until \in Int /\ w.custody \in Int
  BY DEF WorkType, NoWork

(* Work that loses its bearer or is cancelled keeps its deadline.           *)
LEMMA WorkShape ==
    ASSUME NEW w \in WorkType, w.at = "running"
    PROVE  /\ LET u == [w EXCEPT !.bearer = NoPermit] IN
              u \in WorkType /\ u.at = "running" /\ u.until = w.until
           /\ LET u == [w EXCEPT !.cancelled = TRUE] IN
              u \in WorkType /\ u.at = "running" /\ u.until = w.until
  <1>1. w \in [at : {"running"}, bearer : Permits \cup {NoPermit}, until : Int,
               custody : Int, cancelled : BOOLEAN]
    BY DEF WorkType, NoWork
  <1>2. QED
    BY <1>1 DEF WorkType

(* An enrolled record, which enrolling does not replace. *)
LEMMA EnrolledShape ==
    ASSUME NEW i \in Ids, AuthTypeOK, Enrolled(i)
    PROVE  /\ prepared[i].decision \in Decisions /\ prepared[i].owner \in 1..MaxOwners
           /\ prepared[i].decision.deadline \in Int /\ prepared[i] # NoRecord
  BY AuthorityAssumption DEF AuthTypeOK, PreparedType, Enrolled, NoRecord

(* The monotonic clock.                                                     *)
LEMMA MomentNat ==
    ASSUME AuthTypeOK
    PROVE  Moment \in Nat /\ clock \in Nat /\ half \in 0..1
  BY AuthorityAssumption DEF AuthTypeOK, Moment, Second

(* It never goes back.                                                      *)
LEMMA MomentGrows ==
    ASSUME AuthTypeOK, [AuthNext]_authVars
    PROVE  Moment' \in Nat /\ Moment <= Moment'
  <1>0. clock \in Nat /\ half \in 0..1
    BY MomentNat
  <1>1. CASE TimePasses
    BY <1>0, <1>1 DEF TimePasses, Moment, Second
  <1>2. CASE UNCHANGED <<clock, half>>
    BY <1>0, <1>2 DEF Moment, Second
  <1>3. TimePasses \/ UNCHANGED <<clock, half>>
    <2>1. ASSUME NEW r \in Requests,
                 \/ ReadKeys(r) \/ LoadKeys(r) \/ Prepare(r) \/ DenyStart(r) \/ VerifyStart(r)
                 \/ ClaimStart(r) \/ BoundStart(r) \/ AnchorStart(r) \/ BuildNative(r)
          PROVE  UNCHANGED <<clock, half>>
      BY <2>1 DEF ReadKeys, LoadKeys, Prepare, DenyStart, VerifyStart, ClaimStart, BoundStart, AnchorStart,
                  BuildNative
    <2>2. ASSUME NEW r \in Requests,
                 BuildRefused(r) \/ LaunchNative(r) \/ AccessRefused(r) \/ Read(r) \/ Cleanup(r)
          PROVE  UNCHANGED <<clock, half>>
      BY <2>2 DEF BuildRefused, LaunchNative, AccessRefused, Read, Cleanup
    <2>3. ASSUME NEW i \in Ids, SendModel(i) \/ WorkEnds(i)
          PROVE  UNCHANGED <<clock, half>>
      BY <2>3 DEF SendModel, WorkEnds
    <2>4. Rotate \/ Restart \/ UNCHANGED authVars => UNCHANGED <<clock, half>>
      BY DEF Rotate, Restart, authVars
    <2>5. QED
      BY AuthCases, <2>1, <2>2, <2>3, <2>4
  <1>4. QED
    BY <1>1, <1>2, <1>3

(* The end of the work, by the seconds that were left at an earlier moment. *)
LEMMA ControlEnds ==
    ASSUME AuthTypeOK, NEW left \in Nat
    PROVE  OperationControl(left) \in Int /\ OperationControl(left) <= Moment + Second * left
  <1>1. Moment \in Int /\ Timeout \in Int /\ Second * left \in Int
    BY AuthorityAssumption, MomentNat DEF Second
  <1>2. QED
    BY <1>1 DEF OperationControl, Less

(* The custody of the bearer ends at a time.                                *)
LEMMA CustodyInt ==
    ASSUME AuthTypeOK, NEW q \in RequestType, q.at = "bounded", NEW d \in Decisions
    PROVE  Custody(q, d) \in Int
  <1>1. q.until \in Int /\ q.now \in Int /\ q.m \in Permits \cup {NoPermit}
        /\ Moment \in Int /\ d.deadline \in Int /\ Never \in Int
    BY RequestShape, AuthorityAssumption, MomentNat DEF AuthTypeOK, Never
  <1>2. q.m # NoPermit => q.m.exp \in Int
    BY <1>1, AuthorityAssumption
  <1>3. CASE q.m = NoPermit
    BY <1>1, <1>3 DEF Custody, Verify
  <1>4. CASE q.m # NoPermit
    <2>1. Second * (Less(q.m.exp, d.deadline) - q.now) \in Int
      BY <1>1, <1>2, <1>4 DEF Less, Second
    <2>2. QED
      BY <1>1, <2>1 DEF Custody, Less
  <1>5. QED
    BY <1>3, <1>4

(* What prepare may have done to the record it was asked about: created it  *)
(* with the decision, torn it, or left it; and acknowledged the decision    *)
(* only where the record says so.                                           *)
LEMMA EnrollEffect ==
    ASSUME AuthTypeOK, NEW d \in Decisions, Enroll(d.id, d)
    PROVE  /\ prepared' \in [Ids -> PreparedType] /\ enrolled' \in [Ids -> SUBSET Decisions]
           /\ \A i \in Ids : Enrolled(i) => prepared'[i] = prepared[i]
           /\ \A i \in Ids : \A x \in enrolled'[i] :
                 x \in enrolled[i] \/ (prepared'[i].at = "whole" /\ prepared'[i].decision = x)
           /\ \A i \in Ids : prepared'[i].at = "whole" => prepared'[i] = prepared[i] \/ prepared'[i].decision = d
  <1>1. d.id \in Ids
    BY DEF Ids
  <1>2. RecordOf(d) \in PreparedType /\ [at |-> "torn"] \in PreparedType
        /\ RecordOf(d).at = "whole" /\ RecordOf(d).decision = d
    BY DEF AuthTypeOK, PreparedType, RecordOf
  <1>3. prepared \in [Ids -> PreparedType] /\ enrolled \in [Ids -> SUBSET Decisions]
    BY DEF AuthTypeOK
  <1>4. Enrolled(d.id) => prepared[d.id] # NoRecord
    BY DEF Enrolled, NoRecord
  <1>5. enrolled' = enrolled \/ enrolled' = [enrolled EXCEPT ![d.id] = @ \cup {d}]
    BY DEF Enroll
  <1>6. enrolled' \in [Ids -> SUBSET Decisions]
    BY <1>1, <1>3, <1>5
  <1>7. CASE prepared[d.id] = NoRecord
    <2>1. \/ prepared' = [prepared EXCEPT ![d.id] = RecordOf(d)]
          \/ prepared' = [prepared EXCEPT ![d.id] = [at |-> "torn"]] /\ enrolled' = enrolled
      BY <1>7 DEF Enroll
    <2>2. prepared' \in [Ids -> PreparedType]
      BY <1>1, <1>2, <1>3, <2>1
    <2>3. \A i \in Ids : Enrolled(i) => prepared'[i] = prepared[i]
      BY <1>1, <1>3, <1>4, <1>7, <2>1
    <2>4. \A i \in Ids : \A x \in enrolled'[i] :
              x \in enrolled[i] \/ (prepared'[i].at = "whole" /\ prepared'[i].decision = x)
      BY <1>1, <1>2, <1>3, <1>5, <2>1
    <2>5. \A i \in Ids : prepared'[i].at = "whole" => prepared'[i] = prepared[i] \/ prepared'[i].decision = d
      BY <1>1, <1>2, <1>3, <2>1
    <2>6. QED
      BY <1>6, <2>2, <2>3, <2>4, <2>5
  <1>8. CASE prepared[d.id] # NoRecord
    <2>1. /\ prepared' = prepared
          /\ enrolled' = enrolled \/ (Enrolled(d.id) /\ prepared[d.id].decision = d)
      BY <1>8 DEF Enroll
    <2>2. QED
      BY <1>1, <1>3, <1>5, <1>6, <2>1 DEF Enrolled
  <1>9. QED
    BY <1>7, <1>8

(* Types. *)
LEMMA AuthTypeStep ==
    ASSUME AuthInv, [AuthNext]_authVars
    PROVE  AuthTypeOK'
  <1>t. AuthTypeOK
    BY DEF AuthInv
  <1>i. Admitting
    BY DEF AuthInv
  <1>s. /\ Waiting \in RequestType
        /\ \A x \in Requests :
              /\ request[x] \in RequestType
              /\ request[x].at = "keys" => request[x].file \in (SUBSET Keys) \ {{}}
              /\ request[x].at # "idle" => request[x].since \in SUBSET Keys
              /\ request[x].at \in {"verified", "claimed", "timed", "bounded", "built"} => request[x].id \in Ids
    BY <1>t, RequestShape DEF AuthTypeOK, RequestType
  <1>o. \A x \in Requests : locked \ {x} \in {locked, {}}
    BY <1>t DEF AuthTypeOK
  <1>1. ASSUME NEW r \in Requests, ReadKeys(r)
        PROVE  AuthTypeOK'
    <2>1. request' \in [Requests -> RequestType]
      <3>1. [at |-> "keys", file |-> file, since |-> file] \in RequestType
        BY <1>1, <1>t DEF ReadKeys, AuthTypeOK, RequestType
      <3>2. QED
        BY <1>1, <1>t, <3>1 DEF ReadKeys, AuthTypeOK
    <2>2. UNCHANGED <<clock, half, file, keys, owner, prepared, admitted, locked, work,
        begun, enrolled, sent>>
      BY <1>1 DEF ReadKeys
    <2>3. QED
      BY <1>t, <2>1, <2>2 DEF AuthTypeOK
  <1>2. ASSUME NEW r \in Requests, LoadKeys(r)
        PROVE  AuthTypeOK'
    <2>1. keys' \in (SUBSET Keys) \ {{}}
      BY <1>2, <1>t, <1>s DEF LoadKeys, AuthTypeOK
    <2>2. request' \in [Requests -> RequestType]
      <3>1. \A kind \in {"prepare", "start", "cleanup", "read"} :
                [at |-> kind, since |-> request[r].since] \in RequestType
        <4>1. request[r].since \in SUBSET Keys
          BY <1>2, <1>s DEF LoadKeys
        <4>2. QED
          BY <4>1 DEF RequestType
      <3>2. QED
        BY <1>2, <1>t, <3>1 DEF LoadKeys, AuthTypeOK
    <2>3. UNCHANGED <<clock, half, file, owner, prepared, admitted, locked, work,
        begun, enrolled, sent>>
      BY <1>2 DEF LoadKeys
    <2>4. QED
      BY <1>t, <2>1, <2>2, <2>3 DEF AuthTypeOK
  <1>3. ASSUME NEW r \in Requests, Prepare(r)
        PROVE  AuthTypeOK'
    <2>1. prepared' \in [Ids -> PreparedType]
      BY <1>3, <1>t, EnrollEffect DEF Prepare
    <2>2. request' \in [Requests -> RequestType]
      BY <1>3, <1>t, <1>s DEF Prepare, AuthTypeOK
    <2>3. enrolled' \in [Ids -> SUBSET Decisions]
      BY <1>3, <1>t, EnrollEffect DEF Prepare
    <2>4. UNCHANGED <<clock, half, file, keys, owner, admitted, locked, work, begun,
        sent>>
      BY <1>3 DEF Prepare
    <2>5. QED
      BY <1>t, <2>1, <2>2, <2>3, <2>4 DEF AuthTypeOK
  <1>4. ASSUME NEW r \in Requests, DenyStart(r)
        PROVE  AuthTypeOK'
    <2>1. locked' \in {{}} \cup {{x} : x \in Requests}
      BY <1>4, <1>t, <1>o DEF DenyStart, Refuse, AuthTypeOK
    <2>2. request' \in [Requests -> RequestType]
      BY <1>4, <1>t, <1>s DEF DenyStart, Refuse, AuthTypeOK
    <2>3. UNCHANGED <<clock, half, file, keys, owner, prepared, admitted, work, begun,
        enrolled, sent>>
      BY <1>4 DEF DenyStart
    <2>4. QED
      BY <1>t, <2>1, <2>2, <2>3 DEF AuthTypeOK
  <1>5. ASSUME NEW r \in Requests, VerifyStart(r)
        PROVE  AuthTypeOK'
    <2>1. locked' \in {{}} \cup {{x} : x \in Requests}
      BY <1>5 DEF VerifyStart
    <2>2. request' \in [Requests -> RequestType]
      <3>1. PICK i \in Ids, e \in Permits, m \in Permits \cup {NoPermit} :
                request' = [request EXCEPT ![r] =
                     [at |-> "verified", id |-> i, e |-> e, m |-> m, now |-> clock,
                      since |-> request[r].since]]
        BY <1>5 DEF VerifyStart
      <3>2. request[r].since \in SUBSET Keys /\ clock \in 0..MaxSeconds
        BY <1>5, <1>t, <1>s DEF VerifyStart, AuthTypeOK
      <3>3. [at |-> "verified", id |-> i, e |-> e, m |-> m, now |-> clock,
             since |-> request[r].since] \in RequestType
        BY <3>2 DEF RequestType
      <3>4. QED
        BY <1>t, <3>1, <3>3 DEF AuthTypeOK
    <2>3. UNCHANGED <<clock, half, file, keys, owner, prepared, admitted, work, begun,
        enrolled, sent>>
      BY <1>5 DEF VerifyStart
    <2>4. QED
      BY <1>t, <2>1, <2>2, <2>3 DEF AuthTypeOK
  <1>6. ASSUME NEW r \in Requests, ClaimStart(r)
        PROVE  AuthTypeOK'
    <2>1. admitted' \in [Ids -> {"absent", "open", "refused", "receipt", "fenced"}]
      BY <1>6, <1>t, <1>s DEF ClaimStart, AuthTypeOK
    <2>2. locked' \in {{}} \cup {{x} : x \in Requests}
      BY <1>6, <1>t, <1>o DEF ClaimStart, Refuse, AuthTypeOK
    <2>3. request' \in [Requests -> RequestType]
      <3>1. request[r].at = "verified" /\ request[r] \in RequestType
        BY <1>6, <1>s DEF ClaimStart
      <3>2. [request[r] EXCEPT !.at = "claimed"] \in RequestType
        BY <3>1, ClaimedShape
      <3>3. \/ request' = [request EXCEPT ![r] = [request[r] EXCEPT !.at = "claimed"]]
            \/ request' = [request EXCEPT ![r] = Waiting]
        BY <1>6 DEF ClaimStart, Refuse
      <3>4. QED
        BY <1>t, <1>s, <3>2, <3>3 DEF AuthTypeOK
    <2>4. UNCHANGED <<clock, half, file, keys, owner, prepared, work, begun, enrolled,
        sent>>
      BY <1>6 DEF ClaimStart
    <2>5. QED
      BY <1>t, <2>1, <2>2, <2>3, <2>4 DEF AuthTypeOK
  <1>7. ASSUME NEW r \in Requests, BoundStart(r)
        PROVE  AuthTypeOK'
    <2>1. admitted' \in [Ids -> {"absent", "open", "refused", "receipt", "fenced"}]
      BY <1>7, <1>t, <1>s DEF BoundStart, Terminal, AuthTypeOK
    <2>2. locked' \in {{}} \cup {{x} : x \in Requests}
      BY <1>7, <1>t, <1>o DEF BoundStart, Refuse, Terminal, AuthTypeOK
    <2>3. request' \in [Requests -> RequestType]
      <3>1. request[r].at = "claimed" /\ request[r] \in RequestType
        BY <1>7, <1>s DEF BoundStart
      <3>d. prepared[request[r].id].decision.deadline \in Int
        BY <3>1, <1>i, EnrolledShape, RequestShape, <1>t DEF Admitting
      <3>2. Moment \in Nat /\ clock \in Nat
        BY <1>t, MomentNat
      <3>3. \A u, v \in Nat :
               [at |-> "timed", id |-> request[r].id, e |-> request[r].e, m |-> request[r].m,
                now |-> request[r].now, since |-> request[r].since, left |-> u, read |-> v] \in RequestType
        <4>1. /\ request[r].id \in Ids /\ request[r].e \in Permits /\ request[r].since \in SUBSET Keys
              /\ request[r].m \in Permits \cup {NoPermit} /\ request[r].now \in 0..MaxSeconds
          BY <3>1, RequestShape
        <4>2. QED
          BY <4>1 DEF RequestType
      <3>4. \/ /\ prepared[request[r].id].decision.deadline > clock
               /\ request' = [request EXCEPT ![r] =
                  [at |-> "timed", id |-> request[r].id, e |-> request[r].e, m |-> request[r].m,
                   now |-> request[r].now, since |-> request[r].since,
                   left |-> prepared[request[r].id].decision.deadline - clock, read |-> Moment]]
            \/ request' = [request EXCEPT ![r] = Waiting]
        BY <1>7 DEF BoundStart, Terminal, Refuse
      <3>5. prepared[request[r].id].decision.deadline > clock =>
                prepared[request[r].id].decision.deadline - clock \in Nat
        BY <3>d, <3>2
      <3>6. QED
        BY <1>t, <1>s, <3>2, <3>3, <3>4, <3>5 DEF AuthTypeOK
    <2>4. UNCHANGED <<clock, half, file, keys, owner, prepared, work, begun, enrolled,
        sent>>
      BY <1>7 DEF BoundStart
    <2>5. QED
      BY <1>t, <2>1, <2>2, <2>3, <2>4 DEF AuthTypeOK
  <1>a. ASSUME NEW r \in Requests, AnchorStart(r)
        PROVE  AuthTypeOK'
    <2>1. request[r].at = "timed" /\ request[r] \in RequestType
      BY <1>a, <1>s DEF AnchorStart
    <2>2. Moment \in Nat /\ request[r].read \in Nat /\ request[r].left \in Nat /\ request[r].read <= Moment
      BY <1>t, <2>1, MomentNat, RequestShape DEF AuthInv, Timed
    <2>3. OperationControl(request[r].left) \in Int /\ Moment - request[r].read \in Nat
      BY <1>t, <2>2, ControlEnds
    <2>4. [at |-> "bounded", id |-> request[r].id, e |-> request[r].e, m |-> request[r].m,
           now |-> request[r].now, since |-> request[r].since,
           until |-> OperationControl(request[r].left), held |-> Moment - request[r].read] \in RequestType
      <3>1. /\ request[r].id \in Ids /\ request[r].e \in Permits /\ request[r].since \in SUBSET Keys
            /\ request[r].m \in Permits \cup {NoPermit} /\ request[r].now \in 0..MaxSeconds
        BY <2>1, RequestShape
      <3>2. QED
        BY <2>3, <3>1 DEF RequestType
    <2>5. request' \in [Requests -> RequestType]
      BY <1>a, <1>t, <2>4 DEF AnchorStart, AuthTypeOK
    <2>6. UNCHANGED <<clock, half, file, keys, owner, prepared, admitted, locked, work, begun,
        enrolled, sent>>
      BY <1>a DEF AnchorStart
    <2>7. QED
      BY <1>t, <2>5, <2>6 DEF AuthTypeOK
  <1>8. ASSUME NEW r \in Requests, BuildNative(r)
        PROVE  AuthTypeOK'
    <2>1. request' \in [Requests -> RequestType]
      <3> DEFINE q == request[r]
                 d == prepared[q.id].decision
                 custody == IF d.route = "none" THEN q.until ELSE Custody(q, d)
      <3>1. q.at = "bounded" /\ q \in RequestType
        BY <1>8, <1>s DEF BuildNative
      <3>2. d \in Decisions
        BY <3>1, <1>i, EnrolledShape, RequestShape, <1>t DEF Admitting
      <3>3. custody \in Int
        BY <3>1, <3>2, <1>t, CustodyInt, RequestShape
      <3>4. [at |-> "built", id |-> q.id, e |-> q.e, m |-> q.m, since |-> q.since,
             until |-> q.until, held |-> q.held, custody |-> custody] \in RequestType
        <4>1. q.id \in Ids /\ q.e \in Permits /\ q.m \in Permits \cup {NoPermit}
              /\ q.since \in SUBSET Keys /\ q.until \in Int /\ q.held \in Nat
          BY <3>1, RequestShape
        <4>2. QED
          BY <4>1, <3>3 DEF RequestType
      <3>5. request' = [request EXCEPT ![r] =
                [at |-> "built", id |-> q.id, e |-> q.e, m |-> q.m, since |-> q.since,
                 until |-> q.until, held |-> q.held, custody |-> custody]]
        BY <1>8 DEF BuildNative
      <3>6. QED
        BY <1>t, <3>4, <3>5 DEF AuthTypeOK
    <2>2. UNCHANGED <<clock, half, file, keys, owner, prepared, admitted, locked, work,
        begun, enrolled, sent>>
      BY <1>8 DEF BuildNative
    <2>3. QED
      BY <1>t, <2>1, <2>2 DEF AuthTypeOK
  <1>9. ASSUME NEW r \in Requests, BuildRefused(r)
        PROVE  AuthTypeOK'
    <2>1. admitted' \in [Ids -> {"absent", "open", "refused", "receipt", "fenced"}]
      BY <1>9, <1>t, <1>s DEF BuildRefused, Terminal, AuthTypeOK
    <2>2. locked' \in {{}} \cup {{x} : x \in Requests}
      BY <1>9, <1>t, <1>o DEF BuildRefused, Refuse, Terminal, AuthTypeOK
    <2>3. request' \in [Requests -> RequestType]
      BY <1>9, <1>t, <1>s DEF BuildRefused, Refuse, Terminal, AuthTypeOK
    <2>4. UNCHANGED <<clock, half, file, keys, owner, prepared, work, begun, enrolled,
        sent>>
      BY <1>9 DEF BuildRefused
    <2>5. QED
      BY <1>t, <2>1, <2>2, <2>3, <2>4 DEF AuthTypeOK
  <1>10. ASSUME NEW r \in Requests, LaunchNative(r)
        PROVE  AuthTypeOK'
    <2>1. admitted' \in [Ids -> {"absent", "open", "refused", "receipt", "fenced"}]
      BY <1>10, <1>t, <1>s DEF LaunchNative, Terminal, AuthTypeOK
    <2>2. locked' \in {{}} \cup {{x} : x \in Requests}
      BY <1>10, <1>t, <1>o DEF LaunchNative, Refuse, Terminal, AuthTypeOK
    <2>3. request' \in [Requests -> RequestType]
      BY <1>10, <1>t, <1>s DEF LaunchNative, Refuse, Terminal, AuthTypeOK
    <2>4. work' \in [Ids -> WorkType]
      <3>1. request[r].at = "built" /\ request[r] \in RequestType
        BY <1>10, <1>s DEF LaunchNative
      <3>2. [at |-> "running", bearer |-> request[r].m, until |-> request[r].until,
             custody |-> request[r].custody, cancelled |-> FALSE] \in WorkType
        <4>1. request[r].m \in Permits \cup {NoPermit} /\ request[r].until \in Int
              /\ request[r].custody \in Int
          BY <3>1, RequestShape
        <4>2. QED
          BY <4>1 DEF WorkType
      <3>3. \/ work' = [work EXCEPT ![request[r].id] =
                  [at |-> "running", bearer |-> request[r].m, until |-> request[r].until,
                   custody |-> request[r].custody, cancelled |-> FALSE]]
            \/ work' = work
        BY <1>10 DEF LaunchNative
      <3>4. QED
        BY <1>t, <3>2, <3>3 DEF AuthTypeOK
    <2>5. \A l \in begun' : l.id \in Ids /\ l.decision \in Decisions /\ l.owner \in 1..MaxOwners
        /\ l.held \in Nat
      <3>1. request[r].at = "built" /\ request[r] \in RequestType
        BY <1>10, <1>s DEF LaunchNative
      <3>2. request[r].id \in Ids /\ prepared[request[r].id].decision \in Decisions
            /\ request[r].held \in Nat
        BY <3>1, <1>i, EnrolledShape, RequestShape, <1>t DEF Admitting
      <3>3. owner \in 1..MaxOwners
            /\ \A l \in begun : l.id \in Ids /\ l.decision \in Decisions /\ l.owner \in 1..MaxOwners
                               /\ l.held \in Nat
        BY <1>t DEF AuthTypeOK
      <3>4. PICK g, s, e, m : \A l \in begun' :
                \/ l \in begun
                \/ l = [id |-> request[r].id, decision |-> prepared[request[r].id].decision, e |-> e,
                        m |-> m, owner |-> owner, held |-> request[r].held, grant |-> g, store |-> s]
        BY <1>10 DEF LaunchNative
      <3>5. QED
        BY <3>2, <3>3, <3>4
    <2>6. UNCHANGED <<clock, half, file, keys, owner, prepared, enrolled, sent>>
      BY <1>10 DEF LaunchNative
    <2>7. QED
      BY <1>t, <2>1, <2>2, <2>3, <2>4, <2>5, <2>6 DEF AuthTypeOK
  <1>11. ASSUME NEW r \in Requests, AccessRefused(r)
        PROVE  AuthTypeOK'
    <2>1. locked' \in {{}} \cup {{x} : x \in Requests}
      BY <1>11, <1>t, <1>o DEF AccessRefused, Refuse, AuthTypeOK
    <2>2. request' \in [Requests -> RequestType]
      BY <1>11, <1>t, <1>s DEF AccessRefused, Refuse, AuthTypeOK
    <2>3. UNCHANGED <<clock, half, file, keys, owner, prepared, admitted, work, begun,
        enrolled, sent>>
      BY <1>11 DEF AccessRefused
    <2>4. QED
      BY <1>t, <2>1, <2>2, <2>3 DEF AuthTypeOK
  <1>12. ASSUME NEW r \in Requests, Read(r)
        PROVE  AuthTypeOK'
    <2>1. locked' \in {{}} \cup {{x} : x \in Requests}
      BY <1>12, <1>t, <1>o DEF Read, Refuse, AuthTypeOK
    <2>2. request' \in [Requests -> RequestType]
      BY <1>12, <1>t, <1>s DEF Read, Refuse, AuthTypeOK
    <2>3. UNCHANGED <<clock, half, file, keys, owner, prepared, admitted, work, begun,
        enrolled, sent>>
      BY <1>12 DEF Read
    <2>4. QED
      BY <1>t, <2>1, <2>2, <2>3 DEF AuthTypeOK
  <1>13. ASSUME NEW r \in Requests, Cleanup(r)
        PROVE  AuthTypeOK'
    <2>1. admitted' \in [Ids -> {"absent", "open", "refused", "receipt",
        "fenced"}]
      BY <1>13, <1>t DEF Cleanup, Refuse, AuthTypeOK
    <2>2. locked' \in {{}} \cup {{x} : x \in Requests}
      BY <1>13, <1>t, <1>o DEF Cleanup, Refuse, AuthTypeOK
    <2>3. request' \in [Requests -> RequestType]
      BY <1>13, <1>t, <1>s DEF Cleanup, Refuse, AuthTypeOK
    <2>4. work' \in [Ids -> WorkType]
      <3>1. PICK i \in Ids :
                work' = IF Running(i) THEN [work EXCEPT ![i] = [work[i] EXCEPT !.cancelled = TRUE]] ELSE work
        BY <1>13 DEF Cleanup
      <3>2. Running(i) => [work[i] EXCEPT !.cancelled = TRUE] \in WorkType
        BY <1>t, WorkShape DEF Running, AuthTypeOK
      <3>3. QED
        BY <1>t, <3>1, <3>2 DEF AuthTypeOK
    <2>5. UNCHANGED <<clock, half, file, keys, owner, prepared, begun, enrolled, sent>>
      BY <1>13 DEF Cleanup
    <2>6. QED
      BY <1>t, <2>1, <2>2, <2>3, <2>4, <2>5 DEF AuthTypeOK
  <1>14. ASSUME NEW i \in Ids, SendModel(i)
        PROVE  AuthTypeOK'
    <2>1. work' \in [Ids -> WorkType]
      <3>1. work[i] \in WorkType /\ work[i].at = "running"
        BY <1>14, <1>t DEF SendModel, Running, AuthTypeOK
      <3>2. [work[i] EXCEPT !.bearer = NoPermit] \in WorkType
        BY <3>1, WorkShape
      <3>3. work' = [work EXCEPT ![i] = [work[i] EXCEPT !.bearer = NoPermit]] \/ work' = work
        BY <1>14 DEF SendModel
      <3>4. QED
        BY <1>t, <3>2, <3>3 DEF AuthTypeOK
    <2>2. sent' \in [Ids -> [time : Int, owner : 0..MaxOwners]]
      <3>1. [time |-> Moment, owner |-> owner] \in [time : Int, owner : 0..MaxOwners]
        BY <1>t, MomentNat, AuthorityAssumption DEF AuthTypeOK
      <3>2. sent' = [sent EXCEPT ![i] = [time |-> Moment, owner |-> owner]] \/ sent' = sent
        BY <1>14 DEF SendModel
      <3>3. QED
        BY <1>t, <3>1, <3>2 DEF AuthTypeOK
    <2>3. UNCHANGED <<clock, half, file, keys, owner, prepared, admitted, locked,
        request, begun, enrolled>>
      BY <1>14 DEF SendModel
    <2>4. QED
      BY <1>t, <2>1, <2>2, <2>3 DEF AuthTypeOK
  <1>15. ASSUME NEW i \in Ids, WorkEnds(i)
        PROVE  AuthTypeOK'
    <2>1. admitted' \in [Ids -> {"absent", "open", "refused", "receipt",
        "fenced"}]
      BY <1>15, <1>t DEF WorkEnds, AuthTypeOK
    <2>2. work' \in [Ids -> WorkType]
      BY <1>15, <1>t DEF WorkEnds, AuthTypeOK, WorkType
    <2>3. UNCHANGED <<clock, half, file, keys, owner, prepared, locked, request, begun,
        enrolled, sent>>
      BY <1>15 DEF WorkEnds
    <2>4. QED
      BY <1>t, <2>1, <2>2, <2>3 DEF AuthTypeOK
  <1>16. CASE TimePasses
    <2>1. clock' \in 0..MaxSeconds /\ half' \in 0..(Second - 1)
      BY <1>16, <1>t, AuthorityAssumption DEF TimePasses, AuthTypeOK, Second
    <2>2. UNCHANGED <<file, keys, owner, prepared, admitted, locked, request,
        work, begun, enrolled, sent>>
      BY <1>16 DEF TimePasses
    <2>3. QED
      BY <1>t, <2>1, <2>2 DEF AuthTypeOK
  <1>17. CASE Rotate
    <2>1. file' \in SUBSET Keys
      BY <1>17, <1>t, AuthorityAssumption DEF Rotate, AuthTypeOK
    <2>2. request' \in [Requests -> RequestType]
      <3>1. file' \in SUBSET Keys
        BY <1>17, AuthorityAssumption DEF Rotate
      <3>2. \A r \in Requests : request[r].at # "idle" =>
                [request[r] EXCEPT !.since = @ \cup file'] \in RequestType
        BY <1>s, <3>1, SinceShape
      <3>3. QED
        BY <1>17, <1>s, <3>2 DEF Rotate
    <2>3. UNCHANGED <<clock, half, keys, owner, prepared, admitted, locked, work,
        begun, enrolled, sent>>
      BY <1>17 DEF Rotate
    <2>4. QED
      BY <1>t, <2>1, <2>2, <2>3 DEF AuthTypeOK
  <1>18. CASE Restart
    <2>1. keys' \in (SUBSET Keys) \ {{}}
      BY <1>18, <1>t DEF Restart, AuthTypeOK
    <2>2. owner' \in 1..MaxOwners
      BY <1>18, <1>t, AuthorityAssumption DEF Restart, AuthTypeOK
    <2>3. locked' \in {{}} \cup {{x} : x \in Requests}
      BY <1>18, <1>t DEF Restart, AuthTypeOK
    <2>4. request' \in [Requests -> RequestType]
      BY <1>18, <1>s DEF Restart
    <2>5. work' \in [Ids -> WorkType]
      BY <1>18, <1>t DEF Restart, AuthTypeOK, WorkType
    <2>6. UNCHANGED <<clock, half, file, prepared, admitted, begun, enrolled, sent>>
      BY <1>18 DEF Restart
    <2>7. QED
      BY <1>t, <2>1, <2>2, <2>3, <2>4, <2>5, <2>6 DEF AuthTypeOK
  <1>19. CASE UNCHANGED authVars
    BY <1>t, <1>19 DEF authVars, AuthTypeOK
  <1>20. QED
    BY AuthCases, <1>1, <1>2, <1>3, <1>4, <1>5, <1>6, <1>7, <1>a, <1>8, <1>9, <1>10,
       <1>11, <1>12, <1>13, <1>14, <1>15, <1>16, <1>17, <1>18, <1>19

(* A record once enrolled and an admission once made stay. *)
LEMMA AuthStays ==
    ASSUME AuthInv, [AuthNext]_authVars, NEW i \in Ids
    PROVE  /\ Enrolled(i) => prepared'[i] = prepared[i] /\ prepared'[i].at = "whole"
           /\ admitted[i] # "absent" => admitted'[i] # "absent"
  <1>t. AuthTypeOK
    BY DEF AuthInv
  <1>1. ASSUME NEW s \in Requests, ReadKeys(s)
        PROVE  /\ Enrolled(i) => prepared'[i] = prepared[i] /\ prepared'[i].at = "whole"
               /\ admitted[i] # "absent" => admitted'[i] # "absent"
    BY <1>1 DEF ReadKeys, Enrolled
  <1>2. ASSUME NEW s \in Requests, LoadKeys(s)
        PROVE  /\ Enrolled(i) => prepared'[i] = prepared[i] /\ prepared'[i].at = "whole"
               /\ admitted[i] # "absent" => admitted'[i] # "absent"
    BY <1>2 DEF LoadKeys, Enrolled
  <1>3. ASSUME NEW s \in Requests, Prepare(s)
        PROVE  /\ Enrolled(i) => prepared'[i] = prepared[i] /\ prepared'[i].at = "whole"
               /\ admitted[i] # "absent" => admitted'[i] # "absent"
    BY <1>3, <1>t, EnrollEffect DEF Prepare, Enrolled
  <1>4. ASSUME NEW s \in Requests, DenyStart(s)
        PROVE  /\ Enrolled(i) => prepared'[i] = prepared[i] /\ prepared'[i].at = "whole"
               /\ admitted[i] # "absent" => admitted'[i] # "absent"
    BY <1>4 DEF DenyStart, Enrolled
  <1>5. ASSUME NEW s \in Requests, VerifyStart(s)
        PROVE  /\ Enrolled(i) => prepared'[i] = prepared[i] /\ prepared'[i].at = "whole"
               /\ admitted[i] # "absent" => admitted'[i] # "absent"
    BY <1>5 DEF VerifyStart, Enrolled
  <1>6. ASSUME NEW s \in Requests, ClaimStart(s)
        PROVE  /\ Enrolled(i) => prepared'[i] = prepared[i] /\ prepared'[i].at = "whole"
               /\ admitted[i] # "absent" => admitted'[i] # "absent"
    BY <1>6, <1>t DEF ClaimStart, Refuse, Enrolled, AuthTypeOK
  <1>7. ASSUME NEW s \in Requests, BoundStart(s)
        PROVE  /\ Enrolled(i) => prepared'[i] = prepared[i] /\ prepared'[i].at = "whole"
               /\ admitted[i] # "absent" => admitted'[i] # "absent"
    BY <1>7, <1>t DEF BoundStart, Refuse, Terminal, Enrolled, AuthTypeOK
  <1>a. ASSUME NEW s \in Requests, AnchorStart(s)
        PROVE  /\ Enrolled(i) => prepared'[i] = prepared[i] /\ prepared'[i].at = "whole"
               /\ admitted[i] # "absent" => admitted'[i] # "absent"
    BY <1>a DEF AnchorStart, Enrolled
  <1>8. ASSUME NEW s \in Requests, BuildNative(s)
        PROVE  /\ Enrolled(i) => prepared'[i] = prepared[i] /\ prepared'[i].at = "whole"
               /\ admitted[i] # "absent" => admitted'[i] # "absent"
    BY <1>8 DEF BuildNative, Enrolled
  <1>9. ASSUME NEW s \in Requests, BuildRefused(s)
        PROVE  /\ Enrolled(i) => prepared'[i] = prepared[i] /\ prepared'[i].at = "whole"
               /\ admitted[i] # "absent" => admitted'[i] # "absent"
    BY <1>9, <1>t DEF BuildRefused, Refuse, Terminal, Enrolled, AuthTypeOK
  <1>10. ASSUME NEW s \in Requests, LaunchNative(s)
        PROVE  /\ Enrolled(i) => prepared'[i] = prepared[i] /\ prepared'[i].at = "whole"
               /\ admitted[i] # "absent" => admitted'[i] # "absent"
    BY <1>10, <1>t DEF LaunchNative, Refuse, Terminal, Enrolled, AuthTypeOK
  <1>11. ASSUME NEW s \in Requests, AccessRefused(s)
        PROVE  /\ Enrolled(i) => prepared'[i] = prepared[i] /\ prepared'[i].at = "whole"
               /\ admitted[i] # "absent" => admitted'[i] # "absent"
    BY <1>11 DEF AccessRefused, Enrolled
  <1>12. ASSUME NEW s \in Requests, Read(s)
        PROVE  /\ Enrolled(i) => prepared'[i] = prepared[i] /\ prepared'[i].at = "whole"
               /\ admitted[i] # "absent" => admitted'[i] # "absent"
    BY <1>12 DEF Read, Enrolled
  <1>13. ASSUME NEW s \in Requests, Cleanup(s)
        PROVE  /\ Enrolled(i) => prepared'[i] = prepared[i] /\ prepared'[i].at = "whole"
               /\ admitted[i] # "absent" => admitted'[i] # "absent"
    BY <1>13, <1>t DEF Cleanup, Refuse, Enrolled, AuthTypeOK
  <1>14. ASSUME NEW j \in Ids, SendModel(j)
        PROVE  /\ Enrolled(i) => prepared'[i] = prepared[i] /\ prepared'[i].at = "whole"
               /\ admitted[i] # "absent" => admitted'[i] # "absent"
    BY <1>14 DEF SendModel, Enrolled
  <1>15. ASSUME NEW j \in Ids, WorkEnds(j)
        PROVE  /\ Enrolled(i) => prepared'[i] = prepared[i] /\ prepared'[i].at = "whole"
               /\ admitted[i] # "absent" => admitted'[i] # "absent"
    BY <1>15, <1>t DEF WorkEnds, Enrolled, AuthTypeOK
  <1>16. CASE TimePasses
    BY <1>16 DEF TimePasses, Enrolled
  <1>17. CASE Rotate
    BY <1>17 DEF Rotate, Enrolled
  <1>18. CASE Restart
    BY <1>18 DEF Restart, Enrolled
  <1>19. CASE UNCHANGED authVars
    BY <1>19 DEF authVars, Enrolled
  <1>20. QED
    BY AuthCases, <1>1, <1>2, <1>3, <1>4, <1>5, <1>6, <1>7, <1>a, <1>8, <1>9, <1>10,
       <1>11, <1>12, <1>13, <1>14, <1>15, <1>16, <1>17, <1>18, <1>19

(* A launch: of the operation the request claimed, under its record. *)
LEMMA LaunchEffect ==
    ASSUME AuthInv, NEW s \in Requests, LaunchNative(s)
    PROVE  /\ request[s].at = "built" /\ request'[s] = Waiting
           /\ \A r \in Requests : r # s => request'[r] = request[r]
           /\ \A j \in Ids : j # request[s].id => work'[j] = work[j]
           /\ \/ /\ begun' = begun /\ work' = work
              \/ \E l : /\ begun' = begun \cup {l} /\ l.id = request[s].id
                        /\ l.decision = prepared[request[s].id].decision
                        /\ l.e = request[s].e /\ l.m = request[s].m /\ l.owner = owner
                        /\ l.held = request[s].held
                        /\ l.grant = Granted(l.decision) /\ l.store = Artifacts(l.decision)
                        /\ work'[request[s].id].until = request[s].until
  <1>t. AuthTypeOK
    BY DEF AuthInv
  <1>1. request[s].at = "built" /\ request \in [Requests -> RequestType] /\ work \in [Ids -> WorkType]
    BY <1>t DEF LaunchNative, AuthTypeOK
  <1>2. request[s].id \in Ids
    BY <1>1, RequestShape
  <1>3. request' = [request EXCEPT ![s] = Waiting]
    BY DEF LaunchNative, Terminal, Refuse
  <1>4. CASE work' = work /\ begun' = begun
    BY <1>1, <1>3, <1>4
  <1>5. CASE ~(work' = work /\ begun' = begun)
    <2>1. /\ work' = [work EXCEPT ![request[s].id] =
                 [at |-> "running", bearer |-> request[s].m, until |-> request[s].until,
                  custody |-> request[s].custody, cancelled |-> FALSE]]
          /\ begun' = begun \cup {[id |-> request[s].id, decision |-> prepared[request[s].id].decision,
                                   e |-> request[s].e, m |-> request[s].m, owner |-> owner,
                                   held |-> request[s].held,
                                   grant |-> Granted(prepared[request[s].id].decision),
                                   store |-> Artifacts(prepared[request[s].id].decision)]}
      BY <1>5 DEF LaunchNative
    <2>2. work'[request[s].id].until = request[s].until
          /\ \A j \in Ids : j # request[s].id => work'[j] = work[j]
      BY <1>1, <1>2, <2>1
    <2> DEFINE l == [id |-> request[s].id, decision |-> prepared[request[s].id].decision,
                     e |-> request[s].e, m |-> request[s].m, owner |-> owner, held |-> request[s].held,
                     grant |-> Granted(prepared[request[s].id].decision),
                     store |-> Artifacts(prepared[request[s].id].decision)]
    <2>3. /\ begun' = begun \cup {l} /\ l.id = request[s].id
          /\ l.decision = prepared[request[s].id].decision
          /\ l.e = request[s].e /\ l.m = request[s].m /\ l.owner = owner /\ l.held = request[s].held
          /\ l.grant = Granted(l.decision) /\ l.store = Artifacts(l.decision)
      BY <2>1
    <2> HIDE DEF l
    <2>4. \A r \in Requests : r # s => request'[r] = request[r]
      BY <1>1, <1>3
    <2>5. request'[s] = Waiting
      BY <1>1, <1>3
    <2>6. QED
      BY <1>1, <2>2, <2>3, <2>4, <2>5
  <1>6. QED
    BY <1>4, <1>5

(* The start under way. *)
LEMMA AdmittingStep ==
    ASSUME AuthInv, [AuthNext]_authVars
    PROVE  Admitting'
  <1>t. AuthTypeOK /\ Admitting
    BY DEF AuthInv
  <1>s. /\ request \in [Requests -> RequestType] /\ Waiting.at = "idle"
        /\ \A x \in Requests :
              request[x].at \in {"verified", "claimed", "timed", "bounded", "built"} =>
                  request[x].id \in Ids /\ locked = {x}
    BY <1>t, RequestShape DEF AuthTypeOK, RequestType, Admitting, Waiting
  <1>k. \A i \in Ids :
            /\ Enrolled(i) => prepared'[i] = prepared[i] /\ prepared'[i].at = "whole"
            /\ admitted[i] # "absent" => admitted'[i] # "absent"
    BY AuthStays
  <1>l. Launched
    BY DEF AuthInv
  <1>1. ASSUME NEW s \in Requests, ReadKeys(s)
        PROVE  Admitting'
    <2>1. \A r \in Requests :
              request'[r] = request[r] \/ request'[r].at \in {"keys", "prepare", "start", "cleanup", "read"}
      BY <1>1, <1>s DEF ReadKeys
    <2>2. UNCHANGED <<prepared, owner, admitted, locked, begun>>
      BY <1>1 DEF ReadKeys
    <2>3. QED
      BY <2>1, <2>2, <1>t DEF Admitting, Enrolled
  <1>2. ASSUME NEW s \in Requests, LoadKeys(s)
        PROVE  Admitting'
    <2>1. \A r \in Requests :
              request'[r] = request[r] \/ request'[r].at \in {"keys", "prepare", "start", "cleanup", "read"}
      BY <1>2, <1>s DEF LoadKeys
    <2>2. UNCHANGED <<prepared, owner, admitted, locked, begun>>
      BY <1>2 DEF LoadKeys
    <2>3. QED
      BY <2>1, <2>2, <1>t DEF Admitting, Enrolled
  <1>3. ASSUME NEW s \in Requests, Prepare(s)
        PROVE  Admitting'
    <2>1. /\ \A r \in Requests : request'[r] = request[r] \/ request'[r] = Waiting
          /\ UNCHANGED <<owner, admitted, locked, begun>>
      BY <1>3, <1>s DEF Prepare
    <2>2. QED
      BY <2>1, <1>t, <1>s, <1>k DEF Admitting, Enrolled
  <1>4. ASSUME NEW s \in Requests, DenyStart(s)
        PROVE  Admitting'
    <2>1. /\ \A r \in Requests : (r # s /\ request'[r] = request[r]) \/ request'[r].at = "idle"
          /\ UNCHANGED <<prepared, owner, admitted, begun>>
          /\ request[s].at \notin {"verified", "claimed", "timed", "bounded", "built"} /\ locked' = locked \ {s}
      BY <1>4, <1>s DEF DenyStart, Refuse
    <2>2. \A r \in Requests : locked = {r} /\ r # s => locked' = {r}
      BY <2>1
    <2>3. QED
      BY <2>1, <2>2, <1>t, <1>s, <1>k DEF Admitting, Enrolled
  <1>5. ASSUME NEW s \in Requests, VerifyStart(s)
        PROVE  Admitting'
    <2>0. PICK i \in Ids, e \in Permits, m \in Permits \cup {NoPermit} :
              /\ Enrolled(i) /\ prepared[i].owner = owner
              /\ Verify(e, prepared[i].decision, "start", clock)
              /\ m = NoPermit \/ Verify(m, prepared[i].decision, "model", clock)
              /\ request' = [request EXCEPT ![s] =
                     [at |-> "verified", id |-> i, e |-> e, m |-> m, now |-> clock,
                      since |-> request[s].since]]
      BY <1>5 DEF VerifyStart
    <2>1. /\ Enrolled(i) /\ prepared[i].owner = owner
          /\ e.decision = prepared[i].decision /\ (m # NoPermit => m.decision = prepared[i].decision)
          /\ request' = [request EXCEPT ![s] =
                     [at |-> "verified", id |-> i, e |-> e, m |-> m, now |-> clock,
                      since |-> request[s].since]]
      BY <2>0 DEF Verify
    <2>2. /\ request'[s].at = "verified" /\ request'[s].id = i /\ request'[s].e = e /\ request'[s].m = m
          /\ \A r \in Requests : r # s => request'[r] = request[r]
      BY <2>1, <1>s
    <2>3. \A r \in Requests : request[r].at \notin {"verified", "claimed", "timed", "bounded", "built"}
      BY <1>5, <1>s DEF VerifyStart
    <2>4. locked' = {s} /\ UNCHANGED <<prepared, owner>>
      BY <1>5 DEF VerifyStart
    <2>5. QED
      BY <2>1, <2>2, <2>3, <2>4 DEF Admitting, Enrolled
  <1>6. ASSUME NEW s \in Requests, ClaimStart(s)
        PROVE  Admitting'
    <2>1. request[s].at = "verified" /\ request[s] \in RequestType
          /\ UNCHANGED <<prepared, owner, begun>>
      BY <1>6, <1>s DEF ClaimStart
    <2>2. CASE /\ admitted[request[s].id] = "absent" /\ locked' = locked
               /\ admitted' = [admitted EXCEPT ![request[s].id] = "open"]
               /\ request' = [request EXCEPT ![s].at = "claimed"]
      <3>1. /\ request'[s].at = "claimed" /\ request'[s].id = request[s].id /\ request'[s].e = request[s].e
            /\ request'[s].m = request[s].m
            /\ \A r \in Requests : r # s => request'[r] = request[r]
        BY <1>s, <2>1, <2>2, ClaimedShape
      <3>2. admitted'[request[s].id] # "absent"
        BY <1>s, <1>t, <2>1, <2>2 DEF AuthTypeOK
      <3>3. \A l \in begun : l.id # request[s].id
        BY <2>2, <1>l DEF Launched
      <3>4. \A r \in Requests : r # s => request[r].at \notin {"verified", "claimed", "timed", "bounded", "built"}
        BY <1>s, <2>1
      <3>5. QED
        BY <1>t, <2>1, <2>2, <3>1, <3>2, <3>3, <3>4 DEF Admitting, Enrolled
    <2>3. CASE Refuse(s) /\ UNCHANGED admitted
      <3>1. \A r \in Requests : request'[r].at \notin {"verified", "claimed", "timed", "bounded", "built"}
        BY <1>s, <2>1, <2>3 DEF Refuse
      <3>2. QED
        BY <3>1 DEF Admitting
    <2>4. QED
      BY <1>6, <2>2, <2>3 DEF ClaimStart
  <1>7. ASSUME NEW s \in Requests, BoundStart(s)
        PROVE  Admitting'
    <2>1. request[s].at = "claimed" /\ request[s] \in RequestType
          /\ UNCHANGED <<prepared, owner, begun>>
      BY <1>7, <1>s DEF BoundStart
    <2>2. CASE /\ UNCHANGED <<admitted, locked>>
               /\ request' = [request EXCEPT ![s] =
                     [at |-> "timed", id |-> @.id, e |-> @.e, m |-> @.m, now |-> @.now, since |-> @.since,
                      left |-> prepared[request[s].id].decision.deadline - clock, read |-> Moment]]
      <3>1. /\ request'[s].at = "timed" /\ request'[s].id = request[s].id /\ request'[s].e = request[s].e
            /\ request'[s].m = request[s].m
            /\ \A r \in Requests : r # s => request'[r] = request[r]
        BY <1>s, <2>1, <2>2
      <3>2. \A r \in Requests : r # s => request[r].at \notin {"verified", "claimed", "timed", "bounded", "built"}
        BY <1>s, <2>1
      <3>3. QED
        BY <1>t, <2>1, <2>2, <3>1, <3>2 DEF Admitting, Enrolled
    <2>3. CASE Terminal(s)
      <3>1. \A r \in Requests : request'[r].at \notin {"verified", "claimed", "timed", "bounded", "built"}
        BY <1>s, <2>1, <2>3 DEF Terminal, Refuse
      <3>2. QED
        BY <3>1 DEF Admitting
    <2>4. QED
      BY <1>7, <2>2, <2>3 DEF BoundStart
  <1>a. ASSUME NEW s \in Requests, AnchorStart(s)
        PROVE  Admitting'
    <2>1. request[s].at = "timed" /\ request[s] \in RequestType
          /\ UNCHANGED <<prepared, owner, begun, admitted, locked>>
      BY <1>a, <1>s DEF AnchorStart
    <2>2. /\ request'[s].at = "bounded" /\ request'[s].id = request[s].id /\ request'[s].e = request[s].e
          /\ request'[s].m = request[s].m
          /\ request'[s].until = OperationControl(request[s].left)
          /\ request'[s].held = Moment - request[s].read
          /\ \A r \in Requests : r # s => request'[r] = request[r]
      BY <1>a, <1>s DEF AnchorStart
    <2> DEFINE d == prepared[request[s].id].decision
    <2>3. /\ d.deadline \in Int /\ request[s].left \in Nat /\ request[s].read \in Nat /\ Moment \in Nat
          /\ Second * request[s].left <= Second * d.deadline - request[s].read + (Second - 1)
      BY <1>t, <1>s, <2>1, EnrolledShape, RequestShape, MomentNat DEF Admitting, AuthInv, Timed
    <2>4. OperationControl(request[s].left) \in Int
          /\ OperationControl(request[s].left) <= Moment + Second * request[s].left
      BY <1>t, <2>3, ControlEnds
    <2>5. request'[s].until <= Late(d, request'[s].held)
      BY <2>2, <2>3, <2>4 DEF Late, Second
    <2> HIDE DEF d
    <2>6. \A r \in Requests : r # s => request[r].at \notin {"verified", "claimed", "timed", "bounded", "built"}
      BY <1>s, <2>1
    <2>7. QED
      BY <1>t, <2>1, <2>2, <2>5, <2>6 DEF Admitting, Enrolled, d
  <1>8. ASSUME NEW s \in Requests, BuildNative(s)
        PROVE  Admitting'
    <2>1. request[s].at = "bounded" /\ request[s] \in RequestType
          /\ UNCHANGED <<prepared, owner, begun, admitted, locked>>
      BY <1>8, <1>s DEF BuildNative
    <2>2. PICK x : request' = [request EXCEPT ![s] =
                  [at |-> "built", id |-> request[s].id, e |-> request[s].e, m |-> request[s].m,
                   since |-> request[s].since, until |-> request[s].until,
                   held |-> request[s].held, custody |-> x]]
      BY <1>8 DEF BuildNative
    <2>3. /\ request'[s].at = "built" /\ request'[s].id = request[s].id /\ request'[s].e = request[s].e
          /\ request'[s].m = request[s].m /\ request'[s].until = request[s].until
          /\ request'[s].held = request[s].held
          /\ \A r \in Requests : r # s => request'[r] = request[r]
      BY <1>s, <2>2
    <2>4. QED
      BY <1>t, <2>1, <2>3 DEF Admitting, Enrolled
  <1>9. ASSUME NEW s \in Requests, BuildRefused(s)
        PROVE  Admitting'
    <2>1. \A r \in Requests : request'[r].at \notin {"verified", "claimed", "timed", "bounded", "built"}
      BY <1>9, <1>s DEF BuildRefused, Terminal, Refuse
    <2>2. QED
      BY <2>1 DEF Admitting
  <1>10. ASSUME NEW s \in Requests, LaunchNative(s)
        PROVE  Admitting'
    <2>1. \A r \in Requests : request'[r].at \notin {"verified", "claimed", "timed", "bounded", "built"}
      BY <1>10, <1>s, LaunchEffect
    <2>2. QED
      BY <2>1 DEF Admitting
  <1>11. ASSUME NEW s \in Requests, AccessRefused(s)
        PROVE  Admitting'
    <2>1. /\ \A r \in Requests : (r # s /\ request'[r] = request[r]) \/ request'[r].at = "idle"
          /\ UNCHANGED <<prepared, owner, admitted, begun>>
          /\ request[s].at \notin {"verified", "claimed", "timed", "bounded", "built"} /\ locked' = locked \ {s}
      BY <1>11, <1>s DEF AccessRefused, Refuse
    <2>2. \A r \in Requests : locked = {r} /\ r # s => locked' = {r}
      BY <2>1
    <2>3. QED
      BY <2>1, <2>2, <1>t, <1>s, <1>k DEF Admitting, Enrolled
  <1>12. ASSUME NEW s \in Requests, Read(s)
        PROVE  Admitting'
    <2>1. /\ \A r \in Requests : (r # s /\ request'[r] = request[r]) \/ request'[r].at = "idle"
          /\ UNCHANGED <<prepared, owner, admitted, begun>>
          /\ request[s].at \notin {"verified", "claimed", "timed", "bounded", "built"} /\ locked' = locked \ {s}
      BY <1>12, <1>s DEF Read, Refuse, Accesses
    <2>2. \A r \in Requests : locked = {r} /\ r # s => locked' = {r}
      BY <2>1
    <2>3. QED
      BY <2>1, <2>2, <1>t, <1>s, <1>k DEF Admitting, Enrolled
  <1>13. ASSUME NEW s \in Requests, Cleanup(s)
        PROVE  Admitting'
    <2>1. /\ \A r \in Requests : (r # s /\ request'[r] = request[r]) \/ request'[r].at = "idle"
          /\ UNCHANGED <<prepared, owner, begun>>
          /\ request[s].at \notin {"verified", "claimed", "timed", "bounded", "built"} /\ locked' = locked \ {s}
      BY <1>13, <1>s DEF Cleanup, Refuse, Accesses
    <2>2. \A r \in Requests : locked = {r} /\ r # s => locked' = {r}
      BY <2>1
    <2>3. QED
      BY <2>1, <2>2, <1>t, <1>s, <1>k DEF Admitting, Enrolled
  <1>14. ASSUME NEW j \in Ids, SendModel(j)
        PROVE  Admitting'
    BY <1>14, <1>t DEF SendModel, Admitting, Enrolled
  <1>15. ASSUME NEW j \in Ids, WorkEnds(j)
        PROVE  Admitting'
    <2>1. UNCHANGED <<prepared, owner, locked, request, begun>>
      BY <1>15 DEF WorkEnds
    <2>2. QED
      BY <2>1, <1>t, <1>s, <1>k DEF Admitting, Enrolled
  <1>16. CASE TimePasses
    BY <1>16, <1>t DEF TimePasses, Admitting, Enrolled
  <1>17. CASE Rotate
    <2>1. file' \in SUBSET Keys
      BY <1>17, AuthorityAssumption DEF Rotate
    <2>2. \A r \in Requests :
              /\ request'[r].at = request[r].at
              /\ request[r].at \in {"verified", "claimed", "timed", "bounded", "built"} =>
                    /\ request'[r].id = request[r].id /\ request'[r].e = request[r].e
                    /\ request'[r].m = request[r].m
              /\ request[r].at \in {"bounded", "built"} =>
                    request'[r].until = request[r].until /\ request'[r].held = request[r].held
      <3>1. ASSUME NEW r \in Requests
            PROVE  /\ request'[r].at = request[r].at
                   /\ request[r].at \in {"verified", "claimed", "timed", "bounded", "built"} =>
                         /\ request'[r].id = request[r].id /\ request'[r].e = request[r].e
                         /\ request'[r].m = request[r].m
                   /\ request[r].at \in {"bounded", "built"} =>
                    request'[r].until = request[r].until /\ request'[r].held = request[r].held
        <4>1. CASE request[r].at = "idle"
          BY <1>17, <1>s, <4>1 DEF Rotate
        <4>2. CASE request[r].at # "idle"
          <5>1. request'[r] = [request[r] EXCEPT !.since = @ \cup file']
            BY <1>17, <4>2 DEF Rotate
          <5>2. QED
            BY <1>s, <2>1, <4>2, <5>1, SinceShape
        <4>3. QED
          BY <4>1, <4>2
      <3>2. QED
        BY <3>1
    <2>3. UNCHANGED <<prepared, owner, admitted, locked, begun>>
      BY <1>17 DEF Rotate
    <2>4. QED
      BY <2>2, <2>3, <1>t DEF Admitting, Enrolled
  <1>18. CASE Restart
    BY <1>18, <1>s DEF Restart, Admitting
  <1>19. CASE UNCHANGED authVars
    BY <1>19, <1>t DEF authVars, Admitting, Enrolled
  <1>20. QED
    BY AuthCases, <1>1, <1>2, <1>3, <1>4, <1>5, <1>6, <1>7, <1>a, <1>8, <1>9, <1>10,
       <1>11, <1>12, <1>13, <1>14, <1>15, <1>16, <1>17, <1>18, <1>19

(* The seconds left to a start. *)
LEMMA TimedStep ==
    ASSUME AuthInv, [AuthNext]_authVars
    PROVE  Timed'
  <1>t. AuthTypeOK /\ Admitting /\ Timed /\ request \in [Requests -> RequestType]
    BY DEF AuthInv, AuthTypeOK
  <1>m. Moment \in Nat /\ Moment' \in Nat /\ Moment <= Moment'
    BY <1>t, MomentNat, MomentGrows
  <1>1. ASSUME NEW r \in Requests, request[r].at = "timed", request'[r].id = request[r].id,
               request'[r].read = request[r].read, request'[r].left = request[r].left
        PROVE  /\ request'[r].read <= Moment'
               /\ Second * request'[r].left <= Second * prepared'[request'[r].id].decision.deadline
                                               - request'[r].read + (Second - 1)
    <2>1. request[r].id \in Ids /\ Enrolled(request[r].id) /\ request[r].read \in Nat
      BY <1>1, <1>t, RequestShape DEF Admitting
    <2>2. prepared'[request[r].id] = prepared[request[r].id]
      BY <2>1, AuthStays
    <2>3. request[r].read <= Moment
          /\ Second * request[r].left <= Second * prepared[request[r].id].decision.deadline
                                           - request[r].read + (Second - 1)
      BY <1>1, <1>t DEF Timed
    <2>4. request[r].read <= Moment'
      BY <1>m, <2>1, <2>3
    <2>5. QED
      BY <1>1, <2>2, <2>3, <2>4
  <1>2. ASSUME NEW r \in Requests, BoundStart(r), request'[r].at = "timed"
        PROVE  /\ request'[r].read <= Moment'
               /\ Second * request'[r].left <= Second * prepared'[request'[r].id].decision.deadline
                                               - request'[r].read + (Second - 1)
    <2> DEFINE d == prepared[request[r].id].decision
    <2>1. request[r].at = "claimed" /\ request[r] \in RequestType /\ prepared' = prepared
      BY <1>2, <1>t DEF BoundStart
    <2>2. d.deadline \in Int /\ clock \in Nat /\ half \in 0..1
      BY <1>t, <2>1, EnrolledShape, RequestShape, MomentNat DEF Admitting
    <2>3. request'[r].id = request[r].id /\ request'[r].left = d.deadline - clock /\ request'[r].read = Moment
      BY <1>2, <1>t DEF BoundStart, Terminal, Refuse, Waiting
    <2> HIDE DEF d
    <2>4. Second * (d.deadline - clock) <= Second * d.deadline - Moment + (Second - 1)
      BY <2>2 DEF Moment, Second
    <2>5. QED
      BY <1>m, <2>1, <2>3, <2>4 DEF d
  <1>3. ASSUME NEW r \in Requests, request'[r].at = "timed"
        PROVE  \/ /\ request[r].at = "timed" /\ request'[r].id = request[r].id
                  /\ request'[r].read = request[r].read /\ request'[r].left = request[r].left
               \/ BoundStart(r)
    <2>0. Waiting.at = "idle"
      BY DEF Waiting
    <2>1. ASSUME NEW s \in Requests,
                 ReadKeys(s) \/ LoadKeys(s) \/ Prepare(s) \/ DenyStart(s) \/ VerifyStart(s)
          PROVE  request'[r] = request[r]
      BY <1>t, <1>3, <2>0, <2>1 DEF ReadKeys, LoadKeys, Prepare, DenyStart, VerifyStart, Refuse
    <2>2. ASSUME NEW s \in Requests, ClaimStart(s)
          PROVE  request'[r] = request[r]
      <3>1. request[s].at = "verified" /\ request[s] \in RequestType
        BY <1>t, <2>2 DEF ClaimStart
      <3>2. [request[s] EXCEPT !.at = "claimed"].at = "claimed"
        BY <3>1, ClaimedShape
      <3>3. request' = [request EXCEPT ![s] = [request[s] EXCEPT !.at = "claimed"]]
            \/ request' = [request EXCEPT ![s] = Waiting]
        BY <2>2 DEF ClaimStart, Refuse
      <3>4. QED
        BY <1>t, <1>3, <2>0, <3>2, <3>3
    <2>3. ASSUME NEW s \in Requests, BoundStart(s)
          PROVE  request'[r] = request[r] \/ BoundStart(r)
      BY <1>t, <2>3 DEF BoundStart, Terminal, Refuse
    <2>4. ASSUME NEW s \in Requests, AnchorStart(s) \/ BuildNative(s) \/ BuildRefused(s)
          PROVE  request'[r] = request[r]
      BY <1>t, <1>3, <2>0, <2>4 DEF AnchorStart, BuildNative, BuildRefused, Terminal, Refuse
    <2>5. ASSUME NEW s \in Requests, LaunchNative(s)
          PROVE  request'[r] = request[r]
      BY <1>3, <2>0, <2>5, LaunchEffect
    <2>6. ASSUME NEW s \in Requests, AccessRefused(s) \/ Read(s) \/ Cleanup(s)
          PROVE  request'[r] = request[r]
      BY <1>t, <1>3, <2>0, <2>6 DEF AccessRefused, Read, Cleanup, Refuse
    <2>7. ASSUME NEW j \in Ids, SendModel(j) \/ WorkEnds(j)
          PROVE  request'[r] = request[r]
      BY <2>7 DEF SendModel, WorkEnds
    <2>8. TimePasses \/ UNCHANGED authVars => request'[r] = request[r]
      BY DEF TimePasses, authVars
    <2>9. CASE Rotate
      <3>1. file' \in SUBSET Keys
        BY <2>9, AuthorityAssumption DEF Rotate
      <3>2. request[r].at # "idle" /\ request'[r] = [request[r] EXCEPT !.since = @ \cup file']
        BY <1>3, <2>0, <2>9 DEF Rotate
      <3>3. QED
        BY <1>t, <1>3, <3>1, <3>2, SinceShape
    <2>10. ~Restart
      BY <1>3, <2>0 DEF Restart
    <2>11. QED
      BY AuthCases, <1>3, <2>1, <2>2, <2>3, <2>4, <2>5, <2>6, <2>7, <2>8, <2>9, <2>10
  <1>4. QED
    BY <1>1, <1>2, <1>3 DEF Timed

(* The acknowledged decisions. *)
LEMMA AcknowledgedStep ==
    ASSUME AuthInv, [AuthNext]_authVars
    PROVE  Acknowledged'
  <1>t. AuthTypeOK
    BY DEF AuthInv
  <1>a. Acknowledged
    BY DEF AuthInv
  <1>k. \A i \in Ids :
            /\ Enrolled(i) => prepared'[i] = prepared[i] /\ prepared'[i].at = "whole"
            /\ admitted[i] # "absent" => admitted'[i] # "absent"
    BY AuthStays
  <1>1. ASSUME NEW s \in Requests, ReadKeys(s)
        PROVE  Acknowledged'
    BY <1>1, <1>a DEF ReadKeys, Acknowledged, Enrolled
  <1>2. ASSUME NEW s \in Requests, LoadKeys(s)
        PROVE  Acknowledged'
    BY <1>2, <1>a DEF LoadKeys, Acknowledged, Enrolled
  <1>3. ASSUME NEW s \in Requests, Prepare(s)
        PROVE  Acknowledged'
    <2>1. \A i \in Ids : \A x \in enrolled'[i] :
              x \in enrolled[i] \/ (prepared'[i].at = "whole" /\ prepared'[i].decision = x)
      BY <1>3, <1>t, EnrollEffect DEF Prepare
    <2>2. QED
      BY <2>1, <1>a, <1>k DEF Acknowledged, Enrolled
  <1>4. ASSUME NEW s \in Requests, DenyStart(s)
        PROVE  Acknowledged'
    BY <1>4, <1>a DEF DenyStart, Acknowledged, Enrolled
  <1>5. ASSUME NEW s \in Requests, VerifyStart(s)
        PROVE  Acknowledged'
    BY <1>5, <1>a DEF VerifyStart, Acknowledged, Enrolled
  <1>6. ASSUME NEW s \in Requests, ClaimStart(s)
        PROVE  Acknowledged'
    BY <1>6, <1>a DEF ClaimStart, Acknowledged, Enrolled
  <1>7. ASSUME NEW s \in Requests, BoundStart(s)
        PROVE  Acknowledged'
    BY <1>7, <1>a DEF BoundStart, Acknowledged, Enrolled
  <1>b. ASSUME NEW s \in Requests, AnchorStart(s)
        PROVE  Acknowledged'
    BY <1>b, <1>a DEF AnchorStart, Acknowledged, Enrolled
  <1>8. ASSUME NEW s \in Requests, BuildNative(s)
        PROVE  Acknowledged'
    BY <1>8, <1>a DEF BuildNative, Acknowledged, Enrolled
  <1>9. ASSUME NEW s \in Requests, BuildRefused(s)
        PROVE  Acknowledged'
    BY <1>9, <1>a DEF BuildRefused, Acknowledged, Enrolled
  <1>10. ASSUME NEW s \in Requests, LaunchNative(s)
        PROVE  Acknowledged'
    BY <1>10, <1>a DEF LaunchNative, Acknowledged, Enrolled
  <1>11. ASSUME NEW s \in Requests, AccessRefused(s)
        PROVE  Acknowledged'
    BY <1>11, <1>a DEF AccessRefused, Acknowledged, Enrolled
  <1>12. ASSUME NEW s \in Requests, Read(s)
        PROVE  Acknowledged'
    BY <1>12, <1>a DEF Read, Acknowledged, Enrolled
  <1>13. ASSUME NEW s \in Requests, Cleanup(s)
        PROVE  Acknowledged'
    BY <1>13, <1>a DEF Cleanup, Acknowledged, Enrolled
  <1>14. ASSUME NEW j \in Ids, SendModel(j)
        PROVE  Acknowledged'
    BY <1>14, <1>a DEF SendModel, Acknowledged, Enrolled
  <1>15. ASSUME NEW j \in Ids, WorkEnds(j)
        PROVE  Acknowledged'
    BY <1>15, <1>a DEF WorkEnds, Acknowledged, Enrolled
  <1>16. CASE TimePasses
    BY <1>16, <1>a DEF TimePasses, Acknowledged, Enrolled
  <1>17. CASE Rotate
    BY <1>17, <1>a DEF Rotate, Acknowledged, Enrolled
  <1>18. CASE Restart
    BY <1>18, <1>a DEF Restart, Acknowledged, Enrolled
  <1>19. CASE UNCHANGED authVars
    BY <1>19, <1>a DEF authVars, Acknowledged, Enrolled
  <1>20. QED
    BY AuthCases, <1>1, <1>2, <1>3, <1>4, <1>5, <1>6, <1>7, <1>b, <1>8, <1>9, <1>10,
       <1>11, <1>12, <1>13, <1>14, <1>15, <1>16, <1>17, <1>18, <1>19

(* The launches. *)
LEMMA LaunchedStep ==
    ASSUME AuthInv, [AuthNext]_authVars
    PROVE  Launched'
  <1>t. AuthTypeOK /\ Admitting
    BY DEF AuthInv
  <1>s. /\ request \in [Requests -> RequestType] /\ Waiting.at = "idle"
        /\ \A x \in Requests :
              request[x].at \in {"verified", "claimed", "timed", "bounded", "built"} =>
                  request[x].id \in Ids /\ locked = {x}
    BY <1>t, RequestShape DEF AuthTypeOK, RequestType, Admitting, Waiting
  <1>k. \A i \in Ids :
            /\ Enrolled(i) => prepared'[i] = prepared[i] /\ prepared'[i].at = "whole"
            /\ admitted[i] # "absent" => admitted'[i] # "absent"
    BY AuthStays
  <1>l. Launched
    BY DEF AuthInv
  <1>y. \A l \in begun : l.id \in Ids
    BY <1>t DEF AuthTypeOK
  <1>1. ASSUME NEW s \in Requests, ReadKeys(s)
        PROVE  Launched'
    <2>1. UNCHANGED begun
      BY <1>1 DEF ReadKeys
    <2>2. QED
      BY <2>1, <1>l, <1>y, <1>k DEF Launched, Enrolled
  <1>2. ASSUME NEW s \in Requests, LoadKeys(s)
        PROVE  Launched'
    <2>1. UNCHANGED begun
      BY <1>2 DEF LoadKeys
    <2>2. QED
      BY <2>1, <1>l, <1>y, <1>k DEF Launched, Enrolled
  <1>3. ASSUME NEW s \in Requests, Prepare(s)
        PROVE  Launched'
    <2>1. UNCHANGED begun
      BY <1>3 DEF Prepare
    <2>2. QED
      BY <2>1, <1>l, <1>y, <1>k DEF Launched, Enrolled
  <1>4. ASSUME NEW s \in Requests, DenyStart(s)
        PROVE  Launched'
    <2>1. UNCHANGED begun
      BY <1>4 DEF DenyStart
    <2>2. QED
      BY <2>1, <1>l, <1>y, <1>k DEF Launched, Enrolled
  <1>5. ASSUME NEW s \in Requests, VerifyStart(s)
        PROVE  Launched'
    <2>1. UNCHANGED begun
      BY <1>5 DEF VerifyStart
    <2>2. QED
      BY <2>1, <1>l, <1>y, <1>k DEF Launched, Enrolled
  <1>6. ASSUME NEW s \in Requests, ClaimStart(s)
        PROVE  Launched'
    <2>1. UNCHANGED begun
      BY <1>6 DEF ClaimStart
    <2>2. QED
      BY <2>1, <1>l, <1>y, <1>k DEF Launched, Enrolled
  <1>7. ASSUME NEW s \in Requests, BoundStart(s)
        PROVE  Launched'
    <2>1. UNCHANGED begun
      BY <1>7 DEF BoundStart
    <2>2. QED
      BY <2>1, <1>l, <1>y, <1>k DEF Launched, Enrolled
  <1>a. ASSUME NEW s \in Requests, AnchorStart(s)
        PROVE  Launched'
    <2>1. UNCHANGED begun
      BY <1>a DEF AnchorStart
    <2>2. QED
      BY <2>1, <1>l, <1>y, <1>k DEF Launched, Enrolled
  <1>8. ASSUME NEW s \in Requests, BuildNative(s)
        PROVE  Launched'
    <2>1. UNCHANGED begun
      BY <1>8 DEF BuildNative
    <2>2. QED
      BY <2>1, <1>l, <1>y, <1>k DEF Launched, Enrolled
  <1>9. ASSUME NEW s \in Requests, BuildRefused(s)
        PROVE  Launched'
    <2>1. UNCHANGED begun
      BY <1>9 DEF BuildRefused
    <2>2. QED
      BY <2>1, <1>l, <1>y, <1>k DEF Launched, Enrolled
  <1>10. ASSUME NEW s \in Requests, LaunchNative(s)
        PROVE  Launched'
    <2>1. UNCHANGED prepared /\ request[s].at = "built" /\ request[s].id \in Ids
      BY <1>10, <1>s DEF LaunchNative
    <2>2. CASE begun' = begun
      BY <2>1, <2>2, <1>l, <1>y, <1>k DEF Launched, Enrolled
    <2>3. CASE begun' # begun
      <3>1. PICK l : /\ begun' = begun \cup {l} /\ l.id = request[s].id
                     /\ l.decision = prepared[request[s].id].decision
                     /\ l.e = request[s].e /\ l.m = request[s].m
        BY <1>10, <2>3, LaunchEffect
      <3>2. /\ Enrolled(l.id) /\ l.e.decision = l.decision /\ (l.m # NoPermit => l.m.decision = l.decision)
            /\ admitted[l.id] # "absent" /\ \A x \in begun : x.id # l.id
        BY <2>1, <3>1, <1>t DEF Admitting
      <3>3. \A x, y \in begun' : x.id = y.id => x = y
        BY <3>1, <3>2, <1>l DEF Launched
      <3>4. \A x \in begun' : /\ admitted'[x.id] # "absent"
                              /\ Enrolled(x.id)' /\ prepared'[x.id].decision = x.decision
                              /\ x.e.decision = x.decision /\ (x.m # NoPermit => x.m.decision = x.decision)
        BY <2>1, <3>1, <3>2, <1>l, <1>y, <1>k DEF Launched, Enrolled
      <3>5. QED
        BY <3>3, <3>4 DEF Launched
    <2>4. QED
      BY <2>2, <2>3
  <1>11. ASSUME NEW s \in Requests, AccessRefused(s)
        PROVE  Launched'
    <2>1. UNCHANGED begun
      BY <1>11 DEF AccessRefused
    <2>2. QED
      BY <2>1, <1>l, <1>y, <1>k DEF Launched, Enrolled
  <1>12. ASSUME NEW s \in Requests, Read(s)
        PROVE  Launched'
    <2>1. UNCHANGED begun
      BY <1>12 DEF Read
    <2>2. QED
      BY <2>1, <1>l, <1>y, <1>k DEF Launched, Enrolled
  <1>13. ASSUME NEW s \in Requests, Cleanup(s)
        PROVE  Launched'
    <2>1. UNCHANGED begun
      BY <1>13 DEF Cleanup
    <2>2. QED
      BY <2>1, <1>l, <1>y, <1>k DEF Launched, Enrolled
  <1>14. ASSUME NEW j \in Ids, SendModel(j)
        PROVE  Launched'
    <2>1. UNCHANGED begun
      BY <1>14 DEF SendModel
    <2>2. QED
      BY <2>1, <1>l, <1>y, <1>k DEF Launched, Enrolled
  <1>15. ASSUME NEW j \in Ids, WorkEnds(j)
        PROVE  Launched'
    <2>1. UNCHANGED begun
      BY <1>15 DEF WorkEnds
    <2>2. QED
      BY <2>1, <1>l, <1>y, <1>k DEF Launched, Enrolled
  <1>16. CASE TimePasses
    <2>1. UNCHANGED begun
      BY <1>16 DEF TimePasses
    <2>2. QED
      BY <2>1, <1>l, <1>y, <1>k DEF Launched, Enrolled
  <1>17. CASE Rotate
    <2>1. UNCHANGED begun
      BY <1>17 DEF Rotate
    <2>2. QED
      BY <2>1, <1>l, <1>y, <1>k DEF Launched, Enrolled
  <1>18. CASE Restart
    <2>1. UNCHANGED begun
      BY <1>18 DEF Restart
    <2>2. QED
      BY <2>1, <1>l, <1>y, <1>k DEF Launched, Enrolled
  <1>19. CASE UNCHANGED authVars
    <2>1. UNCHANGED begun
      BY <1>19 DEF authVars
    <2>2. QED
      BY <2>1, <1>l, <1>y, <1>k DEF Launched, Enrolled
  <1>20. QED
    BY AuthCases, <1>1, <1>2, <1>3, <1>4, <1>5, <1>6, <1>7, <1>a, <1>8, <1>9, <1>10,
       <1>11, <1>12, <1>13, <1>14, <1>15, <1>16, <1>17, <1>18, <1>19

(* The work and its model requests. *)
LEMMA BoundedStep ==
    ASSUME AuthInv, [AuthNext]_authVars
    PROVE  Bounded'
  <1>t. AuthTypeOK /\ Admitting
    BY DEF AuthInv
  <1>s. /\ request \in [Requests -> RequestType] /\ Waiting.at = "idle"
        /\ \A x \in Requests :
              request[x].at \in {"verified", "claimed", "timed", "bounded", "built"} =>
                  request[x].id \in Ids /\ locked = {x}
    BY <1>t, RequestShape DEF AuthTypeOK, RequestType, Admitting, Waiting
  <1>b. Bounded
    BY DEF AuthInv
  <1>1. ASSUME NEW s \in Requests, ReadKeys(s)
        PROVE  Bounded'
    BY <1>1, <1>b DEF ReadKeys, Bounded, Running
  <1>2. ASSUME NEW s \in Requests, LoadKeys(s)
        PROVE  Bounded'
    BY <1>2, <1>b DEF LoadKeys, Bounded, Running
  <1>3. ASSUME NEW s \in Requests, Prepare(s)
        PROVE  Bounded'
    BY <1>3, <1>b DEF Prepare, Bounded, Running
  <1>4. ASSUME NEW s \in Requests, DenyStart(s)
        PROVE  Bounded'
    BY <1>4, <1>b DEF DenyStart, Bounded, Running
  <1>5. ASSUME NEW s \in Requests, VerifyStart(s)
        PROVE  Bounded'
    BY <1>5, <1>b DEF VerifyStart, Bounded, Running
  <1>6. ASSUME NEW s \in Requests, ClaimStart(s)
        PROVE  Bounded'
    BY <1>6, <1>b DEF ClaimStart, Bounded, Running
  <1>7. ASSUME NEW s \in Requests, BoundStart(s)
        PROVE  Bounded'
    BY <1>7, <1>b DEF BoundStart, Bounded, Running
  <1>a. ASSUME NEW s \in Requests, AnchorStart(s)
        PROVE  Bounded'
    BY <1>a, <1>b DEF AnchorStart, Bounded, Running
  <1>8. ASSUME NEW s \in Requests, BuildNative(s)
        PROVE  Bounded'
    BY <1>8, <1>b DEF BuildNative, Bounded, Running
  <1>9. ASSUME NEW s \in Requests, BuildRefused(s)
        PROVE  Bounded'
    BY <1>9, <1>b DEF BuildRefused, Bounded, Running
  <1>10. ASSUME NEW s \in Requests, LaunchNative(s)
        PROVE  Bounded'
    <2>1. UNCHANGED <<owner, sent>> /\ request[s].at = "built" /\ request[s].id \in Ids
      BY <1>10, <1>s DEF LaunchNative
    <2>2. CASE begun' = begun /\ work' = work
      BY <2>1, <2>2, <1>b DEF Bounded, Running
    <2>3. CASE ~(begun' = begun /\ work' = work)
      <3>1. PICK l : /\ begun' = begun \cup {l} /\ l.id = request[s].id
                     /\ l.decision = prepared[request[s].id].decision /\ l.owner = owner
                     /\ l.held = request[s].held
                     /\ work'[request[s].id].until = request[s].until
        BY <1>10, <2>3, LaunchEffect
      <3>2. \A j \in Ids : j # request[s].id => work'[j] = work[j]
        BY <1>10, LaunchEffect
      <3>3. request[s].until <= Late(l.decision, l.held)
        BY <2>1, <3>1, <1>t DEF Admitting
      <3>4. QED
        BY <1>b, <2>1, <3>1, <3>2, <3>3 DEF Bounded, Running
    <2>4. QED
      BY <2>2, <2>3
  <1>11. ASSUME NEW s \in Requests, AccessRefused(s)
        PROVE  Bounded'
    BY <1>11, <1>b DEF AccessRefused, Bounded, Running
  <1>12. ASSUME NEW s \in Requests, Read(s)
        PROVE  Bounded'
    BY <1>12, <1>b DEF Read, Bounded, Running
  <1>13. ASSUME NEW s \in Requests, Cleanup(s)
        PROVE  Bounded'
    <2>1. UNCHANGED <<owner, begun, sent>>
      BY <1>13 DEF Cleanup
    <2>2. PICK i \in Ids :
              work' = IF Running(i) THEN [work EXCEPT ![i] = [work[i] EXCEPT !.cancelled = TRUE]] ELSE work
      BY <1>13 DEF Cleanup
    <2>3. \A x \in Ids : (Running(x)' => Running(x)) /\ (Running(x) => work'[x].until = work[x].until)
      <3>1. work \in [Ids -> WorkType]
        BY <1>t DEF AuthTypeOK
      <3>2. Running(i) => [work[i] EXCEPT !.cancelled = TRUE].until = work[i].until
        BY <3>1, WorkShape DEF Running
      <3>3. QED
        BY <2>2, <3>1, <3>2 DEF Running
    <2>4. QED
      BY <2>1, <2>3, <1>b DEF Bounded
  <1>14. ASSUME NEW j \in Ids, SendModel(j)
        PROVE  Bounded'
    <2>1. /\ UNCHANGED <<begun, owner>> /\ Running(j)
          /\ \/ work' = [work EXCEPT ![j] = [work[j] EXCEPT !.bearer = NoPermit]] /\ sent' = sent
             \/ /\ Moment < work[j].until
                /\ sent' = [sent EXCEPT ![j] = [time |-> Moment, owner |-> owner]] /\ work' = work
      <3>0. work[j] \in WorkType /\ work[j].at = "running"
        BY <1>14, <1>t DEF AuthTypeOK, SendModel, Running
      <3>1. Moment \in Int /\ work[j].until \in Int
        BY <3>0, <1>t, WorkEndsAt, MomentNat
      <3>2. QED
        BY <1>14, <3>1 DEF SendModel, Expired
    <2>2. \A i \in Ids : (Running(i)' => Running(i)) /\ (Running(i) => work'[i].until = work[i].until)
      <3>1. /\ work[j] \in WorkType /\ work[j].at = "running" /\ work \in [Ids -> WorkType]
        BY <2>1, <1>t DEF AuthTypeOK, Running
      <3>2. [work[j] EXCEPT !.bearer = NoPermit].until = work[j].until
        BY <3>1, WorkShape
      <3>3. QED
        BY <2>1, <3>1, <3>2 DEF Running
    <2>3. PICK l \in begun : l.id = j /\ l.owner = owner /\ work[j].until <= Late(l.decision, l.held)
      BY <2>1, <1>b DEF Bounded
    <2>4. Moment \in Int /\ work[j].until \in Int /\ Late(l.decision, l.held) \in Int
      <3>1. work[j] \in WorkType /\ work[j].at = "running" /\ l.decision \in Decisions
            /\ l.held \in Nat
        BY <2>1, <2>3, <1>t DEF AuthTypeOK, Running
      <3>2. QED
        BY <3>1, <1>t, WorkEndsAt, MomentNat, AuthorityAssumption DEF Late, Second
    <2>5. \A i \in Ids : sent'[i] = sent[i] \/ (i = j /\ sent'[i].time = Moment /\ sent'[i].owner = owner
                                                /\ Moment < Late(l.decision, l.held))
      BY <2>1, <2>3, <2>4, <1>t DEF AuthTypeOK
    <2>6. QED
      BY <2>1, <2>2, <2>3, <2>5, <1>b DEF Bounded
  <1>15. ASSUME NEW j \in Ids, WorkEnds(j)
        PROVE  Bounded'
    <2>1. UNCHANGED <<owner, begun, sent>> /\ \A x \in Ids : Running(x)' => Running(x) /\ work'[x] = work[x]
      BY <1>15, <1>t DEF WorkEnds, Running, NoWork, AuthTypeOK
    <2>2. QED
      BY <2>1, <1>b DEF Bounded
  <1>16. CASE TimePasses
    BY <1>16, <1>b DEF TimePasses, Bounded, Running
  <1>17. CASE Rotate
    BY <1>17, <1>b DEF Rotate, Bounded, Running
  <1>18. CASE Restart
    <2>1. UNCHANGED <<begun, sent>> /\ \A x \in Ids : ~Running(x)'
      BY <1>18 DEF Restart, Running, NoWork
    <2>2. QED
      BY <2>1, <1>b DEF Bounded
  <1>19. CASE UNCHANGED authVars
    BY <1>19, <1>b DEF authVars, Bounded, Running
  <1>20. QED
    BY AuthCases, <1>1, <1>2, <1>3, <1>4, <1>5, <1>6, <1>7, <1>a, <1>8, <1>9, <1>10,
       <1>11, <1>12, <1>13, <1>14, <1>15, <1>16, <1>17, <1>18, <1>19

(* The authority that is derived. *)
LEMMA DerivedStep ==
    ASSUME AuthInv, [AuthNext]_authVars
    PROVE  Derived'
  <1>t. AuthTypeOK /\ Derived
    BY DEF AuthInv
  <1>1. CASE UNCHANGED <<prepared, begun>>
    BY <1>t, <1>1 DEF Derived, Enrolled
  <1>2. ASSUME NEW s \in Requests, Prepare(s)
        PROVE  Derived'
    <2>1. PICK d \in Decisions : Derivable(d) /\ Enroll(d.id, d)
      BY <1>2 DEF Prepare, Preparable
    <2>2. \A i \in Ids : prepared'[i].at = "whole" => prepared'[i] = prepared[i] \/ prepared'[i].decision = d
      BY <1>t, <2>1, EnrollEffect
    <2>3. begun' = begun
      BY <1>2 DEF Prepare
    <2>4. QED
      BY <1>t, <2>1, <2>2, <2>3 DEF Derived, Enrolled
  <1>3. ASSUME NEW s \in Requests, LaunchNative(s)
        PROVE  Derived'
    <2>1. \/ begun' = begun
          \/ \E l : /\ begun' = begun \cup {l}
                    /\ l.grant = Granted(l.decision) /\ l.store = Artifacts(l.decision)
      BY <1>3, LaunchEffect
    <2>2. prepared' = prepared
      BY <1>3 DEF LaunchNative
    <2>3. QED
      BY <1>t, <2>1, <2>2 DEF Derived, Enrolled
  <1>4. ASSUME NEW s \in Requests,
               \/ ReadKeys(s) \/ LoadKeys(s) \/ DenyStart(s) \/ VerifyStart(s) \/ ClaimStart(s)
               \/ BoundStart(s) \/ AnchorStart(s) \/ BuildNative(s) \/ BuildRefused(s)
        PROVE  Derived'
    BY <1>1, <1>4
       DEF ReadKeys, LoadKeys, DenyStart, VerifyStart, ClaimStart, BoundStart, AnchorStart, BuildNative,
           BuildRefused
  <1>5. ASSUME NEW s \in Requests, AccessRefused(s) \/ Read(s) \/ Cleanup(s)
        PROVE  Derived'
    BY <1>1, <1>5 DEF AccessRefused, Read, Cleanup
  <1>6. ASSUME NEW j \in Ids, SendModel(j) \/ WorkEnds(j)
        PROVE  Derived'
    BY <1>1, <1>6 DEF SendModel, WorkEnds
  <1>7. CASE TimePasses \/ Rotate \/ Restart \/ UNCHANGED authVars
    BY <1>1, <1>7 DEF TimePasses, Rotate, Restart, authVars
  <1>8. QED
    BY AuthCases, <1>2, <1>3, <1>4, <1>5, <1>6, <1>7

(* The receiver starts in the invariant. *)
LEMMA AuthStarts ==
    ASSUME AuthInit
    PROVE  AuthInv
  <1>1. AuthTypeOK
    BY AuthorityAssumption DEF AuthInit, AuthTypeOK, RequestType, PreparedType, WorkType, Never, Second
  <1>2. Admitting /\ Timed /\ Acknowledged /\ Launched /\ Bounded /\ Derived
    BY DEF AuthInit, Admitting, Timed, Acknowledged, Launched, Bounded, Derived, Enrolled, Running, Waiting,
           NoWork, NoRecord, Never
  <1>3. QED
    BY <1>1, <1>2 DEF AuthInv

(* The inductive invariant of the receiver's authority holds throughout.    *)
LEMMA AuthInvariant == AuthSpec => []AuthInv
  <1>1. AuthInit => AuthInv
    BY AuthStarts
  <1>2. AuthInv /\ [AuthNext]_authVars => AuthInv'
    BY AuthTypeStep, AdmittingStep, TimedStep, AcknowledgedStep, LaunchedStep, BoundedStep, DerivedStep DEF AuthInv
  <1>3. QED
    BY <1>1, <1>2, PTL DEF AuthSpec

(* The receiver's records, requests, work and history have their types      *)
(* (dispatch_scoped.rs).                                                    *)
THEOREM AuthorityTyped == AuthSpec => []AuthTypeOK
  <1>1. AuthInv => AuthTypeOK
    BY DEF AuthInv
  <1>2. QED
    BY <1>1, AuthInvariant, PTL

(* An operation is launched at most once, under the one decision prepare    *)
(* acknowledged, with permits signed for exactly it; and no model request   *)
(* is made by another receiver, or past the signed deadline by as much as a *)
(* second and the time between the two clocks that operation_control reads  *)
(* come to (start, enroll_prepared, with_bearer).  However many tools it    *)
(* has, together they get no more than each was signed and declared for     *)
(* (https::derive, artifacts::derive).                                      *)
THEOREM AuthorityWorkAuthorised == AuthSpec => []WorkAuthorised
  <1>1. ASSUME AuthInv
        PROVE  WorkAuthorised
    <2>1. ASSUME NEW l \in begun
          PROVE  /\ \A k \in begun : k.id = l.id => k = l
                 /\ enrolled[l.id] \subseteq {l.decision} /\ Enrolled(l.id)
                 /\ prepared[l.id].decision = l.decision
                 /\ l.e.decision = l.decision /\ (l.m # NoPermit => l.m.decision = l.decision)
                 /\ sent[l.id].time # Never =>
                       /\ sent[l.id].time < Second * l.decision.deadline + (Second - 1) + l.held
                       /\ sent[l.id].owner = l.owner
      <3>1. l.id \in Ids
        BY <1>1 DEF AuthInv, AuthTypeOK
      <3>2. /\ \A k \in begun : k.id = l.id => k = l
            /\ Enrolled(l.id) /\ prepared[l.id].decision = l.decision
            /\ l.e.decision = l.decision /\ (l.m # NoPermit => l.m.decision = l.decision)
        BY <1>1 DEF AuthInv, Launched
      <3>3. enrolled[l.id] \subseteq {l.decision}
        BY <1>1, <3>1, <3>2 DEF AuthInv, Acknowledged
      <3>4. sent[l.id].time # Never =>
                /\ sent[l.id].time < Second * l.decision.deadline + (Second - 1) + l.held
                /\ sent[l.id].owner = l.owner
        BY <1>1, <3>1, <3>2 DEF AuthInv, Bounded, Late
      <3>5. QED
        BY <3>2, <3>3, <3>4
    <2>2. ASSUME NEW l \in begun
          PROVE  /\ l.decision \in Decisions /\ Derivable(l.decision)
                 /\ l.grant = Granted(l.decision) /\ l.store = Artifacts(l.decision)
      <3>1. l.id \in Ids /\ l.decision \in Decisions
        BY <1>1 DEF AuthInv, AuthTypeOK
      <3>2. Enrolled(l.id) /\ prepared[l.id].decision = l.decision
        BY <2>1
      <3>3. QED
        BY <1>1, <3>1, <3>2 DEF AuthInv, Derived
    <2>3. ASSUME NEW l \in begun, NEW i \in DOMAIN l.decision.tools
          PROVE  LET tool == l.decision.tools[i]
                 IN  /\ Within(l.grant[tool.method].hosts, tool.signed.hosts)
                     /\ Within(l.grant[tool.method].hosts, tool.declared.hosts)
                     /\ l.grant[tool.method].requests <= Less(tool.signed.requests, tool.declared.requests)
      <3>1. l.decision.tools[i].method \in Methods
        BY <2>2 DEF Derivable, Attenuated
      <3>2. l.grant[l.decision.tools[i].method] = SlotOf(l.decision, l.decision.tools[i].method)
        BY <2>2, <3>1 DEF Granted
      <3>3. QED
        BY <2>2, <3>1, <3>2, SlotWithin
    <2>4. ASSUME NEW l \in begun, NEW method \in Methods
          PROVE  \/ l.grant[method] = NoSlot
                 \/ \E i \in DOMAIN l.decision.tools : l.decision.tools[i].method = method
      <3>1. l.grant[method] = SlotOf(l.decision, method)
        BY <2>2 DEF Granted
      <3>2. QED
        BY <2>2, <3>1, SlotWithin
    <2>5. ASSUME NEW l \in begun
          PROVE  /\ l.store.operations = Named(l.decision)
                 /\ \A i \in DOMAIN l.decision.stores :
                       l.store.cap <= Less(l.decision.stores[i].signed, l.decision.stores[i].declared)
      <3>1. CASE l.decision.stores = <<>>
        <4>1. DOMAIN l.decision.stores = {}
          BY <3>1
        <4>2. l.store = [operations |-> {}, cap |-> 0]
          BY <2>2, <3>1, Zenon DEF Artifacts
        <4>3. QED
          BY <4>1, <4>2 DEF Named
      <3>2. CASE l.decision.stores # <<>>
        <4>1. l.store = [operations |-> Named(l.decision), cap |-> Capped(l.decision)]
          BY <2>2, <3>2, Zenon DEF Artifacts
        <4>2. l.store.operations = Named(l.decision) /\ l.store.cap = Capped(l.decision)
          BY <4>1
        <4>3. QED
          BY <2>2, <4>2, CapWithin
      <3>3. QED
        BY <3>1, <3>2
    <2>6. QED
      BY <2>1, <2>3, <2>4, <2>5 DEF WorkAuthorised
  <1>2. QED
    BY <1>1, AuthInvariant, PTL
===============================================================================
