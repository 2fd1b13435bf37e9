------------------------- MODULE ParentRegistryProofs -------------------------
(***************************************************************************)
(* Proofs about ParentRegistry, for any set of incarnations, principals    *)
(* and callers and any capacity.                                           *)
(*                                                                         *)
(* Neither property is inductive.  That a charge is returned only by a     *)
(* join needs what a caller that took an owner knows of its thread; that   *)
(* stop never lies needs what has become of every incarnation the caller   *)
(* has already put aside, and that a drain has seen everything that will   *)
(* ever be admitted.                                                       *)
(***************************************************************************)
EXTENDS ParentRegistry, TLAPS

(* Nothing is left of i: its thread is joined, its charge is returned. *)
Done(i) == pc[i] = "joined" /\ entry[i].bytes = 0

(* An incarnation has a thread from the step that enters it. *)
Entered ==
    \A i \in Parents :
        /\ pc[i] = "none" => /\ entry[i].principal = Nobody /\ ~entry[i].owner
                            /\ entry[i].status = "None" /\ entry[i].bytes = 0
        /\ entry[i].principal = Nobody => pc[i] = "none"

(* Bytes are charged for as long as the thread is not joined. *)
Charged == \A i \in Parents : pc[i] \notin {"none", "joined"} => entry[i].bytes > 0

(* A teardown recorded as confirmed was one. *)
Settled == \A i \in Parents : Confirmed(i) => Done(i)

(* What a caller has taken out of its entry has a thread to join. *)
Taken == \A c \in Callers : \A i \in call[c].taken : pc[i] # "none"

(* What a stop or a drain in progress knows: unless it met an owner it      *)
(* could not confirm, whatever it put aside is done; and a drain has listed *)
(* every entry there is and will be.                                        *)
Knows(c) ==
    call[c].op \in {"stop", "drain"} =>
        /\ call[c].outcome \in {"none", "ok", "error"}
        /\ call[c].outcome = "ok" =>
             ~call[c].failed /\ call[c].todo = {} /\ call[c].taken = {}
        /\ ~call[c].failed =>
             \A i \in call[c].asked : i \in call[c].todo \/ i \in call[c].taken \/ Done(i)
        /\ call[c].op = "drain" =>
             draining /\ \A i \in Parents : entry[i].principal # Nobody => i \in call[c].asked

Informed == \A c \in Callers : Knows(c)

RegistryInv == TypeOK /\ Entered /\ Charged /\ Settled /\ Taken /\ Informed

(* What a step of an owner's thread can do to the registry and its callers: *)
(* it moves one thread that is not joined, and it resolves commands.        *)
LEMMA ThreadFrame ==
    ASSUME TypeOK, NEW i \in Parents, ThreadStep(i)
    PROVE  /\ UNCHANGED <<entry, total, draining, lock>>
           /\ pc' \in [Parents -> {"none"} \cup Live \cup Over]
           /\ pc[i] \notin {"none", "joined"} /\ pc'[i] \notin {"none", "joined"}
           /\ \A j \in Parents : j # i => pc'[j] = pc[j]
           /\ stopped' \in [Parents -> BOOLEAN] /\ busy' \in [Parents -> BOOLEAN]
           /\ initialized' \in [Parents -> BOOLEAN] /\ initError' \in [Parents -> BOOLEAN]
           /\ queue' \in [Parents -> Callers \cup {Nobody}]
           /\ serving' \in [Parents -> Callers \cup {Nobody}]
           /\ call' \in [Callers -> CallType]
           /\ \A c \in Callers :
                \/ call'[c] = call[c]
                \/ call'[c].op = "submit" /\ call'[c].taken = {}
  <1> USE DEF TypeOK, Move, registry, owner, Live, Over
  <1>1. \A d \in Callers \cup {Nobody}, o \in {"ok", "error"} :
          /\ Resolved(d, o) \in [Callers -> CallType]
          /\ \A c \in Callers : \/ Resolved(d, o)[c] = call[c]
                                \/ Resolved(d, o)[c].op = "submit" /\ Resolved(d, o)[c].taken = {}
    BY DEF Resolved, IdleCall, CallType
  <1>2. CASE ThreadStarts(i) \/ PollStopped(i) \/ Handle(i) \/ DropRuntime(i)
    BY <1>2 DEF ThreadStarts, PollStopped, Handle, DropRuntime
  <1>3. CASE Initialize(i) \/ InitializeFails(i) \/ HandleFails(i) \/ Exit(i)
    BY <1>3 DEF Initialize, InitializeFails, HandleFails, Exit
  <1>4. CASE Receive(i)
    BY <1>4 DEF Receive
  <1>5. CASE AnswerInitError(i) \/ Finish(i)
    <2>1. call' = Resolved(queue[i], "error") /\ queue[i] \in Callers \cup {Nobody}
      BY <1>5 DEF AnswerInitError, Finish
    <2>2. /\ call' \in [Callers -> CallType]
          /\ \A c \in Callers : \/ call'[c] = call[c]
                                \/ call'[c].op = "submit" /\ call'[c].taken = {}
      BY <2>1, <1>1
    <2>3. QED
      BY <1>5, <2>2 DEF AnswerInitError, Finish
  <1>6. CASE \/ ReleaseBusy(i, "releasing", "replying")
             \/ ReleaseBusy(i, "failing", "failingReply")
    BY <1>6 DEF ReleaseBusy
  <1>7. CASE Reply(i, "replying", "polling", "ok")
    BY <1>7, <1>1 DEF Reply
  <1>8. CASE Reply(i, "failingReply", "dropping", "error")
    BY <1>8, <1>1 DEF Reply
  <1>9. CASE Panic(i)
    <2>1. \A c \in Callers : call'[c] = call[c] \/ call'[c] = Resolved(c, "error")[c]
      BY <1>9 DEF Panic
    <2>2. call' \in [Callers -> CallType]
      BY <1>9, <1>1 DEF Panic
    <2>3. \A c \in Callers : \/ call'[c] = call[c]
                             \/ call'[c].op = "submit" /\ call'[c].taken = {}
      BY <2>1, <1>1
    <2> HIDE DEF Live, Over
    <2>4. QED
      BY <1>9, <2>2, <2>3 DEF Panic, Live, Over
  <1>10. QED
    BY <1>2, <1>3, <1>4, <1>5, <1>6, <1>7, <1>8, <1>9 DEF ThreadStep

(* The disjuncts of the next-state relation, with the owner's thread as one. *)
LEMMA RegistryCases ==
    ASSUME [Next]_vars
    PROVE  \/ \E i \in Parents : ThreadStep(i)
           \/ \E i \in Parents : DeadlinePasses(i)
           \/ \E p \in Principals, i \in Parents : Cancel(p, i)
           \/ \E p \in Principals, i \in Parents, charge \in Charges : Spawn(p, i, charge)
           \/ \E c \in Callers, p \in Principals, i \in Parents : Submit(c, p, i)
           \/ \E c \in Callers, i \in Parents : SetBusy(c, i) \/ Send(c, i)
           \/ \E c \in Callers, p \in Principals, i \in Parents : BeginStop(c, p, i)
           \/ \E c \in Callers : BeginDrain(c)
           \/ \E c \in Callers : BeginReap(c)
           \/ \E c \in Callers, i \in Parents : StopConfirmed(c, i)
           \/ \E c \in Callers, i \in Parents : StopPending(c, i)
           \/ \E c \in Callers, i \in Parents : StopTakes(c, i)
           \/ \E c \in Callers, i \in Parents : Join(c, i)
           \/ \E c \in Callers, i \in Parents : ReleaseJoined(c, i)
           \/ \E c \in Callers, i \in Parents : KeepUncertain(c, i)
           \/ \E c \in Callers : Return(c) \/ Forget(c)
           \/ UNCHANGED vars
  BY DEF Next, CallStep, NewCall

(* The initial state. *)
LEMMA RegistryInit == Init => RegistryInv
  <1> SUFFICES ASSUME Init PROVE RegistryInv
    OBVIOUS
  <1> USE DEF Init, NoEntry, IdleCall
  <1>1. TypeOK
    <2> HIDE DEF Init, NoEntry, IdleCall
    <2>1. NoEntry \in EntryType
      BY DEF EntryType, Statuses, NoEntry
    <2>2. IdleCall \in CallType
      BY DEF CallType, IdleCall
    <2>3. total \in [bytes : Int, egress : Int]
      BY DEF Init
    <2>4. QED
      BY <2>1, <2>2, <2>3 DEF TypeOK, Init
  <1>2. Entered /\ Charged /\ Settled /\ Taken /\ Informed
    BY DEF Entered, Charged, Settled, Taken, Informed, Knows, Confirmed
  <1>3. QED
    BY <1>1, <1>2 DEF RegistryInv

(* Types are kept by every step. *)
LEMMA RegistryTypeStep ==
    ASSUME TypeOK, [Next]_vars
    PROVE  TypeOK'
  <1>a. entry \in [Parents -> EntryType] /\ call \in [Callers -> CallType]
    BY DEF TypeOK
  <1> USE DEF registry, owner
  <1>1. CASE \E i \in Parents : ThreadStep(i)
    BY <1>1, ThreadFrame DEF TypeOK
  <1>2. ASSUME NEW i \in Parents, DeadlinePasses(i)
        PROVE  TypeOK'
    BY <1>2 DEF TypeOK, DeadlinePasses
  <1>3. ASSUME NEW p \in Principals, NEW i \in Parents, Cancel(p, i)
        PROVE  TypeOK'
    BY <1>3 DEF TypeOK, Cancel
  <1>4. ASSUME NEW p \in Principals, NEW i \in Parents, NEW charge \in Charges, Spawn(p, i, charge)
        PROVE  TypeOK'
    BY <1>4, RegistryAssumption DEF TypeOK, Spawn, Live, EntryType, Statuses
  <1>5. ASSUME NEW c \in Callers, NEW p \in Principals, NEW i \in Parents, Submit(c, p, i)
        PROVE  TypeOK'
    <2>1. call' \in [Callers -> CallType]
      BY <1>a, <1>5 DEF Submit, CallType, IdleCall
    <2>2. QED
      BY <1>5, <2>1 DEF TypeOK, Submit
  <1>6. ASSUME NEW c \in Callers, NEW i \in Parents, SetBusy(c, i)
        PROVE  TypeOK'
    <2>1. call' \in [Callers -> CallType]
      BY <1>a, <1>6 DEF SetBusy, CallType, IdleCall
    <2>2. QED
      BY <1>6, <2>1 DEF TypeOK, SetBusy
  <1>7. ASSUME NEW c \in Callers, NEW i \in Parents, Send(c, i)
        PROVE  TypeOK'
    <2>1. call' \in [Callers -> CallType]
      BY <1>a, <1>7 DEF Send, CallType, IdleCall
    <2>2. QED
      BY <1>7, <2>1 DEF TypeOK, Send
  <1>8. ASSUME NEW c \in Callers, NEW p \in Principals, NEW i \in Parents, BeginStop(c, p, i)
        PROVE  TypeOK'
    <2>1. call' \in [Callers -> CallType]
      BY <1>a, <1>8 DEF BeginStop, CallType, IdleCall
    <2>2. QED
      BY <1>8, <2>1 DEF TypeOK, BeginStop
  <1>9. ASSUME NEW c \in Callers, BeginDrain(c)
        PROVE  TypeOK'
    <2>1. call' \in [Callers -> CallType]
      BY <1>a, <1>9 DEF BeginDrain, CallType, IdleCall, Claimed
    <2>2. QED
      BY <1>9, <2>1 DEF TypeOK, BeginDrain
  <1>10. ASSUME NEW c \in Callers, BeginReap(c)
        PROVE  TypeOK'
    <2>1. entry' \in [Parents -> EntryType]
      BY <1>a, <1>10 DEF BeginReap, EntryType, Statuses
    <2>2. call' \in [Callers -> CallType]
      BY <1>a, <1>10 DEF BeginReap, CallType, IdleCall
    <2>3. QED
      BY <1>10, <2>1, <2>2 DEF TypeOK, BeginReap
  <1>11. ASSUME NEW c \in Callers, NEW i \in Parents, StopConfirmed(c, i)
        PROVE  TypeOK'
    <2>1. call' \in [Callers -> CallType]
      BY <1>a, <1>11 DEF StopConfirmed, CallType, IdleCall
    <2>2. QED
      BY <1>11, <2>1 DEF TypeOK, StopConfirmed
  <1>12. ASSUME NEW c \in Callers, NEW i \in Parents, StopPending(c, i)
        PROVE  TypeOK'
    <2>1. call' \in [Callers -> CallType]
      BY <1>a, <1>12 DEF StopPending, CallType, IdleCall
    <2>2. QED
      BY <1>12, <2>1 DEF TypeOK, StopPending
  <1>13. ASSUME NEW c \in Callers, NEW i \in Parents, StopTakes(c, i)
        PROVE  TypeOK'
    <2>1. entry' \in [Parents -> EntryType]
      BY <1>a, <1>13 DEF StopTakes, EntryType, Statuses
    <2>2. call' \in [Callers -> CallType]
      BY <1>a, <1>13 DEF StopTakes, CallType, IdleCall
    <2>3. QED
      BY <1>13, <2>1, <2>2 DEF TypeOK, StopTakes
  <1>14. ASSUME NEW c \in Callers, NEW i \in Parents, Join(c, i)
        PROVE  TypeOK'
    BY <1>14 DEF TypeOK, Join, Move, Live, Over
  <1>15. ASSUME NEW c \in Callers, NEW i \in Parents, ReleaseJoined(c, i)
        PROVE  TypeOK'
    <2>1. entry' \in [Parents -> EntryType]
      <3>1. \A s \in Statuses :
              [entry[i] EXCEPT !.status = s, !.bytes = 0, !.egress = 0] \in EntryType
        BY <1>a DEF EntryType
      <3>2. QED
        BY <1>a, <1>15, <3>1 DEF ReleaseJoined, Statuses
    <2>2. call' \in [Callers -> CallType]
      BY <1>a, <1>15 DEF ReleaseJoined, CallType, IdleCall
    <2>3. QED
      BY <1>15, <2>1, <2>2 DEF TypeOK, ReleaseJoined, EntryType
  <1>16. ASSUME NEW c \in Callers, NEW i \in Parents, KeepUncertain(c, i)
        PROVE  TypeOK'
    <2>1. entry' \in [Parents -> EntryType]
      BY <1>a, <1>16 DEF KeepUncertain, EntryType, Statuses
    <2>2. call' \in [Callers -> CallType]
      <3>1. [call[c] EXCEPT !.taken = call[c].taken \ {i}, !.failed = TRUE] \in CallType
        BY <1>a DEF CallType
      <3>2. QED
        BY <1>a, <1>16, <3>1 DEF KeepUncertain
    <2>3. QED
      BY <1>16, <2>1, <2>2 DEF TypeOK, KeepUncertain
  <1>17. ASSUME NEW c \in Callers, Return(c)
        PROVE  TypeOK'
    <2>1. call' \in [Callers -> CallType]
      BY <1>a, <1>17 DEF Return, CallType, IdleCall
    <2>2. QED
      BY <1>17, <2>1 DEF TypeOK, Return
  <1>18. ASSUME NEW c \in Callers, Forget(c)
        PROVE  TypeOK'
    <2>1. call' \in [Callers -> CallType]
      BY <1>a, <1>18 DEF Forget, CallType, IdleCall
    <2>2. QED
      BY <1>18, <2>1 DEF TypeOK, Forget
  <1>19. CASE UNCHANGED vars
    BY <1>19 DEF TypeOK, vars
  <1>20. QED
    BY RegistryCases, <1>1, <1>2, <1>3, <1>4, <1>5, <1>6, <1>7, <1>8, <1>9, <1>10, <1>11, <1>12, <1>13, <1>14, <1>15, <1>16, <1>17, <1>18, <1>19

(* What a step does to one thread and its entry. *)
LEMMA EntryStep ==
    ASSUME RegistryInv, [Next]_vars
    PROVE  Entered' /\ Charged' /\ Settled'
  <1> USE DEF RegistryInv, TypeOK, EntryType, registry, owner, Entered, Charged, Settled, Done, Confirmed
  <1>1. CASE \E i \in Parents : ThreadStep(i)
    BY <1>1, ThreadFrame
  <1>2. ASSUME NEW i \in Parents, DeadlinePasses(i)
        PROVE  Entered' /\ Charged' /\ Settled'
    BY <1>2 DEF DeadlinePasses
  <1>3. ASSUME NEW p \in Principals, NEW i \in Parents, Cancel(p, i)
        PROVE  Entered' /\ Charged' /\ Settled'
    BY <1>3 DEF Cancel
  <1>4. ASSUME NEW p \in Principals, NEW i \in Parents, NEW charge \in Charges, Spawn(p, i, charge)
        PROVE  Entered' /\ Charged' /\ Settled'
    <2>1. Entered'
      BY <1>4, RegistryAssumption DEF Spawn, Claimed
    <2>2. Charged'
      BY <1>4, RegistryAssumption DEF Spawn, Claimed
    <2>3. Settled'
      BY <1>4, RegistryAssumption DEF Spawn, Claimed
    <2>4. QED
      BY <2>1, <2>2, <2>3
  <1>5. ASSUME NEW c \in Callers, NEW p \in Principals, NEW i \in Parents, Submit(c, p, i)
        PROVE  Entered' /\ Charged' /\ Settled'
    BY <1>5 DEF Submit
  <1>6. ASSUME NEW c \in Callers, NEW i \in Parents, SetBusy(c, i)
        PROVE  Entered' /\ Charged' /\ Settled'
    BY <1>6 DEF SetBusy
  <1>7. ASSUME NEW c \in Callers, NEW i \in Parents, Send(c, i)
        PROVE  Entered' /\ Charged' /\ Settled'
    BY <1>7 DEF Send
  <1>8. ASSUME NEW c \in Callers, NEW p \in Principals, NEW i \in Parents, BeginStop(c, p, i)
        PROVE  Entered' /\ Charged' /\ Settled'
    BY <1>8 DEF BeginStop
  <1>9. ASSUME NEW c \in Callers, BeginDrain(c)
        PROVE  Entered' /\ Charged' /\ Settled'
    BY <1>9 DEF BeginDrain
  <1>10. ASSUME NEW c \in Callers, BeginReap(c)
        PROVE  Entered' /\ Charged' /\ Settled'
    <2>1. Entered'
      BY <1>10 DEF BeginReap
    <2>2. Charged'
      BY <1>10 DEF BeginReap
    <2>3. Settled'
      BY <1>10 DEF BeginReap
    <2>4. QED
      BY <2>1, <2>2, <2>3
  <1>11. ASSUME NEW c \in Callers, NEW i \in Parents, StopConfirmed(c, i)
        PROVE  Entered' /\ Charged' /\ Settled'
    BY <1>11 DEF StopConfirmed
  <1>12. ASSUME NEW c \in Callers, NEW i \in Parents, StopPending(c, i)
        PROVE  Entered' /\ Charged' /\ Settled'
    BY <1>12 DEF StopPending
  <1>13. ASSUME NEW c \in Callers, NEW i \in Parents, StopTakes(c, i)
        PROVE  Entered' /\ Charged' /\ Settled'
    <2>1. Entered'
      BY <1>13 DEF StopTakes
    <2>2. Charged'
      BY <1>13 DEF StopTakes
    <2>3. Settled'
      BY <1>13 DEF StopTakes
    <2>4. QED
      BY <2>1, <2>2, <2>3
  <1>14. ASSUME NEW c \in Callers, NEW i \in Parents, Join(c, i)
        PROVE  Entered' /\ Charged' /\ Settled'
    BY <1>14 DEF Join, Move, Taken
  <1>15. ASSUME NEW c \in Callers, NEW i \in Parents, ReleaseJoined(c, i)
        PROVE  Entered' /\ Charged' /\ Settled'
    <2>1. Entered'
      BY <1>15 DEF ReleaseJoined, Taken
    <2>2. Charged'
      BY <1>15 DEF ReleaseJoined, Taken
    <2>3. Settled'
      BY <1>15 DEF ReleaseJoined, Taken
    <2>4. QED
      BY <2>1, <2>2, <2>3
  <1>16. ASSUME NEW c \in Callers, NEW i \in Parents, KeepUncertain(c, i)
        PROVE  Entered' /\ Charged' /\ Settled'
    <2>1. Entered'
      BY <1>16 DEF KeepUncertain, Taken
    <2>2. Charged'
      BY <1>16 DEF KeepUncertain, Taken
    <2>3. Settled'
      BY <1>16 DEF KeepUncertain, Taken
    <2>4. QED
      BY <2>1, <2>2, <2>3
  <1>17. ASSUME NEW c \in Callers, Return(c)
        PROVE  Entered' /\ Charged' /\ Settled'
    BY <1>17 DEF Return
  <1>18. ASSUME NEW c \in Callers, Forget(c)
        PROVE  Entered' /\ Charged' /\ Settled'
    BY <1>18 DEF Forget
  <1>19. CASE UNCHANGED vars
    BY <1>19 DEF vars
  <1>20. QED
    BY RegistryCases, <1>1, <1>2, <1>3, <1>4, <1>5, <1>6, <1>7, <1>8, <1>9, <1>10, <1>11, <1>12, <1>13, <1>14, <1>15, <1>16, <1>17, <1>18, <1>19

(* A joined thread stays joined and uncharged, an entry stays entered, and  *)
(* once admission is closed no entry is added.                              *)
LEMMA DoneStays ==
    ASSUME RegistryInv, [Next]_vars
    PROVE  /\ \A i \in Parents : Done(i) => Done(i)'
           /\ \A i \in Parents : pc[i] # "none" => pc'[i] # "none"
           /\ draining => draining' /\ \A i \in Parents : entry'[i].principal = entry[i].principal
  <1> USE DEF RegistryInv, TypeOK, EntryType, registry, owner
  <1> USE DEF Done
  <1>1. CASE \E i \in Parents : ThreadStep(i)
    BY <1>1, ThreadFrame
  <1>2. CASE \E i \in Parents : DeadlinePasses(i)
    BY <1>2 DEF DeadlinePasses
  <1>3. CASE \E p \in Principals, i \in Parents : Cancel(p, i)
    BY <1>3 DEF Cancel
  <1>4. CASE \E p \in Principals, i \in Parents, charge \in Charges : Spawn(p, i, charge)
    BY <1>4, RegistryAssumption DEF Spawn, Claimed, Entered
  <1>5. CASE \E c \in Callers, p \in Principals, i \in Parents : Submit(c, p, i)
    BY <1>5 DEF Submit
  <1>6. CASE \E c \in Callers, i \in Parents : SetBusy(c, i)
    BY <1>6 DEF SetBusy
  <1>7. CASE \E c \in Callers, i \in Parents : Send(c, i)
    BY <1>7 DEF Send
  <1>8. CASE \E c \in Callers, p \in Principals, i \in Parents : BeginStop(c, p, i)
    BY <1>8 DEF BeginStop
  <1>9. CASE \E c \in Callers : BeginDrain(c)
    BY <1>9 DEF BeginDrain
  <1>10. CASE \E c \in Callers : BeginReap(c)
    <2> PICK c \in Callers : BeginReap(c)
      BY <1>10
    <2>1. \A i \in Parents : /\ entry'[i].bytes = entry[i].bytes
                             /\ entry'[i].principal = entry[i].principal
      BY DEF BeginReap
    <2>2. /\ pc' = pc /\ draining' = draining
      BY DEF BeginReap
    <2> HIDE DEF BeginReap
    <2>3. QED
      BY <2>1, <2>2
  <1>11. CASE \E c \in Callers, i \in Parents : StopConfirmed(c, i)
    BY <1>11 DEF StopConfirmed
  <1>12. CASE \E c \in Callers, i \in Parents : StopPending(c, i)
    BY <1>12 DEF StopPending
  <1>13. CASE \E c \in Callers, i \in Parents : StopTakes(c, i)
    BY <1>13 DEF StopTakes
  <1>14. CASE \E c \in Callers, i \in Parents : Join(c, i)
    BY <1>14 DEF Join, Move
  <1>15. CASE \E c \in Callers, i \in Parents : ReleaseJoined(c, i)
    BY <1>15 DEF ReleaseJoined
  <1>16. CASE \E c \in Callers, i \in Parents : KeepUncertain(c, i)
    BY <1>16 DEF KeepUncertain
  <1>17. CASE \E c \in Callers : Return(c)
    BY <1>17 DEF Return
  <1>18. CASE \E c \in Callers : Forget(c)
    BY <1>18 DEF Forget
  <1>19. CASE UNCHANGED vars
    BY <1>19 DEF vars
  <1>20. QED
    BY RegistryCases, <1>1, <1>2, <1>3, <1>4, <1>5, <1>6, <1>7, <1>8, <1>9, <1>10, <1>11, <1>12, <1>13, <1>14, <1>15, <1>16, <1>17, <1>18, <1>19

(* What a caller's call may become in a step. *)
LEMMA CallStays ==
    ASSUME RegistryInv, NEW d \in Callers,
           call'[d] = call[d],
           \A i \in Parents : Done(i) => Done(i)',
           \A i \in Parents : pc[i] # "none" => pc'[i] # "none",
           draining => draining' /\ \A i \in Parents : entry'[i].principal = entry[i].principal
    PROVE  Knows(d)' /\ \A i \in call'[d].taken : pc'[i] # "none"
  BY DEF RegistryInv, TypeOK, CallType, Informed, Knows, Taken

(* What callers know stays true. *)
LEMMA InformedStep ==
    ASSUME RegistryInv, [Next]_vars
    PROVE  Taken' /\ Informed'
  <1> DEFINE Fine(d) == Knows(d)' /\ \A i \in call'[d].taken : pc'[i] # "none"
  <1> SUFFICES ASSUME NEW d \in Callers PROVE Fine(d)
    BY DEF Taken, Informed
  <1>1. CASE call'[d] = call[d]
    BY <1>1, CallStays, DoneStays
  <1>2. CASE call'[d].op \notin {"stop", "drain"} /\ call'[d].taken = {}
    BY <1>2 DEF Knows
  <1> HIDE DEF Fine
  <1> USE DEF RegistryInv, TypeOK, CallType, registry, owner
  <1>3. CASE \E i \in Parents : ThreadStep(i)
    BY <1>3, <1>1, <1>2, ThreadFrame
  <1>4. CASE \E i \in Parents : DeadlinePasses(i)
    BY <1>4, <1>1 DEF DeadlinePasses
  <1>5. CASE \E p \in Principals, i \in Parents : Cancel(p, i)
    BY <1>5, <1>1 DEF Cancel
  <1>6. CASE \E p \in Principals, i \in Parents, charge \in Charges : Spawn(p, i, charge)
    BY <1>6, <1>1, RegistryAssumption DEF Spawn
  <1>7. CASE \E c \in Callers, p \in Principals, i \in Parents : Submit(c, p, i)
    BY <1>7, <1>1, <1>2 DEF Submit, IdleCall
  <1>8. ASSUME NEW c \in Callers, NEW i \in Parents, SetBusy(c, i)
        PROVE  Fine(d)
    <2>1. CASE d # c
      BY <1>8, <2>1, <1>1 DEF SetBusy
    <2>2. CASE d = c
      BY <1>8, <2>2, DoneStays DEF SetBusy, Fine, Informed, Knows, Taken, Done
    <2>3. QED
      BY <2>1, <2>2
  <1>9. ASSUME NEW c \in Callers, NEW i \in Parents, Send(c, i)
        PROVE  Fine(d)
    <2>1. CASE d # c
      BY <1>9, <2>1, <1>1 DEF Send
    <2>2. CASE d = c
      BY <1>9, <2>2, DoneStays DEF Send, Fine, Informed, Knows, Taken, Done
    <2>3. QED
      BY <2>1, <2>2
  <1>10. ASSUME NEW c \in Callers, NEW p \in Principals, NEW i \in Parents, BeginStop(c, p, i)
        PROVE  Fine(d)
    <2>1. CASE d # c
      BY <1>10, <2>1, <1>1 DEF BeginStop
    <2>2. CASE d = c
      BY <1>10, <2>2, DoneStays DEF BeginStop, Fine, Informed, Knows, Taken, Done, IdleCall
    <2>3. QED
      BY <2>1, <2>2
  <1>11. ASSUME NEW c \in Callers, BeginDrain(c)
        PROVE  Fine(d)
    <2>1. CASE d # c
      BY <1>11, <2>1, <1>1 DEF BeginDrain
    <2>2. CASE d = c
      BY <1>11, <2>2, DoneStays DEF BeginDrain, Fine, Informed, Knows, Taken, Done, IdleCall, Claimed
    <2>3. QED
      BY <2>1, <2>2
  <1>12. ASSUME NEW c \in Callers, BeginReap(c)
        PROVE  Fine(d)
    <2>1. CASE d # c
      BY <1>12, <2>1, <1>1 DEF BeginReap
    <2>2. CASE d = c
      BY <1>12, <2>2, DoneStays DEF BeginReap, Fine, Informed, Knows, Taken, Done, IdleCall, Entered
    <2>3. QED
      BY <2>1, <2>2
  <1>13. ASSUME NEW c \in Callers, NEW i \in Parents, StopConfirmed(c, i)
        PROVE  Fine(d)
    <2>1. CASE d # c
      BY <1>13, <2>1, <1>1 DEF StopConfirmed
    <2>2. CASE d = c
      BY <1>13, <2>2, DoneStays DEF StopConfirmed, Fine, Informed, Knows, Taken, Done, Settled
    <2>3. QED
      BY <2>1, <2>2
  <1>14. ASSUME NEW c \in Callers, NEW i \in Parents, StopPending(c, i)
        PROVE  Fine(d)
    <2>1. CASE d # c
      BY <1>14, <2>1, <1>1 DEF StopPending
    <2>2. CASE d = c
      BY <1>14, <2>2, DoneStays DEF StopPending, Fine, Informed, Knows, Taken, Done
    <2>3. QED
      BY <2>1, <2>2
  <1>15. ASSUME NEW c \in Callers, NEW i \in Parents, StopTakes(c, i)
        PROVE  Fine(d)
    <2>1. CASE d # c
      BY <1>15, <2>1, <1>1 DEF StopTakes
    <2>2. CASE d = c
      BY <1>15, <2>2, DoneStays DEF StopTakes, Fine, Informed, Knows, Taken, Done, Entered
    <2>3. QED
      BY <2>1, <2>2
  <1>16. CASE \E c \in Callers, i \in Parents : Join(c, i)
    BY <1>16, <1>1 DEF Join
  <1>17. ASSUME NEW c \in Callers, NEW i \in Parents, ReleaseJoined(c, i)
        PROVE  Fine(d)
    <2>1. CASE d # c
      BY <1>17, <2>1, <1>1 DEF ReleaseJoined
    <2>2. CASE d = c
      BY <1>17, <2>2, DoneStays DEF ReleaseJoined, Fine, Informed, Knows, Taken, Done
    <2>3. QED
      BY <2>1, <2>2
  <1>18. ASSUME NEW c \in Callers, NEW i \in Parents, KeepUncertain(c, i)
        PROVE  Fine(d)
    <2>1. CASE d # c
      BY <1>18, <2>1, <1>1 DEF KeepUncertain
    <2>2. CASE d = c
      BY <1>18, <2>2, DoneStays DEF KeepUncertain, Fine, Informed, Knows, Taken, Done
    <2>3. QED
      BY <2>1, <2>2
  <1>19. ASSUME NEW c \in Callers, Return(c)
        PROVE  Fine(d)
    <2>1. CASE d # c
      BY <1>19, <2>1, <1>1 DEF Return
    <2>2. CASE d = c
      BY <1>19, <2>2, DoneStays DEF Return, Fine, Informed, Knows, Taken, Done
    <2>3. QED
      BY <2>1, <2>2
  <1>20. CASE \E c \in Callers : Forget(c)
    BY <1>20, <1>1, <1>2 DEF Forget, IdleCall
  <1>21. CASE UNCHANGED vars
    BY <1>21, <1>1 DEF vars
  <1>22. QED
    BY RegistryCases, <1>1, <1>2, <1>3, <1>4, <1>5, <1>6, <1>7, <1>8, <1>9, <1>10, <1>11, <1>12, <1>13, <1>14, <1>15, <1>16, <1>17, <1>18, <1>19, <1>20, <1>21

(* Every reachable state satisfies the invariant. *)
LEMMA RegistryInvariant == Spec => []RegistryInv
  <1>1. RegistryInv /\ [Next]_vars => RegistryInv'
    BY RegistryTypeStep, EntryStep, InformedStep DEF RegistryInv
  <1>2. QED
    BY <1>1, RegistryInit, PTL DEF Spec

(* Types: a registry, its owners and its callers stay what they are. *)
THEOREM RegistryTyped == Spec => []TypeOK
  <1>1. RegistryInv => TypeOK
    BY DEF RegistryInv
  <1>2. QED
    BY <1>1, RegistryInvariant, PTL

(* Memory and broker slots come back only with a confirmed join. *)
THEOREM RegistryCharges == Spec => []ChargedUntilJoined
  <1>1. RegistryInv => ChargedUntilJoined
    BY DEF RegistryInv, Charged, ChargedUntilJoined, Live
  <1>2. QED
    BY <1>1, RegistryInvariant, PTL

(* No stop and no drain reports success for an owner that is not joined. *)
THEOREM RegistryStops == Spec => []NoFalseStop
  <1>1. ASSUME RegistryInv, NEW c \in Callers,
               call[c].op \in {"stop", "drain"}, call[c].outcome = "ok"
        PROVE  /\ \A i \in call[c].asked : Done(i)
               /\ call[c].op = "drain" =>
                    \A i \in Parents : entry[i].principal = Nobody \/ Done(i)
    BY <1>1 DEF RegistryInv, Informed, Knows, TypeOK, CallType
  <1>2. RegistryInv => NoFalseStop
    BY <1>1 DEF RegistryInv, Entered, Done, NoFalseStop
  <1>3. QED
    BY <1>2, RegistryInvariant, PTL
=============================================================================
