------------------------------ MODULE MoteProofs ------------------------------
(***************************************************************************)
(* Proofs about what a host trusts and runs: the admission of motes        *)
(* (MoteAdmission) and their launch (MoteLaunch), the store and the        *)
(* manifest of attested tools (Assay), and the gate inside a cell (Pilot). *)
(* Each section has the parts of an inductive invariant, a lemma for each  *)
(* step, and the theorems that follow.                                     *)
(***************************************************************************)
EXTENDS MoteLaunch, Pilot, Assay, TLAPS

-------------------------------------------------------------------------------
(* The admission of motes (MoteAdmission).                                  *)

AdminType == {Away} \cup Build \cup Admission \cup Withdrawal

(* A mote of a valid plan whose objects o are durable, with its evidence    *)
(* among e and its members among those checked, s.                          *)
Backs(m, o, e, s) == m \in ValidPlans /\ o[m] = "durable" /\ m \in e /\ m \in s

(* How much an administrator, x, has of that for its mote and for its lists; *)
(* what it will commit over has grown by nothing else.                      *)
Admitting == {"prepared", "staged", "checked", "published", "synced", "recorded"}
Carried(x, o, e, s, t) ==
    /\ x.at \in Admitting =>
          /\ x.mote \in ValidPlans /\ x.next = x.list \cup {x.mote}
          /\ \A m \in x.list : Backs(m, o, e, s)
    /\ x.at \in {"checked", "published", "synced", "recorded"} => x.mote \in s
    /\ x.at \in {"synced", "recorded"} => o[x.mote] = "durable"
    /\ x.at = "recorded" => x.mote \in e
    /\ x.at \in {"withdrawing", "committing", "renamed"} => \A m \in x.next : Backs(m, o, e, s)
    /\ x.at = "committing" => t \subseteq x.list

Locking(x) == x.at \notin {"away", "image"}
Locked == \A a \in Admins : Locking(admin[a]) => admissionLock = {a}
Carrying == \A a \in Admins : Carried(admin[a], objects, evidence, sealedChecked, trustedMotes)
TrustBacked == \A m \in trustedMotes \cup trustSynced : Backs(m, objects, evidence, sealedChecked)
AckKept == acked \subseteq trustedMotes \cap trustSynced

MotesInv == MotesTypeOK /\ Locked /\ Carrying /\ TrustBacked /\ AckKept

(* What backs a mote is never taken away. *)
Grows == /\ \A m \in Plans : objects[m] = "durable" => objects'[m] = "durable"
         /\ evidence \subseteq evidence' /\ sealedChecked \subseteq sealedChecked'

(* So a mote that is backed stays backed. *)
LEMMA BacksStays ==
    ASSUME Grows, NEW m, Backs(m, objects, evidence, sealedChecked)
    PROVE  Backs(m, objects', evidence', sealedChecked')
  BY DEF Grows, Backs, ValidPlans

(* And an administrator that does not move keeps what it has. *)
LEMMA CarriedStays ==
    ASSUME Grows, NEW x, trustedMotes' \subseteq trustedMotes,
           Carried(x, objects, evidence, sealedChecked, trustedMotes)
    PROVE  Carried(x, objects', evidence', sealedChecked', trustedMotes')
  <1>1. \A m : Backs(m, objects, evidence, sealedChecked) => Backs(m, objects', evidence', sealedChecked')
    BY BacksStays
  <1>2. x.at \in {"synced", "recorded"} => objects'[x.mote] = "durable"
    BY DEF Carried, Grows, ValidPlans, Admitting
  <1>3. x.at \in {"checked", "published", "synced", "recorded"} => x.mote \in sealedChecked'
    BY DEF Carried, Grows
  <1>4. x.at = "recorded" => x.mote \in evidence'
    BY DEF Carried, Grows
  <1>5. QED
    BY <1>1, <1>2, <1>3, <1>4 DEF Carried

(* An administrator that holds no lock carries nothing. *)
LEMMA CarriesNothing ==
    ASSUME NEW x, ~Locking(x), NEW o, NEW e, NEW s, NEW t
    PROVE  Carried(x, o, e, s, t)
  BY DEF Locking, Carried, Admitting

(* A valid plan's closure keeps every file of every source as it was        *)
(* signed, and reaches every program: the sources agree on what they share, *)
(* and the runtime only gains needs.                                        *)
LEMMA ValidFaithful == ValidPlans \subseteq Faithful
  <1> SUFFICES ASSUME NEW m \in ValidPlans PROVE m \in Faithful
    OBVIOUS
  <1>1. m \in Plans /\ Composable(m) /\ Reached(Compose(m), EntryPath(m)) = PathsOf(m)
    BY DEF ValidPlans
  <1>2. m \in Seq(DOMAIN Source)
    BY <1>1, SourceAssumption
  <1>3. ASSUME NEW i \in DOMAIN m
        PROVE  /\ \A p \in DOMAIN Sources(m)[i].files :
                     /\ Compose(m)[p].hash = Sources(m)[i].files[p].hash
                     /\ Sources(m)[i].files[p].needs \subseteq Compose(m)[p].needs
               /\ Sources(m)[i].entry \in Reached(Compose(m), EntryPath(m))
    <2>1. \A j \in DOMAIN m : m[j] \in DOMAIN Source /\ Sources(m)[j] = Source[m[j]]
      BY <1>2 DEF Sources
    <2>2. ASSUME NEW p \in DOMAIN Sources(m)[i].files
          PROVE  /\ Compose(m)[p].hash = Sources(m)[i].files[p].hash
                 /\ Sources(m)[i].files[p].needs \subseteq Compose(m)[p].needs
      <3>1. p \in PathsOf(m)
        BY DEF PathsOf
      <3>2. PICK k \in DOMAIN m : k = (CHOOSE j \in DOMAIN m : p \in DOMAIN Sources(m)[j].files)
        OBVIOUS
      <3>3. p \in DOMAIN Sources(m)[k].files
        BY <3>2
      <3>4. Sources(m)[k].files[p] = Sources(m)[i].files[p]
        BY <1>1, <3>3 DEF Composable, Agree
      <3>5. PICK h, n : Sources(m)[i].files[p] = [hash |-> h, needs |-> n]
        <4>1. m[i] \in DOMAIN Source /\ p \in DOMAIN Source[m[i]].files
          BY <2>1
        <4>2. Source[m[i]].files[p] = [hash |-> Source[m[i]].files[p].hash, needs |-> Source[m[i]].files[p].needs]
          BY <4>1, SourceAssumption, Zenon
        <4>3. QED
          BY <2>1, <4>2, Zenon
      <3>6. PICK tools : Compose(m)[p] =
               IF p = EntryPath(m) THEN [Sources(m)[k].files[p] EXCEPT !.needs = @ \cup tools]
               ELSE Sources(m)[k].files[p]
        <4>1. PICK tools : tools = {Sources(m)[j].entry : j \in DOMAIN m \ {1}}
          OBVIOUS
        <4>2. Compose(m)[p] =
                 IF p = EntryPath(m) THEN [Sources(m)[k].files[p] EXCEPT !.needs = @ \cup tools]
                 ELSE Sources(m)[k].files[p]
          BY <3>1, <3>2, <4>1, Zenon DEF Compose
        <4>3. QED
          BY <4>2
      <3>7. QED
        BY <3>4, <3>5, <3>6
    <2>3. Sources(m)[i].entry \in PathsOf(m)
      BY <2>1, SourceAssumption DEF PathsOf
    <2>4. QED
      BY <1>1, <2>2, <2>3
  <1>4. QED
    BY <1>1, <1>3 DEF Faithful

(* The shapes of an administrator's record, by its step. *)
LEMMA AdminShape ==
    ASSUME NEW x \in AdminType
    PROVE  /\ x.at \in Admitting => x \in Admission
           /\ x.at = "image" => x \in Build
           /\ x.at = "withdrawing" => x \in Withdrawal
           /\ x.at \in {"committing", "renamed"} => x \in Admission \cup Withdrawal
  BY DEF AdminType, Away, Build, Admission, Withdrawal, Admitting

(* The next step of an admission or of a withdrawal. *)
LEMMA AdminMoves ==
    ASSUME NEW x \in AdminType, NEW point,
           \/ x.at \in Admitting /\ point \in Admitting \cup {"committing"}
           \/ x.at = "withdrawing" /\ point = "committing"
           \/ x.at = "committing" /\ point = "renamed"
    PROVE  LET y == [x EXCEPT !.at = point]
           IN  y \in AdminType /\ y.at = point /\ y.next = x.next /\ y.list = x.list
               /\ (x.at \in Admitting => y.mote = x.mote)
  <1>1. CASE x \in Admission
    BY <1>1 DEF AdminType, Admission, Admitting
  <1>2. CASE x \in Withdrawal
    BY <1>2 DEF AdminType, Withdrawal, Admitting
  <1>3. QED
    BY <1>1, <1>2, AdminShape

(* Nothing is trusted at first, and no administrator is at work. *)
LEMMA MotesInitial == MotesInit => MotesInv
  <1> SUFFICES ASSUME MotesInit PROVE MotesInv
    OBVIOUS
  <1>1. MotesTypeOK
    BY DEF MotesInit, MotesTypeOK, Manifested
  <1>2. Locked
    BY DEF MotesInit, Locked, Locking, Away
  <1>3. Carrying
    BY CarriesNothing DEF MotesInit, Carrying, Locking, Away
  <1>4. TrustBacked /\ AckKept
    BY DEF MotesInit, TrustBacked, AckKept
  <1>5. QED
    BY <1>1, <1>2, <1>3, <1>4 DEF MotesInv

(* A step of one administrator that does not change what is trusted. *)
LEMMA AdminStep ==
    ASSUME MotesInv, MotesTypeOK', NEW a \in Admins, NEW x,
           admin' = [admin EXCEPT ![a] = x], Grows,
           UNCHANGED <<trustedMotes, trustSynced, acked>>,
           Carried(x, objects', evidence', sealedChecked', trustedMotes'),
           Locking(x) => admissionLock' = {a},
           \A b \in Admins \ {a} : admissionLock = {b} => admissionLock' = {b}
    PROVE  MotesInv'
  <1>t. MotesTypeOK /\ Locked /\ Carrying /\ TrustBacked /\ AckKept
    BY DEF MotesInv
  <1>1. admin'[a] = x /\ \A b \in Admins \ {a} : admin'[b] = admin[b]
    BY <1>t DEF MotesTypeOK
  <1>2. Locked'
    BY <1>t, <1>1 DEF Locked
  <1>3. Carrying'
    BY <1>t, <1>1, CarriedStays DEF Carrying
  <1>4. TrustBacked'
    BY <1>t, BacksStays DEF TrustBacked
  <1>5. AckKept'
    BY <1>t DEF AckKept
  <1>6. QED
    BY <1>2, <1>3, <1>4, <1>5 DEF MotesInv

(* A build holds no lock. *)
LEMMA BeginBuildKeeps ==
    ASSUME MotesInv, NEW a \in Admins, BeginBuild(a)
    PROVE  MotesInv'
  <1>t. MotesTypeOK /\ Locked /\ Carrying /\ TrustBacked /\ AckKept
    BY DEF MotesInv
  <1>1. PICK x \in Build : admin' = [admin EXCEPT ![a] = x]
    BY <1>t DEF BeginBuild, MotesTypeOK, Build
  <1>2. ~Locking(x)
    BY DEF Build, Locking
  <1>3. MotesTypeOK'
    BY <1>t, <1>1 DEF BeginBuild, MotesTypeOK
  <1>4. Grows
    BY DEF BeginBuild, Grows
  <1>5. QED
    BY <1>1, <1>2, <1>3, <1>4, AdminStep, CarriesNothing DEF BeginBuild

(* The descriptor is put beside the image. *)
LEMMA FinishBuildKeeps ==
    ASSUME MotesInv, NEW a \in Admins, FinishBuild(a)
    PROVE  MotesInv'
  <1>t. MotesTypeOK /\ Locked /\ Carrying /\ TrustBacked /\ AckKept
    BY DEF MotesInv
  <1>1. admin[a] \in Build
    BY <1>t, AdminShape DEF FinishBuild, MotesTypeOK, AdminType
  <1>2. ~Locking(Away)
    BY DEF Away, Locking
  <1>3. built' \subseteq Plans
    BY <1>t, <1>1 DEF FinishBuild, MotesTypeOK, Build
  <1>4. MotesTypeOK'
    BY <1>t, <1>3 DEF FinishBuild, MotesTypeOK
  <1>5. Grows
    BY DEF FinishBuild, Grows
  <1>6. QED
    BY <1>2, <1>4, <1>5, AdminStep, CarriesNothing DEF FinishBuild

(* An admission begins from the list as it is. *)
LEMMA BeginAdmitKeeps ==
    ASSUME MotesInv, NEW a \in Admins, BeginAdmit(a)
    PROVE  MotesInv'
  <1>t. MotesTypeOK /\ Locked /\ Carrying /\ TrustBacked /\ AckKept
    BY DEF MotesInv
  <1>1. PICK m \in built : VerifyClosure(m) /\ admin' = [admin EXCEPT ![a] =
                [at |-> "prepared", mote |-> m, policy |-> closurePolicy, manifest |-> localRevoked,
                 list |-> trustedMotes, next |-> trustedMotes \cup {m}]]
    BY DEF BeginAdmit
  <1>2. PICK x : x = [at |-> "prepared", mote |-> m, policy |-> closurePolicy, manifest |-> localRevoked,
                      list |-> trustedMotes, next |-> trustedMotes \cup {m}]
    OBVIOUS
  <1>3. m \in ValidPlans /\ m \in Plans
    BY <1>1 DEF VerifyClosure, ValidPlans
  <1>4. x \in Admission
    BY <1>t, <1>2, <1>3 DEF Admission, MotesTypeOK
  <1>5. admin' = [admin EXCEPT ![a] = x]
    BY <1>1, <1>2
  <1>6. MotesTypeOK'
    BY <1>t, <1>4, <1>5 DEF BeginAdmit, MotesTypeOK
  <1>7. Grows
    BY DEF BeginAdmit, Grows
  <1>8. Carried(x, objects', evidence', sealedChecked', trustedMotes')
    <2>1. x.at = "prepared" /\ x.mote = m /\ x.list = trustedMotes /\ x.next = trustedMotes \cup {m}
      BY <1>2
    <2>2. \A n \in trustedMotes : Backs(n, objects', evidence', sealedChecked')
      BY <1>t, <1>7, BacksStays DEF TrustBacked
    <2>3. QED
      BY <1>3, <2>1, <2>2 DEF Carried
  <1>9. \A c \in Admins : admissionLock # {c}
    BY DEF BeginAdmit
  <1>10. QED
    BY <1>5, <1>6, <1>7, <1>8, <1>9, AdminStep DEF BeginAdmit

(* A withdrawal leaves what is trusted less one. *)
LEMMA BeginWithdrawKeeps ==
    ASSUME MotesInv, NEW a \in Admins, BeginWithdraw(a)
    PROVE  MotesInv'
  <1>t. MotesTypeOK /\ Locked /\ Carrying /\ TrustBacked /\ AckKept
    BY DEF MotesInv
  <1>1. PICK m \in trustedMotes : admin' = [admin EXCEPT ![a] =
              [at |-> "withdrawing", list |-> trustedMotes, next |-> trustedMotes \ {m}]]
    BY DEF BeginWithdraw
  <1>2. PICK x : x = [at |-> "withdrawing", list |-> trustedMotes, next |-> trustedMotes \ {m}]
    OBVIOUS
  <1>3. x \in Withdrawal
    BY <1>t, <1>2 DEF Withdrawal, MotesTypeOK
  <1>4. admin' = [admin EXCEPT ![a] = x]
    BY <1>1, <1>2
  <1>5. MotesTypeOK'
    BY <1>t, <1>3, <1>4 DEF BeginWithdraw, MotesTypeOK
  <1>6. Grows
    BY DEF BeginWithdraw, Grows
  <1>7. Carried(x, objects', evidence', sealedChecked', trustedMotes')
    <2>1. x.at = "withdrawing" /\ x.next = trustedMotes \ {m}
      BY <1>2
    <2>2. \A n \in trustedMotes : Backs(n, objects', evidence', sealedChecked')
      BY <1>t, <1>6, BacksStays DEF TrustBacked
    <2>3. QED
      BY <2>1, <2>2 DEF Carried, Admitting
  <1>8. \A c \in Admins : admissionLock # {c}
    BY DEF BeginWithdraw
  <1>9. QED
    BY <1>4, <1>5, <1>6, <1>7, <1>8, AdminStep DEF BeginWithdraw

(* The policy and the manifest are staged. *)
LEMMA StageCheckKeeps ==
    ASSUME MotesInv, NEW a \in Admins, StageCheck(a)
    PROVE  MotesInv'
  <1>t. MotesTypeOK /\ Locked /\ Carrying /\ TrustBacked /\ AckKept
    BY DEF MotesInv
  <1>1. admin[a] \in Admission /\ admin[a].at = "prepared" /\ admin[a].mote \in Plans
    BY <1>t, AdminShape DEF StageCheck, MotesTypeOK, AdminType, Admitting, Admission
  <1>2. PICK x : x = [admin[a] EXCEPT !.at = "staged", !.manifest = localRevoked]
    OBVIOUS
  <1>3. /\ x \in Admission /\ x.at = "staged" /\ x.mote = admin[a].mote
        /\ x.list = admin[a].list /\ x.next = admin[a].next
    BY <1>t, <1>1, <1>2 DEF Admission, MotesTypeOK
  <1>4. admin' = [admin EXCEPT ![a] = x]
    BY <1>t, <1>2 DEF StageCheck, MotesTypeOK
  <1>6. MotesTypeOK'
    BY <1>t, <1>3, <1>4 DEF StageCheck, MotesTypeOK
  <1>7. Grows
    BY <1>t, <1>1 DEF StageCheck, Grows, MotesTypeOK
  <1>8. Carried(x, objects', evidence', sealedChecked', trustedMotes')
    <2>1. Carried(admin[a], objects', evidence', sealedChecked', trustedMotes')
      BY <1>t, <1>7, CarriedStays DEF Carrying, StageCheck
    <2>3. QED
      BY <1>1, <1>3, <2>1 DEF Carried, Admitting
  <1>9. admissionLock' = {a} /\ admissionLock = {a}
    BY <1>t, <1>1 DEF Locked, Locking, StageCheck
  <1>10. \A c \in Admins \ {a} : admissionLock = {c} => admissionLock' = {c}
    BY <1>9
  <1>11. QED
    BY <1>4, <1>6, <1>7, <1>8, <1>9, <1>10, AdminStep DEF StageCheck

(* The sealed cell has looked at the members. *)
LEMMA MembersCheckedKeeps ==
    ASSUME MotesInv, NEW a \in Admins, MembersChecked(a)
    PROVE  MotesInv'
  <1>t. MotesTypeOK /\ Locked /\ Carrying /\ TrustBacked /\ AckKept
    BY DEF MotesInv
  <1>1. admin[a] \in Admission /\ admin[a].at = "staged" /\ admin[a].mote \in Plans
    BY <1>t, AdminShape DEF MembersChecked, MotesTypeOK, AdminType, Admitting, Admission
  <1>2. PICK x : x = [admin[a] EXCEPT !.at = "checked"]
    OBVIOUS
  <1>3. /\ x \in Admission /\ x.at = "checked" /\ x.mote = admin[a].mote
        /\ x.list = admin[a].list /\ x.next = admin[a].next
    BY <1>1, <1>2 DEF Admission
  <1>4. admin' = [admin EXCEPT ![a] = x]
    BY <1>t, <1>2 DEF MembersChecked, Step, MotesTypeOK
  <1>5. sealedChecked' \subseteq Plans
    BY <1>t, <1>1 DEF MembersChecked, MotesTypeOK
  <1>6. MotesTypeOK'
    BY <1>t, <1>3, <1>4, <1>5 DEF MembersChecked, MotesTypeOK
  <1>7. Grows
    BY <1>t, <1>1 DEF MembersChecked, Grows, MotesTypeOK
  <1>8. Carried(x, objects', evidence', sealedChecked', trustedMotes')
    <2>1. Carried(admin[a], objects', evidence', sealedChecked', trustedMotes')
      BY <1>t, <1>7, CarriedStays DEF Carrying, MembersChecked
    <2>2. admin[a].mote \in sealedChecked'
      BY DEF MembersChecked
    <2>3. QED
      BY <1>1, <1>3, <2>1, <2>2 DEF Carried, Admitting
  <1>9. admissionLock' = {a} /\ admissionLock = {a}
    BY <1>t, <1>1 DEF Locked, Locking, MembersChecked
  <1>10. \A c \in Admins \ {a} : admissionLock = {c} => admissionLock' = {c}
    BY <1>9
  <1>11. QED
    BY <1>4, <1>6, <1>7, <1>8, <1>9, <1>10, AdminStep DEF MembersChecked

(* The objects are made visible. *)
LEMMA PublishObjectsKeeps ==
    ASSUME MotesInv, NEW a \in Admins, PublishObjects(a)
    PROVE  MotesInv'
  <1>t. MotesTypeOK /\ Locked /\ Carrying /\ TrustBacked /\ AckKept
    BY DEF MotesInv
  <1>1. admin[a] \in Admission /\ admin[a].at = "checked" /\ admin[a].mote \in Plans
    BY <1>t, AdminShape DEF PublishObjects, MotesTypeOK, AdminType, Admitting, Admission
  <1>2. PICK x : x = [admin[a] EXCEPT !.at = "published"]
    OBVIOUS
  <1>3. /\ x \in Admission /\ x.at = "published" /\ x.mote = admin[a].mote
        /\ x.list = admin[a].list /\ x.next = admin[a].next
    BY <1>1, <1>2 DEF Admission
  <1>4. admin' = [admin EXCEPT ![a] = x]
    BY <1>t, <1>2 DEF PublishObjects, Step, MotesTypeOK
  <1>5. objects' \in [Plans -> {"absent", "visible", "durable"}]
    BY <1>t, <1>1 DEF PublishObjects, MotesTypeOK
  <1>6. MotesTypeOK'
    BY <1>t, <1>3, <1>4, <1>5 DEF PublishObjects, MotesTypeOK
  <1>7. Grows
    BY <1>t, <1>1 DEF PublishObjects, Grows, MotesTypeOK
  <1>8. Carried(x, objects', evidence', sealedChecked', trustedMotes')
    <2>1. Carried(admin[a], objects', evidence', sealedChecked', trustedMotes')
      BY <1>t, <1>7, CarriedStays DEF Carrying, PublishObjects
    <2>3. QED
      BY <1>1, <1>3, <2>1 DEF Carried, Admitting
  <1>9. admissionLock' = {a} /\ admissionLock = {a}
    BY <1>t, <1>1 DEF Locked, Locking, PublishObjects
  <1>10. \A c \in Admins \ {a} : admissionLock = {c} => admissionLock' = {c}
    BY <1>9
  <1>11. QED
    BY <1>4, <1>6, <1>7, <1>8, <1>9, <1>10, AdminStep DEF PublishObjects

(* The objects are durable. *)
LEMMA SyncObjectsKeeps ==
    ASSUME MotesInv, NEW a \in Admins, SyncObjects(a)
    PROVE  MotesInv'
  <1>t. MotesTypeOK /\ Locked /\ Carrying /\ TrustBacked /\ AckKept
    BY DEF MotesInv
  <1>1. admin[a] \in Admission /\ admin[a].at = "published" /\ admin[a].mote \in Plans
    BY <1>t, AdminShape DEF SyncObjects, MotesTypeOK, AdminType, Admitting, Admission
  <1>2. PICK x : x = [admin[a] EXCEPT !.at = "synced"]
    OBVIOUS
  <1>3. /\ x \in Admission /\ x.at = "synced" /\ x.mote = admin[a].mote
        /\ x.list = admin[a].list /\ x.next = admin[a].next
    BY <1>1, <1>2 DEF Admission
  <1>4. admin' = [admin EXCEPT ![a] = x]
    BY <1>t, <1>2 DEF SyncObjects, Step, MotesTypeOK
  <1>5. objects' \in [Plans -> {"absent", "visible", "durable"}]
    BY <1>t, <1>1 DEF SyncObjects, MotesTypeOK
  <1>6. MotesTypeOK'
    BY <1>t, <1>3, <1>4, <1>5 DEF SyncObjects, MotesTypeOK
  <1>7. Grows
    BY <1>t, <1>1 DEF SyncObjects, Grows, MotesTypeOK
  <1>8. Carried(x, objects', evidence', sealedChecked', trustedMotes')
    <2>1. Carried(admin[a], objects', evidence', sealedChecked', trustedMotes')
      BY <1>t, <1>7, CarriedStays DEF Carrying, SyncObjects
    <2>2. objects'[admin[a].mote] = "durable"
      BY <1>t, <1>1 DEF SyncObjects, MotesTypeOK
    <2>3. QED
      BY <1>1, <1>3, <2>1, <2>2 DEF Carried, Admitting
  <1>9. admissionLock' = {a} /\ admissionLock = {a}
    BY <1>t, <1>1 DEF Locked, Locking, SyncObjects
  <1>10. \A c \in Admins \ {a} : admissionLock = {c} => admissionLock' = {c}
    BY <1>9
  <1>11. QED
    BY <1>4, <1>6, <1>7, <1>8, <1>9, <1>10, AdminStep DEF SyncObjects

(* The evidence is written. *)
LEMMA RecordEvidenceKeeps ==
    ASSUME MotesInv, NEW a \in Admins, RecordEvidence(a)
    PROVE  MotesInv'
  <1>t. MotesTypeOK /\ Locked /\ Carrying /\ TrustBacked /\ AckKept
    BY DEF MotesInv
  <1>1. admin[a] \in Admission /\ admin[a].at = "synced" /\ admin[a].mote \in Plans
    BY <1>t, AdminShape DEF RecordEvidence, MotesTypeOK, AdminType, Admitting, Admission
  <1>2. PICK x : x = [admin[a] EXCEPT !.at = "recorded"]
    OBVIOUS
  <1>3. /\ x \in Admission /\ x.at = "recorded" /\ x.mote = admin[a].mote
        /\ x.list = admin[a].list /\ x.next = admin[a].next
    BY <1>1, <1>2 DEF Admission
  <1>4. admin' = [admin EXCEPT ![a] = x]
    BY <1>t, <1>2 DEF RecordEvidence, Step, MotesTypeOK
  <1>5. evidence' \subseteq Plans
    BY <1>t, <1>1 DEF RecordEvidence, MotesTypeOK
  <1>6. MotesTypeOK'
    BY <1>t, <1>3, <1>4, <1>5 DEF RecordEvidence, MotesTypeOK
  <1>7. Grows
    BY <1>t, <1>1 DEF RecordEvidence, Grows, MotesTypeOK
  <1>8. Carried(x, objects', evidence', sealedChecked', trustedMotes')
    <2>1. Carried(admin[a], objects', evidence', sealedChecked', trustedMotes')
      BY <1>t, <1>7, CarriedStays DEF Carrying, RecordEvidence
    <2>2. admin[a].mote \in evidence'
      BY DEF RecordEvidence
    <2>3. QED
      BY <1>1, <1>3, <2>1, <2>2 DEF Carried, Admitting
  <1>9. admissionLock' = {a} /\ admissionLock = {a}
    BY <1>t, <1>1 DEF Locked, Locking, RecordEvidence
  <1>10. \A c \in Admins \ {a} : admissionLock = {c} => admissionLock' = {c}
    BY <1>9
  <1>11. QED
    BY <1>4, <1>6, <1>7, <1>8, <1>9, <1>10, AdminStep DEF RecordEvidence

(* The list is still the one that was read. *)
LEMMA CommitCheckKeeps ==
    ASSUME MotesInv, NEW a \in Admins, CommitCheck(a)
    PROVE  MotesInv'
  <1>t. MotesTypeOK /\ Locked /\ Carrying /\ TrustBacked /\ AckKept
    BY DEF MotesInv
  <1>1. admin[a] \in AdminType /\ admin[a].at \in {"recorded", "withdrawing"}
    BY <1>t DEF CommitCheck, MotesTypeOK, AdminType
  <1>2. PICK x : x = [admin[a] EXCEPT !.at = "committing"]
    OBVIOUS
  <1>3. x \in AdminType /\ x.at = "committing" /\ x.list = admin[a].list /\ x.next = admin[a].next
    BY <1>1, <1>2, AdminMoves DEF Admitting
  <1>4. admin' = [admin EXCEPT ![a] = x]
    BY <1>t, <1>2 DEF CommitCheck, Step, MotesTypeOK
  <1>6. MotesTypeOK'
    BY <1>t, <1>3, <1>4 DEF CommitCheck, MotesTypeOK, AdminType
  <1>7. Grows
    BY DEF CommitCheck, Grows
  <1>8. Carried(x, objects', evidence', sealedChecked', trustedMotes')
    <2>1. Carried(admin[a], objects, evidence, sealedChecked, trustedMotes)
      BY <1>t DEF Carrying
    <2>2. \A m \in x.next : Backs(m, objects, evidence, sealedChecked)
      BY <1>1, <1>3, <2>1 DEF Carried, Backs, Admitting
    <2>3. \A m \in x.next : Backs(m, objects', evidence', sealedChecked')
      BY <1>7, <2>2, BacksStays
    <2>4. trustedMotes' \subseteq x.list
      BY <1>3 DEF CommitCheck
    <2>5. QED
      BY <1>3, <2>3, <2>4 DEF Carried, Admitting
  <1>9. admissionLock' = {a} /\ admissionLock = {a}
    BY <1>t, <1>1 DEF Locked, Locking, CommitCheck
  <1>10. \A c \in Admins \ {a} : admissionLock = {c} => admissionLock' = {c}
    BY <1>9
  <1>11. QED
    BY <1>4, <1>6, <1>7, <1>8, <1>9, <1>10, AdminStep DEF CommitCheck

(* The lock goes with the process. *)
LEMMA AdminFailsKeeps ==
    ASSUME MotesInv, NEW a \in Admins, AdminFails(a)
    PROVE  MotesInv'
  <1>t. MotesTypeOK /\ Locked /\ Carrying /\ TrustBacked /\ AckKept
    BY DEF MotesInv
  <1>1. ~Locking(Away)
    BY DEF Away, Locking
  <1>2. MotesTypeOK'
    BY <1>t DEF AdminFails, MotesTypeOK
  <1>3. Grows
    BY DEF AdminFails, Grows
  <1>4. \A c \in Admins \ {a} : admissionLock = {c} => admissionLock' = {c}
    BY DEF AdminFails
  <1>5. QED
    BY <1>1, <1>2, <1>3, <1>4, AdminStep, CarriesNothing DEF AdminFails

(* The list is replaced: all of it is backed, and what was reported is on it. *)
LEMMA CommitRenameKeeps ==
    ASSUME MotesInv, NEW a \in Admins, CommitRename(a)
    PROVE  MotesInv'
  <1>t. MotesTypeOK /\ Locked /\ Carrying /\ TrustBacked /\ AckKept
    BY DEF MotesInv
  <1>1. admin[a] \in AdminType /\ admin[a].at = "committing"
    BY <1>t DEF CommitRename, MotesTypeOK, AdminType
  <1>2. PICK x : x = [admin[a] EXCEPT !.at = "renamed"]
    OBVIOUS
  <1>3. x \in AdminType /\ x.at = "renamed" /\ x.next = admin[a].next
    BY <1>1, <1>2, AdminMoves
  <1>4. admin' = [admin EXCEPT ![a] = x]
    BY <1>t, <1>2 DEF CommitRename, Step, MotesTypeOK
  <1>5. admin'[a] = x /\ \A c \in Admins \ {a} : admin'[c] = admin[c]
    BY <1>t, <1>4 DEF MotesTypeOK
  <1>6. admin[a].next \subseteq Plans
    BY <1>1, AdminShape DEF Admission, Withdrawal
  <1>7. MotesTypeOK'
    <2>1. acked' \subseteq Plans /\ trustedMotes' \subseteq Plans
      BY <1>t, <1>6 DEF CommitRename, MotesTypeOK
    <2>2. QED
      BY <1>t, <1>3, <1>4, <2>1 DEF CommitRename, MotesTypeOK, AdminType
  <1>8. Locking(admin[a]) /\ admissionLock = {a}
    BY <1>t, <1>1 DEF Locked, Locking
  <1>9. \A c \in Admins \ {a} : ~Locking(admin[c])
    BY <1>t, <1>8 DEF Locked
  <1>10. Locked'
    BY <1>5, <1>8, <1>9 DEF Locked, CommitRename
  <1>11. Carried(admin[a], objects, evidence, sealedChecked, trustedMotes)
    BY <1>t DEF Carrying
  <1>12. \A m \in admin[a].next : Backs(m, objects, evidence, sealedChecked)
    BY <1>1, <1>11 DEF Carried
  <1>13. Carried(x, objects', evidence', sealedChecked', trustedMotes')
    BY <1>3, <1>12 DEF Carried, Admitting, CommitRename
  <1>14. Carrying'
    BY <1>5, <1>9, <1>13, CarriesNothing DEF Carrying
  <1>15. TrustBacked'
    BY <1>t, <1>12 DEF TrustBacked, CommitRename
  <1>16. AckKept'
    BY <1>t, <1>1, <1>11 DEF AckKept, CommitRename, Carried
  <1>17. QED
    BY <1>7, <1>10, <1>14, <1>15, <1>16 DEF MotesInv

(* What is on the list is there for good. *)
LEMMA CommitSyncKeeps ==
    ASSUME MotesInv, NEW a \in Admins, CommitSync(a)
    PROVE  MotesInv'
  <1>t. MotesTypeOK /\ Locked /\ Carrying /\ TrustBacked /\ AckKept
    BY DEF MotesInv
  <1>1. admin[a].at = "renamed"
    BY DEF CommitSync
  <1>2. Locking(admin[a]) /\ admissionLock = {a}
    BY <1>t, <1>1 DEF Locked, Locking
  <1>3. \A c \in Admins : ~Locking(admin'[c])
    BY <1>t, <1>2 DEF Locked, CommitSync, MotesTypeOK, Locking, Away
  <1>4. MotesTypeOK'
    BY <1>t DEF CommitSync, MotesTypeOK
  <1>5. Locked' /\ Carrying'
    BY <1>3, CarriesNothing DEF Locked, Carrying
  <1>6. TrustBacked'
    BY <1>t DEF TrustBacked, CommitSync
  <1>7. AckKept'
    BY <1>t DEF AckKept, CommitSync
  <1>8. QED
    BY <1>4, <1>5, <1>6, <1>7 DEF MotesInv

(* The operator edits the closure policy. *)
LEMMA EditPolicyKeeps ==
    ASSUME MotesInv, EditPolicy
    PROVE  MotesInv'
  <1>t. MotesTypeOK /\ Locked /\ Carrying /\ TrustBacked /\ AckKept
    BY DEF MotesInv
  <1>1. MotesTypeOK'
    BY <1>t DEF EditPolicy, MotesTypeOK, Manifested
  <1>2. Locked' /\ Carrying' /\ TrustBacked' /\ AckKept'
    BY <1>t DEF EditPolicy, Locked, Carrying, TrustBacked, AckKept
  <1>3. QED
    BY <1>1, <1>2 DEF MotesInv

(* The operator edits the local manifest. *)
LEMMA RevokeLocallyKeeps ==
    ASSUME MotesInv, RevokeLocally
    PROVE  MotesInv'
  <1>t. MotesTypeOK /\ Locked /\ Carrying /\ TrustBacked /\ AckKept
    BY DEF MotesInv
  <1>1. MotesTypeOK'
    BY <1>t DEF RevokeLocally, MotesTypeOK, Manifested
  <1>2. Locked' /\ Carrying' /\ TrustBacked' /\ AckKept'
    BY <1>t DEF RevokeLocally, Locked, Carrying, TrustBacked, AckKept
  <1>3. QED
    BY <1>1, <1>2 DEF MotesInv

(* A mote is taken off the list. *)
LEMMA WithdrawMoteKeeps ==
    ASSUME MotesInv, WithdrawMote
    PROVE  MotesInv'
  <1>t. MotesTypeOK /\ Locked /\ Carrying /\ TrustBacked /\ AckKept
    BY DEF MotesInv
  <1>1. trustedMotes' \subseteq trustedMotes /\ Grows /\ trustSynced' = trustedMotes'
    BY DEF WithdrawMote, Grows
  <1>2. MotesTypeOK'
    BY <1>t, <1>1 DEF WithdrawMote, MotesTypeOK
  <1>3. Locked'
    BY <1>t DEF WithdrawMote, Locked
  <1>4. Carrying'
    BY <1>t, <1>1, CarriedStays DEF WithdrawMote, Carrying
  <1>5. TrustBacked'
    BY <1>t, <1>1, BacksStays DEF TrustBacked
  <1>6. AckKept'
    BY <1>t, <1>1 DEF AckKept, WithdrawMote
  <1>7. QED
    BY <1>2, <1>3, <1>4, <1>5, <1>6 DEF MotesInv

(* What was synced survives, and every process ends. *)
LEMMA LosePowerKeeps ==
    ASSUME MotesInv, LosePower
    PROVE  MotesInv'
  <1>t. MotesTypeOK /\ Locked /\ Carrying /\ TrustBacked /\ AckKept
    BY DEF MotesInv
  <1>1. objects' \in [Plans -> {"absent", "visible", "durable"}]
    BY <1>t DEF LosePower, MotesTypeOK
  <1>2. Grows
    BY <1>t DEF LosePower, Grows, MotesTypeOK
  <1>3. MotesTypeOK'
    BY <1>t, <1>1 DEF LosePower, MotesTypeOK
  <1>4. \A a \in Admins : ~Locking(admin'[a])
    BY DEF LosePower, Locking, Away
  <1>5. Locked' /\ Carrying'
    BY <1>4, CarriesNothing DEF Locked, Carrying
  <1>6. TrustBacked'
    BY <1>t, <1>2, BacksStays DEF TrustBacked, LosePower
  <1>7. AckKept'
    BY <1>t DEF AckKept, LosePower
  <1>8. QED
    BY <1>3, <1>5, <1>6, <1>7 DEF MotesInv

(* Every step keeps the invariant. *)
LEMMA MotesStep == MotesInv /\ [MotesNext]_moteVars => MotesInv'
  <1> SUFFICES ASSUME MotesInv, [MotesNext]_moteVars PROVE MotesInv'
    OBVIOUS
  <1>1. ASSUME NEW a \in Admins,
               \/ BeginBuild(a) \/ FinishBuild(a) \/ BeginAdmit(a) \/ BeginWithdraw(a)
               \/ StageCheck(a) \/ MembersChecked(a) \/ PublishObjects(a) \/ SyncObjects(a)
               \/ RecordEvidence(a) \/ CommitCheck(a) \/ CommitRename(a) \/ CommitSync(a)
               \/ AdminFails(a)
        PROVE  MotesInv'
    BY <1>1, BeginBuildKeeps, FinishBuildKeeps, BeginAdmitKeeps, BeginWithdrawKeeps, StageCheckKeeps,
       MembersCheckedKeeps, PublishObjectsKeeps, SyncObjectsKeeps, RecordEvidenceKeeps,
       CommitCheckKeeps, CommitRenameKeeps, CommitSyncKeeps, AdminFailsKeeps
  <1>2. CASE UNCHANGED moteVars
    BY <1>2 DEF MotesInv, moteVars, MotesTypeOK, Locked, Carrying, TrustBacked, AckKept
  <1>3. QED
    BY <1>1, <1>2, EditPolicyKeeps, RevokeLocallyKeeps, WithdrawMoteKeeps, LosePowerKeeps DEF MotesNext

(* The inductive invariant holds of every behaviour of the admission. *)
THEOREM MotesInvariant == MotesSpec => []MotesInv
  <1>1. QED
    BY MotesInitial, MotesStep, PTL DEF MotesSpec

(* The operator's files and the administrators have their types. *)
THEOREM MotesTyped == MotesSpec => []MotesTypeOK
  <1>1. MotesInv => MotesTypeOK
    BY DEF MotesInv
  <1>2. QED
    BY <1>1, MotesInvariant, PTL

(* Every trusted mote has durable objects, evidence, members that a sealed  *)
(* cell verified and a closure that keeps its sources, and an admission     *)
(* that was reported stays until it is withdrawn (mote_admit::admit,        *)
(* commit_policy, compose).                                                 *)
THEOREM MotesBacked == MotesSpec => []AuthorityBacked
  <1>1. MotesInv => AuthorityBacked
    BY ValidFaithful DEF MotesInv, TrustBacked, AckKept, Backs, AuthorityBacked
  <1>2. QED
    BY <1>1, MotesInvariant, PTL

-------------------------------------------------------------------------------
(* The launch of an admitted mote (MoteLaunch).                             *)

(* A launch, x, past its preparation has noted all that the operator's      *)
(* files, v, allow; and each check it passed noted what it is about.        *)
Forked == {"forked", "claiming", "claimed", "running"}
Rechecking == {"ready", "authorized", "verified"}
Flown(x, v) ==
    /\ x.at \in Rechecking => AllowedBy(x.request, x.grant, v) \subseteq x.seen
    /\ x.at \in {"authorized", "verified"} \cup Forked => "mote" \in x.seen
    /\ x.at \in {"verified"} \cup Forked => "closure" \in x.seen
    /\ x.at \in Forked => "grant" \in x.seen
Noticing == \A l \in Launchers : Flown(launcher[l], View)

(* A launch, x, holds the tombstone of the attempt a, whose cell has not    *)
(* run; a tombstone has one holder, and is durable once its cell may run.   *)
Owns(x, a) == x.at \in {"claiming", "claimed"} /\ x.request.harness /\ x.request.attempt = a
Tombstones ==
    /\ \A a \in Attempts : ran[a] \in {0, 1} /\ (ran[a] = 1 => attempts[a] = "synced")
    /\ \A l \in Launchers : launcher[l].at \in {"forked", "claiming"} => launcher[l].request.harness
    /\ \A l \in Launchers, a \in Attempts : Owns(launcher[l], a) =>
          /\ ran[a] = 0 /\ attempts[a] # "none"
          /\ launcher[l].at = "claimed" => attempts[a] = "synced"
    /\ \A l, k \in Launchers, a \in Attempts : Owns(launcher[l], a) /\ Owns(launcher[k], a) => l = k

LaunchInv == MotesInv /\ LaunchTypeOK /\ Noticing /\ Tombstones

(* A thread that is not idle is launching. *)
LEMMA LaunchShape ==
    ASSUME LaunchTypeOK, NEW l \in Launchers, launcher[l].at # "idle"
    PROVE  /\ launcher[l] \in Launch /\ launcher[l].request \in Tasks
           /\ launcher[l].request.attempt \in Attempts
  <1>1. launcher[l] \in Launch
    BY DEF LaunchTypeOK, Unoccupied
  <1>2. launcher[l].request \in Tasks
    BY <1>1 DEF Launch
  <1>3. QED
    BY <1>1, <1>2 DEF Attempts

(* What the state allows is noted when it is looked for. *)
LEMMA MoteAllowed ==
    ASSUME NEW q, NEW g, q.mote \in trustedMotes
    PROVE  "mote" \in AllowedBy(q, g, View)
  <1>1. View.motes = trustedMotes
    BY DEF View
  <1>2. QED
    BY <1>1 DEF AllowedBy, Permissions

(* A closure that verifies has trusted publishers, and sources that are not *)
(* revoked.                                                                 *)
LEMMA ClosureAllowed ==
    ASSUME NEW q, NEW g, VerifyClosure(q.mote)
    PROVE  "closure" \in AllowedBy(q, g, View)
  <1>1. View.policy = closurePolicy
    BY DEF View
  <1>2. \A i \in DOMAIN q.mote : Sources(q.mote)[i] = Source[q.mote[i]]
    BY DEF Sources
  <1>3. /\ {Source[q.mote[i]].publisher : i \in DOMAIN q.mote} \subseteq closurePolicy.publishers
        /\ \A i \in DOMAIN q.mote :
              {q.mote[i], Source[q.mote[i]].fs} \cap closurePolicy.revoked = {}
    BY <1>2 DEF VerifyClosure
  <1>4. QED
    BY <1>1, <1>3 DEF AllowedBy, Permissions

(* A grant that resolves is there, and its profile in force. *)
LEMMA GrantAllowed ==
    ASSUME NEW q, NEW g, q.harness => Resolves(q, g)
    PROVE  "grant" \in AllowedBy(q, g, View)
  <1>1. /\ View.harnessGrants = harnessGrants /\ View.profile = modelProfile
        /\ View.boot = hostBoot /\ View.clock = hostClock
    BY DEF View
  <1>2. q.harness =>
           /\ g \in harnessGrants
           /\ g.policy # NoProfile =>
                 /\ modelProfile = g.policy /\ g.policy.binds = q
                 /\ g.policy.boot # 0 => g.policy.boot = hostBoot /\ hostClock < g.policy.expires
    BY DEF Resolves, Validated, ProfileUsable, Unexpired
  <1>3. QED
    BY <1>1, <1>2 DEF AllowedBy, Permissions

(* Noting only adds to what a launch has seen. *)
LEMMA NotedEffect ==
    ASSUME LaunchTypeOK, NoteAll, NEW l \in Launchers
    PROVE  /\ launcher'[l] \in Launch \cup {Unoccupied}
           /\ launcher'[l].at = launcher[l].at
           /\ launcher[l].at # "idle" =>
                 /\ launcher'[l].request = launcher[l].request /\ launcher'[l].grant = launcher[l].grant
                 /\ launcher[l].seen \subseteq launcher'[l].seen
           /\ launcher[l].at \in Rechecking =>
                 AllowedBy(launcher[l].request, launcher[l].grant, View') \subseteq launcher'[l].seen
  <1>1. launcher'[l] = Noted(l, View')
    BY DEF NoteAll
  <1>2. CASE launcher[l].at \in Rechecking
    <2>1. launcher[l] \in Launch
      BY <1>2, LaunchShape DEF Rechecking
    <2>2. PICK s : s = AllowedBy(launcher[l].request, launcher[l].grant, View')
      OBVIOUS
    <2>3. s \subseteq Permissions
      BY <2>2 DEF AllowedBy
    <2>4. launcher'[l] = [launcher[l] EXCEPT !.seen = @ \cup s]
      BY <1>1, <1>2, <2>2 DEF Noted, Rechecking
    <2>5. QED
      BY <1>2, <2>1, <2>2, <2>3, <2>4 DEF Launch
  <1>3. CASE launcher[l].at \notin Rechecking
    <2>1. launcher'[l] = launcher[l]
      BY <1>1, <1>3 DEF Noted, Rechecking
    <2>2. QED
      BY <1>3, <2>1 DEF LaunchTypeOK
  <1>4. QED
    BY <1>2, <1>3

(* So a step that notes keeps what the launches have noticed. *)
LEMMA NoticingNoted ==
    ASSUME LaunchTypeOK, Noticing, NoteAll
    PROVE  Noticing' /\ launcher' \in [Launchers -> Launch \cup {Unoccupied}]
  <1>1. ASSUME NEW l \in Launchers
        PROVE  Flown(launcher'[l], View')
    <2>1. Flown(launcher[l], View)
      BY DEF Noticing
    <2>2. QED
      BY <2>1, NotedEffect DEF Flown, Rechecking, Forked
  <1>2. launcher' \in [Launchers -> Launch \cup {Unoccupied}]
    <2>1. launcher' = [l \in Launchers |-> launcher'[l]]
      BY DEF NoteAll
    <2>2. QED
      BY <2>1, NotedEffect
  <1>3. QED
    BY <1>1, <1>2 DEF Noticing

(* A step that leaves the launches that hold, or are about to claim, a      *)
(* tombstone.                                                               *)
LEMMA TombstonesStay ==
    ASSUME LaunchTypeOK, Tombstones, UNCHANGED <<attempts, ran>>,
           \A l \in Launchers :
              \/ launcher'[l].at \notin {"forked", "claiming", "claimed"}
              \/ launcher'[l].at = launcher[l].at /\ launcher'[l].request = launcher[l].request
    PROVE  Tombstones'
  <1>1. \A l \in Launchers, a \in Attempts : Owns(launcher'[l], a) =>
           Owns(launcher[l], a) /\ launcher'[l].at = launcher[l].at
    BY DEF Owns
  <1>2. \A l \in Launchers : launcher'[l].at \in {"forked", "claiming"} => launcher'[l].request.harness
    BY DEF Tombstones
  <1>3. QED
    BY <1>1, <1>2 DEF Tombstones

(* A step that notes keeps the tombstones too. *)
LEMMA TombstonesNoted ==
    ASSUME LaunchTypeOK, Tombstones, NoteAll, UNCHANGED <<attempts, ran>>
    PROVE  Tombstones'
  BY NotedEffect, TombstonesStay

(* The motes are admitted, and no thread launches. *)
LEMMA LaunchInitial == DeclaredInit => LaunchInv
  <1> SUFFICES ASSUME NEW ms \in SUBSET ValidPlans, AdmittedInit(ms) PROVE LaunchInv
    BY DEF DeclaredInit
  <1>1. MotesInv
    <2>1. ms \subseteq Plans
      BY DEF ValidPlans
    <2>2. objects \in [Plans -> {"absent", "visible", "durable"}]
      BY DEF AdmittedInit
    <2>3. MotesTypeOK
      BY <2>1, <2>2 DEF AdmittedInit, MotesTypeOK, Manifested
    <2>4. Locked
      BY DEF AdmittedInit, Locked, Locking, Away
    <2>5. Carrying
      BY CarriesNothing DEF AdmittedInit, Carrying, Locking, Away
    <2>6. TrustBacked /\ AckKept
      BY <2>1 DEF AdmittedInit, TrustBacked, AckKept, Backs
    <2>7. QED
      BY <2>3, <2>4, <2>5, <2>6 DEF MotesInv
  <1>2. LaunchTypeOK
    BY DeclaredAssumption DEF AdmittedInit, LaunchInit, LaunchTypeOK
  <1>3. Noticing
    BY DEF AdmittedInit, LaunchInit, Noticing, Flown, Unoccupied, Rechecking, Forked
  <1>4. Tombstones
    BY DEF AdmittedInit, LaunchInit, Tombstones, Unoccupied, Owns
  <1>5. QED
    BY <1>1, <1>2, <1>3, <1>4 DEF LaunchInv

(* The motes stay as they are. *)
LEMMA MotesStill ==
    ASSUME MotesInv, UNCHANGED moteVars
    PROVE  MotesInv'
  BY DEF MotesInv, moteVars, MotesTypeOK, Locked, Carrying, TrustBacked, AckKept

(* The view stays as it is. *)
LEMMA ViewStill ==
    ASSUME UNCHANGED <<moteVars, modelProfile, hostTime, harnessGrants>>
    PROVE  View' = View
  BY DEF View, moteVars, hostTime

(* One thread's step, with the operator's files as they were. *)
LEMMA LauncherStep ==
    ASSUME LaunchInv, NEW l \in Launchers, NEW x \in Launch \cup {Unoccupied},
           launcher' = [launcher EXCEPT ![l] = x], Flown(x, View),
           UNCHANGED <<moteVars, modelProfile, hostTime, harnessGrants, harnessSynced, issuer>>,
           attempts' \in [Attempts -> {"none", "made", "synced"}], ran' \in [Attempts -> Nat],
           Tombstones'
    PROVE  LaunchInv'
  <1>t. MotesInv /\ LaunchTypeOK /\ Noticing /\ Tombstones
    BY DEF LaunchInv
  <1>1. launcher' \in [Launchers -> Launch \cup {Unoccupied}]
    BY <1>t DEF LaunchTypeOK
  <1>2. LaunchTypeOK'
    BY <1>t, <1>1 DEF LaunchTypeOK, hostTime
  <1>3. MotesInv'
    BY <1>t, MotesStill
  <1>4. View' = View
    BY ViewStill
  <1>5. Noticing'
    BY <1>t, <1>4 DEF Noticing, LaunchTypeOK
  <1>6. QED
    BY <1>2, <1>3, <1>5 DEF LaunchInv

(* A candidate for a grant is made. *)
LEMMA BeginIssueKeeps ==
    ASSUME LaunchInv, NEW q \in Tasks, BeginIssue(q)
    PROVE  LaunchInv'
  <1>t. MotesInv /\ LaunchTypeOK /\ Noticing /\ Tombstones
    BY DEF LaunchInv
  <1>1. issuer' \in Issue \cup {Unoccupied}
    <2>1. GrantFor(q) \in Grants
      <3>1. modelProfile \in Profiles
        BY <1>t DEF BeginIssue, ProfileCandidate, ProfileUsable, LaunchTypeOK
      <3>2. QED
        BY <3>1 DEF GrantFor, Grants
    <2>2. [at |-> "candidate", request |-> q, grant |-> GrantFor(q)] \in Issue
      BY <2>1 DEF Issue
    <2>3. QED
      BY <2>2 DEF BeginIssue
  <1>2. harnessSynced' \subseteq Grants
    BY <1>t DEF BeginIssue, LaunchTypeOK
  <1>3. LaunchTypeOK'
    BY <1>t, <1>1, <1>2 DEF BeginIssue, LaunchTypeOK, hostTime
  <1>4. MotesInv'
    BY <1>t, MotesStill DEF BeginIssue
  <1>5. View' = View
    BY ViewStill DEF BeginIssue
  <1>6. Noticing'
    BY <1>t, <1>5 DEF BeginIssue, Noticing
  <1>7. Tombstones'
    BY <1>t DEF BeginIssue, Tombstones
  <1>8. QED
    BY <1>3, <1>4, <1>6, <1>7 DEF LaunchInv

(* The candidate is checked against a trusted mote. *)
LEMMA CheckIssueKeeps ==
    ASSUME LaunchInv, CheckIssue
    PROVE  LaunchInv'
  <1>t. MotesInv /\ LaunchTypeOK /\ Noticing /\ Tombstones
    BY DEF LaunchInv
  <1>1. issuer' \in Issue \cup {Unoccupied}
    <2>1. issuer \in Issue
      BY <1>t DEF CheckIssue, LaunchTypeOK, Unoccupied
    <2>2. QED
      BY <2>1 DEF CheckIssue, Issues, Issue
  <1>2. harnessSynced' \subseteq Grants
    BY <1>t DEF CheckIssue, LaunchTypeOK
  <1>3. LaunchTypeOK'
    BY <1>t, <1>1, <1>2 DEF CheckIssue, LaunchTypeOK, hostTime
  <1>4. MotesInv'
    BY <1>t, MotesStill DEF CheckIssue
  <1>5. View' = View
    BY ViewStill DEF CheckIssue
  <1>6. Noticing'
    BY <1>t, <1>5 DEF CheckIssue, Noticing
  <1>7. Tombstones'
    BY <1>t DEF CheckIssue, Tombstones
  <1>8. QED
    BY <1>3, <1>4, <1>6, <1>7 DEF LaunchInv

(* The grants are synced. *)
LEMMA SyncGrantKeeps ==
    ASSUME LaunchInv, SyncGrant
    PROVE  LaunchInv'
  <1>t. MotesInv /\ LaunchTypeOK /\ Noticing /\ Tombstones
    BY DEF LaunchInv
  <1>1. issuer' \in Issue \cup {Unoccupied}
    BY DEF SyncGrant
  <1>2. harnessSynced' \subseteq Grants
    BY <1>t DEF SyncGrant, LaunchTypeOK
  <1>3. LaunchTypeOK'
    BY <1>t, <1>1, <1>2 DEF SyncGrant, LaunchTypeOK, hostTime
  <1>4. MotesInv'
    BY <1>t, MotesStill DEF SyncGrant
  <1>5. View' = View
    BY ViewStill DEF SyncGrant
  <1>6. Noticing'
    BY <1>t, <1>5 DEF SyncGrant, Noticing
  <1>7. Tombstones'
    BY <1>t DEF SyncGrant, Tombstones
  <1>8. QED
    BY <1>3, <1>4, <1>6, <1>7 DEF LaunchInv

(* The issue fails. *)
LEMMA IssueFailsKeeps ==
    ASSUME LaunchInv, IssueFails
    PROVE  LaunchInv'
  <1>t. MotesInv /\ LaunchTypeOK /\ Noticing /\ Tombstones
    BY DEF LaunchInv
  <1>1. issuer' \in Issue \cup {Unoccupied}
    BY DEF IssueFails
  <1>2. harnessSynced' \subseteq Grants
    BY <1>t DEF IssueFails, LaunchTypeOK
  <1>3. LaunchTypeOK'
    BY <1>t, <1>1, <1>2 DEF IssueFails, LaunchTypeOK, hostTime
  <1>4. MotesInv'
    BY <1>t, MotesStill DEF IssueFails
  <1>5. View' = View
    BY ViewStill DEF IssueFails
  <1>6. Noticing'
    BY <1>t, <1>5 DEF IssueFails, Noticing
  <1>7. Tombstones'
    BY <1>t DEF IssueFails, Tombstones
  <1>8. QED
    BY <1>3, <1>4, <1>6, <1>7 DEF LaunchInv

(* A grant is published, and the launches may see it. *)
LEMMA PublishGrantKeeps ==
    ASSUME LaunchInv, PublishGrant
    PROVE  LaunchInv'
  <1>t. MotesInv /\ LaunchTypeOK /\ Noticing /\ Tombstones
    BY DEF LaunchInv
  <1>0. issuer \in Issue
    BY <1>t DEF PublishGrant, LaunchTypeOK, Unoccupied
  <1>1. issuer' \in Issue
    BY <1>0 DEF PublishGrant, Issues, Issue
  <1>2. harnessGrants' \subseteq Grants
    BY <1>t, <1>0 DEF PublishGrant, LaunchTypeOK, Issue
  <1>3. Noticing' /\ launcher' \in [Launchers -> Launch \cup {Unoccupied}]
    BY <1>t, NoticingNoted DEF PublishGrant
  <1>4. LaunchTypeOK'
    BY <1>t, <1>1, <1>2, <1>3 DEF PublishGrant, LaunchTypeOK, hostTime
  <1>5. MotesInv'
    BY <1>t, MotesStill DEF PublishGrant
  <1>6. Tombstones'
    BY <1>t, TombstonesNoted DEF PublishGrant
  <1>7. QED
    BY <1>3, <1>4, <1>5, <1>6 DEF LaunchInv

(* A launch is prepared. *)
LEMMA PrepareDeclaredKeeps ==
    ASSUME LaunchInv, NEW l \in Launchers, PrepareDeclared(l)
    PROVE  LaunchInv'
  <1>t. MotesInv /\ LaunchTypeOK /\ Noticing /\ Tombstones
    BY DEF LaunchInv
  <1>1. PICK q \in Tasks, g \in harnessGrants \cup {NoGrant} :
           launcher' = [launcher EXCEPT ![l] = [at |-> "booting", request |-> q, grant |-> g, seen |-> {}]]
    BY DEF PrepareDeclared
  <1>2. PICK x : x = [at |-> "booting", request |-> q, grant |-> g, seen |-> {}]
    OBVIOUS
  <1>3. g \in Grants
    BY <1>t DEF LaunchTypeOK, Grants
  <1>4. x \in Launch /\ x.at = "booting"
    BY <1>2, <1>3 DEF Launch
  <1>5. launcher' = [launcher EXCEPT ![l] = x]
    BY <1>1, <1>2
  <1>6. Flown(x, View)
    BY <1>4 DEF Flown, Rechecking, Forked
  <1>7. Tombstones'
    BY <1>t, <1>4, <1>5, TombstonesStay DEF PrepareDeclared, LaunchTypeOK
  <1>8. QED
    BY <1>t, <1>4, <1>5, <1>6, <1>7, LauncherStep DEF PrepareDeclared, LaunchTypeOK

(* The substrate is there, and what is allowed now is noted. *)
LEMMA SubstrateReadyKeeps ==
    ASSUME LaunchInv, NEW l \in Launchers, SubstrateReady(l)
    PROVE  LaunchInv'
  <1>t. MotesInv /\ LaunchTypeOK /\ Noticing /\ Tombstones
    BY DEF LaunchInv
  <1>1. launcher[l] \in Launch
    BY <1>t, LaunchShape DEF SubstrateReady
  <1>2. PICK s : s = AllowedBy(launcher[l].request, launcher[l].grant, View)
    OBVIOUS
  <1>3. s \subseteq Permissions
    BY <1>2 DEF AllowedBy
  <1>4. PICK x : x = [launcher[l] EXCEPT !.at = "ready", !.seen = s]
    OBVIOUS
  <1>5. /\ x \in Launch /\ x.at = "ready" /\ x.request = launcher[l].request
        /\ x.grant = launcher[l].grant /\ x.seen = s
    BY <1>1, <1>3, <1>4 DEF Launch
  <1>6. launcher' = [launcher EXCEPT ![l] = x]
    BY <1>t, <1>2, <1>4 DEF SubstrateReady, LaunchTypeOK
  <1>7. Flown(x, View)
    BY <1>2, <1>5 DEF Flown, Rechecking, Forked
  <1>8. Tombstones'
    BY <1>t, <1>5, <1>6, TombstonesStay DEF SubstrateReady, LaunchTypeOK
  <1>9. QED
    BY <1>t, <1>5, <1>6, <1>7, <1>8, LauncherStep DEF SubstrateReady, LaunchTypeOK

(* The mote is on the list. *)
LEMMA AuthorizeKeeps ==
    ASSUME LaunchInv, NEW l \in Launchers, Authorize(l)
    PROVE  LaunchInv'
  <1>t. MotesInv /\ LaunchTypeOK /\ Noticing /\ Tombstones
    BY DEF LaunchInv
  <1>1. launcher[l] \in Launch /\ launcher[l].at = "ready" /\ Flown(launcher[l], View)
    BY <1>t, LaunchShape DEF Authorize, Noticing
  <1>2. PICK x : x = [launcher[l] EXCEPT !.at = "authorized"]
    OBVIOUS
  <1>3. /\ x \in Launch /\ x.at = "authorized" /\ x.request = launcher[l].request
        /\ x.grant = launcher[l].grant /\ x.seen = launcher[l].seen
    BY <1>1, <1>2 DEF Launch
  <1>4. launcher' = [launcher EXCEPT ![l] = x]
    BY <1>t, <1>2 DEF Authorize, Launching, LaunchTypeOK
  <1>5. Flown(x, View)
    <2>1. "mote" \in AllowedBy(launcher[l].request, launcher[l].grant, View)
      BY MoteAllowed DEF Authorize
    <2>2. QED
      BY <1>1, <1>3, <2>1 DEF Flown, Rechecking, Forked
  <1>6. Tombstones'
    BY <1>t, <1>3, <1>4, TombstonesStay DEF Authorize, LaunchTypeOK
  <1>9. QED
    BY <1>t, <1>3, <1>4, <1>5, <1>6, LauncherStep DEF Authorize, LaunchTypeOK

(* The closure verifies. *)
LEMMA ResolveClosureKeeps ==
    ASSUME LaunchInv, NEW l \in Launchers, ResolveClosure(l)
    PROVE  LaunchInv'
  <1>t. MotesInv /\ LaunchTypeOK /\ Noticing /\ Tombstones
    BY DEF LaunchInv
  <1>1. launcher[l] \in Launch /\ launcher[l].at = "authorized" /\ Flown(launcher[l], View)
    BY <1>t, LaunchShape DEF ResolveClosure, Noticing
  <1>2. PICK x : x = [launcher[l] EXCEPT !.at = "verified"]
    OBVIOUS
  <1>3. /\ x \in Launch /\ x.at = "verified" /\ x.request = launcher[l].request
        /\ x.grant = launcher[l].grant /\ x.seen = launcher[l].seen
    BY <1>1, <1>2 DEF Launch
  <1>4. launcher' = [launcher EXCEPT ![l] = x]
    BY <1>t, <1>2 DEF ResolveClosure, Launching, LaunchTypeOK
  <1>5. Flown(x, View)
    <2>1. "closure" \in AllowedBy(launcher[l].request, launcher[l].grant, View)
      BY ClosureAllowed DEF ResolveClosure
    <2>2. QED
      BY <1>1, <1>3, <2>1 DEF Flown, Rechecking, Forked
  <1>6. Tombstones'
    BY <1>t, <1>3, <1>4, TombstonesStay DEF ResolveClosure, LaunchTypeOK
  <1>9. QED
    BY <1>t, <1>3, <1>4, <1>5, <1>6, LauncherStep DEF ResolveClosure, LaunchTypeOK

(* The tombstone is made. *)
LEMMA ClaimAttemptKeeps ==
    ASSUME LaunchInv, NEW l \in Launchers, ClaimAttempt(l)
    PROVE  LaunchInv'
  <1>t. MotesInv /\ LaunchTypeOK /\ Noticing /\ Tombstones
    BY DEF LaunchInv
  <1>1. launcher[l] \in Launch /\ launcher[l].at = "forked" /\ Flown(launcher[l], View)
    BY <1>t, LaunchShape DEF ClaimAttempt, Noticing
  <1>2. PICK x : x = [launcher[l] EXCEPT !.at = "claiming"]
    OBVIOUS
  <1>3. /\ x \in Launch /\ x.at = "claiming" /\ x.request = launcher[l].request
        /\ x.grant = launcher[l].grant /\ x.seen = launcher[l].seen
    BY <1>1, <1>2 DEF Launch
  <1>4. launcher' = [launcher EXCEPT ![l] = x]
    BY <1>t, <1>2 DEF ClaimAttempt, Launching, LaunchTypeOK
  <1>5. Flown(x, View)
    BY <1>1, <1>3 DEF Flown, Rechecking, Forked
  <1>7. PICK c \in Attempts : c = launcher[l].request.attempt
    BY <1>t, <1>1, LaunchShape
  <1>8. attempts[c] = "none" /\ attempts' = [attempts EXCEPT ![c] = "made"] /\ UNCHANGED ran
    BY <1>7 DEF ClaimAttempt
  <1>6. Tombstones'
    <2>1. ran[c] = 0 /\ \A k \in Launchers : ~Owns(launcher[k], c)
      BY <1>t, <1>8 DEF Tombstones
    <2>2. launcher'[l] = x /\ \A k \in Launchers \ {l} : launcher'[k] = launcher[k]
      BY <1>t, <1>4 DEF LaunchTypeOK
    <2>3. x.request.harness
      BY <1>t, <1>1, <1>3 DEF Tombstones
    <2>4. \A a \in Attempts : Owns(x, a) => a = c
      BY <1>3, <1>7 DEF Owns
    <2>5. attempts'[c] = "made" /\ \A a \in Attempts \ {c} : attempts'[a] = attempts[a]
      BY <1>t, <1>8 DEF LaunchTypeOK
    <2>6. \A a \in Attempts : ran'[a] \in {0, 1} /\ (ran'[a] = 1 => attempts'[a] = "synced")
      BY <1>t, <1>8, <2>1, <2>5 DEF Tombstones
    <2>7. \A k \in Launchers : launcher'[k].at \in {"forked", "claiming"} => launcher'[k].request.harness
      BY <1>t, <2>2, <2>3 DEF Tombstones
    <2>8. ASSUME NEW k \in Launchers, NEW a \in Attempts, Owns(launcher'[k], a)
          PROVE  /\ ran'[a] = 0 /\ attempts'[a] # "none"
                 /\ launcher'[k].at = "claimed" => attempts'[a] = "synced"
      <3>1. CASE k = l
        BY <1>3, <1>8, <2>1, <2>2, <2>4, <2>5, <2>8, <3>1
      <3>2. CASE k # l
        BY <1>t, <1>8, <2>1, <2>2, <2>5, <2>8, <3>2 DEF Tombstones
      <3>3. QED
        BY <3>1, <3>2
    <2>9. ASSUME NEW k \in Launchers, NEW j \in Launchers, NEW a \in Attempts,
                 Owns(launcher'[k], a), Owns(launcher'[j], a)
          PROVE  k = j
      BY <1>t, <2>1, <2>2, <2>4, <2>9 DEF Tombstones
    <2>10. QED
      BY <2>6, <2>7, <2>8, <2>9 DEF Tombstones
  <1>x. attempts' \in [Attempts -> {"none", "made", "synced"}]
    BY <1>t, <1>8 DEF LaunchTypeOK
  <1>9. QED
    BY <1>t, <1>3, <1>4, <1>5, <1>6, <1>8, <1>x, LauncherStep DEF ClaimAttempt, LaunchTypeOK

(* The tombstone is durable. *)
LEMMA SyncAttemptKeeps ==
    ASSUME LaunchInv, NEW l \in Launchers, SyncAttempt(l)
    PROVE  LaunchInv'
  <1>t. MotesInv /\ LaunchTypeOK /\ Noticing /\ Tombstones
    BY DEF LaunchInv
  <1>1. launcher[l] \in Launch /\ launcher[l].at = "claiming" /\ Flown(launcher[l], View)
    BY <1>t, LaunchShape DEF SyncAttempt, Noticing
  <1>2. PICK x : x = [launcher[l] EXCEPT !.at = "claimed"]
    OBVIOUS
  <1>3. /\ x \in Launch /\ x.at = "claimed" /\ x.request = launcher[l].request
        /\ x.grant = launcher[l].grant /\ x.seen = launcher[l].seen
    BY <1>1, <1>2 DEF Launch
  <1>4. launcher' = [launcher EXCEPT ![l] = x]
    BY <1>t, <1>2 DEF SyncAttempt, Launching, LaunchTypeOK
  <1>5. Flown(x, View)
    BY <1>1, <1>3 DEF Flown, Rechecking, Forked
  <1>7. PICK c \in Attempts : c = launcher[l].request.attempt
    BY <1>t, <1>1, LaunchShape
  <1>8. attempts' = [attempts EXCEPT ![c] = "synced"] /\ UNCHANGED ran
    BY <1>7 DEF SyncAttempt
  <1>6. Tombstones'
    <2>1. launcher'[l] = x /\ \A k \in Launchers \ {l} : launcher'[k] = launcher[k]
      BY <1>t, <1>4 DEF LaunchTypeOK
    <2>2. Owns(launcher[l], c)
      BY <1>t, <1>1, <1>7 DEF Tombstones, Owns
    <2>3. \A k \in Launchers, a \in Attempts : Owns(launcher'[k], a) => Owns(launcher[k], a)
      BY <1>t, <1>1, <1>3, <2>1 DEF Owns, Tombstones
    <2>4. attempts'[c] = "synced" /\ \A a \in Attempts \ {c} : attempts'[a] = attempts[a]
      BY <1>t, <1>8 DEF LaunchTypeOK
    <2>5. \A a \in Attempts : ran'[a] \in {0, 1} /\ (ran'[a] = 1 => attempts'[a] = "synced")
      BY <1>t, <1>8, <2>4 DEF Tombstones
    <2>6. \A k \in Launchers : launcher'[k].at \in {"forked", "claiming"} => launcher'[k].request.harness
      BY <1>t, <1>3, <2>1 DEF Tombstones
    <2>7. ASSUME NEW k \in Launchers, NEW a \in Attempts, Owns(launcher'[k], a)
          PROVE  /\ ran'[a] = 0 /\ attempts'[a] # "none"
                 /\ launcher'[k].at = "claimed" => attempts'[a] = "synced"
      <3>1. Owns(launcher[k], a)
        BY <2>3, <2>7
      <3>2. ran[a] = 0 /\ attempts[a] # "none" /\ (launcher[k].at = "claimed" => attempts[a] = "synced")
        BY <1>t, <3>1 DEF Tombstones
      <3>3. CASE a = c
        BY <1>8, <2>4, <3>2, <3>3
      <3>4. CASE a # c
        <4>1. k # l
          BY <1>7, <3>1, <3>4 DEF Owns
        <4>2. QED
          BY <1>8, <2>1, <2>4, <3>2, <3>4, <4>1
      <3>5. QED
        BY <3>3, <3>4
    <2>8. \A k, j \in Launchers, a \in Attempts : Owns(launcher'[k], a) /\ Owns(launcher'[j], a) => k = j
      BY <1>t, <2>3 DEF Tombstones
    <2>9. QED
      BY <2>5, <2>6, <2>7, <2>8 DEF Tombstones
  <1>x. attempts' \in [Attempts -> {"none", "made", "synced"}]
    BY <1>t, <1>8 DEF LaunchTypeOK
  <1>9. QED
    BY <1>t, <1>3, <1>4, <1>5, <1>6, <1>8, <1>x, LauncherStep DEF SyncAttempt, LaunchTypeOK

(* The cell runs. *)
LEMMA RunDeclaredKeeps ==
    ASSUME LaunchInv, NEW l \in Launchers, RunDeclared(l)
    PROVE  LaunchInv'
  <1>t. MotesInv /\ LaunchTypeOK /\ Noticing /\ Tombstones
    BY DEF LaunchInv
  <1>1. launcher[l] \in Launch /\ launcher[l].at = "claimed" /\ Flown(launcher[l], View)
    BY <1>t, LaunchShape DEF RunDeclared, Noticing
  <1>2. PICK x : x = [launcher[l] EXCEPT !.at = "running"]
    OBVIOUS
  <1>3. /\ x \in Launch /\ x.at = "running" /\ x.request = launcher[l].request
        /\ x.grant = launcher[l].grant /\ x.seen = launcher[l].seen
    BY <1>1, <1>2 DEF Launch
  <1>4. launcher' = [launcher EXCEPT ![l] = x]
    BY <1>t, <1>2 DEF RunDeclared, Launching, LaunchTypeOK
  <1>5. Flown(x, View)
    BY <1>1, <1>3 DEF Flown, Rechecking, Forked
  <1>7. PICK c \in Attempts : c = launcher[l].request.attempt
    BY <1>t, <1>1, LaunchShape
  <1>8. launcher'[l] = x /\ \A k \in Launchers \ {l} : launcher'[k] = launcher[k]
    BY <1>t, <1>4 DEF LaunchTypeOK
  <1>6. Tombstones' /\ ran' \in [Attempts -> Nat]
    <2>1. CASE ~launcher[l].request.harness
      <3>1. UNCHANGED <<attempts, ran>>
        BY <2>1 DEF RunDeclared
      <3>2. QED
        BY <1>t, <1>3, <1>8, <3>1, TombstonesStay DEF LaunchTypeOK
    <2>2. CASE launcher[l].request.harness
      <3>1. Owns(launcher[l], c)
        BY <1>1, <1>7, <2>2 DEF Owns
      <3>2. ran[c] = 0 /\ attempts[c] = "synced"
        BY <1>t, <1>1, <3>1 DEF Tombstones
      <3>3. ran' = [ran EXCEPT ![c] = 1] /\ UNCHANGED attempts
        BY <1>t, <1>7, <2>2, <3>2 DEF RunDeclared, LaunchTypeOK
      <3>4. ran' \in [Attempts -> Nat] /\ ran'[c] = 1 /\ \A a \in Attempts \ {c} : ran'[a] = ran[a]
        BY <1>t, <3>3 DEF LaunchTypeOK
      <3>5. \A k \in Launchers, a \in Attempts : Owns(launcher'[k], a) =>
               k # l /\ Owns(launcher[k], a) /\ launcher'[k] = launcher[k]
        BY <1>3, <1>8 DEF Owns
      <3>6. \A k \in Launchers, a \in Attempts : Owns(launcher'[k], a) => a # c
        BY <1>t, <3>1, <3>5 DEF Tombstones
      <3>7. \A a \in Attempts : ran'[a] \in {0, 1} /\ (ran'[a] = 1 => attempts'[a] = "synced")
        BY <1>t, <3>2, <3>3, <3>4 DEF Tombstones
      <3>8. \A k \in Launchers : launcher'[k].at \in {"forked", "claiming"} => launcher'[k].request.harness
        BY <1>t, <1>3, <1>8 DEF Tombstones
      <3>9. \A k \in Launchers, a \in Attempts : Owns(launcher'[k], a) =>
               /\ ran'[a] = 0 /\ attempts'[a] # "none"
               /\ launcher'[k].at = "claimed" => attempts'[a] = "synced"
        BY <1>t, <3>3, <3>4, <3>5, <3>6 DEF Tombstones
      <3>10. \A k, j \in Launchers, a \in Attempts : Owns(launcher'[k], a) /\ Owns(launcher'[j], a) => k = j
        BY <1>t, <3>5 DEF Tombstones
      <3>11. QED
        BY <3>4, <3>7, <3>8, <3>9, <3>10 DEF Tombstones
    <2>3. QED
      BY <2>1, <2>2
  <1>9. QED
    BY <1>t, <1>3, <1>4, <1>5, <1>6, LauncherStep DEF RunDeclared, LaunchTypeOK

(* The grant resolves again, and the cell is forked. *)
LEMMA ResolveHarnessKeeps ==
    ASSUME LaunchInv, NEW l \in Launchers, ResolveHarness(l)
    PROVE  LaunchInv'
  <1>t. MotesInv /\ LaunchTypeOK /\ Noticing /\ Tombstones
    BY DEF LaunchInv
  <1>1. launcher[l] \in Launch /\ launcher[l].at = "verified" /\ Flown(launcher[l], View)
    BY <1>t, LaunchShape DEF ResolveHarness, Noticing
  <1>2. PICK point \in {"forked", "claimed"} :
           /\ Launching(l, point)
           /\ point = IF launcher[l].request.harness THEN "forked" ELSE "claimed"
    BY DEF ResolveHarness
  <1>3. PICK x : x = [launcher[l] EXCEPT !.at = point]
    OBVIOUS
  <1>4. /\ x \in Launch /\ x.at = point /\ x.request = launcher[l].request
        /\ x.grant = launcher[l].grant /\ x.seen = launcher[l].seen
    BY <1>1, <1>2, <1>3 DEF Launch
  <1>5. launcher' = [launcher EXCEPT ![l] = x]
    BY <1>t, <1>2, <1>3 DEF Launching, LaunchTypeOK
  <1>6. Flown(x, View)
    <2>1. "grant" \in AllowedBy(launcher[l].request, launcher[l].grant, View)
      BY GrantAllowed DEF ResolveHarness
    <2>2. QED
      BY <1>1, <1>2, <1>4, <2>1 DEF Flown, Rechecking, Forked
  <1>7. launcher'[l] = x /\ \A k \in Launchers \ {l} : launcher'[k] = launcher[k]
    BY <1>t, <1>5 DEF LaunchTypeOK
  <1>8. Tombstones'
    <2>1. \A a : ~Owns(x, a)
      BY <1>2, <1>4 DEF Owns
    <2>2. \A k \in Launchers, a \in Attempts : Owns(launcher'[k], a) => Owns(launcher[k], a) /\ launcher'[k] = launcher[k]
      BY <1>7, <2>1
    <2>3. \A k \in Launchers : launcher'[k].at \in {"forked", "claiming"} => launcher'[k].request.harness
      BY <1>t, <1>2, <1>4, <1>7 DEF Tombstones
    <2>4. UNCHANGED <<attempts, ran>>
      BY DEF ResolveHarness
    <2>5. QED
      BY <1>t, <2>2, <2>3, <2>4 DEF Tombstones
  <1>9. QED
    BY <1>t, <1>4, <1>5, <1>6, <1>8, LauncherStep DEF ResolveHarness, LaunchTypeOK

(* A launch ends. *)
LEMMA EndLaunchKeeps ==
    ASSUME LaunchInv, NEW l \in Launchers, EndLaunch(l)
    PROVE  LaunchInv'
  <1>t. MotesInv /\ LaunchTypeOK /\ Noticing /\ Tombstones
    BY DEF LaunchInv
  <1>1. launcher' = [launcher EXCEPT ![l] = Unoccupied]
    BY DEF EndLaunch
  <1>2. Flown(Unoccupied, View)
    BY DEF Flown, Unoccupied, Rechecking, Forked
  <1>3. Tombstones'
    BY <1>t, <1>1, TombstonesStay DEF EndLaunch, LaunchTypeOK, Unoccupied
  <1>4. QED
    BY <1>t, <1>1, <1>2, <1>3, LauncherStep DEF EndLaunch, LaunchTypeOK

(* The operator edits the model profile. *)
LEMMA EditProfileKeeps ==
    ASSUME LaunchInv, EditProfile
    PROVE  LaunchInv'
  <1>t. MotesInv /\ LaunchTypeOK /\ Noticing /\ Tombstones
    BY DEF LaunchInv
  <1>1. Noticing' /\ launcher' \in [Launchers -> Launch \cup {Unoccupied}]
    BY <1>t, NoticingNoted DEF EditProfile
  <1>3. LaunchTypeOK'
    BY <1>t, <1>1 DEF EditProfile, LaunchTypeOK, hostTime
  <1>4. MotesInv'
    BY <1>t, MotesStill DEF EditProfile
  <1>5. Tombstones'
    BY <1>t, TombstonesNoted DEF EditProfile
  <1>6. QED
    BY <1>1, <1>3, <1>4, <1>5 DEF LaunchInv

(* A grant is written, or taken away, by hand. *)
LEMMA EditGrantsKeeps ==
    ASSUME LaunchInv, EditGrants
    PROVE  LaunchInv'
  <1>t. MotesInv /\ LaunchTypeOK /\ Noticing /\ Tombstones
    BY DEF LaunchInv
  <1>1. Noticing' /\ launcher' \in [Launchers -> Launch \cup {Unoccupied}]
    BY <1>t, NoticingNoted DEF EditGrants
  <1>2. harnessGrants' \subseteq Grants
    <2>1. CASE \E q \in Tasks :
                  harnessGrants' = harnessGrants \cup {[request |-> [mote |-> q.mote], policy |-> NoProfile]}
      <3>1. PICK q \in Tasks :
               harnessGrants' = harnessGrants \cup {[request |-> [mote |-> q.mote], policy |-> NoProfile]}
        BY <2>1
      <3>2. [request |-> [mote |-> q.mote], policy |-> NoProfile] \in Grants
        BY DEF Grants
      <3>3. QED
        BY <1>t, <3>1, <3>2 DEF LaunchTypeOK
    <2>2. CASE \E g \in harnessGrants : harnessGrants' = harnessGrants \ {g}
      BY <1>t, <2>2 DEF LaunchTypeOK
    <2>3. QED
      BY <2>1, <2>2 DEF EditGrants
  <1>3. LaunchTypeOK'
    BY <1>t, <1>1, <1>2 DEF EditGrants, LaunchTypeOK, hostTime
  <1>4. MotesInv'
    BY <1>t, MotesStill DEF EditGrants
  <1>5. Tombstones'
    BY <1>t, TombstonesNoted DEF EditGrants
  <1>6. QED
    BY <1>1, <1>3, <1>4, <1>5 DEF LaunchInv

(* The operator edits the policies, or withdraws a mote. *)
LEMMA EditHostPolicyKeeps ==
    ASSUME LaunchInv, EditHostPolicy
    PROVE  LaunchInv'
  <1>t. MotesInv /\ LaunchTypeOK /\ Noticing /\ Tombstones
    BY DEF LaunchInv
  <1>1. Noticing' /\ launcher' \in [Launchers -> Launch \cup {Unoccupied}]
    BY <1>t, NoticingNoted DEF EditHostPolicy
  <1>3. LaunchTypeOK'
    BY <1>t, <1>1 DEF EditHostPolicy, LaunchTypeOK, hostTime
  <1>4. MotesInv'
    BY <1>t, EditPolicyKeeps, RevokeLocallyKeeps, WithdrawMoteKeeps DEF EditHostPolicy
  <1>5. Tombstones'
    BY <1>t, TombstonesNoted DEF EditHostPolicy
  <1>6. QED
    BY <1>1, <1>3, <1>4, <1>5 DEF LaunchInv

(* Time passes. *)
LEMMA ClockAdvancesKeeps ==
    ASSUME LaunchInv, ClockAdvances
    PROVE  LaunchInv'
  <1>t. MotesInv /\ LaunchTypeOK /\ Noticing /\ Tombstones
    BY DEF LaunchInv
  <1>1. Noticing' /\ launcher' \in [Launchers -> Launch \cup {Unoccupied}]
    BY <1>t, NoticingNoted DEF ClockAdvances
  <1>3. LaunchTypeOK'
    BY <1>t, <1>1, DeclaredAssumption DEF ClockAdvances, LaunchTypeOK
  <1>4. MotesInv'
    BY <1>t, MotesStill DEF ClockAdvances
  <1>5. Tombstones'
    BY <1>t, TombstonesNoted DEF ClockAdvances
  <1>6. QED
    BY <1>1, <1>3, <1>4, <1>5 DEF LaunchInv

(* A power loss: no thread launches, and a durable tombstone stays. *)
LEMMA HostRestartsKeeps ==
    ASSUME LaunchInv, HostRestarts
    PROVE  LaunchInv'
  <1>t. MotesInv /\ LaunchTypeOK /\ Noticing /\ Tombstones
    BY DEF LaunchInv
  <1>1. attempts' \in [Attempts -> {"none", "made", "synced"}]
    BY <1>t DEF HostRestarts, LaunchTypeOK
  <1>2. LaunchTypeOK'
    BY <1>t, <1>1, DeclaredAssumption DEF HostRestarts, LaunchTypeOK
  <1>3. MotesInv'
    BY <1>t, LosePowerKeeps DEF HostRestarts
  <1>4. \A l \in Launchers : launcher'[l] = Unoccupied
    BY DEF HostRestarts
  <1>5. Noticing'
    BY <1>4 DEF Noticing, Flown, Unoccupied, Rechecking, Forked
  <1>6. \A a \in Attempts : attempts[a] = "synced" => attempts'[a] = "synced"
    BY <1>t DEF HostRestarts, LaunchTypeOK
  <1>7. Tombstones'
    BY <1>t, <1>4, <1>6 DEF HostRestarts, Tombstones, Owns, Unoccupied
  <1>8. QED
    BY <1>2, <1>3, <1>5, <1>7 DEF LaunchInv

(* Every step keeps the invariant. *)
LEMMA LaunchesStep == LaunchInv /\ [DeclaredNext]_declaredVars => LaunchInv'
  <1> SUFFICES ASSUME LaunchInv, [DeclaredNext]_declaredVars PROVE LaunchInv'
    OBVIOUS
  <1>1. ASSUME NEW l \in Launchers,
               \/ PrepareDeclared(l) \/ SubstrateReady(l) \/ Authorize(l) \/ ResolveClosure(l)
               \/ ResolveHarness(l) \/ ClaimAttempt(l) \/ SyncAttempt(l) \/ RunDeclared(l)
               \/ EndLaunch(l)
        PROVE  LaunchInv'
    BY <1>1, PrepareDeclaredKeeps, SubstrateReadyKeeps, AuthorizeKeeps, ResolveClosureKeeps,
       ResolveHarnessKeeps, ClaimAttemptKeeps, SyncAttemptKeeps, RunDeclaredKeeps, EndLaunchKeeps
  <1>2. CASE \E q \in Tasks : BeginIssue(q)
    BY <1>2, BeginIssueKeeps
  <1>3. CASE UNCHANGED declaredVars
    <2>1. MotesInv'
      BY <1>3, MotesStill DEF LaunchInv, declaredVars
    <2>2. LaunchTypeOK' /\ Tombstones'
      BY <1>3 DEF LaunchInv, declaredVars, launchVars, hostTime, LaunchTypeOK, Tombstones
    <2>3. Noticing'
      BY <1>3, ViewStill DEF LaunchInv, declaredVars, launchVars, Noticing
    <2>4. QED
      BY <2>1, <2>2, <2>3 DEF LaunchInv
  <1>4. QED
    BY <1>1, <1>2, <1>3, CheckIssueKeeps, PublishGrantKeeps, SyncGrantKeeps, IssueFailsKeeps,
       EditProfileKeeps, EditGrantsKeeps, EditHostPolicyKeeps, ClockAdvancesKeeps, HostRestartsKeeps
       DEF DeclaredNext

(* The inductive invariant holds of every behaviour of the launches. *)
THEOREM LaunchInvariant == DeclaredSpec => []LaunchInv
  <1>1. QED
    BY LaunchInitial, LaunchesStep, PTL DEF DeclaredSpec

(* The grants, the tombstones and every launch have their types. *)
THEOREM LaunchTyped == DeclaredSpec => []LaunchTypeOK
  <1>1. LaunchInv => LaunchTypeOK
    BY DEF LaunchInv
  <1>2. QED
    BY <1>1, LaunchInvariant, PTL

(* A cell runs only if each of what allows it still did after its substrate *)
(* was there, and the cell of one attempt runs once, over failures and      *)
(* power losses (launch_declared, harness::claim).                          *)
THEOREM LaunchesAuthorised == DeclaredSpec => []LaunchAuthorised
  <1>1. ASSUME LaunchInv PROVE LaunchAuthorised
    <2>t. LaunchTypeOK /\ Noticing /\ Tombstones
      BY <1>1 DEF LaunchInv
    <2>1. ASSUME NEW l \in Launchers, launcher[l].at = "running"
          PROVE  launcher[l].seen = Permissions
      <3>1. launcher[l].seen \subseteq Permissions
        BY <2>t, <2>1, LaunchShape DEF Launch
      <3>2. {"mote", "closure", "grant"} \subseteq launcher[l].seen
        BY <2>t, <2>1 DEF Noticing, Flown, Forked
      <3>3. QED
        BY <3>1, <3>2 DEF Permissions
    <2>2. \A a \in Attempts : ran[a] <= 1
      BY <2>t DEF Tombstones
    <2>3. QED
      BY <2>1, <2>2 DEF LaunchAuthorised
  <1>2. QED
    BY <1>1, LaunchInvariant, PTL

(* What the operator does while motes are launched, and power losses, leave *)
(* every trusted mote backed.                                               *)
THEOREM LaunchesBacked == DeclaredSpec => []AuthorityBacked
  <1>1. LaunchInv => AuthorityBacked
    BY ValidFaithful DEF LaunchInv, MotesInv, TrustBacked, AckKept, Backs, AuthorityBacked
  <1>2. QED
    BY <1>1, LaunchInvariant, PTL

-------------------------------------------------------------------------------
(* The store and the manifest (Assay).                                      *)

(* Every content that a manifest lists has an object among o. *)
Held(m, o) == \A c \in Contents : Lists(m, c) => o[c] # "absent"

(* What is written, and each process's copy, lists stored contents only, and *)
(* a process that is about to list a content has put it.                    *)
Listed ==
    /\ written # Torn => Held(written, object)
    /\ \A p \in Processes : Held(mine[p], object)
    /\ \A p \in Processes :
          At(p, "edit") /\ Cmd(p).op # "revoke" => object[Cmd(p).content] # "absent"

AssayInv == AssayTypeOK /\ Listed

(* A process past its start has a command, and another place for the same   *)
(* command is a place of such a process.                                    *)
LEMMA WorkingShape ==
    ASSUME AssayTypeOK, NEW p \in Processes, ~At(p, "idle")
    PROVE  /\ proc[p] \in Working /\ Cmd(p) \in Commands /\ Cmd(p).content \in Contents
           /\ Cmd(p).alias \in Aliases /\ Cmd(p).interpreter \in BOOLEAN
           /\ Cmd(p).author \in {"Host", "Agent"} /\ Cmd(p).tainted \in BOOLEAN
           /\ \A place \in {"open", "put", "write", "rename", "edit", "persist", "flush", "seal"} :
                 [proc EXCEPT ![p].at = place] \in [Processes -> Working \cup {Idle}]
  <1>1. proc[p] \in Working
    BY DEF AssayTypeOK, At, Idle
  <1>2. Cmd(p) \in Commands
    BY <1>1 DEF Cmd, Working
  <1>3. /\ Cmd(p).content \in Contents
        /\ Cmd(p).alias \in Aliases /\ Cmd(p).interpreter \in BOOLEAN
        /\ Cmd(p).author \in {"Host", "Agent"} /\ Cmd(p).tainted \in BOOLEAN
    BY <1>2 DEF Commands
  <1>4. ASSUME NEW place \in {"open", "put", "write", "rename", "edit", "persist", "flush", "seal"}
        PROVE  [proc EXCEPT ![p].at = place] \in [Processes -> Working \cup {Idle}]
    <2>1. [proc[p] EXCEPT !.at = place] \in Working
      BY <1>1 DEF Working
    <2>2. QED
      BY <2>1 DEF AssayTypeOK
  <1>5. QED
    BY <1>1, <1>2, <1>3, <1>4

(* An entry that a command makes is one of a manifest. *)
LEMMA EntryTyped ==
    ASSUME NEW m \in Manifests, NEW k, k.alias \in Aliases, k.interpreter \in BOOLEAN,
           k.author \in {"Host", "Agent"}, NEW r \in BOOLEAN
    PROVE  EntryOf(m, k, r) \in Entries
  <1>1. EntryOf(m, k, r).interpreter \in BOOLEAN
    BY Zenon DEF EntryOf
  <1>2. EntryOf(m, k, r).tier \in Tiers
    BY DEF EntryOf, Tiers
  <1>3. QED
    BY <1>1, <1>2 DEF EntryOf, Entries

(* Objects are never taken away, so what was stored stays stored. *)
LEMMA HeldStays ==
    ASSUME NEW m, NEW o, NEW n, \A c \in Contents : o[c] # "absent" => n[c] # "absent", Held(m, o)
    PROVE  Held(m, n)
  BY DEF Held

(* Initially every process is idle and the manifest lists nothing. *)
LEMMA AssayInitial == AssayInit => AssayInv
  <1> SUFFICES ASSUME AssayInit PROVE AssayInv
    OBVIOUS
  <1>1. NewManifest \in Manifests
    BY DEF NewManifest, Manifests
  <1>2. AssayTypeOK
    BY <1>1, AssayAssumption DEF AssayInit, AssayTypeOK
  <1>3. Held(NewManifest, object)
    BY DEF Held, NewManifest, Lists
  <1>4. Listed
    BY <1>3 DEF AssayInit, Listed, At, Idle
  <1>5. QED
    BY <1>2, <1>4 DEF AssayInv

(* A command opened the assayer on what is written, or on a new manifest. *)
LEMMA OpenKeeps ==
    ASSUME AssayInv, NEW p \in Processes, Open(p)
    PROVE  AssayInv'
  <1>t. AssayTypeOK /\ Listed
    BY DEF AssayInv
  <1>1. PICK m \in Manifests : mine' = [mine EXCEPT ![p] = m] /\ Held(m, object)
    <2>1. NewManifest \in Manifests /\ Held(NewManifest, object)
      BY DEF NewManifest, Manifests, Held, Lists
    <2>2. CASE written = Torn
      BY <2>1, <2>2 DEF Open
    <2>3. CASE written # Torn
      BY <1>t, <2>3 DEF Open, AssayTypeOK, Listed
    <2>4. QED
      BY <2>2, <2>3
  <1>2. PICK place \in {"edit", "seal", "put"} :
           Goto(p, place) /\ (place = "edit" => Cmd(p).op = "revoke")
    BY Zenon DEF Open
  <1>3. proc' \in [Processes -> Working \cup {Idle}]
    <2>1. ~At(p, "idle")
      BY DEF Open, At
    <2>2. QED
      BY <1>t, <1>2, <2>1, WorkingShape DEF Goto
  <1>4. UNCHANGED <<object, temp, shared, written, fd, barred, cell, revokes, commands>>
    BY DEF Open
  <1>5. AssayTypeOK'
    BY <1>t, <1>1, <1>3, <1>4 DEF AssayTypeOK
  <1>6. ASSUME NEW q \in Processes, At(q, "edit")', Cmd(q)'.op # "revoke"
        PROVE  object'[Cmd(q)'.content] # "absent"
    <2>1. CASE q = p
      BY <1>t, <1>2, <1>6, <2>1, WorkingShape DEF Goto, At, Cmd, Open, AssayTypeOK, Working
    <2>2. CASE q # p
      BY <1>t, <1>2, <1>4, <1>6, <2>2 DEF Goto, At, Cmd, AssayTypeOK, Listed
    <2>3. QED
      BY <2>1, <2>2
  <1>7. \A q \in Processes : Held(mine'[q], object')
    BY <1>t, <1>1, <1>4 DEF AssayTypeOK, Listed
  <1>8. Listed'
    BY <1>t, <1>4, <1>6, <1>7 DEF Listed
  <1>9. QED
    BY <1>5, <1>8 DEF AssayInv

(* Any step that edits no copy of the manifest, writes only such copies,     *)
(* takes no object away, and brings its process to the edit only with the   *)
(* object in place.                                                         *)
LEMMA ListedStays ==
    ASSUME AssayInv, AssayTypeOK', NEW p \in Processes,
           \A c \in Contents : object[c] # "absent" => object'[c] # "absent",
           UNCHANGED mine, written' \in {written, Torn, mine[p]},
           \A q \in Processes \ {p} : proc'[q] = proc[q],
           proc'[p].at = "edit" => object'[proc'[p].command.content] # "absent"
    PROVE  AssayInv'
  <1>t. AssayTypeOK /\ Listed
    BY DEF AssayInv
  <1>1. \A q \in Processes : Held(mine'[q], object')
    BY <1>t, HeldStays DEF Listed
  <1>2. written' # Torn => Held(written', object')
    BY <1>t, HeldStays DEF Listed
  <1>3. ASSUME NEW q \in Processes, At(q, "edit")', Cmd(q)'.op # "revoke"
        PROVE  object'[Cmd(q)'.content] # "absent"
    <2>1. CASE q = p
      BY <1>3, <2>1 DEF At, Cmd
    <2>2. CASE q # p
      <3>1. proc'[q] = proc[q] /\ At(q, "edit") /\ Cmd(q).op # "revoke"
        BY <1>3, <2>2 DEF At, Cmd
      <3>2. object[Cmd(q).content] # "absent" /\ Cmd(q).content \in Contents
        BY <1>t, <3>1, WorkingShape DEF Listed, At
      <3>3. QED
        BY <3>1, <3>2 DEF Cmd
    <2>3. QED
      BY <2>1, <2>2
  <1>4. Listed'
    BY <1>1, <1>2, <1>3 DEF Listed
  <1>5. QED
    BY <1>4 DEF AssayInv

(* A command begins. *)
LEMMA BeginKeeps ==
    ASSUME AssayInv, NEW p \in Processes, NEW command \in Commands, Begin(p, command)
    PROVE  AssayInv'
  <1>t. AssayTypeOK /\ Listed
    BY DEF AssayInv
  <1>1. [at |-> "open", command |-> command] \in Working
    BY DEF Working
  <1>2. proc' \in [Processes -> Working \cup {Idle}]
    BY <1>t, <1>1 DEF Begin, AssayTypeOK
  <1>3. AssayTypeOK'
    <2>1. commands' \in 0..MaxCommands
      BY <1>t, AssayAssumption DEF Begin, AssayTypeOK
    <2>2. QED
      BY <1>t, <1>2, <2>1 DEF Begin, AssayTypeOK
  <1>4. \A c \in Contents : object[c] # "absent" => object'[c] # "absent"
    BY DEF Begin
  <1>5. UNCHANGED mine /\ written' \in {written, Torn, mine[p]}
    BY DEF Begin
  <1>6. \A q \in Processes \ {p} : proc'[q] = proc[q]
    BY <1>t DEF Begin, AssayTypeOK
  <1>7. proc'[p].at = "edit" => object'[proc'[p].command.content] # "absent"
    BY <1>t DEF Begin, AssayTypeOK, Idle, Working
  <1>8. QED
    BY <1>3, <1>4, <1>5, <1>6, <1>7, ListedStays

(* A process is killed. *)
LEMMA KilledKeeps ==
    ASSUME AssayInv, NEW p \in Processes, Killed(p)
    PROVE  AssayInv'
  <1>t. AssayTypeOK /\ Listed
    BY DEF AssayInv
  <1>w. /\ proc[p] \in Working /\ Cmd(p) \in Commands /\ Cmd(p).content \in Contents
        /\ Cmd(p).tainted \in BOOLEAN
    BY <1>t, WorkingShape DEF Killed, At
  <1>2. proc' \in [Processes -> Working \cup {Idle}] /\ fd' \in [Processes -> {"none", "temp", "object", "orphan"}]
    BY <1>t DEF Killed, Ends, AssayTypeOK
  <1>3. AssayTypeOK'
    BY <1>t, <1>2 DEF Killed, AssayTypeOK
  <1>4. \A c \in Contents : object[c] # "absent" => object'[c] # "absent"
    BY DEF Killed
  <1>5. UNCHANGED mine /\ written' \in {written, Torn, mine[p]}
    BY DEF Killed
  <1>6. \A q \in Processes \ {p} : proc'[q] = proc[q]
    BY <1>t DEF Killed, Ends, AssayTypeOK
  <1>7. proc'[p].at = "edit" => object'[proc'[p].command.content] # "absent"
    BY <1>t, <1>w DEF Killed, Ends, AssayTypeOK, Idle, Working
  <1>8. QED
    BY <1>3, <1>4, <1>5, <1>6, <1>7, ListedStays

(* The object is there. *)
LEMMA PutDedupKeeps ==
    ASSUME AssayInv, NEW p \in Processes, PutDedup(p)
    PROVE  AssayInv'
  <1>t. AssayTypeOK /\ Listed
    BY DEF AssayInv
  <1>w. /\ proc[p] \in Working /\ Cmd(p) \in Commands /\ Cmd(p).content \in Contents
        /\ Cmd(p).tainted \in BOOLEAN
    BY <1>t, WorkingShape DEF PutDedup, At
  <1>2. proc' \in [Processes -> Working \cup {Idle}]
    BY <1>t, WorkingShape DEF PutDedup, At, Goto
  <1>3. AssayTypeOK'
    BY <1>t, <1>2 DEF PutDedup, AssayTypeOK
  <1>4. \A c \in Contents : object[c] # "absent" => object'[c] # "absent"
    BY DEF PutDedup
  <1>5. UNCHANGED mine /\ written' \in {written, Torn, mine[p]}
    BY DEF PutDedup
  <1>6. \A q \in Processes \ {p} : proc'[q] = proc[q]
    BY <1>t DEF PutDedup, Goto, AssayTypeOK
  <1>7. proc'[p].at = "edit" => object'[proc'[p].command.content] # "absent"
    <2>1. proc'[p].command = Cmd(p)
      BY <1>t, <1>w DEF PutDedup, Goto, AssayTypeOK, Cmd, Working
    <2>2. object'[Cmd(p).content] # "absent"
      BY <1>t, <1>w DEF PutDedup, AssayTypeOK
    <2>3. QED
      BY <2>1, <2>2
  <1>8. QED
    BY <1>3, <1>4, <1>5, <1>6, <1>7, ListedStays

(* The temporary file is truncated. *)
LEMMA PutOpenKeeps ==
    ASSUME AssayInv, NEW p \in Processes, PutOpen(p)
    PROVE  AssayInv'
  <1>t. AssayTypeOK /\ Listed
    BY DEF AssayInv
  <1>w. /\ proc[p] \in Working /\ Cmd(p) \in Commands /\ Cmd(p).content \in Contents
        /\ Cmd(p).tainted \in BOOLEAN
    BY <1>t, WorkingShape DEF PutOpen, At
  <1>2. proc' \in [Processes -> Working \cup {Idle}]
    BY <1>t, WorkingShape DEF PutOpen, At, Goto
  <1>3. AssayTypeOK'
    <2>1. shared' \subseteq Contents /\ temp' \in [Contents -> {"absent", "part", "whole"}]
      BY <1>t, <1>w DEF PutOpen, AssayTypeOK
    <2>2. QED
      BY <1>t, <1>w, <1>2, <2>1 DEF PutOpen, AssayTypeOK
  <1>4. \A c \in Contents : object[c] # "absent" => object'[c] # "absent"
    BY DEF PutOpen
  <1>5. UNCHANGED mine /\ written' \in {written, Torn, mine[p]}
    BY DEF PutOpen
  <1>6. \A q \in Processes \ {p} : proc'[q] = proc[q]
    BY <1>t DEF PutOpen, Goto, AssayTypeOK
  <1>7. proc'[p].at = "edit" => object'[proc'[p].command.content] # "absent"
    BY <1>t, <1>w DEF PutOpen, Goto, AssayTypeOK, Idle, Working
  <1>8. QED
    BY <1>3, <1>4, <1>5, <1>6, <1>7, ListedStays

(* The bytes are written. *)
LEMMA PutWriteKeeps ==
    ASSUME AssayInv, NEW p \in Processes, PutWrite(p)
    PROVE  AssayInv'
  <1>t. AssayTypeOK /\ Listed
    BY DEF AssayInv
  <1>w. /\ proc[p] \in Working /\ Cmd(p) \in Commands /\ Cmd(p).content \in Contents
        /\ Cmd(p).tainted \in BOOLEAN
    BY <1>t, WorkingShape DEF PutWrite, At
  <1>2. proc' \in [Processes -> Working \cup {Idle}]
    BY <1>t, WorkingShape DEF PutWrite, At, Goto
  <1>3. AssayTypeOK'
    <2>1. temp' \in [Contents -> {"absent", "part", "whole"}]
      BY <1>t, <1>w DEF PutWrite, AssayTypeOK
    <2>2. object' \in [Contents -> {"absent", "part", "whole"}]
      BY <1>t, <1>w DEF PutWrite, AssayTypeOK
    <2>3. QED
      BY <1>t, <1>2, <2>1, <2>2 DEF PutWrite, AssayTypeOK
  <1>4. \A c \in Contents : object[c] # "absent" => object'[c] # "absent"
    BY <1>t, <1>w DEF PutWrite, AssayTypeOK
  <1>5. UNCHANGED mine /\ written' \in {written, Torn, mine[p]}
    BY DEF PutWrite
  <1>6. \A q \in Processes \ {p} : proc'[q] = proc[q]
    BY <1>t DEF PutWrite, Goto, AssayTypeOK
  <1>7. proc'[p].at = "edit" => object'[proc'[p].command.content] # "absent"
    BY <1>t, <1>w DEF PutWrite, Goto, AssayTypeOK, Idle, Working
  <1>8. QED
    BY <1>3, <1>4, <1>5, <1>6, <1>7, ListedStays

(* The temporary file becomes the object. *)
LEMMA PutRenameKeeps ==
    ASSUME AssayInv, NEW p \in Processes, PutRename(p)
    PROVE  AssayInv'
  <1>t. AssayTypeOK /\ Listed
    BY DEF AssayInv
  <1>w. /\ proc[p] \in Working /\ Cmd(p) \in Commands /\ Cmd(p).content \in Contents
        /\ Cmd(p).tainted \in BOOLEAN
    BY <1>t, WorkingShape DEF PutRename, At
  <1>2. proc' \in [Processes -> Working \cup {Idle}]
    BY <1>t, WorkingShape DEF PutRename, At, Goto
  <1>3. AssayTypeOK'
    <2>1. /\ temp' \in [Contents -> {"absent", "part", "whole"}]
          /\ object' \in [Contents -> {"absent", "part", "whole"}]
      BY <1>t, <1>w DEF PutRename, AssayTypeOK
    <2>2. fd' \in [Processes -> {"none", "temp", "object", "orphan"}]
      BY <1>t, Zenon DEF PutRename, AssayTypeOK
    <2>3. QED
      BY <1>t, <1>2, <2>1, <2>2 DEF PutRename, AssayTypeOK
  <1>4. \A c \in Contents : object[c] # "absent" => object'[c] # "absent"
    BY <1>t, <1>w DEF PutRename, AssayTypeOK
  <1>5. UNCHANGED mine /\ written' \in {written, Torn, mine[p]}
    BY DEF PutRename
  <1>6. \A q \in Processes \ {p} : proc'[q] = proc[q]
    BY <1>t DEF PutRename, Goto, AssayTypeOK
  <1>7. proc'[p].at = "edit" => object'[proc'[p].command.content] # "absent"
    <2>1. proc'[p].command = Cmd(p)
      BY <1>t, <1>w DEF PutRename, Goto, AssayTypeOK, Cmd, Working
    <2>2. object'[Cmd(p).content] # "absent"
      BY <1>t, <1>w DEF PutRename, AssayTypeOK
    <2>3. QED
      BY <2>1, <2>2
  <1>8. QED
    BY <1>3, <1>4, <1>5, <1>6, <1>7, ListedStays

(* Put fails, and the command with it. *)
LEMMA PutFailsKeeps ==
    ASSUME AssayInv, NEW p \in Processes, PutFails(p)
    PROVE  AssayInv'
  <1>t. AssayTypeOK /\ Listed
    BY DEF AssayInv
  <1>w. /\ proc[p] \in Working /\ Cmd(p) \in Commands /\ Cmd(p).content \in Contents
        /\ Cmd(p).tainted \in BOOLEAN
    BY <1>t, WorkingShape DEF PutFails, At
  <1>2. proc' \in [Processes -> Working \cup {Idle}] /\ fd' \in [Processes -> {"none", "temp", "object", "orphan"}]
    BY <1>t DEF PutFails, Ends, AssayTypeOK
  <1>3. AssayTypeOK'
    BY <1>t, <1>2 DEF PutFails, AssayTypeOK
  <1>4. \A c \in Contents : object[c] # "absent" => object'[c] # "absent"
    BY DEF PutFails
  <1>5. UNCHANGED mine /\ written' \in {written, Torn, mine[p]}
    BY DEF PutFails
  <1>6. \A q \in Processes \ {p} : proc'[q] = proc[q]
    BY <1>t DEF PutFails, Ends, AssayTypeOK
  <1>7. proc'[p].at = "edit" => object'[proc'[p].command.content] # "absent"
    BY <1>t, <1>w DEF PutFails, Ends, AssayTypeOK, Idle, Working
  <1>8. QED
    BY <1>3, <1>4, <1>5, <1>6, <1>7, ListedStays

(* The manifest is truncated. *)
LEMMA PersistTruncatesKeeps ==
    ASSUME AssayInv, NEW p \in Processes, PersistTruncates(p)
    PROVE  AssayInv'
  <1>t. AssayTypeOK /\ Listed
    BY DEF AssayInv
  <1>w. /\ proc[p] \in Working /\ Cmd(p) \in Commands /\ Cmd(p).content \in Contents
        /\ Cmd(p).tainted \in BOOLEAN
    BY <1>t, WorkingShape DEF PersistTruncates, At
  <1>2. proc' \in [Processes -> Working \cup {Idle}]
    BY <1>t, WorkingShape DEF PersistTruncates, At, Goto
  <1>3. AssayTypeOK'
    BY <1>t, <1>2 DEF PersistTruncates, AssayTypeOK
  <1>4. \A c \in Contents : object[c] # "absent" => object'[c] # "absent"
    BY DEF PersistTruncates
  <1>5. UNCHANGED mine /\ written' \in {written, Torn, mine[p]}
    BY DEF PersistTruncates
  <1>6. \A q \in Processes \ {p} : proc'[q] = proc[q]
    BY <1>t DEF PersistTruncates, Goto, AssayTypeOK
  <1>7. proc'[p].at = "edit" => object'[proc'[p].command.content] # "absent"
    BY <1>t, <1>w DEF PersistTruncates, Goto, AssayTypeOK, Idle, Working
  <1>8. QED
    BY <1>3, <1>4, <1>5, <1>6, <1>7, ListedStays

(* The file cannot be opened. *)
LEMMA PersistFailsKeeps ==
    ASSUME AssayInv, NEW p \in Processes, PersistFails(p)
    PROVE  AssayInv'
  <1>t. AssayTypeOK /\ Listed
    BY DEF AssayInv
  <1>w. /\ proc[p] \in Working /\ Cmd(p) \in Commands /\ Cmd(p).content \in Contents
        /\ Cmd(p).tainted \in BOOLEAN
    BY <1>t, WorkingShape DEF PersistFails, At
  <1>2. /\ proc' \in [Processes -> Working \cup {Idle}]
        /\ fd' \in [Processes -> {"none", "temp", "object", "orphan"}]
    <2>1. CASE Cmd(p).op \in {"resolve", "launch"}
      BY <1>t, <2>1, WorkingShape DEF PersistFails, Persisted, At, Goto, AssayTypeOK
    <2>2. CASE Cmd(p).op \notin {"resolve", "launch"}
      BY <1>t, <2>2 DEF PersistFails, Persisted, Ends, AssayTypeOK
    <2>3. QED
      BY <2>1, <2>2
  <1>3. AssayTypeOK'
    BY <1>t, <1>2 DEF PersistFails, AssayTypeOK
  <1>4. \A c \in Contents : object[c] # "absent" => object'[c] # "absent"
    BY DEF PersistFails
  <1>5. UNCHANGED mine /\ written' \in {written, Torn, mine[p]}
    BY DEF PersistFails
  <1>6. \A q \in Processes \ {p} : proc'[q] = proc[q]
    BY <1>t DEF PersistFails, Persisted, Ends, Goto, AssayTypeOK
  <1>7. proc'[p].at = "edit" => object'[proc'[p].command.content] # "absent"
    BY <1>t, <1>w DEF PersistFails, Persisted, Ends, Goto, AssayTypeOK, Idle, Working
  <1>8. QED
    BY <1>3, <1>4, <1>5, <1>6, <1>7, ListedStays

(* The copy is written. *)
LEMMA PersistWritesKeeps ==
    ASSUME AssayInv, NEW p \in Processes, PersistWrites(p)
    PROVE  AssayInv'
  <1>t. AssayTypeOK /\ Listed
    BY DEF AssayInv
  <1>w. /\ proc[p] \in Working /\ Cmd(p) \in Commands /\ Cmd(p).content \in Contents
        /\ Cmd(p).tainted \in BOOLEAN
    BY <1>t, WorkingShape DEF PersistWrites, At
  <1>2. /\ proc' \in [Processes -> Working \cup {Idle}]
        /\ fd' \in [Processes -> {"none", "temp", "object", "orphan"}]
    <2>1. CASE Cmd(p).op \in {"resolve", "launch"}
      BY <1>t, <2>1, WorkingShape DEF PersistWrites, Persisted, At, Goto, AssayTypeOK
    <2>2. CASE Cmd(p).op \notin {"resolve", "launch"}
      BY <1>t, <2>2 DEF PersistWrites, Persisted, Ends, AssayTypeOK
    <2>3. QED
      BY <2>1, <2>2
  <1>3. AssayTypeOK'
    <2>1. revokes' \subseteq Contents
      BY <1>t, <1>w DEF PersistWrites, AssayTypeOK
    <2>2. written' \in Manifests \cup {Torn}
      BY <1>t DEF PersistWrites, AssayTypeOK
    <2>3. QED
      BY <1>t, <1>2, <2>1, <2>2 DEF PersistWrites, AssayTypeOK
  <1>4. \A c \in Contents : object[c] # "absent" => object'[c] # "absent"
    BY DEF PersistWrites
  <1>5. UNCHANGED mine /\ written' \in {written, Torn, mine[p]}
    BY DEF PersistWrites
  <1>6. \A q \in Processes \ {p} : proc'[q] = proc[q]
    BY <1>t DEF PersistWrites, Persisted, Ends, Goto, AssayTypeOK
  <1>7. proc'[p].at = "edit" => object'[proc'[p].command.content] # "absent"
    BY <1>t, <1>w DEF PersistWrites, Persisted, Ends, Goto, AssayTypeOK, Idle, Working
  <1>8. QED
    BY <1>3, <1>4, <1>5, <1>6, <1>7, ListedStays

(* A cell is given what is written. *)
LEMMA SealKeeps ==
    ASSUME AssayInv, NEW p \in Processes, Seal(p)
    PROVE  AssayInv'
  <1>t. AssayTypeOK /\ Listed
    BY DEF AssayInv
  <1>w. /\ proc[p] \in Working /\ Cmd(p) \in Commands /\ Cmd(p).content \in Contents
        /\ Cmd(p).tainted \in BOOLEAN
    BY <1>t, WorkingShape DEF Seal, At
  <1>2. proc' \in [Processes -> Working \cup {Idle}] /\ fd' \in [Processes -> {"none", "temp", "object", "orphan"}]
    BY <1>t DEF Seal, Ends, AssayTypeOK
  <1>3. AssayTypeOK'
    <2>1. cell' \in [Processes -> [content : Contents, lane : {"tool", "agent"}] \cup {NoCell}]
      <3>1. \A e : ResolveExecLane(e, Cmd(p).tainted) \in {"tool", "agent"}
        BY DEF ResolveExecLane
      <3>2. [content |-> Cmd(p).content, lane |-> ResolveExecLane(written.entries[Cmd(p).content], Cmd(p).tainted)]
               \in [content : Contents, lane : {"tool", "agent"}]
        BY <1>w, <3>1
      <3>3. QED
        BY <1>t, <3>2 DEF Seal, AssayTypeOK
    <2>2. QED
      BY <1>t, <1>2, <2>1 DEF Seal, AssayTypeOK
  <1>4. \A c \in Contents : object[c] # "absent" => object'[c] # "absent"
    BY DEF Seal
  <1>5. UNCHANGED mine /\ written' \in {written, Torn, mine[p]}
    BY DEF Seal
  <1>6. \A q \in Processes \ {p} : proc'[q] = proc[q]
    BY <1>t DEF Seal, Ends, AssayTypeOK
  <1>7. proc'[p].at = "edit" => object'[proc'[p].command.content] # "absent"
    BY <1>t, <1>w DEF Seal, Ends, AssayTypeOK, Idle, Working
  <1>8. QED
    BY <1>3, <1>4, <1>5, <1>6, <1>7, ListedStays

(* The copy is edited: what it lists now was put, or it revokes. *)
LEMMA EditKeeps ==
    ASSUME AssayInv, NEW p \in Processes, Edit(p)
    PROVE  AssayInv'
  <1>t. AssayTypeOK /\ Listed
    BY DEF AssayInv
  <1>w. /\ proc[p] \in Working /\ Cmd(p) \in Commands /\ Cmd(p).content \in Contents
        /\ Cmd(p).alias \in Aliases /\ Cmd(p).interpreter \in BOOLEAN
        /\ Cmd(p).author \in {"Host", "Agent"}
    BY <1>t, WorkingShape DEF Edit, At
  <1>m. mine[p] \in Manifests /\ Held(mine[p], object)
    BY <1>t DEF AssayTypeOK, Listed
  <1>1. PICK m \in Manifests : mine' = [mine EXCEPT ![p] = m] /\ Held(m, object)
    <2>1. CASE Cmd(p).op = "revoke"
      <3>1. DEFINE m == RevokeEntry(mine[p], Cmd(p).content)
      <3>2. m \in Manifests /\ m.entries = mine[p].entries
        BY <1>m, <1>w DEF Manifests, RevokeEntry
      <3>3. mine' = [mine EXCEPT ![p] = m]
        BY <1>t, <2>1 DEF Edit, AssayTypeOK
      <3>4. Held(m, object)
        BY <1>m, <3>2 DEF Held, Lists
      <3>5. QED
        BY <3>2, <3>3, <3>4
    <2>2. CASE Cmd(p).op # "revoke"
      <3>1. PICK r \in BOOLEAN :
               mine' = [mine EXCEPT ![p] = AdmitEntry(mine[p], Cmd(p).content, EntryOf(mine[p], Cmd(p), r))]
        BY <1>t, <2>2 DEF Edit, AssayTypeOK
      <3>2. EntryOf(mine[p], Cmd(p), r) \in Entries
        BY <1>m, <1>w, EntryTyped
      <3>3. PICK e \in Entries : e = EntryOf(mine[p], Cmd(p), r)
        BY <3>2
      <3>4. DEFINE m == AdmitEntry(mine[p], Cmd(p).content, e)
      <3>5. /\ m \in Manifests
            /\ \A c \in Contents : c # Cmd(p).content => m.entries[c] = mine[p].entries[c]
        BY <1>m, <1>w DEF Manifests, AdmitEntry
      <3>6. object[Cmd(p).content] # "absent"
        BY <1>t, <2>2 DEF Edit, Listed
      <3>7. Held(m, object)
        BY <1>m, <3>5, <3>6 DEF Held, Lists
      <3>8. QED
        BY <3>1, <3>3, <3>5, <3>7
    <2>3. QED
      BY <2>1, <2>2
  <1>2. proc' \in [Processes -> Working \cup {Idle}]
    BY <1>t, WorkingShape DEF Edit, At, Goto
  <1>3. UNCHANGED <<object, temp, shared, written, fd, barred, cell, revokes, commands>>
    BY DEF Edit
  <1>4. AssayTypeOK'
    BY <1>t, <1>1, <1>2, <1>3 DEF AssayTypeOK
  <1>5. \A q \in Processes : Held(mine'[q], object')
    BY <1>t, <1>1, <1>3 DEF AssayTypeOK, Listed
  <1>6. ASSUME NEW q \in Processes, At(q, "edit")', Cmd(q)'.op # "revoke"
        PROVE  object'[Cmd(q)'.content] # "absent"
    BY <1>t, <1>w, <1>3, <1>6 DEF Edit, Goto, At, Cmd, AssayTypeOK, Listed, Working
  <1>7. Listed'
    BY <1>t, <1>3, <1>5, <1>6 DEF Listed
  <1>8. QED
    BY <1>4, <1>7 DEF AssayInv

(* Every step keeps the invariant. *)
LEMMA AssayStep == AssayInv /\ [AssayNext]_assayVars => AssayInv'
  <1> SUFFICES ASSUME AssayInv, [AssayNext]_assayVars PROVE AssayInv'
    OBVIOUS
  <1>1. CASE AssayNext
    <2>1. PICK p \in Processes :
             \/ \E command \in Commands : Begin(p, command)
             \/ Killed(p) \/ Open(p) \/ PutDedup(p) \/ PutOpen(p) \/ PutWrite(p) \/ PutRename(p)
             \/ PutFails(p) \/ Edit(p) \/ PersistFails(p) \/ PersistTruncates(p) \/ PersistWrites(p) \/ Seal(p)
      BY <1>1 DEF AssayNext
    <2>2. QED
      BY <2>1, BeginKeeps, KilledKeeps, OpenKeeps, PutDedupKeeps, PutOpenKeeps, PutWriteKeeps,
         PutRenameKeeps, PutFailsKeeps, EditKeeps, PersistFailsKeeps, PersistTruncatesKeeps, PersistWritesKeeps,
         SealKeeps
  <1>2. CASE UNCHANGED assayVars
    <2>1. AssayTypeOK'
      BY <1>2 DEF AssayInv, AssayTypeOK, assayVars
    <2>2. Listed'
      BY <1>2 DEF AssayInv, Listed, assayVars, At, Cmd, Held
    <2>3. QED
      BY <2>1, <2>2 DEF AssayInv
  <1>3. QED
    BY <1>1, <1>2

(* The object of a content that no two processes stored at a time is not a  *)
(* part of it, and the one that stores it now writes the file it will       *)
(* rename.                                                                  *)
OneWriter ==
    \A c \in Contents \ shared :
        /\ object[c] # "part"
        /\ \A p \in Processes : Storing(p, c) =>
              /\ \A q \in Processes : Storing(q, c) => q = p
              /\ At(p, "write") => fd[p] = "temp"
              /\ At(p, "rename") => temp[c] # "part"

(* A step of a process that stores nothing after it and changes no object. *)
LEMMA OneWriterStays ==
    ASSUME OneWriter, NEW p \in Processes, UNCHANGED <<object, temp, shared>>,
           \A q \in Processes \ {p} : proc'[q] = proc[q] /\ fd'[q] = fd[q],
           proc'[p].at \notin {"write", "rename"}
    PROVE  OneWriter'
  <1>1. \A q \in Processes, c \in Contents : Storing(q, c)' =>
            q # p /\ Storing(q, c) /\ (At(q, "write")' => At(q, "write")) /\ (At(q, "rename")' => At(q, "rename"))
    BY DEF Storing, At, Cmd
  <1>2. QED
    BY <1>1 DEF OneWriter

(* A process creates the temporary file: another that does is noticed. *)
LEMMA OneWriterPutOpen ==
    ASSUME AssayTypeOK, OneWriter, NEW p \in Processes, PutOpen(p)
    PROVE  OneWriter'
  <1> DEFINE c == Cmd(p).content
  <1>1. proc[p] \in Working /\ c \in Contents /\ ~At(p, "idle")
    <2>1. ~At(p, "idle")
      BY DEF PutOpen, At
    <2>2. QED
      BY <2>1, WorkingShape
  <1>2. proc'[p] = [proc[p] EXCEPT !.at = "write"] /\ \A q \in Processes \ {p} : proc'[q] = proc[q]
    BY DEF PutOpen, Goto, AssayTypeOK
  <1>3. proc'[p].at = "write" /\ proc'[p].command = proc[p].command
    BY <1>1, <1>2 DEF Working
  <1>4. /\ object' = object /\ temp' = [temp EXCEPT ![c] = "part"] /\ fd' = [fd EXCEPT ![p] = "temp"]
        /\ shared' = IF \E q \in Processes : Storing(q, c) THEN shared \cup {c} ELSE shared
        /\ At(p, "put")
    BY DEF PutOpen
  <1> HIDE DEF c
  <1>5. temp'[c] = "part" /\ fd'[p] = "temp" /\ (\A d \in Contents : d # c => temp'[d] = temp[d])
        /\ \A q \in Processes : q # p => fd'[q] = fd[q]
    BY <1>1, <1>4 DEF AssayTypeOK
  <1>6. \A q \in Processes, d \in Contents : Storing(q, d)' => (q = p /\ d = c) \/ (q # p /\ Storing(q, d))
    BY <1>2, <1>3 DEF Storing, At, Cmd, c
  <1>7. \A q \in Processes : q # p => (At(q, "write")' <=> At(q, "write")) /\ (At(q, "rename")' <=> At(q, "rename"))
    BY <1>2 DEF At
  <1>8. At(p, "write")' /\ ~At(p, "rename")'
    BY <1>3 DEF At
  <1>9. ASSUME NEW d \in Contents \ shared', NEW q \in Processes, Storing(q, d)'
        PROVE  /\ \A r \in Processes : Storing(r, d)' => r = q
               /\ At(q, "write")' => fd'[q] = "temp"
               /\ At(q, "rename")' => temp'[d] # "part"
    <2>1. d \in Contents \ shared
      BY <1>4, <1>9
    <2>2. CASE d = c
      <3>1. \A r \in Processes : ~Storing(r, c)
        BY <1>4, <1>9, <2>2
      <3>2. \A r \in Processes : Storing(r, d)' => r = p
        BY <1>6, <2>2, <3>1
      <3>3. QED
        BY <1>5, <1>8, <1>9, <3>2
    <2>3. CASE d # c
      <3>1. q # p /\ Storing(q, d) /\ \A r \in Processes : Storing(r, d)' => Storing(r, d)
        BY <1>6, <1>9, <2>3
      <3>2. QED
        BY <1>5, <1>7, <2>1, <2>3, <3>1 DEF OneWriter
    <2>4. QED
      BY <2>2, <2>3
  <1>10. \A d \in Contents \ shared' : object'[d] # "part"
    BY <1>4 DEF OneWriter
  <1>11. QED
    BY <1>9, <1>10 DEF OneWriter

(* It writes the file it created. *)
LEMMA OneWriterPutWrite ==
    ASSUME AssayTypeOK, OneWriter, NEW p \in Processes, PutWrite(p)
    PROVE  OneWriter'
  <1> DEFINE c == Cmd(p).content
  <1>1. proc[p] \in Working /\ c \in Contents
    <2>1. ~At(p, "idle")
      BY DEF PutWrite, At
    <2>2. QED
      BY <2>1, WorkingShape
  <1>2. proc'[p] = [proc[p] EXCEPT !.at = "rename"] /\ \A q \in Processes \ {p} : proc'[q] = proc[q]
    BY DEF PutWrite, Goto, AssayTypeOK
  <1>3. proc'[p].at = "rename" /\ proc'[p].command = proc[p].command /\ proc[p].at = "write"
    BY <1>1, <1>2 DEF Working, PutWrite, At
  <1>4. /\ shared' = shared /\ fd' = [fd EXCEPT ![p] = "none"]
        /\ temp' = IF fd[p] = "temp" THEN [temp EXCEPT ![c] = "whole"] ELSE temp
        /\ object' = IF fd[p] = "object" THEN [object EXCEPT ![c] = "whole"] ELSE object
    BY DEF PutWrite
  <1> HIDE DEF c
  <1>5. \A q \in Processes, d \in Contents : Storing(q, d)' => Storing(q, d)
    BY <1>2, <1>3 DEF Storing, At, Cmd
  <1>6. Storing(p, c)
    BY <1>3 DEF Storing, At, c
  <1>7. \A q \in Processes : q # p => (At(q, "write")' <=> At(q, "write")) /\ (At(q, "rename")' <=> At(q, "rename"))
                                     /\ fd'[q] = fd[q]
    BY <1>2, <1>4 DEF At, AssayTypeOK
  <1>8. /\ \A d \in Contents : object'[d] \in {object[d], "whole"}
        /\ \A d \in Contents : temp'[d] \in {temp[d], "whole"}
        /\ fd[p] = "temp" => temp'[c] = "whole"
    BY <1>1, <1>4 DEF AssayTypeOK
  <1>9. At(p, "write") /\ ~At(p, "write")' /\ \A d : Storing(p, d) => d = c
    BY <1>3 DEF At, Storing, c
  <1>10. ASSUME NEW d \in Contents \ shared', NEW q \in Processes, Storing(q, d)'
         PROVE  /\ \A r \in Processes : Storing(r, d)' => r = q
                /\ At(q, "write")' => fd'[q] = "temp"
                /\ At(q, "rename")' => temp'[d] # "part"
    <2>1. Storing(q, d) /\ d \in Contents \ shared /\ \A r \in Processes : Storing(r, d)' => Storing(r, d)
      BY <1>4, <1>5, <1>10
    <2>2. CASE q = p
      <3>1. d = c /\ fd[p] = "temp"
        BY <1>9, <2>1, <2>2 DEF OneWriter
      <3>2. QED
        BY <1>8, <1>9, <2>1, <2>2, <3>1 DEF OneWriter
    <2>3. CASE q # p
      BY <1>7, <1>8, <2>1, <2>3 DEF OneWriter
    <2>4. QED
      BY <2>2, <2>3
  <1>11. \A d \in Contents \ shared' : object'[d] # "part"
    BY <1>4, <1>8 DEF OneWriter
  <1>12. QED
    BY <1>10, <1>11 DEF OneWriter

(* It renames the file it wrote. *)
LEMMA OneWriterPutRename ==
    ASSUME AssayTypeOK, OneWriter, NEW p \in Processes, PutRename(p)
    PROVE  OneWriter'
  <1> DEFINE c == Cmd(p).content
  <1>1. proc[p] \in Working /\ c \in Contents
    <2>1. ~At(p, "idle")
      BY DEF PutRename, At
    <2>2. QED
      BY <2>1, WorkingShape
  <1>2. proc'[p] = [proc[p] EXCEPT !.at = "edit"] /\ \A q \in Processes \ {p} : proc'[q] = proc[q]
    BY DEF PutRename, Goto, AssayTypeOK
  <1>3. proc'[p].at = "edit" /\ proc[p].at = "rename"
    BY <1>1, <1>2 DEF Working, PutRename, At
  <1>4. /\ shared' = shared /\ object' = [object EXCEPT ![c] = temp[c]]
        /\ temp' = [temp EXCEPT ![c] = "absent"]
        /\ \A q \in Processes : ~(At(q, "write") /\ Cmd(q).content = c) => fd'[q] = fd[q]
    BY DEF PutRename
  <1> HIDE DEF c
  <1>5. \A q \in Processes, d \in Contents : Storing(q, d)' =>
            /\ q # p /\ Storing(q, d)
            /\ (At(q, "write")' <=> At(q, "write")) /\ (At(q, "rename")' <=> At(q, "rename"))
    BY <1>2, <1>3 DEF Storing, At, Cmd
  <1>6. Storing(p, c) /\ At(p, "rename")
    BY <1>3 DEF Storing, At, c
  <1>7. object'[c] = temp[c] /\ \A d \in Contents : d # c => object'[d] = object[d] /\ temp'[d] = temp[d]
    BY <1>1, <1>4 DEF AssayTypeOK
  <1>8. ASSUME NEW d \in Contents \ shared', NEW q \in Processes, Storing(q, d)'
        PROVE  /\ \A r \in Processes : Storing(r, d)' => r = q
               /\ At(q, "write")' => fd'[q] = "temp"
               /\ At(q, "rename")' => temp'[d] # "part"
    <2>1. q # p /\ Storing(q, d) /\ d \in Contents \ shared
      BY <1>4, <1>5, <1>8
    <2>2. d # c
      BY <1>6, <2>1 DEF OneWriter
    <2>3. fd'[q] = fd[q]
      BY <1>4, <2>1, <2>2 DEF Storing
    <2>4. QED
      BY <1>5, <1>7, <1>8, <2>1, <2>2, <2>3 DEF OneWriter
  <1>9. \A d \in Contents \ shared' : object'[d] # "part"
    BY <1>1, <1>4, <1>6, <1>7 DEF OneWriter
  <1>10. QED
    BY <1>8, <1>9 DEF OneWriter

(* Every step. *)
LEMMA OneWriterStep ==
    ASSUME AssayTypeOK, OneWriter, [AssayNext]_assayVars
    PROVE  OneWriter'
  <1>i. Idle.at = "idle"
    BY DEF Idle
  <1>g. ASSUME NEW p \in Processes, NEW place \in {"put", "edit", "persist", "flush", "seal"},
               ~At(p, "idle"), Goto(p, place)
        PROVE  /\ \A q \in Processes \ {p} : proc'[q] = proc[q]
               /\ proc'[p].at \notin {"write", "rename"}
    <2>1. proc[p] \in Working
      BY <1>g, WorkingShape
    <2>2. proc'[p] = [proc[p] EXCEPT !.at = place] /\ \A q \in Processes \ {p} : proc'[q] = proc[q]
      BY <1>g DEF Goto, AssayTypeOK
    <2>3. proc'[p].at = place
      BY <2>1, <2>2 DEF Working
    <2>4. QED
      BY <2>2, <2>3
  <1>e. ASSUME NEW p \in Processes, Ends(p)
        PROVE  /\ \A q \in Processes \ {p} : proc'[q] = proc[q] /\ fd'[q] = fd[q]
               /\ proc'[p].at \notin {"write", "rename"}
    BY <1>e, <1>i DEF Ends, AssayTypeOK
  <1>1. ASSUME NEW p \in Processes, NEW command \in Commands, Begin(p, command)
        PROVE  OneWriter'
    <2>1. UNCHANGED <<object, temp, shared, fd>> /\ proc'[p].at = "open"
          /\ \A q \in Processes \ {p} : proc'[q] = proc[q]
      BY <1>1 DEF Begin, AssayTypeOK
    <2>2. QED
      BY <2>1, OneWriterStays
  <1>2. ASSUME NEW p \in Processes, Killed(p) \/ PutFails(p) \/ Seal(p)
        PROVE  OneWriter'
    <2>1. UNCHANGED <<object, temp, shared>> /\ Ends(p)
      BY <1>2 DEF Killed, PutFails, Seal
    <2>2. QED
      BY <1>e, <2>1, OneWriterStays
  <1>3. ASSUME NEW p \in Processes, Open(p) \/ PutDedup(p) \/ Edit(p) \/ PersistTruncates(p)
        PROVE  OneWriter'
    <2>1. /\ UNCHANGED <<object, temp, shared, fd>> /\ ~At(p, "idle")
          /\ \E place \in {"put", "edit", "persist", "flush", "seal"} : Goto(p, place)
      <3>1. CASE Open(p)
        <4>1. \E place \in {"put", "edit", "persist", "flush", "seal"} : Goto(p, place)
          BY <3>1, Zenon DEF Open
        <4>2. QED
          BY <3>1, <4>1 DEF Open, At
      <3>2. CASE PutDedup(p) \/ Edit(p) \/ PersistTruncates(p)
        BY <3>2 DEF PutDedup, Edit, PersistTruncates, At
      <3>3. QED
        BY <1>3, <3>1, <3>2
    <2>2. QED
      BY <1>g, <2>1, OneWriterStays
  <1>4. ASSUME NEW p \in Processes, PersistFails(p) \/ PersistWrites(p)
        PROVE  OneWriter'
    <2>1. /\ UNCHANGED <<object, temp, shared>> /\ ~At(p, "idle")
          /\ (Goto(p, "seal") /\ UNCHANGED fd) \/ Ends(p)
      BY <1>4 DEF PersistFails, PersistWrites, Persisted, At
    <2>2. QED
      BY <1>e, <1>g, <2>1, OneWriterStays
  <1>5. CASE UNCHANGED assayVars
    BY <1>5 DEF assayVars, OneWriter, Storing, At, Cmd
  <1>6. QED
    BY <1>1, <1>2, <1>3, <1>4, <1>5, OneWriterPutOpen, OneWriterPutWrite, OneWriterPutRename DEF AssayNext

(* The inductive invariant holds of every behaviour of the store. *)
THEOREM AssayInvariant == AssaySpec => [](AssayInv /\ OneWriter)
  <1>1. AssayInit => OneWriter
    BY DEF AssayInit, OneWriter, Storing, At, Idle
  <1>2. AssayInv /\ OneWriter /\ [AssayNext]_assayVars => (AssayInv /\ OneWriter)'
    BY AssayStep, OneWriterStep DEF AssayInv
  <1>3. QED
    BY AssayInitial, <1>1, <1>2, PTL DEF AssaySpec

(* The store, the manifest and every command have their types. *)
THEOREM AssayTyped == AssaySpec => []AssayTypeOK
  <1>1. AssayInv /\ OneWriter => AssayTypeOK
    BY DEF AssayInv
  <1>2. QED
    BY <1>1, AssayInvariant, PTL

(* Whatever interleaving of commands, lost update, failed write or crash    *)
(* produced it, a manifest file lists no content without an object, and     *)
(* none with a part of one that two processes did not write at a time       *)
(* (Store::put before Manifest::admit in every command of the assayer).     *)
THEOREM AssayEntryStored == AssaySpec => []EntryStored
  <1>1. ASSUME AssayInv, OneWriter PROVE EntryStored
    <2>1. object \in [Contents -> {"absent", "part", "whole"}]
      BY <1>1 DEF AssayInv, AssayTypeOK
    <2>2. \A c \in Contents : object[c] = "part" => c \in shared
      BY <1>1 DEF OneWriter
    <2>3. written # Torn => \A c \in Contents : Lists(written, c) => object[c] # "absent"
      BY <1>1 DEF AssayInv, Listed, Held
    <2>4. QED
      BY <2>1, <2>2, <2>3 DEF EntryStored
  <1>2. QED
    BY <1>1, AssayInvariant, PTL

-------------------------------------------------------------------------------
(* Pilot (Pilot).                                                           *)

(* The places of a child that has not ended. *)
Alive == {"root", "mailbox", "landlock", "seccomp", "caps", "exec", "running"}

(* Pilot holds a port only while it reads its request, or when it goes no   *)
(* further; it has a child only while it waits for one, and from the gate   *)
(* on the open file is one that the manifest and the request permit.        *)
Gated ==
    /\ pilot \notin {"reading", "finish"} => ports = {}
    /\ child \in Alive => pilot \in {"setup", "capture"}
    /\ pilot \in {"fork", "setup", "capture"} =>
          attested[opened] # "denied" /\ (now.expects => opened = Declared)

(* What a request is lent, and a child's authority at each place of its     *)
(* way to exec.                                                             *)
Lent == IF now.mailbox THEN {"mailbox"} ELSE {}
Capabilities == IF now.fetch THEN "rawio" ELSE "none"
Powers(fs, net, caps, granted) == [fs |-> fs, net |-> net, caps |-> caps, ports |-> granted]
Narrowing ==
    /\ child \in {"root", "mailbox"} => power = Powers("all", TRUE, "all", {})
    /\ child = "mailbox" => now.mailbox
    /\ child \in {"landlock", "seccomp", "caps"} => Confined
    /\ child = "landlock" => power = Powers("all", TRUE, "all", Lent)
    /\ child = "seccomp" => power = Powers("granted", TRUE, "all", Lent)
    /\ child = "caps" => power = Powers("granted", FALSE, "all", Lent)
    /\ child \in {"exec", "running"} =>
          /\ power.ports = Lent
          /\ Confined => power = Powers("granted", FALSE, Capabilities, Lent)

PilotInv == PilotTypeOK /\ Gated /\ Narrowing

(* Pilot begins with no port and no child. *)
LEMMA PilotInitial == PilotInit => PilotInv
  <1> SUFFICES ASSUME PilotInit PROVE PilotInv
    OBVIOUS
  <1>1. Dispatched \subseteq Requests /\ Plain \subseteq Requests
    BY DEF Dispatched, Plain
  <1>2. queued \in Seq(Requests) /\ queued # <<>>
    <2>1. CASE \E r \in Dispatched \cup Plain : queued = <<r>>
      <3>1. PICK r \in Requests : queued = <<r>>
        BY <1>1, <2>1
      <3>2. QED
        BY <3>1
    <2>2. CASE \E r, s \in Plain : queued = <<r, s>>
      <3>1. PICK r \in Requests, s \in Requests : queued = <<r, s>>
        BY <1>1, <2>2
      <3>2. QED
        BY <3>1
    <2>3. QED
      BY <2>1, <2>2 DEF PilotInit
  <1>3. now \in Requests
    BY <1>2 DEF PilotInit
  <1>4. PilotTypeOK
    <2>1. power \in [fs : {"all", "granted"}, net : BOOLEAN, caps : {"all", "rawio", "none"},
                     ports : SUBSET {"invocation", "mailbox"}]
      BY DEF PilotInit, Nobody
    <2>2. leftover \in BOOLEAN
      BY Zenon DEF PilotInit
    <2>3. chunks \in 0..MaxChunks
      BY PilotAssumption DEF PilotInit
    <2>4. QED
      BY <1>2, <1>3, <2>1, <2>2, <2>3 DEF PilotInit, PilotTypeOK
  <1>5. Gated /\ Narrowing
    BY DEF PilotInit, Gated, Narrowing, Alive
  <1>6. QED
    BY <1>4, <1>5 DEF PilotInv

(* A step that leaves the child and what it runs alone. *)
LEMMA NarrowingStays ==
    ASSUME Narrowing, UNCHANGED <<child, power, now, lane>>
    PROVE  Narrowing'
  BY DEF Narrowing, Lent, Capabilities, Confined

(* Every step keeps the invariant. *)
LEMMA PilotStep == PilotInv /\ [PilotNext]_pilotVars => PilotInv'
  <1> SUFFICES ASSUME PilotInv, [PilotNext]_pilotVars PROVE PilotInv'
    OBVIOUS
  <1>t. PilotTypeOK /\ Gated /\ Narrowing
    BY DEF PilotInv
  <1>1. CASE ReadManifest
    <2>1. PilotTypeOK'
      BY <1>t, <1>1 DEF ReadManifest, Goes, Quiet, PilotTypeOK
    <2>2. Gated'
      BY <1>t, <1>1 DEF ReadManifest, Goes, Quiet, guest, Gated, Alive, PilotTypeOK
    <2>3. Narrowing'
      BY <1>t, <1>1, NarrowingStays DEF ReadManifest, guest
    <2>4. QED
      BY <2>1, <2>2, <2>3 DEF PilotInv
  <1>2. CASE WarmGrant
    <2>1. PilotTypeOK'
      BY <1>t, <1>2 DEF WarmGrant, Goes, Quiet, PilotTypeOK
    <2>2. Gated'
      BY <1>t, <1>2 DEF WarmGrant, Goes, Quiet, guest, Gated, Alive, PilotTypeOK
    <2>3. Narrowing'
      BY <1>t, <1>2, NarrowingStays DEF WarmGrant, guest
    <2>4. QED
      BY <2>1, <2>2, <2>3 DEF PilotInv
  <1>3. CASE WarmRevoke
    <2>1. PilotTypeOK'
      BY <1>t, <1>3 DEF WarmRevoke, Goes, Quiet, PilotTypeOK
    <2>2. Gated'
      BY <1>t, <1>3 DEF WarmRevoke, Goes, Quiet, guest, Gated, Alive, PilotTypeOK
    <2>3. Narrowing'
      BY <1>t, <1>3, NarrowingStays DEF WarmRevoke, guest
    <2>4. QED
      BY <2>1, <2>2, <2>3 DEF PilotInv
  <1>4. CASE ReadFile
    <2>1. PilotTypeOK'
      BY <1>t, <1>4 DEF ReadFile, Goes, Quiet, PilotTypeOK
    <2>2. Gated'
      BY <1>t, <1>4 DEF ReadFile, Goes, Quiet, guest, Gated, Alive, PilotTypeOK
    <2>3. Narrowing'
      BY <1>t, <1>4, NarrowingStays DEF ReadFile, guest
    <2>4. QED
      BY <2>1, <2>2, <2>3 DEF PilotInv
  <1>5. CASE NextRequest
    <2>1. PilotTypeOK'
      <3>1. queued # <<>> => Head(queued) \in Requests /\ Tail(queued) \in Seq(Requests)
        BY <1>t DEF PilotTypeOK
      <3>2. Nobody \in [fs : {"all", "granted"}, net : BOOLEAN, caps : {"all", "rawio", "none"},
                        ports : SUBSET {"invocation", "mailbox"}]
        BY DEF Nobody
      <3>3. queued' \in Seq(Requests) /\ now' \in Requests
        BY <1>t, <1>5, <3>1 DEF NextRequest, PilotTypeOK
      <3>4. QED
        BY <1>t, <1>5, <3>2, <3>3, PilotAssumption DEF NextRequest, Goes, Quiet, PilotTypeOK
    <2>2. Gated'
      BY <1>t, <1>5 DEF NextRequest, Goes, Quiet, guest, Gated, Alive, PilotTypeOK
    <2>3. Narrowing'
      <3>1. CASE child' = "none"
        BY <3>1 DEF Narrowing
      <3>2. CASE UNCHANGED <<now, lane, child, power>>
        BY <1>t, <3>2, NarrowingStays
      <3>3. QED
        BY <1>5, <3>1, <3>2 DEF NextRequest
    <2>4. QED
      BY <2>1, <2>2, <2>3 DEF PilotInv
  <1>6. CASE Finish
    <2>1. PilotTypeOK'
      BY <1>t, <1>6 DEF Finish, Quiet, guest, PilotTypeOK
    <2>2. Gated'
      BY <1>t, <1>6 DEF Finish, Goes, Quiet, guest, Gated, Alive, PilotTypeOK
    <2>3. Narrowing'
      BY <1>t, <1>6, NarrowingStays DEF Finish, guest
    <2>4. QED
      BY <2>1, <2>2, <2>3 DEF PilotInv
  <1>7. CASE SilenceKernel
    <2>1. PilotTypeOK'
      BY <1>t, <1>7 DEF SilenceKernel, Refused, Goes, Quiet, PilotTypeOK
    <2>2. Gated'
      BY <1>t, <1>7 DEF SilenceKernel, Refused, Goes, Quiet, guest, Gated, Alive, PilotTypeOK
    <2>3. Narrowing'
      BY <1>t, <1>7, NarrowingStays DEF SilenceKernel, Refused, guest
    <2>4. QED
      BY <2>1, <2>2, <2>3 DEF PilotInv
  <1>8. CASE StageInputs
    <2>1. PilotTypeOK'
      BY <1>t, <1>8 DEF StageInputs, Refused, Goes, Quiet, PilotTypeOK
    <2>2. Gated'
      BY <1>t, <1>8 DEF StageInputs, Refused, Goes, Quiet, guest, Gated, Alive, PilotTypeOK
    <2>3. Narrowing'
      BY <1>t, <1>8, NarrowingStays DEF StageInputs, Refused, guest
    <2>4. QED
      BY <2>1, <2>2, <2>3 DEF PilotInv
  <1>9. CASE CheckMembers
    <2>1. PilotTypeOK'
      BY <1>t, <1>9 DEF CheckMembers, Refused, Goes, Quiet, PilotTypeOK
    <2>2. Gated'
      BY <1>t, <1>9 DEF CheckMembers, Refused, Goes, Quiet, guest, Gated, Alive, PilotTypeOK
    <2>3. Narrowing'
      BY <1>t, <1>9, NarrowingStays DEF CheckMembers, Refused, guest
    <2>4. QED
      BY <2>1, <2>2, <2>3 DEF PilotInv
  <1>10. CASE OpenAndHash
    <2>1. PilotTypeOK'
      BY <1>t, <1>10 DEF OpenAndHash, Refused, Goes, Quiet, PilotTypeOK
    <2>2. Gated'
      BY <1>t, <1>10 DEF OpenAndHash, Refused, Goes, Quiet, guest, Gated, Alive, PilotTypeOK
    <2>3. Narrowing'
      BY <1>t, <1>10, NarrowingStays DEF OpenAndHash, Refused, guest
    <2>4. QED
      BY <2>1, <2>2, <2>3 DEF PilotInv
  <1>11. CASE Gate
    <2>1. PilotTypeOK'
      BY <1>t, <1>11 DEF Gate, Refused, Goes, Quiet, PilotTypeOK
    <2>2. Gated'
      BY <1>t, <1>11 DEF Gate, Refused, Goes, Quiet, guest, Gated, Alive, PilotTypeOK
    <2>3. Narrowing'
      <3>1. child \notin Alive
        BY <1>t, <1>11 DEF Gate, Gated
      <3>2. QED
        BY <1>11, <3>1 DEF Gate, Narrowing, Alive
    <2>4. QED
      BY <2>1, <2>2, <2>3 DEF PilotInv
  <1>12. CASE ForkChild
    <2>1. PilotTypeOK'
      <3>1. [Nobody EXCEPT !.ports = ports] \in
                 [fs : {"all", "granted"}, net : BOOLEAN, caps : {"all", "rawio", "none"},
                  ports : SUBSET {"invocation", "mailbox"}]
        BY <1>t DEF Nobody, PilotTypeOK
      <3>2. QED
        BY <1>t, <1>12, <3>1 DEF ForkChild, Refused, Goes, Quiet, PilotTypeOK
    <2>2. Gated'
      BY <1>t, <1>12 DEF ForkChild, Refused, Goes, Quiet, guest, Gated, Alive, PilotTypeOK
    <2>3. Narrowing'
      <3>1. ports = {}
        BY <1>t, <1>12 DEF ForkChild, Gated
      <3>2. CASE child' = "root" /\ power' = [Nobody EXCEPT !.ports = ports]
        <4>1. power' = Powers("all", TRUE, "all", {})
          BY <3>1, <3>2 DEF Nobody, Powers
        <4>2. QED
          BY <3>2, <4>1 DEF Narrowing
      <3>3. CASE UNCHANGED <<child, power>>
        BY <1>t, <1>12, <3>3, NarrowingStays DEF ForkChild
      <3>4. QED
        BY <1>12, <3>2, <3>3 DEF ForkChild
    <2>4. QED
      BY <2>1, <2>2, <2>3 DEF PilotInv
  <1>13. CASE ChildStep
    <2>1. PilotTypeOK'
      <3>1. After(child) \in {"mailbox", "landlock", "exec", "seccomp", "caps"}
        BY <1>13, Zenon DEF ChildStep, After
      <3>2. Narrowed(child) \in [fs : {"all", "granted"}, net : BOOLEAN, caps : {"all", "rawio", "none"},
                                  ports : SUBSET {"invocation", "mailbox"}]
        BY <1>t, <1>13 DEF ChildStep, Narrowed, PilotTypeOK
      <3>3. QED
        BY <1>t, <1>13, <3>1, <3>2 DEF ChildStep, Quiet, PilotTypeOK
    <2>2. Gated'
      <3>1. child \in Alive
        BY <1>13 DEF ChildStep, Alive
      <3>2. QED
        BY <1>t, <1>13, <3>1 DEF ChildStep, Quiet, Gated
    <2>3. Narrowing'
      <3>0. child' = "failed" \/ (child' = After(child) /\ power' = Narrowed(child))
        BY <1>13 DEF ChildStep
      <3>1. UNCHANGED <<now, lane>> /\ child \in {"root", "mailbox", "landlock", "seccomp", "caps"}
        BY <1>13 DEF ChildStep
      <3>2. CASE child' = "failed"
        BY <3>2 DEF Narrowing
      <3>3. CASE child = "root" /\ child' = After(child) /\ power' = Narrowed(child)
        <4>1. power' = Powers("all", TRUE, "all", {})
          BY <1>t, <3>3 DEF Narrowing, Narrowed
        <4>2. child' = IF now.mailbox THEN "mailbox" ELSE IF Confined THEN "landlock" ELSE "exec"
          BY <3>3 DEF After
        <4>3. QED
          BY <3>1, <4>1, <4>2 DEF Narrowing, Powers, Lent, Confined
      <3>4. CASE child = "mailbox" /\ child' = After(child) /\ power' = Narrowed(child)
        <4>1. power' = Powers("all", TRUE, "all", {"mailbox"}) /\ now.mailbox
          <5>1. power' = [power EXCEPT !.ports = @ \cup {"mailbox"}]
            BY <3>4 DEF Narrowed
          <5>2. power = Powers("all", TRUE, "all", {}) /\ now.mailbox
            BY <1>t, <3>4 DEF Narrowing
          <5>3. QED
            BY <5>1, <5>2 DEF Powers
        <4>2. child' = IF Confined THEN "landlock" ELSE "exec"
          BY <3>4 DEF After
        <4>3. QED
          BY <3>1, <4>1, <4>2 DEF Narrowing, Powers, Lent, Confined
      <3>5. CASE child = "landlock" /\ child' = After(child) /\ power' = Narrowed(child)
        <4>1. power' = Powers("granted", TRUE, "all", Lent) /\ Confined
          <5>1. power' = [power EXCEPT !.fs = "granted"]
            BY <3>5 DEF Narrowed
          <5>2. power = Powers("all", TRUE, "all", Lent) /\ Confined
            BY <1>t, <3>5 DEF Narrowing
          <5>3. QED
            BY <5>1, <5>2 DEF Powers
        <4>2. child' = "seccomp"
          BY <3>5 DEF After
        <4>3. QED
          BY <3>1, <4>1, <4>2 DEF Narrowing, Powers, Lent, Confined, Capabilities
      <3>6. CASE child = "seccomp" /\ child' = After(child) /\ power' = Narrowed(child)
        <4>1. power' = Powers("granted", FALSE, "all", Lent) /\ Confined
          <5>1. power' = [power EXCEPT !.net = FALSE]
            BY <3>6 DEF Narrowed
          <5>2. power = Powers("granted", TRUE, "all", Lent) /\ Confined
            BY <1>t, <3>6 DEF Narrowing
          <5>3. QED
            BY <5>1, <5>2 DEF Powers
        <4>2. child' = "caps"
          BY <3>6 DEF After
        <4>3. QED
          BY <3>1, <4>1, <4>2 DEF Narrowing, Powers, Lent, Confined, Capabilities
      <3>7. CASE child = "caps" /\ child' = After(child) /\ power' = Narrowed(child)
        <4>1. power' = Powers("granted", FALSE, Capabilities, Lent) /\ Confined
          <5>1. power' = [power EXCEPT !.caps = IF now.fetch THEN "rawio" ELSE "none"]
            BY <3>7 DEF Narrowed
          <5>2. power = Powers("granted", FALSE, "all", Lent) /\ Confined
            BY <1>t, <3>7 DEF Narrowing
          <5>3. QED
            BY <5>1, <5>2 DEF Powers, Capabilities
        <4>2. child' = "exec"
          BY <3>7 DEF After
        <4>3. QED
          BY <3>1, <4>1, <4>2 DEF Narrowing, Powers, Lent, Confined, Capabilities
      <3>8. QED
        BY <3>0, <3>1, <3>2, <3>3, <3>4, <3>5, <3>6, <3>7
    <2>4. QED
      BY <2>1, <2>2, <2>3 DEF PilotInv
  <1>14. CASE Exec
    <2>1. PilotTypeOK'
      BY <1>t, <1>14 DEF Exec, Goes, Quiet, PilotTypeOK
    <2>2. Gated'
      BY <1>t, <1>14 DEF Exec, Goes, Quiet, guest, Gated, Alive, PilotTypeOK
    <2>3. Narrowing'
      BY <1>t, <1>14 DEF Exec, Narrowing, Lent, Capabilities, Confined
    <2>4. QED
      BY <2>1, <2>2, <2>3 DEF PilotInv
  <1>15. CASE WorkloadEnds
    <2>1. PilotTypeOK'
      <3>1. leftover' \in BOOLEAN
        BY <1>t, <1>15, Zenon DEF WorkloadEnds, PilotTypeOK
      <3>2. QED
        BY <1>t, <1>15, <3>1 DEF WorkloadEnds, Goes, Quiet, PilotTypeOK
    <2>2. Gated'
      BY <1>t, <1>15 DEF WorkloadEnds, Goes, Quiet, guest, Gated, Alive, PilotTypeOK
    <2>3. Narrowing'
      BY <1>15 DEF WorkloadEnds, Narrowing
    <2>4. QED
      BY <2>1, <2>2, <2>3 DEF PilotInv
  <1>16. CASE ReplacePath
    <2>1. PilotTypeOK'
      BY <1>t, <1>16 DEF ReplacePath, Goes, Quiet, PilotTypeOK
    <2>2. Gated'
      BY <1>t, <1>16 DEF ReplacePath, Goes, Quiet, guest, Gated, Alive, PilotTypeOK
    <2>3. Narrowing'
      BY <1>t, <1>16, NarrowingStays DEF ReplacePath, guest
    <2>4. QED
      BY <2>1, <2>2, <2>3 DEF PilotInv
  <1>17. CASE Forges
    <2>1. PilotTypeOK'
      BY <1>t, <1>17 DEF Forges, Quiet, guest, PilotTypeOK
    <2>2. Gated'
      BY <1>t, <1>17 DEF Forges, Goes, Quiet, guest, Gated, Alive, PilotTypeOK
    <2>3. Narrowing'
      BY <1>t, <1>17, NarrowingStays DEF Forges, guest
    <2>4. QED
      BY <2>1, <2>2, <2>3 DEF PilotInv
  <1>18. CASE Started
    <2>1. PilotTypeOK'
      BY <1>t, <1>18 DEF Started, Goes, Quiet, PilotTypeOK
    <2>2. Gated'
      BY <1>t, <1>18 DEF Started, Goes, Quiet, guest, Gated, Alive, PilotTypeOK
    <2>3. Narrowing'
      BY <1>t, <1>18, NarrowingStays DEF Started, guest
    <2>4. QED
      BY <2>1, <2>2, <2>3 DEF PilotInv
  <1>19. CASE SetupFailed
    <2>1. PilotTypeOK'
      BY <1>t, <1>19 DEF SetupFailed, Refused, Goes, Quiet, PilotTypeOK
    <2>2. Gated'
      BY <1>t, <1>19 DEF SetupFailed, Refused, Goes, Quiet, guest, Gated, Alive, PilotTypeOK
    <2>3. Narrowing'
      BY <1>t, <1>19, NarrowingStays DEF SetupFailed, Refused, guest
    <2>4. QED
      BY <2>1, <2>2, <2>3 DEF PilotInv
  <1>20. CASE Capture
    <2>1. PilotTypeOK'
      BY <1>t, <1>20, PilotAssumption DEF Capture, Quiet, PilotTypeOK
    <2>2. Gated'
      BY <1>t, <1>20 DEF Capture, Goes, Quiet, guest, Gated, Alive, PilotTypeOK
    <2>3. Narrowing'
      BY <1>t, <1>20, NarrowingStays DEF Capture, guest
    <2>4. QED
      BY <2>1, <2>2, <2>3 DEF PilotInv
  <1>21. CASE Reap
    <2>1. PilotTypeOK'
      BY <1>t, <1>21 DEF Reap, Goes, Quiet, PilotTypeOK
    <2>2. Gated'
      BY <1>t, <1>21 DEF Reap, Goes, Quiet, guest, Gated, Alive, PilotTypeOK
    <2>3. Narrowing'
      BY <1>t, <1>21, NarrowingStays DEF Reap, guest
    <2>4. QED
      BY <2>1, <2>2, <2>3 DEF PilotInv
  <1>22. CASE MachineStops
    <2>1. PilotTypeOK'
      BY <1>t, <1>22 DEF MachineStops, Quiet, guest, PilotTypeOK
    <2>2. Gated'
      BY <1>t, <1>22 DEF MachineStops, Goes, Quiet, guest, Gated, Alive, PilotTypeOK
    <2>3. Narrowing'
      BY <1>t, <1>22, NarrowingStays DEF MachineStops, guest
    <2>4. QED
      BY <2>1, <2>2, <2>3 DEF PilotInv
  <1>23. CASE Judge
    <2>1. PilotTypeOK'
      BY <1>t, <1>23 DEF Judge, Quiet, guest, PilotTypeOK
    <2>2. Gated'
      BY <1>t, <1>23 DEF Judge, Goes, Quiet, guest, Gated, Alive, PilotTypeOK
    <2>3. Narrowing'
      BY <1>t, <1>23, NarrowingStays DEF Judge, guest
    <2>4. QED
      BY <2>1, <2>2, <2>3 DEF PilotInv
  <1>24. CASE UNCHANGED pilotVars
    <2>1. PilotTypeOK' /\ Gated'
      BY <1>t, <1>24 DEF pilotVars, guest, PilotTypeOK, Gated
    <2>2. Narrowing'
      BY <1>t, <1>24, NarrowingStays DEF pilotVars, guest
    <2>3. QED
      BY <2>1, <2>2 DEF PilotInv
  <1>25. QED
    BY <1>1, <1>2, <1>3, <1>4, <1>5, <1>6, <1>7, <1>8, <1>9, <1>10, <1>11, <1>12, <1>13, <1>14, <1>15, <1>16, <1>17, <1>18, <1>19, <1>20, <1>21, <1>22, <1>23, <1>24 DEF PilotNext

(* The inductive invariant holds of every behaviour of a cell's guest. *)
THEOREM PilotInvariant == PilotSpec => []PilotInv
  <1>1. QED
    BY PilotInitial, PilotStep, PTL DEF PilotSpec

(* Pilot, its child and the child's authority have their types. *)
THEOREM PilotTyped == PilotSpec => []PilotTypeOK
  <1>1. PilotInv => PilotTypeOK
    BY DEF PilotInv
  <1>2. QED
    BY <1>1, PilotInvariant, PTL

(* What runs in a cell was permitted by the manifest and is the declared    *)
(* program where one was declared, even if its path is replaced after the   *)
(* check, and a confined child runs with exactly what its request was lent  *)
(* (guest.rs run_one, open_and_hash, exec_open_file).                       *)
THEOREM PilotRunsAttested == PilotSpec => []RunsAttested
  <1>1. PilotInv => RunsAttested
    BY DEF PilotInv, Gated, Narrowing, RunsAttested, Alive, Lent, Capabilities, Powers
  <1>2. QED
    BY <1>1, PilotInvariant, PTL

(* Frames, and what parse_report may hold while it reads them.              *)
Whats == Programs \cup {"refused", "capture", "none", "valid", "invalid", 0, 1, 9}
Frames == [kind : {"broken", "Failed", "Inputs", "Started", "Output", "Exit", "Signal"}, what : Whats]
Fields == {"grant", "inputs", "exit", "ended", "defect", "denial", "output", "decided"}
IsVerdict(v) == v = [x \in Fields |-> v[x]]

(* The values parse_report goes through: ReadReport is the last of one of   *)
(* these functions, and all of them end alike.                              *)
IsReading(frames, R) ==
    R = [n \in 0..Len(frames) |-> IF n = 0 THEN NoVerdict ELSE ReadsFrame(R[n - 1], frames[n])]
Reads(frames, v) ==
    /\ \E R : IsReading(frames, R)
    /\ \A R : IsReading(frames, R) => R[Len(frames)] = v

(* ReadReport is what is read.                                              *)
LEMMA ReadReportIs ==
    ASSUME NEW frames, NEW v, Reads(frames, v)
    PROVE  ReadReport(frames) = v
  <1> DEFINE Z == CHOOSE R : IsReading(frames, R)
  <1>1. IsReading(frames, Z)
    BY DEF Reads
  <1>2. ReadReport(frames) = Z[Len(frames)]
    BY DEF ReadReport, IsReading
  <1> HIDE DEF Z
  <1> QED
    BY <1>1, <1>2 DEF Reads

(* An empty console says nothing.                                           *)
LEMMA NothingRead == Reads(<<>>, NoVerdict)
  <1> DEFINE Z == [n \in 0..0 |-> NoVerdict]
  <1>1. Len(<<>>) = 0
    OBVIOUS
  <1>2. IsReading(<<>>, Z)
    <2>1. Z = [n \in 0..0 |-> IF n = 0 THEN NoVerdict ELSE ReadsFrame(Z[n - 1], <<>>[n])]
      OBVIOUS
    <2> QED
      BY <1>1, <2>1 DEF IsReading
  <1>3. ASSUME NEW R, IsReading(<<>>, R) PROVE R[0] = NoVerdict
    BY <1>1, <1>3 DEF IsReading
  <1> QED
    BY <1>1, <1>2, <1>3 DEF Reads

(* One frame more.                                                          *)
LEMMA ReadsAppend ==
    ASSUME NEW frames \in Seq(Frames), NEW f \in Frames, NEW v, Reads(frames, v)
    PROVE  Append(frames, f) \in Seq(Frames) /\ Reads(Append(frames, f), ReadsFrame(v, f))
  <1>1. PICK N \in Nat : N = Len(frames)
    OBVIOUS
  <1>2. PICK more \in Seq(Frames) : more = Append(frames, f)
    <2>1. Append(frames, f) \in Seq(Frames)
      OBVIOUS
    <2> QED
      BY <2>1, Zenon
  <1>3. Len(more) = N + 1 /\ more[N + 1] = f /\ \A n \in 1..N : more[n] = frames[n]
    BY <1>1, <1>2
  <1>4. \E R : IsReading(more, R)
    <2>1. PICK R : IsReading(frames, R)
      BY DEF Reads
    <2>2. R = [n \in 0..N |-> IF n = 0 THEN NoVerdict ELSE ReadsFrame(R[n - 1], frames[n])]
      BY <1>1, <2>1 DEF IsReading
    <2> DEFINE Q == [n \in 0..(N + 1) |-> IF n = N + 1 THEN ReadsFrame(R[N], f) ELSE R[n]]
    <2>3. ASSUME NEW n \in 0..(N + 1)
          PROVE  Q[n] = IF n = 0 THEN NoVerdict ELSE ReadsFrame(Q[n - 1], more[n])
      <3>1. CASE n = 0
        BY <2>2, <3>1
      <3>2. CASE n = N + 1
        BY <1>3, <3>2
      <3>3. CASE n \in 1..N
        <4>1. Q[n] = R[n] /\ Q[n - 1] = R[n - 1] /\ R[n] = ReadsFrame(R[n - 1], frames[n])
          BY <2>2, <3>3
        <4> QED
          BY <1>3, <3>3, <4>1
      <3> QED
        BY <3>1, <3>2, <3>3
    <2>4. Q = [n \in 0..(N + 1) |-> IF n = 0 THEN NoVerdict ELSE ReadsFrame(Q[n - 1], more[n])]
      BY <2>3
    <2> HIDE DEF Q
    <2> QED
      BY <1>3, <2>4 DEF IsReading
  <1>5. ASSUME NEW R, IsReading(more, R) PROVE R[N + 1] = ReadsFrame(v, f)
    <2>1. R = [n \in 0..(N + 1) |-> IF n = 0 THEN NoVerdict ELSE ReadsFrame(R[n - 1], more[n])]
      BY <1>3, <1>5 DEF IsReading
    <2> DEFINE Q == [n \in 0..N |-> R[n]]
    <2>2. ASSUME NEW n \in 0..N
          PROVE  Q[n] = IF n = 0 THEN NoVerdict ELSE ReadsFrame(Q[n - 1], frames[n])
      <3>1. CASE n = 0
        BY <2>1, <3>1
      <3>2. CASE n \in 1..N
        <4>1. Q[n] = R[n] /\ Q[n - 1] = R[n - 1] /\ R[n] = ReadsFrame(R[n - 1], more[n])
          BY <2>1, <3>2
        <4> QED
          BY <1>3, <3>2, <4>1
      <3> QED
        BY <3>1, <3>2
    <2>3. Q = [n \in 0..N |-> IF n = 0 THEN NoVerdict ELSE ReadsFrame(Q[n - 1], frames[n])]
      BY <2>2
    <2>4. Q[N] = R[N]
      OBVIOUS
    <2> HIDE DEF Q
    <2>5. Q[N] = v
      BY <1>1, <2>3 DEF IsReading, Reads
    <2>6. R[N + 1] = ReadsFrame(R[N], more[N + 1])
      BY <2>1
    <2> QED
      BY <1>3, <2>4, <2>5, <2>6
  <1> QED
    BY <1>2, <1>3, <1>4, <1>5 DEF Reads

(* What one frame does to the grant and the exit code.                      *)
LEMMA FrameEffect ==
    ASSUME NEW v, IsVerdict(v), NEW f
    PROVE  /\ IsVerdict(ReadsFrame(v, f))
           /\ ReadsFrame(v, f).grant = v.grant
              \/ (f.kind = "Started" /\ ReadsFrame(v, f).grant = f.what)
           /\ ReadsFrame(v, f).exit = v.exit
              \/ (f.kind = "Exit" /\ ReadsFrame(v, f).exit = f.what)
  <1> DEFINE w == ReadsFrame(v, f)
             c1 == v.ended \/ f.kind = "broken"
             c2 == f.kind = "Started" /\ v.grant = "none" /\ ~v.output
             c3 == f.kind = "Inputs" /\ v.inputs = "none" /\ ~v.output /\ v.grant = "none"
  <1>2. CASE w = [v EXCEPT !.defect = TRUE]
    BY <1>2 DEF IsVerdict, Fields
  <1>3. CASE c2 /\ w = [v EXCEPT !.grant = f.what]
    BY <1>3 DEF IsVerdict, Fields
  <1>4. CASE \E y : w = [v EXCEPT !.inputs = y]
    BY <1>4 DEF IsVerdict, Fields
  <1>5. CASE w = [v EXCEPT !.output = TRUE]
    BY <1>5 DEF IsVerdict, Fields
  <1>6. CASE f.kind = "Exit" /\ \E y : w = [v EXCEPT !.ended = TRUE, !.exit = f.what, !.denial = y]
    BY <1>6 DEF IsVerdict, Fields
  <1>7. CASE w = [v EXCEPT !.ended = TRUE, !.denial = TRUE]
    BY <1>7 DEF IsVerdict, Fields
  <1>8. \/ w = [v EXCEPT !.defect = TRUE]
        \/ c2 /\ w = [v EXCEPT !.grant = f.what]
        \/ \E y : w = [v EXCEPT !.inputs = y]
        \/ w = [v EXCEPT !.output = TRUE]
        \/ f.kind = "Exit" /\ \E y : w = [v EXCEPT !.ended = TRUE, !.exit = f.what, !.denial = y]
        \/ w = [v EXCEPT !.ended = TRUE, !.denial = TRUE]
    <2>1. CASE c1
      BY <2>1 DEF ReadsFrame
    <2>2. CASE ~c1 /\ c2
      BY <2>2 DEF ReadsFrame
    <2>3. CASE ~c1 /\ ~c2 /\ c3
      BY <2>3 DEF ReadsFrame
    <2>4. CASE ~c1 /\ ~c2 /\ ~c3 /\ f.kind = "Output"
      BY <2>4 DEF ReadsFrame
    <2>5. CASE ~c1 /\ ~c2 /\ ~c3 /\ f.kind = "Exit"
      BY <2>5 DEF ReadsFrame
    <2>6. CASE ~c1 /\ ~c2 /\ ~c3 /\ f.kind \notin {"Output", "Exit"}
      BY <2>6 DEF ReadsFrame
    <2> QED
      BY <2>1, <2>2, <2>3, <2>4, <2>5, <2>6
  <1> HIDE DEF w
  <1> QED
    BY <1>2, <1>3, <1>4, <1>5, <1>6, <1>7, <1>8

Executed == {"running", "exited0", "exited1", "killed"}

(* A dispatched request is the only one of its cell, it left the queue when *)
(* it was begun, and nothing it starts outlives it unconfined.              *)
Serving == {"console", "inputs", "members", "open", "gate", "fork", "setup", "capture"}
Alone ==
    /\ now.report => /\ queued \in {<<now>>, <<>>} /\ ~leftover
                     /\ pilot \in Serving => queued = <<>>
    /\ ~now.report => \A i \in DOMAIN queued : ~queued[i].report

(* What the console tells, read as parse_report does, of a dispatched       *)
(* request: a grant only of the program that is executed, an exit code 0    *)
(* only after it ended so, and nothing before the request is begun.         *)
Told(v) ==
    /\ v.grant # "none" => /\ v.grant = opened /\ child \in Executed
                           /\ pilot \in {"capture", "next", "finish"}
    /\ v.exit = 0 => /\ child = "exited0" /\ pilot \in {"next", "finish"}
                     /\ now.inputs \in {"none", "valid"}
    /\ v.exit \in {-1, 0, 1}
    /\ queued # <<>> => v.grant = "none" /\ v.exit = -1

(* The requests that got past their inputs had valid ones.                  *)
Staged == pilot \in {"members", "open", "gate", "fork", "setup", "capture"} =>
              now.inputs \in {"none", "valid"}

(* The console is what pilot and its workloads wrote, and it reads so.      *)
Console ==
    /\ console \in Seq(Frames)
    /\ \E v : /\ Reads(console, v) /\ IsVerdict(v)
              /\ now.report => Told(v)

(* The host has judged only a machine that is off.                          *)
Decided ==
    /\ verdict.decided => machine # "on"
    /\ ~verdict.decided => verdict.grant = "none"

ReportInv == Alone /\ Staged /\ Console /\ Decided /\ VerdictTrue

(* Pilot begins with an empty console.                                      *)
LEMMA ReportInitial == PilotInit => ReportInv
  <1> SUFFICES ASSUME PilotInit PROVE ReportInv
    OBVIOUS
  <1>1. Alone
    <2>1. CASE \E r \in Dispatched \cup Plain : queued = <<r>>
      <3>1. PICK r \in Dispatched \cup Plain : queued = <<r>>
        BY <2>1
      <3>2. now = r /\ queued[1] = r /\ DOMAIN queued = {1}
        BY <3>1 DEF PilotInit
      <3> QED
        BY <3>1, <3>2 DEF Alone, PilotInit, Serving
    <2>2. CASE \E r, s \in Plain : queued = <<r, s>>
      <3>1. PICK r \in Plain, s \in Plain : queued = <<r, s>>
        BY <2>2
      <3>2. now = r /\ queued[1] = r /\ queued[2] = s /\ DOMAIN queued = {1, 2}
        BY <3>1 DEF PilotInit
      <3>3. ~r.report /\ ~s.report
        BY <3>1 DEF Plain
      <3> QED
        BY <3>2, <3>3 DEF Alone
    <2> QED
      BY <2>1, <2>2 DEF PilotInit
  <1>2. Staged
    BY DEF Staged, PilotInit
  <1>3. Console
    <2>1. IsVerdict(NoVerdict) /\ NoVerdict.grant = "none" /\ NoVerdict.exit = -1
      BY DEF IsVerdict, NoVerdict, Fields
    <2>2. Told(NoVerdict)
      BY <2>1 DEF Told
    <2>3. console = <<>> /\ console \in Seq(Frames)
      BY DEF PilotInit
    <2> QED
      BY <2>1, <2>2, <2>3, NothingRead DEF Console
  <1>4. ~verdict.decided /\ verdict.grant = "none" /\ verdict.exit = -1
    BY DEF PilotInit, NoVerdict
  <1> QED
    BY <1>1, <1>2, <1>3, <1>4 DEF ReportInv, Decided, VerdictTrue, Succeeded

(* The frames a step adds: none, or one that does not tell more than is so. *)
Fair(f) ==
    /\ f \in Frames
    /\ now.report => /\ f.kind = "Started" => /\ f.what = opened' /\ child' \in Executed
                                              /\ pilot' = "capture" /\ queued' = <<>>
                     /\ f.kind = "Exit" => /\ f.what \in {0, 1} /\ queued' = <<>>
                                           /\ f.what = 0 => /\ child' = "exited0" /\ pilot' = "next"
                                                            /\ now.inputs \in {"none", "valid"}

(* A step on a running machine keeps what the console tells.                *)
LEMMA ConsoleStep ==
    ASSUME Console, now' = now,
           \A v : Told(v) /\ now.report => Told(v)',
           \/ console' = console
           \/ \E f : Fair(f) /\ console' = Append(console, f)
    PROVE  Console'
  <1>1. PICK v : Reads(console, v) /\ IsVerdict(v) /\ (now.report => Told(v))
    BY DEF Console
  <1>2. CASE console' = console
    BY <1>1, <1>2 DEF Console
  <1>3. CASE \E f : Fair(f) /\ console' = Append(console, f)
    <2>1. PICK f : Fair(f) /\ console' = Append(console, f)
      BY <1>3
    <2>2. PICK w : w = ReadsFrame(v, f)
      OBVIOUS
    <2>3. /\ console' \in Seq(Frames) /\ Reads(console', w) /\ IsVerdict(w)
          /\ w.grant = v.grant \/ (f.kind = "Started" /\ w.grant = f.what)
          /\ w.exit = v.exit \/ (f.kind = "Exit" /\ w.exit = f.what)
      BY <1>1, <2>1, <2>2, ReadsAppend, FrameEffect DEF Fair, Console
    <2>4. now.report => Told(w)'
      <3> SUFFICES ASSUME now.report PROVE Told(w)'
        OBVIOUS
      <3>1. Told(v)'
        BY <1>1
      <3> QED
        BY <3>1, <2>1, <2>3 DEF Told, Fair
    <2> QED
      BY <2>3, <2>4 DEF Console
  <1> QED
    BY <1>2, <1>3

(* The steps on a running machine, one by one.                             *)

(* Before the host judges, its verdict says nothing.                        *)
LEMMA VerdictStays ==
    ASSUME Decided, machine = "on", verdict' = verdict
    PROVE  Decided' /\ VerdictTrue'
  BY DEF Decided, VerdictTrue, Succeeded

(* The frames of pilot and of a workload.                                   *)
LEMMA FrameTypes ==
    /\ Frame("Failed", "refused") \in Frames /\ Frame("Failed", "capture") \in Frames
    /\ Frame("broken", "refused") \in Frames /\ Frame("Output", 0) \in Frames
    /\ Frame("Exit", 0) \in Frames /\ Frame("Exit", 1) \in Frames /\ Frame("Signal", 9) \in Frames
    /\ \A i \in {"none", "valid", "invalid"} : Frame("Inputs", i) \in Frames
    /\ \A q \in Programs : Frame("Started", q) \in Frames
  BY DEF Frame, Frames, Whats

(* main reads the manifest.                                                 *)
LEMMA ReportReadManifest ==
    ASSUME PilotInv, ReportInv, ReadManifest
    PROVE  ReportInv'
  <1>t. PilotTypeOK /\ Gated /\ Narrowing /\ Alone /\ Staged /\ Console /\ Decided
    BY DEF PilotInv, ReportInv
  <1>1. now' = now /\ queued' = queued /\ machine = "on" /\ verdict' = verdict
    BY DEF ReadManifest, Goes, Quiet
  <1>2. Alone' /\ Staged'
    BY <1>t, <1>1 DEF ReadManifest, Goes, Quiet, Alone, Staged, Serving, PilotTypeOK, Requests
  <1>3. \A v : Told(v) /\ now.report => Told(v)'
    BY <1>t, <1>1 DEF ReadManifest, Goes, Quiet, Told, Executed, Gated, Alive
  <1>4. console' = console \/ \E f : Fair(f) /\ console' = Append(console, f)
    BY FrameTypes DEF ReadManifest, Goes, Quiet, Fair, Frame
  <1> QED
    BY <1>t, <1>1, <1>2, <1>3, <1>4, ConsoleStep, VerdictStays DEF ReportInv

(* warm_invocation is lent its port.                                        *)
LEMMA ReportWarmGrant ==
    ASSUME PilotInv, ReportInv, WarmGrant
    PROVE  ReportInv'
  <1>t. PilotTypeOK /\ Gated /\ Narrowing /\ Alone /\ Staged /\ Console /\ Decided
    BY DEF PilotInv, ReportInv
  <1>1. now' = now /\ queued' = queued /\ machine = "on" /\ verdict' = verdict
    BY DEF WarmGrant, Goes, Quiet
  <1>2. Alone' /\ Staged'
    BY <1>t, <1>1 DEF WarmGrant, Goes, Quiet, Alone, Staged, Serving, PilotTypeOK, Requests
  <1>3. \A v : Told(v) /\ now.report => Told(v)'
    BY <1>t, <1>1 DEF WarmGrant, Goes, Quiet, Told, Executed, Gated, Alive
  <1>4. console' = console \/ \E f : Fair(f) /\ console' = Append(console, f)
    BY FrameTypes DEF WarmGrant, Goes, Quiet, Fair, Frame
  <1> QED
    BY <1>t, <1>1, <1>2, <1>3, <1>4, ConsoleStep, VerdictStays DEF ReportInv

(* warm_invocation gives it back.                                           *)
LEMMA ReportWarmRevoke ==
    ASSUME PilotInv, ReportInv, WarmRevoke
    PROVE  ReportInv'
  <1>t. PilotTypeOK /\ Gated /\ Narrowing /\ Alone /\ Staged /\ Console /\ Decided
    BY DEF PilotInv, ReportInv
  <1>1. now' = now /\ queued' = queued /\ machine = "on" /\ verdict' = verdict
    BY DEF WarmRevoke, Emit, Goes, Quiet
  <1>2. Alone' /\ Staged'
    BY <1>t, <1>1 DEF WarmRevoke, Emit, Goes, Quiet, Alone, Staged, Serving, PilotTypeOK, Requests
  <1>3. \A v : Told(v) /\ now.report => Told(v)'
    BY <1>t, <1>1 DEF WarmRevoke, Emit, Goes, Quiet, Told, Executed, Gated, Alive
  <1>4. console' = console \/ \E f : Fair(f) /\ console' = Append(console, f)
    BY FrameTypes DEF WarmRevoke, Emit, Goes, Quiet, Fair, Frame
  <1> QED
    BY <1>t, <1>1, <1>2, <1>3, <1>4, ConsoleStep, VerdictStays DEF ReportInv

(* A request of the command line.                                           *)
LEMMA ReportReadFile ==
    ASSUME PilotInv, ReportInv, ReadFile
    PROVE  ReportInv'
  <1>t. PilotTypeOK /\ Gated /\ Narrowing /\ Alone /\ Staged /\ Console /\ Decided
    BY DEF PilotInv, ReportInv
  <1>1. now' = now /\ queued' = queued /\ machine = "on" /\ verdict' = verdict
    BY DEF ReadFile, Goes, Quiet
  <1>2. Alone' /\ Staged'
    BY <1>t, <1>1 DEF ReadFile, Goes, Quiet, Alone, Staged, Serving, PilotTypeOK, Requests
  <1>3. \A v : Told(v) /\ now.report => Told(v)'
    BY <1>t, <1>1 DEF ReadFile, Goes, Quiet, Told, Executed, Gated, Alive
  <1>4. console' = console \/ \E f : Fair(f) /\ console' = Append(console, f)
    BY FrameTypes DEF ReadFile, Goes, Quiet, Fair, Frame
  <1> QED
    BY <1>t, <1>1, <1>2, <1>3, <1>4, ConsoleStep, VerdictStays DEF ReportInv

(* The guest reboots.                                                       *)
LEMMA ReportFinish ==
    ASSUME PilotInv, ReportInv, Finish
    PROVE  ReportInv'
  <1>t. PilotTypeOK /\ Gated /\ Narrowing /\ Alone /\ Staged /\ Console /\ Decided
    BY DEF PilotInv, ReportInv
  <1>1. now' = now /\ queued' = queued /\ machine = "on" /\ verdict' = verdict
    BY DEF Finish, guest, Goes, Quiet
  <1>2. Alone' /\ Staged'
    BY <1>t, <1>1 DEF Finish, guest, Goes, Quiet, Alone, Staged, Serving, PilotTypeOK, Requests
  <1>3. \A v : Told(v) /\ now.report => Told(v)'
    BY <1>t, <1>1 DEF Finish, guest, Goes, Quiet, Told, Executed, Gated, Alive
  <1>4. console' = console \/ \E f : Fair(f) /\ console' = Append(console, f)
    BY FrameTypes DEF Finish, guest, Goes, Quiet, Fair, Frame
  <1> QED
    BY <1>t, <1>1, <1>2, <1>3, <1>4, ConsoleStep, VerdictStays DEF ReportInv

(* run_one silences the kernel.                                             *)
LEMMA ReportSilenceKernel ==
    ASSUME PilotInv, ReportInv, SilenceKernel
    PROVE  ReportInv'
  <1>t. PilotTypeOK /\ Gated /\ Narrowing /\ Alone /\ Staged /\ Console /\ Decided
    BY DEF PilotInv, ReportInv
  <1>1. now' = now /\ queued' = queued /\ machine = "on" /\ verdict' = verdict
    BY DEF SilenceKernel, Refused, Emit, Goes, Quiet
  <1>2. Alone' /\ Staged'
    BY <1>t, <1>1 DEF SilenceKernel, Refused, Emit, Goes, Quiet, Alone, Staged, Serving, PilotTypeOK, Requests
  <1>3. \A v : Told(v) /\ now.report => Told(v)'
    BY <1>t, <1>1 DEF SilenceKernel, Refused, Emit, Goes, Quiet, Told, Executed, Gated, Alive
  <1>4. console' = console \/ \E f : Fair(f) /\ console' = Append(console, f)
    BY FrameTypes DEF SilenceKernel, Refused, Emit, Goes, Quiet, Fair, Frame
  <1> QED
    BY <1>t, <1>1, <1>2, <1>3, <1>4, ConsoleStep, VerdictStays DEF ReportInv

(* stage_inputs.                                                            *)
LEMMA ReportStageInputs ==
    ASSUME PilotInv, ReportInv, StageInputs
    PROVE  ReportInv'
  <1>t. PilotTypeOK /\ Gated /\ Narrowing /\ Alone /\ Staged /\ Console /\ Decided
    BY DEF PilotInv, ReportInv
  <1>1. now' = now /\ queued' = queued /\ machine = "on" /\ verdict' = verdict
    BY DEF StageInputs, Refused, Emit, Goes, Quiet
  <1>2. Alone' /\ Staged'
    BY <1>t, <1>1 DEF StageInputs, Refused, Emit, Goes, Quiet, Alone, Staged, Serving, PilotTypeOK, Requests
  <1>3. \A v : Told(v) /\ now.report => Told(v)'
    BY <1>t, <1>1 DEF StageInputs, Refused, Emit, Goes, Quiet, Told, Executed, Gated, Alive
  <1>4. console' = console \/ \E f : Fair(f) /\ console' = Append(console, f)
    <2>1. CASE console' = console
      BY <2>1
    <2>2. CASE \E f \in {Frame("Inputs", now.inputs), Frame("Failed", "refused")} : console' = Append(console, f)
      <3>1. now.inputs \in {"none", "valid", "invalid"}
        BY <1>t DEF PilotTypeOK, Requests
      <3> QED
        BY <2>2, <3>1, FrameTypes DEF Fair, Frame
    <2> QED
      BY <2>1, <2>2 DEF StageInputs, Refused, Emit
  <1> QED
    BY <1>t, <1>1, <1>2, <1>3, <1>4, ConsoleStep, VerdictStays DEF ReportInv

(* The members of the closure.                                              *)
LEMMA ReportCheckMembers ==
    ASSUME PilotInv, ReportInv, CheckMembers
    PROVE  ReportInv'
  <1>t. PilotTypeOK /\ Gated /\ Narrowing /\ Alone /\ Staged /\ Console /\ Decided
    BY DEF PilotInv, ReportInv
  <1>1. now' = now /\ queued' = queued /\ machine = "on" /\ verdict' = verdict
    BY DEF CheckMembers, Refused, Emit, Goes, Quiet
  <1>2. Alone' /\ Staged'
    BY <1>t, <1>1 DEF CheckMembers, Refused, Emit, Goes, Quiet, Alone, Staged, Serving, PilotTypeOK, Requests
  <1>3. \A v : Told(v) /\ now.report => Told(v)'
    BY <1>t, <1>1 DEF CheckMembers, Refused, Emit, Goes, Quiet, Told, Executed, Gated, Alive
  <1>4. console' = console \/ \E f : Fair(f) /\ console' = Append(console, f)
    BY FrameTypes DEF CheckMembers, Refused, Emit, Goes, Quiet, Fair, Frame
  <1> QED
    BY <1>t, <1>1, <1>2, <1>3, <1>4, ConsoleStep, VerdictStays DEF ReportInv

(* open_and_hash: no program was executed before it.                        *)
LEMMA ReportOpenAndHash ==
    ASSUME PilotInv, ReportInv, OpenAndHash
    PROVE  ReportInv'
  <1>t. PilotTypeOK /\ Gated /\ Narrowing /\ Alone /\ Staged /\ Console /\ Decided
    BY DEF PilotInv, ReportInv
  <1>1. now' = now /\ queued' = queued /\ machine = "on" /\ verdict' = verdict
    BY DEF OpenAndHash, Refused, Emit, Goes, Quiet
  <1>2. Alone' /\ Staged'
    BY <1>t, <1>1 DEF OpenAndHash, Refused, Emit, Goes, Quiet, Alone, Staged, Serving, PilotTypeOK, Requests
  <1>3. \A v : Told(v) /\ now.report => Told(v)'
    BY <1>t, <1>1 DEF OpenAndHash, Refused, Emit, Goes, Quiet, Told, Executed, Gated, Alive
  <1>4. console' = console \/ \E f : Fair(f) /\ console' = Append(console, f)
    BY FrameTypes DEF OpenAndHash, Refused, Emit, Goes, Quiet, Fair, Frame
  <1> QED
    BY <1>t, <1>1, <1>2, <1>3, <1>4, ConsoleStep, VerdictStays DEF ReportInv

(* The gate.                                                                *)
LEMMA ReportGate ==
    ASSUME PilotInv, ReportInv, Gate
    PROVE  ReportInv'
  <1>t. PilotTypeOK /\ Gated /\ Narrowing /\ Alone /\ Staged /\ Console /\ Decided
    BY DEF PilotInv, ReportInv
  <1>1. now' = now /\ queued' = queued /\ machine = "on" /\ verdict' = verdict
    BY DEF Gate, Refused, Emit, Goes, Quiet
  <1>2. Alone' /\ Staged'
    BY <1>t, <1>1 DEF Gate, Refused, Emit, Goes, Quiet, Alone, Staged, Serving, PilotTypeOK, Requests
  <1>3. \A v : Told(v) /\ now.report => Told(v)'
    BY <1>t, <1>1 DEF Gate, Refused, Emit, Goes, Quiet, Told, Executed, Gated, Alive
  <1>4. console' = console \/ \E f : Fair(f) /\ console' = Append(console, f)
    BY FrameTypes DEF Gate, Refused, Emit, Goes, Quiet, Fair, Frame
  <1> QED
    BY <1>t, <1>1, <1>2, <1>3, <1>4, ConsoleStep, VerdictStays DEF ReportInv

(* The fork: pilot has had no child for this request.                       *)
LEMMA ReportForkChild ==
    ASSUME PilotInv, ReportInv, ForkChild
    PROVE  ReportInv'
  <1>t. PilotTypeOK /\ Gated /\ Narrowing /\ Alone /\ Staged /\ Console /\ Decided
    BY DEF PilotInv, ReportInv
  <1>1. now' = now /\ queued' = queued /\ machine = "on" /\ verdict' = verdict
    BY DEF ForkChild, Refused, Emit, Goes, Quiet
  <1>2. Alone' /\ Staged'
    BY <1>t, <1>1 DEF ForkChild, Refused, Emit, Goes, Quiet, Alone, Staged, Serving, PilotTypeOK, Requests
  <1>3. \A v : Told(v) /\ now.report => Told(v)'
    BY <1>t, <1>1 DEF ForkChild, Refused, Emit, Goes, Quiet, Told, Executed, Gated, Alive
  <1>4. console' = console \/ \E f : Fair(f) /\ console' = Append(console, f)
    BY FrameTypes DEF ForkChild, Refused, Emit, Goes, Quiet, Fair, Frame
  <1> QED
    BY <1>t, <1>1, <1>2, <1>3, <1>4, ConsoleStep, VerdictStays DEF ReportInv

(* A step of the child towards exec.                                        *)
LEMMA ReportChildStep ==
    ASSUME PilotInv, ReportInv, ChildStep
    PROVE  ReportInv'
  <1>t. PilotTypeOK /\ Gated /\ Narrowing /\ Alone /\ Staged /\ Console /\ Decided
    BY DEF PilotInv, ReportInv
  <1>1. now' = now /\ queued' = queued /\ machine = "on" /\ verdict' = verdict
    BY DEF ChildStep, Goes, Quiet
  <1>2. Alone' /\ Staged'
    BY <1>t, <1>1 DEF ChildStep, Goes, Quiet, Alone, Staged, Serving, PilotTypeOK, Requests
  <1>3. \A v : Told(v) /\ now.report => Told(v)'
    BY <1>t, <1>1 DEF ChildStep, Goes, Quiet, Told, Executed, Gated, Alive
  <1>4. console' = console \/ \E f : Fair(f) /\ console' = Append(console, f)
    BY FrameTypes DEF ChildStep, Goes, Quiet, Fair, Frame
  <1> QED
    BY <1>t, <1>1, <1>2, <1>3, <1>4, ConsoleStep, VerdictStays DEF ReportInv

(* execveat.                                                                *)
LEMMA ReportExec ==
    ASSUME PilotInv, ReportInv, Exec
    PROVE  ReportInv'
  <1>t. PilotTypeOK /\ Gated /\ Narrowing /\ Alone /\ Staged /\ Console /\ Decided
    BY DEF PilotInv, ReportInv
  <1>1. now' = now /\ queued' = queued /\ machine = "on" /\ verdict' = verdict
    BY DEF Exec, Goes, Quiet
  <1>2. Alone' /\ Staged'
    BY <1>t, <1>1 DEF Exec, Goes, Quiet, Alone, Staged, Serving, PilotTypeOK, Requests
  <1>3. \A v : Told(v) /\ now.report => Told(v)'
    BY <1>t, <1>1 DEF Exec, Goes, Quiet, Told, Executed, Gated, Alive
  <1>4. console' = console \/ \E f : Fair(f) /\ console' = Append(console, f)
    BY FrameTypes DEF Exec, Goes, Quiet, Fair, Frame
  <1> QED
    BY <1>t, <1>1, <1>2, <1>3, <1>4, ConsoleStep, VerdictStays DEF ReportInv

(* The workload ends; a dispatched one was confined.                        *)
LEMMA ReportWorkloadEnds ==
    ASSUME PilotInv, ReportInv, WorkloadEnds
    PROVE  ReportInv'
  <1>t. PilotTypeOK /\ Gated /\ Narrowing /\ Alone /\ Staged /\ Console /\ Decided
    BY DEF PilotInv, ReportInv
  <1>1. now' = now /\ queued' = queued /\ machine = "on" /\ verdict' = verdict
    BY DEF WorkloadEnds, Goes, Quiet
  <1>2. Alone' /\ Staged'
    <2>1. now.report => ~leftover'
      BY <1>t DEF WorkloadEnds, Alone, Confined
    <2> QED
      BY <1>t, <1>1, <2>1 DEF Alone, Staged, Serving, WorkloadEnds
  <1>3. \A v : Told(v) /\ now.report => Told(v)'
    BY <1>t, <1>1 DEF WorkloadEnds, Goes, Quiet, Told, Executed, Gated, Alive
  <1>4. console' = console \/ \E f : Fair(f) /\ console' = Append(console, f)
    BY FrameTypes DEF WorkloadEnds, Goes, Quiet, Fair, Frame
  <1> QED
    BY <1>t, <1>1, <1>2, <1>3, <1>4, ConsoleStep, VerdictStays DEF ReportInv

(* A path is replaced.                                                      *)
LEMMA ReportReplacePath ==
    ASSUME PilotInv, ReportInv, ReplacePath
    PROVE  ReportInv'
  <1>t. PilotTypeOK /\ Gated /\ Narrowing /\ Alone /\ Staged /\ Console /\ Decided
    BY DEF PilotInv, ReportInv
  <1>1. now' = now /\ queued' = queued /\ machine = "on" /\ verdict' = verdict
    BY DEF ReplacePath, Goes, Quiet
  <1>2. Alone' /\ Staged'
    BY <1>t, <1>1 DEF ReplacePath, Goes, Quiet, Alone, Staged, Serving, PilotTypeOK, Requests
  <1>3. \A v : Told(v) /\ now.report => Told(v)'
    BY <1>t, <1>1 DEF ReplacePath, Goes, Quiet, Told, Executed, Gated, Alive
  <1>4. console' = console \/ \E f : Fair(f) /\ console' = Append(console, f)
    BY FrameTypes DEF ReplacePath, Goes, Quiet, Fair, Frame
  <1> QED
    BY <1>t, <1>1, <1>2, <1>3, <1>4, ConsoleStep, VerdictStays DEF ReportInv

(* Only a workload of the command line can write to the console.            *)
LEMMA ReportForges ==
    ASSUME PilotInv, ReportInv, Forges
    PROVE  ReportInv'
  <1>t. PilotTypeOK /\ Gated /\ Narrowing /\ Alone /\ Staged /\ Console /\ Decided
    BY DEF PilotInv, ReportInv
  <1>1. now' = now /\ queued' = queued /\ machine = "on" /\ verdict' = verdict
    BY DEF Forges, guest, Goes, Quiet
  <1>2. Alone' /\ Staged'
    BY <1>t, <1>1 DEF Forges, guest, Goes, Quiet, Alone, Staged, Serving, PilotTypeOK, Requests
  <1>3. \A v : Told(v) /\ now.report => Told(v)'
    BY <1>t, <1>1 DEF Forges, guest, Goes, Quiet, Told, Executed, Gated, Alive
  <1>4. \E f : Fair(f) /\ console' = Append(console, f)
    <2>1. ~now.report
      <3>1. SUFFICES ASSUME now.report PROVE FALSE
        OBVIOUS
      <3>2. child = "running" /\ power.fs = "all"
        BY <1>t, <3>1 DEF Forges, Unconfined, Alone
      <3> QED
        BY <1>t, <3>1, <3>2 DEF Narrowing, Confined, Powers
    <2>2. PICK f \in {Frame("Started", Declared), Frame("Exit", 0)} : console' = Append(console, f)
      BY DEF Forges
    <2> QED
      BY <2>1, <2>2, FrameTypes, PilotAssumption DEF Fair
  <1> QED
    BY <1>t, <1>1, <1>2, <1>3, <1>4, ConsoleStep, VerdictStays DEF ReportInv

(* The exec is acknowledged.                                                *)
LEMMA ReportStarted ==
    ASSUME PilotInv, ReportInv, Started
    PROVE  ReportInv'
  <1>t. PilotTypeOK /\ Gated /\ Narrowing /\ Alone /\ Staged /\ Console /\ Decided
    BY DEF PilotInv, ReportInv
  <1>1. now' = now /\ queued' = queued /\ machine = "on" /\ verdict' = verdict
    BY DEF Started, Emit, Goes, Quiet
  <1>b. now.report => queued = <<>>
    BY <1>t DEF Started, Alone, Serving
  <1>2. Alone' /\ Staged'
    BY <1>t, <1>1 DEF Started, Emit, Goes, Quiet, Alone, Staged, Serving, PilotTypeOK, Requests
  <1>3. \A v : Told(v) /\ now.report => Told(v)'
    BY <1>t, <1>1 DEF Started, Emit, Goes, Quiet, Told, Executed, Gated, Alive
  <1>4. console' = console \/ \E f : Fair(f) /\ console' = Append(console, f)
    <2>1. CASE ~now.report
      BY <2>1 DEF Started, Emit
    <2>2. CASE now.report
      <3>1. console' = Append(console, Frame("Started", opened)) /\ opened \in Programs
        BY <1>t, <2>2 DEF Started, Emit, PilotTypeOK
      <3>2. queued = <<>>
        BY <1>t, <2>2, <1>b DEF Started
      <3>3. Fair(Frame("Started", opened))
        BY <3>1, <3>2, FrameTypes DEF Fair, Frame, Started, Goes, Executed
      <3> QED
        BY <3>1, <3>3
    <2> QED
      BY <2>1, <2>2
  <1> QED
    BY <1>t, <1>1, <1>2, <1>3, <1>4, ConsoleStep, VerdictStays DEF ReportInv

(* The child failed before exec.                                            *)
LEMMA ReportSetupFailed ==
    ASSUME PilotInv, ReportInv, SetupFailed
    PROVE  ReportInv'
  <1>t. PilotTypeOK /\ Gated /\ Narrowing /\ Alone /\ Staged /\ Console /\ Decided
    BY DEF PilotInv, ReportInv
  <1>1. now' = now /\ queued' = queued /\ machine = "on" /\ verdict' = verdict
    BY DEF SetupFailed, Refused, Emit, Goes, Quiet
  <1>2. Alone' /\ Staged'
    BY <1>t, <1>1 DEF SetupFailed, Refused, Emit, Goes, Quiet, Alone, Staged, Serving, PilotTypeOK, Requests
  <1>3. \A v : Told(v) /\ now.report => Told(v)'
    BY <1>t, <1>1 DEF SetupFailed, Refused, Emit, Goes, Quiet, Told, Executed, Gated, Alive
  <1>4. console' = console \/ \E f : Fair(f) /\ console' = Append(console, f)
    BY FrameTypes DEF SetupFailed, Refused, Emit, Goes, Quiet, Fair, Frame
  <1> QED
    BY <1>t, <1>1, <1>2, <1>3, <1>4, ConsoleStep, VerdictStays DEF ReportInv

(* Output.                                                                  *)
LEMMA ReportCapture ==
    ASSUME PilotInv, ReportInv, Capture
    PROVE  ReportInv'
  <1>t. PilotTypeOK /\ Gated /\ Narrowing /\ Alone /\ Staged /\ Console /\ Decided
    BY DEF PilotInv, ReportInv
  <1>1. now' = now /\ queued' = queued /\ machine = "on" /\ verdict' = verdict
    BY DEF Capture, Emit, Goes, Quiet
  <1>2. Alone' /\ Staged'
    BY <1>t, <1>1 DEF Capture, Emit, Goes, Quiet, Alone, Staged, Serving, PilotTypeOK, Requests
  <1>3. \A v : Told(v) /\ now.report => Told(v)'
    BY <1>t, <1>1 DEF Capture, Emit, Goes, Quiet, Told, Executed, Gated, Alive
  <1>4. console' = console \/ \E f : Fair(f) /\ console' = Append(console, f)
    BY FrameTypes DEF Capture, Emit, Goes, Quiet, Fair, Frame
  <1> QED
    BY <1>t, <1>1, <1>2, <1>3, <1>4, ConsoleStep, VerdictStays DEF ReportInv

(* The end of the workload is reported.                                     *)
LEMMA ReportReap ==
    ASSUME PilotInv, ReportInv, Reap
    PROVE  ReportInv'
  <1>t. PilotTypeOK /\ Gated /\ Narrowing /\ Alone /\ Staged /\ Console /\ Decided
    BY DEF PilotInv, ReportInv
  <1>1. now' = now /\ queued' = queued /\ machine = "on" /\ verdict' = verdict
    BY DEF Reap, Emit, Goes, Quiet
  <1>b. now.report => queued = <<>>
    BY <1>t DEF Reap, Alone, Serving
  <1>2. Alone' /\ Staged'
    BY <1>t, <1>1 DEF Reap, Emit, Goes, Quiet, Alone, Staged, Serving, PilotTypeOK, Requests
  <1>3. \A v : Told(v) /\ now.report => Told(v)'
    BY <1>t, <1>1 DEF Reap, Emit, Goes, Quiet, Told, Executed, Gated, Alive
  <1>4. console' = console \/ \E f : Fair(f) /\ console' = Append(console, f)
    <2>1. CASE ~now.report
      BY <2>1 DEF Reap, Emit
    <2>2. CASE now.report
      <3>1. queued' = <<>> /\ now.inputs \in {"none", "valid"} /\ child' = child /\ pilot' = "next"
        BY <1>t, <2>2, <1>b DEF Reap, Staged, Goes
      <3>2. PICK f \in {Frame("Exit", 0), Frame("Exit", 1), Frame("Signal", 9), Frame("Failed", "capture")} :
                console' = Append(console, f) /\ (f = Frame("Exit", 0) => child = "exited0")
        BY <2>2 DEF Reap, Emit, Frame
      <3>3. Fair(f)
        BY <3>1, <3>2, FrameTypes DEF Fair, Frame
      <3> QED
        BY <3>2, <3>3
    <2> QED
      BY <2>1, <2>2
  <1> QED
    BY <1>t, <1>1, <1>2, <1>3, <1>4, ConsoleStep, VerdictStays DEF ReportInv

(* The cell is stopped.                                                     *)
LEMMA ReportMachineStops ==
    ASSUME PilotInv, ReportInv, MachineStops
    PROVE  ReportInv'
  <1>t. PilotTypeOK /\ Gated /\ Narrowing /\ Alone /\ Staged /\ Console /\ Decided
    BY DEF PilotInv, ReportInv
  <1>1. now' = now /\ queued' = queued /\ machine = "on" /\ verdict' = verdict
    BY DEF MachineStops, guest, Goes, Quiet
  <1>2. Alone' /\ Staged'
    BY <1>t, <1>1 DEF MachineStops, guest, Goes, Quiet, Alone, Staged, Serving, PilotTypeOK, Requests
  <1>3. \A v : Told(v) /\ now.report => Told(v)'
    BY <1>t, <1>1 DEF MachineStops, guest, Goes, Quiet, Told, Executed, Gated, Alive
  <1>4. console' = console \/ \E f : Fair(f) /\ console' = Append(console, f)
    BY FrameTypes DEF MachineStops, guest, Goes, Quiet, Fair, Frame
  <1> QED
    BY <1>t, <1>1, <1>2, <1>3, <1>4, ConsoleStep, VerdictStays DEF ReportInv

(* The next request: a dispatched one was the first, and had not been told   *)
(* of.                                                                      *)
LEMMA ReportNextRequest ==
    ASSUME PilotInv, ReportInv, NextRequest
    PROVE  ReportInv'
  <1>t. PilotTypeOK /\ Alone /\ Staged /\ Console /\ Decided
    BY DEF PilotInv, ReportInv
  <1>1. machine = "on" /\ verdict' = verdict /\ leftover' = leftover /\ opened' = opened
    BY DEF NextRequest, Quiet
  <1>2. CASE queued = <<>>
    <2>1. now' = now /\ queued' = queued /\ console' = console /\ child' = child
          /\ pilot = "next" /\ pilot' = "finish"
      BY <1>2 DEF NextRequest, Goes
    <2>2. Alone' /\ Staged'
      BY <1>t, <1>1, <2>1 DEF Alone, Staged, Serving
    <2>3. \A v : Told(v) /\ now.report => Told(v)'
      BY <1>1, <2>1 DEF Told
    <2> QED
      BY <1>t, <1>1, <2>1, <2>2, <2>3, ConsoleStep, VerdictStays DEF ReportInv
  <1>3. CASE queued # <<>> /\ now.report
    <2>1. queued = <<now>>
      BY <1>t, <1>3 DEF Alone
    <2>2. Head(queued) = now /\ Tail(queued) = <<>>
      BY <2>1
    <2>3. now' = now /\ queued' = <<>> /\ pilot' \in {"console", "next"}
      BY <1>3, <2>2 DEF NextRequest, Goes
    <2>4. Alone' /\ Staged'
      BY <1>t, <1>1, <2>3 DEF Alone, Staged, Serving
    <2>5. \A v : Told(v) /\ now.report => Told(v)'
      BY <1>1, <1>3, <2>3 DEF Told
    <2>6. console' = console \/ \E f : Fair(f) /\ console' = Append(console, f)
      BY <1>3, FrameTypes DEF NextRequest, Fair, Frame
    <2> QED
      BY <1>t, <1>1, <2>3, <2>4, <2>5, <2>6, ConsoleStep, VerdictStays DEF ReportInv
  <1>4. CASE queued # <<>> /\ ~now.report
    <2>1. 1 \in DOMAIN queued /\ Head(queued) = queued[1]
      BY <1>t, <1>4 DEF PilotTypeOK
    <2>2. ~Head(queued).report
      BY <1>t, <1>4, <2>1 DEF Alone
    <2>3. now' = Head(queued) /\ queued' = Tail(queued) /\ console' = console /\ pilot' = "console"
      BY <1>4, <2>2 DEF NextRequest, Goes
    <2>4. \A i \in DOMAIN Tail(queued) : i + 1 \in DOMAIN queued /\ Tail(queued)[i] = queued[i + 1]
      BY <1>t, <1>4 DEF PilotTypeOK
    <2>5. Alone' /\ Staged'
      BY <1>t, <1>4, <2>2, <2>3, <2>4 DEF Alone, Staged
    <2>6. Console'
      BY <1>t, <2>2, <2>3 DEF Console
    <2> QED
      BY <1>t, <1>1, <2>5, <2>6, VerdictStays DEF ReportInv
  <1> QED
    BY <1>2, <1>3, <1>4

(* run_cell reads the console of a machine that is off.                     *)
LEMMA ReportJudge ==
    ASSUME PilotInv, ReportInv, Judge
    PROVE  ReportInv'
  <1>t. PilotTypeOK /\ Alone /\ Staged /\ Console /\ Decided
    BY DEF PilotInv, ReportInv
  <1>1. now' = now /\ queued' = queued /\ pilot' = pilot /\ opened' = opened /\ child' = child
        /\ leftover' = leftover /\ console' = console /\ machine' = machine /\ machine # "on" /\ now.report
    BY DEF Judge, guest
  <1>2. Alone' /\ Staged'
    BY <1>t, <1>1 DEF Alone, Staged
  <1>3. Console'
    <2>1. \A v : Told(v) /\ now.report => Told(v)'
      BY <1>1 DEF Told
    <2> QED
      BY <1>t, <1>1, <2>1, ConsoleStep
  <1>4. PICK v : v = ReadReport(console) /\ IsVerdict(v) /\ Told(v)
    BY <1>t, <1>1, ReadReportIs DEF Console
  <1>5. PICK r : r = ParseReport
    OBVIOUS
  <1>6. /\ IsVerdict(r)
        /\ \/ r.grant = "none" /\ r.exit = -1
           \/ r.grant = v.grant /\ r.exit = v.exit
    <2>1. CASE v.defect
      <3>1. r = [v EXCEPT !.denial = TRUE, !.grant = "none", !.inputs = "none", !.exit = -1]
        BY <1>4, <1>5, <2>1 DEF ParseReport
      <3> QED
        BY <1>4, <3>1 DEF IsVerdict, Fields
    <2>2. CASE ~v.defect
      <3>1. \E y : r = [v EXCEPT !.denial = y]
        BY <1>4, <1>5, <2>2 DEF ParseReport
      <3> QED
        BY <1>4, <3>1 DEF IsVerdict, Fields
    <2> QED
      BY <2>1, <2>2
  <1>7. PICK cancelled \in BOOLEAN : verdict' = Judged(r, now, cancelled)
    BY <1>5 DEF Judge
  <1> DEFINE denied == \/ r.denial \/ cancelled
                       \/ r.grant = "none" /\ r.exit >= 0
                       \/ r.grant # "none" /\ r.grant # Declared
                       \/ (r.inputs = "valid") # (now.inputs = "valid")
  <1>8. verdict' = [r EXCEPT !.denial = denied, !.decided = TRUE,
                             !.grant = IF r.grant = Declared THEN r.grant ELSE "none"]
    BY <1>6, <1>7 DEF Judged, IsVerdict, Fields
  <1>9. /\ verdict'.denial = denied /\ verdict'.decided = TRUE /\ verdict'.exit = r.exit
        /\ verdict'.grant = IF r.grant = Declared THEN r.grant ELSE "none"
    BY <1>6, <1>8 DEF IsVerdict, Fields
  <1>10. Decided'
    BY <1>1, <1>9 DEF Decided
  <1>11. verdict'.grant # "none" => verdict'.grant = opened /\ child \in Executed
    BY <1>4, <1>6, <1>9 DEF Told
  <1>12. Succeeded(verdict') => child = "exited0" /\ opened = Declared /\ now.inputs \in {"none", "valid"}
    <2> SUFFICES ASSUME Succeeded(verdict')
                 PROVE  child = "exited0" /\ opened = Declared /\ now.inputs \in {"none", "valid"}
      OBVIOUS
    <2>1. r.exit = 0 /\ ~denied
      BY <1>9 DEF Succeeded
    <2>2. r.grant # "none" /\ r.grant = Declared
      BY <2>1
    <2>3. v.exit = 0 /\ v.grant = r.grant
      BY <1>6, <2>1, <2>2
    <2> QED
      BY <1>4, <2>2, <2>3 DEF Told
  <1>13. VerdictTrue'
    BY <1>1, <1>11, <1>12 DEF VerdictTrue, Executed, Succeeded
  <1> QED
    BY <1>2, <1>3, <1>10, <1>13 DEF ReportInv

(* Every step keeps what the console and the verdict tell.                  *)
LEMMA ReportStep == PilotInv /\ ReportInv /\ [PilotNext]_pilotVars => ReportInv'
  <1> SUFFICES ASSUME PilotInv, ReportInv, [PilotNext]_pilotVars PROVE ReportInv'
    OBVIOUS
  <1>1. CASE PilotNext
    BY <1>1, ReportReadManifest, ReportWarmGrant, ReportWarmRevoke, ReportReadFile, ReportFinish,
       ReportSilenceKernel, ReportStageInputs, ReportCheckMembers, ReportOpenAndHash, ReportGate,
       ReportForkChild, ReportChildStep, ReportExec, ReportWorkloadEnds, ReportReplacePath,
       ReportForges, ReportStarted, ReportSetupFailed, ReportCapture, ReportReap,
       ReportMachineStops, ReportNextRequest, ReportJudge DEF PilotNext
  <1>2. CASE UNCHANGED pilotVars
    <2>1. /\ now' = now /\ queued' = queued /\ pilot' = pilot /\ opened' = opened /\ child' = child
          /\ leftover' = leftover /\ console' = console /\ machine' = machine /\ verdict' = verdict
      BY <1>2 DEF pilotVars, guest
    <2>2. \A v : Told(v) /\ now.report => Told(v)'
      BY <2>1 DEF Told
    <2>3. Console'
      BY <2>1, <2>2, ConsoleStep DEF ReportInv
    <2> QED
      BY <2>1, <2>3 DEF ReportInv, Alone, Staged, Decided, VerdictTrue
  <1> QED
    BY <1>1, <1>2

(* "Only pilot frames carry a verdict": the host calls a dispatched request *)
(* a success only if the declared program was executed to exit code 0 with  *)
(* its inputs, and names a grant only of the program that was executed,     *)
(* wherever the guest failed or was stopped and whatever was printed        *)
(* (dispatch_outcome.rs parse_report, dispatch.rs run_cell_with_broker).    *)
THEOREM PilotVerdictTrue == PilotSpec => []VerdictTrue
  <1>1. PilotInit => ReportInv
    BY ReportInitial
  <1>2. PilotInv /\ ReportInv /\ [PilotNext]_pilotVars => ReportInv'
    BY ReportStep
  <1>3. ReportInv => VerdictTrue
    BY DEF ReportInv
  <1> QED
    BY <1>1, <1>2, <1>3, PilotInvariant, PTL DEF PilotSpec
===============================================================================
