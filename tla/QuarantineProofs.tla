-------------------------- MODULE QuarantineProofs --------------------------
(***************************************************************************)
(* Proofs about Quarantine, for any number of quarantine ids, files,       *)
(* failed writes and crashes: no file is in two places or, unless the      *)
(* workload used the path during a call, in none, and what was reported as *)
(* quarantined can be restored.                                            *)
(***************************************************************************)
EXTENDS Quarantine, TLAPS

Inv == QuarantineInv /\ ReportedIsRestorable

NoCall == {"idle", "down", "boot", "refused"}

LEMMA QuarantineInitInv == Init => Inv
<1> SUFFICES ASSUME Init PROVE Inv
  OBVIOUS
<1>1. QuarantineTypeOK
  <2>1. /\ source \in 0..made /\ objects \in [Ids -> 0..made] /\ 0 \in Files
        /\ made \in Files /\ alive \subseteq 1..made
    BY QuarantineAssumption DEF Init, Files
  <2>2. NoManifest \in [status : {"none", "torn", "PREPARED", "COMMITTED", "RESTORED"}, file : Files]
    BY <2>1 DEF NoManifest
  <2>3. op \in [stage : Stages, id : Ids \cup {"none"}, file : Files]
    BY <2>1 DEF Init, Idle, Stages
  <2>4. Stored = {}
    BY DEF Init, Stored
  <2>5. /\ todo = {} /\ failed = FALSE /\ reported = {} /\ restoring = {} /\ raced = FALSE
        /\ manifests \in [Ids -> [status : {"none", "torn", "PREPARED", "COMMITTED", "RESTORED"},
                                   file : Files]]
    BY <2>2 DEF Init
  <2> QED BY <2>1, <2>3, <2>4, <2>5 DEF QuarantineTypeOK
<1>2. NeverLost
  BY DEF Init, NeverLost, Findable
<1>3. CallView
  BY DEF Init, CallView, Idle
<1> QED BY <1>1, <1>2, <1>3 DEF Init, Inv, QuarantineInv, ReportedIsRestorable

(* The call goes on and touches nothing. *)
LEMMA CallOnly ==
    ASSUME Inv, NEW o \in [stage : Stages, id : Ids \cup {"none"}, file : Files], op' = o,
           CallView', todo' \subseteq Ids, failed' \in BOOLEAN,
           UNCHANGED <<source, objects, manifests, made, alive, reported, restoring, raced>>
    PROVE  Inv'
<1>1. QuarantineTypeOK'
  BY DEF Inv, QuarantineInv, QuarantineTypeOK, Stored
<1>2. NeverLost'
  BY DEF Inv, QuarantineInv, NeverLost, Findable
<1>3. ReportedIsRestorable'
  BY DEF Inv, ReportedIsRestorable
<1> QED BY <1>1, <1>2, <1>3 DEF Inv, QuarantineInv

LEMMA QuarantineStartInv ==
    ASSUME Inv, NEW q \in Ids, NEW f \in Files, QuarantineStart(q, f)
    PROVE  Inv'
<1> DEFINE o == [stage |-> "qcreate", id |-> q, file |-> f]
<1>1. /\ op' = o /\ f # 0 /\ source = f /\ objects[q] = 0 /\ manifests[q] = NoManifest
      /\ UNCHANGED <<source, objects, manifests, made, alive, reported, restoring, raced, todo, failed>>
  BY DEF QuarantineStart, Quiet, Rest, files
<1>2. /\ o \in [stage : Stages, id : Ids \cup {"none"}, file : Files]
      /\ o.stage = "qcreate" /\ o.id = q /\ o.file = f
  BY DEF Stages
<1>3. f \in 1..made
  BY <1>1 DEF Inv, QuarantineInv, QuarantineTypeOK, Files
<1> HIDE DEF o
<1>4. CallView'
  BY <1>1, <1>2, <1>3 DEF CallView
<1> QED BY <1>1, <1>2, <1>4, CallOnly DEF Inv, QuarantineInv, QuarantineTypeOK

LEMMA RestoreStartInv ==
    ASSUME Inv, NEW q \in Ids, RestoreStart(q)
    PROVE  Inv'
<1> DEFINE o == [stage |-> "rrename", id |-> q, file |-> manifests[q].file]
<1>1. /\ op' = o /\ objects[q] # 0 /\ objects[q] = manifests[q].file /\ source = 0
      /\ manifests[q].status = "COMMITTED"
      /\ UNCHANGED <<source, objects, manifests, made, alive, reported, restoring, raced, todo, failed>>
  BY DEF RestoreStart, Quiet, Rest, files
<1>2. /\ o \in [stage : Stages, id : Ids \cup {"none"}, file : Files]
      /\ o.stage = "rrename" /\ o.id = q /\ o.file = manifests[q].file
  BY DEF Stages, Inv, QuarantineInv, QuarantineTypeOK
<1>3. manifests[q].file \in 1..made
  BY <1>1 DEF Inv, QuarantineInv, QuarantineTypeOK
<1>4. manifests[q] = Manifest("COMMITTED", manifests[q].file)
  BY <1>1 DEF Inv, QuarantineInv, QuarantineTypeOK, Manifest
<1> HIDE DEF o
<1>5. CallView'
  BY <1>1, <1>2, <1>3, <1>4 DEF CallView
<1> QED BY <1>1, <1>2, <1>5, CallOnly DEF Inv, QuarantineInv, QuarantineTypeOK

(* Goto moves a call on, Return ends it. *)
LEMMA GotoOp ==
    ASSUME QuarantineTypeOK, NEW stage \in Stages, Goto(stage)
    PROVE  /\ op' \in [stage : Stages, id : Ids \cup {"none"}, file : Files]
           /\ op'.stage = stage /\ op'.id = op.id /\ op'.file = op.file
BY DEF Goto, QuarantineTypeOK

LEMMA ReturnOp ==
    ASSUME Return
    PROVE  /\ op' \in [stage : Stages, id : Ids \cup {"none"}, file : Files]
           /\ op'.stage = "idle"
BY QuarantineAssumption DEF Return, Idle, Stages, Files

LEMMA VerifyInv ==
    ASSUME Inv, VerifyAway \/ VerifyBack
    PROVE  Inv'
<1>1. QuarantineTypeOK
  BY DEF Inv, QuarantineInv
<1>2. UNCHANGED <<source, objects, manifests, made, alive, reported, restoring, raced, todo, failed>>
  BY DEF VerifyAway, VerifyBack, Quiet, Rest, files
<1>3. CASE VerifyAway
  <2>1. /\ op.stage = "qverify"
        /\ op'.stage = IF objects[op.id] = op.file THEN "qcommit" ELSE "qback"
        /\ op' \in [stage : Stages, id : Ids \cup {"none"}, file : Files]
        /\ op'.id = op.id /\ op'.file = op.file
    BY <1>1, <1>3, GotoOp DEF VerifyAway, Stages
  <2>2. CallView'
    BY <1>2, <2>1 DEF Inv, QuarantineInv, CallView
  <2> QED BY <1>1, <1>2, <2>1, <2>2, CallOnly DEF QuarantineTypeOK
<1>4. CASE VerifyBack
  <2>1. /\ op.stage = "rverify"
        /\ op'.stage = IF source = op.file THEN "rcommit" ELSE "rback"
        /\ op' \in [stage : Stages, id : Ids \cup {"none"}, file : Files]
        /\ op'.id = op.id /\ op'.file = op.file
    BY <1>1, <1>4, GotoOp DEF VerifyBack, Stages
  <2>2. CallView'
    BY <1>2, <2>1 DEF Inv, QuarantineInv, CallView
  <2> QED BY <1>1, <1>2, <2>1, <2>2, CallOnly DEF QuarantineTypeOK
<1> QED BY <1>3, <1>4

(* A call ends, or a commit fails, and the files stay where they are. *)
LEMMA FailInv ==
    ASSUME Inv,
           \/ RenameAwayFails \/ RollBackFails \/ RenameBackFails
           \/ CommitFails("qcommit", "qback") \/ CommitFails("rcommit", "rback")
    PROVE  Inv'
<1>1. QuarantineTypeOK
  BY DEF Inv, QuarantineInv
<1>2. UNCHANGED <<source, objects, manifests, made, alive, reported, restoring, raced, todo, failed>>
  BY DEF RenameAwayFails, RollBackFails, RenameBackFails, CommitFails, Rest
<1>3. CASE Return
  <2>1. CallView'
    BY <1>3, ReturnOp DEF CallView
  <2> QED BY <1>1, <1>2, <1>3, <2>1, ReturnOp, CallOnly DEF QuarantineTypeOK
<1>4. CASE CommitFails("qcommit", "qback")
  <2>1. /\ op.stage = "qcommit" /\ op'.stage = "qback"
        /\ op' \in [stage : Stages, id : Ids \cup {"none"}, file : Files]
        /\ op'.id = op.id /\ op'.file = op.file
    BY <1>1, <1>4, GotoOp DEF CommitFails, Stages
  <2>2. CallView'
    BY <1>2, <2>1 DEF Inv, QuarantineInv, CallView
  <2> QED BY <1>1, <1>2, <2>1, <2>2, CallOnly DEF QuarantineTypeOK
<1>5. CASE CommitFails("rcommit", "rback")
  <2>1. /\ op.stage = "rcommit" /\ op'.stage = "rback"
        /\ op' \in [stage : Stages, id : Ids \cup {"none"}, file : Files]
        /\ op'.id = op.id /\ op'.file = op.file
    BY <1>1, <1>5, GotoOp DEF CommitFails, Stages
  <2>2. CallView'
    BY <1>2, <2>1 DEF Inv, QuarantineInv, CallView
  <2> QED BY <1>1, <1>2, <2>1, <2>2, CallOnly DEF QuarantineTypeOK
<1> QED BY <1>3, <1>4, <1>5 DEF RenameAwayFails, RollBackFails, RenameBackFails

-----------------------------------------------------------------------------
Manifests == [status : {"none", "torn", "PREPARED", "COMMITTED", "RESTORED"}, file : Files]

(* A manifest is written; where its object is, it goes on naming it. *)
LEMMA ManifestInv ==
    ASSUME Inv, NEW q \in Ids, NEW m \in Manifests,
           manifests' = [manifests EXCEPT ![q] = m],
           \/ objects[q] = 0
           \/ m.status \in {"PREPARED", "COMMITTED"} /\ m.file = manifests[q].file,
           q \in reported' \ restoring =>
               m.status = "COMMITTED" /\ objects[q] # 0 /\ objects[q] = m.file,
           reported' \in {reported, reported \cup {q}},
           op' \in [stage : Stages, id : Ids \cup {"none"}, file : Files],
           CallView', todo' \subseteq Ids, failed' \in BOOLEAN,
           UNCHANGED <<source, objects, made, alive, restoring, raced>>
    PROVE  Inv'
<1>1. manifests \in [Ids -> Manifests]
  BY DEF Inv, QuarantineInv, QuarantineTypeOK, Manifests
<1>2. manifests'[q] = m /\ \A p \in Ids : p # q => manifests'[p] = manifests[p]
  BY <1>1
<1>3. manifests' \in [Ids -> Manifests]
  BY <1>1
<1>4. QuarantineTypeOK'
  BY <1>3 DEF Inv, QuarantineInv, QuarantineTypeOK, Stored, Manifests
<1>5. NeverLost'
  <2> SUFFICES ASSUME ~raced, NEW f \in alive PROVE Findable(f)'
    BY DEF NeverLost
  <2>1. f # 0 /\ Findable(f)
    BY DEF Inv, QuarantineInv, NeverLost, QuarantineTypeOK
  <2>2. CASE source = f
    BY <2>2 DEF Findable
  <2>3. CASE source # f
    <3>1. PICK p \in Ids : /\ objects[p] = f /\ manifests[p].file = f
                           /\ manifests[p].status \in {"PREPARED", "COMMITTED"}
      BY <2>1, <2>3 DEF Findable
    <3>2. manifests'[p].file = f /\ manifests'[p].status \in {"PREPARED", "COMMITTED"}
      BY <1>2, <2>1, <3>1
    <3> QED BY <3>1, <3>2 DEF Findable
  <2> QED BY <2>2, <2>3
<1>6. ReportedIsRestorable'
  BY <1>2 DEF Inv, ReportedIsRestorable, QuarantineInv, QuarantineTypeOK
<1> QED BY <1>4, <1>5, <1>6 DEF Inv, QuarantineInv

LEMMA ManifestsTyped ==
    ASSUME NEW st \in {"none", "torn", "PREPARED", "COMMITTED", "RESTORED"}, NEW f \in Files
    PROVE  /\ Manifest(st, f) \in Manifests
           /\ Manifest(st, f).status = st /\ Manifest(st, f).file = f
           /\ NoManifest = Manifest("none", 0) /\ Torn = Manifest("torn", 0) /\ 0 \in Files
BY QuarantineAssumption DEF Manifest, Manifests, NoManifest, Torn, Files

LEMMA WriteStepsInv ==
    ASSUME Inv,
           CreateManifest \/ WriteManifest \/ WriteManifestFails \/ CommitQuarantine \/ CommitRestore
    PROVE  Inv'
<1> DEFINE q == op.id
<1>1. QuarantineTypeOK
  BY DEF Inv, QuarantineInv
<1>2. /\ UNCHANGED <<source, objects, made, alive, restoring, raced>>
      /\ todo' \subseteq Ids /\ failed' \in BOOLEAN
  BY <1>1 DEF CreateManifest, WriteManifest, WriteManifestFails, CommitQuarantine, CommitRestore,
              Quiet, Rest, QuarantineTypeOK
<1>3. q \in Ids /\ op.file \in Files /\ op.file # 0
  BY <1>1 DEF CreateManifest, WriteManifest, WriteManifestFails, CommitQuarantine, CommitRestore,
              Inv, QuarantineInv, CallView, QuarantineTypeOK
<1>4. CASE CreateManifest
  <2>1. /\ op.stage = "qcreate" /\ manifests' = [manifests EXCEPT ![q] = Torn] /\ reported' = reported
        /\ op' \in [stage : Stages, id : Ids \cup {"none"}, file : Files]
        /\ op'.stage = "qwrite" /\ op'.id = q /\ op'.file = op.file
    BY <1>1, <1>4, GotoOp DEF CreateManifest, Quiet, Stages
  <2>2. objects[q] = 0 /\ manifests[q] = NoManifest /\ manifests'[q] = Torn
    BY <1>1, <1>3, <2>1 DEF Inv, QuarantineInv, CallView, QuarantineTypeOK
  <2>3. Torn \in Manifests /\ q \notin reported \ restoring
    BY <1>3, <2>2, ManifestsTyped DEF Inv, ReportedIsRestorable
  <2>4. CallView'
    BY <1>2, <1>3, <2>1, <2>2 DEF Inv, QuarantineInv, CallView
  <2> QED BY <1>2, <1>3, <2>1, <2>2, <2>3, <2>4, ManifestInv
<1>5. CASE WriteManifest
  <2> DEFINE m == Manifest("PREPARED", op.file)
  <2>1. /\ op.stage = "qwrite" /\ manifests' = [manifests EXCEPT ![q] = m] /\ reported' = reported
        /\ op' \in [stage : Stages, id : Ids \cup {"none"}, file : Files]
        /\ op'.stage = "qrename" /\ op'.id = q /\ op'.file = op.file
    BY <1>1, <1>5, GotoOp DEF WriteManifest, Quiet, Stages, SetManifest
  <2>2. objects[q] = 0 /\ manifests'[q] = m
    BY <1>1, <1>3, <2>1 DEF Inv, QuarantineInv, CallView, QuarantineTypeOK
  <2>3. m \in Manifests /\ q \notin reported \ restoring
    BY <1>3, <2>2, ManifestsTyped DEF Inv, ReportedIsRestorable
  <2>4. CallView'
    BY <1>2, <1>3, <2>1, <2>2 DEF Inv, QuarantineInv, CallView
  <2> QED BY <1>2, <1>3, <2>1, <2>2, <2>3, <2>4, ManifestInv
<1>6. CASE WriteManifestFails
  <2>1. /\ op.stage = "qwrite" /\ manifests' = [manifests EXCEPT ![q] = NoManifest]
        /\ reported' = reported /\ Return
    BY <1>6 DEF WriteManifestFails
  <2>2. objects[q] = 0
    BY <2>1 DEF Inv, QuarantineInv, CallView
  <2>3. NoManifest \in Manifests /\ q \notin reported \ restoring
    BY <1>3, <2>2, ManifestsTyped DEF Inv, ReportedIsRestorable
  <2>4. CallView'
    BY <2>1, ReturnOp DEF CallView
  <2> QED BY <1>2, <1>3, <2>1, <2>2, <2>3, <2>4, ManifestInv, ReturnOp
<1>7. CASE CommitQuarantine
  <2> DEFINE m == Manifest("COMMITTED", op.file)
  <2>1. /\ op.stage = "qcommit" /\ manifests' = [manifests EXCEPT ![q] = m]
        /\ reported' = reported \cup {q} /\ Return
    BY <1>7 DEF CommitQuarantine, SetManifest
  <2>2. objects[q] = op.file /\ manifests[q] = Manifest("PREPARED", op.file)
    BY <2>1 DEF Inv, QuarantineInv, CallView
  <2>3. m \in Manifests /\ m.status = "COMMITTED" /\ m.file = op.file /\ manifests[q].file = op.file
    BY <1>3, <2>2, ManifestsTyped
  <2>4. CallView'
    BY <2>1, ReturnOp DEF CallView
  <2> HIDE DEF m
  <2> QED BY <1>2, <1>3, <2>1, <2>2, <2>3, <2>4, ManifestInv, ReturnOp
<1>8. CASE CommitRestore
  <2> DEFINE m == Manifest("RESTORED", op.file)
  <2>1. /\ op.stage = "rcommit" /\ manifests' = [manifests EXCEPT ![q] = m]
        /\ reported' = reported /\ Return
    BY <1>8 DEF CommitRestore, SetManifest, Quiet
  <2>2. objects[q] = 0 /\ q \in restoring
    BY <2>1 DEF Inv, QuarantineInv, CallView
  <2>3. m \in Manifests
    BY <1>3, ManifestsTyped
  <2>4. CallView'
    BY <2>1, ReturnOp DEF CallView
  <2> HIDE DEF m
  <2> QED BY <1>2, <1>3, <2>1, <2>2, <2>3, <2>4, ManifestInv, ReturnOp
<1> QED BY <1>4, <1>5, <1>6, <1>7, <1>8

-----------------------------------------------------------------------------
(* A file goes from the path to an empty place of the quarantine ... *)
LEMMA MoveInInv ==
    ASSUME Inv, op.id \in Ids, MoveIn, source # 0, objects[op.id] = 0,
           manifests[op.id].status \in {"PREPARED", "COMMITTED"},
           ~raced => source = manifests[op.id].file,
           op' \in [stage : Stages, id : Ids \cup {"none"}, file : Files], CallView',
           UNCHANGED <<manifests, made, alive, reported, restoring, raced, todo, failed>>
    PROVE  Inv'
<1> DEFINE q == op.id
<1>1. /\ objects \in [Ids -> 0..made] /\ source \in 0..made /\ made \in Nat
      /\ \A p \in Ids : objects[p] # 0 => objects[p] # source
      /\ \A p, r \in Ids : objects[p] # 0 /\ objects[p] = objects[r] => p = r
  BY QuarantineAssumption DEF Inv, QuarantineInv, QuarantineTypeOK, Stored, Files
<1>2. /\ source' = 0 /\ objects' = [objects EXCEPT ![q] = source]
      /\ objects'[q] = source /\ \A p \in Ids : p # q => objects'[p] = objects[p]
  BY <1>1 DEF MoveIn
<1>3. QuarantineTypeOK'
  <2>1. objects' \in [Ids -> 0..made'] /\ source' \in 0..made'
    BY <1>1, <1>2
  <2>2. source' \notin {objects'[p] : p \in Stored'}
    BY <1>2 DEF Stored
  <2>3. \A p, r \in Stored' : objects'[p] = objects'[r] => p = r
    BY <1>1, <1>2 DEF Stored
  <2> QED BY <2>1, <2>2, <2>3 DEF Inv, QuarantineInv, QuarantineTypeOK
<1>4. NeverLost'
  <2> SUFFICES ASSUME ~raced, NEW f \in alive PROVE Findable(f)'
    BY DEF NeverLost
  <2>1. f # 0 /\ Findable(f)
    BY DEF Inv, QuarantineInv, NeverLost, QuarantineTypeOK
  <2>2. CASE source = f
    BY <1>2, <2>2 DEF Findable
  <2>3. CASE source # f
    <3>1. PICK p \in Ids : /\ objects[p] = f /\ manifests[p].file = f
                           /\ manifests[p].status \in {"PREPARED", "COMMITTED"}
      BY <2>1, <2>3 DEF Findable
    <3>2. objects'[p] = f
      BY <1>2, <2>1, <3>1
    <3> QED BY <3>1, <3>2 DEF Findable
  <2> QED BY <2>2, <2>3
<1>5. ReportedIsRestorable'
  BY <1>2 DEF Inv, ReportedIsRestorable, QuarantineInv, QuarantineTypeOK
<1> QED BY <1>3, <1>4, <1>5 DEF Inv, QuarantineInv

(* ... or back, over nothing if nobody used the path. *)
LEMMA MoveBackInv ==
    ASSUME Inv, op.id \in Ids, MoveBack, objects[op.id] # 0,
           ~raced => source = 0,
           op.id \notin reported \ restoring', restoring' \in {restoring, restoring \cup {op.id}},
           op' \in [stage : Stages, id : Ids \cup {"none"}, file : Files], CallView',
           UNCHANGED <<manifests, made, alive, reported, raced, todo, failed>>
    PROVE  Inv'
<1> DEFINE q == op.id
<1>1. /\ objects \in [Ids -> 0..made] /\ source \in 0..made /\ made \in Nat
      /\ \A p \in Ids : objects[p] # 0 => objects[p] # source
      /\ \A p, r \in Ids : objects[p] # 0 /\ objects[p] = objects[r] => p = r
  BY QuarantineAssumption DEF Inv, QuarantineInv, QuarantineTypeOK, Stored, Files
<1>2. /\ source' = objects[q] /\ objects' = [objects EXCEPT ![q] = 0]
      /\ objects'[q] = 0 /\ \A p \in Ids : p # q => objects'[p] = objects[p]
  BY <1>1 DEF MoveBack
<1>3. QuarantineTypeOK'
  <2>1. objects' \in [Ids -> 0..made'] /\ source' \in 0..made'
    BY <1>1, <1>2
  <2>2. source' \notin {objects'[p] : p \in Stored'}
    BY <1>1, <1>2 DEF Stored
  <2>3. \A p, r \in Stored' : objects'[p] = objects'[r] => p = r
    BY <1>1, <1>2 DEF Stored
  <2> QED BY <2>1, <2>2, <2>3 DEF Inv, QuarantineInv, QuarantineTypeOK
<1>4. NeverLost'
  <2> SUFFICES ASSUME ~raced, NEW f \in alive PROVE Findable(f)'
    BY DEF NeverLost
  <2>1. f # 0 /\ Findable(f) /\ source = 0
    BY DEF Inv, QuarantineInv, NeverLost, QuarantineTypeOK
  <2>2. PICK p \in Ids : /\ objects[p] = f /\ manifests[p].file = f
                         /\ manifests[p].status \in {"PREPARED", "COMMITTED"}
    BY <2>1 DEF Findable
  <2>3. source' = f \/ objects'[p] = f
    BY <1>2, <2>2
  <2> QED BY <2>2, <2>3 DEF Findable
<1>5. ReportedIsRestorable'
  BY <1>2 DEF Inv, ReportedIsRestorable, QuarantineInv, QuarantineTypeOK
<1> QED BY <1>3, <1>4, <1>5 DEF Inv, QuarantineInv

LEMMA MovesInv ==
    ASSUME Inv, RenameAway \/ RollBackAway \/ RenameBack \/ RollBackRestore
    PROVE  Inv'
<1> DEFINE q == op.id
<1>1. QuarantineTypeOK /\ objects \in [Ids -> 0..made] /\ CallView
  BY DEF Inv, QuarantineInv, QuarantineTypeOK
<1>2. UNCHANGED <<manifests, made, alive, raced, todo, failed, reported>>
  BY DEF RenameAway, RollBackAway, RenameBack, RollBackRestore, Quiet, Rest
<1>3. q \in Ids /\ op.file \in Files /\ op.file \in 1..made /\ op.file # 0
  BY <1>1 DEF RenameAway, RollBackAway, RenameBack, RollBackRestore, CallView, QuarantineTypeOK
<1>4. CASE RenameAway
  <2>1. /\ op.stage = "qrename" /\ source # 0 /\ MoveIn /\ restoring' = restoring
        /\ op' \in [stage : Stages, id : Ids \cup {"none"}, file : Files]
        /\ op'.stage = "qverify" /\ op'.id = q /\ op'.file = op.file
    BY <1>1, <1>4, GotoOp DEF RenameAway, Quiet, Stages
  <2>2. /\ objects[q] = 0 /\ manifests[q] = Manifest("PREPARED", op.file)
        /\ ~raced => source = op.file
    BY <1>1, <2>1 DEF CallView
  <2>3. manifests[q].status = "PREPARED" /\ manifests[q].file = op.file
    BY <1>3, <2>2, ManifestsTyped
  <2>4. objects'[q] = source /\ source' = 0
    BY <1>1, <1>3, <2>1 DEF MoveIn
  <2>5. CallView'
    BY <1>2, <1>3, <2>1, <2>2, <2>4 DEF CallView
  <2> QED BY <1>2, <1>3, <2>1, <2>2, <2>3, <2>5, MoveInInv
<1>5. CASE RollBackAway
  <2>1. op.stage = "qback" /\ MoveBack /\ Return /\ restoring' = restoring
    BY <1>5 DEF RollBackAway, Quiet
  <2>2. /\ objects[q] # 0 /\ manifests[q] = Manifest("PREPARED", op.file)
        /\ ~raced => source = 0
    BY <1>1, <2>1 DEF CallView
  <2>3. q \notin reported \ restoring'
    BY <1>3, <2>1, <2>2, ManifestsTyped DEF Inv, ReportedIsRestorable
  <2>4. CallView'
    BY <2>1, ReturnOp DEF CallView
  <2> QED BY <1>2, <1>3, <2>1, <2>2, <2>3, <2>4, MoveBackInv, ReturnOp
<1>6. CASE RenameBack
  <2>1. /\ op.stage = "rrename" /\ MoveBack /\ restoring' = restoring \cup {q}
        /\ op' \in [stage : Stages, id : Ids \cup {"none"}, file : Files]
        /\ op'.stage = "rverify" /\ op'.id = q /\ op'.file = op.file
    BY <1>1, <1>6, GotoOp DEF RenameBack, Stages
  <2>2. /\ objects[q] = op.file /\ manifests[q] = Manifest("COMMITTED", op.file)
        /\ ~raced => source = 0
    BY <1>1, <2>1 DEF CallView
  <2>3. objects'[q] = 0 /\ source' = op.file
    BY <1>1, <1>3, <2>1, <2>2 DEF MoveBack
  <2>4. CallView'
    BY <1>2, <1>3, <2>1, <2>2, <2>3 DEF CallView
  <2> QED BY <1>2, <1>3, <2>1, <2>2, <2>4, MoveBackInv
<1>7. CASE RollBackRestore
  <2>1. /\ op.stage = "rback" /\ Return /\ restoring' = restoring
        /\ IF source # 0 THEN MoveIn ELSE UNCHANGED <<source, objects>>
    BY <1>7 DEF RollBackRestore, Quiet
  <2>2. /\ objects[q] = 0 /\ manifests[q] = Manifest("COMMITTED", op.file)
        /\ ~raced => source = op.file
    BY <1>1, <2>1 DEF CallView
  <2>3. manifests[q].status = "COMMITTED" /\ manifests[q].file = op.file
    BY <1>3, <2>2, ManifestsTyped
  <2>4. CallView'
    BY <2>1, ReturnOp DEF CallView
  <2>5. CASE source # 0
    BY <1>2, <1>3, <2>1, <2>2, <2>3, <2>4, <2>5, MoveInInv, ReturnOp
  <2>6. CASE source = 0
    BY <1>1, <1>2, <2>1, <2>4, <2>6, ReturnOp, CallOnly DEF QuarantineTypeOK
  <2> QED BY <2>5, <2>6
<1> QED BY <1>4, <1>5, <1>6, <1>7

-----------------------------------------------------------------------------
(* The workload makes a file that nobody has seen, over its own. *)
LEMMA WorkloadWritesInv == Inv /\ WorkloadWrites => Inv'
<1> SUFFICES ASSUME Inv, WorkloadWrites PROVE Inv'
  OBVIOUS
<1>1. /\ made < MaxFiles /\ made' = made + 1 /\ source' = made + 1
      /\ alive' = (alive \ {source}) \cup {made + 1}
      /\ UNCHANGED <<objects, manifests, op, todo, failed, reported, restoring>>
  BY DEF WorkloadWrites
<1>2. /\ made \in Nat /\ source \in 0..made /\ objects \in [Ids -> 0..made]
      /\ alive \subseteq 1..made /\ MaxFiles \in Nat /\ raced \in BOOLEAN
  BY QuarantineAssumption DEF Inv, QuarantineInv, QuarantineTypeOK, Files
<1>3. /\ raced' \in BOOLEAN /\ (~raced' => ~raced)
      /\ ~raced' => op.stage \in {"idle", "down", "refused"}
  BY <1>2 DEF WorkloadWrites, UsePath
<1>4. QuarantineTypeOK'
  <2>1. /\ objects' \in [Ids -> 0..made'] /\ source' \in 0..made' /\ made' \in Files
        /\ alive' \subseteq 1..made'
    BY <1>1, <1>2 DEF Files
  <2>2. Stored' = Stored /\ \A p \in Stored : objects[p] # made + 1
    BY <1>1, <1>2 DEF Stored
  <2>3. source' \notin {objects'[p] : p \in Stored'}
    BY <1>1, <2>2
  <2>4. \A p, r \in Stored' : objects'[p] = objects'[r] => p = r
    BY <1>1, <2>2 DEF Inv, QuarantineInv, QuarantineTypeOK
  <2> QED BY <1>1, <1>3, <2>1, <2>3, <2>4 DEF Inv, QuarantineInv, QuarantineTypeOK
<1>5. NeverLost'
  <2> SUFFICES ASSUME ~raced', NEW f \in alive' PROVE Findable(f)'
    BY DEF NeverLost
  <2>1. CASE f = made + 1
    BY <1>1, <2>1 DEF Findable
  <2>2. CASE f \in alive /\ f # source
    <3>1. Findable(f)
      BY <1>3, <2>2 DEF Inv, QuarantineInv, NeverLost
    <3> QED BY <1>1, <2>2, <3>1 DEF Findable
  <2> QED BY <1>1, <2>1, <2>2
<1>6. CallView'
  <2>1. op.stage \notin NoCall => op.file \in 1..made'
    BY <1>1, <1>2 DEF Inv, QuarantineInv, CallView, NoCall
  <2> QED BY <1>1, <1>3, <2>1 DEF Inv, QuarantineInv, CallView, NoCall
<1>7. ReportedIsRestorable'
  BY <1>1 DEF Inv, ReportedIsRestorable
<1> QED BY <1>4, <1>5, <1>6, <1>7 DEF Inv, QuarantineInv

LEMMA WorkloadRemovesInv == Inv /\ WorkloadRemoves => Inv'
<1> SUFFICES ASSUME Inv, WorkloadRemoves PROVE Inv'
  OBVIOUS
<1>1. /\ source # 0 /\ source' = 0 /\ alive' = alive \ {source}
      /\ UNCHANGED <<objects, manifests, op, todo, failed, made, reported, restoring>>
  BY DEF WorkloadRemoves
<1>2. made \in Nat /\ raced \in BOOLEAN
  BY QuarantineAssumption DEF Inv, QuarantineInv, QuarantineTypeOK, Files
<1>3. /\ raced' \in BOOLEAN /\ (~raced' => ~raced)
      /\ ~raced' => op.stage \in {"idle", "down", "refused"}
  BY <1>2 DEF WorkloadRemoves, UsePath
<1>4. QuarantineTypeOK'
  <2>1. source' \in 0..made' /\ alive' \subseteq 1..made' /\ Stored' = Stored
    BY <1>1, <1>2 DEF Inv, QuarantineInv, QuarantineTypeOK, Stored
  <2>2. source' \notin {objects'[p] : p \in Stored'}
    BY <1>1 DEF Stored
  <2> QED BY <1>1, <1>3, <2>1, <2>2 DEF Inv, QuarantineInv, QuarantineTypeOK
<1>5. NeverLost'
  <2> SUFFICES ASSUME ~raced', NEW f \in alive' PROVE Findable(f)'
    BY DEF NeverLost
  <2>1. f \in alive /\ f # source /\ Findable(f)
    BY <1>1, <1>3 DEF Inv, QuarantineInv, NeverLost
  <2> QED BY <1>1, <2>1 DEF Findable
<1>6. CallView'
  BY <1>1, <1>3 DEF Inv, QuarantineInv, CallView
<1>7. ReportedIsRestorable'
  BY <1>1 DEF Inv, ReportedIsRestorable
<1> QED BY <1>4, <1>5, <1>6, <1>7 DEF Inv, QuarantineInv

(* The process ends, comes up again, or is done with Recover. *)
LEMMA ProcessInv ==
    ASSUME Inv, Crash \/ RecoverStart \/ RecoverEnd
    PROVE  Inv'
<1>1. QuarantineTypeOK
  BY DEF Inv, QuarantineInv
<1>2. /\ UNCHANGED <<source, objects, manifests, made, alive, reported, restoring, raced>>
      /\ todo' \subseteq Ids /\ failed' \in BOOLEAN
  BY <1>1 DEF Crash, RecoverStart, RecoverEnd, QuarantineTypeOK
<1>3. /\ op' \in [stage : Stages, id : Ids \cup {"none"}, file : Files]
      /\ op'.stage \in NoCall
  <2>1. Idle \in [stage : Stages, id : Ids \cup {"none"}, file : Files]
    BY QuarantineAssumption DEF Idle, Stages, Files
  <2>2. CASE Crash
    BY <2>1, <2>2 DEF Crash, Stages, NoCall
  <2>3. CASE RecoverStart
    BY <1>1, <2>3, GotoOp DEF RecoverStart, Stages, NoCall
  <2>4. CASE RecoverEnd
    BY <2>1, <2>4 DEF RecoverEnd, Stages, NoCall
  <2> QED BY <2>2, <2>3, <2>4
<1>4. CallView'
  BY <1>3 DEF CallView, NoCall
<1> QED BY <1>2, <1>3, <1>4, CallOnly

(* Recover keeps a manifest whose object is there. *)
LEMMA RecoverOneInv ==
    ASSUME Inv, NEW q \in Ids, RecoverOne(q) \/ RecoverOneFails(q)
    PROVE  Inv'
<1>1. QuarantineTypeOK
  BY DEF Inv, QuarantineInv
<1>2. /\ UNCHANGED <<source, objects, op, made, alive, reported, restoring, raced>>
      /\ todo' \subseteq Ids /\ failed' \in BOOLEAN /\ op.stage = "boot"
      /\ op' \in [stage : Stages, id : Ids \cup {"none"}, file : Files]
  BY <1>1 DEF RecoverOne, RecoverOneFails, QuarantineTypeOK
<1>3. CallView'
  BY <1>2 DEF CallView
<1>4. CASE manifests' = manifests
  BY <1>2, <1>3, <1>4, CallOnly
<1>5. CASE Reconcilable(q) /\ manifests' = [manifests EXCEPT ![q] = Reconciled(q)]
  <2>1. manifests[q] \in Manifests /\ manifests[q].file \in Files
    BY <1>1 DEF QuarantineTypeOK, Manifests
  <2>2. CASE manifests[q].status # "PREPARED"
    <3>1. manifests' = manifests
      BY <1>1, <1>5, <2>2 DEF Reconciled, QuarantineTypeOK
    <3> QED BY <1>4, <3>1
  <2>3. CASE manifests[q].status = "PREPARED" /\ NotMoved(q)
    <3>1. Reconciled(q) = NoManifest /\ NoManifest \in Manifests /\ objects[q] = 0
      BY <2>1, <2>3, ManifestsTyped DEF Reconciled, NotMoved
    <3>2. q \notin reported \ restoring
      BY <2>3 DEF Inv, ReportedIsRestorable
    <3> QED BY <1>2, <1>3, <1>5, <3>1, <3>2, ManifestInv
  <2>4. CASE manifests[q].status = "PREPARED" /\ Moved(q) /\ objects[q] = manifests[q].file
    <3> DEFINE m == Manifest("COMMITTED", manifests[q].file)
    <3>1. /\ Reconciled(q) = m /\ m \in Manifests /\ m.status = "COMMITTED"
          /\ m.file = manifests[q].file /\ objects[q] # 0
      BY <2>1, <2>4, ManifestsTyped DEF Reconciled, NotMoved, Moved
    <3> HIDE DEF m
    <3> QED BY <1>2, <1>3, <1>5, <2>4, <3>1, ManifestInv
  <2> QED BY <1>5, <2>2, <2>3, <2>4 DEF Reconcilable
<1> QED BY <1>4, <1>5 DEF RecoverOne, RecoverOneFails

LEMMA QuarantineNextInv == Inv /\ [Next]_vars => Inv'
<1> SUFFICES ASSUME Inv, [Next]_vars PROVE Inv'
  OBVIOUS
<1>1. CASE UNCHANGED vars
  BY <1>1 DEF vars, Inv, QuarantineInv, QuarantineTypeOK, Stored, NeverLost, Findable, CallView,
              ReportedIsRestorable
<1>2. CASE Next
  BY <1>2, QuarantineStartInv, RestoreStartInv, VerifyInv, FailInv, WriteStepsInv, MovesInv,
     WorkloadWritesInv, WorkloadRemovesInv, ProcessInv, RecoverOneInv DEF Next
<1> QED BY <1>1, <1>2

LEMMA QuarantineInvariant == Spec => []Inv
BY QuarantineInitInv, QuarantineNextInv, PTL DEF Spec

(***************************************************************************)
(* Whatever step of Quarantine, Restore, their rollbacks or Recover fails  *)
(* or is cut short, no file is in two places, and none is lost while the   *)
(* workload keeps off the path: a rename takes a file only where its       *)
(* manifest names it already.                                              *)
(***************************************************************************)
THEOREM QuarantineInvHolds == Spec => []QuarantineInv
<1>1. Inv => QuarantineInv
  BY DEF Inv
<1> QED BY <1>1, QuarantineInvariant, PTL

(***************************************************************************)
(* What Quarantine reported stays restorable until a Restore moves it,     *)
(* even if the workload races the calls: the object was compared with the  *)
(* snapshot after the rename, and no later call of another id touches it.  *)
(***************************************************************************)
THEOREM ReportedIsRestorableAlways == Spec => []ReportedIsRestorable
<1>1. Inv => ReportedIsRestorable
  BY DEF Inv
<1> QED BY <1>1, QuarantineInvariant, PTL
=============================================================================
