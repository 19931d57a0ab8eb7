----------------------------- MODULE Quarantine -----------------------------
(***************************************************************************)
(* internal/rollback: files are taken out of use by a rename into the      *)
(* quarantine and put back by a rename, and a manifest per operation says  *)
(* how far it got.  Manager.mu lets one call at a time run in the executor *)
(* process, but the path belongs to the Lab workload as well, which may    *)
(* create or overwrite a file there at any moment, a write may fail, and   *)
(* the process may end between two steps.  Recover reconciles the          *)
(* manifests at the start; its error ends the process (safeops-privexec).  *)
(*                                                                         *)
(* A file stands for its identity (inode, size, mtime, mode); overwriting  *)
(* it makes another one.  All calls are about one path.                    *)
(***************************************************************************)
EXTENDS Naturals, FiniteSets

CONSTANTS
    Ids,            \* quarantine ids: one per nonce, so per executed envelope
    MaxFiles,       \* bound on the files ever seen at the path
    MaxFaults,      \* bound on failed writes and renames
    MaxCrashes      \* bound on the ends of the process

ASSUME QuarantineAssumption ==
    MaxFiles \in Nat \ {0} /\ MaxFaults \in Nat /\ MaxCrashes \in Nat

VARIABLES
    source,     \* the file at the path, or 0
    objects,    \* id -> the file in the quarantine, or 0
    manifests,  \* id -> its manifest
    op,         \* the call that holds the mutex
    todo,       \* manifests Recover has still to visit
    failed,     \* did Recover collect an error?
    made,       \* files made so far
    alive,      \* history: files the workload has not overwritten itself
    reported,   \* history: ids whose Quarantine returned without error
    restoring,  \* history: ids a Restore has begun to move
    raced,      \* history: did the workload use the path during a call?
    faults, crashes

files == <<source, objects, manifests>>
vars == <<source, objects, manifests, op, todo, failed, made, alive,
          reported, restoring, raced, faults, crashes>>

Files == 0..MaxFiles
NoManifest == [status |-> "none", file |-> 0]
Torn == [status |-> "torn", file |-> 0]
Manifest(status, f) == [status |-> status, file |-> f]
Idle == [stage |-> "idle", id |-> "none", file |-> 0]

(***************************************************************************)
(* down, boot   no process, Recover          refused   Recover failed      *)
(* q...         the steps of Quarantine      r...      those of Restore    *)
(***************************************************************************)
Stages == {"idle", "down", "boot", "refused",
           "qcreate", "qwrite", "qrename", "qverify", "qcommit", "qback",
           "rrename", "rverify", "rcommit", "rback"}

Stored == {q \in Ids : objects[q] # 0}

(***************************************************************************)
(* QuarantineTypeOK: the types, and that a file is never in two places: a  *)
(* rename moves it, and no two quarantines hold the same one.              *)
(***************************************************************************)
QuarantineTypeOK ==
    /\ source \in 0..made /\ objects \in [Ids -> 0..made]
    /\ manifests \in [Ids -> [status : {"none", "torn", "PREPARED", "COMMITTED", "RESTORED"},
                              file : Files]]
    /\ op \in [stage : Stages, id : Ids \cup {"none"}, file : Files]
    /\ todo \subseteq Ids /\ failed \in BOOLEAN
    /\ made \in Files /\ alive \subseteq 1..made
    /\ reported \subseteq Ids /\ restoring \subseteq Ids /\ raced \in BOOLEAN
    /\ source \notin {objects[q] : q \in Stored}
    /\ \A p, q \in Stored : objects[p] = objects[q] => p = q

Init ==
    /\ source = 1 /\ made = 1 /\ alive = {1}
    /\ objects = [q \in Ids |-> 0]
    /\ manifests = [q \in Ids |-> NoManifest]
    /\ op = Idle /\ todo = {} /\ failed = FALSE
    /\ reported = {} /\ restoring = {} /\ raced = FALSE
    /\ faults = 0 /\ crashes = 0

-----------------------------------------------------------------------------
Goto(stage) == op' = [op EXCEPT !.stage = stage]
Return == op' = Idle
SetManifest(status, f) == manifests' = [manifests EXCEPT ![op.id] = Manifest(status, f)]
Rest == UNCHANGED <<todo, failed, made, alive, raced, crashes>>
Quiet == Rest /\ UNCHANGED <<reported, restoring, faults>>
Fault == faults < MaxFaults /\ faults' = faults + 1

(* Mutant: the file is copied and not removed. *)
MoveInCopies == objects' = [objects EXCEPT ![op.id] = source] /\ source' = source

(* os.Rename of a file into the quarantine, and back over what is there. *)
MoveIn == objects' = [objects EXCEPT ![op.id] = source] /\ source' = 0
MoveBack == source' = objects[op.id] /\ objects' = [objects EXCEPT ![op.id] = 0]

(***************************************************************************)
(* Quarantine of the file f the envelope was approved for: verifyIdentity, *)
(* and the id is free.                                                     *)
(***************************************************************************)
QuarantineStart(q, f) ==
    /\ op = Idle
    /\ f # 0 /\ source = f
    /\ objects[q] = 0 /\ manifests[q] = NoManifest
    /\ op' = [stage |-> "qcreate", id |-> q, file |-> f]
    /\ Quiet /\ UNCHANGED files

(* saveNew: O_EXCL creates an empty file, then its content is written. *)
CreateManifest ==
    /\ op.stage = "qcreate"
    /\ manifests' = [manifests EXCEPT ![op.id] = Torn]
    /\ Goto("qwrite")
    /\ Quiet /\ UNCHANGED <<source, objects>>

WriteManifest ==
    /\ op.stage = "qwrite"
    /\ SetManifest("PREPARED", op.file)
    /\ Goto("qrename")
    /\ Quiet /\ UNCHANGED <<source, objects>>

WriteManifestFails ==
    /\ op.stage = "qwrite"
    /\ Fault
    /\ manifests' = [manifests EXCEPT ![op.id] = NoManifest]
    /\ Return
    /\ Rest /\ UNCHANGED <<source, objects, reported, restoring>>

RenameAway ==
    /\ op.stage = "qrename"
    /\ source # 0
    /\ MoveIn
    /\ Goto("qverify")
    /\ Quiet /\ UNCHANGED manifests

(* The rename fails: the workload removed the file, or an error. *)
RenameAwayFails ==
    /\ op.stage = "qrename"
    /\ IF source = 0 THEN UNCHANGED faults ELSE Fault
    /\ Return
    /\ Rest /\ UNCHANGED <<source, objects, manifests, reported, restoring>>

(* Mutant: what was moved is not compared with the snapshot. *)
VerifyAwaySkipped ==
    /\ op.stage = "qverify"
    /\ Goto("qcommit")
    /\ Quiet /\ UNCHANGED files

VerifyAway ==
    /\ op.stage = "qverify"
    /\ Goto(IF objects[op.id] = op.file THEN "qcommit" ELSE "qback")
    /\ Quiet /\ UNCHANGED files

CommitQuarantine ==
    /\ op.stage = "qcommit"
    /\ SetManifest("COMMITTED", op.file)
    /\ reported' = reported \cup {op.id}
    /\ Return
    /\ Rest /\ UNCHANGED <<source, objects, restoring, faults>>

CommitFails(stage, back) ==
    /\ op.stage = stage
    /\ Fault
    /\ Goto(back)
    /\ Rest /\ UNCHANGED <<source, objects, manifests, reported, restoring>>

(* The rollback of Quarantine; its own error is only reported. *)
RollBackAway ==
    /\ op.stage = "qback"
    /\ MoveBack
    /\ Return
    /\ Quiet /\ UNCHANGED manifests

RollBackFails ==
    /\ op.stage \in {"qback", "rback"}
    /\ Fault
    /\ Return
    /\ Rest /\ UNCHANGED <<source, objects, manifests, reported, restoring>>

-----------------------------------------------------------------------------
(***************************************************************************)
(* Restore: a committed manifest, an object with the identity the envelope *)
(* and the manifest name, and a vacant path.  A restored one is answered   *)
(* as it is, everything else is refused.                                   *)
(***************************************************************************)
RestoreStart(q) ==
    /\ op = Idle
    /\ manifests[q].status = "COMMITTED"
    /\ objects[q] # 0 /\ objects[q] = manifests[q].file
    /\ source = 0
    /\ op' = [stage |-> "rrename", id |-> q, file |-> manifests[q].file]
    /\ Quiet /\ UNCHANGED files

RenameBack ==
    /\ op.stage = "rrename"
    /\ MoveBack
    /\ restoring' = restoring \cup {op.id}
    /\ Goto("rverify")
    /\ Rest /\ UNCHANGED <<manifests, reported, faults>>

RenameBackFails ==
    /\ op.stage = "rrename"
    /\ Fault
    /\ Return
    /\ Rest /\ UNCHANGED <<source, objects, manifests, reported, restoring>>

VerifyBack ==
    /\ op.stage = "rverify"
    /\ Goto(IF source = op.file THEN "rcommit" ELSE "rback")
    /\ Quiet /\ UNCHANGED files

CommitRestore ==
    /\ op.stage = "rcommit"
    /\ SetManifest("RESTORED", op.file)
    /\ Return
    /\ Quiet /\ UNCHANGED <<source, objects>>

(* The rollback of Restore moves whatever is at the path by then. *)
RollBackRestore ==
    /\ op.stage = "rback"
    /\ IF source # 0 THEN MoveIn ELSE UNCHANGED <<source, objects>>
    /\ Return
    /\ Quiet /\ UNCHANGED manifests

-----------------------------------------------------------------------------
(* The Lab workload (external). *)
UsePath == raced' = (raced \/ op.stage \notin {"idle", "down", "refused"})

(* It makes a file, over its own one if there is one. *)
WorkloadWrites ==
    /\ UsePath
    /\ made < MaxFiles
    /\ made' = made + 1
    /\ source' = made'
    /\ alive' = (alive \ {source}) \cup {made'}
    /\ UNCHANGED <<objects, manifests, op, todo, failed, reported, restoring, faults, crashes>>

WorkloadRemoves ==
    /\ UsePath
    /\ source # 0
    /\ source' = 0
    /\ alive' = alive \ {source}
    /\ UNCHANGED <<objects, manifests, op, todo, failed, made, reported, restoring, faults, crashes>>

Crash ==
    /\ op.stage \notin {"down", "refused"}
    /\ crashes < MaxCrashes /\ crashes' = crashes + 1
    /\ op' = [Idle EXCEPT !.stage = "down"]
    /\ UNCHANGED <<source, objects, manifests, todo, failed, made, alive, reported, restoring, raced, faults>>

-----------------------------------------------------------------------------
(* Recover, at the start; systemd restarts a process that was refused. *)
RecoverStart ==
    /\ op.stage \in {"down", "refused"}
    /\ Goto("boot")
    /\ todo' = {q \in Ids : manifests[q].status # "none"}
    /\ failed' = FALSE
    /\ UNCHANGED <<source, objects, manifests, made, alive, reported, restoring, raced, faults, crashes>>

NotMoved(q) == source # 0 /\ objects[q] = 0
Moved(q) == source = 0 /\ objects[q] # 0
Reconcilable(q) ==
    \/ manifests[q].status \in {"COMMITTED", "RESTORED"}
    \/ manifests[q].status = "PREPARED" /\ NotMoved(q)
    \/ manifests[q].status = "PREPARED" /\ Moved(q) /\ objects[q] = manifests[q].file

(* Mutant: a prepared manifest is dropped wherever the file is. *)
ReconciledDropped(q) ==
    IF manifests[q].status = "PREPARED" THEN NoManifest ELSE manifests[q]

(* What Recover makes of a manifest it can reconcile. *)
Reconciled(q) ==
    IF manifests[q].status # "PREPARED" THEN manifests[q]
    ELSE IF NotMoved(q) THEN NoManifest
    ELSE Manifest("COMMITTED", manifests[q].file)

RecoverOne(q) ==
    /\ op.stage = "boot"
    /\ q \in todo
    /\ todo' = todo \ {q}
    /\ manifests' = IF Reconcilable(q) THEN [manifests EXCEPT ![q] = Reconciled(q)] ELSE manifests
    /\ failed' = (failed \/ ~Reconcilable(q))
    /\ UNCHANGED <<source, objects, op, made, alive, reported, restoring, raced, faults, crashes>>

(* The manifest cannot be removed or saved. *)
RecoverOneFails(q) ==
    /\ op.stage = "boot"
    /\ q \in todo /\ manifests[q].status = "PREPARED"
    /\ Fault
    /\ todo' = todo \ {q}
    /\ failed' = TRUE
    /\ UNCHANGED <<source, objects, manifests, op, made, alive, reported, restoring, raced, crashes>>

RecoverEnd ==
    /\ op.stage = "boot"
    /\ todo = {}
    /\ op' = [Idle EXCEPT !.stage = IF failed THEN "refused" ELSE "idle"]
    /\ UNCHANGED <<source, objects, manifests, todo, failed, made, alive, reported, restoring, raced, faults, crashes>>

-----------------------------------------------------------------------------
Next ==
    \/ \E q \in Ids, f \in Files : QuarantineStart(q, f)
    \/ CreateManifest \/ WriteManifest \/ WriteManifestFails
    \/ RenameAway \/ RenameAwayFails \/ VerifyAway
    \/ CommitQuarantine \/ CommitFails("qcommit", "qback")
    \/ RollBackAway \/ RollBackFails
    \/ \E q \in Ids : RestoreStart(q) \/ RecoverOne(q) \/ RecoverOneFails(q)
    \/ RenameBack \/ RenameBackFails \/ VerifyBack
    \/ CommitRestore \/ CommitFails("rcommit", "rback") \/ RollBackRestore
    \/ WorkloadWrites \/ WorkloadRemoves
    \/ Crash
    \/ RecoverStart \/ RecoverEnd

Spec == Init /\ [][Next]_vars

-----------------------------------------------------------------------------
(* Properties. *)

(* Where an operator can find a file: the path, or an object its manifest names. *)
Findable(f) ==
    \/ source = f
    \/ \E q \in Ids : /\ objects[q] = f
                      /\ manifests[q].file = f
                      /\ manifests[q].status \in {"PREPARED", "COMMITTED"}

(***************************************************************************)
(* NeverLost: whichever step of Quarantine, Restore, their rollbacks or    *)
(* Recover fails or is the last one of the process, every file that the    *)
(* workload did not overwrite itself is at its path, or in the quarantine  *)
(* with a manifest that names it (PLAN.md: "quarantine is reversible"), as *)
(* long as the workload kept off the path during a call.                   *)
(***************************************************************************)
NeverLost == ~raced => \A f \in alive : Findable(f)

(***************************************************************************)
(* ReportedIsRestorable: when Quarantine returned without error and no     *)
(* Restore has moved the file since, its manifest is COMMITTED and the     *)
(* object is the file that was approved, across later calls, crashes and   *)
(* whatever the workload does at the path, so Restore will accept it.      *)
(***************************************************************************)
ReportedIsRestorable ==
    \A q \in reported \ restoring :
        /\ manifests[q].status = "COMMITTED"
        /\ objects[q] # 0 /\ objects[q] = manifests[q].file

(* What the call that holds the mutex finds of its id and, left alone, of the path. *)
CallView ==
    /\ op.stage \notin {"idle", "down", "boot", "refused"} => op.id \in Ids /\ op.file \in 1..made
    /\ op.stage = "qcreate" => manifests[op.id] = NoManifest
    /\ op.stage = "qwrite" => manifests[op.id] = Torn
    /\ op.stage \in {"qrename", "qverify", "qcommit", "qback"} =>
          manifests[op.id] = Manifest("PREPARED", op.file)
    /\ op.stage \in {"rrename", "rverify", "rcommit", "rback"} =>
          manifests[op.id] = Manifest("COMMITTED", op.file)
    /\ op.stage \in {"qcreate", "qwrite", "qrename", "rverify", "rcommit", "rback"} =>
          objects[op.id] = 0
    /\ op.stage \in {"qverify", "qback"} => objects[op.id] # 0
    /\ op.stage \in {"qcommit", "rrename"} => objects[op.id] = op.file
    /\ op.stage \in {"rverify", "rcommit", "rback"} => op.id \in restoring
    /\ ~raced =>
          /\ op.stage \in {"qcreate", "qwrite", "qrename", "rverify", "rcommit", "rback"} =>
                source = op.file
          /\ op.stage \in {"qverify", "qcommit", "qback", "rrename"} =>
                source = 0 /\ objects[op.id] = op.file

(***************************************************************************)
(* QuarantineInv: a file is never in two places and never in none,         *)
(* whichever step of a call, a rollback or Recover fails.  With CallView   *)
(* and ReportedIsRestorable it is inductive (QuarantineProofs).            *)
(***************************************************************************)
QuarantineInv == QuarantineTypeOK /\ NeverLost /\ CallView
=============================================================================
