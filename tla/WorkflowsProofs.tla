-------------------------- MODULE WorkflowsProofs --------------------------
(***************************************************************************)
(* Proofs about Workflows, for any process ids and any number of requests, *)
(* changes of the host, crashes and faults: WorkflowInv is inductive       *)
(* together with the outcomes it leads to, and a metric query is answered  *)
(* from what its own run read.                                             *)
(***************************************************************************)
EXTENDS Workflows, SequenceTheorems, FiniteSetTheorems, TLAPS

Sample ==
    BOOLEAN \cup Nat \cup (SUBSET ProcessSnapshot)
        \cup {"evidence"} \cup {Metrics[i] : i \in DOMAIN Metrics}

(* The parts of the invariant that speak of one copy of the task. *)
SecondBound(m) ==
    m.kind \in Recoveries /\ m.pending.tool \in {"service.restart", "file.quarantine"} =>
        stopped >= 0 /\ (m.kind = "disk" => m.pending.bound.version >= stopped)
Writer ==
    stopped >= 0 =>
        task.kind \in Recoveries /\ (world.file = NoFile \/ world.file.version >= stopped)
Outcome(m) ==
    m.state = "COMPLETED" =>
        /\ m.kind \in Recoveries =>
              acted.tool = LastTool[m.kind] /\ Promised[m.kind] \subseteq recovered
        /\ m.kind \in {"quarantine", "disk"} =>
              /\ acted.tool = "file.quarantine" /\ session.pin # 0
              /\ world.objects[session.pin] = acted.bound.version
        /\ m.kind = "restore" =>
              /\ acted.tool = "file.restore_quarantine" /\ session.pin = 0
              /\ world.objects[acted.bound.id] = 0
Measured(m) == m.kind = "cpu" /\ m.state = "WAITING_APPROVAL" => m.baseline = peak

(* A copy that may be worked on, and one that may be saved. *)
Fit(m) == m \in Task /\ m.kind = task.kind /\ Bound(m) /\ SecondBound(m)
Sound(m) == Fit(m) /\ Outcome(m) /\ Measured(m)

(* The invariant, with the type of what was read, which TLC cannot evaluate. *)
Inv ==
    /\ WorkflowInv /\ VictimIsCulprit /\ CompletedMeansRecovered /\ FileOutcome
    /\ out \in Seq(Sample)

(* The invariant by the copies it speaks of. *)
LEMMA InvParts ==
    Inv <=> /\ WorkflowTypeOK /\ Sound(task) /\ Fit(mem) /\ Writer
            /\ Stage /\ Evidence /\ Effect /\ Validated /\ VictimIsCulprit /\ out \in Seq(Sample)
<1>1. SecondActionBound <=> SecondBound(task) /\ SecondBound(mem) /\ Writer
  BY DEF SecondActionBound, SecondBound, Writer
<1>2. CompletedMeansRecovered /\ FileOutcome <=> Outcome(task)
  BY DEF CompletedMeansRecovered, FileOutcome, Outcome
<1>3. Stage /\ Evidence => Measured(task)
  BY DEF Evidence, Measured, Stage
<1>4. WorkflowTypeOK => task \in Task /\ mem \in Task
  BY DEF WorkflowTypeOK
<1>5. Stage => mem.kind = task.kind
  BY DEF Stage
<1> HIDE DEF Stage, Evidence
<1> QED BY <1>1, <1>2, <1>3, <1>4, <1>5 DEF Inv, WorkflowInv, Sound, Fit

(* The same for the next state. *)
LEMMA InvFromParts ==
    ASSUME WorkflowTypeOK', Sound(task)', Fit(mem)', Writer', Stage', Evidence', Effect',
           Validated', VictimIsCulprit', (out \in Seq(Sample))'
    PROVE  Inv'
<1>1. SecondActionBound'
  BY DEF SecondActionBound, SecondBound, Writer, Sound, Fit
<1>2. CompletedMeansRecovered' /\ FileOutcome'
  BY DEF CompletedMeansRecovered, FileOutcome, Outcome, Sound
<1>3. Bound(task)' /\ Bound(mem)'
  BY DEF Sound, Fit
<1> QED BY <1>1, <1>2, <1>3 DEF Inv, WorkflowInv

(* Replacing fields of a task. *)
LEMMA SetState ==
    ASSUME NEW m \in Task, NEW st \in States, NEW n, n = [m EXCEPT !.state = st]
    PROVE  /\ n \in Task /\ n.state = st /\ n.kind = m.kind /\ n.pending = m.pending
           /\ n.baseline = m.baseline /\ n.plan = m.plan /\ n.done = m.done
BY DEF Task

(* The action. *)
LEMMA SetPending ==
    ASSUME NEW m \in Task, NEW a \in Action, NEW n, n = [m EXCEPT !.pending = a]
    PROVE  /\ n \in Task /\ n.state = m.state /\ n.kind = m.kind /\ n.pending = a
           /\ n.baseline = m.baseline /\ n.plan = m.plan /\ n.done = m.done
BY DEF Task

(* The baseline. *)
LEMMA SetBaseline ==
    ASSUME NEW m \in Task, NEW b \in Nat, NEW n, n = [m EXCEPT !.baseline = b]
    PROVE  /\ n \in Task /\ n.state = m.state /\ n.kind = m.kind /\ n.pending = m.pending
           /\ n.baseline = b /\ n.plan = m.plan /\ n.done = m.done
BY DEF Task

(* No action is an action. *)
LEMMA NoActionType == NoAction \in Action /\ NoAction.tool = "none"
BY DEF NoAction, Action, Snapshot, NoSnapshot

Quiet == UNCHANGED <<world, raced, victims, acted, peak, recovered, stopped>>
Remembered ==
    /\ session' \in [selected : BOOLEAN, pin : 0..Len(world.objects)]
    /\ session'.pin = session.pin
Placed == Stage /\ Evidence /\ Effect /\ Validated

(* The actions that leave host and history alone, whatever they save. *)
LEMMA SavedStep ==
    ASSUME Inv, NEW m, Fit(m), NEW n, Sound(n), Quiet, Remembered,
           mem' = m, task' = n, due' \in BOOLEAN, out' \in Seq(Sample),
           pc' \in {"idle", "reading", "metrics", "resolving", "next", "preparing", "executing", "acting",
                    "acted", "persisting", "verify", "verifying", "finish", "failing"},
           Placed'
    PROVE  Inv'
<1>1. Sound(task) /\ WorkflowTypeOK /\ Writer /\ VictimIsCulprit
  BY InvParts
<1>2. m \in Task /\ n \in Task /\ m.kind = task.kind /\ n.kind = task.kind
  BY DEF Sound, Fit
<1>3. WorkflowTypeOK'
  BY <1>1, <1>2 DEF WorkflowTypeOK, Quiet, Remembered
<1>4. Bound(m)' /\ Bound(n)'
  BY DEF Bound, Quiet, Sound, Fit
<1>5. SecondBound(m)' /\ SecondBound(n)'
  BY DEF SecondBound, Quiet, Sound, Fit
<1>6. Outcome(n)'
  BY DEF Outcome, Quiet, Remembered, Sound
<1>7. Measured(n)'
  BY DEF Measured, Quiet, Sound
<1>8. Sound(task)'
  BY <1>2, <1>4, <1>5, <1>6, <1>7 DEF Sound, Fit, Bound, SecondBound, Outcome, Measured
<1>9. Fit(mem)'
  BY <1>2, <1>4, <1>5 DEF Fit, Bound, SecondBound
<1>10. Writer' /\ VictimIsCulprit'
  BY <1>1, <1>2 DEF Writer, VictimIsCulprit, Quiet
<1> QED BY <1>3, <1>8, <1>9, <1>10, InvFromParts DEF Placed

(* At rest, and on the way to FAILED, nothing else is relied on. *)
LEMMA AtRest ==
    ASSUME Measured(task)', due' => task'.state \notin Terminal \cup {"WAITING_APPROVAL"},
           \/ pc' = "idle" /\ mem' = task'
           \/ pc' = "failing" /\ mem'.kind = task'.kind /\ ~due'
    PROVE  Placed'
<1>1. Stage'
  BY DEF Stage
<1>2. Evidence' /\ Effect' /\ Validated'
  BY DEF Evidence, Effect, Validated, Measured
<1> QED BY <1>1, <1>2 DEF Placed

(* An error leads to the failure handler. *)
LEMMA ToFailing ==
    ASSUME Inv, NEW m, Fit(m), Sound(m) \/ task' = task, Quiet, Remembered,
           mem' = m, task' \in {task, m}, due' = FALSE, out' \in Seq(Sample), pc' = "failing"
    PROVE  Inv'
<1>1. PICK n : n = task' /\ Sound(n)
  BY InvParts
<1>2. Measured(task)' /\ mem'.kind = task'.kind
  BY <1>1 DEF Measured, Sound, Fit, Quiet
<1>3. Placed'
  BY <1>2, AtRest
<1> QED BY <1>1, <1>3, SavedStep

(* A save ends the work on the task. *)
LEMMA ToIdle ==
    ASSUME Inv, NEW m, Sound(m), Quiet, Remembered, mem' = m, task' = m,
           due' \in BOOLEAN, due' => m.state \notin Terminal \cup {"WAITING_APPROVAL"},
           out' \in Seq(Sample), pc' = "idle"
    PROVE  Inv'
<1>1. Measured(task)' /\ (due' => task'.state \notin Terminal \cup {"WAITING_APPROVAL"})
  BY DEF Measured, Sound, Quiet
<1>2. Placed'
  BY <1>1, AtRest
<1> QED BY <1>2, SavedStep DEF Sound

(* Save and SaveOrLeave of a sound copy; what remains is the place they lead to. *)
LEMMA SaveStep ==
    ASSUME Inv, NEW m, Sound(m), NEW next, Save(m, next), Quiet, Remembered, due' = FALSE, out' \in Seq(Sample),
           next \in {"idle", "reading", "metrics", "resolving", "verifying"},
           ASSUME task' = m, mem' = m, pc' = next, next # "idle" PROVE Placed'
    PROVE  Inv'
<1>1. CASE task' = m /\ mem' = m /\ pc' = next
  <2>1. CASE next = "idle"
    BY <1>1, <2>1, ToIdle
  <2>2. CASE next # "idle"
    <3>1. Placed'
      BY <1>1, <2>2
    <3> QED BY <1>1, <3>1, SavedStep DEF Sound
  <2> QED BY <2>1, <2>2
<1>2. CASE task' \in {task, m} /\ mem' = m /\ pc' = "failing"
  BY <1>2, ToFailing DEF Sound
<1> QED BY <1>1, <1>2 DEF Save, Fault

(* The same where the error is returned and the task left as it was saved. *)
LEMMA SaveOrLeaveStep ==
    ASSUME Inv, pc # "idle" \/ mem = task, NEW m, Sound(m), NEW next, SaveOrLeave(m, next), Quiet, Remembered,
           due' = FALSE, out' \in Seq(Sample), next \in {"idle", "executing", "persisting"},
           ASSUME task' = m, mem' = m, pc' = next, next # "idle" PROVE Placed'
    PROVE  Inv'
<1>1. CASE task' = m /\ mem' = m /\ pc' = next
  <2>1. CASE next = "idle"
    BY <1>1, <2>1, ToIdle
  <2>2. CASE next # "idle"
    <3>1. Placed'
      BY <1>1, <2>2
    <3> QED BY <1>1, <3>1, SavedStep DEF Sound
  <2> QED BY <2>1, <2>2
<1>2. CASE task' \in {task, m} /\ mem' = task' /\ pc' = "idle"
  <2>1. PICK n : n = task'
    OBVIOUS
  <2>2. Sound(n)
    BY <1>2, <2>1, InvParts
  <2> QED BY <1>2, <2>1, <2>2, ToIdle
<1> QED BY <1>1, <1>2 DEF SaveOrLeave

(* A copy with the same action or none that neither waits nor is completed. *)
LEMMA Recast ==
    ASSUME NEW n, Fit(n), NEW m \in Task, m.kind = n.kind,
           m.pending = n.pending \/ m.pending.tool = "none",
           m.state \notin {"WAITING_APPROVAL", "COMPLETED"}
    PROVE  Sound(m)
<1>1. Bound(m)
  BY DEF Fit, Bound
<1>2. SecondBound(m)
  BY DEF Fit, SecondBound
<1> QED BY <1>1, <1>2 DEF Sound, Fit, Outcome, Measured

(* What every action starts from; Run is due only while nothing is done. *)
LEMMA Unhurried == Inv => WorkflowTypeOK /\ Stage /\ Evidence /\ Fit(mem) /\ Fit(task) /\ Sound(task)
                          /\ mem \in Task /\ task \in Task /\ (pc # "idle" => due = FALSE)
                          /\ out \in Seq(Sample)
<1> SUFFICES ASSUME Inv PROVE WorkflowTypeOK /\ Stage /\ Evidence /\ Fit(mem) /\ Fit(task) /\ Sound(task)
                          /\ mem \in Task /\ task \in Task /\ (pc # "idle" => due = FALSE)
                          /\ out \in Seq(Sample)
  OBVIOUS
<1>1. WorkflowTypeOK /\ Stage /\ Evidence /\ Fit(mem) /\ Sound(task) /\ out \in Seq(Sample)
  BY InvParts
<1>2. due \in BOOLEAN /\ (due => pc = "idle")
  BY <1>1 DEF WorkflowTypeOK, Stage
<1> QED BY <1>1, <1>2 DEF Sound, Fit

(* Unchanged session. *)
LEMMA SameSession == Inv /\ session' = session => Remembered
BY Unhurried DEF WorkflowTypeOK, Remembered

(* The plan of reads, by workflow. *)
LEMMA ReadsOf ==
    /\ pc = "reading" /\ mem.kind = "port" => Reads = PortReads
    /\ pc = "reading" /\ mem.kind = "cpu" => Reads = CPUReads
    /\ pc = "reading" /\ mem.kind = "disk" => Reads = DiskReads
    /\ pc = "verifying" /\ mem.kind = "port" => Reads = PortChecks
    /\ pc = "verifying" /\ mem.kind = "cpu" => Reads = CPUChecks
    /\ pc = "verifying" /\ mem.kind = "disk" => Reads = DiskChecks
BY DEF Reads

(* The same after the step. *)
LEMMA NextReadsOf ==
    /\ pc' = "reading" /\ mem'.kind = "port" => Reads' = PortReads
    /\ pc' = "reading" /\ mem'.kind = "cpu" => Reads' = CPUReads
    /\ pc' = "reading" /\ mem'.kind = "disk" => Reads' = DiskReads
    /\ pc' = "verifying" /\ mem'.kind = "port" => Reads' = PortChecks
    /\ pc' = "verifying" /\ mem'.kind = "cpu" => Reads' = CPUChecks
    /\ pc' = "verifying" /\ mem'.kind = "disk" => Reads' = DiskChecks
BY DEF Reads

(* How long the plans are. *)
LEMMA Lengths ==
    /\ Len(PortReads) = 5 /\ Len(CPUReads) = 4 /\ Len(DiskReads) = 3
    /\ Len(PortChecks) = 2 /\ Len(CPUChecks) = 2 /\ Len(DiskChecks) = 3
BY DEF PortReads, CPUReads, DiskReads, PortChecks, CPUChecks, DiskChecks

(* The metrics that are asked for. *)
LEMMA MetricsType ==
    /\ Metrics \in Seq({Metrics[i] : i \in DOMAIN Metrics})
    /\ Len(Metrics) = 2 /\ DOMAIN Metrics = 1..2
    /\ Metrics[1] = "system.get_cpu_metrics" /\ Metrics[2] = "system.get_memory_metrics"
BY DEF Metrics

(* What follows a prefix in a concatenation. *)
LEMMA Appended ==
    ASSUME NEW S, NEW s \in Seq(S), NEW t \in Seq(S)
    PROVE  /\ s \o t \in Seq(S) /\ Len(s \o t) = Len(s) + Len(t)
           /\ \A i \in 1..Len(t) : (s \o t)[Len(s) + i] = t[i]
<1>1. Len(s) \in Nat /\ Len(t) \in Nat
  OBVIOUS
<1>2. /\ s \o t \in Seq(S) /\ Len(s \o t) = Len(s) + Len(t)
      /\ \A i \in 1..(Len(s) + Len(t)) : (s \o t)[i] = IF i <= Len(s) THEN s[i] ELSE t[i - Len(s)]
  BY ConcatProperties
<1>3. ASSUME NEW i \in 1..Len(t) PROVE (s \o t)[Len(s) + i] = t[i]
  <2>1. /\ Len(s) + i \in 1..(Len(s) + Len(t)) /\ ~(Len(s) + i <= Len(s))
        /\ Len(s) + i - Len(s) = i
    BY <1>1
  <2> QED BY <1>2, <2>1
<1> QED BY <1>2, <1>3

(* Run starts over, or fails the task that may have acted. *)
LEMMA RunInv == Inv /\ Run => Inv'
<1> SUFFICES ASSUME Inv, Run PROVE Inv'
  OBVIOUS
<1>1. /\ pc = "idle" /\ due /\ due' = FALSE /\ out' = <<>> /\ UNCHANGED <<host, history>>
      /\ task \in Task /\ Fit(task) /\ Sound(task) /\ mem = task
  BY Unhurried DEF Run, Stage
<1>2. Quiet /\ Remembered /\ out' \in Seq(Sample)
  BY <1>1, SameSession DEF Quiet, host, history
<1>3. CASE FailWith(task)
  BY <1>1, <1>2, <1>3, ToFailing DEF FailWith
<1>4. CASE task.kind \in Recoveries /\ Save([task EXCEPT !.state = "PLANNING", !.baseline = 0], "reading")
  <2>1. PICK n : n = [task EXCEPT !.state = "PLANNING"]
    OBVIOUS
  <2>2. PICK m : m = [n EXCEPT !.baseline = 0]
    OBVIOUS
  <2>3. n \in Task /\ n.state = "PLANNING" /\ n.kind = task.kind /\ n.pending = task.pending
    BY <1>1, <2>1, SetState DEF States
  <2>4. m \in Task /\ m.state = "PLANNING" /\ m.kind = task.kind /\ m.pending = task.pending
    BY <2>2, <2>3, SetBaseline
  <2>5. m = [task EXCEPT !.state = "PLANNING", !.baseline = 0]
    BY <1>1, <2>1, <2>2, <2>4 DEF Task
  <2>6. Sound(m)
    BY <1>1, <2>4, Recast
  <2>7. ASSUME task' = m, mem' = m, pc' = "reading" PROVE Placed'
    <3>1. Stage'
      BY <1>1, <1>4, <2>4, <2>7 DEF Stage
    <3>2. m.kind \in {"port", "cpu", "disk"} /\ Len(out') = 0
      BY <1>1, <1>4, <2>4 DEF Recoveries
    <3>3. Len(out') <= Len(Reads')
      BY <2>7, <3>2, NextReadsOf, Lengths
    <3>4. Evidence'
      BY <2>4, <2>7, <3>2, <3>3 DEF Evidence
    <3>5. Effect' /\ Validated'
      BY <2>7 DEF Effect, Validated
    <3> QED BY <3>1, <3>4, <3>5 DEF Placed
  <2>8. Save(m, "reading")
    BY <1>4, <2>5
  <2> QED BY <1>1, <1>2, <2>6, <2>7, <2>8, SaveStep
<1>5. CASE task.kind \in FileActions /\ Save([task EXCEPT !.state = "PLANNING"], "resolving")
  <2>1. PICK m : m = [task EXCEPT !.state = "PLANNING"]
    OBVIOUS
  <2>4. m \in Task /\ m.state = "PLANNING" /\ m.kind = task.kind /\ m.pending = task.pending
    BY <1>1, <2>1, SetState DEF States
  <2>6. Sound(m)
    BY <1>1, <2>4, Recast
  <2>7. ASSUME task' = m, mem' = m, pc' = "resolving" PROVE Placed'
    <3>1. Stage'
      BY <1>1, <1>5, <2>4, <2>7 DEF Stage
    <3>4. Evidence' /\ Effect' /\ Validated'
      BY <2>4, <2>7 DEF Evidence, Effect, Validated
    <3> QED BY <3>1, <3>4 DEF Placed
  <2>8. Save(m, "resolving")
    BY <1>5, <2>1
  <2> QED BY <1>1, <1>2, <2>6, <2>7, <2>8, SaveStep
<1>6. CASE task.kind = "metric" /\ Save([task EXCEPT !.state = "INVESTIGATING", !.plan = @ \o Metrics], "metrics")
  <2>1. PICK n : n = [task EXCEPT !.state = "INVESTIGATING"]
    OBVIOUS
  <2>2. PICK m : m = [n EXCEPT !.plan = task.plan \o Metrics]
    OBVIOUS
  <2>3. n \in Task /\ n.state = "INVESTIGATING" /\ n.kind = task.kind /\ n.pending = task.pending
    BY <1>1, <2>1, SetState DEF States
  <2> DEFINE M == {Metrics[i] : i \in DOMAIN Metrics}
  <2>4. /\ task.plan \in Seq(M) /\ task.plan \o Metrics \in Seq(M)
        /\ Len(task.plan \o Metrics) = Len(task.plan) + 2 /\ Len(task.plan) \in Nat
        /\ \A i \in 1..2 : (task.plan \o Metrics)[Len(task.plan) + i] = Metrics[i]
    <3>1. task.plan \in Seq(M) /\ Len(task.plan) \in Nat
      BY <1>1 DEF Task
    <3>2. Metrics \in Seq(M) /\ Len(Metrics) = 2
      BY MetricsType
    <3> HIDE DEF M
    <3>3. /\ task.plan \o Metrics \in Seq(M) /\ Len(task.plan \o Metrics) = Len(task.plan) + Len(Metrics)
          /\ \A i \in 1..Len(Metrics) : (task.plan \o Metrics)[Len(task.plan) + i] = Metrics[i]
      BY <3>1, <3>2, Appended
    <3> QED BY <3>1, <3>2, <3>3
  <2>5. m \in Task /\ m.state = "INVESTIGATING" /\ m.kind = task.kind /\ m.pending = task.pending
        /\ m.plan = task.plan \o Metrics
    BY <2>2, <2>3, <2>4 DEF Task
  <2>6. m = [task EXCEPT !.state = "INVESTIGATING", !.plan = @ \o Metrics]
    BY <1>1, <2>1, <2>2, <2>5 DEF Task
  <2>7. Sound(m)
    BY <1>1, <2>5, Recast
  <2>8. ASSUME task' = m, mem' = m, pc' = "metrics" PROVE Placed'
    <3>1. Stage'
      BY <1>1, <1>6, <2>5, <2>8 DEF Stage
    <3>2. Len(mem'.plan) = Len(task.plan) + 2 /\ Len(out') = 0 /\ DOMAIN out' = {}
      BY <1>1, <2>4, <2>5, <2>8
    <3>3. Len(Metrics) = 2 /\ DOMAIN Metrics = 1..2
      BY MetricsType
    <3>4. ASSUME NEW i \in DOMAIN Metrics
          PROVE  mem'.plan[Len(mem'.plan) - Len(Metrics) + i] = Metrics[i]
      <4>1. Len(mem'.plan) - Len(Metrics) + i = Len(task.plan) + i
        BY <2>4, <3>2, <3>3
      <4> QED BY <2>4, <2>5, <2>8, <3>3, <4>1
    <3>6. /\ Len(out') <= Len(mem'.plan) /\ Len(mem'.plan) >= Len(Metrics)
          /\ \A i \in DOMAIN out' : out'[i] = mem'.plan[i]
      BY <2>4, <3>2, <3>3
    <3>7. Evidence'
      BY <1>6, <2>5, <2>8, <3>4, <3>6 DEF Evidence
    <3>5. Effect' /\ Validated'
      BY <2>8 DEF Effect, Validated
    <3> QED BY <3>1, <3>7, <3>5 DEF Placed
  <2>9. Save(m, "metrics")
    BY <1>6, <2>6
  <2> QED BY <1>1, <1>2, <2>7, <2>8, <2>9, SaveStep
<1>7. task.kind \in Recoveries \/ task.kind \in FileActions \/ task.kind = "metric"
  BY <1>1 DEF Task, Kinds
<1>8. "metric" \notin Recoveries \cup FileActions /\ Recoveries \cap FileActions = {}
  BY DEF Recoveries, FileActions
<1> QED BY <1>3, <1>4, <1>5, <1>6, <1>7, <1>8 DEF Run

(* What the tools return. *)
LEMMA SnapshotTypes ==
    ASSUME NEW w \in World, NEW p \in Pids, w.procs[p].exe # "none"
    PROVE  /\ SnapshotProcess(w, p) \in ProcessSnapshot
           /\ SnapshotProcess(w, p).pid = p /\ SnapshotProcess(w, p).exe = w.procs[p].exe
<1>1. w.procs[p] \in [start : Nat, exe : {"none", "culprit", "other"}]
  BY DEF World
<1>2. w.procs[p] # NoProc
  BY DEF NoProc
<1>3. SnapshotProcess(w, p) =
        [type |-> "process", pid |-> p, start |-> w.procs[p].start, exe |-> w.procs[p].exe]
  BY <1>2 DEF SnapshotProcess
<1> QED BY <1>1, <1>3 DEF ProcessSnapshot

(* The process tools return snapshots of processes. *)
LEMMA ProcessSamples ==
    ASSUME NEW w \in World, NEW tool \in {"process.find_by_port", "process.search"},
           NEW s \in Samples(w, tool)
    PROVE  s \in SUBSET ProcessSnapshot /\ (Controlled(s) = {} => Running(w, "culprit") = {})
<1>1. s = {SnapshotProcess(w, p) : p \in Running(w, "culprit") \cup Running(w, "other")}
  BY DEF Samples
<1>2. \A p \in Running(w, "culprit") \cup Running(w, "other") :
        p \in Pids /\ w.procs[p].exe # "none"
  BY DEF Running
<1>3. \A p \in Running(w, "culprit") \cup Running(w, "other") :
        /\ SnapshotProcess(w, p) \in ProcessSnapshot
        /\ SnapshotProcess(w, p).exe = w.procs[p].exe
  BY <1>2, SnapshotTypes
<1>4. s \in SUBSET ProcessSnapshot
  BY <1>1, <1>3
<1>5. ASSUME NEW p \in Running(w, "culprit") PROVE Controlled(s) # {}
  <2>1. SnapshotProcess(w, p) \in s /\ SnapshotProcess(w, p).exe = "culprit"
    BY <1>1, <1>3 DEF Running
  <2> QED BY <2>1 DEF Controlled
<1> QED BY <1>4, <1>5

(* The other tools return flags, numbers or evidence. *)
LEMMA OtherSamples ==
    ASSUME NEW w \in World, NEW tool, NEW s \in Samples(w, tool)
    PROVE  /\ s \in Sample
           /\ tool = "service.get_status" => s = (w.service # 0)
           /\ tool = "network.check_port" => s = PortOccupied(w)
           /\ tool = "system.get_cpu_metrics" => s = w.usage
           /\ tool = "file.find_large" => s = w.file.large
<1>1. CASE tool \in {"process.find_by_port", "process.search"}
  BY <1>1, ProcessSamples DEF Sample
<1>2. CASE tool = "service.get_status"
  BY <1>2 DEF Samples, Sample
<1>3. CASE tool = "network.check_port"
  BY <1>3 DEF Samples, Sample, PortOccupied
<1>4. CASE tool = "diagnostic.port_conflict"
  BY <1>4 DEF Samples, Sample, DiagnosesD1
<1>5. CASE tool = "system.get_cpu_metrics"
  BY <1>5 DEF Samples, Sample, World
<1>6. CASE tool = "file.find_large"
  BY <1>6 DEF Samples, Sample, World
<1>7. CASE tool \notin {"process.find_by_port", "process.search", "service.get_status", "network.check_port",
                       "diagnostic.port_conflict", "system.get_cpu_metrics", "file.find_large"}
  <2>1. s = "evidence"
    BY <1>7 DEF Samples
  <2>3. s \in Sample
    BY <2>1 DEF Sample
  <2> QED BY <1>7, <2>3
<1> QED BY <1>1, <1>2, <1>3, <1>4, <1>5, <1>6, <1>7

(* The next entry of a sequence of what was read. *)
LEMMA OneMore ==
    ASSUME NEW S, NEW q \in Seq(S), NEW s \in S, NEW r, r = Append(q, s)
    PROVE  /\ r \in Seq(S) /\ Len(r) = Len(q) + 1 /\ Len(q) \in Nat /\ r[Len(q) + 1] = s
           /\ \A i \in 1..Len(q) : r[i] = q[i]
           /\ DOMAIN r = 1..(Len(q) + 1) /\ DOMAIN q = 1..Len(q)
BY AppendProperties

(* A read that is not answered, and one that is. *)
LEMMA ReadStepParts ==
    ASSUME Inv, ReadStep
    PROVE  /\ UNCHANGED <<host, task, mem, due, victims, acted, recovered, stopped>>
           /\ due = FALSE /\ pc \in {"reading", "verifying"} /\ Len(out) < Len(Reads)
           /\ peak' = peak \/ (peak' = world.usage /\ pc = "reading")
           /\ \/ pc' = "failing" /\ out' = out
              \/ /\ pc' = pc /\ peak' = IF pc = "reading" /\ Reads[Len(out) + 1] = "system.get_cpu_metrics"
                                        THEN world.usage ELSE peak
                 /\ \E s \in Samples(world, Reads[Len(out) + 1]) : out' = Append(out, s)
<1>1. due = FALSE
  BY Unhurried DEF ReadStep
<1> QED BY <1>1 DEF ReadStep, Fault

(* What a read of the investigation adds. *)
LEMMA InvestigationStep ==
    ASSUME Inv, ReadStep, pc = "reading", pc' = "reading"
    PROVE  Evidence' /\ out' \in Seq(Sample)
<1>1. /\ world \in World /\ mem \in Task /\ mem' = mem /\ task' = task /\ task.state = "PLANNING"
      /\ mem.kind \in {"port", "cpu", "disk"} /\ out \in Seq(Sample) /\ Evidence
  BY Unhurried, ReadStepParts DEF WorkflowTypeOK, Stage, Recoveries
<1>2. PICK s \in Samples(world, Reads[Len(out) + 1]) : out' = Append(out, s)
  BY ReadStepParts
<1>3. /\ out' \in Seq(Sample) /\ Len(out') = Len(out) + 1 /\ Len(out) \in Nat
      /\ out'[Len(out) + 1] = s /\ \A i \in 1..Len(out) : out'[i] = out[i]
  <2>1. s \in Sample
    BY <1>1, <1>2, OtherSamples
  <2> QED BY <1>1, <1>2, <2>1, OneMore
<1>4. Reads' = Reads /\ Len(out') <= Len(Reads')
  <2>1. Reads' = Reads
    BY <1>1 DEF Reads
  <2>2. Len(Reads) \in Nat
    BY <1>1, ReadsOf, Lengths
  <2> QED BY <1>3, <2>1, <2>2, ReadStepParts
<1>5. CASE mem.kind = "port"
  <2>1. Len(out) + 1 = 4 => s \in SUBSET ProcessSnapshot
    <3>1. Len(out) + 1 = 4 => Reads[Len(out) + 1] = "process.find_by_port"
      BY <1>5, ReadsOf DEF PortReads
    <3> QED BY <1>1, <1>2, <3>1, ProcessSamples
  <2>2. Len(out') >= 4 => out'[4] \subseteq ProcessSnapshot
    <3>1. CASE Len(out) + 1 = 4
      BY <1>3, <2>1, <3>1
    <3>2. CASE Len(out) >= 4
      <4>1. out[4] \subseteq ProcessSnapshot
        BY <1>1, <1>5, <3>2 DEF Evidence, Owners
      <4>2. 4 \in 1..Len(out)
        BY <1>3, <3>2
      <4> QED BY <1>3, <4>1, <4>2
    <3> QED BY <1>3, <3>1, <3>2
  <2>3. Len(out') >= [port |-> 4, cpu |-> 2, disk |-> 3][mem'.kind] => Owners(mem.kind)' \subseteq ProcessSnapshot
    BY <1>1, <1>5, <2>2 DEF Owners
  <2> QED BY <1>1, <1>3, <1>4, <1>5, <2>3 DEF Evidence
<1>6. CASE mem.kind = "cpu"
  <2>1. Len(out) + 1 = 2 => s \in SUBSET ProcessSnapshot
    <3>1. Len(out) + 1 = 2 => Reads[Len(out) + 1] = "process.search"
      BY <1>6, ReadsOf DEF CPUReads
    <3> QED BY <1>1, <1>2, <3>1, ProcessSamples
  <2>2. Len(out') >= 2 => out'[2] \subseteq ProcessSnapshot
    <3>1. CASE Len(out) + 1 = 2
      BY <1>3, <2>1, <3>1
    <3>2. CASE Len(out) >= 2
      <4>1. out[2] \subseteq ProcessSnapshot
        BY <1>1, <1>6, <3>2 DEF Evidence, Owners
      <4>2. 2 \in 1..Len(out)
        BY <1>3, <3>2
      <4> QED BY <1>3, <4>1, <4>2
    <3> QED BY <1>3, <3>1, <3>2
  <2>3. Len(out') >= [port |-> 4, cpu |-> 2, disk |-> 3][mem'.kind] => Owners(mem.kind)' \subseteq ProcessSnapshot
    BY <1>1, <1>6, <2>2 DEF Owners
  <2>4. out'[1] = peak'
    <3>1. CASE Len(out) = 0
      <4>1. Len(out) + 1 = 1 /\ Reads[Len(out) + 1] = "system.get_cpu_metrics"
        BY <1>6, <3>1, ReadsOf DEF CPUReads
      <4>2. s = world.usage
        BY <1>1, <1>2, <4>1, OtherSamples
      <4>3. peak' = world.usage
        BY <4>1, ReadStepParts
      <4> QED BY <1>3, <4>1, <4>2, <4>3
    <3>2. CASE Len(out) > 0
      <4>0. Len(Reads) = 4
        BY <1>6, ReadsOf, Lengths
      <4>1. Len(out) + 1 \in 2..4
        BY <1>3, <1>4, <3>2, <4>0
      <4>2. Reads[Len(out) + 1] # "system.get_cpu_metrics"
        BY <1>6, <4>1, ReadsOf DEF CPUReads
      <4>3. peak' = peak
        BY <4>2, ReadStepParts
      <4>4. out[1] = peak /\ 1 \in 1..Len(out)
        BY <1>1, <1>3, <1>6, <3>2 DEF Evidence
      <4> QED BY <1>3, <4>3, <4>4
    <3> QED BY <1>3, <3>1, <3>2
  <2> QED BY <1>1, <1>3, <1>4, <1>6, <2>3, <2>4 DEF Evidence
<1>7. CASE mem.kind = "disk"
  <2>1. Len(out) + 1 = 3 => s \in SUBSET ProcessSnapshot
    <3>1. Len(out) + 1 = 3 => Reads[Len(out) + 1] = "process.search"
      BY <1>7, ReadsOf DEF DiskReads
    <3> QED BY <1>1, <1>2, <3>1, ProcessSamples
  <2>2. Len(out') >= 3 => out'[3] \subseteq ProcessSnapshot
    <3>1. CASE Len(out) + 1 = 3
      BY <1>3, <2>1, <3>1
    <3>2. CASE Len(out) >= 3
      <4>1. Len(Reads) = 3
        BY <1>7, ReadsOf, Lengths
      <4> QED BY <1>3, <1>4, <3>2, <4>1
    <3> QED BY <1>3, <3>1, <3>2
  <2>3. Len(out') >= [port |-> 4, cpu |-> 2, disk |-> 3][mem'.kind] => Owners(mem.kind)' \subseteq ProcessSnapshot
    BY <1>1, <1>7, <2>2 DEF Owners
  <2> QED BY <1>1, <1>3, <1>4, <1>7, <2>3 DEF Evidence
<1> QED BY <1>1, <1>3, <1>5, <1>6, <1>7

(* What a read of the verification adds. *)
LEMMA VerificationStep ==
    ASSUME Inv, ReadStep, pc = "verifying", pc' = "verifying"
    PROVE  Evidence' /\ out' \in Seq(Sample)
<1>1. /\ world \in World /\ mem \in Task /\ mem' = mem /\ task' = task /\ peak' = peak /\ recovered' = recovered
      /\ mem.kind \in {"port", "cpu", "disk"} /\ out \in Seq(Sample) /\ Evidence
  BY Unhurried, ReadStepParts DEF WorkflowTypeOK, Stage, Recoveries
<1>2. PICK s \in Samples(world, Reads[Len(out) + 1]) : out' = Append(out, s)
  BY ReadStepParts
<1>3. /\ out' \in Seq(Sample) /\ Len(out') = Len(out) + 1 /\ Len(out) \in Nat
      /\ out'[Len(out) + 1] = s /\ \A i \in 1..Len(out) : out'[i] = out[i]
  <2>1. s \in Sample
    BY <1>1, <1>2, OtherSamples
  <2> QED BY <1>1, <1>2, <2>1, OneMore
<1>4. Reads' = Reads /\ Len(out') <= Len(Reads')
  <2>1. Reads' = Reads
    BY <1>1 DEF Reads
  <2>2. Len(Reads) \in Nat
    BY <1>1, ReadsOf, Lengths
  <2> QED BY <1>3, <2>1, <2>2, ReadStepParts
<1>5. Holding(world, peak) \subseteq recovered
  BY InvParts DEF Effect
<1>6. /\ world.service # 0 => "active" \in recovered
      /\ PortOccupied(world) => "listening" \in recovered
      /\ Running(world, "culprit") = {} => "absent" \in recovered
      /\ world.usage < peak => "dropped" \in recovered
      /\ ~world.file.large => "moved" \in recovered
  BY <1>5 DEF Holding
<1>7. CASE Len(out) = 0
  <2>1. Len(out) + 1 = 1 /\ Len(out') = 1 /\ out'[1] = s
    BY <1>3, <1>7
  <2>2. CASE mem.kind = "port"
    <3>1. Reads[Len(out) + 1] = "service.get_status"
      BY <2>1, <2>2, ReadsOf DEF PortChecks
    <3>2. s = (world.service # 0)
      BY <1>1, <1>2, <3>1, OtherSamples
    <3>3. out'[1] => "active" \in recovered'
      BY <1>1, <1>6, <2>1, <3>2
    <3>4. ~(Len(out') >= 2)
      BY <2>1
    <3> QED BY <1>1, <1>3, <1>4, <2>2, <3>3, <3>4 DEF Evidence
  <2>3. CASE mem.kind = "cpu"
    <3>1. Reads[Len(out) + 1] = "system.get_cpu_metrics"
      BY <2>1, <2>3, ReadsOf DEF CPUChecks
    <3>2. s = world.usage
      BY <1>1, <1>2, <3>1, OtherSamples
    <3>3. out'[1] < peak' => "dropped" \in recovered'
      BY <1>1, <1>6, <2>1, <3>2
    <3>4. ~(Len(out') >= 2)
      BY <2>1
    <3> QED BY <1>1, <1>3, <1>4, <2>3, <3>3, <3>4 DEF Evidence
  <2>4. CASE mem.kind = "disk"
    <3>1. Reads[Len(out) + 1] = "process.search"
      BY <2>1, <2>4, ReadsOf DEF DiskChecks
    <3>2. Controlled(s) = {} => Running(world, "culprit") = {}
      BY <1>1, <1>2, <3>1, ProcessSamples
    <3> QED BY <1>1, <1>3, <1>4, <1>6, <2>1, <2>4, <3>2 DEF Evidence
  <2> QED BY <1>1, <2>2, <2>3, <2>4
<1>8. CASE Len(out) = 1
  <2>1. Len(out) + 1 = 2 /\ Len(out') = 2 /\ out'[2] = s /\ out'[1] = out[1]
    BY <1>3, <1>8
  <2>2. CASE mem.kind = "port"
    <3>1. Reads[Len(out) + 1] = "network.check_port"
      BY <2>1, <2>2, ReadsOf DEF PortChecks
    <3>2. s = PortOccupied(world)
      BY <1>1, <1>2, <3>1, OtherSamples
    <3> QED BY <1>1, <1>3, <1>4, <1>6, <1>8, <2>1, <2>2, <3>2 DEF Evidence
  <2>3. CASE mem.kind = "cpu"
    <3>1. Reads[Len(out) + 1] = "process.search"
      BY <2>1, <2>3, ReadsOf DEF CPUChecks
    <3>2. Controlled(s) = {} => Running(world, "culprit") = {}
      BY <1>1, <1>2, <3>1, ProcessSamples
    <3> QED BY <1>1, <1>3, <1>4, <1>6, <1>8, <2>1, <2>3, <3>2 DEF Evidence
  <2>4. CASE mem.kind = "disk"
    <3>1. Reads[Len(out) + 1] = "file.find_large"
      BY <2>1, <2>4, ReadsOf DEF DiskChecks
    <3>2. s = world.file.large
      BY <1>1, <1>2, <3>1, OtherSamples
    <3> QED BY <1>1, <1>3, <1>4, <1>6, <1>8, <2>1, <2>4, <3>2 DEF Evidence
  <2> QED BY <1>1, <2>2, <2>3, <2>4
<1>9. CASE Len(out) >= 2
  <2>1. 1 \in 1..Len(out) /\ 2 \in 1..Len(out)
    BY <1>3, <1>9
  <2>2. out'[1] = out[1] /\ out'[2] = out[2] /\ Len(out) >= 1
    BY <1>3, <1>9, <2>1
  <2>3. Evidence'
    <3>1. CASE mem.kind = "port"
      BY <1>1, <1>4, <1>9, <2>2, <3>1 DEF Evidence
    <3>2. CASE mem.kind = "cpu"
      BY <1>1, <1>4, <1>9, <2>2, <3>2 DEF Evidence
    <3>3. CASE mem.kind = "disk"
      BY <1>1, <1>4, <1>9, <2>2, <3>3 DEF Evidence
    <3> QED BY <1>1, <3>1, <3>2, <3>3
  <2> QED BY <1>3, <2>3
<1>10. Len(out) = 0 \/ Len(out) = 1 \/ Len(out) >= 2
  <2>1. Len(out) \in Nat
    BY <1>3
  <2>2. \A n \in Nat : n = 0 \/ n = 1 \/ n >= 2
    OBVIOUS
  <2> QED BY <2>1, <2>2
<1> QED BY <1>7, <1>8, <1>9, <1>10

(* A read of either kind. *)
LEMMA ReadStepInv == Inv /\ ReadStep => Inv'
<1> SUFFICES ASSUME Inv, ReadStep PROVE Inv'
  OBVIOUS
<1>1. /\ UNCHANGED <<world, session, raced, task, mem, due, victims, acted, recovered, stopped>>
      /\ due = FALSE /\ pc \in {"reading", "verifying"} /\ pc' \in {pc, "failing"}
      /\ peak' = peak \/ (peak' = world.usage /\ pc = "reading")
  BY ReadStepParts DEF host
<1>2. /\ WorkflowTypeOK /\ Sound(task) /\ Fit(mem) /\ Writer /\ Stage /\ Evidence /\ Effect
      /\ VictimIsCulprit /\ out \in Seq(Sample)
  BY InvParts
<1>3. pc = "reading" => task.state = "PLANNING"
  BY <1>2 DEF Stage
<1>4. WorkflowTypeOK'
  BY <1>1, <1>2 DEF WorkflowTypeOK, World
<1>5. Sound(task)'
  BY <1>1, <1>2, <1>3 DEF Sound, Fit, Bound, SecondBound, Outcome, Measured
<1>6. Fit(mem)' /\ Writer' /\ VictimIsCulprit'
  BY <1>1, <1>2 DEF Fit, Bound, SecondBound, Writer, VictimIsCulprit
<1>7. Stage' /\ Validated'
  BY <1>1, <1>2 DEF Stage, Validated
<1>8. Effect'
  BY <1>1, <1>2 DEF Effect
<1>9. Evidence' /\ out' \in Seq(Sample)
  <2>1. CASE pc' = "failing"
    <3>1. out' = out
      BY <1>1, <2>1, ReadStepParts
    <3>2. Evidence'
      BY <1>1, <1>2, <1>3, <2>1 DEF Evidence
    <3> QED BY <1>2, <3>1, <3>2
  <2> QED BY <1>1, <2>1, InvestigationStep, VerificationStep
<1> QED BY <1>4, <1>5, <1>6, <1>7, <1>8, <1>9, InvFromParts

(* A metric step changes the completed steps only. *)
LEMMA SameFields ==
    ASSUME NEW n, Sound(n), NEW m \in Task, m.kind = n.kind, m.pending = n.pending, m.state = n.state,
           m.baseline = n.baseline
    PROVE  Sound(m)
BY DEF Sound, Fit, Bound, SecondBound, Outcome, Measured

(* Completing changes the state only. *)
LEMMA CompletedCopy ==
    ASSUME NEW n, Fit(n), NEW m \in Task, m.kind = n.kind, m.pending = n.pending,
           m.state # "WAITING_APPROVAL", Outcome(m)
    PROVE  Sound(m)
BY DEF Sound, Fit, Bound, SecondBound, Measured

(* A metric is read and its step saved. *)
LEMMA MetricStepInv == Inv /\ MetricStep => Inv'
<1> SUFFICES ASSUME Inv, MetricStep PROVE Inv'
  OBVIOUS
<1> DEFINE M == {Metrics[i] : i \in DOMAIN Metrics}
           tool == mem.plan[Len(out) + 1]
<1>1. /\ pc = "metrics" /\ due' = FALSE /\ UNCHANGED <<host, history>>
      /\ Sound(task) /\ mem = task /\ mem \in Task /\ mem.kind = "metric"
      /\ out \in Seq(Sample) /\ Evidence /\ Len(out) < Len(mem.plan) /\ out' = Append(out, tool)
      /\ Save([mem EXCEPT !.done = Append(@, tool)], "metrics") /\ task.state # "COMPLETED"
  BY Unhurried DEF MetricStep, Stage
<1>2. Quiet /\ Remembered
  BY <1>1, SameSession DEF Quiet, host, history
<1>3. mem.plan \in Seq(M) /\ mem.done \in Seq(M) /\ Len(out) \in Nat /\ Len(mem.plan) \in Nat
  BY <1>1 DEF Task
<1>4. tool \in M /\ tool \in Sample
  <2>1. Len(out) + 1 \in 1..Len(mem.plan)
    BY <1>1, <1>3
  <2>2. tool \in M
    BY <1>3, <2>1, ElementOfSeq
  <2> QED BY <2>2 DEF Sample
<1>5. PICK m : m = [mem EXCEPT !.done = Append(mem.done, tool)]
  OBVIOUS
<1>6. m \in Task /\ m.kind = mem.kind /\ m.state = mem.state /\ m.pending = mem.pending /\ m.plan = mem.plan
      /\ m.baseline = mem.baseline
  <2>1. Append(mem.done, tool) \in Seq(M)
    BY <1>3, <1>4
  <2> HIDE DEF tool
  <2> QED BY <1>1, <1>5, <2>1 DEF Task
<1>7. Sound(m) /\ Save(m, "metrics")
  BY <1>1, <1>5, <1>6, SameFields
<1>8. /\ out' \in Seq(Sample) /\ Len(out') = Len(out) + 1 /\ out'[Len(out) + 1] = tool
      /\ \A i \in 1..Len(out) : out'[i] = out[i]
      /\ DOMAIN out' = 1..(Len(out) + 1) /\ DOMAIN out = 1..Len(out)
  <2> HIDE DEF tool
  <2> QED BY <1>1, <1>4, OneMore
<1>9. ASSUME task' = m, mem' = m, pc' = "metrics" PROVE Placed'
  <2>1. Stage'
    BY <1>1, <1>6, <1>9, Unhurried DEF Stage
  <2>2. ASSUME NEW i \in DOMAIN out' PROVE out'[i] = m.plan[i]
    <3>1. CASE i = Len(out) + 1
      BY <1>6, <1>8, <3>1
    <3>2. CASE i # Len(out) + 1
      <4>1. i \in 1..Len(out)
        BY <1>3, <1>8, <3>2
      <4>2. out[i] = mem.plan[i]
        BY <1>1, <1>8, <4>1 DEF Evidence
      <4> QED BY <1>6, <1>8, <4>1, <4>2
    <3> QED BY <3>1, <3>2
  <2>3. Len(out') <= Len(m.plan)
    BY <1>1, <1>3, <1>6, <1>8
  <2>4. Len(m.plan) >= Len(Metrics) /\ \A i \in DOMAIN Metrics : m.plan[Len(m.plan) - Len(Metrics) + i] = Metrics[i]
    BY <1>1, <1>6 DEF Evidence
  <2>5. Evidence'
    BY <1>1, <1>6, <1>9, <2>2, <2>3, <2>4 DEF Evidence
  <2>6. Effect' /\ Validated'
    BY <1>9 DEF Effect, Validated
  <2> QED BY <2>1, <2>5, <2>6 DEF Placed
<1> QED BY <1>1, <1>2, <1>7, <1>8, <1>9, SaveStep

(* A metric query promises nothing of the host. *)
LEMMA FinishMetricsInv == Inv /\ FinishMetrics => Inv'
<1> SUFFICES ASSUME Inv, FinishMetrics PROVE Inv'
  OBVIOUS
<1>1. /\ pc = "metrics" /\ due' = FALSE /\ out' \in Seq(Sample) /\ UNCHANGED <<host, history>>
      /\ Fit(mem) /\ mem \in Task /\ mem.kind = "metric"
      /\ Save([mem EXCEPT !.state = "COMPLETED"], "idle") \/ FailWith(mem)
  BY Unhurried DEF FinishMetrics, Stage
<1>2. Quiet /\ Remembered
  BY <1>1, SameSession DEF Quiet, host, history
<1>3. PICK m : m = [mem EXCEPT !.state = "COMPLETED"]
  OBVIOUS
<1>4. m \in Task /\ m.state = "COMPLETED" /\ m.kind = mem.kind /\ m.pending = mem.pending
  BY <1>1, <1>3, SetState DEF States, Terminal
<1>5. Sound(m)
  <2>1. Outcome(m)
    BY <1>1, <1>4 DEF Outcome, Recoveries
  <2> QED BY <1>1, <1>4, <2>1, CompletedCopy
<1>6. CASE Save(m, "idle")
  BY <1>1, <1>2, <1>5, <1>6, SaveStep
<1>7. CASE FailWith(mem)
  BY <1>1, <1>2, <1>7, ToFailing DEF FailWith
<1> QED BY <1>1, <1>3, <1>6, <1>7

(* Snapshots are snapshots. *)
LEMMA SnapshotsTyped ==
    ASSUME NEW w \in World
    PROVE  /\ SnapshotService(w) \in Snapshot /\ SnapshotService(w).type = "service"
           /\ SnapshotFile(w) \in Snapshot /\ SnapshotNewFile(w) \in Snapshot
           /\ SnapshotFile(w) # NoSnapshot =>
                 /\ SnapshotFile(w).type = "file" /\ SnapshotFile(w).version = w.file.version
                 /\ w.file # NoFile
           /\ \A id \in Nat : SnapshotObject(w, id) \in Snapshot
           /\ \A id \in Nat : SnapshotObject(w, id) # NoSnapshot =>
                 /\ SnapshotObject(w, id).type = "object" /\ SnapshotObject(w, id).id = id
                 /\ id \in DOMAIN w.objects
<1>1. w.service \in Nat /\ w.file.version \in Nat
  BY DEF World
<1>2. SnapshotService(w) \in Snapshot /\ SnapshotService(w).type = "service"
  BY <1>1 DEF SnapshotService, Snapshot
<1>3. SnapshotFile(w) \in Snapshot
  BY <1>1 DEF SnapshotFile, Snapshot
<1>4. SnapshotFile(w) # NoSnapshot =>
         /\ SnapshotFile(w).type = "file" /\ SnapshotFile(w).version = w.file.version
         /\ w.file # NoFile
  BY DEF SnapshotFile
<1>5. SnapshotNewFile(w) \in Snapshot
  BY DEF SnapshotNewFile, Snapshot
<1>6. \A id \in Nat : SnapshotObject(w, id) \in Snapshot
  BY DEF SnapshotObject, Snapshot
<1>7. \A id \in Nat : SnapshotObject(w, id) # NoSnapshot =>
         /\ SnapshotObject(w, id).type = "object" /\ SnapshotObject(w, id).id = id
         /\ id \in DOMAIN w.objects
  BY DEF SnapshotObject
<1> QED BY <1>2, <1>3, <1>4, <1>5, <1>6, <1>7

(* The one controlled process that was seen. *)
LEMMA OwnerFacts ==
    ASSUME NEW seen \in SUBSET ProcessSnapshot, Unique(seen)
    PROVE  TheOwner(seen) \in ProcessSnapshot /\ TheOwner(seen).exe = "culprit"
<1>1. Controlled(seen) # {}
  BY FS_EmptySet DEF Unique
<1>2. TheOwner(seen) \in Controlled(seen)
  BY <1>1 DEF TheOwner
<1> QED BY <1>2 DEF Controlled

(* What is approved is the one controlled process that was seen and is still there. *)
LEMMA PrepareTerminationInv == Inv /\ PrepareTermination => Inv'
<1> SUFFICES ASSUME Inv, PrepareTermination PROVE Inv'
  OBVIOUS
<1> DEFINE owner == TheOwner(Owners(mem.kind))
           base == IF mem.kind = "cpu" THEN out[1] ELSE 0
           action == [tool |-> "process.terminate", bound |-> owner]
<1>1. /\ pc = "reading" /\ due' = FALSE /\ out' \in Seq(Sample) /\ UNCHANGED <<host, history>>
      /\ Fit(mem) /\ mem \in Task /\ mem.kind \in {"port", "cpu", "disk"} /\ Len(out) = Len(Reads)
      /\ Evidence /\ peak \in Nat
  BY Unhurried DEF PrepareTermination, Stage, Recoveries, WorkflowTypeOK
<1>2. Quiet /\ Remembered
  BY <1>1, SameSession DEF Quiet, host, history
<1>3. CASE FailWith(mem)
  BY <1>1, <1>2, <1>3, ToFailing DEF FailWith
<1>4. CASE /\ Justified(mem.kind)
           /\ Save([mem EXCEPT !.state = "WAITING_APPROVAL", !.baseline = base, !.pending = action], "idle")
  <2>1. Owners(mem.kind) \in SUBSET ProcessSnapshot
    <3>1. CASE mem.kind = "port"
      <4>1. Len(out) = 5
        BY <1>1, <3>1, ReadsOf, Lengths
      <4> QED BY <1>1, <3>1, <4>1 DEF Evidence
    <3>2. CASE mem.kind = "cpu"
      <4>1. Len(out) = 4
        BY <1>1, <3>2, ReadsOf, Lengths
      <4> QED BY <1>1, <3>2, <4>1 DEF Evidence
    <3>3. CASE mem.kind = "disk"
      <4>1. Len(out) = 3
        BY <1>1, <3>3, ReadsOf, Lengths
      <4> QED BY <1>1, <3>3, <4>1 DEF Evidence
    <3> QED BY <1>1, <3>1, <3>2, <3>3
  <2>2. owner \in ProcessSnapshot /\ owner.exe = "culprit"
    BY <1>4, <2>1, OwnerFacts DEF Justified
  <2>3. base \in Nat /\ (mem.kind = "cpu" => base = peak)
    <3>1. mem.kind = "cpu" => Len(out) = 4
      BY <1>1, ReadsOf, Lengths
    <3>2. mem.kind = "cpu" => out[1] = peak
      BY <1>1, <3>1 DEF Evidence
    <3> QED BY <1>1, <3>2
  <2> HIDE DEF owner, base
  <2>4. action \in Action /\ action.tool = "process.terminate" /\ action.bound = owner
    BY <2>2 DEF Action, Snapshot
  <2> HIDE DEF action
  <2>5. PICK m : m = [mem EXCEPT !.state = "WAITING_APPROVAL", !.baseline = base, !.pending = action]
    OBVIOUS
  <2>6. m \in Task /\ m.kind = mem.kind /\ m.state = "WAITING_APPROVAL" /\ m.baseline = base /\ m.pending = action
    BY <1>1, <2>3, <2>4, <2>5 DEF Task, States
  <2>7. Bound(m)
    <3>1. "process.terminate" \in Tools(mem.kind)
      BY <1>1 DEF Tools
    <3> QED BY <2>2, <2>4, <2>6, <3>1 DEF Bound
  <2>8. Sound(m)
    BY <1>1, <2>3, <2>4, <2>6, <2>7 DEF Sound, Fit, SecondBound, Outcome, Measured
  <2> QED BY <1>1, <1>2, <1>4, <2>5, <2>8, SaveStep
<1> QED BY <1>3, <1>4 DEF PrepareTermination

(* The second target is snapshotted after the first action. *)
LEMMA PlanNextInv == Inv /\ PlanNext => Inv'
<1> SUFFICES ASSUME Inv, PlanNext PROVE Inv'
  OBVIOUS
<1> DEFINE bound == NextBound(mem.kind)
           action == [tool |-> NextTool[mem.kind], bound |-> bound]
<1>1. /\ pc = "next" /\ due' = FALSE /\ out' \in Seq(Sample) /\ UNCHANGED <<host, history>>
      /\ Fit(mem) /\ mem \in Task /\ mem.kind \in {"port", "disk"} /\ world \in World /\ stopped >= 0
  BY Unhurried, InvParts DEF PlanNext, Stage, WorkflowTypeOK, Effect
<1>2. Quiet /\ Remembered
  BY <1>1, SameSession DEF Quiet, host, history
<1>3. PICK m : m = [mem EXCEPT !.state = "PLANNING"]
  OBVIOUS
<1>4. m \in Task /\ m.state = "PLANNING" /\ m.kind = mem.kind /\ m.pending = mem.pending
  <2>1. mem \in Task /\ "PLANNING" \in States
    BY <1>1 DEF States
  <2> QED BY <1>3, <2>1, SetState
<1>5. Sound(m)
  BY <1>1, <1>4, Recast
<1>6. CASE FailWith(mem)
  BY <1>1, <1>2, <1>6, ToFailing DEF FailWith
<1>7. CASE task' \in {task, m} /\ mem' = m /\ Fault
  BY <1>1, <1>2, <1>5, <1>7, ToFailing DEF Fault, Sound
<1>8. CASE /\ bound # NoSnapshot /\ task' = m /\ pc' = "preparing"
           /\ mem' = [m EXCEPT !.pending = action]
  <2>1. bound \in Snapshot /\ (mem.kind = "disk" => bound.type = "file" /\ bound.version >= stopped)
    <3>1. CASE mem.kind = "port"
      BY <1>1, <3>1, SnapshotsTyped DEF NextBound
    <3>2. CASE mem.kind = "disk"
      <4>1. bound = SnapshotFile(world)
        BY <3>2 DEF NextBound
      <4>2. bound \in Snapshot /\ bound.type = "file" /\ bound.version = world.file.version /\ world.file # NoFile
        BY <1>1, <1>8, <4>1, SnapshotsTyped
      <4>3. world.file.version >= stopped
        BY <1>1, <4>2, InvParts DEF Writer
      <4> QED BY <4>2, <4>3
    <3> QED BY <1>1, <3>1, <3>2
  <2> HIDE DEF bound
  <2>2. /\ action \in Action /\ action.tool = NextTool[mem.kind] /\ action.bound = bound
        /\ action.tool \in {"service.restart", "file.quarantine"} /\ action.tool \in Tools(mem.kind)
        /\ (action.tool = "file.quarantine" => mem.kind = "disk")
    BY <1>1, <2>1 DEF Action, NextTool, Tools
  <2> HIDE DEF action
  <2>3. PICK n : n = [m EXCEPT !.pending = action]
    OBVIOUS
  <2>4. n \in Task /\ n.state = "PLANNING" /\ n.kind = mem.kind /\ n.pending = action
    BY <1>4, <2>2, <2>3, SetPending
  <2>5. Bound(n) /\ SecondBound(n)
    BY <1>1, <2>1, <2>2, <2>4 DEF Bound, SecondBound
  <2>6. Fit(n)
    BY <1>1, <2>4, <2>5 DEF Fit
  <2>7. Placed'
    <3>1. Stage'
      BY <1>1, <1>4, <1>8, <2>2, <2>3, <2>4 DEF Stage
    <3>2. Evidence' /\ Effect' /\ Validated'
      BY <1>1, <1>2, <1>4, <1>8, <2>3, <2>4 DEF Evidence, Effect, Validated, Quiet
    <3> QED BY <3>1, <3>2 DEF Placed
  <2> QED BY <1>1, <1>2, <1>5, <1>8, <2>3, <2>6, <2>7, SavedStep
<1> QED BY <1>3, <1>6, <1>7, <1>8 DEF PlanNext

(* The second approval. *)
LEMMA PrepareNextInv == Inv /\ PrepareNext => Inv'
<1> SUFFICES ASSUME Inv, PrepareNext PROVE Inv'
  OBVIOUS
<1>1. /\ pc = "preparing" /\ due' = FALSE /\ out' \in Seq(Sample) /\ UNCHANGED <<host, history>>
      /\ Fit(mem) /\ mem \in Task /\ mem.kind \in {"port", "disk"}
      /\ mem.pending.tool = NextTool[mem.kind]
      /\ FailWith(mem) \/ Save([mem EXCEPT !.state = "WAITING_APPROVAL"], "idle")
  BY Unhurried DEF PrepareNext, Stage
<1>2. Quiet /\ Remembered
  BY <1>1, SameSession DEF Quiet, host, history
<1>3. PICK m : m = [mem EXCEPT !.state = "WAITING_APPROVAL"]
  OBVIOUS
<1>4. m \in Task /\ m.state = "WAITING_APPROVAL" /\ m.kind = mem.kind /\ m.pending = mem.pending
  <2>1. mem \in Task /\ "WAITING_APPROVAL" \in States
    BY <1>1 DEF States
  <2> QED BY <1>3, <2>1, SetState
<1>5. Sound(m)
  <2>1. m.pending.tool # "none"
    BY <1>1, <1>4 DEF NextTool
  <2>2. Bound(m)
    BY <1>1, <1>4, <2>1 DEF Fit, Bound
  <2>3. SecondBound(m)
    BY <1>1, <1>4 DEF Fit, SecondBound
  <2> QED BY <1>1, <1>4, <2>2, <2>3 DEF Sound, Fit, Outcome, Measured
<1>6. CASE Save(m, "idle")
  BY <1>1, <1>2, <1>5, <1>6, SaveStep
<1>7. CASE FailWith(mem)
  BY <1>1, <1>2, <1>7, ToFailing DEF FailWith
<1> QED BY <1>1, <1>3, <1>6, <1>7

(* What a file action is bound to. *)
LEMMA FileBoundFacts ==
    ASSUME WorkflowTypeOK, NEW kind \in FileActions, NEW named \in BOOLEAN,
           FileBound(kind, named) # NoSnapshot
    PROVE  /\ FileBound(kind, named) \in Snapshot
           /\ kind = "quarantine" => FileBound(kind, named).type = "file"
           /\ kind = "restore" => /\ FileBound(kind, named).type = "object"
                                  /\ FileBound(kind, named).id \in DOMAIN world.objects
<1>1. world \in World /\ session.pin \in Nat
  BY DEF WorkflowTypeOK, World
<1>2. CASE kind = "create"
  <2>1. FileBound(kind, named) = SnapshotNewFile(world)
    BY <1>2 DEF FileBound
  <2> QED BY <1>1, <1>2, <2>1, SnapshotsTyped
<1>3. CASE kind = "quarantine"
  <2>1. FileBound(kind, named) = SnapshotFile(world)
    BY <1>3 DEF FileBound
  <2> QED BY <1>1, <1>3, <2>1, SnapshotsTyped
<1>4. CASE kind = "restore"
  <2>1. FileBound(kind, named) = SnapshotObject(world, session.pin)
    BY <1>4 DEF FileBound
  <2> QED BY <1>1, <1>4, <2>1, SnapshotsTyped
<1> QED BY <1>2, <1>3, <1>4 DEF FileActions

(* The approval of a file action. *)
LEMMA PrepareFileActionInv == Inv /\ PrepareFileAction => Inv'
<1> SUFFICES ASSUME Inv, PrepareFileAction PROVE Inv'
  OBVIOUS
<1>1. /\ pc = "resolving" /\ due' = FALSE /\ out' \in Seq(Sample) /\ UNCHANGED <<host, history>>
      /\ Fit(mem) /\ mem \in Task /\ mem.kind \in FileActions /\ WorkflowTypeOK
  BY Unhurried DEF PrepareFileAction, Stage
<1>2. Quiet /\ Remembered
  BY <1>1, SameSession DEF Quiet, host, history
<1>3. CASE FailWith(mem)
  BY <1>1, <1>2, <1>3, ToFailing DEF FailWith
<1>4. ASSUME NEW named \in BOOLEAN, FileBound(mem.kind, named) # NoSnapshot,
             Save([mem EXCEPT !.state = "WAITING_APPROVAL",
                              !.pending = [tool |-> FileTool[mem.kind], bound |-> FileBound(mem.kind, named)]],
                  "idle")
      PROVE  Inv'
  <2>1. PICK bound : bound = FileBound(mem.kind, named)
    OBVIOUS
  <2>2. /\ bound \in Snapshot
        /\ mem.kind = "quarantine" => bound.type = "file"
        /\ mem.kind = "restore" => bound.type = "object" /\ bound.id \in DOMAIN world.objects
    BY <1>1, <1>4, <2>1, FileBoundFacts
  <2>3. PICK action : action = [tool |-> FileTool[mem.kind], bound |-> bound]
    OBVIOUS
  <2>4. /\ action \in Action /\ action.bound = bound /\ action.tool \in Tools(mem.kind)
        /\ action.tool \notin {"none", "process.terminate"}
        /\ action.tool = "file.quarantine" => mem.kind = "quarantine"
        /\ action.tool = "file.restore_quarantine" => mem.kind = "restore"
    BY <1>1, <2>2, <2>3 DEF Action, FileTool, Tools, FileActions
  <2>5. PICK m : m = [mem EXCEPT !.state = "WAITING_APPROVAL", !.pending = action]
    OBVIOUS
  <2>6. m \in Task /\ m.kind = mem.kind /\ m.state = "WAITING_APPROVAL" /\ m.pending = action
    BY <1>1, <2>4, <2>5 DEF Task, States
  <2>7. Bound(m)
    BY <2>2, <2>4, <2>6 DEF Bound
  <2>8. m.kind \notin Recoveries /\ m.kind # "cpu"
    BY <1>1, <2>6 DEF Recoveries, FileActions
  <2>9. Sound(m)
    BY <1>1, <2>6, <2>7, <2>8 DEF Sound, Fit, SecondBound, Outcome, Measured
  <2>10. Save(m, "idle")
    BY <1>4, <2>1, <2>3, <2>5
  <2> QED BY <1>1, <1>2, <2>9, <2>10, SaveStep
<1> QED BY <1>3, <1>4 DEF PrepareFileAction

(* A refused approval leaves no action behind. *)
LEMMA RejectInv == Inv /\ Reject => Inv'
<1> SUFFICES ASSUME Inv, Reject PROVE Inv'
  OBVIOUS
<1>1. /\ pc = "idle" /\ due' = FALSE /\ out' \in Seq(Sample) /\ UNCHANGED <<host, history>>
      /\ Fit(task) /\ task \in Task /\ mem = task
      /\ SaveOrLeave([task EXCEPT !.state = "CANCELLED", !.pending = NoAction], "idle")
  BY Unhurried DEF Reject, Stage, WorkflowTypeOK
<1>2. Quiet /\ Remembered
  BY <1>1, SameSession DEF Quiet, host, history
<1>3. PICK m : m = [task EXCEPT !.state = "CANCELLED", !.pending = NoAction]
  OBVIOUS
<1>4. m \in Task /\ m.state = "CANCELLED" /\ m.kind = task.kind /\ m.pending.tool = "none"
  BY <1>1, <1>3, NoActionType DEF Task, States, Terminal
<1>5. Sound(m)
  BY <1>1, <1>4, Recast
<1> QED BY <1>1, <1>2, <1>3, <1>5, SaveOrLeaveStep

(* Approving changes nothing but the state. *)
LEMMA ApproveInv == Inv /\ Approve => Inv'
<1> SUFFICES ASSUME Inv, Approve PROVE Inv'
  OBVIOUS
<1>1. /\ pc = "idle" /\ due' = FALSE /\ out' \in Seq(Sample) /\ UNCHANGED <<host, history>>
      /\ Fit(task) /\ Sound(task) /\ task \in Task /\ mem = task /\ task.state = "WAITING_APPROVAL"
      /\ SaveOrLeave([task EXCEPT !.state = "EXECUTING"], "executing")
  BY Unhurried DEF Approve, Stage, WorkflowTypeOK
<1>2. Quiet /\ Remembered
  BY <1>1, SameSession DEF Quiet, host, history
<1>3. PICK m : m = [task EXCEPT !.state = "EXECUTING"]
  OBVIOUS
<1>4. m \in Task /\ m.state = "EXECUTING" /\ m.kind = task.kind /\ m.pending = task.pending /\ m.baseline = task.baseline
  <2>1. task \in Task /\ "EXECUTING" \in States
    BY <1>1 DEF States
  <2> QED BY <1>3, <2>1, SetState
<1>5. Sound(m)
  BY <1>1, <1>4, Recast
<1>6. m.pending.tool # "none" /\ (m.kind = "cpu" => m.baseline = peak)
  BY <1>1, <1>4 DEF Sound, Fit, Bound, Measured
<1>7. ASSUME task' = m, mem' = m, pc' = "executing" PROVE Placed'
  <2>1. Stage'
    BY <1>1, <1>4, <1>6, <1>7 DEF Stage
  <2>2. Evidence' /\ Effect' /\ Validated'
    BY <1>2, <1>4, <1>6, <1>7 DEF Evidence, Effect, Validated, Quiet
  <2> QED BY <2>1, <2>2 DEF Placed
<1> QED BY <1>1, <1>2, <1>3, <1>5, <1>7, SaveOrLeaveStep

(* The validator has seen the approved process. *)
LEMMA ValidateInv == Inv /\ Validate => Inv'
<1> SUFFICES ASSUME Inv, Validate PROVE Inv'
  OBVIOUS
<1>1. /\ pc = "executing" /\ UNCHANGED <<world, session, task, mem, out, due, history>> /\ raced' = FALSE
      /\ pc' = "failing" \/ (pc' = "acting" /\ Revalidate(world, mem.pending.bound))
  BY DEF Validate, FailWith, Fault
<1>2. /\ WorkflowTypeOK /\ Sound(task) /\ Fit(mem) /\ Writer /\ Stage /\ Evidence /\ Effect
      /\ VictimIsCulprit /\ out \in Seq(Sample)
  BY InvParts
<1>3. UNCHANGED <<victims, acted, peak, recovered, stopped>>
  BY <1>1 DEF history
<1>4. WorkflowTypeOK'
  BY <1>1, <1>2, <1>3 DEF WorkflowTypeOK
<1>5. Sound(task)' /\ Fit(mem)' /\ Writer' /\ VictimIsCulprit'
  BY <1>1, <1>2, <1>3 DEF Sound, Fit, Bound, SecondBound, Outcome, Measured, Writer, VictimIsCulprit
<1>6. Stage'
  BY <1>1, <1>2 DEF Stage
<1>7. Evidence' /\ Effect'
  BY <1>1, <1>2, <1>3 DEF Evidence, Effect
<1>8. Validated'
  <2>1. ASSUME pc' = "acting", mem.pending.tool = "process.terminate"
        PROVE  SnapshotProcess(world, mem.pending.bound.pid) = mem.pending.bound
    <3>1. mem.pending.bound.type = "process"
      BY <1>2, <2>1 DEF Fit, Bound, ProcessSnapshot
    <3> QED BY <1>1, <2>1, <3>1 DEF Revalidate
  <2> QED BY <1>1, <2>1 DEF Validated, SnapshotProcess
<1> QED BY <1>1, <1>2, <1>4, <1>5, <1>6, <1>7, <1>8, InvFromParts

(* A handler of the executor has run, with or without effect. *)
LEMMA HandlerStep ==
    ASSUME Inv, pc = "acting", UNCHANGED <<task, mem, due, out, session, raced, peak>>,
           world' \in World, DOMAIN world.objects \subseteq DOMAIN world'.objects,
           Len(world.objects) <= Len(world'.objects),
           \A i \in DOMAIN world'.objects : world'.objects[i] <= world'.born,
           world'.file.version <= world'.born, stopped' \in Nat \cup {-1}, stopped' <= world'.born,
           acted' \in Action, pc' \in {"acted", "failing"},
           VictimIsCulprit', Writer', SecondBound(mem)', Effect'
    PROVE  Inv'
<1>1. /\ WorkflowTypeOK /\ Sound(task) /\ Fit(mem) /\ Stage /\ Evidence /\ out \in Seq(Sample)
  BY InvParts
<1>2. task.state # "COMPLETED" /\ mem = task
  BY <1>1 DEF Stage
<1>3. WorkflowTypeOK'
  <2>1. session \in [selected : BOOLEAN, pin : 0..Len(world'.objects)]
    <3>1. session \in [selected : BOOLEAN, pin : 0..Len(world.objects)] /\ world \in World
      BY <1>1 DEF WorkflowTypeOK
    <3>2. Len(world.objects) \in Nat /\ Len(world'.objects) \in Nat
      BY <3>1 DEF World
    <3> QED BY <3>1, <3>2
  <2> QED BY <1>1, <2>1 DEF WorkflowTypeOK
<1>4. Bound(mem)' /\ Bound(task)'
  BY <1>1, <1>2 DEF Fit, Bound
<1>5. Fit(mem)' /\ Sound(task)'
  BY <1>1, <1>2, <1>4 DEF Fit, Sound, SecondBound, Outcome, Measured
<1>6. Stage' /\ Validated'
  BY <1>1 DEF Stage, Validated
<1>7. Evidence'
  BY <1>1 DEF Evidence
<1> QED BY <1>1, <1>3, <1>5, <1>6, <1>7, InvFromParts

(* A failure promises no effect. *)
LEMMA FailedEffect == ASSUME pc' = "failing" PROVE Effect'
BY DEF Effect

(* The kinds of the workflows, by their actions. *)
LEMMA KindOf ==
    ASSUME NEW m, Fit(m)
    PROVE  /\ m.pending.tool = "process.terminate" => m.kind \in Recoveries
           /\ m.pending.tool = "service.restart" => m.kind = "port"
           /\ m.pending.tool = "file.create" => m.kind = "create"
           /\ m.pending.tool = "file.quarantine" => m.kind \in {"disk", "quarantine"}
           /\ m.pending.tool = "file.restore_quarantine" => m.kind = "restore"
<1>1. m.kind \in {"port", "cpu", "disk", "create", "quarantine", "restore", "metric"}
  BY DEF Fit, Task, Kinds, Recoveries, FileActions
<1>2. m.pending.tool \in Tools(m.kind) \cup {"none"}
  BY DEF Fit, Bound
<1> QED BY <1>1, <1>2 DEF Tools, Recoveries

(* The types of the parts of the host. *)
LEMMA WorldFacts ==
    ASSUME WorkflowTypeOK
    PROVE  /\ world \in World /\ world.procs \in [Pids -> [start : Nat, exe : {"none", "culprit", "other"}]]
           /\ world.service \in Nat /\ world.usage \in Nat /\ world.file \in [version : Nat, large : BOOLEAN]
           /\ world.file.version \in Nat /\ world.objects \in Seq(Nat) /\ world.born \in Nat
           /\ world.file.version <= world.born /\ stopped <= world.born
           /\ \A i \in DOMAIN world.objects : world.objects[i] <= world.born
           /\ stopped \in Nat \cup {-1} /\ stopped \in Int /\ acted \in Action /\ mem \in Task /\ mem.pending \in Action
BY DEF WorkflowTypeOK, World, Task

(* The signal goes to the approved process, or the processes have changed since the check. *)
LEMMA TerminateInv == Inv /\ Terminate => Inv'
<1> SUFFICES ASSUME Inv, Terminate PROVE Inv'
  OBVIOUS
<1> DEFINE bound == mem.pending.bound
           now == SnapshotProcess(world, bound.pid)
<1>1. /\ WorkflowTypeOK /\ Fit(mem) /\ Writer /\ Validated /\ VictimIsCulprit /\ SecondBound(mem)
      /\ mem.kind = task.kind
  BY InvParts DEF Fit
<1>2. /\ pc = "acting" /\ mem.pending.tool = "process.terminate"
      /\ UNCHANGED <<task, mem, session, raced, out, due, peak>>
  BY DEF Terminate, ActFails, FailWith, Acted
<1>3. bound \in ProcessSnapshot /\ bound.exe = "culprit" /\ bound.pid \in Pids
  BY <1>1, <1>2 DEF Fit, Bound, ProcessSnapshot
<1>4. mem.kind \in Recoveries
  BY <1>1, <1>2, KindOf
<1>5. victims' \in {victims, victims \cup {[was |-> now, bound |-> bound, raced |-> raced]}}
  BY DEF Terminate
<1>6. VictimIsCulprit'
  <2>1. now = bound \/ raced
    BY <1>1, <1>2 DEF Validated, WorkflowTypeOK
  <2> HIDE DEF now, bound
  <2> QED BY <1>1, <1>3, <1>5, <2>1 DEF VictimIsCulprit
<1>7. CASE ActFails(world) /\ stopped' = stopped
  <2>1. world' = world /\ pc' = "failing" /\ acted' = acted
    BY <1>7 DEF ActFails, FailWith
  <2>2. Writer' /\ SecondBound(mem)'
    BY <1>1, <1>2, <1>7, <2>1 DEF Writer, SecondBound
  <2> QED BY <1>1, <1>2, <1>6, <1>7, <2>1, <2>2, WorldFacts, FailedEffect, HandlerStep
<1>8. ASSUME NEW u \in 0..world.usage, stopped' = world.file.version,
             Acted([world EXCEPT !.procs[bound.pid] = NoProc, !.usage = u])
      PROVE  Inv'
  <2>1. PICK w : w = [world EXCEPT !.procs[bound.pid] = NoProc, !.usage = u]
    OBVIOUS
  <2>2. PICK pid \in Pids : pid = bound.pid
    BY <1>3
  <2>3. u \in Nat
    BY <1>1, <1>8, WorldFacts
  <2>4. NoProc \in [start : Nat, exe : {"none", "culprit", "other"}]
    BY DEF NoProc
  <2>5. w \in World /\ w.file = world.file /\ w.objects = world.objects /\ w.born = world.born
    BY <1>1, <2>1, <2>2, <2>3, <2>4, WorldFacts DEF World
  <2>6. world' = w /\ acted' = mem.pending /\ recovered' = Holding(w, peak) /\ pc' \in {"acted", "failing"}
    BY <1>8, <2>1 DEF Acted, Fault
  <2>7. stopped' \in Nat /\ stopped' <= world'.born
    BY <1>1, <1>8, <2>5, <2>6, WorldFacts
  <2>8. Writer'
    <3>1. world'.file.version >= stopped'
      BY <1>1, <1>8, <2>5, <2>6, WorldFacts
    <3> QED BY <1>1, <1>2, <1>4, <3>1 DEF Writer
  <2>9. SecondBound(mem)'
    BY <1>2 DEF SecondBound
  <2>10. Effect'
    <3>1. stopped' >= 0
      BY <2>7
    <3>2. Holding(world, peak)' \subseteq recovered'
      BY <1>2, <2>6 DEF Holding, PortOccupied, Running
    <3> QED BY <1>2, <2>6, <3>1, <3>2 DEF Effect
  <2>11. acted' \in Action
    BY <1>1, <2>6, WorldFacts
  <2>12. /\ world' \in World /\ DOMAIN world.objects \subseteq DOMAIN world'.objects
         /\ Len(world.objects) <= Len(world'.objects) /\ world'.file.version <= world'.born
         /\ \A i \in DOMAIN world'.objects : world'.objects[i] <= world'.born
    <3>1. Len(world.objects) \in Nat
      BY <1>1, WorldFacts
    <3> QED BY <1>1, <2>5, <2>6, <3>1, WorldFacts
  <2> QED BY <1>2, <1>6, <2>6, <2>7, <2>8, <2>9, <2>10, <2>11, <2>12, HandlerStep
<1> QED BY <1>7, <1>8 DEF Terminate

(* The other handlers: what they leave of the host is all that matters. *)
LEMMA HandlerFailed ==
    ASSUME Inv, NEW tool, Acting(tool), NEW w \in World, ActFails(w),
           w.file = world.file, w.objects = world.objects, w.born = world.born
    PROVE  Inv'
<1>1. /\ WorkflowTypeOK /\ Fit(mem) /\ Writer /\ VictimIsCulprit
  BY InvParts
<1>2. /\ pc = "acting" /\ UNCHANGED <<task, mem, session, raced, out, due, victims, peak, stopped, acted>>
      /\ world' = w /\ pc' = "failing"
  BY DEF Acting, ActFails, FailWith
<1>3. Writer' /\ SecondBound(mem)' /\ VictimIsCulprit'
  BY <1>1, <1>2 DEF Writer, SecondBound, VictimIsCulprit, Fit
<1>4. Len(world.objects) \in Nat
  BY <1>1, WorldFacts
<1> QED BY <1>1, <1>2, <1>3, <1>4, WorldFacts, FailedEffect, HandlerStep

(* A handler that had its effect. *)
LEMMA HandlerActed ==
    ASSUME Inv, NEW tool, tool \notin {"none", "process.terminate"}, Acting(tool),
           NEW w \in World, Acted(w),
           DOMAIN world.objects \subseteq DOMAIN w.objects, Len(world.objects) <= Len(w.objects),
           \A i \in DOMAIN w.objects : w.objects[i] <= w.born,
           w.file.version <= w.born, world.born <= w.born,
           stopped >= 0 => w.file = NoFile \/ w.file.version >= stopped,
           tool = "file.quarantine" => /\ Len(w.objects) \in DOMAIN w.objects
                                       /\ w.objects[Len(w.objects)] = mem.pending.bound.version,
           tool = "file.restore_quarantine" => /\ mem.pending.bound.id \in DOMAIN w.objects
                                               /\ w.objects[mem.pending.bound.id] = 0
    PROVE  Inv'
<1>1. /\ WorkflowTypeOK /\ Fit(mem) /\ Writer /\ VictimIsCulprit
  BY InvParts
<1>2. /\ pc = "acting" /\ mem.pending.tool = tool
      /\ UNCHANGED <<task, mem, session, raced, out, due, victims, peak, stopped>>
      /\ world' = w /\ acted' = mem.pending /\ recovered' = Holding(w, peak) /\ pc' \in {"acted", "failing"}
  BY DEF Acting, Acted, Fault
<1>3. Writer' /\ SecondBound(mem)' /\ VictimIsCulprit'
  BY <1>1, <1>2 DEF Writer, SecondBound, VictimIsCulprit, Fit
<1>4. Effect'
  <2>1. Holding(world, peak)' \subseteq recovered'
    BY <1>2 DEF Holding, PortOccupied, Running
  <2> QED BY <1>2, <2>1 DEF Effect
<1>5. stopped' <= world'.born /\ stopped' \in Nat \cup {-1} /\ acted' \in Action
  <2>1. w.born \in Nat
    BY DEF World
  <2> QED BY <1>1, <1>2, <2>1, WorldFacts
<1> QED BY <1>2, <1>3, <1>4, <1>5, HandlerStep

(* A restart leaves files and quarantine alone. *)
LEMMA RestartServiceInv == Inv /\ RestartService => Inv'
<1> SUFFICES ASSUME Inv, RestartService PROVE Inv'
  OBVIOUS
<1>1. WorkflowTypeOK /\ Writer
  BY InvParts
<1>2. Acting("service.restart")
  BY DEF RestartService
<1>3. CASE Acted([world EXCEPT !.service = world.born + 1, !.born = @ + 1])
  <2>1. PICK w : w = [world EXCEPT !.service = world.born + 1, !.born = @ + 1]
    OBVIOUS
  <2>2. /\ w \in World /\ w.file = world.file /\ w.objects = world.objects /\ w.born = world.born + 1
    <3>1. PICK b \in Nat : b = world.born + 1
      BY <1>1, WorldFacts
    <3>2. w = [world EXCEPT !.service = b, !.born = b] /\ world \in World
      BY <1>1, <2>1, <3>1, WorldFacts DEF World
    <3> QED BY <3>1, <3>2 DEF World
  <2>3. /\ world.born <= w.born /\ w.file.version <= w.born
        /\ \A i \in DOMAIN w.objects : w.objects[i] <= w.born
    <3>1. /\ world.born \in Nat /\ world.file.version \in Nat
          /\ \A i \in DOMAIN world.objects : world.objects[i] \in Nat
      BY <1>1, WorldFacts
    <3> QED BY <1>1, <2>2, <3>1, WorldFacts
  <2>4. Len(world.objects) \in Nat
    BY <1>1, WorldFacts
  <2>5. stopped >= 0 => w.file = NoFile \/ w.file.version >= stopped
    BY <1>1, <2>2 DEF Writer
  <2>6. Acted(w) /\ DOMAIN world.objects \subseteq DOMAIN w.objects /\ Len(world.objects) <= Len(w.objects)
    BY <1>3, <2>1, <2>2, <2>4
  <2> QED BY <1>2, <2>2, <2>3, <2>5, <2>6, HandlerActed
<1>4. CASE ActFails([world EXCEPT !.service = 0])
  <2>1. PICK w : w = [world EXCEPT !.service = 0]
    OBVIOUS
  <2>2. /\ w \in World /\ w.file = world.file /\ w.objects = world.objects /\ w.born = world.born
    BY <1>1, <2>1, WorldFacts DEF World
  <2> QED BY <1>2, <1>4, <2>1, <2>2, HandlerFailed
<1> QED BY <1>3, <1>4 DEF RestartService

(* The object holds the version that was approved. *)
LEMMA QuarantineFileInv == Inv /\ QuarantineFile => Inv'
<1> SUFFICES ASSUME Inv, QuarantineFile PROVE Inv'
  OBVIOUS
<1>1. WorkflowTypeOK /\ Fit(mem)
  BY InvParts
<1>2. Acting("file.quarantine") /\ mem.pending.tool = "file.quarantine"
  BY DEF QuarantineFile, Acting
<1>3. CASE /\ SnapshotFile(world) = mem.pending.bound
           /\ Acted([world EXCEPT !.objects = Append(@, world.file.version), !.file = NoFile])
  <2>1. PICK w : w = [world EXCEPT !.objects = Append(@, world.file.version), !.file = NoFile]
    OBVIOUS
  <2>2. NoFile \in [version : Nat, large : BOOLEAN] /\ NoFile.version = 0
    BY DEF NoFile
  <2>3. /\ world.objects \in Seq(Nat) /\ world.file.version \in Nat /\ Len(world.objects) \in Nat
    BY <1>1, WorldFacts
  <2>4. /\ Append(world.objects, world.file.version) \in Seq(Nat)
    BY <2>3
  <2>5. /\ w \in World /\ w.file = NoFile /\ w.objects = Append(world.objects, world.file.version)
        /\ w.born = world.born
    BY <1>1, <2>1, <2>2, <2>4, WorldFacts DEF World
  <2>6. /\ Len(w.objects) = Len(world.objects) + 1 /\ Len(w.objects) \in DOMAIN w.objects
        /\ DOMAIN world.objects = 1..Len(world.objects) /\ DOMAIN w.objects = 1..(Len(world.objects) + 1)
        /\ w.objects[Len(w.objects)] = world.file.version
        /\ \A i \in DOMAIN world.objects : w.objects[i] = world.objects[i]
    BY <2>3, <2>5, AppendProperties
  <2>7. mem.pending.bound.type = "file"
    BY <1>1, <1>2 DEF Fit, Bound
  <2>8. mem.pending.bound.version = world.file.version
    BY <1>3, <2>7 DEF SnapshotFile, NoSnapshot
  <2>9. /\ DOMAIN world.objects \subseteq DOMAIN w.objects /\ Len(world.objects) <= Len(w.objects)
        /\ \A i \in DOMAIN w.objects : i \in DOMAIN world.objects \/ i = Len(w.objects)
    BY <2>3, <2>6
  <2>10. \A i \in DOMAIN w.objects : w.objects[i] <= w.born
    BY <1>1, <2>5, <2>6, <2>9, WorldFacts
  <2>11. w.file.version <= w.born /\ world.born <= w.born
    BY <1>1, <2>2, <2>5, WorldFacts
  <2>12. Acted(w)
    BY <1>3, <2>1
  <2> QED BY <1>2, <2>5, <2>6, <2>8, <2>9, <2>10, <2>11, <2>12, HandlerActed
<1>4. CASE ActFails(world)
  BY <1>1, <1>2, <1>4, WorldFacts, HandlerFailed
<1> QED BY <1>3, <1>4 DEF QuarantineFile

(* Only a recovery stops a process, and it neither creates nor restores files. *)
LEMMA NoneStopped ==
    ASSUME Inv, mem.pending.tool \in {"file.create", "file.restore_quarantine"}
    PROVE  ~(stopped >= 0)
<1>1. Fit(mem) /\ Writer /\ mem.kind = task.kind
  BY InvParts DEF Fit
<1>2. mem.kind \in {"create", "restore"}
  BY <1>1, KindOf
<1> QED BY <1>1, <1>2 DEF Writer, Recoveries

(* The object is emptied; no process was stopped for this task. *)
LEMMA RestoreFileInv == Inv /\ RestoreFile => Inv'
<1> SUFFICES ASSUME Inv, RestoreFile PROVE Inv'
  OBVIOUS
<1>1. WorkflowTypeOK /\ Fit(mem)
  BY InvParts
<1>2. Acting("file.restore_quarantine") /\ mem.pending.tool = "file.restore_quarantine"
  BY DEF RestoreFile, Acting
<1>3. PICK id : id = mem.pending.bound.id
  OBVIOUS
<1>4. id \in DOMAIN world.objects
  BY <1>1, <1>2, <1>3 DEF Fit, Bound
<1>5. CASE Acted([world EXCEPT !.file = [version |-> world.objects[id], large |-> TRUE], !.objects[id] = 0])
  <2>1. PICK w : w = [world EXCEPT !.file = [version |-> world.objects[id], large |-> TRUE], !.objects[id] = 0]
    OBVIOUS
  <2>2. /\ world.objects \in Seq(Nat) /\ Len(world.objects) \in Nat /\ world.objects[id] \in Nat
        /\ world.objects[id] <= world.born /\ world.born \in Nat
    BY <1>1, <1>4, WorldFacts
  <2>3. PICK o : o = [world.objects EXCEPT ![id] = 0]
    OBVIOUS
  <2>4. /\ o \in Seq(Nat) /\ Len(o) = Len(world.objects) /\ DOMAIN o = DOMAIN world.objects /\ o[id] = 0
        /\ \A i \in DOMAIN o : o[i] = world.objects[i] \/ o[i] = 0
    BY <1>4, <2>2, <2>3, ExceptSeq
  <2>5. /\ w \in World /\ w.objects = o /\ w.born = world.born
        /\ w.file = [version |-> world.objects[id], large |-> TRUE]
    BY <1>1, <2>1, <2>2, <2>3, <2>4, WorldFacts DEF World
  <2>6. \A i \in DOMAIN w.objects : w.objects[i] <= w.born
    <3>1. \A i \in DOMAIN o : o[i] <= world.born
      <4>1. \A i \in DOMAIN world.objects : world.objects[i] <= world.born
        BY <1>1, WorldFacts
      <4> QED BY <2>2, <2>4, <4>1
    <3> QED BY <2>5, <3>1
  <2>7. ~(stopped >= 0)
    BY <1>2, NoneStopped
  <2>8. Acted(w)
    BY <1>5, <2>1
  <2>9. w.file.version <= w.born /\ world.born <= w.born /\ Len(world.objects) <= Len(w.objects)
    BY <2>2, <2>4, <2>5
  <2> QED BY <1>2, <1>3, <1>4, <2>4, <2>5, <2>6, <2>7, <2>8, <2>9, HandlerActed
<1>6. CASE ActFails(world)
  BY <1>1, <1>2, <1>6, WorldFacts, HandlerFailed
<1> QED BY <1>3, <1>5, <1>6 DEF RestoreFile

(* A created file is younger than all before. *)
LEMMA CreateFileInv == Inv /\ CreateFile => Inv'
<1> SUFFICES ASSUME Inv, CreateFile PROVE Inv'
  OBVIOUS
<1>1. WorkflowTypeOK
  BY InvParts
<1>2. Acting("file.create") /\ mem.pending.tool = "file.create"
  BY DEF CreateFile, Acting
<1>3. CASE Acted([world EXCEPT !.file = [version |-> world.born + 1, large |-> FALSE], !.born = @ + 1])
  <2>1. PICK w : w = [world EXCEPT !.file = [version |-> world.born + 1, large |-> FALSE], !.born = @ + 1]
    OBVIOUS
  <2>2. /\ world.born \in Nat /\ Len(world.objects) \in Nat
        /\ \A i \in DOMAIN world.objects : world.objects[i] \in Nat
    BY <1>1, WorldFacts
  <2>3. /\ w \in World /\ w.objects = world.objects /\ w.born = world.born + 1
        /\ w.file = [version |-> world.born + 1, large |-> FALSE]
    <3>1. PICK b \in Nat : b = world.born + 1
      BY <2>2
    <3>2. PICK f : f = [version |-> b, large |-> FALSE]
      OBVIOUS
    <3>3. f \in [version : Nat, large : BOOLEAN]
      BY <3>1, <3>2
    <3>4. w = [world EXCEPT !.file = f, !.born = b] /\ world \in World
      BY <1>1, <2>1, <3>1, <3>2, WorldFacts DEF World
    <3> QED BY <3>1, <3>2, <3>3, <3>4 DEF World
  <2>4. \A i \in DOMAIN w.objects : w.objects[i] <= w.born
    BY <1>1, <2>2, <2>3, WorldFacts
  <2>5. ~(stopped >= 0)
    BY <1>2, NoneStopped
  <2>6. Acted(w)
    BY <1>3, <2>1
  <2>7. w.file.version <= w.born /\ world.born <= w.born /\ Len(world.objects) <= Len(w.objects)
    BY <2>2, <2>3
  <2> QED BY <1>2, <2>3, <2>4, <2>5, <2>6, <2>7, HandlerActed
<1>4. CASE ActFails(world)
  BY <1>1, <1>2, <1>4, WorldFacts, HandlerFailed
<1> QED BY <1>3, <1>4 DEF CreateFile

(* The effect outlasts the save of VERIFYING. *)
LEMMA ReportInv == Inv /\ Report => Inv'
<1> SUFFICES ASSUME Inv, Report PROVE Inv'
  OBVIOUS
<1>1. /\ pc = "acted" /\ due' = FALSE /\ out' \in Seq(Sample) /\ UNCHANGED <<host, history>>
      /\ Fit(mem) /\ mem \in Task /\ Stage /\ Evidence /\ Effect
      /\ SaveOrLeave([mem EXCEPT !.state = "VERIFYING"], "persisting")
  BY Unhurried, InvParts DEF Report
<1>2. Quiet /\ Remembered
  BY <1>1, SameSession DEF Quiet, host, history
<1>3. PICK m : m = [mem EXCEPT !.state = "VERIFYING"]
  OBVIOUS
<1>4. m \in Task /\ m.state = "VERIFYING" /\ m.kind = mem.kind /\ m.pending = mem.pending /\ m.baseline = mem.baseline
  <2>1. mem \in Task /\ "VERIFYING" \in States
    BY <1>1 DEF States
  <2> QED BY <1>3, <2>1, SetState
<1>5. Sound(m)
  BY <1>1, <1>4, Recast
<1>6. ASSUME task' = m, mem' = m, pc' = "persisting" PROVE Placed'
  <2>1. Stage'
    BY <1>1, <1>4, <1>6 DEF Stage
  <2>2. Evidence' /\ Validated'
    BY <1>1, <1>2, <1>4, <1>6 DEF Evidence, Validated, Quiet
  <2>3. Effect'
    BY <1>1, <1>2, <1>4, <1>6 DEF Effect, Quiet, Holding, PortOccupied, Running
  <2> QED BY <2>1, <2>2, <2>3 DEF Placed
<1> QED BY <1>1, <1>2, <1>3, <1>5, <1>6, SaveOrLeaveStep

(* Where the workflow goes from here, by the action that has been carried out. *)
LEMMA ContinuationOf ==
    ASSUME NEW m, Fit(m), m.pending.tool # "none"
    PROVE  /\ Continuation(m) \in {"next", "verify", "finish"}
           /\ Continuation(m) = "next" =>
                 m.kind \in {"port", "disk"} /\ m.pending.tool = "process.terminate"
           /\ Continuation(m) = "verify" =>
                 m.kind \in Recoveries /\ m.pending.tool = LastTool[m.kind]
           /\ Continuation(m) = "finish" =>
                 m.kind \in FileActions /\ m.pending.tool = FileTool[m.kind]
<1>1. m.kind \in {"port", "cpu", "disk", "create", "quarantine", "restore", "metric"}
  BY DEF Fit, Task, Kinds, Recoveries, FileActions
<1>2. m.pending.tool \in Tools(m.kind)
  BY DEF Fit, Bound
<1>3. CASE m.kind \in {"port", "cpu", "disk"}
  <2>1. /\ m.kind = "port" => m.pending.tool \in {"process.terminate", "service.restart"}
        /\ m.kind = "cpu" => m.pending.tool = "process.terminate"
        /\ m.kind = "disk" => m.pending.tool \in {"process.terminate", "file.quarantine"}
    BY <1>2 DEF Tools
  <2>2. Continuation(m) = IF m.kind \in {"port", "disk"} /\ m.pending.tool = "process.terminate"
                          THEN "next" ELSE "verify"
    BY <1>3 DEF Continuation, Recoveries
  <2> QED BY <1>3, <2>1, <2>2 DEF Recoveries, LastTool
<1>4. CASE m.kind \in {"create", "quarantine", "restore"}
  BY <1>2, <1>4 DEF Tools, Recoveries, FileActions, Continuation, FileTool
<1>5. CASE m.kind = "metric"
  BY <1>2, <1>5 DEF Tools
<1> QED BY <1>1, <1>3, <1>4, <1>5

(* The pin names the object of the last quarantine, or nothing after a restore. *)
LEMMA PersistActionContextInv == Inv /\ PersistActionContext => Inv'
<1> SUFFICES ASSUME Inv, PersistActionContext PROVE Inv'
  OBVIOUS
<1>1. /\ pc = "persisting" /\ mem' = [mem EXCEPT !.pending = NoAction]
      /\ UNCHANGED <<world, raced, task, out, due, history>>
      /\ \/ session' = Pin(session, mem.pending) /\ pc' = Continuation(mem)
         \/ pc' = "failing" /\ session' = session
  BY DEF PersistActionContext, Fault
<1>2. /\ WorkflowTypeOK /\ Sound(task) /\ Fit(mem) /\ Writer /\ Stage /\ Evidence /\ Effect
      /\ VictimIsCulprit /\ out \in Seq(Sample) /\ mem \in Task
  BY InvParts DEF Fit
<1>3. UNCHANGED <<victims, acted, peak, recovered, stopped>>
  BY <1>1 DEF history
<1>4. PICK m : m = mem'
  OBVIOUS
<1>5. m \in Task /\ m.kind = mem.kind /\ m.pending = NoAction /\ m.state = mem.state /\ m.baseline = mem.baseline
  BY <1>1, <1>2, <1>4, NoActionType, SetPending
<1>6. task.state \notin {"COMPLETED", "WAITING_APPROVAL"} /\ mem = task /\ due = FALSE
  BY <1>1, <1>2, Unhurried DEF Stage
<1>7. /\ acted = mem.pending /\ acted.tool # "none"
      /\ acted.tool = "process.terminate" => stopped >= 0
      /\ acted.tool = "file.quarantine" =>
            /\ Len(world.objects) \in DOMAIN world.objects
            /\ world.objects[Len(world.objects)] = acted.bound.version
      /\ acted.tool = "file.restore_quarantine" =>
            /\ acted.bound.id \in DOMAIN world.objects
            /\ world.objects[acted.bound.id] = 0
      /\ Holding(world, peak) \subseteq recovered
  BY <1>1, <1>2 DEF Effect
<1>8. PICK to : to = Continuation(mem)
  OBVIOUS
<1>9. /\ to \in {"next", "verify", "finish"}
      /\ to = "next" => mem.kind \in {"port", "disk"} /\ mem.pending.tool = "process.terminate"
      /\ to = "verify" => mem.kind \in Recoveries /\ mem.pending.tool = LastTool[mem.kind]
      /\ to = "finish" => mem.kind \in FileActions /\ mem.pending.tool = FileTool[mem.kind]
  BY <1>2, <1>7, <1>8, ContinuationOf
<1>10. session' \in [selected : BOOLEAN, pin : 0..Len(world.objects)]
  <2>1. /\ session \in [selected : BOOLEAN, pin : 0..Len(world.objects)]
        /\ 0 \in 0..Len(world.objects) /\ Len(world.objects) \in 0..Len(world.objects)
    <3>1. Len(world.objects) \in Nat /\ session \in [selected : BOOLEAN, pin : 0..Len(world.objects)]
      BY <1>2, WorldFacts DEF WorkflowTypeOK
    <3> QED BY <3>1
  <2> QED BY <1>1, <2>1 DEF Pin
<1>11. WorkflowTypeOK'
  BY <1>1, <1>2, <1>3, <1>4, <1>5, <1>8, <1>9, <1>10 DEF WorkflowTypeOK
<1>12. Fit(mem)'
  <2>1. (mem \in Task /\ mem.kind = task.kind)'
    BY <1>1, <1>2, <1>4, <1>5 DEF Fit
  <2>2. mem'.state # "WAITING_APPROVAL"
    BY <1>4, <1>5, <1>6
  <2>3. Bound(mem)'
    BY <1>4, <1>5, <2>2, NoActionType DEF Bound
  <2>4. SecondBound(mem)'
    BY <1>4, <1>5, NoActionType DEF SecondBound
  <2> QED BY <2>1, <2>3, <2>4 DEF Fit
<1>13. Sound(task)' /\ Writer' /\ VictimIsCulprit'
  BY <1>1, <1>2, <1>3, <1>6 DEF Sound, Fit, Bound, SecondBound, Outcome, Measured, Writer, VictimIsCulprit
<1>14. Stage'
  BY <1>1, <1>2, <1>4, <1>5, <1>6, <1>8, <1>9 DEF Stage
<1>15. Evidence' /\ Validated'
  BY <1>1, <1>2, <1>3, <1>4, <1>5, <1>8, <1>9 DEF Evidence, Validated
<1>16. Effect'
  <2>1. Holding(world, peak)' \subseteq recovered'
    BY <1>1, <1>3, <1>7 DEF Holding, PortOccupied, Running
  <2>2. pc' = to => /\ mem.pending.tool = "file.quarantine" => session'.pin = Len(world.objects)
                    /\ mem.pending.tool = "file.restore_quarantine" => session'.pin = 0
    <3>1. session \in [selected : BOOLEAN, pin : 0..Len(world.objects)]
      BY <1>2 DEF WorkflowTypeOK
    <3> QED BY <1>1, <1>8, <1>9, <3>1 DEF Pin
  <2>3. pc' = "verify" /\ mem.kind = "disk" => mem.pending.tool = "file.quarantine"
    BY <1>1, <1>8, <1>9 DEF LastTool
  <2>4. pc' = "finish" /\ mem.kind = "quarantine" => mem.pending.tool = "file.quarantine"
    BY <1>1, <1>8, <1>9 DEF FileTool
  <2>5. pc' = "finish" /\ mem.kind = "restore" => mem.pending.tool = "file.restore_quarantine"
    BY <1>1, <1>8, <1>9 DEF FileTool
  <2>6. /\ pc' = "verify" => mem.kind \in {"port", "cpu", "disk"}
        /\ pc' = "finish" => mem.kind \in {"create", "quarantine", "restore"}
    BY <1>1, <1>8, <1>9 DEF Recoveries, FileActions
  <2> QED BY <1>1, <1>3, <1>4, <1>5, <1>7, <1>8, <1>9, <2>1, <2>2, <2>3, <2>4, <2>5, <2>6 DEF Effect
<1> QED BY <1>1, <1>2, <1>11, <1>12, <1>13, <1>14, <1>15, <1>16, InvFromParts

(* A file action completes with its effect in place. *)
LEMMA FinishActionInv == Inv /\ FinishAction => Inv'
<1> SUFFICES ASSUME Inv, FinishAction PROVE Inv'
  OBVIOUS
<1>1. /\ pc = "finish" /\ due' = FALSE /\ out' \in Seq(Sample) /\ UNCHANGED <<host, history>>
      /\ Fit(mem) /\ mem \in Task /\ WorkflowTypeOK /\ Stage /\ Effect
  BY Unhurried, InvParts DEF FinishAction
<1>2. Quiet /\ Remembered
  BY <1>1, SameSession DEF Quiet, host, history
<1>3. CASE SaveOrLeave([mem EXCEPT !.state = "COMPLETED"], "idle")
  <2>1. PICK m : m = [mem EXCEPT !.state = "COMPLETED"]
    OBVIOUS
  <2>2. m \in Task /\ m.state = "COMPLETED" /\ m.kind = mem.kind /\ m.pending = mem.pending
    <3>1. mem \in Task /\ "COMPLETED" \in States
      BY <1>1 DEF States, Terminal
    <3> QED BY <2>1, <3>1, SetState
  <2>3. mem.kind \in {"create", "quarantine", "restore"}
    BY <1>1 DEF Stage, FileActions
  <2>4. Outcome(m)
    <3>1. /\ mem.kind = "quarantine" => acted.tool = "file.quarantine"
          /\ mem.kind = "restore" => acted.tool = "file.restore_quarantine"
      BY <1>1 DEF Effect, FileTool
    <3>2. 0 \notin DOMAIN world.objects
      BY <1>1, WorldFacts
    <3> QED BY <1>1, <2>2, <2>3, <3>1, <3>2 DEF Outcome, Effect, Recoveries
  <2>5. Sound(m)
    BY <1>1, <2>2, <2>4 DEF Sound, Fit, Bound, SecondBound, Measured
  <2> QED BY <1>1, <1>2, <1>3, <2>1, <2>5, SaveOrLeaveStep
<1>4. CASE Fault /\ UNCHANGED <<task, mem>>
  BY <1>1, <1>2, <1>4, ToFailing DEF Fault
<1> QED BY <1>3, <1>4 DEF FinishAction

(* A verification starts with nothing read. *)
LEMMA BeginVerificationInv == Inv /\ BeginVerification => Inv'
<1> SUFFICES ASSUME Inv, BeginVerification PROVE Inv'
  OBVIOUS
<1>1. /\ pc = "verify" /\ due' = FALSE /\ out' = <<>> /\ out' \in Seq(Sample) /\ UNCHANGED <<host, history>>
      /\ Fit(mem) /\ mem \in Task /\ Stage /\ Evidence /\ Effect
      /\ Save([mem EXCEPT !.state = "VERIFYING"], "verifying")
  BY Unhurried, InvParts DEF BeginVerification
<1>2. Quiet /\ Remembered
  BY <1>1, SameSession DEF Quiet, host, history
<1>3. PICK m : m = [mem EXCEPT !.state = "VERIFYING"]
  OBVIOUS
<1>4. m \in Task /\ m.state = "VERIFYING" /\ m.kind = mem.kind /\ m.pending = mem.pending /\ m.baseline = mem.baseline
  <2>1. mem \in Task /\ "VERIFYING" \in States
    BY <1>1 DEF States
  <2> QED BY <1>3, <2>1, SetState
<1>5. Sound(m)
  BY <1>1, <1>4, Recast
<1>6. ASSUME task' = m, mem' = m, pc' = "verifying" PROVE Placed'
  <2>1. Stage'
    BY <1>1, <1>4, <1>6 DEF Stage
  <2>2. mem'.kind \in {"port", "cpu", "disk"} /\ Len(out') = 0
    BY <1>1, <1>4, <1>6 DEF Stage, Recoveries
  <2>3. Len(out') <= Len(Reads')
    BY <1>6, <2>2, NextReadsOf, Lengths
  <2>4. Evidence' /\ Validated'
    BY <1>1, <1>2, <1>4, <1>6, <2>2, <2>3 DEF Evidence, Validated, Quiet
  <2>5. session'.pin = session.pin
    BY <1>2 DEF Remembered
  <2>6. Effect'
    BY <1>1, <1>2, <1>4, <1>6, <2>5 DEF Effect, Quiet, Holding, PortOccupied, Running
  <2> QED BY <2>1, <2>4, <2>6 DEF Placed
<1> QED BY <1>1, <1>2, <1>3, <1>5, <1>6, SaveStep

(* What the gates accept was true of the host after the last action. *)
LEMMA GatesPromise ==
    ASSUME Inv, pc = "verifying", Len(out) = Len(Reads), CriteriaMet(mem.kind)
    PROVE  Promised[mem.kind] \subseteq recovered
<1>1. Evidence /\ mem.kind \in {"port", "cpu", "disk"}
  BY Unhurried DEF Stage, Recoveries
<1>2. CASE mem.kind = "port"
  <2>1. Len(out) = 2 /\ out[1] /\ out[2]
    BY <1>2, ReadsOf, Lengths DEF CriteriaMet, PortRecovered
  <2>2. "active" \in recovered /\ "listening" \in recovered
    BY <1>1, <1>2, <2>1 DEF Evidence
  <2> QED BY <1>2, <2>2 DEF Promised
<1>3. CASE mem.kind = "cpu"
  <2>1. Len(out) = 2 /\ Controlled(out[2]) = {} /\ out[1] < peak
    BY <1>1, <1>3, ReadsOf, Lengths DEF CriteriaMet, CPURecovered, Evidence
  <2>2. "dropped" \in recovered /\ "absent" \in recovered
    BY <1>1, <1>3, <2>1 DEF Evidence
  <2> QED BY <1>3, <2>2 DEF Promised
<1>4. CASE mem.kind = "disk"
  <2>1. Len(out) = 3 /\ Controlled(out[1]) = {} /\ ~out[2]
    BY <1>4, ReadsOf, Lengths DEF CriteriaMet, DiskRecovered
  <2>2. "moved" \in recovered /\ "absent" \in recovered
    BY <1>1, <1>4, <2>1 DEF Evidence
  <2> QED BY <1>4, <2>2 DEF Promised
<1> QED BY <1>1, <1>2, <1>3, <1>4

(* A recovery completes on the promise of its gates. *)
LEMMA ConcludeInv == Inv /\ Conclude => Inv'
<1> SUFFICES ASSUME Inv, Conclude PROVE Inv'
  OBVIOUS
<1>1. /\ pc = "verifying" /\ due' = FALSE /\ out' \in Seq(Sample) /\ UNCHANGED <<world, raced, history>>
      /\ Fit(mem) /\ mem \in Task /\ WorkflowTypeOK /\ Stage /\ Effect /\ Len(out) = Len(Reads)
      /\ FailWith(mem) \/ (CriteriaMet(mem.kind) /\ Save([mem EXCEPT !.state = "COMPLETED"], "idle"))
      /\ session' = session \/ session' = [session EXCEPT !.selected = @ \/ mem.kind = "disk"]
  BY Unhurried, InvParts DEF Conclude
<1>2. Quiet
  BY <1>1 DEF Quiet, history
<1>3. Remembered
  <2>1. session \in [selected : BOOLEAN, pin : 0..Len(world.objects)]
    BY <1>1 DEF WorkflowTypeOK
  <2> QED BY <1>1, <2>1 DEF Remembered
<1>4. CASE FailWith(mem)
  BY <1>1, <1>2, <1>3, <1>4, ToFailing DEF FailWith
<1>5. CASE CriteriaMet(mem.kind) /\ Save([mem EXCEPT !.state = "COMPLETED"], "idle")
  <2>1. PICK m : m = [mem EXCEPT !.state = "COMPLETED"]
    OBVIOUS
  <2>2. m \in Task /\ m.state = "COMPLETED" /\ m.kind = mem.kind /\ m.pending = mem.pending
    <3>1. mem \in Task /\ "COMPLETED" \in States
      BY <1>1 DEF States, Terminal
    <3> QED BY <2>1, <3>1, SetState
  <2>3. mem.kind \in {"port", "cpu", "disk"}
    BY <1>1 DEF Stage, Recoveries
  <2>4. Outcome(m)
    <3>1. Promised[mem.kind] \subseteq recovered /\ acted.tool = LastTool[mem.kind]
      BY <1>1, <1>5, GatesPromise DEF Effect
    <3>2. mem.kind = "disk" => acted.tool = "file.quarantine"
      BY <3>1 DEF LastTool
    <3>3. 0 \notin DOMAIN world.objects
      BY <1>1, WorldFacts
    <3> QED BY <1>1, <2>2, <2>3, <3>1, <3>2, <3>3 DEF Outcome, Effect, Recoveries
  <2>5. Sound(m)
    BY <1>1, <2>2, <2>4 DEF Sound, Fit, Bound, SecondBound, Measured
  <2> QED BY <1>1, <1>2, <1>3, <1>5, <2>1, <2>5, SaveStep
<1> QED BY <1>1, <1>4, <1>5

(* A failed task has promised nothing. *)
LEMMA FailInv == Inv /\ Fail => Inv'
<1> SUFFICES ASSUME Inv, Fail PROVE Inv'
  OBVIOUS
<1>1. PICK m : m = [mem EXCEPT !.state = "FAILED"]
  OBVIOUS
<1>2. /\ pc = "failing" /\ due' = FALSE /\ out' \in Seq(Sample) /\ UNCHANGED <<host, history>>
      /\ task' \in {task, m} /\ mem' = task' /\ pc' = "idle"
      /\ Fit(mem) /\ mem \in Task /\ Sound(task)
  BY <1>1, Unhurried DEF Fail
<1>3. Quiet /\ Remembered
  BY <1>2, SameSession DEF Quiet, host, history
<1>4. m \in Task /\ m.state = "FAILED" /\ m.kind = mem.kind /\ m.pending = mem.pending
  <2>1. mem \in Task /\ "FAILED" \in States
    BY <1>2 DEF States, Terminal
  <2> QED BY <1>1, <2>1, SetState
<1>5. Sound(m)
  BY <1>2, <1>4, Recast
<1>6. PICK n : n = task' /\ Sound(n)
  BY <1>2, <1>5
<1> QED BY <1>2, <1>3, <1>6, ToIdle

(* After a restart only the file counts. *)
LEMMA CrashInv == Inv /\ Crash => Inv'
<1> SUFFICES ASSUME Inv, Crash PROVE Inv'
  OBVIOUS
<1>1. /\ UNCHANGED <<host, history>> /\ pc' = "idle" /\ mem' = task /\ task' = task /\ out' = <<>>
      /\ due' = (task.state \notin Terminal \cup {"WAITING_APPROVAL"}) /\ Sound(task)
  BY Unhurried DEF Crash
<1>2. Quiet /\ Remembered
  BY <1>1, SameSession DEF Quiet, host, history
<1>3. due' \in BOOLEAN /\ (due' => task.state \notin Terminal \cup {"WAITING_APPROVAL"})
  <2>1. CASE task.state \notin Terminal \cup {"WAITING_APPROVAL"}
    BY <1>1, <2>1, Zenon
  <2>2. CASE task.state \in Terminal \cup {"WAITING_APPROVAL"}
    BY <1>1, <2>2, Zenon
  <2> QED BY <2>1, <2>2
<1>4. out' \in Seq(Sample)
  BY <1>1
<1> QED BY <1>1, <1>2, <1>3, <1>4, ToIdle

(* The next request forgets the history of the last. *)
LEMMA NewRequestInv == Inv /\ NewRequest => Inv'
<1> SUFFICES ASSUME Inv, NewRequest PROVE Inv'
  OBVIOUS
<1>1. PICK kind \in Kinds : task' = NewTask(kind) /\ mem' = task'
  BY DEF NewRequest
<1>2. /\ pc = "idle" /\ pc' = "idle" /\ due' = TRUE /\ out' = <<>> /\ UNCHANGED <<world, session, raced, victims>>
      /\ acted' = NoAction /\ peak' = 0 /\ recovered' = {} /\ stopped' = -1
  BY DEF NewRequest, host
<1>3. PICK n : n = NewTask(kind)
  OBVIOUS
<1>4. n \in Task /\ n.kind = kind /\ n.state = "CREATED" /\ n.pending = NoAction
  BY <1>3, NoActionType DEF NewTask, Task, States
<1>5. WorkflowTypeOK /\ VictimIsCulprit
  BY InvParts
<1>6. WorkflowTypeOK'
  <2>1. -1 <= world.born
    BY <1>5, WorldFacts
  <2> QED BY <1>1, <1>2, <1>3, <1>4, <1>5, <2>1, NoActionType DEF WorkflowTypeOK
<1>7. Sound(task)' /\ Fit(mem)'
  BY <1>1, <1>3, <1>4, NoActionType DEF Sound, Fit, Bound, SecondBound, Outcome, Measured
<1>8. Writer' /\ VictimIsCulprit'
  BY <1>2, <1>5 DEF Writer, VictimIsCulprit
<1>9. Measured(task)' /\ task'.state \notin Terminal \cup {"WAITING_APPROVAL"}
  BY <1>1, <1>3, <1>4 DEF Measured, Terminal
<1>10. Placed'
  BY <1>1, <1>2, <1>9, AtRest
<1>11. out' \in Seq(Sample)
  BY <1>2
<1> QED BY <1>6, <1>7, <1>8, <1>10, <1>11, InvFromParts DEF Placed

(* A change of the host leaves the quarantine alone, and a file it makes is younger than all before. *)
LEMMA ChangedFacts ==
    ASSUME WorkflowTypeOK, NEW kind, NEW w \in Changed(world, kind)
    PROVE  /\ w \in World /\ w.objects = world.objects /\ world.born <= w.born
           /\ w.file = world.file \/ w.file = NoFile \/ w.file.version = w.born
<1>1. world \in World /\ world.born \in Nat /\ world.born <= world.born
  BY WorldFacts
<1>2. PICK b \in Nat : b = world.born + 1 /\ world.born <= b
  BY <1>1
<1>3. /\ NoProc \in [start : Nat, exe : {"none", "culprit", "other"}]
      /\ NoFile \in [version : Nat, large : BOOLEAN]
  BY DEF NoProc, NoFile
<1>4. CASE w \in ChangedProcs(world)
  <2>1. (\E p \in Pids, e \in {"culprit", "other"} : w = Started(world, p, e))
        \/ (\E p \in Pids : w = Ended(world, p))
    BY <1>4 DEF ChangedProcs
  <2>2. ASSUME NEW p \in Pids, NEW e \in {"culprit", "other"}, w = Started(world, p, e)
        PROVE  w \in World /\ w.objects = world.objects /\ w.born = b /\ w.file = world.file
    <3>1. PICK r : r = [start |-> b, exe |-> e]
      OBVIOUS
    <3>2. r \in [start : Nat, exe : {"none", "culprit", "other"}]
      BY <3>1
    <3>3. w = [world EXCEPT !.procs[p] = r, !.born = b]
      BY <1>1, <1>2, <2>2, <3>1 DEF Started, World
    <3> QED BY <1>1, <3>2, <3>3 DEF World
  <2>3. ASSUME NEW p \in Pids, w = Ended(world, p)
        PROVE  w \in World /\ w.objects = world.objects /\ w.born = world.born /\ w.file = world.file
    <3>1. [world.procs EXCEPT ![p] = NoProc] \in [Pids -> [start : Nat, exe : {"none", "culprit", "other"}]]
      BY <1>1, <1>3 DEF World
    <3> QED BY <1>1, <2>3, <3>1 DEF World, Ended
  <2> QED BY <1>1, <1>2, <2>1, <2>2, <2>3
<1>5. CASE w = [world EXCEPT !.service = 0]
  BY <1>1, <1>5 DEF World
<1>6. CASE w = [world EXCEPT !.service = b, !.born = b]
  BY <1>1, <1>2, <1>6 DEF World
<1>7. CASE \E u \in 0..2 : w = [world EXCEPT !.usage = u]
  <2>1. PICK u \in 0..2 : w = [world EXCEPT !.usage = u]
    BY <1>7, Zenon
  <2>2. u \in Nat
    OBVIOUS
  <2> QED BY <1>1, <2>1, <2>2 DEF World
<1>8. CASE w = [world EXCEPT !.file = NoFile]
  BY <1>1, <1>3, <1>8 DEF World
<1>9. CASE \E large \in BOOLEAN : w = [world EXCEPT !.file = [version |-> b, large |-> large], !.born = b]
  <2>1. PICK large \in BOOLEAN : w = [world EXCEPT !.file = [version |-> b, large |-> large], !.born = b]
    BY <1>9
  <2>2. PICK f : f = [version |-> b, large |-> large]
    OBVIOUS
  <2>3. f \in [version : Nat, large : BOOLEAN] /\ f.version = b
    BY <2>2
  <2>4. w = [world EXCEPT !.file = f, !.born = b]
    BY <2>1, <2>2
  <2> QED BY <1>1, <1>2, <2>3, <2>4 DEF World
<1>10. \/ w \in ChangedProcs(world) \/ w = [world EXCEPT !.service = 0]
       \/ w = [world EXCEPT !.service = b, !.born = b] \/ \E u \in 0..2 : w = [world EXCEPT !.usage = u]
       \/ w = [world EXCEPT !.file = NoFile]
       \/ \E large \in BOOLEAN : w = [world EXCEPT !.file = [version |-> b, large |-> large], !.born = b]
  <2>1. PICK next : next = world.born + 1 /\ next = b
    BY <1>2
  <2>2. CASE kind = "port"
    BY <1>1, <1>2, <2>2 DEF Changed, World
  <2>3. CASE kind = "cpu"
    BY <2>3 DEF Changed
  <2>4. CASE kind = "metric"
    BY <2>4 DEF Changed
  <2>5. CASE kind \notin {"port", "cpu", "metric"}
    BY <1>1, <1>2, <2>5 DEF Changed, World
  <2> QED BY <2>2, <2>3, <2>4, <2>5
<1> QED BY <1>4, <1>5, <1>6, <1>7, <1>8, <1>9, <1>10

(* A change of the host spoils no evidence that was true when it was read. *)
LEMMA ChangeInv == Inv /\ Change => Inv'
<1> SUFFICES ASSUME Inv, Change PROVE Inv'
  OBVIOUS
<1>1. /\ UNCHANGED <<session, task, mem, pc, out, due, victims, acted, peak, stopped>>
      /\ world' \in Changed(world, task.kind)
      /\ raced' = (raced \/ (pc = "acting" /\ world'.procs # world.procs))
      /\ recovered' = recovered \cup Holding(world', peak)
  BY DEF Change
<1>2. /\ WorkflowTypeOK /\ Sound(task) /\ Fit(mem) /\ Writer /\ Stage /\ Evidence /\ Effect
      /\ VictimIsCulprit /\ Validated /\ out \in Seq(Sample)
  BY InvParts
<1>3. PICK w : w = world'
  OBVIOUS
<1>4. /\ w \in World /\ w.objects = world.objects /\ world.born <= w.born
      /\ w.file = world.file \/ w.file = NoFile \/ w.file.version = w.born
  BY <1>1, <1>2, <1>3, ChangedFacts
<1>5. /\ world.born \in Nat /\ w.born \in Nat /\ w.file.version \in Nat /\ world.file.version \in Nat
      /\ stopped \in Int /\ stopped <= world.born /\ world.file.version <= world.born
  BY <1>2, <1>4, WorldFacts DEF World
<1>6. WorkflowTypeOK'
  <2>1. w.file.version <= w.born /\ stopped <= w.born
    BY <1>4, <1>5 DEF NoFile
  <2>2. \A i \in DOMAIN w.objects : w.objects[i] <= w.born
    <3>1. \A i \in DOMAIN world.objects : world.objects[i] \in Nat /\ world.objects[i] <= world.born
      BY <1>2, WorldFacts
    <3> QED BY <1>4, <1>5, <3>1
  <2> QED BY <1>1, <1>2, <1>3, <1>4, <2>1, <2>2 DEF WorkflowTypeOK
<1>7. Writer'
  BY <1>1, <1>2, <1>3, <1>4, <1>5 DEF Writer
<1>8. Fit(mem)'
  BY <1>1, <1>2, <1>3, <1>4 DEF Fit, Bound, SecondBound
<1>9. Sound(task)'
  BY <1>1, <1>2, <1>3, <1>4 DEF Sound, Fit, Bound, SecondBound, Outcome, Measured
<1>10. Stage' /\ VictimIsCulprit'
  BY <1>1, <1>2 DEF Stage, VictimIsCulprit
<1>11. recovered \subseteq recovered'
  BY <1>1
<1>12. Evidence'
  <2>1. Reads' = Reads
    BY <1>1 DEF Reads
  <2> QED BY <1>1, <1>2, <1>11, <2>1 DEF Evidence, Owners
<1>13. Effect'
  <2>1. Holding(world, peak)' \subseteq recovered'
    BY <1>1 DEF Holding, PortOccupied, Running
  <2> QED BY <1>1, <1>2, <1>3, <1>4, <2>1 DEF Effect
<1>14. Validated'
  <2>1. pc = "acting" /\ ~raced' => world'.procs = world.procs /\ ~raced
    BY <1>1
  <2> QED BY <1>1, <1>2, <2>1 DEF Validated, SnapshotProcess
<1> QED BY <1>1, <1>2, <1>6, <1>7, <1>8, <1>9, <1>10, <1>12, <1>13, <1>14, InvFromParts

(* The first request. *)
LEMMA InvInit == Init => Inv
<1> SUFFICES ASSUME Init PROVE Inv
  OBVIOUS
<1>1. PICK pid \in Pids, kind \in Kinds, selected \in BOOLEAN :
          /\ world = [procs   |-> [p \in Pids |-> IF p = pid THEN [start |-> 1, exe |-> "culprit"]
                                                             ELSE NoProc],
                      service |-> 0, usage |-> 2, file |-> [version |-> 1, large |-> TRUE],
                      objects |-> <<>>, born |-> 1]
          /\ session = [selected |-> selected, pin |-> 0]
          /\ task = NewTask(kind) /\ mem = task
  BY DEF Init
<1>2. /\ pc = "idle" /\ out = <<>> /\ due = TRUE /\ victims = {} /\ acted = NoAction /\ peak = 0
      /\ recovered = {} /\ stopped = -1 /\ raced = FALSE
  BY DEF Init
<1>3. /\ task \in Task /\ task.kind = kind /\ task.state = "CREATED" /\ task.pending = NoAction
  BY <1>1, NoActionType DEF NewTask, Task, States
<1>4. world \in World /\ world.objects = <<>> /\ world.born = 1 /\ world.file.version = 1
  <2>1. world.procs \in [Pids -> [start : Nat, exe : {"none", "culprit", "other"}]]
    BY <1>1 DEF NoProc
  <2> QED BY <1>1, <2>1 DEF World
<1>5. WorkflowTypeOK
  <2>1. Len(world.objects) = 0 /\ DOMAIN world.objects = {}
    BY <1>4
  <2>2. session \in [selected : BOOLEAN, pin : 0..Len(world.objects)]
    BY <1>1, <2>1
  <2>3. due \in BOOLEAN /\ raced \in BOOLEAN
    BY <1>2, Zenon
  <2>4. stopped \in Nat \cup {-1} /\ stopped <= world.born /\ world.file.version <= world.born
    BY <1>2, <1>4
  <2>5. peak \in Nat /\ acted \in Action /\ mem \in Task
    BY <1>1, <1>2, <1>3, NoActionType
  <2> QED BY <1>2, <1>3, <1>4, <2>1, <2>2, <2>3, <2>4, <2>5 DEF WorkflowTypeOK
<1>6. Sound(task) /\ Fit(mem) /\ Writer
  BY <1>1, <1>2, <1>3, NoActionType DEF Sound, Fit, Bound, SecondBound, Outcome, Measured, Writer
<1>7. Stage
  BY <1>1, <1>2, <1>3 DEF Stage, Terminal
<1>8. Evidence /\ Effect /\ Validated /\ VictimIsCulprit /\ out \in Seq(Sample)
  BY <1>1, <1>2, <1>3 DEF Evidence, Effect, Validated, VictimIsCulprit
<1> QED BY <1>5, <1>6, <1>7, <1>8, InvParts

(* Every step keeps the invariant. *)
LEMMA InvStep == Inv /\ [Next]_vars => Inv'
<1> SUFFICES ASSUME Inv, [Next]_vars PROVE Inv'
  OBVIOUS
<1>1. CASE UNCHANGED vars
  <2>1. WorkflowTypeOK' /\ Writer' /\ VictimIsCulprit' /\ (out \in Seq(Sample))'
    BY <1>1, InvParts DEF vars, WorkflowTypeOK, Writer, VictimIsCulprit
  <2>2. Sound(task)' /\ Fit(mem)'
    BY <1>1, InvParts DEF vars, Sound, Fit, Bound, SecondBound, Outcome, Measured
  <2>3. Stage' /\ Validated'
    BY <1>1, InvParts DEF vars, Stage, Validated, SnapshotProcess
  <2>4. Evidence'
    <3>1. Reads' = Reads
      BY <1>1 DEF vars, Reads
    <3> QED BY <1>1, <3>1, InvParts DEF vars, Evidence, Owners
  <2>5. Effect'
    BY <1>1, InvParts DEF vars, Effect, Holding, PortOccupied, Running
  <2> QED BY <2>1, <2>2, <2>3, <2>4, <2>5, InvFromParts
<1>2. CASE Next
  BY <1>2, NewRequestInv, RunInv, ReadStepInv, MetricStepInv, FinishMetricsInv, PrepareTerminationInv,
     PlanNextInv, PrepareNextInv, PrepareFileActionInv, RejectInv, ApproveInv, ValidateInv, TerminateInv,
     RestartServiceInv, QuarantineFileInv, RestoreFileInv, CreateFileInv, ReportInv, PersistActionContextInv,
     FinishActionInv, BeginVerificationInv, ConcludeInv, FailInv, CrashInv, ChangeInv
  DEF Next
<1> QED BY <1>1, <1>2

(* The invariant holds always. *)
LEMMA InvAlways == Spec => []Inv
BY InvInit, InvStep, PTL DEF Spec

(***************************************************************************)
(* WorkflowInv holds whatever faults, crashes and changes of the host      *)
(* befall the workflows: a task that waits holds the action it waits for,  *)
(* a second action is bound after the first took effect, and each step     *)
(* finds what it relies on.                                                *)
(***************************************************************************)
THEOREM WorkflowInvHolds == Spec => []WorkflowInv
<1>1. Inv => WorkflowInv
  BY DEF Inv
<1> QED BY <1>1, InvAlways, PTL

(* ProcessTerminateHandler signals the approved start of the controlled executable, *)
(* unless the pid changed hands after the executor's check.                         *)
THEOREM VictimIsCulpritAlways == Spec => []VictimIsCulprit
<1>1. Inv => VictimIsCulprit
  BY DEF Inv
<1> QED BY <1>1, InvAlways, PTL

(* A recovery's completion gate passes only on what held after its last action. *)
THEOREM CompletedMeansRecoveredAlways == Spec => []CompletedMeansRecovered
<1>1. Inv => CompletedMeansRecovered
  BY DEF Inv
<1> QED BY <1>1, InvAlways, PTL

(* A completed quarantine has pinned the object with the approved version, a *)
(* completed restore has emptied it and left nothing pinned.                 *)
THEOREM FileOutcomeAlways == Spec => []FileOutcome
<1>1. Inv => FileOutcome
  BY DEF Inv
<1> QED BY <1>1, InvAlways, PTL

-----------------------------------------------------------------------------
(* The metric query. *)

(* Only the completion criterion of the metric query completes one. *)
LEMMA AnsweredByFinish ==
    ASSUME Inv, Next, task.kind = "metric", task.state # "COMPLETED", task'.state = "COMPLETED"
    PROVE  FinishMetrics
<1>1. /\ Stage /\ mem \in Task /\ task \in Task /\ mem.kind = "metric"
      /\ (pc \notin {"next", "preparing", "verify", "verifying", "finish", "failing"} => mem = task)
  BY Unhurried DEF Stage
<1>2. \A m \in Task, st \in States : [m EXCEPT !.state = st].state = st
  BY DEF Task
<1>3. /\ "PLANNING" \in States /\ "INVESTIGATING" \in States /\ "WAITING_APPROVAL" \in States
      /\ "EXECUTING" \in States /\ "VERIFYING" \in States /\ "FAILED" \in States /\ "CANCELLED" \in States
  BY DEF States, Terminal
<1>4. task' # task
  OBVIOUS
<1>5. ~NewRequest
  BY DEF NewRequest, NewTask
<1>6. ~Run
  <2>1. /\ task.kind \notin Recoveries /\ task.kind \notin FileActions
    BY DEF Recoveries, FileActions
  <2>2. [task EXCEPT !.state = "INVESTIGATING", !.plan = @ \o Metrics].state = "INVESTIGATING"
    BY <1>1 DEF Task
  <2> QED BY <1>4, <2>1, <2>2 DEF Run, Save, FailWith
<1>7. ~MetricStep
  <2>1. \A tool : [mem EXCEPT !.done = Append(@, tool)].state = mem.state
    BY <1>1 DEF Task
  <2> QED BY <1>1, <1>4, <2>1 DEF MetricStep, Save
<1>8. pc \notin {"reading", "resolving", "next", "preparing", "verify", "verifying", "finish"}
  BY <1>1 DEF Stage, Recoveries, FileActions
<1>9. ~(PrepareTermination \/ PlanNext \/ PrepareNext \/ PrepareFileAction \/ FinishAction
        \/ BeginVerification \/ Conclude \/ ReadStep)
  BY <1>8, <1>4 DEF PrepareTermination, PlanNext, PrepareNext, PrepareFileAction, FinishAction,
                    BeginVerification, Conclude, ReadStep
<1>10. ~Reject
  <2>1. [task EXCEPT !.state = "CANCELLED", !.pending = NoAction].state = "CANCELLED"
    BY <1>1 DEF Task
  <2> QED BY <1>4, <2>1 DEF Reject, SaveOrLeave
<1>11. ~Approve /\ ~Report /\ ~Fail
  BY <1>1, <1>2, <1>3, <1>4 DEF Approve, Report, Fail, SaveOrLeave
<1>12. ~(Validate \/ Terminate \/ RestartService \/ QuarantineFile \/ RestoreFile \/ CreateFile
         \/ PersistActionContext \/ Crash \/ Change)
  BY <1>4 DEF Validate, Terminate, RestartService, QuarantineFile, RestoreFile, CreateFile,
              PersistActionContext, Crash, Change, Acted, ActFails, FailWith
<1> QED BY <1>5, <1>6, <1>7, <1>9, <1>10, <1>11, <1>12 DEF Next

(* The plan of this run ends with the metrics, and all of it has been read. *)
LEMMA FinishedFresh ==
    ASSUME Inv, FinishMetrics
    PROVE  \A i \in DOMAIN Metrics : \E j \in DOMAIN out : out[j] = Metrics[i]
<1> SUFFICES ASSUME NEW i \in DOMAIN Metrics PROVE \E j \in DOMAIN out : out[j] = Metrics[i]
  OBVIOUS
<1>1. Evidence /\ mem \in Task /\ pc = "metrics" /\ Len(out) = Len(mem.plan) /\ out \in Seq(Sample)
  BY Unhurried DEF FinishMetrics
<1>2. /\ \A k \in DOMAIN out : out[k] = mem.plan[k]
      /\ Len(mem.plan) >= 2 /\ mem.plan[Len(mem.plan) - 2 + i] = Metrics[i]
  BY <1>1, MetricsType DEF Evidence
<1>3. Len(out) \in Nat /\ DOMAIN out = 1..Len(out) /\ i \in 1..2
  BY <1>1, MetricsType
<1>4. Len(out) - 2 + i \in DOMAIN out
  BY <1>1, <1>2, <1>3
<1> QED BY <1>1, <1>2, <1>4

(* The run that answers a metric query has itself read every metric asked for: *)
(* steps that an earlier run completed before a restart do not count.          *)
THEOREM AnswerFreshAlways == Spec => AnswerFresh
<1>1. Inv /\ [Next]_vars =>
          [task.kind = "metric" /\ task'.state = "COMPLETED" /\ task.state # "COMPLETED" =>
              \A i \in DOMAIN Metrics : \E j \in DOMAIN out : out[j] = Metrics[i]]_vars
  BY AnsweredByFinish, FinishedFresh
<1> QED BY <1>1, InvAlways, PTL DEF Spec, AnswerFresh
=============================================================================
