------------------------------ MODULE Workflows ------------------------------
(***************************************************************************)
(* internal/agent: the fixed workflows (port, cpu and disk recovery, the   *)
(* metric query, the file actions), on a host that changes while they look *)
(* at it.  A workflow reads, judges what it read, snapshots its target and *)
(* asks for an approval; the approved action is checked against the host   *)
(* again, carried out and followed by the next action or by verification.  *)
(*                                                                         *)
(* Leases and the answering of approvals are TaskFlow's matter: here one   *)
(* goroutine at a time works on the task.  The controlled executable of a  *)
(* workflow is "culprit", whichever of the three it is.                    *)
(***************************************************************************)
EXTENDS SafetyPipeline, Sequences, FiniteSets

CONSTANTS
    Pids,                   \* process ids, which the host uses again
    MaxChanges,             \* changes of the host that are not the agent's
    MaxTasks,               \* requests in the session, one after the other
    MaxCrashes, MaxFaults

ASSUME WorkflowsAssumption ==
    /\ IsFiniteSet(Pids) /\ Pids # {}
    /\ {MaxChanges, MaxTasks, MaxCrashes, MaxFaults} \subseteq Nat

VARIABLES
    world,      \* the host: processes, service, CPU usage, the file at its path, quarantine
    session,    \* what the session remembers: the file is selected, its quarantine is pinned
    task,       \* the task file
    mem,        \* the copy that is worked on
    pc,         \* what is being done; idle when nothing is
    out,        \* what the reads of this run or this verification returned
    due,        \* Run is still to be called: for the first time, or by the recovery
    victims,    \* history: processes that were sent SIGTERM
    acted,      \* history: the last action carried out
    peak,       \* history: the CPU usage of the investigation
    recovered,  \* history: what has held at some instant since that action
    stopped,    \* history: the file's version when the task's process was terminated, or -1
    raced,      \* the processes changed between the executor's check and its signal
    changes, tasks, crashes, faults

vars == <<world, session, task, mem, pc, out, due, victims, acted, peak, recovered,
          stopped, raced, changes, tasks, crashes, faults>>
history == <<victims, acted, peak, recovered, stopped>>
bounds == <<changes, tasks, crashes>>

Recoveries == {"port", "cpu", "disk"}
FileActions == {"create", "quarantine", "restore"}   \* a delete is a quarantine by another name
Kinds == Recoveries \cup FileActions \cup {"metric"}

NoProc == [start |-> 0, exe |-> "none"]
NoFile == [version |-> 0, large |-> FALSE]
NoSnapshot == [type |-> "none"]
NoAction == [tool |-> "none", bound |-> NoSnapshot]

Terminal == {"COMPLETED", "FAILED", "CANCELLED"}
NewTask(kind) ==
    [kind |-> kind, state |-> "CREATED", pending |-> NoAction, baseline |-> 0,
     plan |-> <<>>, done |-> <<>>]

Init ==
    /\ \E pid \in Pids, kind \in Kinds, selected \in BOOLEAN :
          /\ world = [procs   |-> [p \in Pids |-> IF p = pid THEN [start |-> 1, exe |-> "culprit"]
                                                             ELSE NoProc],
                      service |-> 0, usage |-> 2, file |-> [version |-> 1, large |-> TRUE],
                      objects |-> <<>>, born |-> 1]
          /\ session = [selected |-> selected, pin |-> 0]
          /\ task = NewTask(kind) /\ mem = task
    /\ pc = "idle" /\ out = <<>> /\ due = TRUE
    /\ victims = {} /\ acted = NoAction /\ peak = 0 /\ recovered = {} /\ stopped = -1
    /\ raced = FALSE /\ changes = 0 /\ tasks = 1 /\ crashes = 0 /\ faults = 0

-----------------------------------------------------------------------------
(* The host, as tools and snapshots show it. *)

Running(w, exe) == {p \in Pids : w.procs[p].exe = exe}
PortOccupied(w) == w.service # 0 \/ Running(w, "culprit") # {}

SnapshotProcess(w, pid) ==
    IF w.procs[pid] = NoProc THEN NoSnapshot
    ELSE [type |-> "process", pid |-> pid, start |-> w.procs[pid].start, exe |-> w.procs[pid].exe]
SnapshotService(w) == [type |-> "service", mainPid |-> w.service]
SnapshotFile(w) ==
    IF w.file = NoFile THEN NoSnapshot ELSE [type |-> "file", version |-> w.file.version]
SnapshotNewFile(w) ==
    IF w.file = NoFile THEN [type |-> "new file"] ELSE NoSnapshot
SnapshotObject(w, id) ==
    IF id \notin DOMAIN w.objects \/ w.objects[id] = 0 THEN NoSnapshot
    ELSE [type |-> "object", id |-> id]

(* Mutant: a process is recognised by its pid. *)
RevalidatePid(w, s) ==
    CASE s.type = "process"  -> w.procs[s.pid] # NoProc
      [] s.type = "service"  -> SnapshotService(w) = s
      [] s.type = "file"     -> SnapshotFile(w) = s
      [] s.type = "new file" -> SnapshotNewFile(w) = s
      [] s.type = "object"   -> SnapshotObject(w, s.id) = s

(* Revalidate: the same snapshot can be taken again. *)
Revalidate(w, s) ==
    CASE s.type = "process"  -> SnapshotProcess(w, s.pid) = s
      [] s.type = "service"  -> SnapshotService(w) = s
      [] s.type = "file"     -> SnapshotFile(w) = s
      [] s.type = "new file" -> SnapshotNewFile(w) = s
      [] s.type = "object"   -> SnapshotObject(w, s.id) = s

(* DiagnosePortConflict finds D1: the port is taken, the log says so and there is an owner. *)
DiagnosesD1(w, logged) == PortOccupied(w) /\ logged /\ Running(w, "culprit") # {}

(* What a tool returns; reads whose result decides nothing return "evidence". *)
Samples(w, tool) ==
    CASE tool = "service.get_status"       -> {w.service # 0}
      [] tool = "network.check_port"       -> {PortOccupied(w)}
      [] tool = "diagnostic.port_conflict" -> {DiagnosesD1(w, logged) : logged \in BOOLEAN}
      [] tool = "system.get_cpu_metrics"   -> {w.usage}
      [] tool = "file.find_large"          -> {w.file.large}
      [] tool \in {"process.find_by_port", "process.search"} ->
            {{SnapshotProcess(w, p) : p \in Running(w, "culprit") \cup Running(w, "other")}}
      [] OTHER                             -> {"evidence"}

-----------------------------------------------------------------------------
(* The plans. *)

PortReads ==
    <<"service.get_status", "journal.query_unit", "network.check_port", "process.find_by_port",
      "diagnostic.port_conflict">>
CPUReads ==
    <<"system.get_cpu_metrics", "process.search", "journal.query_unit", "diagnostic.high_cpu">>
DiskReads ==
    <<"diagnostic.disk_pressure", "file.find_large", "process.search">>

PortChecks == <<"service.get_status", "network.check_port">>
CPUChecks == <<"system.get_cpu_metrics", "process.search">>
DiskChecks == <<"process.search", "file.find_large", "system.get_disk_usage">>

Reads ==
    IF pc = "reading" THEN [port |-> PortReads, cpu |-> CPUReads, disk |-> DiskReads][mem.kind]
    ELSE [port |-> PortChecks, cpu |-> CPUChecks, disk |-> DiskChecks][mem.kind]

Metrics == <<"system.get_cpu_metrics", "system.get_memory_metrics">>

(* uniqueDemoHolder and uniqueControlledProcess *)
Controlled(processes) == {s \in processes : s.exe = "culprit"}
Unique(processes) == Cardinality(Controlled(processes)) = 1
TheOwner(processes) == CHOOSE s \in Controlled(processes) : TRUE

(* What the investigation must have shown before an action is proposed, and whom it showed. *)
Owners(kind) == out[[port |-> 4, cpu |-> 2, disk |-> 3][kind]]

PortJustified == ~out[1] /\ out[3] /\ out[5]     \* inactive, the port is taken, D1
CPUJustified == out[1] > 0                       \* there is a baseline
DiskJustified == out[2]                          \* growth.log is large

Justified(kind) ==
    /\ CASE kind = "port" -> PortJustified
         [] kind = "cpu"  -> CPUJustified
         [] kind = "disk" -> DiskJustified
    /\ Unique(Owners(kind))

(* What must be seen afterwards; usage counts in units of the drop that verifyCPURecovery asks for. *)
PortRecovered == out[1] /\ out[2]

(* Mutant: usage that has not changed is good enough. *)
CPURecoveredNoDrop == Controlled(out[2]) = {} /\ out[1] <= mem.baseline

CPURecovered == Controlled(out[2]) = {} /\ out[1] < mem.baseline
DiskRecovered == Controlled(out[1]) = {} /\ ~out[2]

CriteriaMet(kind) ==
    CASE kind = "port" -> PortRecovered
      [] kind = "cpu"  -> CPURecovered
      [] kind = "disk" -> DiskRecovered

(* The port recovery also asks the service over HTTP, which may be slow to answer. *)
HealthAnswers(kind) == IF kind = "port" THEN BOOLEAN ELSE {TRUE}

-----------------------------------------------------------------------------
(* Saving and failing. *)

Fault == faults < MaxFaults /\ faults' = faults + 1 /\ pc' = "failing"

(* SaveTask, and then a trace or session write that may fail as well. *)
Save(m, next) ==
    \/ task' = m /\ mem' = m /\ pc' = next /\ UNCHANGED faults
    \/ task' \in {task, m} /\ mem' = m /\ Fault

(* Where the resumer returns the error as it is, the task stays as it was saved last. *)
SaveOrLeave(m, next) ==
    \/ task' = m /\ mem' = m /\ pc' = next /\ UNCHANGED faults
    \/ /\ task' \in {task, m} /\ mem' = task'
       /\ faults < MaxFaults /\ faults' = faults + 1 /\ pc' = "idle"

FailWith(m) == mem' = m /\ pc' = "failing" /\ UNCHANGED <<task, faults>>

host == <<world, session, raced>>

-----------------------------------------------------------------------------
(* Run *)

NewRequest ==
    /\ pc = "idle" /\ task.state \in Terminal /\ tasks < MaxTasks
    /\ \E kind \in Kinds : task' = NewTask(kind) /\ mem' = task'
    /\ tasks' = tasks + 1 /\ due' = TRUE /\ out' = <<>>
    /\ acted' = NoAction /\ peak' = 0 /\ recovered' = {} /\ stopped' = -1
    /\ UNCHANGED <<host, pc, victims, changes, crashes, faults>>

(* A task that may have acted is not run again; any other starts from the beginning. *)
Run ==
    /\ pc = "idle" /\ due
    /\ due' = FALSE /\ out' = <<>>
    /\ IF task.state \in {"EXECUTING", "VERIFYING"} /\ task.pending # NoAction
       THEN FailWith(task)
       ELSE CASE task.kind \in Recoveries ->
                   Save([task EXCEPT !.state = "PLANNING", !.baseline = 0], "reading")
              [] task.kind \in FileActions ->
                   Save([task EXCEPT !.state = "PLANNING"], "resolving")
              [] OTHER ->
                   Save([task EXCEPT !.state = "INVESTIGATING", !.plan = @ \o Metrics], "metrics")
    /\ UNCHANGED <<host, history, bounds>>

ReadAllowed(tool) == Evaluate(ReadProposal(tool)) = [level |-> "L0", final |-> "ALLOW"]

(* callWorkflowReadStep: one read of an investigation or a verification. *)
ReadStep ==
    /\ pc \in {"reading", "verifying"} /\ Len(out) < Len(Reads)
    /\ LET tool == Reads[Len(out) + 1]
       IN  /\ \/ /\ ReadAllowed(tool)
                 /\ \E s \in Samples(world, tool) : out' = Append(out, s)
                 /\ UNCHANGED <<pc, faults>>
              \/ Fault /\ UNCHANGED out
           /\ peak' = IF pc = "reading" /\ tool = "system.get_cpu_metrics" THEN world.usage
                      ELSE peak
    /\ UNCHANGED <<host, task, mem, due, victims, acted, recovered, stopped, bounds>>

(* One metric of the loop in Run; a run that follows a restart appends its plan to the saved one. *)
MetricStep ==
    /\ pc = "metrics" /\ Len(out) < Len(mem.plan)
    /\ LET tool == mem.plan[Len(out) + 1]
           m    == [mem EXCEPT !.done = Append(@, tool)]
       IN  /\ ReadAllowed(tool)
           /\ out' = Append(out, tool)
           /\ Save(m, "metrics")
    /\ UNCHANGED <<host, due, history, bounds>>

(* Mutant: steps that an earlier run completed count, without being repeated. *)
FinishMetricsByCount ==
    /\ pc = "metrics" /\ Len(mem.done) >= Len(Metrics)
    /\ Save([mem EXCEPT !.state = "COMPLETED"], "idle")
    /\ UNCHANGED <<host, out, due, history, bounds>>

(* The completion criterion of the metric query, and its answer. *)
FinishMetrics ==
    /\ pc = "metrics" /\ Len(out) = Len(mem.plan)
    /\ IF Len(mem.done) = Len(mem.plan)
       THEN Save([mem EXCEPT !.state = "COMPLETED"], "idle")
       ELSE FailWith(mem)
    /\ UNCHANGED <<host, out, due, history, bounds>>

-----------------------------------------------------------------------------
(* Asking for an approval: ActionPreparer.Prepare on the proposals of the workflows. *)

Target(type, id) == [type |-> type, id |-> id, critical |-> FALSE]
ServiceTarget == Target("service", "web")
FileTarget == Target("file", "path")

WriteProposal(tool, target, objective, reversible) ==
    [tool |-> tool, effect |-> "write", target |-> target, batch |-> 1,
     reversible |-> reversible, rollback |-> reversible, unstable |-> FALSE, lab |-> TRUE,
     objective |-> {objective}, plan |-> {target},
     relations |-> IF target = objective THEN {}
                   ELSE {[target |-> target, relatedTo |-> objective, named |-> TRUE,
                          evidence |-> 1..Len(out)]}]

(* A process is terminated for what the request is about: the service, the host, or the file. *)
TerminateProposal(kind, s) ==
    WriteProposal("process.terminate", Target("process", <<s.pid, s.start>>),
                  [port |-> ServiceTarget, cpu |-> Host, disk |-> FileTarget][kind], FALSE)

Approvable(proposal) == Evaluate(proposal).final = "REQUIRE_APPROVAL"

(* The end of an investigation: judge, snapshot the owner, compare, ask. *)
PrepareTermination ==
    /\ pc = "reading" /\ Len(out) = Len(Reads)
    /\ IF /\ Justified(mem.kind)
          /\ LET owner == TheOwner(Owners(mem.kind))
             IN  /\ SnapshotProcess(world, owner.pid) = owner
                 /\ Approvable(TerminateProposal(mem.kind, owner))
       THEN Save([mem EXCEPT !.state = "WAITING_APPROVAL",
                             !.baseline = IF mem.kind = "cpu" THEN out[1] ELSE 0,
                             !.pending = [tool |-> "process.terminate",
                                          bound |-> TheOwner(Owners(mem.kind))]], "idle")
       ELSE FailWith(mem)
    /\ UNCHANGED <<host, out, due, history, bounds>>

(* Mutant: the file is bound as the investigation, not a new snapshot, saw it. *)
NextBoundStale(kind) ==
    IF kind = "port" THEN SnapshotService(world) ELSE [type |-> "file", version |-> 1]

(* The snapshot of preparePortServiceRestart and prepareDiskQuarantine. *)
NextBound(kind) ==
    IF kind = "port" THEN SnapshotService(world) ELSE SnapshotFile(world)

NextTool == [port |-> "service.restart", disk |-> "file.quarantine"]

(* They save PLANNING, without an action, before they ask for the second approval. *)
PlanNext ==
    LET bound == NextBound(mem.kind)
        m     == [mem EXCEPT !.state = "PLANNING"]
    IN  /\ pc = "next"
        /\ \/ /\ bound # NoSnapshot
              /\ task' = m /\ pc' = "preparing"
              /\ mem' = [m EXCEPT !.pending = [tool |-> NextTool[mem.kind], bound |-> bound]]
              /\ UNCHANGED faults
           \/ (bound = NoSnapshot \/ mem.kind = "disk") /\ FailWith(mem)   \* gone, or empty
           \/ task' \in {task, m} /\ mem' = m /\ Fault
        /\ UNCHANGED <<host, out, due, history, bounds>>

(* Mutant: the task that waits does not hold the action it waits for. *)
PrepareNextUnbound ==
    /\ pc = "preparing"
    /\ Save([mem EXCEPT !.state = "WAITING_APPROVAL", !.pending = NoAction], "idle")
    /\ UNCHANGED <<host, out, due, history, bounds>>

(* The second approval. *)
PrepareNext ==
    LET target == IF mem.kind = "port" THEN ServiceTarget ELSE FileTarget
    IN  /\ pc = "preparing"
        /\ IF Approvable(WriteProposal(mem.pending.tool, target, target, mem.kind = "disk"))
           THEN Save([mem EXCEPT !.state = "WAITING_APPROVAL"], "idle")
           ELSE FailWith(mem)
        /\ UNCHANGED <<host, out, due, history, bounds>>

(* resolveFileActionTarget: the request names the path, or refers to the session's selection. *)
Resolved(named) == named \/ session.selected

(* runFileAction: what is snapshotted. *)
FileBound(kind, named) ==
    CASE kind = "create" -> IF named THEN SnapshotNewFile(world) ELSE NoSnapshot
      [] kind = "quarantine" -> IF Resolved(named) THEN SnapshotFile(world) ELSE NoSnapshot
      [] kind = "restore" -> IF Resolved(FALSE) THEN SnapshotObject(world, session.pin) ELSE NoSnapshot

FileTool ==
    [create |-> "file.create", quarantine |-> "file.quarantine",
     restore |-> "file.restore_quarantine"]

PrepareFileAction ==
    /\ pc = "resolving"
    /\ \E named \in BOOLEAN :
          LET bound == FileBound(mem.kind, named)
          IN  IF /\ bound # NoSnapshot
                 /\ Approvable(WriteProposal(FileTool[mem.kind], FileTarget, FileTarget, TRUE))
              THEN Save([mem EXCEPT !.state = "WAITING_APPROVAL",
                                    !.pending = [tool |-> FileTool[mem.kind], bound |-> bound]],
                        "idle")
              ELSE FailWith(mem)
    /\ UNCHANGED <<host, out, due, history, bounds>>

-----------------------------------------------------------------------------
(* The approved action. *)

(* Resume: an approval that is refused or expired cancels the task. *)
Reject ==
    /\ pc = "idle" /\ task.state = "WAITING_APPROVAL"
    /\ SaveOrLeave([task EXCEPT !.state = "CANCELLED", !.pending = NoAction], "idle")
    /\ UNCHANGED <<host, out, due, history, bounds>>

Approve ==
    /\ pc = "idle" /\ task.state = "WAITING_APPROVAL"
    /\ SaveOrLeave([task EXCEPT !.state = "EXECUTING"], "executing")
    /\ UNCHANGED <<host, out, due, history, bounds>>

(***************************************************************************)
(* Validator: the target is still what was approved.  Envelope, approval   *)
(* and nonce are Executor's matter; that they are refused is a fault here. *)
(***************************************************************************)
Validate ==
    /\ pc = "executing"
    /\ \/ IF Revalidate(world, mem.pending.bound)
          THEN pc' = "acting" /\ UNCHANGED <<task, mem, faults>>
          ELSE FailWith(mem)
       \/ Fault /\ UNCHANGED <<task, mem>>
    /\ raced' = FALSE
    /\ UNCHANGED <<world, session, out, due, history, bounds>>

(* What has been true of the host, of all that a recovery promises. *)
Holding(w, baseline) ==
    {c \in {"active", "listening", "absent", "dropped", "moved"} :
        CASE c = "active"    -> w.service # 0
          [] c = "listening" -> PortOccupied(w)
          [] c = "absent"    -> Running(w, "culprit") = {}
          [] c = "dropped"   -> w.usage < baseline
          [] c = "moved"     -> ~w.file.large}

(* A handler has changed the host to w and reports success, unless the answer is lost. *)
Acted(w) ==
    /\ world' = w /\ acted' = mem.pending /\ recovered' = Holding(w, peak)
    /\ UNCHANGED <<task, mem>>
    /\ \/ pc' = "acted" /\ UNCHANGED faults
       \/ Fault

(* It has changed nothing, or not to the effect that was wanted. *)
ActFails(w) == world' = w /\ FailWith(mem) /\ UNCHANGED <<acted, recovered>>

(* ProcessTerminateHandler: the signal goes to whoever has the pid; it may be ignored. *)
Terminate ==
    LET pid == mem.pending.bound.pid
        now == SnapshotProcess(world, pid)
    IN  /\ pc = "acting" /\ mem.pending.tool = "process.terminate"
        /\ IF now = NoSnapshot
           THEN ActFails(world) /\ UNCHANGED <<victims, stopped>>
           ELSE /\ victims' = victims \cup {[was |-> now, bound |-> mem.pending.bound, raced |-> raced]}
                /\ \/ ActFails(world) /\ UNCHANGED stopped
                   \/ /\ \E u \in 0..world.usage :
                            Acted([world EXCEPT !.procs[pid] = NoProc, !.usage = u])
                      /\ stopped' = world.file.version
        /\ UNCHANGED <<session, raced, out, due, peak, bounds>>

(* The other handlers act on what was bound. *)
Acting(tool) ==
    /\ pc = "acting" /\ mem.pending.tool = tool
    /\ UNCHANGED <<session, raced, out, due, victims, peak, stopped, bounds>>

(* ServiceRestartHandler: the unit gets the port if nobody holds it. *)
RestartService ==
    /\ Acting("service.restart")
    /\ \/ /\ Running(world, "culprit") = {}
          /\ Acted([world EXCEPT !.service = world.born + 1, !.born = @ + 1])
       \/ ActFails([world EXCEPT !.service = 0])

(* QuarantineHandler: the file is moved away if it is still the approved one, *)
QuarantineFile ==
    /\ Acting("file.quarantine")
    /\ IF SnapshotFile(world) = mem.pending.bound
       THEN Acted([world EXCEPT !.objects = Append(@, world.file.version), !.file = NoFile])
       ELSE ActFails(world)

(* and an object moved back if its path is free. *)
RestoreFile ==
    LET id == mem.pending.bound.id
    IN  /\ Acting("file.restore_quarantine")
        /\ IF world.file = NoFile
           THEN Acted([world EXCEPT !.file = [version |-> world.objects[id], large |-> TRUE],
                                    !.objects[id] = 0])
           ELSE ActFails(world)

(* FileCreateHandler: O_EXCL *)
CreateFile ==
    /\ Acting("file.create")
    /\ IF world.file = NoFile
       THEN Acted([world EXCEPT !.file = [version |-> world.born + 1, large |-> FALSE], !.born = @ + 1])
       ELSE ActFails(world)

(* executeApproved with the result: VERIFYING is saved while the action is still pending. *)
Report ==
    /\ pc = "acted"
    /\ SaveOrLeave([mem EXCEPT !.state = "VERIFYING"], "persisting")
    /\ UNCHANGED <<host, out, due, history, bounds>>

(* Mutant: a restore leaves the pin. *)
PinKept(s, action) ==
    CASE action.tool = "file.create"     -> [s EXCEPT !.selected = TRUE]
      [] action.tool = "file.quarantine" -> [s EXCEPT !.pin = Len(world.objects)]
      [] OTHER                           -> s

(* persistActionContext: what the session remembers of a file action. *)
Pin(s, action) ==
    CASE action.tool = "file.create"             -> [s EXCEPT !.selected = TRUE]
      [] action.tool = "file.quarantine"         -> [s EXCEPT !.pin = Len(world.objects)]
      [] action.tool = "file.restore_quarantine" -> [s EXCEPT !.pin = 0]
      [] OTHER                                   -> s

(* ContinueAfterAction: the next action, the verification, or the end. *)
Continuation(m) ==
    IF m.kind \in {"port", "disk"} /\ m.pending.tool = "process.terminate" THEN "next"
    ELSE IF m.kind \in Recoveries THEN "verify" ELSE "finish"

PersistActionContext ==
    /\ pc = "persisting"
    /\ mem' = [mem EXCEPT !.pending = NoAction]
    /\ \/ session' = Pin(session, mem.pending) /\ pc' = Continuation(mem) /\ UNCHANGED faults
       \/ Fault /\ UNCHANGED session
    /\ UNCHANGED <<world, raced, task, out, due, history, bounds>>

(* executeApproved for an action without continuation. *)
FinishAction ==
    /\ pc = "finish"
    /\ \/ SaveOrLeave([mem EXCEPT !.state = "COMPLETED"], "idle")
       \/ Fault /\ UNCHANGED <<task, mem>>
    /\ UNCHANGED <<host, out, due, history, bounds>>

BeginVerification ==
    /\ pc = "verify"
    /\ Save([mem EXCEPT !.state = "VERIFYING"], "verifying")
    /\ out' = <<>>
    /\ UNCHANGED <<host, due, history, bounds>>

(***************************************************************************)
(* The completion gates.  The disk recovery selects its file in the        *)
(* session when it has completed.                                          *)
(***************************************************************************)
Conclude ==
    /\ pc = "verifying" /\ Len(out) = Len(Reads)
    /\ \E healthy \in HealthAnswers(mem.kind) :
          IF CriteriaMet(mem.kind) /\ healthy
          THEN Save([mem EXCEPT !.state = "COMPLETED"], "idle")
          ELSE FailWith(mem)
    /\ \/ pc' = "failing" /\ UNCHANGED session
       \/ /\ task'.state = "COMPLETED"
          /\ session' = [session EXCEPT !.selected = @ \/ mem.kind = "disk"]
    /\ UNCHANGED <<world, raced, out, due, history, bounds>>

(* Run's deferred failure, and failExecution. *)
Fail ==
    LET m == [mem EXCEPT !.state = "FAILED"]
    IN  /\ pc = "failing"
        /\ \/ task' = m /\ UNCHANGED faults
           \/ UNCHANGED task /\ faults < MaxFaults /\ faults' = faults + 1
        /\ mem' = task' /\ pc' = "idle"
        /\ UNCHANGED <<host, out, due, history, bounds>>

-----------------------------------------------------------------------------
(* The environment. *)

(* The server ends and starts again; what the executor has begun is over by then (TaskFlow lets it end later). *)
Crash ==
    /\ crashes < MaxCrashes /\ crashes' = crashes + 1
    /\ pc' = "idle" /\ mem' = task /\ out' = <<>>
    /\ due' = (task.state \notin Terminal \cup {"WAITING_APPROVAL"})
    /\ UNCHANGED <<host, task, history, changes, tasks, faults>>

Started(w, p, e) == [w EXCEPT !.procs[p] = [start |-> w.born + 1, exe |-> e], !.born = @ + 1]
Ended(w, p) == [w EXCEPT !.procs[p] = NoProc]
ChangedProcs(w) ==
    {Started(w, p, e) : p \in {q \in Pids : w.procs[q] = NoProc}, e \in {"culprit", "other"}}
    \cup {Ended(w, p) : p \in {q \in Pids : w.procs[q] # NoProc}}

(* What a workflow of this kind could see change. *)
Changed(w, kind) ==
    CASE kind = "port" ->
            ChangedProcs(w) \cup {[w EXCEPT !.service = 0]}
            \cup IF PortOccupied(w) THEN {} ELSE {[w EXCEPT !.service = w.born + 1, !.born = @ + 1]}
      [] kind = "cpu" -> ChangedProcs(w) \cup {[w EXCEPT !.usage = u] : u \in 0..2}
      [] kind = "metric" -> {}
      [] OTHER ->
            (IF kind = "disk" THEN ChangedProcs(w) ELSE {})
            \cup {[w EXCEPT !.file = NoFile]}
            \cup {[w EXCEPT !.file = [version |-> w.born + 1, large |-> b], !.born = @ + 1] : b \in BOOLEAN}

Change ==
    /\ changes < MaxChanges /\ changes' = changes + 1
    /\ world' \in Changed(world, task.kind) \ {world}
    /\ raced' = (raced \/ (pc = "acting" /\ world'.procs # world.procs))
    /\ recovered' = recovered \cup Holding(world', peak)
    /\ UNCHANGED <<session, task, mem, pc, out, due, victims, acted, peak, stopped, tasks,
                   crashes, faults>>

Next ==
    \/ NewRequest \/ Run \/ ReadStep \/ MetricStep \/ FinishMetrics
    \/ PrepareTermination \/ PlanNext \/ PrepareNext \/ PrepareFileAction
    \/ Reject \/ Approve \/ Validate \/ Terminate
    \/ RestartService \/ QuarantineFile \/ RestoreFile \/ CreateFile \/ Report
    \/ PersistActionContext \/ FinishAction \/ BeginVerification \/ Conclude
    \/ Fail \/ Crash \/ Change

Spec == Init /\ [][Next]_vars

-----------------------------------------------------------------------------
(* Properties. *)

States ==
    {"CREATED", "PLANNING", "INVESTIGATING", "WAITING_APPROVAL", "EXECUTING", "VERIFYING"} \cup Terminal
World ==
    [procs : [Pids -> [start : Nat, exe : {"none", "culprit", "other"}]], service : Nat, usage : Nat,
     file : [version : Nat, large : BOOLEAN], objects : Seq(Nat), born : Nat]
ProcessSnapshot == [type : {"process"}, pid : Pids, start : Nat, exe : {"none", "culprit", "other"}]
Snapshot ==
    {NoSnapshot} \cup ProcessSnapshot \cup [type : {"service"}, mainPid : Nat]
        \cup [type : {"file"}, version : Nat] \cup {[type |-> "new file"]}
        \cup [type : {"object"}, id : Nat]
Action ==
    [tool : {"none", "process.terminate", "service.restart", "file.create", "file.quarantine",
             "file.restore_quarantine"}, bound : Snapshot]
Task ==
    [kind : Kinds, state : States, pending : Action, baseline : Nat,
     plan : Seq({Metrics[i] : i \in DOMAIN Metrics}), done : Seq({Metrics[i] : i \in DOMAIN Metrics})]

(* WorkflowTypeOK: the variables stay in their ranges, through every error path. *)
WorkflowTypeOK ==
    /\ world \in World /\ world.file.version <= world.born
    /\ \A i \in DOMAIN world.objects : world.objects[i] <= world.born
    /\ session \in [selected : BOOLEAN, pin : 0..Len(world.objects)]
    /\ {task, mem} \subseteq Task /\ acted \in Action
    /\ pc \in {"idle", "reading", "metrics", "resolving", "next", "preparing", "executing", "acting",
               "acted", "persisting", "verify", "verifying", "finish", "failing"}
    /\ {due, raced} \subseteq BOOLEAN /\ peak \in Nat /\ stopped \in Nat \cup {-1}
    /\ stopped <= world.born

Promised ==
    [port |-> {"active", "listening"}, cpu |-> {"absent", "dropped"}, disk |-> {"absent", "moved"}]
LastTool ==
    [port |-> "service.restart", cpu |-> "process.terminate", disk |-> "file.quarantine"]

(* The actions of a workflow, and what they are bound to. *)
Tools(kind) ==
    [port |-> {"process.terminate", "service.restart"}, cpu |-> {"process.terminate"},
     disk |-> {"process.terminate", "file.quarantine"}, create |-> {"file.create"},
     quarantine |-> {"file.quarantine"}, restore |-> {"file.restore_quarantine"},
     metric |-> {}][kind]

Bound(m) ==
    LET a == m.pending
    IN  /\ a.tool \in Tools(m.kind) \cup {"none"}
        /\ m.state = "WAITING_APPROVAL" => a.tool # "none"
        /\ a.tool = "process.terminate" => a.bound \in ProcessSnapshot /\ a.bound.exe = "culprit"
        /\ a.tool = "file.quarantine" => a.bound.type = "file"
        /\ a.tool = "file.restore_quarantine" =>
              a.bound.type = "object" /\ a.bound.id \in DOMAIN world.objects

(* Which workflow is where, and how its copy relates to the file. *)
Stage ==
    /\ mem.kind = task.kind
    /\ due => pc = "idle" /\ task.state \notin Terminal \cup {"WAITING_APPROVAL"}
    /\ pc \notin {"next", "preparing", "verify", "verifying", "finish", "failing"} => mem = task
    /\ pc \in {"reading", "verify", "verifying"} => mem.kind \in Recoveries
    /\ pc \in {"next", "preparing"} => mem.kind \in {"port", "disk"}
    /\ pc \in {"resolving", "finish"} => mem.kind \in FileActions
    /\ pc = "metrics" => mem.kind = "metric"
    /\ pc \in {"reading", "resolving"} => task.state = "PLANNING"
    /\ task.state \in {"COMPLETED", "WAITING_APPROVAL"} => pc \in {"idle", "failing"}
    /\ pc = "preparing" => mem.pending.tool = NextTool[mem.kind]
    /\ pc = "executing" => mem.pending.tool # "none"

(* What has been read, and what was true of the host when it was. *)
Evidence ==
    /\ pc = "reading" =>
          /\ Len(out) <= Len(Reads)
          /\ Len(out) >= [port |-> 4, cpu |-> 2, disk |-> 3][mem.kind] =>
                Owners(mem.kind) \subseteq ProcessSnapshot
          /\ mem.kind = "cpu" /\ Len(out) >= 1 => out[1] = peak
    /\ pc = "verifying" =>
          /\ Len(out) <= Len(Reads)
          /\ mem.kind = "port" => /\ Len(out) >= 1 /\ out[1] => "active" \in recovered
                                  /\ Len(out) >= 2 /\ out[2] => "listening" \in recovered
          /\ mem.kind = "cpu" => /\ Len(out) >= 1 /\ out[1] < peak => "dropped" \in recovered
                                 /\ Len(out) >= 2 /\ Controlled(out[2]) = {} => "absent" \in recovered
          /\ mem.kind = "disk" => /\ Len(out) >= 1 /\ Controlled(out[1]) = {} => "absent" \in recovered
                                  /\ Len(out) >= 2 /\ ~out[2] => "moved" \in recovered
    /\ pc = "metrics" =>
          /\ Len(out) <= Len(mem.plan) /\ \A i \in DOMAIN out : out[i] = mem.plan[i]
          /\ Len(mem.plan) >= Len(Metrics)
          /\ \A i \in DOMAIN Metrics : mem.plan[Len(mem.plan) - Len(Metrics) + i] = Metrics[i]
    /\ mem.kind = "cpu" =>
          /\ pc \in {"executing", "acting", "acted", "persisting", "verify", "verifying"} =>
                mem.baseline = peak
          /\ task.state = "WAITING_APPROVAL" => task.baseline = peak

(* What the last action did, until the task is completed or fails. *)
Effect ==
    LET quarantined(id) == /\ id \in DOMAIN world.objects
                           /\ world.objects[id] = acted.bound.version
        restored == /\ acted.bound.id \in DOMAIN world.objects
                    /\ world.objects[acted.bound.id] = 0
    IN  /\ pc \in {"acted", "persisting"} =>
              /\ acted = mem.pending /\ acted.tool # "none"
              /\ acted.tool = "process.terminate" => stopped >= 0
              /\ acted.tool = "file.quarantine" => quarantined(Len(world.objects))
              /\ acted.tool = "file.restore_quarantine" => restored
        /\ pc \in {"verify", "verifying"} => acted.tool = LastTool[mem.kind]
        /\ pc = "finish" => acted.tool = FileTool[mem.kind]
        /\ pc \in {"acted", "persisting", "verify", "verifying"} =>
              Holding(world, peak) \subseteq recovered
        /\ pc \in {"verify", "verifying", "finish"} =>
              /\ mem.kind \in {"quarantine", "disk"} => quarantined(session.pin)
              /\ mem.kind = "restore" => session.pin = 0 /\ restored
        /\ pc \in {"next", "preparing"} => stopped >= 0

(* The process at the pid is the approved one until the processes change. *)
Validated ==
    pc = "acting" /\ mem.pending.tool = "process.terminate" /\ ~raced =>
        SnapshotProcess(world, mem.pending.bound.pid) = mem.pending.bound

(***************************************************************************)
(* VictimIsCulprit: SIGTERM reaches the process that was seen, judged and  *)
(* approved (this start of the controlled executable, not another process  *)
(* with its pid), unless the pid changed hands after the executor's check. *)
(***************************************************************************)
VictimIsCulprit ==
    \A v \in victims : v.bound.exe = "culprit" /\ (v.was = v.bound \/ v.raced)

(***************************************************************************)
(* CompletedMeansRecovered: a recovery is COMPLETED only if its last       *)
(* action was carried out and everything it promises was true of the host  *)
(* at some instant after that; evidence from before does not count.        *)
(***************************************************************************)
CompletedMeansRecovered ==
    task.state = "COMPLETED" /\ task.kind \in Recoveries =>
        acted.tool = LastTool[task.kind] /\ Promised[task.kind] \subseteq recovered

(***************************************************************************)
(* SecondActionBound: a recovery asks for its second action only after its *)
(* first one took effect, and a file is bound as it is after its writer    *)
(* has been stopped.                                                       *)
(***************************************************************************)
SecondActionBound ==
    /\ \A m \in {task, mem} :
          m.kind \in Recoveries /\ m.pending.tool \in {"service.restart", "file.quarantine"} =>
              stopped >= 0 /\ (m.kind = "disk" => m.pending.bound.version >= stopped)
    /\ stopped >= 0 =>
          task.kind \in Recoveries /\ (world.file = NoFile \/ world.file.version >= stopped)

(***************************************************************************)
(* WorkflowInv: types, what actions are bound to (a waiting task holds the *)
(* action it waits for), and what each step may rely on.                   *)
(***************************************************************************)
WorkflowInv ==
    /\ WorkflowTypeOK /\ Bound(task) /\ Bound(mem) /\ SecondActionBound
    /\ Stage /\ Evidence /\ Effect /\ Validated

(***************************************************************************)
(* FileOutcome: after a completed quarantine the session's pin names the   *)
(* object that holds the approved version of the file; after a completed   *)
(* restore the object is back and nothing is pinned, so that no later      *)
(* request refers to it.                                                   *)
(***************************************************************************)
FileOutcome ==
    task.state = "COMPLETED" =>
        /\ task.kind \in {"quarantine", "disk"} =>
              /\ acted.tool = "file.quarantine" /\ session.pin # 0
              /\ world.objects[session.pin] = acted.bound.version
        /\ task.kind = "restore" =>
              /\ acted.tool = "file.restore_quarantine" /\ session.pin = 0
              /\ world.objects[acted.bound.id] = 0

(* AnswerFresh: the run that answers a metric query has itself read every metric asked for. *)
AnswerFresh ==
    [][task.kind = "metric" /\ task'.state = "COMPLETED" /\ task.state # "COMPLETED" =>
          \A i \in DOMAIN Metrics : \E j \in DOMAIN out : out[j] = Metrics[i]]_vars
=============================================================================
