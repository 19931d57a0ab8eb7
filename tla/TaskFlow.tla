------------------------------ MODULE TaskFlow ------------------------------
(***************************************************************************)
(* internal/agent, internal/api and cmd/safeops-server together: what      *)
(* happens to one task between Orchestrator.Prepare and its final state.   *)
(* A creator runs it under a lease until it completes or waits for an      *)
(* approval; HTTP handlers resolve approvals and resume the task without a *)
(* lease; a restart resumes resolved approvals first and then recovers     *)
(* unfinished tasks while HTTP is already being served.                    *)
(*                                                                         *)
(* Approvals behave as module ApprovalLedger promises: resolving one and   *)
(* consuming one are single steps here.  Approvals are numbered in the     *)
(* order they are asked for, and number an envelope and its nonce too.     *)
(***************************************************************************)
EXTENDS TaskLease, FiniteSets

CONSTANTS
    Handlers,       \* goroutines of HTTP requests that resolve approvals
    RecoveryDue,    \* has the process that accepts the task yet to list tasks?
    RunsFitLease,   \* does every Run end within its lease?
    MaxApprovals,   \* bound on the approvals asked for
    MaxClaims,      \* bound on the claims of the task
    MaxCrashes,     \* bound on the restarts of safeops-server
    MaxFaults       \* bound on failed writes, cancelled requests and timeouts

ASSUME FlowAssumption ==
    /\ RecoveryDue \in BOOLEAN /\ RunsFitLease \in BOOLEAN
    /\ {MaxApprovals, MaxClaims, MaxCrashes, MaxFaults} \subseteq Nat
    /\ Handlers \cap {"creator", "recovery", "boot", "gone"} = {}

VARIABLES
    disk,       \* the task file
    over,       \* leases with a fence up to this number have expired
    appr,       \* approval number -> its status
    late,       \* approvals whose lifetime is over
    act,        \* goroutine -> where it is and what it holds
    todo,       \* <<approval, status>> pairs resumeResolvedApprovals has left
    inbox,      \* <<approval, client>>: envelopes privexec has not answered
    sent,       \* history: approval -> number of times its envelope was sent
    effects,    \* history: approval -> number of times its action took place
    lost,       \* history: approvals sent before the last restart
    raced,      \* history: a Run claimed a task that was parked after it had looked
    crashes, faults

vars == <<disk, over, appr, late, act, todo, inbox, sent, effects, lost, raced,
          crashes, faults>>

Approvals == 1..MaxApprovals
Workers == {"creator", "recovery"}
Resumers == Handlers \cup {"boot"}
Actors == Workers \cup Resumers

(* PLANNING, INVESTIGATING and REPLANNING are one state here: WORKING. *)
States == {"NEW", "WORKING", "WAITING", "EXECUTING", "VERIFYING",
           "COMPLETED", "FAILED", "CANCELLED"}
Terminal == {"COMPLETED", "FAILED", "CANCELLED"}
Statuses == {"ABSENT", "PENDING", "APPROVED", "REJECTED", "EXPIRED", "CONSUMED"}

(* pend is PendingApprovalID, set and cleared together with PendingAction. *)
Task == [state : States, pend : 0..MaxApprovals, token : 0..MaxClaims,
         fence : 0..MaxClaims]
NewTask == [state |-> "NEW", pend |-> 0, token |-> 0, fence |-> 0]

PCs == {"off", "listing", "waiting", "start", "checked", "working", "asking",
        "asked", "release", "failing", "resolved", "loaded", "executing",
        "sent", "replied", "verified", "rechecking", "planning", "completed"}
Actor == [pc : PCs, t : Task, id : 0..MaxApprovals, status : Statuses]
Off == [pc |-> "off", t |-> NewTask, id |-> 0, status |-> "ABSENT"]

(* FlowTypeOK: the types; claims draw fences in turn, never past the bound. *)
FlowTypeOK ==
    /\ disk \in Task
    /\ over \in 0..MaxClaims
    /\ appr \in [Approvals -> Statuses]
    /\ late \subseteq Approvals
    /\ act \in [Actors -> Actor]
    /\ todo \subseteq Approvals \X {"APPROVED", "REJECTED", "EXPIRED"}
    /\ inbox \subseteq Approvals \X (Resumers \cup {"gone"})
    /\ sent \in [Approvals -> Nat] /\ effects \in [Approvals -> Nat]
    /\ lost \subseteq Approvals /\ raced \in BOOLEAN
    /\ crashes \in 0..MaxCrashes /\ faults \in 0..MaxFaults

(* The task is prepared and its creator is about to run it. *)
Init ==
    /\ disk = NewTask
    /\ over = 0
    /\ appr = [k \in Approvals |-> "ABSENT"]
    /\ late = {}
    /\ act = [a \in Actors |->
                [Off EXCEPT !.pc = CASE a = "creator" -> "start"
                                     [] a = "recovery" /\ RecoveryDue -> "listing"
                                     [] OTHER -> "off"]]
    /\ todo = {} /\ inbox = {} /\ lost = {}
    /\ sent = [k \in Approvals |-> 0] /\ effects = [k \in Approvals |-> 0]
    /\ raced = FALSE /\ crashes = 0 /\ faults = 0

-----------------------------------------------------------------------------
Fresh == disk.fence > over
Goto(a, pc) == act' = [act EXCEPT ![a].pc = pc]
Stop(a) == act' = [act EXCEPT ![a] = Off]
Hold(a, pc, t) ==
    IF pc = "off" THEN Stop(a) ELSE act' = [act EXCEPT ![a].pc = pc, ![a].t = t]

(* SaveTask: the file is replaced unless the lease on it forbids. *)
SaveTask(a, next, pc, refused) ==
    IF WriteAllowed(disk, next, Fresh)
    THEN disk' = next /\ Hold(a, pc, next)
    ELSE UNCHANGED disk /\ Hold(a, refused, next)

Fault == faults < MaxFaults /\ faults' = faults + 1

Asked == Cardinality({k \in Approvals : appr[k] # "ABSENT"})
Booting == todo # {} \/ act["boot"].pc # "off"

(* What only the environment and a restart change. *)
environment == <<over, late, todo, inbox, sent, effects, lost, crashes>>
Quiet == UNCHANGED <<environment, raced>>

-----------------------------------------------------------------------------
(* Orchestrator.RecoverIncomplete. *)
Parked(t) == t.state \in Terminal \cup {"WAITING"}

ListTasks ==
    /\ act["recovery"].pc = "listing"
    /\ ~Booting
    /\ IF Parked(disk) THEN Stop("recovery") ELSE Hold("recovery", "waiting", disk)
    /\ Quiet /\ UNCHANGED <<disk, appr, faults>>

(* Mutant: the recovery does not wait. *)
LeaseNotAwaited ==
    /\ act["recovery"].pc = "waiting"
    /\ Goto("recovery", "start")
    /\ Quiet /\ UNCHANGED <<disk, appr, faults>>

(* The timer runs until the lease that was listed has expired. *)
LeaseAwaited ==
    /\ act["recovery"].pc = "waiting"
    /\ act["recovery"].t.token = 0 \/ act["recovery"].t.fence <= over
    /\ Goto("recovery", "start")
    /\ Quiet /\ UNCHANGED <<disk, appr, faults>>

(* Orchestrator.Run: the state is looked at before the lease is claimed. *)
CheckState(w) ==
    /\ act[w].pc = "start"
    /\ IF Parked(disk) THEN Stop(w) ELSE Goto(w, "checked")
    /\ Quiet /\ UNCHANGED <<disk, appr, faults>>

InFlight(t) == t.state \in {"EXECUTING", "VERIFYING"} /\ t.pend # 0

(* Mutant: the fence counts down. *)
ClaimTaskBackwards(w) ==
    LET claimed == [disk EXCEPT !.token = disk.fence + 1, !.fence = disk.fence - 1]
    IN  /\ act[w].pc = "checked"
        /\ ClaimAllowed(disk, Fresh)
        /\ disk' = claimed
        /\ Hold(w, "working", claimed)
        /\ Quiet /\ UNCHANGED <<appr, faults>>

ClaimTask(w) ==
    LET claimed == [disk EXCEPT !.token = disk.fence + 1, !.fence = disk.fence + 1]
    IN  /\ act[w].pc = "checked"
        /\ disk.fence < MaxClaims
        /\ IF ClaimAllowed(disk, Fresh)
           THEN /\ disk' = claimed
                /\ Hold(w, IF InFlight(claimed) THEN "failing" ELSE "working", claimed)
                /\ raced' = (raced \/ Parked(disk))
           ELSE UNCHANGED <<disk, raced>> /\ Stop(w)
        /\ UNCHANGED <<environment, appr, faults>>

(* A workflow saves its progress. *)
Work(w) ==
    /\ act[w].pc = "working"
    /\ act[w].t.state # "WORKING"
    /\ SaveTask(w, [act[w].t EXCEPT !.state = "WORKING"], "working", "failing")
    /\ Quiet /\ UNCHANGED <<appr, faults>>

(* A read-only task ends here; session and trace are written afterwards. *)
Complete(w) ==
    /\ act[w].pc = "working"
    /\ act[w].t.state = "WORKING"
    /\ SaveTask(w, [act[w].t EXCEPT !.state = "COMPLETED"], "completed", "failing")
    /\ Quiet /\ UNCHANGED <<appr, faults>>

(* A tool, the planner or a guard refuses. *)
WorkFails(w) ==
    /\ act[w].pc = "working"
    /\ Goto(w, "failing")
    /\ Quiet /\ UNCHANGED <<disk, appr, faults>>

-----------------------------------------------------------------------------
(***************************************************************************)
(* ActionPreparer.Prepare, called by a worker or by the continuation of a  *)
(* resumed workflow: create the approval, save the task, append to the     *)
(* trace.  When one of these fails the approval is withdrawn.              *)
(***************************************************************************)
Withdrawn(k) ==
    [appr EXCEPT ![k] = IF k \in late THEN "EXPIRED"
                        ELSE IF @ = "PENDING" THEN "REJECTED" ELSE @]

CreateApproval(a) ==
    LET k == Asked + 1 IN
    /\ act[a].pc \in {"working", "planning"}
    /\ act[a].t.state = "WORKING"
    /\ k \in Approvals
    /\ appr' = [appr EXCEPT ![k] = "PENDING"]
    /\ Hold(a, "asking", [act[a].t EXCEPT !.state = "WAITING", !.pend = k])
    /\ Quiet /\ UNCHANGED <<disk, faults>>

SaveWaiting(a) ==
    /\ act[a].pc = "asking"
    /\ SaveTask(a, act[a].t, "asked", "failing")
    /\ appr' = IF WriteAllowed(disk, act[a].t, Fresh) THEN appr
               ELSE Withdrawn(act[a].t.pend)
    /\ Quiet /\ UNCHANGED faults

(* Prepare returns; a worker goes on to its deferred release. *)
Prepared(a) ==
    /\ act[a].pc = "asked"
    /\ IF a \in Workers THEN Goto(a, "release") ELSE Stop(a)
    /\ Quiet /\ UNCHANGED <<disk, appr, faults>>

(* The write of the task or of the trace fails. *)
PrepareFails(a) ==
    /\ act[a].pc \in {"asking", "asked"}
    /\ Fault
    /\ appr' = Withdrawn(act[a].t.pend)
    /\ Goto(a, "failing")
    /\ Quiet /\ UNCHANGED disk

-----------------------------------------------------------------------------
(* Run's deferred functions: fail the task on an error, then release it. *)
MarkFailed(w) ==
    /\ act[w].pc = "failing"
    /\ w \in Workers
    /\ SaveTask(w, [act[w].t EXCEPT !.state = "FAILED"], "release", "release")
    /\ Quiet /\ UNCHANGED <<appr, faults>>

Finish(w) ==
    /\ act[w].pc = "completed"
    /\ w \in Workers
    /\ Goto(w, "release")
    /\ Quiet /\ UNCHANGED <<disk, appr, faults>>

(* Mutant: Run ends without releasing the task. *)
ReleaseForgotten(w) ==
    /\ act[w].pc = "release"
    /\ Stop(w)
    /\ Quiet /\ UNCHANGED <<disk, appr, faults>>

ReleaseTask(w) ==
    /\ act[w].pc = "release"
    /\ disk' = IF ReleaseAllowed(disk, act[w].t.token, act[w].t.fence)
               THEN [disk EXCEPT !.token = 0] ELSE disk
    /\ Stop(w)
    /\ Quiet /\ UNCHANGED <<appr, faults>>

(* A write a worker makes fails on the way; the run ends in "failing". *)
WorkerFault(w) ==
    /\ Fault
    /\ \/ act[w].pc \in {"working", "completed"} /\ Goto(w, "failing")
       \/ act[w].pc = "failing" /\ Goto(w, "release")
       \/ act[w].pc = "release" /\ Stop(w)
    /\ Quiet /\ UNCHANGED <<disk, appr>>

-----------------------------------------------------------------------------
(* Mutant: a later decision replaces an earlier one. *)
ResolveOverrides(h, k, decision) ==
    /\ act[h].pc = "off"
    /\ ~Booting
    /\ appr[k] \in {"PENDING", "APPROVED", "REJECTED"} /\ k \notin late
    /\ appr' = [appr EXCEPT ![k] = decision]
    /\ act' = [act EXCEPT ![h] = [Off EXCEPT !.pc = "resolved", !.id = k,
                                             !.status = decision]]
    /\ Quiet /\ UNCHANGED <<disk, faults>>

(***************************************************************************)
(* Server.resolveApproval: Approvals.Resolve, and on success Resume.  Past *)
(* its lifetime the approval is closed and the task is left as it is.      *)
(***************************************************************************)
ResolveApproval(h, k, decision) ==
    /\ act[h].pc = "off"
    /\ ~Booting
    /\ appr[k] # "ABSENT"
    /\ IF k \in late
       THEN appr' = [appr EXCEPT ![k] = "EXPIRED"] /\ UNCHANGED act
       ELSE /\ appr[k] \in {"PENDING", decision}
            /\ appr' = [appr EXCEPT ![k] = decision]
            /\ act' = [act EXCEPT ![h] = [Off EXCEPT !.pc = "resolved", !.id = k,
                                                     !.status = decision]]
    /\ Quiet /\ UNCHANGED <<disk, faults>>

(* resumeResolvedApprovals takes the next record of its list. *)
BootResume ==
    /\ act["boot"].pc = "off"
    /\ \E p \in todo :
         /\ todo' = todo \ {p}
         /\ act' = [act EXCEPT !["boot"] = [Off EXCEPT !.pc = "resolved",
                                              !.id = p[1], !.status = p[2]]]
    /\ UNCHANGED <<disk, over, appr, late, inbox, sent, effects, lost, raced, crashes, faults>>

(* Mutant: only a final state stops Resume. *)
ResumeAnyState(r) ==
    /\ act[r].pc = "resolved"
    /\ IF disk.pend = act[r].id /\ disk.state \notin Terminal
       THEN Hold(r, "loaded", disk) ELSE Stop(r)
    /\ Quiet /\ UNCHANGED <<disk, appr, faults>>

(* ApprovalResumer.Resume. *)
Resume(r) ==
    /\ act[r].pc = "resolved"
    /\ IF disk.pend = act[r].id /\ disk.state = "WAITING"
       THEN Hold(r, "loaded", disk) ELSE Stop(r)
    /\ Quiet /\ UNCHANGED <<disk, appr, faults>>

CancelTask(r) ==
    /\ act[r].pc = "loaded"
    /\ act[r].status \in {"REJECTED", "EXPIRED"}
    /\ SaveTask(r, [act[r].t EXCEPT !.state = "CANCELLED", !.pend = 0], "off", "off")
    /\ Quiet /\ UNCHANGED <<appr, faults>>

(* executeApproved, up to the call of the executor. *)
BeginExecution(r) ==
    /\ act[r].pc = "loaded"
    /\ act[r].status = "APPROVED"
    /\ SaveTask(r, [act[r].t EXCEPT !.state = "EXECUTING"], "executing", "off")
    /\ Quiet /\ UNCHANGED <<appr, faults>>

Dispatch(r) ==
    /\ act[r].pc = "executing"
    /\ inbox' = inbox \cup {<<act[r].id, r>>}
    /\ sent' = [sent EXCEPT ![act[r].id] = @ + 1]
    /\ Goto(r, "sent")
    /\ UNCHANGED <<disk, over, appr, late, todo, effects, lost, raced, crashes, faults>>

(***************************************************************************)
(* safeops-privexec answers: an approval that is valid is consumed and the *)
(* action takes place and is verified, or takes place and is not verified, *)
(* or fails; any other envelope is refused.                                *)
(***************************************************************************)
Answer(r, pc) == IF r = "gone" THEN UNCHANGED act ELSE Goto(r, pc)

ExecutorActs(k, r) ==
    /\ <<k, r>> \in inbox
    /\ inbox' = inbox \ {<<k, r>>}
    /\ IF appr[k] = "APPROVED" /\ k \notin late
       THEN /\ appr' = [appr EXCEPT ![k] = "CONSUMED"]
            /\ \/ effects' = [effects EXCEPT ![k] = @ + 1] /\ Answer(r, "replied")
               \/ effects' = [effects EXCEPT ![k] = @ + 1] /\ Answer(r, "failing")
               \/ UNCHANGED effects /\ Answer(r, "failing")
       ELSE UNCHANGED <<appr, effects>> /\ Answer(r, "failing")
    /\ UNCHANGED <<disk, over, late, todo, sent, lost, raced, crashes, faults>>

(* Mutant: a timeout is taken for an answer. *)
TimeoutIgnored(r) ==
    /\ act[r].pc = "sent"
    /\ Fault
    /\ inbox' = (inbox \ {<<act[r].id, r>>}) \cup {<<act[r].id, "gone">>}
    /\ Goto(r, "replied")
    /\ UNCHANGED <<disk, over, appr, late, todo, sent, effects, lost, raced, crashes>>

(* The client stops waiting after 20 s; the executor goes on. *)
ClientTimeout(r) ==
    /\ act[r].pc = "sent"
    /\ Fault
    /\ inbox' = (inbox \ {<<act[r].id, r>>}) \cup {<<act[r].id, "gone">>}
    /\ Goto(r, "failing")
    /\ UNCHANGED <<disk, over, appr, late, todo, sent, effects, lost, raced, crashes>>

SaveVerifying(r) ==
    /\ act[r].pc = "replied"
    /\ SaveTask(r, [act[r].t EXCEPT !.state = "VERIFYING"], "verified", "off")
    /\ Quiet /\ UNCHANGED <<appr, faults>>

(***************************************************************************)
(* The verified action is taken off the task.  Then the task is complete,  *)
(* or the workflow goes on: it re-checks the system, or it prepares its    *)
(* next action, unless the action or its target is not the expected one.   *)
(***************************************************************************)
Settled(r, s) == [act[r].t EXCEPT !.state = s, !.pend = 0]

CompleteTask(r) ==
    /\ act[r].pc = "verified"
    /\ SaveTask(r, Settled(r, "COMPLETED"), "off", "off")
    /\ Quiet /\ UNCHANGED <<appr, faults>>

ContinueAfterAction(r) ==
    /\ act[r].pc = "verified"
    /\ \/ SaveTask(r, Settled(r, "WORKING"), "planning", "failing")
       \/ SaveTask(r, Settled(r, "VERIFYING"), "rechecking", "failing")
       \/ Hold(r, "failing", [act[r].t EXCEPT !.pend = 0]) /\ UNCHANGED disk
    /\ Quiet /\ UNCHANGED <<appr, faults>>

(* The guards, or the trace, refuse the next action. *)
NextActionRefused(r) ==
    /\ act[r].pc = "planning"
    /\ Goto(r, "failing")
    /\ Quiet /\ UNCHANGED <<disk, appr, faults>>

(* verifyPortRecovery and its kin end. *)
VerifyRecovery(r) ==
    /\ act[r].pc = "rechecking"
    /\ \/ SaveTask(r, Settled(r, "COMPLETED"), "completed", "failing")
       \/ Goto(r, "failing") /\ UNCHANGED disk
    /\ Quiet /\ UNCHANGED <<appr, faults>>

ResumeReturns(r) ==
    /\ act[r].pc = "completed"
    /\ r \in Resumers
    /\ Stop(r)
    /\ Quiet /\ UNCHANGED <<disk, appr, faults>>

(* Mutant: the failure is reported and not saved. *)
FailExecutionUnsaved(r) ==
    /\ act[r].pc = "failing"
    /\ r \in Resumers
    /\ Stop(r)
    /\ Quiet /\ UNCHANGED <<disk, appr, faults>>

FailExecution(r) ==
    /\ act[r].pc = "failing"
    /\ r \in Resumers
    /\ SaveTask(r, [act[r].t EXCEPT !.state = "FAILED"], "off", "off")
    /\ Quiet /\ UNCHANGED <<appr, faults>>

(* The session or the trace cannot be written after COMPLETED was saved. *)
ResumeFails(r) ==
    /\ act[r].pc = "completed"
    /\ r \in Resumers
    /\ Fault
    /\ Goto(r, "failing")
    /\ Quiet /\ UNCHANGED <<disk, appr>>

(***************************************************************************)
(* The request is cancelled, so that every later write fails, or a write   *)
(* fails whose error Resume returns as it is: the task stays as it was.    *)
(***************************************************************************)
ResumeAbandoned(r) ==
    /\ act[r].pc # "off"
    /\ r \in Resumers
    /\ Fault
    /\ inbox' = IF act[r].pc = "sent"
                THEN (inbox \ {<<act[r].id, r>>}) \cup {<<act[r].id, "gone">>}
                ELSE inbox
    /\ Stop(r)
    /\ UNCHANGED <<disk, over, appr, late, todo, sent, effects, lost, raced, crashes>>

-----------------------------------------------------------------------------
(***************************************************************************)
(* A lease lasts 3 minutes and is never renewed.  The limits of a run (2   *)
(* minutes to decide, 10 s for a tool) keep it shorter unless the process  *)
(* is suspended or the clock is set: RunsFitLease leaves that out.         *)
(***************************************************************************)
Running(f) ==
    \E w \in Workers :
        /\ act[w].pc \in {"working", "asking", "asked", "release", "failing", "completed"}
        /\ act[w].t.fence = f

LeaseExpires ==
    /\ over < disk.fence
    /\ RunsFitLease => ~Running(over + 1)
    /\ over' = over + 1
    /\ UNCHANGED <<disk, appr, late, act, todo, inbox, sent, effects, lost, raced, crashes, faults>>

ApprovalExpires(k) ==
    /\ appr[k] # "ABSENT" /\ k \notin late
    /\ late' = late \cup {k}
    /\ UNCHANGED <<disk, over, appr, act, todo, inbox, sent, effects, lost, raced, crashes, faults>>

(***************************************************************************)
(* safeops-server dies and starts again: List closes what has expired and  *)
(* hands the resolved approvals to resumeResolvedApprovals.  privexec has  *)
(* a life of its own and keeps what it was sent.                           *)
(***************************************************************************)
Restart ==
    LET closed == [k \in Approvals |-> IF appr[k] = "PENDING" /\ k \in late
                                       THEN "EXPIRED" ELSE appr[k]]
    IN  /\ crashes < MaxCrashes
        /\ crashes' = crashes + 1
        /\ appr' = closed
        /\ todo' = {p \in Approvals \X {"APPROVED", "REJECTED", "EXPIRED"} :
                       closed[p[1]] = p[2]}
        /\ act' = [a \in Actors |-> IF a = "recovery" THEN [Off EXCEPT !.pc = "listing"]
                                    ELSE Off]
        /\ inbox' = {<<p[1], "gone">> : p \in inbox}
        /\ lost' = {k \in Approvals : sent[k] > 0}
        /\ UNCHANGED <<disk, over, late, sent, effects, raced, faults>>

WorkerStep(w) ==
    \/ CheckState(w) \/ ClaimTask(w) \/ Work(w) \/ Complete(w) \/ WorkFails(w)
    \/ CreateApproval(w) \/ SaveWaiting(w) \/ Prepared(w)
    \/ MarkFailed(w) \/ Finish(w) \/ ReleaseTask(w)

RecoveryStep == ListTasks \/ LeaseAwaited \/ WorkerStep("recovery")

ResumeStep(r) ==
    \/ Resume(r) \/ CancelTask(r) \/ BeginExecution(r) \/ Dispatch(r)
    \/ SaveVerifying(r) \/ CompleteTask(r) \/ ContinueAfterAction(r)
    \/ NextActionRefused(r) \/ VerifyRecovery(r) \/ ResumeReturns(r) \/ FailExecution(r)
    \/ CreateApproval(r) \/ SaveWaiting(r) \/ Prepared(r)

Next ==
    \/ WorkerStep("creator")
    \/ RecoveryStep
    \/ BootResume
    \/ \E r \in Resumers : ResumeStep(r)
    \/ \E h \in Handlers, k \in Approvals, d \in {"APPROVED", "REJECTED"} :
           ResolveApproval(h, k, d)
    \/ \E p \in inbox : ExecutorActs(p[1], p[2])
    \/ \E w \in Workers : WorkerFault(w)
    \/ \E r \in Resumers : \/ ClientTimeout(r) \/ ResumeFails(r)
                           \/ ResumeAbandoned(r)
    \/ \E a \in Actors : PrepareFails(a)
    \/ LeaseExpires
    \/ \E k \in Approvals : ApprovalExpires(k)
    \/ Restart

Spec == Init /\ [][Next]_vars

(***************************************************************************)
(* What the scheduler, the clock and the executor owe: a goroutine that    *)
(* can go on goes on, a lease runs out, an envelope is answered.  Nobody   *)
(* owes a decision of the operator, a fault or a restart.                  *)
(***************************************************************************)
Fairness ==
    /\ WF_vars(WorkerStep("creator"))
    /\ WF_vars(RecoveryStep)
    /\ WF_vars(BootResume)
    /\ \A r \in Resumers : WF_vars(ResumeStep(r))
    /\ WF_vars(\E p \in inbox : ExecutorActs(p[1], p[2]))
    /\ WF_vars(LeaseExpires)

FairSpec == Spec /\ Fairness

-----------------------------------------------------------------------------
(* Properties. *)

(***************************************************************************)
(* CompletedMeansExecuted: whatever duplicate answers, timeouts, failed    *)
(* writes and restarts happen, a task that reads COMPLETED left no         *)
(* envelope behind whose action did not take place.                        *)
(***************************************************************************)
CompletedMeansExecuted ==
    disk.state = "COMPLETED" => \A k \in Approvals : sent[k] > 0 => effects[k] = 1

(***************************************************************************)
(* CancelledMeansUntouched: a CANCELLED task neither carried out the       *)
(* action it last asked for nor has it on its way to the executor.         *)
(***************************************************************************)
CancelledMeansUntouched ==
    disk.state = "CANCELLED" =>
        /\ \A k \in Approvals : k = Asked => effects[k] = 0
        /\ \A p \in inbox : p[1] # Asked

(***************************************************************************)
(* OutcomeMatches: what the task file says of the outcome is what happened *)
(* to the system, whoever answered, timed out or failed to save, as long   *)
(* as no Run has claimed a task that came to wait or to its end between    *)
(* Run's look at its state and its claim.                                  *)
(***************************************************************************)
OutcomeMatches == ~raced => CompletedMeansExecuted /\ CancelledMeansUntouched

(***************************************************************************)
(* NoBlindReplay: an envelope that may have reached the executor before    *)
(* the server went down is never sent again, and its task, if it was still *)
(* in flight, may only fail (IMPLEMENT.md: "fails closed and requires      *)
(* reconciliation instead of replaying the write").                        *)
(***************************************************************************)
NoBlindReplayStep ==
    \A k \in lost :
        /\ sent'[k] = sent[k]
        /\ InFlight(disk) /\ disk.pend = k /\ disk'.state # disk.state
              => disk'.state = "FAILED"

(* NoBlindReplay: every step of the flow is such a step. *)
NoBlindReplay == [][NoBlindReplayStep]_vars

(***************************************************************************)
(* RecoverySettles: a task the start-up recovery has on its list reaches a *)
(* final state or waits for an operator, even when its lease has to run    *)
(* out first.                                                              *)
(***************************************************************************)
RecoverySettles == act["recovery"].pc = "waiting" ~> Parked(disk)

(***************************************************************************)
(* ExecutionSettles: SPEC.md has the resolution of an approval execute,    *)
(* verify and publish "the durable result without another user message":   *)
(* an execution of a task that Resume loaded without a lease comes to an   *)
(* end, also when the server restarts in the middle of it.                 *)
(***************************************************************************)
ExecutionSettles ==
    \A r \in Resumers :
        act[r].pc = "executing" /\ act[r].t.token = 0 ~> Parked(disk)

(***************************************************************************)
(* Settles: neither the recovery nor an execution leaves its task in an    *)
(* intermediate state for ever.                                            *)
(***************************************************************************)
Settles == RecoverySettles /\ ExecutionSettles

(***************************************************************************)
(* CompletedIsFinal: "Duplicate resolution is idempotent" (docs/research/  *)
(* DURABLE_AGENT.md), so a second confirmation leaves a completed task as  *)
(* it is.                                                                  *)
(***************************************************************************)
CompletedIsFinal ==
    [][disk.state = "COMPLETED" => disk'.state = "COMPLETED"]_vars

(***************************************************************************)
(* WaitingCanResume: while the server stays up and its writes succeed, a   *)
(* task that waits while no Run holds it accepts the save that resumes it: *)
(* no lease is left on it (SPEC.md has the approval's resolution execute   *)
(* "without another user message").                                        *)
(***************************************************************************)
WaitingCanResume ==
    disk.state = "WAITING" /\ ~Running(disk.fence) /\ crashes = 0 /\ faults = 0
        => WriteAllowed(disk, [disk EXCEPT !.state = "EXECUTING"], Fresh)

(* FlowInv: types and fences in range, and waiting tasks that can be resumed, under every interleaving. *)
FlowInv == FlowTypeOK /\ WaitingCanResume
=============================================================================
