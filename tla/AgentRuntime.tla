---------------------------- MODULE AgentRuntime ----------------------------
(***************************************************************************)
(* internal/agent/general.go and reducer.go: the bounded planner loop of   *)
(* one task.  The planner (a language model) proposes, the loop decides    *)
(* whether the proposal is carried out, and every counter that bounds the  *)
(* loop lives in the task file, so that a restart of the server goes on    *)
(* with what is left of them.  What the planner answers and what a tool    *)
(* returns is free.                                                        *)
(*                                                                         *)
(* Instants are kept as the time left until them: Tick brings the deadline *)
(* of the task and the expiry of its lease closer, wherever they are held. *)
(***************************************************************************)
EXTENDS SafetyPipeline, TaskLease, Sequences, FiniteSets

CONSTANTS
    Tools,                  \* names of the tools the registry has discovered
    Requests,               \* what an operator asked: paths named, paths excluded, action authorised
    Paths,                  \* cleaned absolute paths, as sequences of names
    Selections,             \* selected_resources a session may hold when a run begins
    Targets,                \* targets the planner may name for a managed action
    MaxIterations, MaxToolCalls, MaxReplans, MaxNoProgressRepeats,
    TaskTimeout,            \* DefaultTaskTimeout
    FinalizationReserve,    \* generalFinalizationReserve
    LeaseTTL,
    MaxCrashes, MaxFaults   \* bounds on restarts and on failing calls

ASSUME RuntimeAssumption ==
    /\ {MaxIterations, MaxToolCalls, MaxReplans, MaxNoProgressRepeats} \subseteq Nat
    /\ {TaskTimeout, LeaseTTL} \subseteq Nat \ {0}
    /\ FinalizationReserve \in 0..TaskTimeout
    /\ {MaxCrashes, MaxFaults} \subseteq Nat
    /\ Paths \subseteq Seq(STRING) /\ <<"-">> \notin Paths     \* "-" is no absolute path
    /\ \A r \in Requests : r.paths \subseteq Paths /\ r.excluded \subseteq Paths
    /\ Selections \subseteq SUBSET Paths
    /\ Targets \subseteq [type : {"service", "process"}, id : STRING, critical : BOOLEAN]

VARIABLES
    request,    \* the operator's request
    disk,       \* the task file
    mem,        \* the copy the run works on
    pc,         \* where the run is; idle when there is none
    scope,      \* the read scope derived when the run began
    finalOnly,  \* only a final answer is accepted from now on
    decision,   \* what the planner decided
    sight,      \* what the tool's result shows
    due,        \* a Run of the task is still to come: its first one, or the recovery's
    traced,     \* TOOL_RESULT events in the trace log
    calls,      \* history: calls of tools, over all runs
    consults,   \* history: consultations of the planner that could go on investigating
    crashes, faults

vars == <<request, disk, mem, pc, scope, finalOnly, decision, sight, due, traced,
          calls, consults, crashes, faults>>

FileTools == {"file.stat", "file.find_large"}
(* For each kind of target a tool whose results show such targets. *)
EvidenceTool == [service |-> "service.get_status", process |-> "process.get_details"]
NoPath == <<"-">>

(* managedActionCapabilities *)
ManagedActions == {"service.restart", "process.terminate"}
ActionType == [t \in ManagedActions |-> IF t = "service.restart" THEN "service" ELSE "process"]

NoTarget == [type |-> "", id |-> "", critical |-> FALSE]
NoDecision == [kind |-> "none", tool |-> "", path |-> NoPath, target |-> NoTarget]
Decisions ==
    [kind : {"final", "replan"}, tool : {""}, path : {NoPath}, target : {NoTarget}]
    \cup [kind : {"tool"}, tool : Tools \cap FileTools, path : Paths \cup {NoPath},
          target : {NoTarget}]
    \cup [kind : {"tool"}, tool : Tools \ FileTools, path : {NoPath}, target : {NoTarget}]
    \cup [kind : {"action_request"}, tool : ManagedActions, path : {NoPath}, target : Targets]

(* What a result of a tool can show: the identity of a target, nothing of use, or an error. *)
Sights(tool) ==
    {"nothing", "error"}
    \cup {g.id : g \in {t \in Targets : EvidenceTool[t.type] = tool}}

Settled == {"COMPLETED", "FAILED", "WAITING_APPROVAL"}
States == {"CREATED", "PLANNING", "INVESTIGATING", "REPLANNING"} \cup Settled

NewTask ==
    [state |-> "CREATED", planned |-> FALSE, iterations |-> 0, toolCalls |-> 0,
     replans |-> 0, repeats |-> 0, evidence |-> <<>>, deadline |-> 0,
     action |-> NoDecision, token |-> 0, fence |-> 0, expires |-> 0]

NoScope == [authorized |-> {}, excluded |-> {}]

Init ==
    /\ request \in Requests
    /\ disk = NewTask /\ mem = NewTask
    /\ pc = "idle" /\ due = TRUE
    /\ scope = NoScope /\ finalOnly = FALSE /\ decision = NoDecision /\ sight = "nothing"
    /\ traced = 0 /\ calls = 0 /\ consults = 0 /\ crashes = 0 /\ faults = 0

-----------------------------------------------------------------------------
(* Saving and failing. *)

Fresh == disk.expires > 0

(* The runtime's value becomes m, SaveTask accepts it, and the run goes on at next. *)
Saved(m, next) ==
    /\ WriteAllowed(disk, m, Fresh)
    /\ disk' = m /\ mem' = m /\ pc' = next
    /\ UNCHANGED faults

(* Something fails: the run ends with an error. *)
Fault == faults < MaxFaults /\ faults' = faults + 1 /\ pc' = "failing"

(* SaveTask: refused when the lease is gone, or failing. *)
Save(m, next) ==
    \/ Saved(m, next)
    \/ mem' = m /\ UNCHANGED disk /\ Fault
    \/ /\ ~WriteAllowed(disk, m, Fresh)
       /\ mem' = m /\ pc' = "failing" /\ UNCHANGED <<disk, faults>>

(* SaveTask and then appendTrace, which may fail too. *)
SaveAndTrace(m, next) ==
    \/ Save(m, next)
    \/ WriteAllowed(disk, m, Fresh) /\ disk' = m /\ mem' = m /\ Fault

(* return value, err with what the runtime has become. *)
FailWith(m) == mem' = m /\ pc' = "failing" /\ UNCHANGED <<disk, faults>>

fixed == <<request, due, crashes>>

-----------------------------------------------------------------------------
(* The read scope of a request. *)

PathWithinScope(authorized, candidate) ==
    Len(authorized) <= Len(candidate) /\ SubSeq(candidate, 1, Len(authorized)) = authorized

(* deriveGeneralReadScope: a follow-up that names no path is about the session's selection. *)
DeriveGeneralReadScope(r, selected) ==
    [authorized |-> IF r.paths = {} /\ r.followup THEN selected ELSE r.paths,
     excluded |-> r.excluded]

Traverses(tool) == tool = "file.find_large"

(* Mutant: what a tool would traverse to is not compared with the exclusions. *)
ScopeViolationShallow(s, d) ==
    LET exclusionOnly == s.authorized = {} /\ s.excluded # {}
    IN  /\ s # NoScope
        /\ IF d.tool \notin FileTools THEN ~exclusionOnly
           ELSE \/ d.path = NoPath
                \/ \E x \in s.excluded : PathWithinScope(x, d.path)
                \/ ~exclusionOnly /\ \A a \in s.authorized : ~PathWithinScope(a, d.path)

(***************************************************************************)
(* validateGeneralReadScope: a scoped task reads with the path tools only, *)
(* never into or across an excluded path, and below an authorised one.     *)
(* NoPath stands for an argument that is missing or not absolute.          *)
(***************************************************************************)
ScopeViolation(s, d) ==
    LET exclusionOnly == s.authorized = {} /\ s.excluded # {}
    IN  /\ s # NoScope
        /\ IF d.tool \notin FileTools THEN ~exclusionOnly
           ELSE \/ d.path = NoPath
                \/ \E x \in s.excluded :
                      \/ PathWithinScope(x, d.path)
                      \/ Traverses(d.tool) /\ PathWithinScope(d.path, x)
                \/ ~exclusionOnly /\ \A a \in s.authorized : ~PathWithinScope(a, d.path)

-----------------------------------------------------------------------------
(* Run: claim, the loop, and the deferred end. *)

Claim ==
    LET claimed == [disk EXCEPT !.token = disk.fence + 1, !.fence = disk.fence + 1,
                                !.expires = LeaseTTL]
    IN  /\ pc = "idle" /\ due
        /\ disk.state \notin Settled
        /\ ClaimAllowed(disk, Fresh)
        /\ disk' = claimed /\ mem' = claimed /\ pc' = "enter"
        /\ finalOnly' = FALSE
        /\ UNCHANGED <<fixed, faults, scope, decision, sight, traced, calls, consults>>

(* Mutant: a resumed task starts with a new deadline and new counters. *)
EnterAnew ==
    /\ pc = "enter"
    /\ \E selected \in Selections : scope' = DeriveGeneralReadScope(request, selected)
    /\ SaveAndTrace([mem EXCEPT !.planned = TRUE, !.state = "PLANNING",
                                !.deadline = TaskTimeout, !.iterations = 0,
                                !.toolCalls = 0], "loop")
    /\ UNCHANGED <<fixed, finalOnly, decision, sight, traced, calls, consults>>

(* runGeneral up to its loop: a fresh task gets its deadline here, once. *)
Enter ==
    /\ pc = "enter"
    /\ \E selected \in Selections : scope' = DeriveGeneralReadScope(request, selected)
    /\ IF mem.planned
       THEN pc' = "loop" /\ UNCHANGED <<disk, mem, faults>>
       ELSE SaveAndTrace([mem EXCEPT !.planned = TRUE, !.state = "PLANNING",
                                     !.deadline = TaskTimeout], "loop")
    /\ UNCHANGED <<fixed, finalOnly, decision, sight, traced, calls, consults>>

ShouldFinalizeGeneral(m) == m.evidence # <<>> /\ m.deadline <= FinalizationReserve

(* Mutant: the finalisation that may follow the last iteration counts as one. *)
CountIterationAlways(m) == [m EXCEPT !.iterations = @ + 1]

CountIteration(m) ==
    [m EXCEPT !.iterations = IF @ >= MaxIterations THEN @ ELSE @ + 1]

(* The top of the loop: beginGeneralDecision and the save that precedes every consultation. *)
BeginGeneralDecision ==
    LET final == ShouldFinalizeGeneral(mem)
        spent == mem.iterations >= MaxIterations
        begun == CountIteration(mem)
    IN  /\ pc = "loop"
        /\ finalOnly' = final
        /\ \/ /\ mem.deadline = 0 \/ (spent /\ ~final)
              /\ FailWith(mem)
           \/ ~final /\ mem.deadline > 0 /\ ~spent /\ FailWith(begun)   \* no healthy tool
           \/ /\ mem.deadline > 0 /\ (spent => final)
              /\ Save([begun EXCEPT !.state = "INVESTIGATING"], "deciding")
        /\ consults' = consults + (IF pc' = "deciding" /\ ~final THEN 1 ELSE 0)
        /\ UNCHANGED <<fixed, scope, decision, sight, traced, calls>>

(* generalDecisionDeadline has come. *)
DecisionTimeUp ==
    IF finalOnly \/ mem.evidence = <<>> THEN mem.deadline = 0
    ELSE mem.deadline <= FinalizationReserve

(* Investigation is over: the planner is asked again, for a final answer only. *)
AskToFinalize ==
    /\ finalOnly' = TRUE
    /\ UNCHANGED <<pc, mem, disk, faults, decision>>

(* Mutant: every timeout asks once more. *)
DecideTimesOutRetries ==
    /\ pc = "deciding" /\ DecisionTimeUp
    /\ AskToFinalize
    /\ UNCHANGED <<fixed, scope, sight, traced, calls, consults>>

(* Planner.Decide runs into its deadline. *)
DecideTimesOut ==
    /\ pc = "deciding" /\ DecisionTimeUp
    /\ IF ~finalOnly /\ ShouldFinalizeGeneral(mem)
       THEN AskToFinalize
       ELSE FailWith(mem) /\ UNCHANGED <<finalOnly, decision>>
    /\ UNCHANGED <<fixed, scope, sight, traced, calls, consults>>

(* The provider fails, or answers what the schema or the tool list refuses. *)
DecideFails ==
    /\ pc = "deciding"
    /\ FailWith(mem)
    /\ UNCHANGED <<fixed, scope, finalOnly, decision, sight, traced, calls, consults>>

(* replanWithoutEvidence *)
ReplanWithoutEvidence(d) ==
    IF d.kind \in {"final", "action_request"} /\ mem.evidence = <<>>
    THEN [NoDecision EXCEPT !.kind = "replan"] ELSE d

(* The planner answers, at the latest when its time is just up. *)
Decide(d) ==
    /\ pc = "deciding"
    /\ mem.deadline > 0
    /\ IF ~finalOnly /\ ShouldFinalizeGeneral(mem) /\ d.kind # "final"
       THEN AskToFinalize
       ELSE /\ IF finalOnly /\ d.kind # "final"
               THEN FailWith(mem) /\ UNCHANGED decision
               ELSE /\ \/ /\ decision' = ReplanWithoutEvidence(d)
                          /\ pc' = "dispatch" /\ UNCHANGED faults
                       \/ Fault /\ UNCHANGED decision     \* DECISION_RECORDED is not written
                    /\ UNCHANGED <<mem, disk>>
            /\ UNCHANGED finalOnly
    /\ UNCHANGED <<fixed, scope, sight, traced, calls, consults>>

dispatching == <<fixed, scope, finalOnly, traced, calls, consults>>

(* The decision has been dealt with. *)
Handled == decision' = NoDecision /\ sight' = "nothing"

(* case DecisionReplan *)
Replan ==
    LET m == [mem EXCEPT !.replans = @ + 1]
    IN  /\ pc = "dispatch" /\ decision.kind = "replan"
        /\ IF m.replans > MaxReplans
           THEN FailWith(m)
           ELSE SaveAndTrace([m EXCEPT !.state = "REPLANNING"], "loop")
        /\ Handled /\ UNCHANGED dispatching

(* case DecisionFinal and completeGeneral: the completion gate, then the save. *)
CompleteGeneral ==
    /\ pc = "dispatch" /\ decision.kind = "final"
    /\ IF mem.evidence = <<>>
       THEN FailWith(mem)
       ELSE Save([mem EXCEPT !.state = "COMPLETED"], "completed")
    /\ Handled /\ UNCHANGED dispatching

(* The answer enters the session and the trace; an error here still fails the run. *)
PublishAnswer ==
    /\ pc = "completed"
    /\ \/ pc' = "releasing" /\ UNCHANGED faults
       \/ Fault
    /\ UNCHANGED <<dispatching, disk, mem, decision, sight>>

(* Mutant: any evidence will do. *)
EvidenceSupportsAny(m, target) == m.evidence # <<>>

(* structuredServiceIdentity and structuredProcessIdentity: the result names the target. *)
Shows(o, target) == o.sees = target.id

(* managedActionEvidenceSupports: an observation of a tool for such targets shows this one. *)
EvidenceSupports(m, target) ==
    \E i \in DOMAIN m.evidence :
        m.evidence[i].tool = EvidenceTool[target.type] /\ Shows(m.evidence[i], target)

(* managedActionIntentAllows and managedActionRequestTargets: the request asks for this action on this target. *)
RequestAuthorises(r, d) == r.action = d.tool /\ r.target = d.target.id

ManagedProposal(d) ==
    [tool |-> d.tool, effect |-> "write", target |-> d.target, batch |-> 1,
     reversible |-> FALSE, rollback |-> FALSE, unstable |-> FALSE, lab |-> TRUE,
     objective |-> {d.target}, plan |-> {d.target}, relations |-> {}]

(***************************************************************************)
(* case DecisionActionRequest: prepareGeneralManagedAction and Prepare.    *)
(* The operator must have authorised this action on this target, evidence  *)
(* must show the target, and the pipeline must ask for an approval; only   *)
(* then the task waits for one.                                            *)
(***************************************************************************)
PrepareGeneralManagedAction ==
    /\ pc = "dispatch" /\ decision.kind = "action_request"
    /\ \/ FailWith(mem)                                        \* the target's snapshot fails
       \/ IF /\ decision.target.type = ActionType[decision.tool]
             /\ RequestAuthorises(request, decision)
             /\ EvidenceSupports(mem, decision.target)
             /\ Evaluate(ManagedProposal(decision)).final = "REQUIRE_APPROVAL"
          THEN SaveAndTrace([mem EXCEPT !.state = "WAITING_APPROVAL", !.action = decision],
                            "releasing")
          ELSE FailWith(mem)
    /\ Handled /\ UNCHANGED dispatching

(* case DecisionTool, outside the read scope: a replan, recorded before it is judged. *)
RefuseRead ==
    LET m == [mem EXCEPT !.replans = @ + 1, !.state = "REPLANNING"]
    IN  /\ pc = "dispatch" /\ decision.kind = "tool"
        /\ ScopeViolation(scope, decision)
        /\ SaveAndTrace(m, IF m.replans > MaxReplans THEN "failing" ELSE "loop")
        /\ Handled /\ UNCHANGED dispatching

(* Mutant: the reservation is kept in memory until the result is saved. *)
ReserveToolCallUnsaved ==
    /\ pc = "dispatch" /\ decision.kind = "tool"
    /\ ~ScopeViolation(scope, decision)
    /\ IF mem.toolCalls >= MaxToolCalls
       THEN FailWith(mem)
       ELSE /\ mem' = [mem EXCEPT !.toolCalls = @ + 1] /\ pc' = "guarded"
            /\ UNCHANGED <<disk, faults>>
    /\ IF pc' = "failing" THEN Handled ELSE UNCHANGED <<decision, sight>>
    /\ UNCHANGED dispatching

(* case DecisionTool, inside it: the call is reserved on disk before it is made. *)
ReserveToolCall ==
    /\ pc = "dispatch" /\ decision.kind = "tool"
    /\ ~ScopeViolation(scope, decision)
    /\ IF mem.toolCalls >= MaxToolCalls
       THEN FailWith(mem)
       ELSE SaveAndTrace([mem EXCEPT !.toolCalls = @ + 1], "guarded")
    /\ IF pc' = "failing" THEN Handled ELSE UNCHANGED <<decision, sight>>
    /\ UNCHANGED dispatching

(* Registry.CallTool, and TOOL_RESULT for whatever came back; a trace write may fail before or after. *)
CallAndTrace ==
    \/ /\ calls' = calls + 1 /\ traced' = traced + 1
       /\ \E s \in Sights(decision.tool) : sight' = s
       /\ pc' = "observed" /\ UNCHANGED <<decision, faults>>
    \/ calls' \in {calls, calls + 1} /\ Fault /\ Handled /\ UNCHANGED traced

(* The pipeline's answer decides whether the tool is called. *)
CallTool ==
    /\ pc = "guarded"
    /\ IF Evaluate(ReadProposal(decision.tool)) = [level |-> "L0", final |-> "ALLOW"]
       THEN CallAndTrace
       ELSE pc' = "failing" /\ Handled /\ UNCHANGED <<faults, calls, traced>>
    /\ UNCHANGED <<fixed, scope, finalOnly, consults, disk, mem>>

(* observationDigest: server, tool, arguments and result. *)
Digest(o) == <<o.tool, o.path, o.sees>>

Same(m, o) == m.evidence # <<>> /\ Digest(m.evidence[Len(m.evidence)]) = Digest(o)

(* Mutant: a failed call, too, counts as progress. *)
RecordObservationErrors(m, o) ==
    [m EXCEPT !.repeats = IF Same(m, o) /\ o.sees # "error" THEN @ + 1 ELSE 0,
              !.evidence = Append(@, o)]

(* recordObservation; LastProgressDigest is always the digest of the last observation. *)
RecordObservation(m, o) ==
    [m EXCEPT !.repeats = IF Same(m, o) THEN @ + 1 ELSE 0, !.evidence = Append(@, o)]

(* The result, or recordGeneralToolFailure's account of a failed call, as an observation. *)
Observation == [ref |-> traced, tool |-> decision.tool, path |-> decision.path, sees |-> sight]

(* It becomes evidence. *)
Observe ==
    LET m == RecordObservation(mem, Observation)
    IN  /\ pc = "observed"
        /\ SaveAndTrace(m, IF m.repeats >= MaxNoProgressRepeats THEN "failing" ELSE "loop")
        /\ Handled /\ UNCHANGED dispatching

(* The deferred failure: FAILED is saved if it can be. *)
FailRun ==
    LET m == [mem EXCEPT !.state = "FAILED"]
    IN  /\ pc = "failing"
        /\ mem' = m /\ pc' = "releasing"
        /\ \/ disk' = (IF WriteAllowed(disk, m, Fresh) THEN m ELSE disk) /\ UNCHANGED faults
           \/ UNCHANGED disk /\ faults < MaxFaults /\ faults' = faults + 1
        /\ UNCHANGED <<dispatching, decision, sight>>

(* The deferred ReleaseTask ends the run. *)
ReleaseTask ==
    /\ pc = "releasing"
    /\ disk' = IF ReleaseAllowed(disk, mem.token, mem.fence)
               THEN [disk EXCEPT !.token = 0, !.expires = 0] ELSE disk
    /\ pc' = "idle" /\ due' = FALSE /\ mem' = NewTask
    /\ decision' = NoDecision /\ sight' = "nothing" /\ scope' = NoScope /\ finalOnly' = FALSE
    /\ UNCHANGED <<request, traced, calls, consults, crashes, faults>>

-----------------------------------------------------------------------------
(* The server ends and starts again: RecoverIncomplete will run the task. *)
Crash ==
    /\ crashes < MaxCrashes
    /\ crashes' = crashes + 1
    /\ pc' = "idle" /\ due' = TRUE /\ mem' = NewTask
    /\ decision' = NoDecision /\ sight' = "nothing" /\ scope' = NoScope /\ finalOnly' = FALSE
    /\ UNCHANGED <<request, disk, traced, calls, consults, faults>>

Later(t) == IF t = 0 THEN 0 ELSE t - 1
Closer(m) == [m EXCEPT !.deadline = Later(@), !.expires = Later(@)]

Tick ==
    /\ disk' = Closer(disk) /\ mem' = Closer(mem)
    /\ <<disk, mem>>' # <<disk, mem>>
    /\ UNCHANGED <<dispatching, pc, decision, sight, faults>>

(* The planner's answers; nothing obliges it to give one before its deadline. *)
PlannerAnswers == DecideFails \/ (\E d \in Decisions : Decide(d))

Step ==
    \/ Claim \/ Enter \/ BeginGeneralDecision \/ DecideTimesOut
    \/ Replan \/ CompleteGeneral \/ PublishAnswer \/ PrepareGeneralManagedAction
    \/ RefuseRead \/ ReserveToolCall \/ CallTool \/ Observe
    \/ FailRun \/ ReleaseTask

Next == Step \/ PlannerAnswers \/ Crash \/ Tick

(* The goroutine runs, tools and planner have timeouts, and time passes. *)
Spec == Init /\ [][Next]_vars /\ WF_vars(Step) /\ WF_vars(Tick)

-----------------------------------------------------------------------------
(* Properties. *)

Observations ==
    [ref : Nat, tool : Tools, path : Paths \cup {NoPath}, sees : UNION {Sights(t) : t \in Tools}]

RunTask ==
    [state : States, planned : BOOLEAN, iterations : 0..MaxIterations,
     toolCalls : 0..MaxToolCalls, replans : Nat, repeats : Nat, evidence : Seq(Observations),
     deadline : 0..TaskTimeout, action : Decisions \cup {NoDecision},
     token : Nat, fence : Nat, expires : 0..LeaseTTL]

(* Where a run goes on to work with the task as it was saved last. *)
Working == {"enter", "loop", "deciding", "dispatch", "guarded", "observed"}

(* RuntimeTypeOK: the variables stay in their ranges, through every error path. *)
RuntimeTypeOK ==
    /\ request \in Requests
    /\ disk \in RunTask /\ mem \in RunTask
    /\ pc \in Working \cup {"idle", "completed", "failing", "releasing"}
    /\ decision \in Decisions \cup {NoDecision}
    /\ sight \in {"nothing"} \cup UNION {Sights(t) : t \in Tools}
    /\ scope \in [authorized : SUBSET Paths, excluded : SUBSET Paths]
    /\ finalOnly \in BOOLEAN /\ due \in BOOLEAN
    /\ {traced, calls, consults, crashes, faults} \subseteq Nat

(***************************************************************************)
(* WorkingCopy: while a run works, the task file is the value it works on, *)
(* and holds no outcome yet.                                               *)
(***************************************************************************)
WorkingCopy == pc \in Working => mem = disk /\ disk.state \notin Settled

(***************************************************************************)
(* Accounts: the counters in the task file account for every call and      *)
(* every consultation made so far, for the one that is about to be made    *)
(* too, and what a failing run may still write loses none of them.         *)
(***************************************************************************)
Accounts ==
    /\ calls <= disk.toolCalls /\ consults <= disk.iterations
    /\ pc = "guarded" => calls < disk.toolCalls
    /\ pc # "idle" => calls <= mem.toolCalls /\ consults <= mem.iterations

(***************************************************************************)
(* ReplansCounted: a run that works, or is still to come, has replans left *)
(* (every crash before FAILED is saved may add one).                       *)
(***************************************************************************)
ReplansCounted ==
    /\ pc \in Working \/ (pc = "idle" /\ due) => disk.replans <= MaxReplans + crashes
    /\ disk.replans <= MaxReplans + 1 + crashes /\ mem.replans <= MaxReplans + 1 + crashes

(* repeats counts how often the last observation of m came again, and no further back. *)
RepeatsExact(m) ==
    LET n == Len(m.evidence)
    IN  /\ n = 0 => m.repeats = 0
        /\ n > m.repeats + 1 =>
              Digest(m.evidence[n - m.repeats - 1]) # Digest(m.evidence[n])

(* RepeatsCounted: it does so on disk and in memory, and a first run that works is below the limit. *)
RepeatsCounted ==
    /\ RepeatsExact(disk) /\ RepeatsExact(mem)
    /\ crashes = 0 /\ (pc \in Working \/ (pc = "idle" /\ due)) =>
          disk.evidence = <<>> \/ disk.repeats < MaxNoProgressRepeats

(* CallView: the scope of a run, and of a call what has been decided on the way to it. *)
CallView ==
    /\ pc \in Working \ {"enter"} => scope.excluded = request.excluded
    /\ pc \in {"guarded", "observed"} =>
          decision.kind = "tool" /\ ~ScopeViolation(scope, decision)
    /\ pc = "observed" => /\ Evaluate(ReadProposal(decision.tool)).final = "ALLOW"
                          /\ traced > 0

(* EvidenceTraced: every observation, saved or about to be, is a result the trace holds. *)
EvidenceTraced ==
    \A m \in {disk, mem} : \A i \in DOMAIN m.evidence : m.evidence[i].ref \in 1..traced

(***************************************************************************)
(* BudgetsHold: over all runs of a task, whatever restarts come between    *)
(* them, tools are called at most MaxToolCalls times and the planner is    *)
(* asked how to go on at most MaxIterations times.                         *)
(***************************************************************************)
BudgetsHold == calls <= MaxToolCalls /\ consults <= MaxIterations

(***************************************************************************)
(* ProgressRequired: after MaxNoProgressRepeats repetitions of one         *)
(* observation, failed calls included, the planner is not asked again and  *)
(* no tool is called (a restart before FAILED is saved forgets that the    *)
(* run was over, and allows one more).                                     *)
(***************************************************************************)
ProgressRequired ==
    LET n == Len(mem.evidence)
    IN  pc \in {"deciding", "dispatch", "guarded"} /\ crashes = 0 /\ n > MaxNoProgressRepeats
        => \E i \in (n - MaxNoProgressRepeats)..n :
              Digest(mem.evidence[i]) # Digest(mem.evidence[n])

(***************************************************************************)
(* RuntimeInv: the counters stay in range on disk and in memory, and so do *)
(* the calls they stand for, and a run that repeats itself stops; with     *)
(* what the counters say at each point of a run, which makes it so.        *)
(***************************************************************************)
RuntimeInv ==
    /\ RuntimeTypeOK
    /\ WorkingCopy
    /\ Accounts
    /\ ReplansCounted
    /\ RepeatsCounted
    /\ EvidenceTraced
    /\ CallView
    /\ BudgetsHold
    /\ ProgressRequired

(* What a call reads: a path, or all below it. *)
Touches(d) ==
    {p \in Paths : p = d.path \/ (Traverses(d.tool) /\ PathWithinScope(d.path, p))}

(***************************************************************************)
(* ReadsInScope: a tool that is called is a read of the catalogue; it      *)
(* touches nothing the operator excluded, and when the request or the      *)
(* session's selection names paths it touches nothing outside them.        *)
(***************************************************************************)
ReadsInScope ==
    pc = "observed" =>
        /\ Known(decision.tool) /\ Catalog[decision.tool].effect = "read"
        /\ \A p \in Touches(decision), x \in request.excluded : ~PathWithinScope(x, p)
        /\ scope.authorized # {} =>
              /\ Touches(decision) # {}
              /\ \A p \in Touches(decision) : \E a \in scope.authorized : PathWithinScope(a, p)

(***************************************************************************)
(* OutcomeGrounded: a task completes or waits for an approval only with    *)
(* evidence, every piece of which is in the trace; and it waits only for   *)
(* an action the operator asked for, on a target that is not critical and  *)
(* that an observation of a fitting tool has shown.                        *)
(***************************************************************************)
OutcomeGrounded ==
    /\ disk.state \in {"COMPLETED", "WAITING_APPROVAL"} => disk.evidence # <<>>
    /\ \A i \in DOMAIN disk.evidence : disk.evidence[i].ref \in 1..traced
    /\ disk.state = "WAITING_APPROVAL" =>
          /\ request.action = disk.action.tool /\ request.target = disk.action.target.id
          /\ ~disk.action.target.critical
          /\ \E i \in DOMAIN disk.evidence :
                /\ disk.evidence[i].tool = EvidenceTool[disk.action.target.type]
                /\ disk.evidence[i].sees = request.target

(***************************************************************************)
(* RunEnds: no run goes on for ever, whatever the planner answers: the     *)
(* loop of runGeneral ends by its counters or by its deadline.             *)
(***************************************************************************)
RunEnds == pc # "idle" ~> pc = "idle"
=============================================================================
